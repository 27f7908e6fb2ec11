---------------------------- MODULE MCDispatcher ----------------------------
(***************************************************************************)
(* Instances of Dispatcher for TLC.                                        *)
(***************************************************************************)
EXTENDS Dispatcher, TLC

CONSTANTS c1, c2, m1, m2, m3, m4

OnMessages(f) == [m \in Messages |-> f[m]]

(* One chat for all messages, or three in one chat and one in another.     *)
AllInOne == [m \in Messages |-> c1]
TwoChats == OnMessages(m1 :> c1 @@ m2 :> c1 @@ m3 :> c2 @@ m4 :> c1)

(* A prompt, a stop for it, another prompt and an attachment.              *)
StopMix ==
  OnMessages(m1 :> "user" @@ m2 :> "stop" @@ m3 :> "user" @@ m4 :> "file")

(* Two heartbeats compete with a prompt and an empty message.              *)
HeartbeatMix ==
  OnMessages(m1 :> "heartbeat" @@ m2 :> "heartbeat" @@ m3 :> "user" @@ m4 :> "empty")

(* A heartbeat and prompts.                                                *)
PreemptMix ==
  OnMessages(m1 :> "heartbeat" @@ m2 :> "user" @@ m3 :> "user" @@ m4 :> "user")

(* Messages answered without the agent, a stop, and a prompt.              *)
CommandMix ==
  OnMessages(m1 :> "blob" @@ m2 :> "stop" @@ m3 :> "user" @@ m4 :> "cmd")

(* Prompts only.                                                           *)
Prompts == OnMessages([m \in {m1, m2, m3, m4} |-> "user"])
=============================================================================
