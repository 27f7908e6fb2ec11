--------------------------- MODULE DispatcherProofs ---------------------------
(***************************************************************************)
(* Theorems about Dispatcher, for every set of chats and messages and every*)
(* capacity and bound.                                                     *)
(***************************************************************************)
EXTENDS Dispatcher, FiniteSetTheorems, TLAPS

-----------------------------------------------------------------------------
(***************************************************************************)
(* The content of a channel                                                *)
(***************************************************************************)

(* Sending adds the message and keeps the others.                          *)
LEMMA ElemsAppend ==
  ASSUME NEW S, NEW s \in Seq(S), NEW x \in S
  PROVE  Elems(Append(s, x)) = Elems(s) \cup {x}
<1>1. Len(Append(s, x)) = Len(s) + 1 /\ Len(s) \in Nat
  OBVIOUS
<1>2. \A i \in 1..Len(s) : Append(s, x)[i] = s[i]
  OBVIOUS
<1>3. Append(s, x)[Len(s) + 1] = x
  OBVIOUS
<1>4. 1..(Len(s) + 1) = (1..Len(s)) \cup {Len(s) + 1}
  BY <1>1
<1>. QED
  BY <1>1, <1>2, <1>3, <1>4 DEF Elems

(* Receiving takes out the head and keeps the others.                      *)
LEMMA ElemsTail ==
  ASSUME NEW S, NEW s \in Seq(S), s # <<>>
  PROVE  /\ Elems(s) = {Head(s)} \cup Elems(Tail(s))
         /\ Head(s) \in S
         /\ Tail(s) \in Seq(S)
         /\ Len(Tail(s)) = Len(s) - 1
<1>1. Len(s) \in Nat /\ Len(s) > 0 /\ Len(Tail(s)) = Len(s) - 1
  OBVIOUS
<1>2. Head(s) = s[1] /\ Head(s) \in S /\ Tail(s) \in Seq(S)
  OBVIOUS
<1>3. \A i \in 1..Len(Tail(s)) : Tail(s)[i] = s[i + 1]
  OBVIOUS
<1>4. ASSUME NEW m \in Elems(s)
      PROVE  m \in {Head(s)} \cup Elems(Tail(s))
  <2>1. PICK i \in 1..Len(s) : m = s[i]
    BY DEF Elems
  <2>2. CASE i = 1
    BY <2>1, <2>2, <1>2
  <2>3. CASE i # 1
    <3>1. i - 1 \in 1..Len(Tail(s)) /\ (i - 1) + 1 = i
      BY <2>3, <1>1
    <3>2. Tail(s)[i - 1] = s[i]
      BY <3>1, <1>3
    <3>. QED
      BY <2>1, <3>1, <3>2 DEF Elems
  <2>. QED
    BY <2>2, <2>3
<1>5. ASSUME NEW m \in {Head(s)} \cup Elems(Tail(s))
      PROVE  m \in Elems(s)
  <2>1. CASE m = Head(s)
    <3>1. 1 \in 1..Len(s)
      BY <1>1
    <3>. QED
      BY <2>1, <3>1, <1>2 DEF Elems
  <2>2. CASE m \in Elems(Tail(s))
    <3>1. PICK i \in 1..Len(Tail(s)) : m = Tail(s)[i]
      BY <2>2 DEF Elems
    <3>2. i + 1 \in 1..Len(s)
      BY <1>1
    <3>. QED
      BY <3>1, <3>2, <1>3 DEF Elems
  <2>. QED
    BY <1>5, <2>1, <2>2
<1>. QED
  BY <1>1, <1>2, <1>4, <1>5

LEMMA ElemsEmpty == Elems(<<>>) = {}
BY DEF Elems

LEMMA ElemsType ==
  ASSUME NEW S, NEW s \in Seq(S)
  PROVE  Elems(s) \subseteq S
BY DEF Elems

(* persistent_history keeps its type.                                      *)
LEMMA RememberType ==
  ASSUME NEW h \in Seq(Messages), NEW m \in Messages
  PROVE  Remember(h, m) \in Seq(Messages)
<1>1. CASE Len(h) < HistCap
  BY <1>1 DEF Remember
<1>2. CASE ~(Len(h) < HistCap)
  <2>1. h # <<>>
    BY <1>2, BoundAssumption
  <2>2. Tail(h) \in Seq(Messages)
    BY <2>1, ElemsTail
  <2>. QED
    BY <1>2, <2>2 DEF Remember
<1>. QED
  BY <1>1, <1>2

-----------------------------------------------------------------------------
(***************************************************************************)
(* The inductive invariant                                                 *)
(***************************************************************************)

Busy == {"begin", "cmd", "poll", "round", "post", "panicked"}

(* Who holds a message, and which slot it belongs to, follows from the two *)
(* program counters: a worker has a message in hand exactly while it is    *)
(* busy, the dispatcher exactly while it is not receiving; a chat without  *)
(* a worker has an empty queue, so a fresh queue throws nothing away.      *)
Handoff ==
  /\ cur = NoMsg <=> dpc = "recv"
  /\ dpc = "send" => slot[ChatOf[cur]]
  /\ \A c \in Chats :
       /\ slot[c] => wpc[c] # "none"
       /\ ~slot[c] => wpc[c] \in {"none", "dead"}
       /\ wpc[c] \in {"none", "dead"} => queue[c] = <<>>
       /\ wmsg[c] # NoMsg <=> wpc[c] \in Busy

(* The channels, the hands and the flags of the executor have their types, *)
(* and the hand-over facts hold, in every step of the code.                *)
LEMMA InitType == Init => TypeOK /\ Handoff
<1>. SUFFICES ASSUME Init PROVE TypeOK /\ Handoff
  OBVIOUS
<1>1. TypeOK
  BY BoundAssumption DEF Init, TypeOK, ChannelsOK, ControlOK, HistoriesOK, RecordsOK,
                         DispatcherPCs, WorkerPCs
<1>2. Handoff
  BY DEF Init, Handoff, Busy
<1>. QED
  BY <1>1, <1>2

(* A busy dispatcher or worker holds a message of some chat.               *)
LEMMA InHand ==
  ASSUME TypeOK, Handoff
  PROVE  /\ dpc # "recv" => cur \in Messages /\ ChatOf[cur] \in Chats
         /\ \A c \in Chats : wpc[c] \in Busy => wmsg[c] \in Messages
         /\ \A c \in Chats : Elems(queue[c]) \subseteq Messages
         /\ \A c \in Chats : Elems(pending[c]) \subseteq Messages
         /\ Elems(unified) \subseteq Messages
<1>1. dpc # "recv" => cur \in Messages /\ ChatOf[cur] \in Chats
  BY InstanceAssumption DEF TypeOK, ControlOK, Handoff
<1>2. \A c \in Chats : wpc[c] \in Busy => wmsg[c] \in Messages
  BY DEF TypeOK, ControlOK, Handoff
<1>3. /\ unified \in Seq(Messages)
      /\ \A c \in Chats : queue[c] \in Seq(Messages) /\ pending[c] \in Seq(Messages)
  BY DEF TypeOK, ChannelsOK
<1>. QED
  BY <1>1, <1>2, <1>3, ElemsType

(* The head of a non-empty channel is a message of some chat.              *)
LEMMA HeadMessage ==
  ASSUME NEW s \in Seq(Messages), s # <<>>
  PROVE  /\ Head(s) \in Messages
         /\ ChatOf[Head(s)] \in Chats
         /\ Tail(s) \in Seq(Messages)
         /\ Len(Tail(s)) = Len(s) - 1
         /\ Elems(s) = {Head(s)} \cup Elems(Tail(s))
BY ElemsTail, InstanceAssumption

LEMMA PanicCounted ==
  ASSUME TypeOK, faults.panics < MaxPanics
  PROVE  [faults EXCEPT !.panics = @ + 1]
           \in [panics : 0..MaxPanics, restarts : 0..MaxRestarts]
<1>1. /\ faults \in [panics : 0..MaxPanics, restarts : 0..MaxRestarts]
      /\ faults.panics + 1 \in 0..MaxPanics
  BY BoundAssumption DEF TypeOK, RecordsOK
<1>. QED
  BY <1>1

LEMMA RestartCounted ==
  ASSUME TypeOK, faults.restarts < MaxRestarts
  PROVE  [faults EXCEPT !.restarts = @ + 1]
           \in [panics : 0..MaxPanics, restarts : 0..MaxRestarts]
<1>1. /\ faults \in [panics : 0..MaxPanics, restarts : 0..MaxRestarts]
      /\ faults.restarts + 1 \in 0..MaxRestarts
  BY BoundAssumption DEF TypeOK, RecordsOK
<1>. QED
  BY <1>1

(* Every action keeps the types.                                           *)
LEMMA NextType ==
  ASSUME TypeOK, Handoff, [Next]_vars
  PROVE  TypeOK'
<1>. USE InstanceAssumption, BoundAssumption
<1>. USE DEF TypeOK
<1>1. ASSUME NEW m \in Messages, Arrive(m) PROVE TypeOK'
  <2>1. ChannelsOK'
    BY <1>1 DEF Arrive, ChannelsOK
  <2>2. ControlOK'
    BY <1>1 DEF Arrive, ControlOK, flagVars, workVars
  <2>3. HistoriesOK'
    BY <1>1 DEF Arrive, HistoriesOK, workVars
  <2>4. RecordsOK'
    BY <1>1 DEF Arrive, RecordsOK, doneVars, noteVars
  <2>. QED
    BY <2>1, <2>2, <2>3, <2>4
<1>2. CASE RecvHeartbeatQueue
  <2>0. /\ Head(unified) \in Messages
        /\ ChatOf[Head(unified)] \in Chats
        /\ Tail(unified) \in Seq(Messages)
        /\ Len(Tail(unified)) = Len(unified) - 1
    BY <1>2, HeadMessage DEF RecvHeartbeatQueue, ChannelsOK
  <2>1. ChannelsOK'
    BY <1>2, <2>0 DEF RecvHeartbeatQueue, ChannelsOK
  <2>2. ControlOK'
    BY <1>2 DEF RecvHeartbeatQueue, ControlOK, flagVars, workVars
  <2>3. HistoriesOK'
    BY <1>2 DEF RecvHeartbeatQueue, HistoriesOK, workVars
  <2>4. RecordsOK'
    BY <1>2 DEF RecvHeartbeatQueue, RecordsOK, doneVars, noteVars
  <2>. QED
    BY <2>1, <2>2, <2>3, <2>4
<1>3. CASE RecvHeartbeatSkip
  <2>0. /\ Head(unified) \in Messages
        /\ ChatOf[Head(unified)] \in Chats
        /\ Tail(unified) \in Seq(Messages)
        /\ Len(Tail(unified)) = Len(unified) - 1
    BY <1>3, HeadMessage DEF RecvHeartbeatSkip, ChannelsOK
  <2>1. ChannelsOK'
    BY <1>3, <2>0 DEF RecvHeartbeatSkip, ChannelsOK
  <2>2. ControlOK'
    BY <1>3 DEF RecvHeartbeatSkip, ControlOK, flagVars, workVars
  <2>3. HistoriesOK'
    BY <1>3 DEF RecvHeartbeatSkip, HistoriesOK, workVars
  <2>4. RecordsOK'
    BY <1>3, <2>0 DEF RecvHeartbeatSkip, RecordsOK, noteVars
  <2>. QED
    BY <2>1, <2>2, <2>3, <2>4
<1>4. CASE RecvHeartbeatSpawn
  <2>0. /\ Head(unified) \in Messages
        /\ ChatOf[Head(unified)] \in Chats
        /\ Tail(unified) \in Seq(Messages)
        /\ Len(Tail(unified)) = Len(unified) - 1
    BY <1>4, HeadMessage DEF RecvHeartbeatSpawn, ChannelsOK
  <2>1. ChannelsOK'
    BY <1>4, <2>0 DEF RecvHeartbeatSpawn, ChannelsOK, SpawnWorker
  <2>2. ControlOK'
    BY <1>4, <2>0 DEF RecvHeartbeatSpawn, ControlOK, SpawnWorker, WorkerPCs
  <2>3. HistoriesOK'
    BY <1>4 DEF RecvHeartbeatSpawn, HistoriesOK
  <2>4. RecordsOK'
    BY <1>4, <2>0 DEF RecvHeartbeatSpawn, RecordsOK, noteVars, SpawnWorker
  <2>. QED
    BY <2>1, <2>2, <2>3, <2>4
<1>5. CASE RecvMessage
  <2>0. /\ Head(unified) \in Messages
        /\ ChatOf[Head(unified)] \in Chats
        /\ Tail(unified) \in Seq(Messages)
        /\ Len(Tail(unified)) = Len(unified) - 1
    BY <1>5, HeadMessage DEF RecvMessage, ChannelsOK
  <2>1. ChannelsOK'
    BY <1>5, <2>0 DEF RecvMessage, ChannelsOK
  <2>2. ControlOK'
    BY <1>5, <2>0 DEF RecvMessage, ControlOK, flagVars, workVars,
        DispatcherPCs
  <2>3. HistoriesOK'
    BY <1>5 DEF RecvMessage, HistoriesOK, workVars
  <2>4. RecordsOK'
    BY <1>5 DEF RecvMessage, RecordsOK, doneVars, noteVars
  <2>. QED
    BY <2>1, <2>2, <2>3, <2>4
<1>6. CASE PreemptHeartbeat
  <2>0. cur \in Messages /\ ChatOf[cur] \in Chats
    BY <1>6, InHand DEF PreemptHeartbeat
  <2>1. ChannelsOK'
    BY <1>6 DEF PreemptHeartbeat, ChannelsOK
  <2>2. ControlOK'
    BY <1>6, <2>0 DEF PreemptHeartbeat, ControlOK, workVars, DispatcherPCs
  <2>3. HistoriesOK'
    BY <1>6 DEF PreemptHeartbeat, HistoriesOK, workVars
  <2>4. RecordsOK'
    BY <1>6 DEF PreemptHeartbeat, RecordsOK, doneVars, noteVars
  <2>. QED
    BY <2>1, <2>2, <2>3, <2>4
<1>7. CASE StopCommand
  <2>0. cur \in Messages /\ ChatOf[cur] \in Chats
    BY <1>7, InHand DEF StopCommand
  <2>1. ChannelsOK'
    BY <1>7 DEF StopCommand, ChannelsOK
  <2>2. ControlOK'
    BY <1>7, <2>0 DEF StopCommand, ControlOK, workVars, DispatcherPCs
  <2>3. HistoriesOK'
    BY <1>7 DEF StopCommand, HistoriesOK, workVars
  <2>4. RecordsOK'
    <3>1. Active(ChatOf[cur]) => wmsg[ChatOf[cur]] \in Messages
      BY <2>0, InHand DEF Active, Busy
    <3>2. stopped' \subseteq Messages
      BY <1>7, <3>1 DEF StopCommand, RecordsOK
    <3>. QED
      BY <1>7, <2>0, <3>2 DEF StopCommand, RecordsOK
  <2>. QED
    BY <2>1, <2>2, <2>3, <2>4
<1>8. CASE NotePending
  <2>0. cur \in Messages /\ ChatOf[cur] \in Chats
    BY <1>8, InHand DEF NotePending
  <2>1. ChannelsOK'
    BY <1>8, <2>0 DEF NotePending, ChannelsOK
  <2>2. ControlOK'
    BY <1>8, <2>0 DEF NotePending, ControlOK, flagVars, workVars,
        DispatcherPCs
  <2>3. HistoriesOK'
    BY <1>8 DEF NotePending, HistoriesOK, workVars
  <2>4. RecordsOK'
    BY <1>8 DEF NotePending, RecordsOK, doneVars, noteVars
  <2>. QED
    BY <2>1, <2>2, <2>3, <2>4
<1>9. CASE EnsureWorker
  <2>0. cur \in Messages /\ ChatOf[cur] \in Chats
    BY <1>9, InHand DEF EnsureWorker
  <2>1. ChannelsOK'
    BY <1>9, <2>0 DEF EnsureWorker, ChannelsOK, SpawnWorker
  <2>2. ControlOK'
    BY <1>9, <2>0 DEF EnsureWorker, ControlOK, SpawnWorker, WorkerPCs,
        DispatcherPCs
  <2>3. HistoriesOK'
    BY <1>9 DEF EnsureWorker, HistoriesOK
  <2>4. RecordsOK'
    BY <1>9 DEF EnsureWorker, RecordsOK, doneVars, noteVars
  <2>. QED
    BY <2>1, <2>2, <2>3, <2>4
<1>10. CASE Send
  <2>0. cur \in Messages /\ ChatOf[cur] \in Chats
    BY <1>10, InHand DEF Send
  <2>1. ChannelsOK'
    BY <1>10, <2>0 DEF Send, ChannelsOK
  <2>2. ControlOK'
    BY <1>10, <2>0 DEF Send, ControlOK, flagVars, workVars, DispatcherPCs
  <2>3. HistoriesOK'
    BY <1>10 DEF Send, HistoriesOK, workVars
  <2>4. RecordsOK'
    BY <1>10 DEF Send, RecordsOK, doneVars, noteVars
  <2>. QED
    BY <2>1, <2>2, <2>3, <2>4
<1>11. CASE SendDead
  <2>0. cur \in Messages /\ ChatOf[cur] \in Chats
    BY <1>11, InHand DEF SendDead
  <2>1. ChannelsOK'
    BY <1>11, <2>0 DEF SendDead, ChannelsOK
  <2>2. ControlOK'
    BY <1>11, <2>0 DEF SendDead, ControlOK, flagVars, workVars, DispatcherPCs
  <2>3. HistoriesOK'
    BY <1>11 DEF SendDead, HistoriesOK, workVars
  <2>4. RecordsOK'
    BY <1>11 DEF SendDead, RecordsOK, doneVars, noteVars
  <2>. QED
    BY <2>1, <2>2, <2>3, <2>4
<1>12. CASE Redispatch
  <2>0. cur \in Messages /\ ChatOf[cur] \in Chats
    BY <1>12, InHand DEF Redispatch
  <2>1. ChannelsOK'
    BY <1>12, <2>0 DEF Redispatch, ChannelsOK
  <2>2. ControlOK'
    BY <1>12, <2>0 DEF Redispatch, ControlOK, flagVars, workVars, DispatcherPCs
  <2>3. HistoriesOK'
    BY <1>12 DEF Redispatch, HistoriesOK, workVars
  <2>4. RecordsOK'
    BY <1>12, <2>0 DEF Redispatch, RecordsOK, doneVars, noteVars
  <2>. QED
    BY <2>1, <2>2, <2>3, <2>4
<1>13. ASSUME NEW c \in Chats, WorkerRestore(c) PROVE TypeOK'
  <2>1. ChannelsOK'
    BY <1>13 DEF WorkerRestore, ChannelsOK
  <2>2. ControlOK'
    BY <1>13 DEF WorkerRestore, ControlOK, flagVars, WorkerPCs
  <2>3. HistoriesOK'
    <3>1. PICK h \in {saved[c], <<>>} : hist' = [hist EXCEPT ![c] = h]
      BY <1>13 DEF WorkerRestore
    <3>a. saved[c] \in Seq(Messages)
      BY DEF HistoriesOK
    <3>b. <<>> \in Seq(Messages)
      OBVIOUS
    <3>2. h \in Seq(Messages)
      BY <3>a, <3>b
    <3>. QED
      BY <1>13, <3>1, <3>2 DEF WorkerRestore, HistoriesOK
  <2>4. RecordsOK'
    BY <1>13 DEF WorkerRestore, RecordsOK, doneVars, noteVars
  <2>. QED
    BY <2>1, <2>2, <2>3, <2>4
<1>14. ASSUME NEW c \in Chats, WorkerRecv(c) PROVE TypeOK'
  <2>0. /\ Head(queue[c]) \in Messages
        /\ Tail(queue[c]) \in Seq(Messages)
        /\ Len(Tail(queue[c])) = Len(queue[c]) - 1
    BY <1>14, HeadMessage DEF WorkerRecv, ChannelsOK
  <2>1. ChannelsOK'
    BY <1>14, <2>0 DEF WorkerRecv, ChannelsOK
  <2>2. ControlOK'
    BY <1>14, <2>0 DEF WorkerRecv, ControlOK, WorkerPCs, Heartbeat
  <2>3. HistoriesOK'
    BY <1>14 DEF WorkerRecv, HistoriesOK
  <2>4. RecordsOK'
    <3>1. started' = [started EXCEPT ![c] = Append(@, Head(queue[c]))]
      BY <1>14 DEF WorkerRecv
    <3>2. started' \in [Chats -> Seq(Messages)]
      BY <2>0, <3>1 DEF RecordsOK
    <3>. QED
      BY <1>14, <3>2 DEF WorkerRecv, RecordsOK, doneVars, noteVars
  <2>. QED
    BY <2>1, <2>2, <2>3, <2>4
<1>15. ASSUME NEW c \in Chats, WorkerBegin(c) PROVE TypeOK'
  <2>0. wmsg[c] \in Messages
    BY <1>15, InHand DEF WorkerBegin, Busy
  <2>1. ChannelsOK'
    BY <1>15 DEF WorkerBegin, ChannelsOK
  <2>2. ControlOK'
    BY <1>15, <2>0 DEF WorkerBegin, BodyOf, ControlOK, WorkerPCs
  <2>3. HistoriesOK'
    BY <1>15 DEF WorkerBegin, HistoriesOK
  <2>4. RecordsOK'
    BY <1>15 DEF WorkerBegin, RecordsOK, doneVars, noteVars
  <2>. QED
    BY <2>1, <2>2, <2>3, <2>4
<1>16. ASSUME NEW c \in Chats, WorkerCommand(c) PROVE TypeOK'
  <2>0. wmsg[c] \in Messages
    BY <1>16, InHand DEF WorkerCommand, Busy
  <2>1. ChannelsOK'
    BY <1>16, <2>0 DEF WorkerCommand, ChannelsOK
  <2>2. ControlOK'
    BY <1>16, <2>0 DEF WorkerCommand, ControlOK, WorkerPCs
  <2>3. HistoriesOK'
    BY <1>16 DEF WorkerCommand, HistoriesOK
  <2>4. RecordsOK'
    BY <1>16, <2>0 DEF WorkerCommand, RecordsOK, noteVars
  <2>. QED
    BY <2>1, <2>2, <2>3, <2>4
<1>17. ASSUME NEW c \in Chats, WorkerInterrupted(c) PROVE TypeOK'
  <2>0. wmsg[c] \in Messages
    BY <1>17, InHand DEF WorkerInterrupted, Busy
  <2>1. ChannelsOK'
    BY <1>17 DEF WorkerInterrupted, ChannelsOK
  <2>2. ControlOK'
    BY <1>17, <2>0 DEF WorkerInterrupted, ControlOK, flagVars, WorkerPCs
  <2>3. HistoriesOK'
    BY <1>17 DEF WorkerInterrupted, HistoriesOK
  <2>4. RecordsOK'
    BY <1>17, <2>0 DEF WorkerInterrupted, RecordsOK, doneVars
  <2>. QED
    BY <2>1, <2>2, <2>3, <2>4
<1>18. ASSUME NEW c \in Chats, WorkerGiveUp(c) PROVE TypeOK'
  <2>1. ChannelsOK'
    BY <1>18 DEF WorkerGiveUp, ChannelsOK
  <2>2. ControlOK'
    BY <1>18 DEF WorkerGiveUp, ControlOK, flagVars, WorkerPCs
  <2>3. HistoriesOK'
    BY <1>18 DEF WorkerGiveUp, HistoriesOK
  <2>4. RecordsOK'
    BY <1>18 DEF WorkerGiveUp, RecordsOK, doneVars, noteVars
  <2>. QED
    BY <2>1, <2>2, <2>3, <2>4
<1>19. ASSUME NEW c \in Chats, WorkerRound(c) PROVE TypeOK'
  <2>1. ChannelsOK'
    BY <1>19 DEF WorkerRound, ChannelsOK
  <2>2. ControlOK'
    BY <1>19 DEF WorkerRound, ControlOK, flagVars, WorkerPCs
  <2>3. HistoriesOK'
    BY <1>19 DEF WorkerRound, HistoriesOK
  <2>4. RecordsOK'
    BY <1>19 DEF WorkerRound, RecordsOK, doneVars, noteVars
  <2>. QED
    BY <2>1, <2>2, <2>3, <2>4
<1>20. ASSUME NEW c \in Chats, WorkerTools(c) PROVE TypeOK'
  <2>0. wmsg[c] \in Messages
    BY <1>20, InHand DEF WorkerTools, Busy
  <2>1. ChannelsOK'
    BY <1>20, <2>0 DEF WorkerTools, ChannelsOK
  <2>2. ControlOK'
    BY <1>20, <2>0 DEF WorkerTools, ControlOK, flagVars, WorkerPCs
  <2>3. HistoriesOK'
    BY <1>20 DEF WorkerTools, HistoriesOK
  <2>4. RecordsOK'
    BY <1>20, <2>0, InHand DEF WorkerTools, RecordsOK, doneVars
  <2>. QED
    BY <2>1, <2>2, <2>3, <2>4
<1>21. ASSUME NEW c \in Chats, WorkerFinal(c) PROVE TypeOK'
  <2>1. ChannelsOK'
    BY <1>21 DEF WorkerFinal, ChannelsOK
  <2>2. ControlOK'
    BY <1>21 DEF WorkerFinal, ControlOK, flagVars, WorkerPCs
  <2>3. HistoriesOK'
    BY <1>21 DEF WorkerFinal, HistoriesOK
  <2>4. RecordsOK'
    BY <1>21 DEF WorkerFinal, RecordsOK, doneVars, noteVars
  <2>. QED
    BY <2>1, <2>2, <2>3, <2>4
<1>22. ASSUME NEW c \in Chats, WorkerRecover(c) PROVE TypeOK'
  <2>0. wmsg[c] \in Messages
    BY <1>22, InHand DEF WorkerRecover, Busy
  <2>1. ChannelsOK'
    BY <1>22, <2>0 DEF WorkerRecover, ChannelsOK
  <2>2. ControlOK'
    BY <1>22, <2>0 DEF WorkerRecover, ControlOK, WorkerPCs
  <2>3. HistoriesOK'
    BY <1>22 DEF WorkerRecover, HistoriesOK
  <2>4. RecordsOK'
    BY <1>22, <2>0 DEF WorkerRecover, RecordsOK, noteVars
  <2>. QED
    BY <2>1, <2>2, <2>3, <2>4
<1>23. ASSUME NEW c \in Chats, WorkerInnerPanic(c) PROVE TypeOK'
  <2>1. ChannelsOK'
    BY <1>23 DEF WorkerInnerPanic, ChannelsOK
  <2>2. ControlOK'
    BY <1>23 DEF WorkerInnerPanic, ControlOK, flagVars, WorkerPCs
  <2>3. HistoriesOK'
    BY <1>23 DEF WorkerInnerPanic, HistoriesOK
  <2>4. RecordsOK'
    BY <1>23, PanicCounted DEF WorkerInnerPanic, RecordsOK, doneVars, noteVars
  <2>. QED
    BY <2>1, <2>2, <2>3, <2>4
<1>24. ASSUME NEW c \in Chats, WorkerOuterPanic(c) PROVE TypeOK'
  <2>1. ChannelsOK'
    BY <1>24 DEF WorkerOuterPanic, ChannelsOK
  <2>2. ControlOK'
    BY <1>24 DEF WorkerOuterPanic, ControlOK, flagVars, WorkerPCs
  <2>3. HistoriesOK'
    <3>1. CASE UNCHANGED <<hist, saved>>
      BY <3>1 DEF HistoriesOK
    <3>2. CASE ~UNCHANGED <<hist, saved>>
      <4>1. wpc[c] = "post"
        BY <1>24, <3>2 DEF WorkerOuterPanic
      <4>2. TurnHistory(c) \in Seq(Messages)
        BY <4>1, InHand, RememberType DEF TurnHistory, HistoriesOK, Busy
      <4>3. hist' = [hist EXCEPT ![c] = TurnHistory(c)]
        BY <1>24, <3>2 DEF WorkerOuterPanic
      <4>4. saved' = saved \/ saved' = [saved EXCEPT ![c] = TurnHistory(c)]
        BY <1>24, <3>2 DEF WorkerOuterPanic
      <4>5. hist' \in [Chats -> Seq(Messages)]
        BY <4>2, <4>3 DEF HistoriesOK
      <4>6. saved' \in [Chats -> Seq(Messages)]
        BY <4>2, <4>4 DEF HistoriesOK
      <4>. QED
        BY <4>5, <4>6 DEF HistoriesOK
    <3>. QED
      BY <3>1, <3>2
  <2>4. RecordsOK'
    BY <1>24, PanicCounted DEF WorkerOuterPanic, RecordsOK, doneVars, noteVars
  <2>. QED
    BY <2>1, <2>2, <2>3, <2>4
<1>25. ASSUME NEW c \in Chats, WorkerDeath(c) PROVE TypeOK'
  <2>0. {wmsg[c]} \ {NoMsg} \subseteq Messages
    BY DEF ControlOK
  <2>1. ChannelsOK'
    BY <1>25, <2>0 DEF WorkerDeath, ChannelsOK
  <2>2. ControlOK'
    BY <1>25, <2>0 DEF WorkerDeath, ControlOK, flagVars, WorkerPCs
  <2>3. HistoriesOK'
    BY <1>25 DEF WorkerDeath, HistoriesOK
  <2>4. RecordsOK'
    BY <1>25, <2>0, PanicCounted, InHand DEF WorkerDeath, RecordsOK, noteVars,
        Holding
  <2>. QED
    BY <2>1, <2>2, <2>3, <2>4
<1>26. ASSUME NEW c \in Chats, NEW stored \in BOOLEAN, WorkerFinish(c, stored)
      PROVE  TypeOK'
  <2>0. wmsg[c] \in Messages
    BY <1>26, InHand DEF WorkerFinish, Busy
  <2>1. ChannelsOK'
    BY <1>26, <2>0 DEF WorkerFinish, ChannelsOK
  <2>2. ControlOK'
    BY <1>26, <2>0 DEF WorkerFinish, ControlOK, WorkerPCs
  <2>3. HistoriesOK'
    <3>1. TurnHistory(c) \in Seq(Messages)
      BY <2>0, RememberType DEF TurnHistory, HistoriesOK
    <3>. QED
      BY <1>26, <3>1 DEF WorkerFinish, HistoriesOK
  <2>4. RecordsOK'
    BY <1>26, <2>0 DEF WorkerFinish, RecordsOK, noteVars
  <2>. QED
    BY <2>1, <2>2, <2>3, <2>4
<1>27. CASE Restart
  <2>1. ChannelsOK'
    BY <1>27 DEF Restart, ChannelsOK
  <2>2. ControlOK'
    BY <1>27 DEF Restart, ControlOK, WorkerPCs, DispatcherPCs
  <2>3. HistoriesOK'
    BY <1>27 DEF Restart, HistoriesOK
  <2>4. RecordsOK'
    <3>1. InFlight \subseteq Messages
      BY InHand DEF InFlight, Holding, ControlOK
    <3>. QED
      BY <1>27, <3>1, RestartCounted DEF Restart, RecordsOK, noteVars
  <2>. QED
    BY <2>1, <2>2, <2>3, <2>4
<1>28. CASE UNCHANGED vars
  BY <1>28 DEF vars, ChannelsOK, ControlOK, HistoriesOK, RecordsOK
<1>. QED
  BY <1>1, <1>2, <1>3, <1>4, <1>5, <1>6, <1>7, <1>8, <1>9, <1>10, <1>11,
      <1>12, <1>13, <1>14, <1>15, <1>16, <1>17, <1>18, <1>19, <1>20, <1>21,
      <1>22, <1>23, <1>24, <1>25, <1>26, <1>27, <1>28 DEF Next,
      DispatcherStep, WorkerStep, Panic

(* Every action keeps the hand-over facts.                                 *)
LEMMA NextHandoff ==
  ASSUME TypeOK, Handoff, [Next]_vars
  PROVE  Handoff'
<1>. USE InstanceAssumption DEF Handoff
<1>0. NoMsg \notin Messages
  OBVIOUS
<1>1. ASSUME NEW m \in Messages, Arrive(m) PROVE Handoff'
  BY <1>1, <1>0 DEF Arrive, TypeOK, ControlOK, ChannelsOK, workVars
<1>2. CASE RecvHeartbeatQueue
  BY <1>2, <1>0, HeadMessage DEF RecvHeartbeatQueue, TypeOK, ControlOK,
      ChannelsOK, Alive, workVars
<1>3. CASE RecvHeartbeatSkip
  BY <1>3, <1>0, HeadMessage DEF RecvHeartbeatSkip, TypeOK, ControlOK,
      ChannelsOK, Alive, workVars
<1>4. CASE RecvHeartbeatSpawn
  BY <1>4, <1>0, HeadMessage DEF RecvHeartbeatSpawn, TypeOK, ControlOK,
      ChannelsOK, Busy, SpawnWorker
<1>5. CASE RecvMessage
  BY <1>5, <1>0, HeadMessage DEF RecvMessage, TypeOK, ControlOK, ChannelsOK,
      workVars
<1>6. CASE PreemptHeartbeat
  BY <1>6, <1>0, InHand DEF PreemptHeartbeat, TypeOK, ControlOK, ChannelsOK,
      workVars
<1>7. CASE StopCommand
  BY <1>7, <1>0, InHand DEF StopCommand, TypeOK, ControlOK, ChannelsOK, Busy,
      workVars
<1>8. CASE NotePending
  BY <1>8, <1>0, InHand DEF NotePending, TypeOK, ControlOK, ChannelsOK,
      workVars
<1>9. CASE EnsureWorker
  BY <1>9, <1>0, InHand DEF EnsureWorker, TypeOK, ControlOK, ChannelsOK, Busy,
      SpawnWorker
<1>10. CASE Send
  BY <1>10, <1>0, InHand DEF Send, TypeOK, ControlOK, ChannelsOK, Alive,
      workVars
<1>11. CASE SendDead
  BY <1>11, <1>0, InHand DEF SendDead, TypeOK, ControlOK, ChannelsOK, Alive,
      workVars
<1>12. CASE Redispatch
  BY <1>12, <1>0, InHand DEF Redispatch, TypeOK, ControlOK, ChannelsOK,
      workVars
<1>13. ASSUME NEW c \in Chats, WorkerRestore(c) PROVE Handoff'
  BY <1>13, <1>0 DEF WorkerRestore, TypeOK, ControlOK, ChannelsOK, Busy
<1>14. ASSUME NEW c \in Chats, WorkerRecv(c) PROVE Handoff'
  BY <1>14, <1>0, HeadMessage DEF WorkerRecv, TypeOK, ControlOK, ChannelsOK,
      Busy
<1>15. ASSUME NEW c \in Chats, WorkerBegin(c) PROVE Handoff'
  BY <1>15, <1>0 DEF WorkerBegin, BodyOf, TypeOK, ControlOK, ChannelsOK, Busy
<1>16. ASSUME NEW c \in Chats, WorkerCommand(c) PROVE Handoff'
  BY <1>16, <1>0 DEF WorkerCommand, TypeOK, ControlOK, ChannelsOK, Busy
<1>17. ASSUME NEW c \in Chats, WorkerInterrupted(c) PROVE Handoff'
  BY <1>17, <1>0 DEF WorkerInterrupted, TypeOK, ControlOK, ChannelsOK, Busy
<1>18. ASSUME NEW c \in Chats, WorkerGiveUp(c) PROVE Handoff'
  BY <1>18, <1>0 DEF WorkerGiveUp, TypeOK, ControlOK, ChannelsOK, Busy
<1>19. ASSUME NEW c \in Chats, WorkerRound(c) PROVE Handoff'
  BY <1>19, <1>0 DEF WorkerRound, TypeOK, ControlOK, ChannelsOK, Busy
<1>20. ASSUME NEW c \in Chats, WorkerTools(c) PROVE Handoff'
  BY <1>20, <1>0 DEF WorkerTools, TypeOK, ControlOK, ChannelsOK, Busy
<1>21. ASSUME NEW c \in Chats, WorkerFinal(c) PROVE Handoff'
  BY <1>21, <1>0 DEF WorkerFinal, TypeOK, ControlOK, ChannelsOK, Busy
<1>22. ASSUME NEW c \in Chats, WorkerRecover(c) PROVE Handoff'
  BY <1>22, <1>0 DEF WorkerRecover, TypeOK, ControlOK, ChannelsOK, Busy
<1>23. ASSUME NEW c \in Chats, WorkerInnerPanic(c) PROVE Handoff'
  BY <1>23, <1>0 DEF WorkerInnerPanic, TypeOK, ControlOK, ChannelsOK, Busy,
      Active
<1>24. ASSUME NEW c \in Chats, WorkerOuterPanic(c) PROVE Handoff'
  BY <1>24, <1>0 DEF WorkerOuterPanic, TypeOK, ControlOK, ChannelsOK, Busy
<1>25. ASSUME NEW c \in Chats, WorkerDeath(c) PROVE Handoff'
  BY <1>25, <1>0 DEF WorkerDeath, TypeOK, ControlOK, ChannelsOK, Busy
<1>26. ASSUME NEW c \in Chats, NEW stored \in BOOLEAN, WorkerFinish(c, stored)
      PROVE  Handoff'
  BY <1>26, <1>0 DEF WorkerFinish, TypeOK, ControlOK, ChannelsOK, Busy
<1>27. CASE Restart
  BY <1>27, <1>0 DEF Restart, TypeOK, ControlOK, ChannelsOK, Busy
<1>28. CASE UNCHANGED vars
  BY <1>28 DEF vars
<1>. QED
  BY <1>1, <1>2, <1>3, <1>4, <1>5, <1>6, <1>7, <1>8, <1>9, <1>10, <1>11,
      <1>12, <1>13, <1>14, <1>15, <1>16, <1>17, <1>18, <1>19, <1>20, <1>21,
      <1>22, <1>23, <1>24, <1>25, <1>26, <1>27, <1>28 DEF Next,
      DispatcherStep, WorkerStep, Panic

-----------------------------------------------------------------------------
(***************************************************************************)
(* Counting copies                                                         *)
(***************************************************************************)

(* The indices at which a channel holds m.                                 *)
Places(s, m) == {i \in 1..Len(s) : s[i] = m}

LEMMA PlacesFinite ==
  ASSUME NEW S, NEW s \in Seq(S), NEW m
  PROVE  /\ IsFiniteSet(Places(s, m))
         /\ Occurrences(s, m) \in Nat
         /\ Occurrences(s, m) = Cardinality(Places(s, m))
<1>1. Len(s) \in Nat
  OBVIOUS
<1>2. IsFiniteSet(1..Len(s))
  BY <1>1, FS_Interval
<1>3. Places(s, m) \in SUBSET (1..Len(s))
  BY DEF Places
<1>4. IsFiniteSet(Places(s, m))
  BY <1>2, <1>3, FS_Subset
<1>5. Cardinality(Places(s, m)) \in Nat
  BY <1>4, FS_CardinalityType
<1>6. Occurrences(s, m) = Cardinality(Places(s, m))
  BY DEF Occurrences, Places
<1>. QED
  BY <1>4, <1>5, <1>6

(* A message is counted exactly when the channel holds it.                 *)
LEMMA OccursIn ==
  ASSUME NEW S, NEW s \in Seq(S), NEW m
  PROVE  Occurrences(s, m) > 0 <=> m \in Elems(s)
<1>1. /\ IsFiniteSet(Places(s, m))
      /\ Occurrences(s, m) \in Nat
      /\ Occurrences(s, m) = Cardinality(Places(s, m))
  BY PlacesFinite
<1>2. Cardinality(Places(s, m)) = 0 <=> Places(s, m) = {}
  BY <1>1, FS_EmptySet
<1>3. Places(s, m) = {} <=> m \notin Elems(s)
  BY DEF Places, Elems
<1>. QED
  BY <1>1, <1>2, <1>3

LEMMA OccursEmpty ==
  ASSUME NEW m
  PROVE  Occurrences(<<>>, m) = 0
<1>1. {i \in 1..Len(<<>>) : <<>>[i] = m} = {}
  OBVIOUS
<1>. QED
  BY <1>1, FS_EmptySet DEF Occurrences

(* Sending adds one copy of the message sent.                              *)
LEMMA OccursAppend ==
  ASSUME NEW S, NEW s \in Seq(S), NEW x \in S, NEW m
  PROVE  Occurrences(Append(s, x), m) = Occurrences(s, m) + One(x = m)
<1>. DEFINE n == Len(s) + 1
<1>1. /\ Len(s) \in Nat
      /\ Append(s, x) \in Seq(S)
      /\ Len(Append(s, x)) = n
      /\ Append(s, x)[n] = x
      /\ \A i \in 1..Len(s) : Append(s, x)[i] = s[i]
  OBVIOUS
<1>2. /\ IsFiniteSet(Places(s, m))
      /\ Occurrences(s, m) \in Nat
      /\ Occurrences(s, m) = Cardinality(Places(s, m))
      /\ Occurrences(Append(s, x), m) = Cardinality(Places(Append(s, x), m))
  BY <1>1, PlacesFinite
<1>3. 1..n = (1..Len(s)) \cup {n} /\ n \notin 1..Len(s)
  BY <1>1
<1>4. CASE x = m
  <2>1. Places(Append(s, x), m) = Places(s, m) \cup {n}
    BY <1>1, <1>3, <1>4 DEF Places
  <2>2. n \notin Places(s, m)
    BY <1>3 DEF Places
  <2>3. Cardinality(Places(s, m) \cup {n}) = Cardinality(Places(s, m)) + 1
    BY <1>2, <2>2, FS_AddElement
  <2>. QED
    BY <1>2, <1>4, <2>1, <2>3 DEF One
<1>5. CASE x # m
  <2>1. Places(Append(s, x), m) = Places(s, m)
    BY <1>1, <1>3, <1>5 DEF Places
  <2>. QED
    BY <1>2, <1>5, <2>1 DEF One
<1>. QED
  BY <1>4, <1>5

(* Receiving takes out one copy of the message received.                   *)
LEMMA OccursTail ==
  ASSUME NEW S, NEW s \in Seq(S), s # <<>>, NEW m
  PROVE  Occurrences(s, m) = Occurrences(Tail(s), m) + One(Head(s) = m)
<1>. DEFINE t == Tail(s)
            A == Places(s, m) \ {1}
            B == Places(t, m)
            f == [i \in A |-> i - 1]
<1>1. /\ Len(s) \in Nat
      /\ Len(s) > 0
      /\ t \in Seq(S)
      /\ Len(t) = Len(s) - 1
      /\ Head(s) = s[1]
      /\ \A i \in 1..Len(t) : t[i] = s[i + 1]
  OBVIOUS
<1>2. /\ IsFiniteSet(Places(s, m))
      /\ Occurrences(s, m) \in Nat
      /\ Occurrences(t, m) \in Nat
      /\ Occurrences(s, m) = Cardinality(Places(s, m))
      /\ Occurrences(t, m) = Cardinality(B)
  BY <1>1, PlacesFinite
<1>3. ASSUME NEW i \in A
      PROVE  i \in Nat /\ i - 1 \in B
  <2>1. i \in 2..Len(s) /\ s[i] = m
    BY <1>1 DEF Places
  <2>2. i - 1 \in 1..Len(t) /\ (i - 1) + 1 = i
    BY <1>1, <2>1
  <2>3. t[i - 1] = m
    BY <1>1, <2>1, <2>2
  <2>. QED
    BY <2>1, <2>2, <2>3 DEF Places
<1>4. ASSUME NEW k \in B
      PROVE  k \in Nat /\ k + 1 \in A
  <2>1. k \in 1..Len(t) /\ t[k] = m
    BY DEF Places
  <2>2. k + 1 \in 1..Len(s) /\ k + 1 # 1
    BY <1>1, <2>1
  <2>3. s[k + 1] = m
    BY <1>1, <2>1
  <2>. QED
    BY <2>1, <2>2, <2>3 DEF Places
<1>5. f \in Bijection(A, B)
  <2>1. f \in [A -> B]
    BY <1>3
  <2>2. \A i, j \in A : f[i] = f[j] => i = j
    BY <1>3
  <2>3. \A k \in B : \E i \in A : f[i] = k
    <3>1. TAKE k \in B
    <3>2. k \in Nat /\ k + 1 \in A
      BY <1>4
    <3>3. f[k + 1] = k
      BY <3>2
    <3>. QED
      BY <3>2, <3>3
  <2>. QED
    BY <2>1, <2>2, <2>3 DEF Bijection, Injection, Surjection, IsInjective
<1>. HIDE DEF f
<1>6. ExistsBijection(A, B)
  BY <1>5 DEF ExistsBijection
<1>. HIDE DEF A, B
<1>7. IsFiniteSet(A) /\ Cardinality(A) = IF 1 \in Places(s, m) THEN Cardinality(Places(s, m)) - 1
                                           ELSE Cardinality(Places(s, m))
  BY <1>2, FS_RemoveElement DEF A
<1>8. Cardinality(B) = Cardinality(A)
  BY <1>6, <1>7, FS_Bijection
<1>9. 1 \in Places(s, m) <=> Head(s) = m
  BY <1>1 DEF Places
<1>. QED
  BY <1>2, <1>7, <1>8, <1>9 DEF One

-----------------------------------------------------------------------------
(***************************************************************************)
(* How messages move                                                       *)
(***************************************************************************)

placeVars == <<unified, cur, queue, wmsg, arrived, started, redispatched,
               answered, swallowed, lost>>

(* The head of the unified channel leaves it while the dispatcher's hand   *)
(* is empty.                                                               *)
Take(m) ==
  /\ cur = NoMsg
  /\ unified # <<>>
  /\ m = Head(unified)
  /\ unified' = Tail(unified)
  /\ UNCHANGED <<wmsg, arrived, started, redispatched, answered, lost>>

MoveArrive(m) ==
  /\ m \notin Elems(arrived)
  /\ unified' = Append(unified, m)
  /\ arrived' = Append(arrived, m)
  /\ UNCHANGED <<cur, queue, wmsg, started, redispatched, answered, swallowed, lost>>

MoveToQueue(m, c) ==
  /\ Take(m)
  /\ c = ChatOf[m]
  /\ queue' = [queue EXCEPT ![c] = Append(queue[c], m)]
  /\ UNCHANGED <<cur, swallowed>>

MoveToNone(m) ==
  /\ Take(m)
  /\ swallowed' = swallowed \cup {m}
  /\ UNCHANGED <<cur, queue>>

MoveToHand(m) ==
  /\ Take(m)
  /\ cur' = m
  /\ UNCHANGED <<queue, swallowed>>

MoveSwallow ==
  /\ cur \in Messages
  /\ cur' = NoMsg
  /\ swallowed' = swallowed \cup {cur}
  /\ UNCHANGED <<unified, queue, wmsg, arrived, started, redispatched, answered, lost>>

MoveSend(c) ==
  /\ cur \in Messages
  /\ c = ChatOf[cur]
  /\ cur' = NoMsg
  /\ queue' = [queue EXCEPT ![c] = Append(queue[c], cur)]
  /\ UNCHANGED <<unified, wmsg, arrived, started, redispatched, answered, swallowed, lost>>

MoveBack ==
  /\ cur \in Messages
  /\ unified' = Append(unified, cur)
  /\ redispatched' = redispatched \cup {cur}
  /\ cur' = NoMsg
  /\ UNCHANGED <<queue, wmsg, arrived, started, answered, swallowed, lost>>

MoveStart(c) ==
  /\ wmsg[c] = NoMsg
  /\ queue[c] # <<>>
  /\ wmsg' = [wmsg EXCEPT ![c] = Head(queue[c])]
  /\ started' = [started EXCEPT ![c] = Append(started[c], Head(queue[c]))]
  /\ queue' = [queue EXCEPT ![c] = Tail(queue[c])]
  /\ UNCHANGED <<unified, cur, arrived, redispatched, answered, swallowed, lost>>

MoveAnswer(c) ==
  /\ wmsg[c] \in Messages
  /\ answered' = answered \cup {wmsg[c]}
  /\ wmsg' = [wmsg EXCEPT ![c] = NoMsg]
  /\ UNCHANGED <<unified, cur, queue, arrived, started, redispatched, swallowed, lost>>

MoveLose(c) ==
  /\ lost' = lost \cup Holding(c)
  /\ queue' = [queue EXCEPT ![c] = <<>>]
  /\ wmsg' = [wmsg EXCEPT ![c] = NoMsg]
  /\ UNCHANGED <<unified, cur, arrived, started, redispatched, answered, swallowed>>

MoveLoseAll ==
  /\ lost' = lost \cup InFlight
  /\ unified' = <<>>
  /\ cur' = NoMsg
  /\ queue' = [c \in Chats |-> <<>>]
  /\ wmsg' = [c \in Chats |-> NoMsg]
  /\ UNCHANGED <<arrived, started, redispatched, answered, swallowed>>

Move ==
  \/ \E m \in Messages : MoveArrive(m)
  \/ \E m \in Messages : MoveToNone(m) \/ MoveToHand(m)
  \/ \E m \in Messages, c \in Chats : MoveToQueue(m, c)
  \/ MoveSwallow
  \/ \E c \in Chats : MoveSend(c)
  \/ MoveBack
  \/ \E c \in Chats : MoveStart(c) \/ MoveAnswer(c) \/ MoveLose(c)
  \/ MoveLoseAll
  \/ UNCHANGED placeVars

(* Every step of the gateway moves at most one message by one place, or    *)
(* loses what a dead worker or process held.                               *)
LEMMA NextMoves ==
  ASSUME TypeOK, Handoff, [Next]_vars
  PROVE  Move
<1>a. /\ unified \in Seq(Messages)
      /\ queue \in [Chats -> Seq(Messages)]
      /\ dpc # "recv" => cur \in Messages /\ ChatOf[cur] \in Chats
      /\ \A c \in Chats : wpc[c] \in Busy => wmsg[c] \in Messages
  BY InHand DEF TypeOK, ChannelsOK
<1>b. /\ cur = NoMsg <=> dpc = "recv"
      /\ \A c \in Chats : ~slot[c] => queue[c] = <<>>
      /\ \A c \in Chats : wmsg[c] # NoMsg <=> wpc[c] \in Busy
  BY DEF Handoff
<1>c. unified # <<>> => Head(unified) \in Messages /\ ChatOf[Head(unified)] \in Chats
  BY <1>a, HeadMessage
<1>1. ASSUME NEW m \in Messages, Arrive(m) PROVE Move
  BY <1>1 DEF Arrive, MoveArrive, Move, workVars, doneVars
<1>2. CASE RecvHeartbeatQueue
  <2>1. MoveToQueue(Head(unified), ChatOf[Head(unified)])
    BY <1>2, <1>b DEF RecvHeartbeatQueue, MoveToQueue, Take, workVars, doneVars
  <2>. QED
    BY <1>2, <1>c, <2>1 DEF RecvHeartbeatQueue, Move
<1>3. CASE RecvHeartbeatSkip
  <2>1. MoveToNone(Head(unified))
    BY <1>3, <1>b DEF RecvHeartbeatSkip, MoveToNone, Take, workVars
  <2>. QED
    BY <1>3, <1>c, <2>1 DEF RecvHeartbeatSkip, Move
<1>4. CASE RecvHeartbeatSpawn
  <2>1. queue' = queue
    BY <1>4, <1>a, <1>b, <1>c DEF RecvHeartbeatSpawn, SpawnWorker
  <2>2. MoveToNone(Head(unified))
    BY <1>4, <1>b, <2>1 DEF RecvHeartbeatSpawn, MoveToNone, Take
  <2>. QED
    BY <1>4, <1>c, <2>2 DEF RecvHeartbeatSpawn, Move
<1>5. CASE RecvMessage
  <2>1. MoveToHand(Head(unified))
    BY <1>5, <1>b DEF RecvMessage, MoveToHand, Take, workVars, doneVars
  <2>. QED
    BY <1>5, <1>c, <2>1 DEF RecvMessage, Move
<1>6. CASE PreemptHeartbeat
  BY <1>6 DEF PreemptHeartbeat, Move, placeVars, workVars, doneVars
<1>7. CASE StopCommand
  BY <1>7, <1>a DEF StopCommand, Move, MoveSwallow, workVars
<1>8. CASE NotePending
  BY <1>8 DEF NotePending, Move, placeVars, workVars, doneVars
<1>9. CASE EnsureWorker
  <2>1. queue' = queue
    BY <1>9, <1>a, <1>b DEF EnsureWorker, SpawnWorker
  <2>. QED
    BY <1>9, <2>1 DEF EnsureWorker, Move, placeVars, doneVars
<1>10. CASE Send
  <2>1. MoveSend(ChatOf[cur])
    BY <1>10, <1>a DEF Send, MoveSend, workVars, doneVars
  <2>. QED
    BY <1>10, <1>a, <2>1 DEF Send, Move
<1>11. CASE SendDead
  BY <1>11 DEF SendDead, Move, placeVars, workVars, doneVars
<1>12. CASE Redispatch
  BY <1>12, <1>a DEF Redispatch, Move, MoveBack, workVars, doneVars
<1>13. ASSUME NEW c \in Chats, WorkerRestore(c) PROVE Move
  BY <1>13 DEF WorkerRestore, Move, placeVars, doneVars
<1>14. ASSUME NEW c \in Chats, WorkerRecv(c) PROVE Move
  <2>1. MoveStart(c)
    BY <1>14, <1>b DEF WorkerRecv, MoveStart, Busy, doneVars
  <2>. QED
    BY <2>1 DEF Move
<1>15. ASSUME NEW c \in Chats, WorkerBegin(c) PROVE Move
  BY <1>15 DEF WorkerBegin, Move, placeVars, doneVars
<1>16. ASSUME NEW c \in Chats, WorkerCommand(c) PROVE Move
  <2>1. MoveAnswer(c)
    BY <1>16, <1>a DEF WorkerCommand, MoveAnswer, Busy
  <2>. QED
    BY <2>1 DEF Move
<1>17. ASSUME NEW c \in Chats, WorkerInterrupted(c) PROVE Move
  BY <1>17 DEF WorkerInterrupted, Move, placeVars, doneVars
<1>18. ASSUME NEW c \in Chats, WorkerGiveUp(c) PROVE Move
  BY <1>18 DEF WorkerGiveUp, Move, placeVars, doneVars
<1>19. ASSUME NEW c \in Chats, WorkerRound(c) PROVE Move
  BY <1>19 DEF WorkerRound, Move, placeVars, doneVars
<1>20. ASSUME NEW c \in Chats, WorkerTools(c) PROVE Move
  BY <1>20 DEF WorkerTools, Move, placeVars, doneVars
<1>21. ASSUME NEW c \in Chats, WorkerFinal(c) PROVE Move
  BY <1>21 DEF WorkerFinal, Move, placeVars, doneVars
<1>22. ASSUME NEW c \in Chats, WorkerRecover(c) PROVE Move
  <2>1. MoveAnswer(c)
    BY <1>22, <1>a DEF WorkerRecover, MoveAnswer, Busy
  <2>. QED
    BY <2>1 DEF Move
<1>23. ASSUME NEW c \in Chats, WorkerInnerPanic(c) PROVE Move
  BY <1>23 DEF WorkerInnerPanic, Move, placeVars, doneVars
<1>24. ASSUME NEW c \in Chats, WorkerOuterPanic(c) PROVE Move
  BY <1>24 DEF WorkerOuterPanic, Move, placeVars, doneVars
<1>25. ASSUME NEW c \in Chats, WorkerDeath(c) PROVE Move
  <2>1. MoveLose(c)
    BY <1>25 DEF WorkerDeath, MoveLose
  <2>. QED
    BY <2>1 DEF Move
<1>26. ASSUME NEW c \in Chats, NEW stored \in BOOLEAN, WorkerFinish(c, stored)
      PROVE  Move
  <2>1. MoveAnswer(c)
    BY <1>26, <1>a DEF WorkerFinish, MoveAnswer, Busy
  <2>. QED
    BY <2>1 DEF Move
<1>27. CASE Restart
  BY <1>27 DEF Restart, Move, MoveLoseAll
<1>28. CASE UNCHANGED vars
  BY <1>28 DEF vars, Move, placeVars
<1>. QED
  BY <1>1, <1>2, <1>3, <1>4, <1>5, <1>6, <1>7, <1>8, <1>9, <1>10, <1>11,
      <1>12, <1>13, <1>14, <1>15, <1>16, <1>17, <1>18, <1>19, <1>20, <1>21,
      <1>22, <1>23, <1>24, <1>25, <1>26, <1>27, <1>28 DEF Next,
      DispatcherStep, WorkerStep, Panic

-----------------------------------------------------------------------------
(***************************************************************************)
(* Every message has exactly one copy                                      *)
(***************************************************************************)

(* One copy of each message that arrived, none of the others, and each in  *)
(* its own chat.                                                           *)
Single == \A m \in Messages : Copies(m) = One(m \in Elems(arrived))
Routed == \A c \in Chats : \A m \in Holding(c) : ChatOf[m] = c

(* A chat's worker only ever holds messages of its chat.                   *)
LEMMA MoveRouted ==
  ASSUME TypeOK, Handoff, Routed, Move
  PROVE  Routed'
<1>a. /\ unified \in Seq(Messages)
      /\ queue \in [Chats -> Seq(Messages)]
      /\ wmsg \in [Chats -> Messages \cup {NoMsg}]
  BY DEF TypeOK, ChannelsOK, ControlOK
<1>b. \A c \in Chats : \A m : m \in Elems(queue[c]) => ChatOf[m] = c
  BY DEF Routed, Holding
<1>c. \A c \in Chats : wmsg[c] # NoMsg => ChatOf[wmsg[c]] = c
  BY DEF Routed, Holding
<1>d. SUFFICES /\ \A c \in Chats : \A m \in Elems(queue'[c]) : ChatOf[m] = c
               /\ \A c \in Chats : wmsg'[c] # NoMsg => ChatOf[wmsg'[c]] = c
  BY DEF Routed, Holding
<1>1. CASE queue' = queue /\ wmsg' = wmsg
  BY <1>1, <1>b, <1>c
<1>2. ASSUME NEW m \in Messages, NEW c \in Chats, c = ChatOf[m],
             queue' = [queue EXCEPT ![c] = Append(queue[c], m)], wmsg' = wmsg
      PROVE  /\ \A d \in Chats : \A x \in Elems(queue'[d]) : ChatOf[x] = d
             /\ \A d \in Chats : wmsg'[d] # NoMsg => ChatOf[wmsg'[d]] = d
  <2>1. Elems(queue'[c]) = Elems(queue[c]) \cup {m}
    BY <1>a, <1>2, ElemsAppend
  <2>2. \A d \in Chats : d # c => queue'[d] = queue[d]
    BY <1>a, <1>2
  <2>. QED
    BY <1>2, <1>b, <1>c, <2>1, <2>2
<1>3. ASSUME NEW c \in Chats, MoveStart(c)
      PROVE  /\ \A d \in Chats : \A x \in Elems(queue'[d]) : ChatOf[x] = d
             /\ \A d \in Chats : wmsg'[d] # NoMsg => ChatOf[wmsg'[d]] = d
  <2>1. Elems(queue[c]) = {Head(queue[c])} \cup Elems(Tail(queue[c]))
    BY <1>a, <1>3, HeadMessage DEF MoveStart
  <2>2. /\ queue'[c] = Tail(queue[c])
        /\ wmsg'[c] = Head(queue[c])
        /\ \A d \in Chats : d # c => queue'[d] = queue[d] /\ wmsg'[d] = wmsg[d]
    BY <1>a, <1>3 DEF MoveStart
  <2>. QED
    BY <1>b, <1>c, <2>1, <2>2
<1>4. ASSUME NEW c \in Chats, MoveAnswer(c) \/ MoveLose(c)
      PROVE  /\ \A d \in Chats : \A x \in Elems(queue'[d]) : ChatOf[x] = d
             /\ \A d \in Chats : wmsg'[d] # NoMsg => ChatOf[wmsg'[d]] = d
  <2>1. \A d \in Chats : /\ queue'[d] = queue[d] \/ queue'[d] = <<>>
                         /\ wmsg'[d] = wmsg[d] \/ wmsg'[d] = NoMsg
    BY <1>a, <1>4 DEF MoveAnswer, MoveLose
  <2>. QED
    BY <1>b, <1>c, <2>1, ElemsEmpty
<1>5. CASE MoveLoseAll
  BY <1>5, ElemsEmpty DEF MoveLoseAll
<1>. QED
  BY <1>1, <1>2, <1>3, <1>4, <1>5 DEF Move, MoveArrive, MoveToQueue, MoveToNone, MoveToHand,
     Take, MoveSwallow, MoveSend, MoveBack, placeVars

(* No step makes a second copy of a message or loses the only one.         *)
LEMMA MoveSingle ==
  ASSUME TypeOK, Handoff, Routed, Single, Move
  PROVE  Single'
<1>a. /\ unified \in Seq(Messages)
      /\ arrived \in Seq(Messages)
      /\ queue \in [Chats -> Seq(Messages)]
      /\ wmsg \in [Chats -> Messages \cup {NoMsg}]
      /\ NoMsg \notin Messages
  BY InstanceAssumption DEF TypeOK, ChannelsOK, ControlOK, RecordsOK
<1>b. SUFFICES ASSUME NEW m \in Messages
               PROVE  Copies(m)' = One(m \in Elems(arrived'))
  BY DEF Single
<1>. DEFINE k == ChatOf[m]
            u == Occurrences(unified, m)
            q == Occurrences(queue[k], m)
<1>c. k \in Chats /\ queue[k] \in Seq(Messages)
  BY <1>a, InstanceAssumption
<1>d. /\ u \in Nat /\ q \in Nat
      /\ u > 0 <=> m \in Elems(unified)
      /\ q > 0 <=> m \in Elems(queue[k])
  BY <1>a, <1>c, PlacesFinite, OccursIn
<1>e. u + One(cur = m) + q + One(wmsg[k] = m) + One(m \in answered)
        + One(m \in swallowed) + One(m \in lost) = One(m \in Elems(arrived))
  BY DEF Single, Copies
<1>f. Copies(m)' = Occurrences(unified', m) + One(cur' = m) + Occurrences(queue'[k], m)
                     + One(wmsg'[k] = m) + One(m \in answered')
                     + One(m \in swallowed') + One(m \in lost')
  BY DEF Copies
<1>. HIDE DEF u, q
<1>1. ASSUME NEW x \in Messages, MoveArrive(x)
      PROVE  Copies(m)' = One(m \in Elems(arrived'))
  <2>1. Occurrences(unified', m) = u + One(x = m)
    BY <1>a, <1>1, OccursAppend DEF MoveArrive, u
  <2>2. Elems(arrived') = Elems(arrived) \cup {x} /\ x \notin Elems(arrived)
    BY <1>a, <1>1, ElemsAppend DEF MoveArrive
  <2>3. Occurrences(queue'[k], m) = q
    BY <1>1 DEF MoveArrive, q
  <2>4. /\ cur' = cur /\ wmsg' = wmsg /\ answered' = answered
        /\ swallowed' = swallowed /\ lost' = lost
    BY <1>1 DEF MoveArrive
  <2>. QED
    BY <1>d, <1>e, <1>f, <2>1, <2>2, <2>3, <2>4 DEF One
<1>t. ASSUME NEW x, Take(x)
      PROVE  /\ Occurrences(unified', m) \in Nat
             /\ Occurrences(unified', m) + One(x = m) = u
  <2>1. u = Occurrences(Tail(unified), m) + One(Head(unified) = m)
    BY <1>a, <1>t, OccursTail DEF Take, u
  <2>2. Occurrences(Tail(unified), m) \in Nat
    BY <1>a, <1>t, HeadMessage, PlacesFinite DEF Take
  <2>. QED
    BY <1>t, <2>1, <2>2 DEF Take
<1>2. ASSUME NEW x \in Messages, MoveToNone(x)
      PROVE  Copies(m)' = One(m \in Elems(arrived'))
  <2>1. /\ Occurrences(unified', m) \in Nat
        /\ Occurrences(unified', m) + One(x = m) = u
    BY <1>2, <1>t DEF MoveToNone
  <2>2. /\ Occurrences(queue'[k], m) = q
        /\ cur' = cur /\ wmsg' = wmsg /\ answered' = answered /\ lost' = lost
        /\ arrived' = arrived
    BY <1>2 DEF MoveToNone, Take, q
  <2>3. m \in swallowed' <=> m \in swallowed \/ x = m
    BY <1>2 DEF MoveToNone
  <2>. QED
    BY <1>d, <1>e, <1>f, <2>1, <2>2, <2>3 DEF One
<1>3. ASSUME NEW x \in Messages, MoveToHand(x)
      PROVE  Copies(m)' = One(m \in Elems(arrived'))
  <2>1. /\ Occurrences(unified', m) \in Nat
        /\ Occurrences(unified', m) + One(x = m) = u
    BY <1>3, <1>t DEF MoveToHand
  <2>2. cur = NoMsg /\ cur' = x
    BY <1>3 DEF MoveToHand, Take
  <2>3. /\ Occurrences(queue'[k], m) = q
        /\ wmsg' = wmsg /\ answered' = answered /\ swallowed' = swallowed
        /\ lost' = lost /\ arrived' = arrived
    BY <1>3 DEF MoveToHand, Take, q
  <2>4. cur # m /\ (cur' = m <=> x = m)
    BY <1>a, <2>2
  <2>. QED
    BY <1>d, <1>e, <1>f, <2>1, <2>3, <2>4 DEF One
<1>4. ASSUME NEW x \in Messages, NEW c \in Chats, MoveToQueue(x, c)
      PROVE  Copies(m)' = One(m \in Elems(arrived'))
  <2>1. /\ Occurrences(unified', m) \in Nat
        /\ Occurrences(unified', m) + One(x = m) = u
    BY <1>4, <1>t DEF MoveToQueue
  <2>2. Occurrences(queue'[k], m) = q + One(x = m)
    <3>1. CASE c = k
      BY <1>4, <1>a, <1>c, <3>1, OccursAppend DEF MoveToQueue, q
    <3>2. CASE c # k
      BY <1>4, <1>a, <1>c, <1>d, <3>2 DEF MoveToQueue, q, One
    <3>. QED
      BY <3>1, <3>2
  <2>3. /\ cur' = cur /\ wmsg' = wmsg /\ answered' = answered
        /\ swallowed' = swallowed /\ lost' = lost /\ arrived' = arrived
    BY <1>4 DEF MoveToQueue, Take
  <2>. QED
    BY <1>d, <1>e, <1>f, <2>1, <2>2, <2>3 DEF One
<1>5. CASE MoveSwallow
  <2>1. /\ Occurrences(unified', m) = u
        /\ Occurrences(queue'[k], m) = q
        /\ cur' # m
        /\ wmsg' = wmsg /\ answered' = answered /\ lost' = lost /\ arrived' = arrived
    BY <1>5, <1>a DEF MoveSwallow, u, q
  <2>2. m \in swallowed' <=> m \in swallowed \/ cur = m
    BY <1>5 DEF MoveSwallow
  <2>. QED
    BY <1>d, <1>e, <1>f, <2>1, <2>2 DEF One
<1>6. ASSUME NEW c \in Chats, MoveSend(c)
      PROVE  Copies(m)' = One(m \in Elems(arrived'))
  <2>1. Occurrences(queue'[k], m) = q + One(cur = m)
    <3>1. CASE c = k
      BY <1>6, <1>a, <1>c, <3>1, OccursAppend DEF MoveSend, q
    <3>2. CASE c # k
      BY <1>6, <1>a, <1>c, <1>d, <3>2 DEF MoveSend, q, One
    <3>. QED
      BY <3>1, <3>2
  <2>2. /\ Occurrences(unified', m) = u
        /\ cur' # m
        /\ wmsg' = wmsg /\ answered' = answered /\ swallowed' = swallowed
        /\ lost' = lost /\ arrived' = arrived
    BY <1>6, <1>a DEF MoveSend, u
  <2>. QED
    BY <1>d, <1>e, <1>f, <2>1, <2>2 DEF One
<1>7. CASE MoveBack
  <2>1. Occurrences(unified', m) = u + One(cur = m)
    BY <1>a, <1>7, OccursAppend DEF MoveBack, u
  <2>2. /\ Occurrences(queue'[k], m) = q
        /\ cur' # m
        /\ wmsg' = wmsg /\ answered' = answered /\ swallowed' = swallowed
        /\ lost' = lost /\ arrived' = arrived
    BY <1>7, <1>a DEF MoveBack, q
  <2>. QED
    BY <1>d, <1>e, <1>f, <2>1, <2>2 DEF One
<1>8. ASSUME NEW c \in Chats, MoveStart(c)
      PROVE  Copies(m)' = One(m \in Elems(arrived'))
  <2>1. CASE c = k
    <3>1. q = Occurrences(Tail(queue[k]), m) + One(Head(queue[k]) = m)
      BY <1>8, <1>c, <2>1, OccursTail DEF MoveStart, q
    <3>2. /\ queue'[k] = Tail(queue[k])
          /\ wmsg[k] = NoMsg
          /\ wmsg'[k] = Head(queue[k])
      BY <1>8, <1>a, <2>1 DEF MoveStart
    <3>. DEFINE r == Occurrences(Tail(queue[k]), m)
    <3>3. r \in Nat
      BY <1>c, <1>8, <2>1, HeadMessage, PlacesFinite DEF MoveStart
    <3>. HIDE DEF r
    <3>4. Occurrences(queue'[k], m) = r
      BY <3>2 DEF r
    <3>5. q = r + One(Head(queue[k]) = m)
      BY <3>1 DEF r
    <3>6. /\ Occurrences(unified', m) = u
          /\ cur' = cur /\ answered' = answered /\ swallowed' = swallowed /\ lost' = lost
          /\ arrived' = arrived
      BY <1>8 DEF MoveStart, u
    <3>. QED
      BY <1>a, <1>d, <1>e, <1>f, <3>2, <3>3, <3>4, <3>5, <3>6 DEF One
  <2>2. CASE c # k
    <3>1. queue'[k] = queue[k] /\ wmsg'[k] = wmsg[k]
      BY <1>8, <1>a, <1>c, <2>2 DEF MoveStart
    <3>. QED
      BY <1>8, <1>e, <1>f, <3>1 DEF MoveStart, u, q
  <2>. QED
    BY <2>1, <2>2
<1>9. ASSUME NEW c \in Chats, MoveAnswer(c)
      PROVE  Copies(m)' = One(m \in Elems(arrived'))
  <2>0. ChatOf[wmsg[c]] = c
    BY <1>9, <1>a DEF MoveAnswer, Routed, Holding
  <2>1. CASE c = k
    <3>1. wmsg'[k] = NoMsg
      BY <1>9, <1>a, <2>1 DEF MoveAnswer
    <3>2. /\ Occurrences(unified', m) = u
          /\ Occurrences(queue'[k], m) = q
          /\ cur' = cur /\ swallowed' = swallowed /\ lost' = lost /\ arrived' = arrived
      BY <1>9 DEF MoveAnswer, u, q
    <3>3. m \in answered' <=> m \in answered \/ wmsg[k] = m
      BY <1>9, <2>1 DEF MoveAnswer
    <3>. QED
      BY <1>a, <1>d, <1>e, <1>f, <3>1, <3>2, <3>3 DEF One
  <2>2. CASE c # k
    <3>1. wmsg'[k] = wmsg[k] /\ wmsg[c] # m
      BY <1>9, <1>a, <1>c, <2>0, <2>2 DEF MoveAnswer
    <3>2. m \in answered' <=> m \in answered
      BY <1>9, <3>1 DEF MoveAnswer
    <3>. QED
      BY <1>9, <1>e, <1>f, <3>1, <3>2 DEF MoveAnswer, One, u, q
  <2>. QED
    BY <2>1, <2>2
<1>10. ASSUME NEW c \in Chats, MoveLose(c)
      PROVE  Copies(m)' = One(m \in Elems(arrived'))
  <2>1. CASE c = k
    <3>1. /\ queue'[k] = <<>>
          /\ wmsg'[k] = NoMsg
          /\ m \in Holding(c) <=> m \in Elems(queue[k]) \/ m = wmsg[k]
      BY <1>10, <1>a, <2>1 DEF MoveLose, Holding
    <3>2. Occurrences(queue'[k], m) = 0
      BY <3>1, OccursEmpty
    <3>3. /\ Occurrences(unified', m) = u
          /\ cur' = cur /\ answered' = answered /\ swallowed' = swallowed
          /\ arrived' = arrived
      BY <1>10 DEF MoveLose, u
    <3>4. m \in lost' <=> m \in lost \/ m \in Elems(queue[k]) \/ m = wmsg[k]
      BY <1>10, <3>1 DEF MoveLose
    <3>. QED
      BY <1>a, <1>d, <1>e, <1>f, <3>1, <3>2, <3>3, <3>4 DEF One
  <2>2. CASE c # k
    <3>1. queue'[k] = queue[k] /\ wmsg'[k] = wmsg[k]
      BY <1>10, <1>a, <1>c, <2>2 DEF MoveLose
    <3>2. m \notin Holding(c)
      BY <2>2 DEF Routed
    <3>3. m \in lost' <=> m \in lost
      BY <1>10, <3>2 DEF MoveLose
    <3>. QED
      BY <1>10, <1>e, <1>f, <3>1, <3>3 DEF MoveLose, One, u, q
  <2>. QED
    BY <2>1, <2>2
<1>11. CASE MoveLoseAll
  <2>1. m \in InFlight <=> \/ m \in Elems(unified)
                           \/ m = cur
                           \/ m \in Elems(queue[k])
                           \/ m = wmsg[k]
    <3>1. \A c \in Chats : m \in Holding(c) => c = k
      BY DEF Routed
    <3>2. m \in Holding(k) <=> m \in Elems(queue[k]) \/ m = wmsg[k]
      BY <1>a DEF Holding
    <3>. QED
      BY <1>a, <1>c, <3>1, <3>2 DEF InFlight
  <2>2. /\ Occurrences(unified', m) = 0
        /\ Occurrences(queue'[k], m) = 0
        /\ wmsg'[k] = NoMsg
    BY <1>11, <1>c, OccursEmpty DEF MoveLoseAll
  <2>. QED
    BY <1>11, <1>a, <1>d, <1>e, <1>f, <2>1, <2>2 DEF MoveLoseAll, One
<1>12. CASE UNCHANGED placeVars
  BY <1>12, <1>e, <1>f DEF placeVars, u, q
<1>. QED
  BY <1>1, <1>2, <1>3, <1>4, <1>5, <1>6, <1>7, <1>8, <1>9, <1>10, <1>11, <1>12 DEF Move

LEMMA InitSingle == Init => Single /\ Routed
<1>. SUFFICES ASSUME Init PROVE Single /\ Routed
  OBVIOUS
<1>1. Routed
  BY ElemsEmpty DEF Init, Routed, Holding
<1>2. ASSUME NEW m \in Messages PROVE Copies(m) = One(m \in Elems(arrived))
  <2>1. ChatOf[m] \in Chats /\ m # NoMsg
    BY InstanceAssumption
  <2>2. Occurrences(unified, m) = 0 /\ Occurrences(queue[ChatOf[m]], m) = 0
    BY <2>1, OccursEmpty DEF Init
  <2>3. wmsg[ChatOf[m]] = NoMsg /\ cur = NoMsg
    BY <2>1 DEF Init
  <2>4. answered = {} /\ swallowed = {} /\ lost = {} /\ Elems(arrived) = {}
    BY ElemsEmpty DEF Init
  <2>. QED
    BY <2>1, <2>2, <2>3, <2>4 DEF Copies, One
<1>. QED
  BY <1>1, <1>2 DEF Single

(* A single copy rules out being in two places at once.                    *)
LEMMA OnePlace ==
  ASSUME TypeOK, Single, NEW m \in Messages, NEW c \in Chats, c = ChatOf[m]
  PROVE  /\ m \in Elems(arrived) <=> \/ m \in Elems(unified) \/ cur = m
                                     \/ m \in Elems(queue[c]) \/ wmsg[c] = m
                                     \/ m \in answered \cup swallowed \cup lost
         /\ m \in answered \cup swallowed \cup lost =>
              m \notin Elems(unified) /\ cur # m /\ m \notin Elems(queue[c]) /\ wmsg[c] # m
         /\ wmsg[c] = m => m \notin Elems(unified) /\ cur # m /\ m \notin Elems(queue[c])
         /\ m \in Elems(queue[c]) => m \notin Elems(unified) /\ cur # m
         /\ cur = m => m \notin Elems(unified)
<1>. DEFINE u == Occurrences(unified, m)
            q == Occurrences(queue[c], m)
<1>1. unified \in Seq(Messages) /\ queue[c] \in Seq(Messages)
  BY DEF TypeOK, ChannelsOK
<1>2. /\ u \in Nat /\ q \in Nat
      /\ u > 0 <=> m \in Elems(unified)
      /\ q > 0 <=> m \in Elems(queue[c])
  BY <1>1, PlacesFinite, OccursIn
<1>3. u + One(cur = m) + q + One(wmsg[c] = m) + One(m \in answered)
        + One(m \in swallowed) + One(m \in lost) = One(m \in Elems(arrived))
  BY DEF Single, Copies
<1>. HIDE DEF u, q
<1>. QED
  BY <1>2, <1>3 DEF One

(* The two invariants, with what each message's own chat adds, account for *)
(* every message that arrived.                                             *)
LEMMA SingleAccounted ==
  ASSUME TypeOK, Single, Routed
  PROVE  Accounted
<1>1. ASSUME NEW m, m \in Elems(arrived) PROVE m \in InFlight \cup answered \cup swallowed \cup lost
  <2>1. m \in Messages /\ ChatOf[m] \in Chats /\ m # NoMsg
    BY <1>1, ElemsType, InstanceAssumption DEF TypeOK, RecordsOK
  <2>. QED
    BY <1>1, <2>1, OnePlace DEF InFlight, Holding
<1>2. ASSUME NEW m, m \in InFlight \cup answered \cup swallowed \cup lost PROVE m \in Elems(arrived)
  <2>1. /\ unified \in Seq(Messages)
        /\ cur \in Messages \cup {NoMsg}
        /\ \A c \in Chats : queue[c] \in Seq(Messages) /\ wmsg[c] \in Messages \cup {NoMsg}
    BY DEF TypeOK, ChannelsOK, ControlOK
  <2>2. /\ m \in Elems(unified) => m \in Messages
        /\ \A c \in Chats : m \in Holding(c) => m \in Messages
        /\ m \in answered \cup swallowed \cup lost => m \in Messages
    BY <2>1, ElemsType DEF Holding, TypeOK, RecordsOK
  <2>3. m \in Messages /\ ChatOf[m] \in Chats
    BY <1>2, <2>1, <2>2, InstanceAssumption DEF InFlight
  <2>4. \A c \in Chats : m \in Holding(c) => c = ChatOf[m]
    BY DEF Routed
  <2>. QED
    BY <1>2, <2>3, <2>4, OnePlace DEF InFlight, Holding
<1>. QED
  BY <1>1, <1>2 DEF Accounted

(* The inductive invariant the theorems below rest on.                     *)
IInv == TypeOK /\ Handoff /\ Single /\ Routed

LEMMA SpecIInv == Spec => []IInv
<1>1. Init => IInv
  BY InitType, InitSingle DEF IInv
<1>2. IInv /\ [Next]_vars => IInv'
  BY NextType, NextHandoff, NextMoves, MoveRouted, MoveSingle DEF IInv
<1>. QED
  BY <1>1, <1>2, PTL DEF Spec


-----------------------------------------------------------------------------
(***************************************************************************)
(* The two flags                                                           *)
(***************************************************************************)

(* The flag is_heartbeat is set and cleared with the task it describes.    *)
LEMMA NextHeartbeatFlag ==
  ASSUME TypeOK, Handoff, HeartbeatFlagTrue, [Next]_vars
  PROVE  HeartbeatFlagTrue'
<1>a. /\ isHb \in [Chats -> BOOLEAN]
      /\ wpc \in [Chats -> WorkerPCs]
      /\ wmsg \in [Chats -> Messages \cup {NoMsg}]
      /\ \A c \in Chats : wpc[c] \in Busy <=> wmsg[c] # NoMsg
      /\ \A c \in Chats : ~slot[c] => wpc[c] \in {"none", "dead"}
      /\ \A c \in Chats : queue[c] # <<>> => Head(queue[c]) \in Messages
  BY HeadMessage DEF TypeOK, ControlOK, ChannelsOK, Handoff
<1>b. /\ unified # <<>> => ChatOf[Head(unified)] \in Chats
      /\ dpc # "recv" => ChatOf[cur] \in Chats
      /\ NoMsg \notin Messages
  BY HeadMessage, InHand, InstanceAssumption DEF TypeOK, ChannelsOK
<1>1. ASSUME NEW m \in Messages, Arrive(m) PROVE HeartbeatFlagTrue'
  BY <1>1, <1>a, <1>b DEF Arrive, flagVars, workVars, HeartbeatFlagTrue
<1>2. CASE RecvHeartbeatQueue
  BY <1>2, <1>a, <1>b DEF RecvHeartbeatQueue, flagVars, workVars, HeartbeatFlagTrue
<1>3. CASE RecvHeartbeatSkip
  BY <1>3, <1>a, <1>b DEF RecvHeartbeatSkip, flagVars, workVars, HeartbeatFlagTrue
<1>4. CASE RecvHeartbeatSpawn
  BY <1>4, <1>a, <1>b DEF RecvHeartbeatSpawn, SpawnWorker, HeartbeatFlagTrue
<1>5. CASE RecvMessage
  BY <1>5, <1>a, <1>b DEF RecvMessage, flagVars, workVars, HeartbeatFlagTrue
<1>6. CASE PreemptHeartbeat
  BY <1>6, <1>a, <1>b DEF PreemptHeartbeat, workVars, HeartbeatFlagTrue
<1>7. CASE StopCommand
  BY <1>7, <1>a, <1>b DEF StopCommand, workVars, HeartbeatFlagTrue
<1>8. CASE NotePending
  BY <1>8, <1>a, <1>b DEF NotePending, flagVars, workVars, HeartbeatFlagTrue
<1>9. CASE EnsureWorker
  BY <1>9, <1>a, <1>b DEF EnsureWorker, SpawnWorker, HeartbeatFlagTrue
<1>10. CASE Send
  BY <1>10, <1>a, <1>b DEF Send, flagVars, workVars, HeartbeatFlagTrue
<1>11. CASE SendDead
  BY <1>11, <1>a, <1>b DEF SendDead, flagVars, workVars, HeartbeatFlagTrue
<1>12. CASE Redispatch
  BY <1>12, <1>a, <1>b DEF Redispatch, flagVars, workVars, HeartbeatFlagTrue
<1>13. ASSUME NEW c \in Chats, WorkerRestore(c) PROVE HeartbeatFlagTrue'
  BY <1>13, <1>a, <1>b DEF WorkerRestore, flagVars, HeartbeatFlagTrue
<1>14. ASSUME NEW c \in Chats, WorkerRecv(c) PROVE HeartbeatFlagTrue'
  BY <1>14, <1>a, <1>b DEF WorkerRecv, Heartbeat, HeartbeatFlagTrue
<1>15. ASSUME NEW c \in Chats, WorkerBegin(c) PROVE HeartbeatFlagTrue'
  BY <1>15, <1>a, <1>b DEF WorkerBegin, BodyOf, Command, Heartbeat, HeartbeatFlagTrue
<1>16. ASSUME NEW c \in Chats, WorkerCommand(c) PROVE HeartbeatFlagTrue'
  BY <1>16, <1>a, <1>b DEF WorkerCommand, HeartbeatFlagTrue
<1>17. ASSUME NEW c \in Chats, WorkerInterrupted(c) PROVE HeartbeatFlagTrue'
  BY <1>17, <1>a, <1>b DEF WorkerInterrupted, flagVars, HeartbeatFlagTrue
<1>18. ASSUME NEW c \in Chats, WorkerGiveUp(c) PROVE HeartbeatFlagTrue'
  BY <1>18, <1>a, <1>b DEF WorkerGiveUp, flagVars, HeartbeatFlagTrue
<1>19. ASSUME NEW c \in Chats, WorkerRound(c) PROVE HeartbeatFlagTrue'
  BY <1>19, <1>a, <1>b DEF WorkerRound, flagVars, HeartbeatFlagTrue
<1>20. ASSUME NEW c \in Chats, WorkerTools(c) PROVE HeartbeatFlagTrue'
  BY <1>20, <1>a, <1>b DEF WorkerTools, flagVars, HeartbeatFlagTrue
<1>21. ASSUME NEW c \in Chats, WorkerFinal(c) PROVE HeartbeatFlagTrue'
  BY <1>21, <1>a, <1>b DEF WorkerFinal, flagVars, HeartbeatFlagTrue
<1>22. ASSUME NEW c \in Chats, WorkerRecover(c) PROVE HeartbeatFlagTrue'
  BY <1>22, <1>a, <1>b DEF WorkerRecover, HeartbeatFlagTrue
<1>23. ASSUME NEW c \in Chats, WorkerInnerPanic(c) PROVE HeartbeatFlagTrue'
  BY <1>23, <1>a, <1>b DEF WorkerInnerPanic, flagVars, Active, HeartbeatFlagTrue
<1>24. ASSUME NEW c \in Chats, WorkerOuterPanic(c) PROVE HeartbeatFlagTrue'
  BY <1>24, <1>a, <1>b DEF WorkerOuterPanic, flagVars, HeartbeatFlagTrue
<1>25. ASSUME NEW c \in Chats, WorkerDeath(c) PROVE HeartbeatFlagTrue'
  BY <1>25, <1>a, <1>b DEF WorkerDeath, flagVars, HeartbeatFlagTrue
<1>26. ASSUME NEW c \in Chats, NEW stored \in BOOLEAN, WorkerFinish(c, stored)
      PROVE  HeartbeatFlagTrue'
  BY <1>26, <1>a, <1>b DEF WorkerFinish, HeartbeatFlagTrue
<1>27. CASE Restart
  BY <1>27, <1>a, <1>b DEF Restart, HeartbeatFlagTrue
<1>28. CASE UNCHANGED vars
  BY <1>28, <1>a, <1>b DEF vars, HeartbeatFlagTrue
<1>. QED
  BY <1>1, <1>2, <1>3, <1>4, <1>5, <1>6, <1>7, <1>8, <1>9, <1>10, <1>11,
     <1>12, <1>13, <1>14, <1>15, <1>16, <1>17, <1>18, <1>19, <1>20, <1>21,
     <1>22, <1>23, <1>24, <1>25, <1>26, <1>27, <1>28
  DEF Next, DispatcherStep, WorkerStep, Panic

(* A task that was told to stop is still to be ended by the flag, or past. *)
StopHeard ==
  /\ \A c \in Chats : Active(c) /\ wmsg[c] \in stopped => interrupt[c]
  /\ \A m \in stopped :
       \/ m \in answered \cup lost
       \/ /\ wmsg[ChatOf[m]] = m
          /\ wpc[ChatOf[m]] \in {"poll", "round", "post", "panicked"}

(* Nothing clears the flag between a stop command and the poll.            *)
LEMMA NextStopHeard ==
  ASSUME IInv, StopHeard, [Next]_vars
  PROVE  StopHeard'
<1>a. /\ interrupt \in [Chats -> BOOLEAN]
      /\ wpc \in [Chats -> WorkerPCs]
      /\ wmsg \in [Chats -> Messages \cup {NoMsg}]
      /\ stopped \subseteq Messages
      /\ \A c \in Chats : ~slot[c] => wpc[c] \in {"none", "dead"}
      /\ \A c \in Chats : wpc[c] \in {"begin", "cmd", "poll", "round", "post", "panicked"}
                             <=> wmsg[c] # NoMsg
  BY DEF IInv, TypeOK, ControlOK, RecordsOK, Handoff, Busy
<1>b. /\ unified # <<>> => ChatOf[Head(unified)] \in Chats
      /\ dpc # "recv" => ChatOf[cur] \in Chats
      /\ NoMsg \notin Messages
      /\ ChatOf \in [Messages -> Chats]
  BY HeadMessage, InHand, InstanceAssumption DEF IInv, TypeOK, ChannelsOK
<1>d. \A c \in Chats : wmsg[c] # NoMsg => wmsg[c] \in Messages /\ ChatOf[wmsg[c]] = c
  BY <1>a DEF IInv, Routed, Holding
<1>c. ASSUME NEW c \in Chats, wpc[c] = "begin" PROVE wmsg[c] \notin stopped
  <2>1. wmsg[c] \in Messages /\ ChatOf[wmsg[c]] = c
    BY <1>a, <1>c, <1>d
  <2>2. wmsg[c] \notin answered \cup lost
    BY <2>1, OnePlace DEF IInv
  <2>. QED
    BY <1>c, <2>1, <2>2 DEF StopHeard
<1>1. ASSUME NEW m \in Messages, Arrive(m) PROVE StopHeard'
  BY <1>1, <1>a, <1>b
    DEF Arrive, flagVars, workVars, doneVars, noteVars, StopHeard, Active
<1>2. CASE RecvHeartbeatQueue
  BY <1>2, <1>a, <1>b
    DEF RecvHeartbeatQueue, flagVars, workVars, doneVars, noteVars, StopHeard,
       Active
<1>3. CASE RecvHeartbeatSkip
  BY <1>3, <1>a, <1>b
    DEF RecvHeartbeatSkip, flagVars, workVars, noteVars, StopHeard, Active
<1>4. CASE RecvHeartbeatSpawn
  BY <1>4, <1>a, <1>b DEF RecvHeartbeatSpawn, noteVars, SpawnWorker, StopHeard, Active
<1>5. CASE RecvMessage
  BY <1>5, <1>a, <1>b
    DEF RecvMessage, flagVars, workVars, doneVars, noteVars, StopHeard, Active
<1>6. CASE PreemptHeartbeat
  BY <1>6, <1>a, <1>b
    DEF PreemptHeartbeat, workVars, doneVars, noteVars, StopHeard, Active
<1>7. CASE StopCommand
  BY <1>7, <1>a, <1>b, <1>d DEF StopCommand, workVars, StopHeard, Active
<1>8. CASE NotePending
  BY <1>8, <1>a, <1>b
    DEF NotePending, flagVars, workVars, doneVars, noteVars, StopHeard, Active
<1>9. CASE EnsureWorker
  BY <1>9, <1>a, <1>b
    DEF EnsureWorker, doneVars, noteVars, SpawnWorker, StopHeard, Active
<1>10. CASE Send
  BY <1>10, <1>a, <1>b
    DEF Send, flagVars, workVars, doneVars, noteVars, StopHeard, Active
<1>11. CASE SendDead
  BY <1>11, <1>a, <1>b
    DEF SendDead, flagVars, workVars, doneVars, noteVars, StopHeard, Active
<1>12. CASE Redispatch
  BY <1>12, <1>a, <1>b
    DEF Redispatch, flagVars, workVars, doneVars, noteVars, StopHeard, Active
<1>13. ASSUME NEW c \in Chats, WorkerRestore(c) PROVE StopHeard'
  BY <1>13, <1>a, <1>b
    DEF WorkerRestore, flagVars, doneVars, noteVars, StopHeard, Active
<1>14. ASSUME NEW c \in Chats, WorkerRecv(c) PROVE StopHeard'
  BY <1>14, <1>a, <1>b DEF WorkerRecv, doneVars, noteVars, StopHeard, Active
<1>15. ASSUME NEW c \in Chats, WorkerBegin(c) PROVE StopHeard'
  BY <1>15, <1>a, <1>b, <1>c DEF WorkerBegin, doneVars, noteVars, StopHeard, Active
<1>16. ASSUME NEW c \in Chats, WorkerCommand(c) PROVE StopHeard'
  BY <1>16, <1>a, <1>b, <1>d DEF WorkerCommand, noteVars, StopHeard, Active
<1>17. ASSUME NEW c \in Chats, WorkerInterrupted(c) PROVE StopHeard'
  BY <1>17, <1>a, <1>b DEF WorkerInterrupted, flagVars, doneVars, StopHeard, Active
<1>18. ASSUME NEW c \in Chats, WorkerGiveUp(c) PROVE StopHeard'
  BY <1>18, <1>a, <1>b DEF WorkerGiveUp, flagVars, doneVars, noteVars, StopHeard, Active
<1>19. ASSUME NEW c \in Chats, WorkerRound(c) PROVE StopHeard'
  BY <1>19, <1>a, <1>b DEF WorkerRound, flagVars, doneVars, noteVars, StopHeard, Active
<1>20. ASSUME NEW c \in Chats, WorkerTools(c) PROVE StopHeard'
  BY <1>20, <1>a, <1>b DEF WorkerTools, flagVars, doneVars, StopHeard, Active
<1>21. ASSUME NEW c \in Chats, WorkerFinal(c) PROVE StopHeard'
  BY <1>21, <1>a, <1>b DEF WorkerFinal, flagVars, doneVars, noteVars, StopHeard, Active
<1>22. ASSUME NEW c \in Chats, WorkerRecover(c) PROVE StopHeard'
  BY <1>22, <1>a, <1>b, <1>d DEF WorkerRecover, noteVars, StopHeard, Active
<1>23. ASSUME NEW c \in Chats, WorkerInnerPanic(c) PROVE StopHeard'
  BY <1>23, <1>a, <1>b
    DEF WorkerInnerPanic, flagVars, doneVars, noteVars, StopHeard, Active
<1>24. ASSUME NEW c \in Chats, WorkerOuterPanic(c) PROVE StopHeard'
  BY <1>24, <1>a, <1>b
    DEF WorkerOuterPanic, flagVars, doneVars, noteVars, StopHeard, Active
<1>25. ASSUME NEW c \in Chats, WorkerDeath(c) PROVE StopHeard'
  <2>1. wmsg[c] # NoMsg => wmsg[c] \in lost'
    BY <1>25 DEF WorkerDeath, Holding
  <2>. QED
    BY <1>25, <1>a, <1>b, <2>1 DEF WorkerDeath, noteVars, flagVars, StopHeard, Active
<1>26. ASSUME NEW c \in Chats, NEW stored \in BOOLEAN, WorkerFinish(c, stored)
      PROVE  StopHeard'
  BY <1>26, <1>a, <1>b, <1>d DEF WorkerFinish, noteVars, StopHeard, Active
<1>27. CASE Restart
  <2>1. \A c \in Chats : wmsg[c] # NoMsg => wmsg[c] \in lost'
    BY <1>27 DEF Restart, InFlight, Holding
  <2>. QED
    BY <1>27, <1>a, <1>b, <2>1 DEF Restart, noteVars, StopHeard, Active
<1>28. CASE UNCHANGED vars
  BY <1>28, <1>a, <1>b DEF vars, StopHeard, Active
<1>. QED
  BY <1>1, <1>2, <1>3, <1>4, <1>5, <1>6, <1>7, <1>8, <1>9, <1>10, <1>11,
     <1>12, <1>13, <1>14, <1>15, <1>16, <1>17, <1>18, <1>19, <1>20, <1>21,
     <1>22, <1>23, <1>24, <1>25, <1>26, <1>27, <1>28
  DEF Next, DispatcherStep, WorkerStep, Panic


(***************************************************************************)
(* A chat no heartbeat is ever sent to.                                    *)
(***************************************************************************)
UserOnly(c) == \A n \in Messages : ChatOf[n] = c => ~Heartbeat(n)

CutInUserChats == \A m \in cut : UserOnly(ChatOf[m]) => m \in stopped

(* In a chat without heartbeats the flag is only ever set by a stop        *)
(* command, and found set by a task only when it was set during that task. *)
InterruptMeant ==
  /\ \A c \in Chats : UserOnly(c) => ~isHb[c]
  /\ dpc = "preempt" => ~UserOnly(ChatOf[cur])
  /\ \A c \in Chats : UserOnly(c) /\ Active(c) /\ interrupt[c] => wmsg[c] \in stopped
  /\ CutInUserChats

LEMMA NextInterruptMeant ==
  ASSUME IInv, InterruptMeant, [Next]_vars
  PROVE  InterruptMeant'
<1>a. /\ interrupt \in [Chats -> BOOLEAN]
      /\ isHb \in [Chats -> BOOLEAN]
      /\ wpc \in [Chats -> WorkerPCs]
      /\ wmsg \in [Chats -> Messages \cup {NoMsg}]
      /\ \A c \in Chats : ~slot[c] => wpc[c] \in {"none", "dead"}
      /\ \A c \in Chats : wpc[c] \in {"begin", "cmd", "poll", "round", "post", "panicked"}
                             <=> wmsg[c] # NoMsg
  BY DEF IInv, TypeOK, ControlOK, RecordsOK, Handoff, Busy
<1>b. /\ unified # <<>> => ChatOf[Head(unified)] \in Chats
      /\ dpc # "recv" => ChatOf[cur] \in Chats
      /\ NoMsg \notin Messages
  BY HeadMessage, InHand, InstanceAssumption DEF IInv, TypeOK, ChannelsOK
<1>c. ASSUME NEW c \in Chats, queue[c] # <<>>
      PROVE  Head(queue[c]) \in Messages /\ ChatOf[Head(queue[c])] = c
  BY <1>c, HeadMessage DEF IInv, TypeOK, ChannelsOK, Routed, Holding
<1>d. \A c \in Chats : wmsg[c] # NoMsg => wmsg[c] \in Messages /\ ChatOf[wmsg[c]] = c
  BY <1>a DEF IInv, Routed, Holding
<1>1. ASSUME NEW m \in Messages, Arrive(m) PROVE InterruptMeant'
  BY <1>1, <1>a, <1>b
    DEF Arrive, flagVars, workVars, noteVars, InterruptMeant, CutInUserChats,
       Active
<1>2. CASE RecvHeartbeatQueue
  BY <1>2, <1>a, <1>b
    DEF RecvHeartbeatQueue, flagVars, workVars, noteVars, InterruptMeant,
       CutInUserChats, Active
<1>3. CASE RecvHeartbeatSkip
  BY <1>3, <1>a, <1>b
    DEF RecvHeartbeatSkip, flagVars, workVars, noteVars, InterruptMeant,
       CutInUserChats, Active
<1>4. CASE RecvHeartbeatSpawn
  BY <1>4, <1>a, <1>b
    DEF RecvHeartbeatSpawn, noteVars, SpawnWorker, InterruptMeant,
       CutInUserChats, Active
<1>5. CASE RecvMessage
  BY <1>5, <1>a, <1>b
    DEF RecvMessage, flagVars, workVars, noteVars, InterruptMeant,
       CutInUserChats, Active
<1>6. CASE PreemptHeartbeat
  BY <1>6, <1>a, <1>b
    DEF PreemptHeartbeat, workVars, noteVars, InterruptMeant, CutInUserChats,
       Active
<1>7. CASE StopCommand
  BY <1>7, <1>a, <1>b DEF StopCommand, workVars, InterruptMeant, CutInUserChats, Active
<1>8. CASE NotePending
  BY <1>8, <1>a, <1>b
    DEF NotePending, flagVars, workVars, noteVars, InterruptMeant,
       CutInUserChats, Active
<1>9. CASE EnsureWorker
  BY <1>9, <1>a, <1>b
    DEF EnsureWorker, noteVars, SpawnWorker, InterruptMeant, CutInUserChats,
       Active
<1>10. CASE Send
  BY <1>10, <1>a, <1>b
    DEF Send, flagVars, workVars, noteVars, InterruptMeant, CutInUserChats,
       Active
<1>11. CASE SendDead
  BY <1>11, <1>a, <1>b
    DEF SendDead, flagVars, workVars, noteVars, InterruptMeant, CutInUserChats,
       Active
<1>12. CASE Redispatch
  BY <1>12, <1>a, <1>b
    DEF Redispatch, flagVars, workVars, noteVars, InterruptMeant,
       CutInUserChats, Active
<1>13. ASSUME NEW c \in Chats, WorkerRestore(c) PROVE InterruptMeant'
  BY <1>13, <1>a, <1>b
    DEF WorkerRestore, flagVars, noteVars, InterruptMeant, CutInUserChats,
       Active
<1>14. ASSUME NEW c \in Chats, WorkerRecv(c) PROVE InterruptMeant'
  BY <1>14, <1>a, <1>b, <1>c
    DEF WorkerRecv, noteVars, UserOnly, InterruptMeant, CutInUserChats, Active
<1>15. ASSUME NEW c \in Chats, WorkerBegin(c) PROVE InterruptMeant'
  BY <1>15, <1>a, <1>b
    DEF WorkerBegin, noteVars, BodyOf, InterruptMeant, CutInUserChats, Active
<1>16. ASSUME NEW c \in Chats, WorkerCommand(c) PROVE InterruptMeant'
  BY <1>16, <1>a, <1>b
    DEF WorkerCommand, noteVars, InterruptMeant, CutInUserChats, Active
<1>17. ASSUME NEW c \in Chats, WorkerInterrupted(c) PROVE InterruptMeant'
  BY <1>17, <1>a, <1>b, <1>d
    DEF WorkerInterrupted, flagVars, InterruptMeant, CutInUserChats, Active
<1>18. ASSUME NEW c \in Chats, WorkerGiveUp(c) PROVE InterruptMeant'
  BY <1>18, <1>a, <1>b
    DEF WorkerGiveUp, flagVars, noteVars, InterruptMeant, CutInUserChats, Active
<1>19. ASSUME NEW c \in Chats, WorkerRound(c) PROVE InterruptMeant'
  BY <1>19, <1>a, <1>b
    DEF WorkerRound, flagVars, noteVars, InterruptMeant, CutInUserChats, Active
<1>20. ASSUME NEW c \in Chats, WorkerTools(c) PROVE InterruptMeant'
  BY <1>20, <1>a, <1>b DEF WorkerTools, flagVars, InterruptMeant, CutInUserChats, Active
<1>21. ASSUME NEW c \in Chats, WorkerFinal(c) PROVE InterruptMeant'
  BY <1>21, <1>a, <1>b
    DEF WorkerFinal, flagVars, noteVars, InterruptMeant, CutInUserChats, Active
<1>22. ASSUME NEW c \in Chats, WorkerRecover(c) PROVE InterruptMeant'
  BY <1>22, <1>a, <1>b
    DEF WorkerRecover, noteVars, InterruptMeant, CutInUserChats, Active
<1>23. ASSUME NEW c \in Chats, WorkerInnerPanic(c) PROVE InterruptMeant'
  BY <1>23, <1>a, <1>b
    DEF WorkerInnerPanic, flagVars, noteVars, InterruptMeant, CutInUserChats,
       Active
<1>24. ASSUME NEW c \in Chats, WorkerOuterPanic(c) PROVE InterruptMeant'
  BY <1>24, <1>a, <1>b
    DEF WorkerOuterPanic, flagVars, noteVars, InterruptMeant, CutInUserChats,
       Active
<1>25. ASSUME NEW c \in Chats, WorkerDeath(c) PROVE InterruptMeant'
  BY <1>25, <1>a, <1>b
    DEF WorkerDeath, flagVars, noteVars, InterruptMeant, CutInUserChats, Active
<1>26. ASSUME NEW c \in Chats, NEW stored \in BOOLEAN, WorkerFinish(c, stored)
      PROVE  InterruptMeant'
  BY <1>26, <1>a, <1>b
    DEF WorkerFinish, noteVars, InterruptMeant, CutInUserChats, Active
<1>27. CASE Restart
  BY <1>27, <1>a, <1>b DEF Restart, noteVars, InterruptMeant, CutInUserChats, Active
<1>28. CASE UNCHANGED vars
  BY <1>28, <1>a, <1>b DEF vars, InterruptMeant, CutInUserChats, Active
<1>. QED
  BY <1>1, <1>2, <1>3, <1>4, <1>5, <1>6, <1>7, <1>8, <1>9, <1>10, <1>11,
     <1>12, <1>13, <1>14, <1>15, <1>16, <1>17, <1>18, <1>19, <1>20, <1>21,
     <1>22, <1>23, <1>24, <1>25, <1>26, <1>27, <1>28
  DEF Next, DispatcherStep, WorkerStep, Panic

(* What StopEndsTask says of one step.                                     *)
StopObeyed ==
  \A c \in Chats : wpc[c] = "poll" /\ wmsg[c] \in stopped => wpc'[c] # "round"

(* Only a poll that finds the flag clear begins another round.             *)
LEMMA NextStopObeyed ==
  ASSUME IInv, StopHeard, [Next]_vars
  PROVE  StopObeyed
<1>a. /\ wpc \in [Chats -> WorkerPCs]
  BY DEF IInv, TypeOK, ControlOK
<1>b. /\ unified # <<>> => ChatOf[Head(unified)] \in Chats
      /\ dpc # "recv" => ChatOf[cur] \in Chats
  BY HeadMessage, InHand, InstanceAssumption DEF IInv, TypeOK, ChannelsOK
<1>1. ASSUME NEW m \in Messages, Arrive(m) PROVE StopObeyed
  BY <1>1, <1>a, <1>b DEF Arrive, flagVars, workVars, doneVars, noteVars, StopObeyed
<1>2. CASE RecvHeartbeatQueue
  BY <1>2, <1>a, <1>b
    DEF RecvHeartbeatQueue, flagVars, workVars, doneVars, noteVars, StopObeyed
<1>3. CASE RecvHeartbeatSkip
  BY <1>3, <1>a, <1>b DEF RecvHeartbeatSkip, flagVars, workVars, noteVars, StopObeyed
<1>4. CASE RecvHeartbeatSpawn
  BY <1>4, <1>a, <1>b DEF RecvHeartbeatSpawn, noteVars, SpawnWorker, StopObeyed
<1>5. CASE RecvMessage
  BY <1>5, <1>a, <1>b
    DEF RecvMessage, flagVars, workVars, doneVars, noteVars, StopObeyed
<1>6. CASE PreemptHeartbeat
  BY <1>6, <1>a, <1>b DEF PreemptHeartbeat, workVars, doneVars, noteVars, StopObeyed
<1>7. CASE StopCommand
  BY <1>7, <1>a, <1>b DEF StopCommand, workVars, StopObeyed
<1>8. CASE NotePending
  BY <1>8, <1>a, <1>b
    DEF NotePending, flagVars, workVars, doneVars, noteVars, StopObeyed
<1>9. CASE EnsureWorker
  BY <1>9, <1>a, <1>b DEF EnsureWorker, doneVars, noteVars, SpawnWorker, StopObeyed
<1>10. CASE Send
  BY <1>10, <1>a, <1>b DEF Send, flagVars, workVars, doneVars, noteVars, StopObeyed
<1>11. CASE SendDead
  BY <1>11, <1>a, <1>b DEF SendDead, flagVars, workVars, doneVars, noteVars, StopObeyed
<1>12. CASE Redispatch
  BY <1>12, <1>a, <1>b
    DEF Redispatch, flagVars, workVars, doneVars, noteVars, StopObeyed
<1>13. ASSUME NEW c \in Chats, WorkerRestore(c) PROVE StopObeyed
  BY <1>13, <1>a, <1>b DEF WorkerRestore, flagVars, doneVars, noteVars, StopObeyed
<1>14. ASSUME NEW c \in Chats, WorkerRecv(c) PROVE StopObeyed
  BY <1>14, <1>a, <1>b DEF WorkerRecv, doneVars, noteVars, StopObeyed
<1>15. ASSUME NEW c \in Chats, WorkerBegin(c) PROVE StopObeyed
  BY <1>15, <1>a, <1>b DEF WorkerBegin, doneVars, noteVars, BodyOf, StopObeyed
<1>16. ASSUME NEW c \in Chats, WorkerCommand(c) PROVE StopObeyed
  BY <1>16, <1>a, <1>b DEF WorkerCommand, noteVars, StopObeyed
<1>17. ASSUME NEW c \in Chats, WorkerInterrupted(c) PROVE StopObeyed
  BY <1>17, <1>a, <1>b DEF WorkerInterrupted, flagVars, doneVars, StopObeyed
<1>18. ASSUME NEW c \in Chats, WorkerGiveUp(c) PROVE StopObeyed
  BY <1>18, <1>a, <1>b DEF WorkerGiveUp, flagVars, doneVars, noteVars, StopObeyed
<1>19. ASSUME NEW c \in Chats, WorkerRound(c) PROVE StopObeyed
  BY <1>19, <1>a, <1>b
    DEF WorkerRound, flagVars, doneVars, noteVars, StopHeard, Active, StopObeyed
<1>20. ASSUME NEW c \in Chats, WorkerTools(c) PROVE StopObeyed
  BY <1>20, <1>a, <1>b DEF WorkerTools, flagVars, doneVars, StopObeyed
<1>21. ASSUME NEW c \in Chats, WorkerFinal(c) PROVE StopObeyed
  BY <1>21, <1>a, <1>b DEF WorkerFinal, flagVars, doneVars, noteVars, StopObeyed
<1>22. ASSUME NEW c \in Chats, WorkerRecover(c) PROVE StopObeyed
  BY <1>22, <1>a, <1>b DEF WorkerRecover, noteVars, StopObeyed
<1>23. ASSUME NEW c \in Chats, WorkerInnerPanic(c) PROVE StopObeyed
  BY <1>23, <1>a, <1>b DEF WorkerInnerPanic, flagVars, doneVars, noteVars, StopObeyed
<1>24. ASSUME NEW c \in Chats, WorkerOuterPanic(c) PROVE StopObeyed
  BY <1>24, <1>a, <1>b DEF WorkerOuterPanic, flagVars, doneVars, noteVars, StopObeyed
<1>25. ASSUME NEW c \in Chats, WorkerDeath(c) PROVE StopObeyed
  BY <1>25, <1>a, <1>b DEF WorkerDeath, flagVars, noteVars, StopObeyed
<1>26. ASSUME NEW c \in Chats, NEW stored \in BOOLEAN, WorkerFinish(c, stored)
      PROVE  StopObeyed
  BY <1>26, <1>a, <1>b DEF WorkerFinish, noteVars, StopObeyed
<1>27. CASE Restart
  BY <1>27, <1>a, <1>b DEF Restart, noteVars, StopObeyed
<1>28. CASE UNCHANGED vars
  BY <1>28, <1>a, <1>b DEF vars, StopObeyed
<1>. QED
  BY <1>1, <1>2, <1>3, <1>4, <1>5, <1>6, <1>7, <1>8, <1>9, <1>10, <1>11,
     <1>12, <1>13, <1>14, <1>15, <1>16, <1>17, <1>18, <1>19, <1>20, <1>21,
     <1>22, <1>23, <1>24, <1>25, <1>26, <1>27, <1>28
  DEF Next, DispatcherStep, WorkerStep, Panic


(***************************************************************************)
(* The history                                                             *)
(***************************************************************************)

(* What HistoryGenuine says of one history.                                *)
Genuine(h, s) ==
  /\ Elems(h) \subseteq Elems(s)
  /\ Subsequence(h, s)
  /\ Len(h) <= HistCap

(* The turns before the last one.                                          *)
Earlier(s) == {s[k] : k \in 1..(Len(s) - 1)}

LEMMA GenuineEmpty ==
  ASSUME NEW s
  PROVE  Genuine(<<>>, s)
BY BoundAssumption DEF Genuine, Elems, Subsequence

(* A new turn leaves the history genuine and puts it in the past.          *)
LEMMA GenuineAppend ==
  ASSUME NEW s \in Seq(Messages), NEW h \in Seq(Messages), NEW x \in Messages, Genuine(h, s)
  PROVE  Genuine(h, Append(s, x))
<1>1. /\ Len(s) \in Nat
      /\ Len(Append(s, x)) = Len(s) + 1
      /\ \A i \in 1..Len(s) : Append(s, x)[i] = s[i] /\ i \in 1..(Len(s) + 1)
  OBVIOUS
<1>2. Elems(h) \subseteq Elems(Append(s, x))
  BY ElemsAppend DEF Genuine
<1>3. Subsequence(h, Append(s, x))
  <2>1. SUFFICES ASSUME NEW i \in 1..Len(h), NEW j \in 1..Len(h), i < j
                 PROVE  \E k, l \in 1..Len(Append(s, x)) :
                          k < l /\ Append(s, x)[k] = h[i] /\ Append(s, x)[l] = h[j]
    BY DEF Subsequence
  <2>2. PICK k \in 1..Len(s), l \in 1..Len(s) : k < l /\ s[k] = h[i] /\ s[l] = h[j]
    BY <2>1 DEF Genuine, Subsequence
  <2>. QED
    BY <1>1, <2>2
<1>. QED
  BY <1>2, <1>3 DEF Genuine

LEMMA EarlierAppend ==
  ASSUME NEW s \in Seq(Messages), NEW x \in Messages
  PROVE  Earlier(Append(s, x)) = Elems(s)
<1>1. /\ Len(s) \in Nat
      /\ Len(Append(s, x)) - 1 = Len(s)
      /\ \A i \in 1..Len(s) : Append(s, x)[i] = s[i]
  OBVIOUS
<1>. QED
  BY <1>1 DEF Earlier, Elems

(* The newest turn may be added to what was kept of the earlier ones, even *)
(* when the oldest one has to go.                                          *)
LEMMA GenuineKept ==
  ASSUME NEW s \in Seq(Messages), NEW h \in Seq(Messages), NEW g \in Seq(Messages),
         Genuine(h, s), Elems(h) \subseteq Earlier(s), Len(s) > 0,
         g = h \/ (h # <<>> /\ g = Tail(h)), Len(g) < HistCap
  PROVE  Genuine(Append(g, s[Len(s)]), s)
<1>. DEFINE x == s[Len(s)]
            n == Len(g) + 1
<1>0. Len(s) \in Nat /\ Len(s) \in 1..Len(s) /\ x \in Messages
  OBVIOUS
<1>1. /\ Len(g) \in Nat
      /\ Len(Append(g, x)) = n
      /\ Append(g, x)[n] = x
      /\ \A i \in 1..Len(g) : Append(g, x)[i] = g[i]
  BY <1>0
<1>2. Elems(g) \subseteq Elems(h)
  BY ElemsTail
<1>3. Subsequence(g, s)
  <2>1. CASE g = h
    BY <2>1 DEF Genuine
  <2>2. CASE h # <<>> /\ g = Tail(h)
    <3>1. /\ Len(h) = Len(g) + 1
          /\ \A i \in 1..Len(g) : g[i] = h[i + 1] /\ i + 1 \in 1..Len(h)
      BY <2>2
    <3>2. SUFFICES ASSUME NEW i \in 1..Len(g), NEW j \in 1..Len(g), i < j
                   PROVE  \E k, l \in 1..Len(s) : k < l /\ s[k] = g[i] /\ s[l] = g[j]
      BY DEF Subsequence
    <3>3. PICK k \in 1..Len(s), l \in 1..Len(s) :
                 k < l /\ s[k] = h[i + 1] /\ s[l] = h[j + 1]
      <4>1. i + 1 \in 1..Len(h) /\ j + 1 \in 1..Len(h) /\ i + 1 < j + 1
        BY <3>1, <3>2
      <4>. QED
        BY <4>1 DEF Genuine, Subsequence
    <3>. QED
      BY <3>1, <3>3
  <2>. QED
    BY <2>1, <2>2
<1>4. Elems(Append(g, x)) \subseteq Elems(s)
  <2>1. x \in Elems(s)
    BY <1>0 DEF Elems
  <2>2. Elems(Append(g, x)) = Elems(g) \cup {x}
    BY <1>0, ElemsAppend
  <2>. QED
    BY <1>2, <2>1, <2>2 DEF Genuine
<1>5. Subsequence(Append(g, x), s)
  <2>1. SUFFICES ASSUME NEW i \in 1..n, NEW j \in 1..n, i < j
                 PROVE  \E k, l \in 1..Len(s) :
                          k < l /\ s[k] = Append(g, x)[i] /\ s[l] = Append(g, x)[j]
    BY <1>1 DEF Subsequence
  <2>2. CASE j = n
    <3>1. i \in 1..Len(g) /\ Append(g, x)[i] = g[i] /\ Append(g, x)[j] = x
      BY <1>1, <2>1, <2>2
    <3>2. g[i] \in Elems(h)
      BY <1>2, <3>1 DEF Elems
    <3>3. PICK k \in 1..(Len(s) - 1) : s[k] = g[i]
      BY <3>2 DEF Earlier
    <3>4. k \in 1..Len(s) /\ k < Len(s)
      BY <1>0
    <3>. QED
      BY <1>0, <3>1, <3>3, <3>4
  <2>3. CASE j # n
    <3>1. /\ i \in 1..Len(g) /\ j \in 1..Len(g)
          /\ Append(g, x)[i] = g[i] /\ Append(g, x)[j] = g[j]
      BY <1>1, <2>1, <2>3
    <3>2. PICK k \in 1..Len(s), l \in 1..Len(s) : k < l /\ s[k] = g[i] /\ s[l] = g[j]
      BY <2>1, <3>1, <1>3 DEF Subsequence
    <3>3. s[k] = Append(g, x)[i] /\ s[l] = Append(g, x)[j]
      BY <3>1, <3>2
    <3>. QED
      BY <3>2, <3>3
  <2>. QED
    BY <2>2, <2>3
<1>6. Len(Append(g, x)) <= HistCap
  BY <1>1, BoundAssumption
<1>. QED
  BY <1>4, <1>5, <1>6 DEF Genuine

(* Remember keeps a history genuine.                                       *)
LEMMA GenuineRemember ==
  ASSUME NEW s \in Seq(Messages), NEW h \in Seq(Messages),
         Genuine(h, s), Elems(h) \subseteq Earlier(s), Len(s) > 0
  PROVE  Genuine(Remember(h, s[Len(s)]), s)
<1>0. HistCap \in Nat \ {0} /\ Len(h) \in Nat
  BY BoundAssumption
<1>1. CASE Len(h) < HistCap
  <2>1. Genuine(Append(h, s[Len(s)]), s)
    BY <1>1, GenuineKept
  <2>. QED
    BY <1>1, <2>1 DEF Remember
<1>2. CASE ~(Len(h) < HistCap)
  <2>1. h # <<>>
    BY <1>0, <1>2
  <2>2. Tail(h) \in Seq(Messages) /\ Len(Tail(h)) = Len(h) - 1
    BY <2>1, ElemsTail
  <2>3. Len(Tail(h)) < HistCap
    BY <1>0, <2>2 DEF Genuine
  <2>4. Genuine(Append(Tail(h), s[Len(s)]), s)
    BY <2>1, <2>2, <2>3, GenuineKept
  <2>. QED
    BY <1>2, <2>4 DEF Remember
<1>. QED
  BY <1>1, <1>2

(* A busy worker's message is the last it took, and until its turn is kept *)
(* its history holds earlier turns only.                                   *)
Turns ==
  \A c \in Chats :
    /\ Genuine(hist[c], started[c])
    /\ Genuine(saved[c], started[c])
    /\ wpc[c] \in {"begin", "cmd", "poll", "round", "post", "panicked"} =>
         Len(started[c]) > 0 /\ wmsg[c] = started[c][Len(started[c])]
    /\ wpc[c] \in {"begin", "cmd", "poll", "round", "post"} =>
         Elems(hist[c]) \subseteq Earlier(started[c])

LEMMA NextTurns ==
  ASSUME IInv, Turns, [Next]_vars
  PROVE  Turns'
<1>a. /\ wpc \in [Chats -> WorkerPCs]
      /\ wmsg \in [Chats -> Messages \cup {NoMsg}]
      /\ hist \in [Chats -> Seq(Messages)]
      /\ saved \in [Chats -> Seq(Messages)]
      /\ started \in [Chats -> Seq(Messages)]
      /\ \A c \in Chats : ~slot[c] => wpc[c] \in {"none", "dead"}
      /\ \A c \in Chats : queue[c] # <<>> => Head(queue[c]) \in Messages
  BY HeadMessage DEF IInv, TypeOK, ControlOK, ChannelsOK, HistoriesOK, RecordsOK, Handoff
<1>b. /\ unified # <<>> => ChatOf[Head(unified)] \in Chats
      /\ dpc # "recv" => ChatOf[cur] \in Chats
  BY HeadMessage, InHand, InstanceAssumption DEF IInv, TypeOK, ChannelsOK
<1>c. ASSUME NEW c \in Chats, wpc[c] = "post" PROVE Genuine(TurnHistory(c), started[c])
  <2>1. Genuine(Remember(hist[c], wmsg[c]), started[c])
    BY <1>a, <1>c, GenuineRemember DEF Turns
  <2>. QED
    BY <2>1 DEF TurnHistory, Turns
<1>1. ASSUME NEW m \in Messages, Arrive(m) PROVE Turns'
  BY <1>1, <1>a, <1>b DEF Arrive, workVars, Turns
<1>2. CASE RecvHeartbeatQueue
  BY <1>2, <1>a, <1>b DEF RecvHeartbeatQueue, workVars, Turns
<1>3. CASE RecvHeartbeatSkip
  BY <1>3, <1>a, <1>b DEF RecvHeartbeatSkip, workVars, Turns
<1>4. CASE RecvHeartbeatSpawn
  BY <1>4, <1>a, <1>b DEF RecvHeartbeatSpawn, SpawnWorker, Turns
<1>5. CASE RecvMessage
  BY <1>5, <1>a, <1>b DEF RecvMessage, workVars, Turns
<1>6. CASE PreemptHeartbeat
  BY <1>6, <1>a, <1>b DEF PreemptHeartbeat, workVars, Turns
<1>7. CASE StopCommand
  BY <1>7, <1>a, <1>b DEF StopCommand, workVars, Turns
<1>8. CASE NotePending
  BY <1>8, <1>a, <1>b DEF NotePending, workVars, Turns
<1>9. CASE EnsureWorker
  BY <1>9, <1>a, <1>b DEF EnsureWorker, SpawnWorker, Turns
<1>10. CASE Send
  BY <1>10, <1>a, <1>b DEF Send, workVars, Turns
<1>11. CASE SendDead
  BY <1>11, <1>a, <1>b DEF SendDead, workVars, Turns
<1>12. CASE Redispatch
  BY <1>12, <1>a, <1>b DEF Redispatch, workVars, Turns
<1>13. ASSUME NEW c \in Chats, WorkerRestore(c) PROVE Turns'
  <2>1. PICK h \in {saved[c], <<>>} : hist' = [hist EXCEPT ![c] = h]
    BY <1>13 DEF WorkerRestore
  <2>2. Genuine(h, started[c])
    BY <1>a, GenuineEmpty DEF Turns
  <2>. QED
    BY <1>13, <1>a, <2>1, <2>2 DEF WorkerRestore, Turns
<1>14. ASSUME NEW c \in Chats, WorkerRecv(c) PROVE Turns'
  <2>. DEFINE m == Head(queue[c])
  <2>1. /\ m \in Messages
        /\ started' = [started EXCEPT ![c] = Append(started[c], m)]
        /\ wmsg' = [wmsg EXCEPT ![c] = m]
        /\ wpc' = [wpc EXCEPT ![c] = "begin"]
        /\ hist' = hist /\ saved' = saved
    BY <1>14, <1>a DEF WorkerRecv
  <2>2. /\ Genuine(hist[c], Append(started[c], m))
        /\ Genuine(saved[c], Append(started[c], m))
    BY <1>a, <2>1, GenuineAppend DEF Turns
  <2>3. Elems(hist[c]) \subseteq Earlier(Append(started[c], m))
    BY <1>a, <2>1, EarlierAppend DEF Turns, Genuine
  <2>4. /\ Len(Append(started[c], m)) > 0
        /\ m = Append(started[c], m)[Len(Append(started[c], m))]
    BY <1>a, <2>1
  <2>. QED
    BY <1>a, <2>1, <2>2, <2>3, <2>4 DEF Turns
<1>15. ASSUME NEW c \in Chats, WorkerBegin(c) PROVE Turns'
  BY <1>15, <1>a, <1>b DEF WorkerBegin, BodyOf, Turns
<1>16. ASSUME NEW c \in Chats, WorkerCommand(c) PROVE Turns'
  BY <1>16, <1>a, <1>b DEF WorkerCommand, Turns
<1>17. ASSUME NEW c \in Chats, WorkerInterrupted(c) PROVE Turns'
  BY <1>17, <1>a, <1>b DEF WorkerInterrupted, Turns
<1>18. ASSUME NEW c \in Chats, WorkerGiveUp(c) PROVE Turns'
  BY <1>18, <1>a, <1>b DEF WorkerGiveUp, Turns
<1>19. ASSUME NEW c \in Chats, WorkerRound(c) PROVE Turns'
  BY <1>19, <1>a, <1>b DEF WorkerRound, Turns
<1>20. ASSUME NEW c \in Chats, WorkerTools(c) PROVE Turns'
  BY <1>20, <1>a, <1>b DEF WorkerTools, Turns
<1>21. ASSUME NEW c \in Chats, WorkerFinal(c) PROVE Turns'
  BY <1>21, <1>a, <1>b DEF WorkerFinal, Turns
<1>22. ASSUME NEW c \in Chats, WorkerRecover(c) PROVE Turns'
  BY <1>22, <1>a, <1>b DEF WorkerRecover, Turns
<1>23. ASSUME NEW c \in Chats, WorkerInnerPanic(c) PROVE Turns'
  BY <1>23, <1>a, <1>b DEF WorkerInnerPanic, Active, Turns
<1>24. ASSUME NEW c \in Chats, WorkerOuterPanic(c) PROVE Turns'
  <2>1. /\ hist' = hist \/ (wpc[c] = "post" /\ hist' = [hist EXCEPT ![c] = TurnHistory(c)])
        /\ saved' = saved \/ (wpc[c] = "post" /\ saved' = [saved EXCEPT ![c] = TurnHistory(c)])
        /\ wpc[c] \in {"begin", "cmd", "post"}
        /\ wpc' = [wpc EXCEPT ![c] = "panicked"]
        /\ wmsg' = wmsg /\ started' = started
    BY <1>24 DEF WorkerOuterPanic
  <2>. QED
    BY <1>a, <1>c, <2>1 DEF Turns
<1>25. ASSUME NEW c \in Chats, WorkerDeath(c) PROVE Turns'
  BY <1>25, <1>a, <1>b DEF WorkerDeath, Turns
<1>26. ASSUME NEW c \in Chats, NEW stored \in BOOLEAN, WorkerFinish(c, stored)
      PROVE  Turns'
  <2>1. /\ hist' = [hist EXCEPT ![c] = TurnHistory(c)]
        /\ saved' = saved \/ saved' = [saved EXCEPT ![c] = TurnHistory(c)]
        /\ wpc[c] = "post"
        /\ wpc' = [wpc EXCEPT ![c] = "idle"]
        /\ wmsg' = [wmsg EXCEPT ![c] = NoMsg]
        /\ started' = started
    BY <1>26 DEF WorkerFinish
  <2>. QED
    BY <1>a, <1>c, <2>1 DEF Turns
<1>27. CASE Restart
  BY <1>27, <1>a, GenuineEmpty DEF Restart, Turns
<1>28. CASE UNCHANGED vars
  BY <1>28, <1>a, <1>b DEF vars, Turns
<1>. QED
  BY <1>1, <1>2, <1>3, <1>4, <1>5, <1>6, <1>7, <1>8, <1>9, <1>10, <1>11,
     <1>12, <1>13, <1>14, <1>15, <1>16, <1>17, <1>18, <1>19, <1>20, <1>21,
     <1>22, <1>23, <1>24, <1>25, <1>26, <1>27, <1>28
  DEF Next, DispatcherStep, WorkerStep, Panic

-----------------------------------------------------------------------------
(***************************************************************************)
(* What was started                                                        *)
(***************************************************************************)

Distinct(s) == \A i, j \in 1..Len(s) : s[i] = s[j] => i = j

(* What a worker took belongs to its chat and is in its hand or done, and  *)
(* nothing arrives or starts twice.                                        *)
Begun ==
  /\ Distinct(arrived)
  /\ \A c \in Chats :
       /\ Distinct(started[c])
       /\ \A m \in Elems(started[c]) :
            ChatOf[m] = c /\ (m = wmsg[c] \/ m \in answered \cup lost)

LEMMA DistinctAppend ==
  ASSUME NEW s \in Seq(Messages), NEW x \in Messages, Distinct(s), x \notin Elems(s)
  PROVE  Distinct(Append(s, x))
<1>1. /\ Len(s) \in Nat
      /\ Len(Append(s, x)) = Len(s) + 1
      /\ Append(s, x)[Len(s) + 1] = x
      /\ \A i \in 1..Len(s) : Append(s, x)[i] = s[i] /\ s[i] # x
  BY DEF Elems
<1>2. SUFFICES ASSUME NEW i \in 1..(Len(s) + 1), NEW j \in 1..(Len(s) + 1),
                      Append(s, x)[i] = Append(s, x)[j]
               PROVE  i = j
  BY <1>1 DEF Distinct
<1>3. i \in 1..Len(s) \/ i = Len(s) + 1
  BY <1>1
<1>4. j \in 1..Len(s) \/ j = Len(s) + 1
  BY <1>1
<1>. QED
  BY <1>1, <1>2, <1>3, <1>4 DEF Distinct

LEMMA MoveBegun ==
  ASSUME IInv, Begun, Move
  PROVE  Begun'
<1>a. /\ arrived \in Seq(Messages)
      /\ started \in [Chats -> Seq(Messages)]
      /\ queue \in [Chats -> Seq(Messages)]
      /\ wmsg \in [Chats -> Messages \cup {NoMsg}]
      /\ NoMsg \notin Messages
      /\ \A c \in Chats : Elems(started[c]) \subseteq Messages
  BY ElemsType, InstanceAssumption DEF IInv, TypeOK, ChannelsOK, ControlOK, RecordsOK
<1>1. ASSUME NEW m \in Messages, MoveArrive(m) PROVE Begun'
  <2>1. Distinct(arrived')
    BY <1>a, <1>1, DistinctAppend DEF MoveArrive, Begun
  <2>. QED
    BY <1>1, <2>1 DEF MoveArrive, Begun
<1>2. ASSUME /\ arrived' = arrived /\ started' = started /\ wmsg' = wmsg
             /\ answered \subseteq answered' /\ lost \subseteq lost'
      PROVE  Begun'
  BY <1>2 DEF Begun
<1>3. ASSUME NEW c \in Chats, MoveStart(c) PROVE Begun'
  <2>. DEFINE m == Head(queue[c])
              new == Append(started[c], m)
  <2>1. m \in Messages /\ m \in Elems(queue[c])
    BY <1>a, <1>3, HeadMessage DEF MoveStart
  <2>2. ChatOf[m] = c
    BY <2>1 DEF IInv, Routed, Holding
  <2>3. m \notin answered \cup lost
    BY <2>1, <2>2, OnePlace DEF IInv
  <2>4. m \notin Elems(started[c])
    BY <1>a, <1>3, <2>1, <2>3 DEF Begun, MoveStart
  <2>5. Distinct(new)
    BY <1>a, <2>1, <2>4, DistinctAppend DEF Begun
  <2>6. Elems(new) = Elems(started[c]) \cup {m}
    BY <1>a, <2>1, ElemsAppend
  <2>7. \A x \in Elems(started[c]) : ChatOf[x] = c /\ x \in answered \cup lost
    BY <1>a, <1>3 DEF Begun, MoveStart
  <2>8. /\ started' = [started EXCEPT ![c] = new]
        /\ wmsg' = [wmsg EXCEPT ![c] = m]
        /\ arrived' = arrived /\ answered' = answered /\ lost' = lost
    BY <1>3 DEF MoveStart
  <2>. HIDE DEF new
  <2>. QED
    BY <1>a, <2>2, <2>5, <2>6, <2>7, <2>8 DEF Begun
<1>4. ASSUME NEW c \in Chats, MoveAnswer(c) PROVE Begun'
  BY <1>a, <1>4 DEF MoveAnswer, Begun
<1>5. ASSUME NEW c \in Chats, MoveLose(c) PROVE Begun'
  <2>1. wmsg[c] # NoMsg => wmsg[c] \in lost'
    BY <1>5 DEF MoveLose, Holding
  <2>. QED
    BY <1>a, <1>5, <2>1 DEF MoveLose, Begun
<1>6. CASE MoveLoseAll
  <2>1. \A c \in Chats : wmsg[c] # NoMsg => wmsg[c] \in lost'
    BY <1>6 DEF MoveLoseAll, InFlight, Holding
  <2>. QED
    BY <1>a, <1>6, <2>1 DEF MoveLoseAll, Begun
<1>. QED
  BY <1>1, <1>2, <1>3, <1>4, <1>5, <1>6 DEF Move, MoveToQueue, MoveToNone, MoveToHand,
     Take, MoveSwallow, MoveSend, MoveBack, placeVars

(***************************************************************************)
(* Order                                                                   *)
(***************************************************************************)

LEMMA PositionOf ==
  ASSUME NEW s \in Seq(Messages), Distinct(s), NEW i \in 1..Len(s)
  PROVE  Position(s, s[i]) = i
BY DEF Position, Distinct

LEMMA PositionIn ==
  ASSUME NEW s \in Seq(Messages), NEW x \in Elems(s)
  PROVE  Position(s, x) \in 1..Len(s) /\ s[Position(s, x)] = x
<1>1. \E i \in 1..Len(s) : s[i] = x
  BY DEF Elems
<1>. QED
  BY <1>1 DEF Position

(* A new arrival takes the last position and moves no other.               *)
LEMMA PositionAppend ==
  ASSUME NEW s \in Seq(Messages), NEW x \in Messages, Distinct(s), x \notin Elems(s)
  PROVE  /\ Position(Append(s, x), x) = Len(s) + 1
         /\ \A y \in Elems(s) : /\ Position(Append(s, x), y) = Position(s, y)
                                /\ Position(s, y) \in 1..Len(s)
<1>1. /\ Append(s, x) \in Seq(Messages)
      /\ Len(s) \in Nat
      /\ Len(Append(s, x)) = Len(s) + 1
      /\ Append(s, x)[Len(s) + 1] = x
      /\ Len(s) + 1 \in 1..Len(Append(s, x))
      /\ \A i \in 1..Len(s) : Append(s, x)[i] = s[i] /\ i \in 1..Len(Append(s, x))
  OBVIOUS
<1>2. Distinct(Append(s, x))
  BY DistinctAppend
<1>3. Position(Append(s, x), x) = Len(s) + 1
  BY <1>1, <1>2, PositionOf
<1>4. ASSUME NEW y \in Elems(s)
      PROVE  /\ Position(Append(s, x), y) = Position(s, y)
             /\ Position(s, y) \in 1..Len(s)
  <2>1. Position(s, y) \in 1..Len(s) /\ s[Position(s, y)] = y
    BY PositionIn
  <2>2. Append(s, x)[Position(s, y)] = y
    BY <1>1, <2>1
  <2>. QED
    BY <1>1, <1>2, <2>1, <2>2, PositionOf
<1>. QED
  BY <1>3, <1>4

(* y may be started after x, given the arrivals a and the messages r that  *)
(* were put back.                                                          *)
Before(a, r, x, y) ==
  \/ x = y
  \/ ChatOf[x] # ChatOf[y]
  \/ Position(a, x) < Position(a, y)
  \/ y \in r

Ahead(a, r, X, Y) == \A x \in X, y \in Y : Before(a, r, x, y)

InOrder(a, r, s) ==
  \A i, j \in 1..Len(s) : i < j => Before(a, r, s[i], s[j])

LEMMA InOrderAppend ==
  ASSUME NEW a, NEW r, NEW s \in Seq(Messages), NEW x \in Messages,
         InOrder(a, r, s), Ahead(a, r, Elems(s), {x})
  PROVE  InOrder(a, r, Append(s, x))
<1>1. /\ Len(s) \in Nat
      /\ Len(Append(s, x)) = Len(s) + 1
      /\ Append(s, x)[Len(s) + 1] = x
      /\ \A i \in 1..Len(s) : Append(s, x)[i] = s[i] /\ s[i] \in Elems(s)
  BY DEF Elems
<1>2. SUFFICES ASSUME NEW i \in 1..(Len(s) + 1), NEW j \in 1..(Len(s) + 1), i < j
               PROVE  Before(a, r, Append(s, x)[i], Append(s, x)[j])
  BY <1>1 DEF InOrder
<1>3. i \in 1..Len(s)
  BY <1>1, <1>2
<1>4. CASE j = Len(s) + 1
  BY <1>1, <1>3, <1>4 DEF Ahead
<1>5. CASE j # Len(s) + 1
  <2>1. j \in 1..Len(s)
    BY <1>1, <1>5
  <2>. QED
    BY <1>1, <1>2, <1>3, <2>1 DEF InOrder
<1>. QED
  BY <1>4, <1>5

LEMMA InOrderTail ==
  ASSUME NEW a, NEW r, NEW s \in Seq(Messages), s # <<>>, InOrder(a, r, s)
  PROVE  /\ InOrder(a, r, Tail(s))
         /\ Ahead(a, r, {Head(s)}, Elems(Tail(s)))
<1>1. /\ Len(s) \in Nat /\ Len(s) > 0
      /\ Len(Tail(s)) = Len(s) - 1
      /\ Head(s) = s[1]
      /\ \A i \in 1..Len(Tail(s)) : Tail(s)[i] = s[i + 1]
  OBVIOUS
<1>2. ASSUME NEW i \in 1..Len(Tail(s)), NEW j \in 1..Len(Tail(s)), i < j
      PROVE  Before(a, r, Tail(s)[i], Tail(s)[j])
  <2>1. i + 1 \in 1..Len(s) /\ j + 1 \in 1..Len(s) /\ i + 1 < j + 1
    BY <1>1, <1>2
  <2>2. Before(a, r, s[i + 1], s[j + 1])
    BY <2>1 DEF InOrder
  <2>. QED
    BY <1>1, <2>2
<1>3. ASSUME NEW y \in Elems(Tail(s)) PROVE Before(a, r, Head(s), y)
  <2>1. PICK j \in 1..Len(Tail(s)) : y = Tail(s)[j]
    BY DEF Elems
  <2>2. 1 \in 1..Len(s) /\ j + 1 \in 1..Len(s) /\ 1 < j + 1
    BY <1>1
  <2>3. Before(a, r, s[1], s[j + 1])
    BY <2>2 DEF InOrder
  <2>. QED
    BY <1>1, <2>1, <2>3
<1>. QED
  BY <1>2, <1>3 DEF InOrder, Ahead

LEMMA InOrderEmpty ==
  ASSUME NEW a, NEW r
  PROVE  InOrder(a, r, <<>>)
BY DEF InOrder

(* The messages of a chat, as they wait one behind the other: those its    *)
(* worker took (s), its queue (q), the dispatcher's hand (h), the unified  *)
(* channel (u).                                                            *)
Line(a, r, s, q, h, u) ==
  /\ InOrder(a, r, s)
  /\ InOrder(a, r, q)
  /\ InOrder(a, r, u)
  /\ Ahead(a, r, Elems(s), Elems(q))
  /\ Ahead(a, r, Elems(s) \cup Elems(q), h)
  /\ Ahead(a, r, Elems(s) \cup Elems(q) \cup h, Elems(u))

LineUp ==
  \A c \in Chats :
    Line(arrived, redispatched, started[c], queue[c], {cur} \ {NoMsg}, unified)

(* A line stays one when the arrivals or the messages put back grow.       *)
LEMMA LineGrows ==
  ASSUME NEW a, NEW r, NEW b, NEW p, NEW A,
         \A x, y \in A : Before(a, r, x, y) => Before(b, p, x, y),
         NEW s \in Seq(Messages), NEW q \in Seq(Messages), NEW h, NEW u \in Seq(Messages),
         Elems(s) \subseteq A, Elems(q) \subseteq A, h \subseteq A, Elems(u) \subseteq A,
         Line(a, r, s, q, h, u)
  PROVE  Line(b, p, s, q, h, u)
<1>1. ASSUME NEW t \in Seq(Messages), Elems(t) \subseteq A, InOrder(a, r, t)
      PROVE  InOrder(b, p, t)
  <2>1. \A i \in 1..Len(t) : t[i] \in A
    BY <1>1 DEF Elems
  <2>. QED
    BY <1>1, <2>1 DEF InOrder
<1>2. ASSUME NEW X, NEW Y, X \subseteq A, Y \subseteq A, Ahead(a, r, X, Y)
      PROVE  Ahead(b, p, X, Y)
  BY <1>2 DEF Ahead
<1>3. /\ InOrder(b, p, s) /\ InOrder(b, p, q) /\ InOrder(b, p, u)
  BY <1>1 DEF Line
<1>4. Ahead(b, p, Elems(s), Elems(q))
  BY <1>2 DEF Line
<1>5. Ahead(b, p, Elems(s) \cup Elems(q), h)
  <2>1. Elems(s) \cup Elems(q) \subseteq A
    OBVIOUS
  <2>. QED
    BY <1>2, <2>1 DEF Line
<1>6. Ahead(b, p, Elems(s) \cup Elems(q) \cup h, Elems(u))
  <2>1. Elems(s) \cup Elems(q) \cup h \subseteq A
    OBVIOUS
  <2>. QED
    BY <1>2, <2>1 DEF Line
<1>. QED
  BY <1>3, <1>4, <1>5, <1>6 DEF Line

(* Old order facts survive a move.                                         *)
LEMMA MoveBefore ==
  ASSUME IInv, Begun, Move
  PROVE  \A x, y \in Elems(arrived) :
           Before(arrived, redispatched, x, y) => Before(arrived', redispatched', x, y)
<1>0. arrived \in Seq(Messages)
  BY DEF IInv, TypeOK, RecordsOK
<1>1. ASSUME NEW m \in Messages, MoveArrive(m)
      PROVE  \A x, y \in Elems(arrived) :
               Before(arrived, redispatched, x, y) => Before(arrived', redispatched', x, y)
  <2>1. \A y \in Elems(arrived) : Position(arrived', y) = Position(arrived, y)
    BY <1>0, <1>1, PositionAppend DEF MoveArrive, Begun
  <2>. QED
    BY <1>1, <2>1 DEF MoveArrive, Before
<1>2. ASSUME arrived' = arrived, redispatched \subseteq redispatched'
      PROVE  \A x, y \in Elems(arrived) :
               Before(arrived, redispatched, x, y) => Before(arrived', redispatched', x, y)
  BY <1>2 DEF Before
<1>. QED
  BY <1>1, <1>2 DEF Move, MoveToQueue, MoveToNone, MoveToHand, Take, MoveSwallow,
     MoveSend, MoveBack, MoveStart, MoveAnswer, MoveLose, MoveLoseAll, placeVars

(* Every move keeps the line: a message steps from the head of one part to *)
(* the tail of the next, leaves the line, or goes to its very end.         *)
LEMMA MoveLineUp ==
  ASSUME IInv, Begun, LineUp, Move
  PROVE  LineUp'
<1>a. /\ arrived \in Seq(Messages)
      /\ unified \in Seq(Messages)
      /\ started \in [Chats -> Seq(Messages)]
      /\ queue \in [Chats -> Seq(Messages)]
      /\ cur \in Messages \cup {NoMsg}
      /\ NoMsg \notin Messages
  BY InstanceAssumption DEF IInv, TypeOK, ChannelsOK, ControlOK, RecordsOK
<1>. DEFINE H == {cur} \ {NoMsg}
            b == arrived'
            p == redispatched'
<1>b. ASSUME NEW c \in Chats
      PROVE  /\ Elems(started[c]) \subseteq Elems(arrived)
             /\ Elems(queue[c]) \subseteq Elems(arrived)
             /\ H \subseteq Elems(arrived)
             /\ Elems(unified) \subseteq Elems(arrived)
  <2>1. InFlight \cup answered \cup swallowed \cup lost \subseteq Elems(arrived)
    BY SingleAccounted DEF IInv, Accounted
  <2>2. Elems(started[c]) \subseteq Messages
    BY <1>a, ElemsType
  <2>3. \A m \in Elems(started[c]) : m \in Holding(c) \cup answered \cup lost
    BY <1>a, <2>2 DEF Begun, Holding
  <2>. QED
    BY <2>1, <2>3 DEF InFlight, Holding
<1>c. ASSUME NEW c \in Chats PROVE Line(b, p, started[c], queue[c], H, unified)
  <2>1. /\ Elems(started[c]) \subseteq Elems(arrived)
        /\ Elems(queue[c]) \subseteq Elems(arrived)
        /\ H \subseteq Elems(arrived)
        /\ Elems(unified) \subseteq Elems(arrived)
    BY <1>b
  <2>2. \A x, y \in Elems(arrived) :
          Before(arrived, redispatched, x, y) => Before(b, p, x, y)
    BY MoveBefore
  <2>3. Line(arrived, redispatched, started[c], queue[c], H, unified)
    BY DEF LineUp
  <2>4. started[c] \in Seq(Messages) /\ queue[c] \in Seq(Messages)
    BY <1>a
  <2>. HIDE DEF H
  <2>. QED
    BY <1>a, <2>1, <2>2, <2>3, <2>4, LineGrows
<1>d. SUFFICES ASSUME NEW c \in Chats
               PROVE  Line(b, p, started'[c], queue'[c], {cur'} \ {NoMsg}, unified')
  BY DEF LineUp
<1>e. /\ started[c] \in Seq(Messages)
      /\ queue[c] \in Seq(Messages)
      /\ Line(b, p, started[c], queue[c], H, unified)
  BY <1>a, <1>c
<1>. HIDE DEF b, p
<1>1. ASSUME NEW m \in Messages, MoveArrive(m)
      PROVE  Line(b, p, started'[c], queue'[c], {cur'} \ {NoMsg}, unified')
  <2>1. \A x \in Elems(arrived) : Before(b, p, x, m)
    <3>1. Position(b, m) = Len(arrived) + 1
      BY <1>a, <1>1, PositionAppend DEF MoveArrive, Begun, b
    <3>2. \A y \in Elems(arrived) : Position(b, y) \in 1..Len(arrived)
      BY <1>a, <1>1, PositionAppend DEF MoveArrive, Begun, b
    <3>3. Len(arrived) \in Nat
      BY <1>a
    <3>4. \A y \in Elems(arrived) : Position(b, y) < Position(b, m)
      BY <3>1, <3>2, <3>3
    <3>. QED
      BY <3>4 DEF Before
  <2>2. /\ Elems(started[c]) \subseteq Elems(arrived)
        /\ Elems(queue[c]) \subseteq Elems(arrived)
        /\ H \subseteq Elems(arrived)
        /\ Elems(unified) \subseteq Elems(arrived)
    BY <1>b
  <2>3. Elems(Append(unified, m)) = Elems(unified) \cup {m}
    BY <1>a, ElemsAppend
  <2>4. InOrder(b, p, Append(unified, m))
    BY <1>a, <1>e, <2>1, <2>2, InOrderAppend DEF Line, Ahead
  <2>5. Ahead(b, p, Elems(started[c]) \cup Elems(queue[c]) \cup H, Elems(unified) \cup {m})
    BY <1>e, <2>1, <2>2 DEF Line, Ahead
  <2>6. /\ unified' = Append(unified, m)
        /\ started' = started /\ queue' = queue /\ cur' = cur
    BY <1>1 DEF MoveArrive
  <2>. QED
    BY <1>e, <2>3, <2>4, <2>5, <2>6 DEF Line
<1>t. ASSUME NEW m, Take(m)
      PROVE  /\ m \in Messages
             /\ H = {}
             /\ Elems(unified) = {m} \cup Elems(unified')
             /\ InOrder(b, p, unified')
             /\ Ahead(b, p, {m}, Elems(unified'))
             /\ Ahead(b, p, Elems(started[c]) \cup Elems(queue[c]), {m})
             /\ Ahead(b, p, Elems(started[c]) \cup Elems(queue[c]), Elems(unified'))
             /\ started' = started
  <2>1. m \in Messages /\ Elems(unified) = {m} \cup Elems(unified')
    BY <1>a, <1>t, HeadMessage DEF Take
  <2>2. InOrder(b, p, unified') /\ Ahead(b, p, {m}, Elems(unified'))
    BY <1>a, <1>e, <1>t, InOrderTail DEF Take, Line
  <2>3. Ahead(b, p, Elems(started[c]) \cup Elems(queue[c]), {m} \cup Elems(unified'))
    BY <1>e, <2>1 DEF Line, Ahead
  <2>. QED
    BY <1>t, <2>1, <2>2, <2>3 DEF Take, Ahead
<1>2. ASSUME NEW m \in Messages, MoveToNone(m)
      PROVE  Line(b, p, started'[c], queue'[c], {cur'} \ {NoMsg}, unified')
  <2>1. Take(m) /\ queue' = queue /\ cur' = cur
    BY <1>2 DEF MoveToNone
  <2>. QED
    BY <1>e, <1>t, <2>1 DEF Line, Ahead
<1>3. ASSUME NEW m \in Messages, MoveToHand(m)
      PROVE  Line(b, p, started'[c], queue'[c], {cur'} \ {NoMsg}, unified')
  <2>1. Take(m) /\ queue' = queue /\ {cur'} \ {NoMsg} = {m}
    BY <1>3, <1>a DEF MoveToHand
  <2>. QED
    BY <1>e, <1>t, <2>1 DEF Line, Ahead
<1>4. ASSUME NEW m \in Messages, NEW d \in Chats, MoveToQueue(m, d)
      PROVE  Line(b, p, started'[c], queue'[c], {cur'} \ {NoMsg}, unified')
  <2>1. Take(m) /\ cur' = cur /\ queue' = [queue EXCEPT ![d] = Append(queue[d], m)]
    BY <1>4 DEF MoveToQueue
  <2>2. CASE c # d
    <3>1. queue'[c] = queue[c]
      BY <1>a, <2>1, <2>2
    <3>. QED
      BY <1>e, <1>t, <2>1, <3>1 DEF Line, Ahead
  <2>3. CASE c = d
    <3>1. queue'[c] = Append(queue[c], m)
      BY <1>a, <2>1, <2>3
    <3>2. Elems(queue'[c]) = Elems(queue[c]) \cup {m}
      BY <1>e, <3>1, ElemsAppend
    <3>3. InOrder(b, p, queue'[c])
      BY <1>e, <1>t, <2>1, <3>1, InOrderAppend DEF Line, Ahead
    <3>. QED
      BY <1>e, <1>t, <2>1, <3>2, <3>3 DEF Line, Ahead
  <2>. QED
    BY <2>2, <2>3
<1>5. CASE MoveSwallow
  <2>1. started' = started /\ queue' = queue /\ unified' = unified /\ {cur'} \ {NoMsg} = {}
    BY <1>5 DEF MoveSwallow
  <2>. QED
    BY <1>e, <2>1 DEF Line, Ahead
<1>6. ASSUME NEW d \in Chats, MoveSend(d)
      PROVE  Line(b, p, started'[c], queue'[c], {cur'} \ {NoMsg}, unified')
  <2>1. /\ started' = started /\ unified' = unified
        /\ {cur'} \ {NoMsg} = {}
        /\ cur \in Messages /\ H = {cur}
        /\ queue' = [queue EXCEPT ![d] = Append(queue[d], cur)]
    BY <1>6, <1>a DEF MoveSend
  <2>2. CASE c # d
    <3>1. queue'[c] = queue[c]
      BY <1>a, <2>1, <2>2
    <3>. QED
      BY <1>e, <2>1, <3>1 DEF Line, Ahead
  <2>3. CASE c = d
    <3>1. queue'[c] = Append(queue[c], cur)
      BY <1>a, <2>1, <2>3
    <3>2. Elems(queue'[c]) = Elems(queue[c]) \cup {cur}
      BY <1>e, <2>1, <3>1, ElemsAppend
    <3>3. InOrder(b, p, queue'[c])
      BY <1>e, <2>1, <3>1, InOrderAppend DEF Line, Ahead
    <3>. QED
      BY <1>e, <2>1, <3>2, <3>3 DEF Line, Ahead
  <2>. QED
    BY <2>2, <2>3
<1>7. CASE MoveBack
  <2>1. /\ started' = started /\ queue' = queue /\ {cur'} \ {NoMsg} = {}
        /\ unified' = Append(unified, cur) /\ cur \in Messages
    BY <1>7 DEF MoveBack
  <2>2. \A x : Before(b, p, x, cur)
    BY <1>7 DEF MoveBack, Before, p
  <2>3. Elems(unified') = Elems(unified) \cup {cur}
    BY <1>a, <2>1, ElemsAppend
  <2>4. InOrder(b, p, unified')
    BY <1>a, <1>e, <2>1, <2>2, InOrderAppend DEF Line, Ahead
  <2>. QED
    BY <1>e, <2>1, <2>2, <2>3, <2>4 DEF Line, Ahead
<1>8. ASSUME NEW d \in Chats, MoveStart(d)
      PROVE  Line(b, p, started'[c], queue'[c], {cur'} \ {NoMsg}, unified')
  <2>0. /\ unified' = unified /\ cur' = cur
        /\ queue[d] # <<>>
        /\ started' = [started EXCEPT ![d] = Append(started[d], Head(queue[d]))]
        /\ queue' = [queue EXCEPT ![d] = Tail(queue[d])]
    BY <1>8 DEF MoveStart
  <2>1. CASE c # d
    <3>1. queue'[c] = queue[c] /\ started'[c] = started[c]
      BY <1>a, <2>0, <2>1
    <3>. QED
      BY <1>e, <2>0, <3>1
  <2>2. CASE c = d
    <3>. DEFINE m == Head(queue[c])
    <3>1. queue'[c] = Tail(queue[c]) /\ started'[c] = Append(started[c], m)
      BY <1>a, <2>0, <2>2
    <3>2. m \in Messages /\ Elems(queue[c]) = {m} \cup Elems(queue'[c])
      BY <1>e, <2>0, <2>2, <3>1, HeadMessage
    <3>3. InOrder(b, p, queue'[c]) /\ Ahead(b, p, {m}, Elems(queue'[c]))
      BY <1>e, <2>0, <2>2, <3>1, InOrderTail DEF Line
    <3>4. Elems(started'[c]) = Elems(started[c]) \cup {m}
      BY <1>e, <3>1, <3>2, ElemsAppend
    <3>5. Ahead(b, p, Elems(started[c]), {m})
      BY <1>e, <3>2 DEF Line, Ahead
    <3>6. InOrder(b, p, started'[c])
      BY <1>e, <3>1, <3>2, <3>5, InOrderAppend DEF Line
    <3>7. Ahead(b, p, Elems(started'[c]), Elems(queue'[c]))
      BY <1>e, <3>2, <3>3, <3>4 DEF Line, Ahead
    <3>8. Elems(started'[c]) \cup Elems(queue'[c]) = Elems(started[c]) \cup Elems(queue[c])
      BY <3>2, <3>4
    <3>. HIDE DEF H, m
    <3>. QED
      BY <1>e, <2>0, <3>3, <3>6, <3>7, <3>8 DEF Line, H
  <2>. QED
    BY <2>1, <2>2
<1>9. ASSUME NEW d \in Chats, MoveAnswer(d) \/ MoveLose(d)
      PROVE  Line(b, p, started'[c], queue'[c], {cur'} \ {NoMsg}, unified')
  <2>1. /\ started' = started /\ unified' = unified /\ cur' = cur
        /\ queue'[c] = queue[c] \/ queue'[c] = <<>>
    BY <1>9, <1>a DEF MoveAnswer, MoveLose
  <2>2. CASE queue'[c] = <<>>
    BY <1>e, <2>1, <2>2, ElemsEmpty, InOrderEmpty DEF Line, Ahead
  <2>. QED
    BY <1>e, <2>1, <2>2
<1>10. CASE MoveLoseAll
  <2>1. /\ started' = started /\ unified' = <<>> /\ {cur'} \ {NoMsg} = {}
        /\ queue'[c] = <<>>
    BY <1>10 DEF MoveLoseAll
  <2>. QED
    BY <1>e, <2>1, ElemsEmpty, InOrderEmpty DEF Line, Ahead
<1>11. CASE UNCHANGED placeVars
  BY <1>11, <1>e DEF placeVars
<1>. QED
  BY <1>1, <1>2, <1>3, <1>4, <1>5, <1>6, <1>7, <1>8, <1>9, <1>10, <1>11 DEF Move

-----------------------------------------------------------------------------
(***************************************************************************)
(* Pending texts                                                           *)
(***************************************************************************)

(* A text waits in the map of its own chat, and once the turn of its       *)
(* message is over only if that message was a command or was lost.         *)
Noted ==
  \A c \in Chats : \A m \in Elems(pending[c]) :
    /\ ChatOf[m] = c
    /\ m \in Elems(started[c]) => m = wmsg[c] \/ KindOf[m] = "cmd" \/ m \in lost

LEMMA NextNoted ==
  ASSUME IInv, Begun, Noted, [Next]_vars
  PROVE  Noted'
<1>a. /\ wmsg \in [Chats -> Messages \cup {NoMsg}]
      /\ pending \in [Chats -> Seq(Messages)]
      /\ started \in [Chats -> Seq(Messages)]
      /\ queue \in [Chats -> Seq(Messages)]
      /\ NoMsg \notin Messages
      /\ \A c \in Chats : wmsg[c] # NoMsg <=> wpc[c] \in {"begin", "cmd", "poll", "round", "post", "panicked"}
  BY InstanceAssumption DEF IInv, TypeOK, ControlOK, ChannelsOK, RecordsOK, Handoff, Busy
<1>b. /\ unified # <<>> => ChatOf[Head(unified)] \in Chats
      /\ dpc # "recv" => ChatOf[cur] \in Chats
  BY HeadMessage, InHand, InstanceAssumption DEF IInv, TypeOK, ChannelsOK
<1>1. ASSUME NEW m \in Messages, Arrive(m) PROVE Noted'
  BY <1>1, <1>a, <1>b DEF Arrive, workVars, doneVars, noteVars, Noted
<1>2. CASE RecvHeartbeatQueue
  BY <1>2, <1>a, <1>b DEF RecvHeartbeatQueue, workVars, doneVars, noteVars, Noted
<1>3. CASE RecvHeartbeatSkip
  BY <1>3, <1>a, <1>b DEF RecvHeartbeatSkip, workVars, noteVars, Noted
<1>4. CASE RecvHeartbeatSpawn
  BY <1>4, <1>a, <1>b DEF RecvHeartbeatSpawn, noteVars, SpawnWorker, Noted
<1>5. CASE RecvMessage
  BY <1>5, <1>a, <1>b DEF RecvMessage, workVars, doneVars, noteVars, Noted
<1>6. CASE PreemptHeartbeat
  BY <1>6, <1>a, <1>b DEF PreemptHeartbeat, workVars, doneVars, noteVars, Noted
<1>7. CASE StopCommand
  BY <1>7, <1>a, <1>b DEF StopCommand, workVars, Noted
<1>8. CASE NotePending
  <2>. DEFINE k == ChatOf[cur]
  <2>1. /\ cur \in Messages /\ k \in Chats
        /\ started' = started /\ wmsg' = wmsg /\ lost' = lost
    BY <1>8, InHand DEF NotePending, IInv, workVars, doneVars
  <2>2. cur \notin Elems(started[k])
    BY <2>1, OnePlace DEF IInv, Begun
  <2>3. pending' = pending \/ pending' = [pending EXCEPT ![k] = Append(pending[k], cur)]
    BY <1>8 DEF NotePending
  <2>4. Elems(Append(pending[k], cur)) = Elems(pending[k]) \cup {cur}
    BY <1>a, <2>1, ElemsAppend
  <2>5. ASSUME NEW d \in Chats, NEW x \in Elems(pending'[d])
        PROVE  x \in Elems(pending[d]) \/ (d = k /\ x = cur)
    <3>1. CASE d = k
      <4>1. pending'[d] = pending[d] \/ pending'[d] = Append(pending[k], cur)
        BY <1>a, <2>1, <2>3, <3>1
      <4>. QED
        BY <2>4, <2>5, <3>1, <4>1
    <3>2. CASE d # k
      <4>1. pending'[d] = pending[d]
        BY <1>a, <2>1, <2>3, <3>2
      <4>. QED
        BY <2>5, <4>1
    <3>. QED
      BY <3>1, <3>2
  <2>. HIDE DEF k
  <2>6. ChatOf[cur] = k
    BY DEF k
  <2>. QED
    BY <2>1, <2>2, <2>5, <2>6 DEF Noted
<1>9. CASE EnsureWorker
  BY <1>9, <1>a, <1>b DEF EnsureWorker, doneVars, noteVars, SpawnWorker, Noted
<1>10. CASE Send
  BY <1>10, <1>a, <1>b DEF Send, workVars, doneVars, noteVars, Noted
<1>11. CASE SendDead
  BY <1>11, <1>a, <1>b DEF SendDead, workVars, doneVars, noteVars, Noted
<1>12. CASE Redispatch
  BY <1>12, <1>a, <1>b DEF Redispatch, workVars, doneVars, noteVars, Noted
<1>13. ASSUME NEW c \in Chats, WorkerRestore(c) PROVE Noted'
  BY <1>13, <1>a, <1>b DEF WorkerRestore, doneVars, noteVars, Noted
<1>14. ASSUME NEW c \in Chats, WorkerRecv(c) PROVE Noted'
  <2>1. /\ started' = [started EXCEPT ![c] = Append(started[c], Head(queue[c]))]
        /\ wmsg' = [wmsg EXCEPT ![c] = Head(queue[c])]
        /\ pending' = pending /\ lost' = lost
        /\ wmsg[c] = NoMsg
    BY <1>14, <1>a DEF WorkerRecv, doneVars
  <2>2. Elems(started'[c]) = Elems(started[c]) \cup {Head(queue[c])}
    BY <1>14, <1>a, <2>1, HeadMessage, ElemsAppend DEF WorkerRecv
  <2>3. NoMsg \notin Elems(started[c])
    BY <1>a, ElemsType
  <2>. QED
    BY <1>a, <2>1, <2>2, <2>3 DEF Noted
<1>15. ASSUME NEW c \in Chats, WorkerBegin(c) PROVE Noted'
  BY <1>15, <1>a, <1>b DEF WorkerBegin, doneVars, noteVars, Noted
<1>16. ASSUME NEW c \in Chats, WorkerCommand(c) PROVE Noted'
  <2>1. pending'[c] = pending[c] \/ pending'[c] = <<>>
    BY <1>16, <1>a DEF WorkerCommand
  <2>2. KindOf[wmsg[c]] # "cmd" => pending'[c] = <<>>
    BY <1>16, <1>a DEF WorkerCommand
  <2>3. \A d \in Chats \ {c} : pending'[d] = pending[d] /\ wmsg'[d] = wmsg[d]
    BY <1>16, <1>a DEF WorkerCommand
  <2>4. started' = started /\ lost' = lost
    BY <1>16 DEF WorkerCommand
  <2>5. ASSUME NEW d \in Chats, NEW x \in Elems(pending'[d])
        PROVE  /\ x \in Elems(pending[d])
               /\ x = wmsg[d] => x = wmsg'[d] \/ KindOf[x] = "cmd"
    BY <2>1, <2>2, <2>3, ElemsEmpty
  <2>. QED
    BY <2>4, <2>5 DEF Noted
<1>17. ASSUME NEW c \in Chats, WorkerInterrupted(c) PROVE Noted'
  BY <1>17, <1>a, <1>b DEF WorkerInterrupted, doneVars, Noted
<1>18. ASSUME NEW c \in Chats, WorkerGiveUp(c) PROVE Noted'
  BY <1>18, <1>a, <1>b DEF WorkerGiveUp, doneVars, noteVars, Noted
<1>19. ASSUME NEW c \in Chats, WorkerRound(c) PROVE Noted'
  BY <1>19, <1>a, <1>b DEF WorkerRound, doneVars, noteVars, Noted
<1>20. ASSUME NEW c \in Chats, WorkerTools(c) PROVE Noted'
  BY <1>20, <1>a, ElemsEmpty DEF WorkerTools, doneVars, Noted
<1>21. ASSUME NEW c \in Chats, WorkerFinal(c) PROVE Noted'
  BY <1>21, <1>a, <1>b DEF WorkerFinal, doneVars, noteVars, Noted
<1>22. ASSUME NEW c \in Chats, WorkerRecover(c) PROVE Noted'
  BY <1>22, <1>a, ElemsEmpty DEF WorkerRecover, Noted
<1>23. ASSUME NEW c \in Chats, WorkerInnerPanic(c) PROVE Noted'
  BY <1>23, <1>a, <1>b DEF WorkerInnerPanic, doneVars, noteVars, Noted
<1>24. ASSUME NEW c \in Chats, WorkerOuterPanic(c) PROVE Noted'
  BY <1>24, <1>a, <1>b DEF WorkerOuterPanic, doneVars, noteVars, Noted
<1>25. ASSUME NEW c \in Chats, WorkerDeath(c) PROVE Noted'
  <2>1. wmsg[c] # NoMsg => wmsg[c] \in lost'
    BY <1>25 DEF WorkerDeath, Holding
  <2>2. \A d \in Chats : NoMsg \notin Elems(started[d])
    BY <1>a, ElemsType
  <2>. QED
    BY <1>25, <1>a, <2>1, <2>2 DEF WorkerDeath, Noted
<1>26. ASSUME NEW c \in Chats, NEW stored \in BOOLEAN, WorkerFinish(c, stored)
      PROVE  Noted'
  BY <1>26, <1>a, ElemsEmpty DEF WorkerFinish, Noted
<1>27. CASE Restart
  BY <1>27, ElemsEmpty DEF Restart, Noted
<1>28. CASE UNCHANGED vars
  BY <1>28, <1>a, <1>b DEF vars, Noted
<1>. QED
  BY <1>1, <1>2, <1>3, <1>4, <1>5, <1>6, <1>7, <1>8, <1>9, <1>10, <1>11,
     <1>12, <1>13, <1>14, <1>15, <1>16, <1>17, <1>18, <1>19, <1>20, <1>21,
     <1>22, <1>23, <1>24, <1>25, <1>26, <1>27, <1>28
  DEF Next, DispatcherStep, WorkerStep, Panic


(* What PendingNotPast says of the text of m shown to task t, given the    *)
(* order s of the chat's turns and the lost messages l.                    *)
NotPast(s, l, t, m) ==
  m \in Elems(s) => \/ Position(s, t) <= Position(s, m)
                    \/ KindOf[m] = "cmd"
                    \/ m \in l

Shown ==
  \A p \in injected :
    /\ p[1] \in Elems(started[ChatOf[p[1]]])
    /\ NotPast(started[ChatOf[p[1]]], lost, p[1], p[2])

LEMMA NextShown ==
  ASSUME IInv, Begun, Turns, Noted, Shown, [Next]_vars
  PROVE  Shown'
<1>a. /\ started \in [Chats -> Seq(Messages)]
      /\ queue \in [Chats -> Seq(Messages)]
      /\ wmsg \in [Chats -> Messages \cup {NoMsg}]
      /\ NoMsg \notin Messages
      /\ \A p \in injected : ChatOf[p[1]] \in Chats
  BY InstanceAssumption DEF IInv, TypeOK, ControlOK, ChannelsOK, RecordsOK
<1>1. ASSUME NEW m \in Messages, Arrive(m) PROVE Shown'
  BY <1>1, <1>a DEF Arrive, workVars, doneVars, noteVars, Shown, NotPast
<1>2. CASE RecvHeartbeatQueue
  BY <1>2, <1>a DEF RecvHeartbeatQueue, workVars, doneVars, noteVars, Shown, NotPast
<1>3. CASE RecvHeartbeatSkip
  BY <1>3, <1>a DEF RecvHeartbeatSkip, workVars, noteVars, Shown, NotPast
<1>4. CASE RecvHeartbeatSpawn
  BY <1>4, <1>a DEF RecvHeartbeatSpawn, noteVars, Shown, NotPast
<1>5. CASE RecvMessage
  BY <1>5, <1>a DEF RecvMessage, workVars, doneVars, noteVars, Shown, NotPast
<1>6. CASE PreemptHeartbeat
  BY <1>6, <1>a DEF PreemptHeartbeat, workVars, doneVars, noteVars, Shown, NotPast
<1>7. CASE StopCommand
  BY <1>7, <1>a DEF StopCommand, workVars, Shown, NotPast
<1>8. CASE NotePending
  BY <1>8, <1>a DEF NotePending, workVars, doneVars, noteVars, Shown, NotPast
<1>9. CASE EnsureWorker
  BY <1>9, <1>a DEF EnsureWorker, doneVars, noteVars, Shown, NotPast
<1>10. CASE Send
  BY <1>10, <1>a DEF Send, workVars, doneVars, noteVars, Shown, NotPast
<1>11. CASE SendDead
  BY <1>11, <1>a DEF SendDead, workVars, doneVars, noteVars, Shown, NotPast
<1>12. CASE Redispatch
  BY <1>12, <1>a DEF Redispatch, workVars, doneVars, noteVars, Shown, NotPast
<1>13. ASSUME NEW c \in Chats, WorkerRestore(c) PROVE Shown'
  BY <1>13, <1>a DEF WorkerRestore, doneVars, noteVars, Shown, NotPast
<1>14. ASSUME NEW c \in Chats, WorkerRecv(c) PROVE Shown'
  <2>. DEFINE m == Head(queue[c])
              s == started[c]
  <2>1. /\ m \in Messages /\ m \in Elems(queue[c]) /\ s \in Seq(Messages)
    BY <1>14, <1>a, HeadMessage DEF WorkerRecv
  <2>2. ChatOf[m] = c
    BY <2>1 DEF IInv, Routed, Holding
  <2>3. m \notin Elems(s)
    <3>1. m \notin answered \cup lost /\ wmsg[c] # m
      BY <2>1, <2>2, OnePlace DEF IInv
    <3>. QED
      BY <3>1 DEF Begun
  <2>4. /\ Position(Append(s, m), m) = Len(s) + 1
        /\ \A y \in Elems(s) : /\ Position(Append(s, m), y) = Position(s, y)
                               /\ Position(s, y) \in 1..Len(s)
    BY <2>1, <2>3, PositionAppend DEF Begun
  <2>5. Elems(Append(s, m)) = Elems(s) \cup {m} /\ Len(s) \in Nat
    BY <2>1, ElemsAppend
  <2>6. /\ started' = [started EXCEPT ![c] = Append(s, m)]
        /\ injected' = injected /\ lost' = lost
    BY <1>14 DEF WorkerRecv, doneVars, noteVars
  <2>. HIDE DEF m, s
  <2>7. \A t \in Elems(s) : Position(s, t) <= Len(s) + 1
    BY <2>4, <2>5
  <2>8. ASSUME NEW t \in Elems(s), NEW x, NotPast(s, lost, t, x)
        PROVE  t \in Elems(Append(s, m)) /\ NotPast(Append(s, m), lost', t, x)
    BY <2>4, <2>5, <2>6, <2>7, <2>8 DEF NotPast
  <2>9. ASSUME NEW q \in injected
        PROVE  /\ q[1] \in Elems(started'[ChatOf[q[1]]])
               /\ NotPast(started'[ChatOf[q[1]]], lost', q[1], q[2])
    <3>0. ChatOf[q[1]] \in Chats /\ s = started[c]
      BY <1>a DEF s
    <3>1. CASE ChatOf[q[1]] = c
      BY <1>a, <2>6, <2>8, <3>0, <3>1 DEF Shown
    <3>2. CASE ChatOf[q[1]] # c
      BY <1>a, <2>6, <3>0, <3>2 DEF Shown
    <3>. QED
      BY <3>1, <3>2
  <2>. QED
    BY <2>6, <2>9 DEF Shown
<1>15. ASSUME NEW c \in Chats, WorkerBegin(c) PROVE Shown'
  BY <1>15, <1>a DEF WorkerBegin, doneVars, noteVars, Shown, NotPast
<1>16. ASSUME NEW c \in Chats, WorkerCommand(c) PROVE Shown'
  BY <1>16, <1>a DEF WorkerCommand, noteVars, Shown, NotPast
<1>17. ASSUME NEW c \in Chats, WorkerInterrupted(c) PROVE Shown'
  BY <1>17, <1>a DEF WorkerInterrupted, doneVars, Shown, NotPast
<1>18. ASSUME NEW c \in Chats, WorkerGiveUp(c) PROVE Shown'
  BY <1>18, <1>a DEF WorkerGiveUp, doneVars, noteVars, Shown, NotPast
<1>19. ASSUME NEW c \in Chats, WorkerRound(c) PROVE Shown'
  BY <1>19, <1>a DEF WorkerRound, doneVars, noteVars, Shown, NotPast
<1>20. ASSUME NEW c \in Chats, WorkerTools(c) PROVE Shown'
  <2>1. /\ wmsg[c] \in Messages /\ ChatOf[wmsg[c]] = c
        /\ wmsg[c] \in Elems(started[c])
    <3>1. wpc[c] = "round" /\ wpc[c] \in Busy
      BY <1>20 DEF WorkerTools, Busy
    <3>2. wmsg[c] \in Messages
      BY <3>1, InHand DEF IInv
    <3>3. wmsg[c] = started[c][Len(started[c])] /\ Len(started[c]) > 0
      BY <3>1 DEF Turns
    <3>4. Len(started[c]) \in 1..Len(started[c])
      BY <1>a, <3>3
    <3>. QED
      BY <1>a, <3>2, <3>3, <3>4 DEF IInv, Routed, Holding, Elems
  <2>2. Position(started[c], wmsg[c]) \in Nat
    BY <1>a, <2>1, PositionIn
  <2>3. \A m \in Elems(pending[c]) : NotPast(started[c], lost, wmsg[c], m)
    BY <2>2 DEF Noted, NotPast
  <2>4. \A q \in injected' : q \in injected \/ \E m \in Elems(pending[c]) : q = <<wmsg[c], m>>
    BY <1>20 DEF WorkerTools
  <2>5. started' = started /\ lost' = lost
    BY <1>20 DEF WorkerTools, doneVars
  <2>. QED
    BY <2>1, <2>3, <2>4, <2>5 DEF Shown
<1>21. ASSUME NEW c \in Chats, WorkerFinal(c) PROVE Shown'
  BY <1>21, <1>a DEF WorkerFinal, doneVars, noteVars, Shown, NotPast
<1>22. ASSUME NEW c \in Chats, WorkerRecover(c) PROVE Shown'
  BY <1>22, <1>a DEF WorkerRecover, noteVars, Shown, NotPast
<1>23. ASSUME NEW c \in Chats, WorkerInnerPanic(c) PROVE Shown'
  BY <1>23, <1>a DEF WorkerInnerPanic, doneVars, noteVars, Shown, NotPast
<1>24. ASSUME NEW c \in Chats, WorkerOuterPanic(c) PROVE Shown'
  BY <1>24, <1>a DEF WorkerOuterPanic, doneVars, noteVars, Shown, NotPast
<1>25. ASSUME NEW c \in Chats, WorkerDeath(c) PROVE Shown'
  BY <1>25, <1>a DEF WorkerDeath, noteVars, Shown, NotPast
<1>26. ASSUME NEW c \in Chats, NEW stored \in BOOLEAN, WorkerFinish(c, stored)
      PROVE  Shown'
  BY <1>26, <1>a DEF WorkerFinish, noteVars, Shown, NotPast
<1>27. CASE Restart
  BY <1>27, <1>a DEF Restart, noteVars, Shown, NotPast
<1>28. CASE UNCHANGED vars
  BY <1>28, <1>a DEF vars, Shown, NotPast
<1>. QED
  BY <1>1, <1>2, <1>3, <1>4, <1>5, <1>6, <1>7, <1>8, <1>9, <1>10, <1>11,
     <1>12, <1>13, <1>14, <1>15, <1>16, <1>17, <1>18, <1>19, <1>20, <1>21,
     <1>22, <1>23, <1>24, <1>25, <1>26, <1>27, <1>28
  DEF Next, DispatcherStep, WorkerStep, Panic

-----------------------------------------------------------------------------
(***************************************************************************)
(* The theorems                                                            *)
(***************************************************************************)

(* The channels of the executor never exceed their capacities and every    *)
(* variable has its type, whatever the interleaving, the panics and the    *)
(* restarts.                                                               *)
THEOREM TypeCorrect == Spec => []TypeOK
<1>1. IInv => TypeOK
  BY DEF IInv
<1>. QED
  BY <1>1, SpecIInv, PTL

(* The program counters always tell who holds a message: the dispatcher    *)
(* exactly while it is not receiving, a worker exactly while it is busy,   *)
(* and a chat without a live worker has an empty queue.                    *)
THEOREM HandoffHolds == Spec => []Handoff
<1>1. IInv => Handoff
  BY DEF IInv
<1>. QED
  BY <1>1, SpecIInv, PTL

(* Every message the unified channel accepted is in flight, answered,      *)
(* consumed by the dispatcher, or was lost with a dead worker or process.  *)
THEOREM NothingVanishes == Spec => []Accounted
<1>1. IInv => Accounted
  BY SingleAccounted DEF IInv
<1>. QED
  BY <1>1, SpecIInv, PTL

(* Of every message that arrived there is exactly one copy, the outcome    *)
(* included, and it is never with another chat's worker: the backup copy   *)
(* of the dispatcher and its re-dispatch deliver nothing twice.            *)
THEOREM DeliveredOnce == Spec => []ExactlyOnce
<1>1. IInv => ExactlyOnce
  <2>. SUFFICES ASSUME IInv PROVE ExactlyOnce
    OBVIOUS
  <2>1. \A m \in Elems(arrived) : m \in Messages
    BY ElemsType DEF IInv, TypeOK, RecordsOK
  <2>. QED
    BY <2>1 DEF IInv, Single, Routed, ExactlyOnce, One
<1>. QED
  BY <1>1, SpecIInv, PTL

LEMMA SpecBegun == Spec => []Begun
<1>1. Init => Begun
  BY ElemsEmpty DEF Init, Begun, Distinct
<1>2. IInv /\ Begun /\ [Next]_vars => Begun'
  BY NextMoves, MoveBegun DEF IInv
<1>. QED
  BY <1>1, <1>2, SpecIInv, PTL DEF Spec

(* A chat's worker starts messages in the order the unified channel        *)
(* accepted them, a message that was put back behind the others excepted.  *)
THEOREM ServedInOrder == Spec => []ArrivalOrder
<1>1. Init => LineUp
  BY ElemsEmpty, InOrderEmpty DEF Init, LineUp, Line, Ahead
<1>2. IInv /\ Begun /\ LineUp /\ [Next]_vars => LineUp'
  BY NextMoves, MoveLineUp DEF IInv
<1>3. Begun /\ LineUp => ArrivalOrder
  <2>. SUFFICES ASSUME Begun, LineUp, NEW c \in Chats,
                       NEW i \in 1..Len(started[c]), NEW j \in 1..Len(started[c]), i < j
                PROVE  \/ started[c][i] = started[c][j]
                       \/ Position(arrived, started[c][i]) < Position(arrived, started[c][j])
                       \/ started[c][j] \in redispatched
    BY DEF ArrivalOrder
  <2>1. Before(arrived, redispatched, started[c][i], started[c][j])
    BY DEF LineUp, Line, InOrder
  <2>2. ChatOf[started[c][i]] = c /\ ChatOf[started[c][j]] = c
    BY DEF Begun, Elems
  <2>. QED
    BY <2>1, <2>2 DEF Before
<1>. QED
  BY <1>1, <1>2, <1>3, SpecIInv, SpecBegun, PTL DEF Spec

(* A task that was told to stop while it ran never begins another tool     *)
(* round, whatever the dispatcher and the other workers do meanwhile.      *)
THEOREM StopIsObeyed == Spec => StopEndsTask
<1>1. Init => StopHeard
  BY DEF Init, StopHeard, Active
<1>2. IInv /\ StopHeard /\ [Next]_vars => StopHeard'
  BY NextStopHeard
<1>3. IInv /\ StopHeard /\ [Next]_vars
        => [\A c \in Chats :
              wpc[c] = "poll" /\ wmsg[c] \in stopped => wpc'[c] # "round"]_vars
  BY NextStopObeyed DEF StopObeyed
<1>. QED
  BY <1>1, <1>2, <1>3, SpecIInv, PTL DEF Spec, StopEndsTask

(* While is_heartbeat is set, the chat's worker is busy with a heartbeat   *)
(* or dead: the flag never outlives its task in a live worker.             *)
THEOREM HeartbeatFlagHolds == Spec => []HeartbeatFlagTrue
<1>1. Init => HeartbeatFlagTrue
  BY DEF Init, HeartbeatFlagTrue
<1>2. IInv /\ HeartbeatFlagTrue /\ [Next]_vars => HeartbeatFlagTrue'
  BY NextHeartbeatFlag DEF IInv
<1>. QED
  BY <1>1, <1>2, SpecIInv, PTL DEF Spec

(* In a chat that gets no heartbeats, a task is cut short only by a stop   *)
(* command given while it ran, even when other chats get heartbeats.       *)
THEOREM CutOnlyInTask == Spec => []CutInUserChats
<1>1. Init => InterruptMeant
  BY DEF Init, InterruptMeant, CutInUserChats, Active
<1>2. IInv /\ InterruptMeant /\ [Next]_vars => InterruptMeant'
  BY NextInterruptMeant
<1>3. InterruptMeant => CutInUserChats
  BY DEF InterruptMeant
<1>. QED
  BY <1>1, <1>2, <1>3, SpecIInv, PTL DEF Spec

(* Where no heartbeats are configured, CutOnlyByStop holds.  With          *)
(* heartbeats it does not: run DispatcherPreempt.                          *)
THEOREM CutsMeant ==
  ASSUME \A m \in Messages : ~Heartbeat(m)
  PROVE  Spec => []CutOnlyByStop
<1>1. IInv /\ CutInUserChats => CutOnlyByStop
  BY DEF CutInUserChats, CutOnlyByStop, UserOnly
<1>. QED
  BY <1>1, SpecIInv, CutOnlyInTask, PTL

LEMMA SpecTurns == Spec => []Turns
<1>1. Init => Turns
  BY GenuineEmpty DEF Init, Turns
<1>2. IInv /\ Turns /\ [Next]_vars => Turns'
  BY NextTurns
<1>. QED
  BY <1>1, <1>2, SpecIInv, PTL DEF Spec

(* What is saved for a chat, and what its worker remembers, are turns its  *)
(* workers took, oldest first, at most HistCap of them, through panics,    *)
(* restarts, failed loads and failed saves.                                *)
THEOREM HistoryHolds == Spec => []HistoryGenuine
<1>1. Turns => HistoryGenuine
  BY DEF Turns, Genuine, HistoryGenuine
<1>. QED
  BY <1>1, SpecTurns, PTL

(* A text is never shown as pending to a task that starts after the turn   *)
(* of its own message, except for commands and lost messages.              *)
THEOREM PendingHolds == Spec => []PendingNotPast
<1>1. Init => Noted /\ Shown
  BY ElemsEmpty DEF Init, Noted, Shown
<1>2. IInv /\ Begun /\ Turns /\ Noted /\ Shown /\ [Next]_vars => Noted' /\ Shown'
  BY NextNoted, NextShown
<1>3. Shown => PendingNotPast
  BY DEF Shown, NotPast, PendingNotPast
<1>. QED
  BY <1>1, <1>2, <1>3, SpecIInv, SpecBegun, SpecTurns, PTL DEF Spec

=============================================================================
