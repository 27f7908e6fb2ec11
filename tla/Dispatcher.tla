----------------------------- MODULE Dispatcher -----------------------------
(***************************************************************************)
(* The per-chat serial executor of the gateway (`skyclaw start`).          *)
(*                                                                         *)
(* Channel adapters and the heartbeat runner put inbound messages into one *)
(* bounded channel.  A single dispatcher task takes them out one by one    *)
(* and hands each to the worker of its chat over that worker's own bounded *)
(* queue.  Dispatcher and worker also share two atomic flags (`interrupt`, *)
(* `is_heartbeat`) and the map of pending texts, none of which is guarded  *)
(* by a common lock, so every load and store that the other side can       *)
(* separate is an action of its own.                                       *)
(***************************************************************************)
EXTENDS Naturals, Sequences, FiniteSets

CONSTANTS
  Chats,       (* chat ids                                                 *)
  Messages,    (* the inbound messages of the instance, each sent once     *)
  ChatOf,      (* ChatOf[m]: the chat of message m                         *)
  KindOf,      (* KindOf[m]: what the code distinguishes about m, see Kinds*)
  UnifiedCap,  (* capacity of the unified channel (32 in the code)         *)
  ChatCap,     (* capacity of a chat's queue (4 in the code)               *)
  MaxRounds,   (* max_tool_rounds of a task                                *)
  HistCap,     (* turns a worker keeps (the code keeps 200 entries)        *)
  MaxPanics,   (* bound: panics in the instance                            *)
  MaxRestarts, (* bound: restarts of the process                           *)
  NoMsg        (* "no message in hand"                                     *)

(***************************************************************************)
(* "user": a prompt for the agent.  "file": the same without a text.       *)
(* "empty": a blank text and no attachment.                                *)
(* "stop": a text that is_stop_command accepts.  "cmd": a slash command    *)
(* answered before the agent runs.  "blob": an enc:v1: key blob.  "key": a *)
(* pasted API key, or any other message while there is no agent yet.       *)
(* "heartbeat": a tick of the heartbeat runner.                            *)
(***************************************************************************)
Kinds ==
  {"user", "file", "empty", "stop", "cmd", "blob", "key", "heartbeat"}

ASSUME InstanceAssumption ==
  /\ ChatOf \in [Messages -> Chats]
  /\ KindOf \in [Messages -> Kinds]
  /\ NoMsg \notin Messages

ASSUME BoundAssumption ==
  /\ UnifiedCap \in Nat \ {0}
  /\ ChatCap \in Nat \ {0}
  /\ HistCap \in Nat \ {0}
  /\ MaxRounds \in Nat
  /\ MaxPanics \in Nat
  /\ MaxRestarts \in Nat

VARIABLES
  unified,     (* content of the unified channel                           *)
  dpc,         (* what the dispatcher does next                            *)
  cur,         (* the message the dispatcher holds                         *)
  slot,        (* slot[c]: chat_slots has an entry for c                   *)
  queue,       (* queue[c]: content of the queue of c's worker             *)
  interrupt,   (* interrupt[c]: the flag polled between tool rounds        *)
  isHb,        (* isHb[c]: the flag "the active task is a heartbeat"       *)
  pending,     (* pending[c]: texts waiting to be shown to the active task *)
  wpc,         (* wpc[c]: what c's worker does next                        *)
  wmsg,        (* wmsg[c]: the message c's worker is processing            *)
  rounds,      (* rounds[c]: tool rounds of the active task                *)
  keep,        (* keep[c]: the finished task's turn goes into the history  *)
  hist,        (* hist[c]: persistent_history of c's worker, one per turn  *)
  saved,       (* saved[c]: the history stored in the memory backend       *)
  faults       (* panics and restarts so far                               *)

(***************************************************************************)
(* History variables: they record what happened and guard nothing.         *)
(***************************************************************************)
VARIABLES
  arrived,     (* messages in the order the unified channel accepted them  *)
  started,     (* started[c]: messages in the order c's worker took them   *)
  redispatched,(* messages put back into the unified channel               *)
  answered,    (* messages whose worker ran to the end of its loop body    *)
  swallowed,   (* messages the dispatcher consumed without queueing them   *)
  lost,        (* messages that went down with a dead worker or process    *)
  stopped,     (* tasks during which a stop command was dispatched         *)
  cut,         (* tasks that ended because the interrupt flag was set      *)
  injected     (* <<t, m>>: the text of m was shown to task t as pending   *)

flagVars == <<interrupt, isHb>>
workVars == <<wpc, wmsg, rounds, keep, hist, saved>>
doneVars == <<answered, swallowed, lost>>
noteVars == <<stopped, cut, injected>>
vars == <<unified, dpc, cur, slot, queue, interrupt, isHb, pending, wpc, wmsg,
          rounds, keep, hist, saved, faults, arrived, started, redispatched,
          answered, swallowed, lost, stopped, cut, injected>>

Elems(s) == {s[i] : i \in 1..Len(s)}

HasText(m)    == KindOf[m] # "file"
Heartbeat(m)  == KindOf[m] = "heartbeat"
(* Answered by the worker's loop body without the agent.                   *)
Command(m)    == KindOf[m] \in {"cmd", "blob", "key"}
(* Where the loop body goes with m: process_message returns at once when   *)
(* the message is empty.                                                   *)
BodyOf(m) ==
  IF Command(m) THEN "cmd" ELSE IF KindOf[m] = "empty" THEN "post" ELSE "poll"
Alive(c)      == wpc[c] # "dead"
(* c's worker is inside process_message.                                   *)
Active(c)     == wpc[c] \in {"poll", "round"}

(* The messages that c's worker, and the gateway as a whole, still hold.   *)
Holding(c) == Elems(queue[c]) \cup ({wmsg[c]} \ {NoMsg})
InFlight ==
  Elems(unified) \cup ({cur} \ {NoMsg}) \cup UNION {Holding(c) : c \in Chats}

(* Mutant of Remember: off by one, a turn too many is kept.                *)
RememberOneMore(h, m) ==
  IF Len(h) <= HistCap THEN Append(h, m) ELSE Append(Tail(h), m)

(* persistent_history after one more turn: only the newest HistCap stay.   *)
Remember(h, m) ==
  IF Len(h) < HistCap THEN Append(h, m) ELSE Append(Tail(h), m)

Init ==
  /\ unified = <<>>
  /\ dpc = "recv"
  /\ cur = NoMsg
  /\ slot = [c \in Chats |-> FALSE]
  /\ queue = [c \in Chats |-> <<>>]
  /\ interrupt = [c \in Chats |-> FALSE]
  /\ isHb = [c \in Chats |-> FALSE]
  /\ pending = [c \in Chats |-> <<>>]
  /\ wpc = [c \in Chats |-> "none"]
  /\ wmsg = [c \in Chats |-> NoMsg]
  /\ rounds = [c \in Chats |-> 0]
  /\ keep = [c \in Chats |-> FALSE]
  /\ hist = [c \in Chats |-> <<>>]
  /\ saved = [c \in Chats |-> <<>>]
  /\ faults = [panics |-> 0, restarts |-> 0]
  /\ arrived = <<>>
  /\ started = [c \in Chats |-> <<>>]
  /\ redispatched = {}
  /\ answered = {}
  /\ swallowed = {}
  /\ lost = {}
  /\ stopped = {}
  /\ cut = {}
  /\ injected = {}

-----------------------------------------------------------------------------
(***************************************************************************)
(* Sources                                                                 *)
(***************************************************************************)

(* A channel forwarder's `tx.send(msg).await`, or a heartbeat tick's       *)
(* try_send: both put a message in only when the channel has room.         *)
Arrive(m) ==
  /\ m \notin Elems(arrived)
  /\ Len(unified) < UnifiedCap
  /\ unified' = Append(unified, m)
  /\ arrived' = Append(arrived, m)
  /\ UNCHANGED <<dpc, cur, slot, queue, flagVars, pending, workVars, faults,
                 started, redispatched, doneVars, noteVars>>

-----------------------------------------------------------------------------
(***************************************************************************)
(* Dispatcher task                                                         *)
(***************************************************************************)

(* A fresh ChatSlot: an empty queue, cleared flags and a spawned worker,   *)
(* which first restores its history.                                       *)
SpawnWorker(c) ==
  /\ slot' = [slot EXCEPT ![c] = TRUE]
  /\ queue' = [queue EXCEPT ![c] = <<>>]
  /\ interrupt' = [interrupt EXCEPT ![c] = FALSE]
  /\ isHb' = [isHb EXCEPT ![c] = FALSE]
  /\ wpc' = [wpc EXCEPT ![c] = "init"]

(* A heartbeat for a chat that has a worker is offered with try_send.      *)
RecvHeartbeatQueue ==
  /\ dpc = "recv"
  /\ unified # <<>>
  /\ LET m == Head(unified)
         c == ChatOf[m]
     IN /\ Heartbeat(m)
        /\ slot[c] /\ Alive(c) /\ Len(queue[c]) < ChatCap
        /\ queue' = [queue EXCEPT ![c] = Append(@, m)]
  /\ unified' = Tail(unified)
  /\ UNCHANGED <<dpc, cur, slot, flagVars, pending, workVars, faults, arrived,
                 started, redispatched, doneVars, noteVars>>

(* ... and dropped when the queue is full or the worker is gone.           *)
RecvHeartbeatSkip ==
  /\ dpc = "recv"
  /\ unified # <<>>
  /\ LET m == Head(unified)
         c == ChatOf[m]
     IN /\ Heartbeat(m)
        /\ slot[c]
        /\ ~Alive(c) \/ Len(queue[c]) >= ChatCap
        /\ swallowed' = swallowed \cup {m}
  /\ unified' = Tail(unified)
  /\ UNCHANGED <<dpc, cur, slot, queue, flagVars, pending, workVars, faults,
                 arrived, started, redispatched, answered, lost, noteVars>>

(* A heartbeat for a chat without a worker creates the worker; the final   *)
(* send is reserved for other messages, so the heartbeat itself is gone.   *)
RecvHeartbeatSpawn ==
  /\ dpc = "recv"
  /\ unified # <<>>
  /\ LET m == Head(unified)
         c == ChatOf[m]
     IN /\ Heartbeat(m)
        /\ ~slot[c]
        /\ SpawnWorker(c)
        /\ swallowed' = swallowed \cup {m}
  /\ unified' = Tail(unified)
  /\ UNCHANGED <<dpc, cur, pending, wmsg, rounds, keep, hist, saved, faults,
                 arrived, started, redispatched, answered, lost, noteVars>>

(* Any other message: the dispatcher loads is_heartbeat and remembers      *)
(* whether it has to set the interrupt flag.                               *)
RecvMessage ==
  /\ dpc = "recv"
  /\ unified # <<>>
  /\ LET m == Head(unified)
         c == ChatOf[m]
     IN /\ ~Heartbeat(m)
        /\ cur' = m
        /\ dpc' = IF slot[c] /\ isHb[c] THEN "preempt" ELSE "route"
  /\ unified' = Tail(unified)
  /\ UNCHANGED <<slot, queue, flagVars, pending, workVars, faults, arrived,
                 started, redispatched, doneVars, noteVars>>

(* `slot.interrupt.store(true)` after the load above saw a heartbeat.      *)
PreemptHeartbeat ==
  /\ dpc = "preempt"
  /\ interrupt' = [interrupt EXCEPT ![ChatOf[cur]] = TRUE]
  /\ dpc' = "route"
  /\ UNCHANGED <<unified, cur, slot, queue, isHb, pending, workVars, faults,
                 arrived, started, redispatched, doneVars, noteVars>>

(* A stop command is only recognised when the chat already has a slot.     *)
StopCommand ==
  /\ dpc = "route"
  /\ LET c == ChatOf[cur]
     IN /\ KindOf[cur] = "stop"
        /\ slot[c]
        /\ interrupt' = [interrupt EXCEPT ![c] = TRUE]
        /\ stopped' = IF Active(c) THEN stopped \cup {wmsg[c]} ELSE stopped
  /\ swallowed' = swallowed \cup {cur}
  /\ cur' = NoMsg
  /\ dpc' = "recv"
  /\ UNCHANGED <<unified, slot, queue, isHb, pending, workVars, faults, arrived,
                 started, redispatched, answered, lost, cut, injected>>

(* A message for a chat that has a slot is also noted as pending.          *)
NotePending ==
  /\ dpc = "route"
  /\ LET c == ChatOf[cur]
     IN /\ slot[c]
        /\ KindOf[cur] # "stop"
        /\ pending' = IF HasText(cur)
                      THEN [pending EXCEPT ![c] = Append(@, cur)]
                      ELSE pending
  /\ dpc' = "send"
  /\ UNCHANGED <<unified, cur, slot, queue, flagVars, workVars, faults, arrived,
                 started, redispatched, doneVars, noteVars>>

(* No slot: a worker is spawned and the message, a stop command included,  *)
(* becomes its first message.                                              *)
EnsureWorker ==
  /\ dpc = "route"
  /\ ~slot[ChatOf[cur]]
  /\ SpawnWorker(ChatOf[cur])
  /\ dpc' = "send"
  /\ UNCHANGED <<unified, cur, pending, wmsg, rounds, keep, hist, saved, faults,
                 arrived, started, redispatched, doneVars, noteVars>>

(* Mutants of Send: an unbounded queue; the newest message first.          *)
SendUnbounded ==
  /\ dpc = "send"
  /\ Alive(ChatOf[cur])
  /\ queue' = [queue EXCEPT ![ChatOf[cur]] = Append(@, cur)]
  /\ cur' = NoMsg
  /\ dpc' = "recv"
  /\ UNCHANGED <<unified, slot, flagVars, pending, workVars, faults, arrived,
                 started, redispatched, doneVars, noteVars>>

(* Mutant of Send: the message overtakes those that are waiting. *)
SendFirst ==
  /\ dpc = "send"
  /\ Alive(ChatOf[cur])
  /\ Len(queue[ChatOf[cur]]) < ChatCap
  /\ queue' = [queue EXCEPT ![ChatOf[cur]] = <<cur>> \o @]
  /\ cur' = NoMsg
  /\ dpc' = "recv"
  /\ UNCHANGED <<unified, slot, flagVars, pending, workVars, faults, arrived,
                 started, redispatched, doneVars, noteVars>>

(* `tx.send(inbound).await`: waits while the chat's queue is full.         *)
Send ==
  /\ dpc = "send"
  /\ LET c == ChatOf[cur]
     IN /\ Alive(c)
        /\ Len(queue[c]) < ChatCap
        /\ queue' = [queue EXCEPT ![c] = Append(@, cur)]
  /\ cur' = NoMsg
  /\ dpc' = "recv"
  /\ UNCHANGED <<unified, slot, flagVars, pending, workVars, faults, arrived,
                 started, redispatched, doneVars, noteVars>>

(* Mutant of SendDead: no backup copy is kept.                             *)
SendDeadNoBackup ==
  /\ dpc = "send"
  /\ ~Alive(ChatOf[cur])
  /\ slot' = [slot EXCEPT ![ChatOf[cur]] = FALSE]
  /\ cur' = NoMsg
  /\ dpc' = "recv"
  /\ UNCHANGED <<unified, queue, flagVars, pending, workVars, faults,
                 arrived, started, redispatched, doneVars, noteVars>>

(* The send fails because the worker is gone: the slot is removed and the  *)
(* dispatcher goes on with its backup copy of the message.                 *)
SendDead ==
  /\ dpc = "send"
  /\ ~Alive(ChatOf[cur])
  /\ slot' = [slot EXCEPT ![ChatOf[cur]] = FALSE]
  /\ dpc' = "redispatch"
  /\ UNCHANGED <<unified, cur, queue, flagVars, pending, workVars, faults,
                 arrived, started, redispatched, doneVars, noteVars>>

(* Mutant of Redispatch: the dispatcher also goes on with its own copy.    *)
RedispatchTwice ==
  /\ dpc = "redispatch"
  /\ Len(unified) < UnifiedCap
  /\ unified' = Append(unified, cur)
  /\ redispatched' = redispatched \cup {cur}
  /\ dpc' = "route"
  /\ UNCHANGED <<cur, slot, queue, flagVars, pending, workVars, faults, arrived,
                 started, doneVars, noteVars>>

(* `msg_tx_redispatch.send(..).await`: back into the unified channel, of   *)
(* which this very task is the only consumer.                              *)
Redispatch ==
  /\ dpc = "redispatch"
  /\ Len(unified) < UnifiedCap
  /\ unified' = Append(unified, cur)
  /\ redispatched' = redispatched \cup {cur}
  /\ cur' = NoMsg
  /\ dpc' = "recv"
  /\ UNCHANGED <<slot, queue, flagVars, pending, workVars, faults, arrived,
                 started, doneVars, noteVars>>

-----------------------------------------------------------------------------
(***************************************************************************)
(* Worker of chat c                                                        *)
(***************************************************************************)

(* The stored history is read back; when it cannot be loaded or parsed the *)
(* worker starts with an empty one.                                        *)
WorkerRestore(c) ==
  /\ wpc[c] = "init"
  /\ \E h \in {saved[c], <<>>} : hist' = [hist EXCEPT ![c] = h]
  /\ wpc' = [wpc EXCEPT ![c] = "idle"]
  /\ UNCHANGED <<unified, dpc, cur, slot, queue, flagVars, pending, wmsg,
                 rounds, keep, saved, faults, arrived, started, redispatched,
                 doneVars, noteVars>>

(* chat_rx.recv(), then is_heartbeat is set to what the message is.        *)
WorkerRecv(c) ==
  /\ wpc[c] = "idle"
  /\ queue[c] # <<>>
  /\ LET m == Head(queue[c])
     IN /\ wmsg' = [wmsg EXCEPT ![c] = m]
        /\ isHb' = [isHb EXCEPT ![c] = Heartbeat(m)]
        /\ started' = [started EXCEPT ![c] = Append(@, m)]
  /\ queue' = [queue EXCEPT ![c] = Tail(@)]
  /\ wpc' = [wpc EXCEPT ![c] = "begin"]
  /\ UNCHANGED <<unified, dpc, cur, slot, interrupt, pending, rounds, keep,
                 hist, saved, faults, arrived, redispatched, doneVars, noteVars>>

(* Mutant of WorkerBegin: the flag of the previous task stays.             *)
WorkerBeginNoReset(c) ==
  /\ wpc[c] = "begin"
  /\ rounds' = [rounds EXCEPT ![c] = 0]
  /\ keep' = [keep EXCEPT ![c] = FALSE]
  /\ wpc' = [wpc EXCEPT ![c] = BodyOf(wmsg[c])]
  /\ UNCHANGED <<unified, dpc, cur, slot, queue, flagVars, pending, wmsg,
                 hist, saved, faults, arrived, started, redispatched, doneVars,
                 noteVars>>

(* The interrupt flag of the previous task is cleared.  Until the agent    *)
(* has added to it, there is no turn to keep.                              *)
WorkerBegin(c) ==
  /\ wpc[c] = "begin"
  /\ interrupt' = [interrupt EXCEPT ![c] = FALSE]
  /\ rounds' = [rounds EXCEPT ![c] = 0]
  /\ keep' = [keep EXCEPT ![c] = FALSE]
  /\ wpc' = [wpc EXCEPT ![c] = BodyOf(wmsg[c])]
  /\ UNCHANGED <<unified, dpc, cur, slot, queue, isHb, pending, wmsg,
                 hist, saved, faults, arrived, started, redispatched, doneVars,
                 noteVars>>

(* A message answered without the agent.  Every such path clears           *)
(* is_heartbeat; only a blob or a key clears the pending texts, and only a *)
(* key the interrupt flag.                                                 *)
WorkerCommand(c) ==
  /\ wpc[c] = "cmd"
  /\ isHb' = [isHb EXCEPT ![c] = FALSE]
  /\ interrupt' = [interrupt EXCEPT ![c] = @ /\ KindOf[wmsg[c]] # "key"]
  /\ pending' = [pending EXCEPT ![c] = IF KindOf[wmsg[c]] = "cmd" THEN @ ELSE <<>>]
  /\ answered' = answered \cup {wmsg[c]}
  /\ wmsg' = [wmsg EXCEPT ![c] = NoMsg]
  /\ wpc' = [wpc EXCEPT ![c] = "idle"]
  /\ UNCHANGED <<unified, dpc, cur, slot, queue, rounds, keep, hist, saved,
                 faults, arrived, started, redispatched, swallowed, lost,
                 noteVars>>

(* process_message, top of the tool loop: the flag is set, the task ends.  *)
WorkerInterrupted(c) ==
  /\ wpc[c] = "poll"
  /\ interrupt[c]
  /\ cut' = cut \cup {wmsg[c]}
  /\ keep' = [keep EXCEPT ![c] = TRUE]
  /\ wpc' = [wpc EXCEPT ![c] = "post"]
  /\ UNCHANGED <<unified, dpc, cur, slot, queue, flagVars, pending, wmsg,
                 rounds, hist, saved, faults, arrived, started, redispatched,
                 doneVars, stopped, injected>>

(* Mutant of WorkerGiveUp: no time limit, and off by one, the round limit  *)
(* is never reached.                                                       *)
WorkerGiveUpLate(c) ==
  /\ wpc[c] = "poll"
  /\ ~interrupt[c]
  /\ rounds[c] > MaxRounds
  /\ keep' = [keep EXCEPT ![c] = TRUE]
  /\ wpc' = [wpc EXCEPT ![c] = "post"]
  /\ UNCHANGED <<unified, dpc, cur, slot, queue, flagVars, pending, wmsg,
                 rounds, hist, saved, faults, arrived, started, redispatched,
                 doneVars, noteVars>>

(* The loop is left when the time limit, which any poll may find exceeded, *)
(* or the round limit is reached.                                          *)
WorkerGiveUp(c) ==
  /\ wpc[c] = "poll"
  /\ ~interrupt[c]
  /\ keep' = [keep EXCEPT ![c] = TRUE]
  /\ wpc' = [wpc EXCEPT ![c] = "post"]
  /\ UNCHANGED <<unified, dpc, cur, slot, queue, flagVars, pending, wmsg,
                 rounds, hist, saved, faults, arrived, started, redispatched,
                 doneVars, noteVars>>

(* Mutant of WorkerRound: the interrupt flag is not polled.                *)
WorkerRoundNoPoll(c) ==
  /\ wpc[c] = "poll"
  /\ rounds[c] < MaxRounds
  /\ rounds' = [rounds EXCEPT ![c] = @ + 1]
  /\ wpc' = [wpc EXCEPT ![c] = "round"]
  /\ UNCHANGED <<unified, dpc, cur, slot, queue, flagVars, pending, wmsg,
                 keep, hist, saved, faults, arrived, started, redispatched,
                 doneVars, noteVars>>

(* Otherwise the provider is called.                                       *)
WorkerRound(c) ==
  /\ wpc[c] = "poll"
  /\ ~interrupt[c]
  /\ rounds[c] < MaxRounds
  /\ rounds' = [rounds EXCEPT ![c] = @ + 1]
  /\ wpc' = [wpc EXCEPT ![c] = "round"]
  /\ UNCHANGED <<unified, dpc, cur, slot, queue, flagVars, pending, wmsg,
                 keep, hist, saved, faults, arrived, started, redispatched,
                 doneVars, noteVars>>

(* It asked for tools: they run, then the pending texts are taken out of   *)
(* the map and shown to the model with the last tool result.               *)
WorkerTools(c) ==
  /\ wpc[c] = "round"
  /\ injected' = injected \cup {<<wmsg[c], m>> : m \in Elems(pending[c])}
  /\ pending' = [pending EXCEPT ![c] = <<>>]
  /\ wpc' = [wpc EXCEPT ![c] = "poll"]
  /\ UNCHANGED <<unified, dpc, cur, slot, queue, flagVars, wmsg, rounds, keep,
                 hist, saved, faults, arrived, started, redispatched, doneVars,
                 stopped, cut>>

(* It answered or failed, or the budget or the circuit breaker refused the *)
(* call: the turn stays in the history in each case.                       *)
WorkerFinal(c) ==
  /\ wpc[c] = "round"
  /\ keep' = [keep EXCEPT ![c] = TRUE]
  /\ wpc' = [wpc EXCEPT ![c] = "post"]
  /\ UNCHANGED <<unified, dpc, cur, slot, queue, flagVars, pending, wmsg,
                 rounds, hist, saved, faults, arrived, started, redispatched,
                 doneVars, noteVars>>

(* A panic inside process_message is caught and the history rolled back.   *)
WorkerInnerPanic(c) ==
  /\ Active(c)
  /\ faults.panics < MaxPanics
  /\ faults' = [faults EXCEPT !.panics = @ + 1]
  /\ keep' = [keep EXCEPT ![c] = FALSE]
  /\ wpc' = [wpc EXCEPT ![c] = "post"]
  /\ UNCHANGED <<unified, dpc, cur, slot, queue, flagVars, pending, wmsg,
                 rounds, hist, saved, arrived, started, redispatched, doneVars,
                 noteVars>>

(* The history of c's worker once the turn of its task is over.            *)
TurnHistory(c) == IF keep[c] THEN Remember(hist[c], wmsg[c]) ELSE hist[c]

(* Reply, keep and save the history (the save may fail and is only         *)
(* logged), then clear both flags and the pending texts.                   *)
WorkerFinish(c, stored) ==
  /\ wpc[c] = "post"
  /\ hist' = [hist EXCEPT ![c] = TurnHistory(c)]
  /\ saved' = IF stored THEN [saved EXCEPT ![c] = TurnHistory(c)] ELSE saved
  /\ isHb' = [isHb EXCEPT ![c] = FALSE]
  /\ interrupt' = [interrupt EXCEPT ![c] = FALSE]
  /\ pending' = [pending EXCEPT ![c] = <<>>]
  /\ answered' = answered \cup {wmsg[c]}
  /\ wmsg' = [wmsg EXCEPT ![c] = NoMsg]
  /\ wpc' = [wpc EXCEPT ![c] = "idle"]
  /\ UNCHANGED <<unified, dpc, cur, slot, queue, rounds, keep, faults, arrived,
                 started, redispatched, swallowed, lost, noteVars>>

(* A panic elsewhere in the loop body: while a command is answered, or     *)
(* before, between or after keeping and saving the history.                *)
WorkerOuterPanic(c) ==
  /\ wpc[c] \in {"begin", "cmd", "post"}
  /\ faults.panics < MaxPanics
  /\ faults' = [faults EXCEPT !.panics = @ + 1]
  /\ \/ UNCHANGED <<hist, saved>>
     \/ /\ wpc[c] = "post"
        /\ hist' = [hist EXCEPT ![c] = TurnHistory(c)]
        /\ \/ UNCHANGED saved
           \/ saved' = [saved EXCEPT ![c] = TurnHistory(c)]
  /\ wpc' = [wpc EXCEPT ![c] = "panicked"]
  /\ UNCHANGED <<unified, dpc, cur, slot, queue, flagVars, pending, wmsg,
                 rounds, keep, arrived, started, redispatched, doneVars,
                 noteVars>>

(* Mutant of WorkerRecover: the clean-up the panic skipped is not made up. *)
WorkerRecoverNoCleanup(c) ==
  /\ wpc[c] = "panicked"
  /\ answered' = answered \cup {wmsg[c]}
  /\ wmsg' = [wmsg EXCEPT ![c] = NoMsg]
  /\ wpc' = [wpc EXCEPT ![c] = "idle"]
  /\ UNCHANGED <<unified, dpc, cur, slot, queue, flagVars, pending, rounds,
                 keep, hist, saved, faults, arrived, started, redispatched,
                 swallowed, lost, noteVars>>

(* The outer safety net replies and repeats the clean-up.                  *)
WorkerRecover(c) ==
  /\ wpc[c] = "panicked"
  /\ isHb' = [isHb EXCEPT ![c] = FALSE]
  /\ interrupt' = [interrupt EXCEPT ![c] = FALSE]
  /\ pending' = [pending EXCEPT ![c] = <<>>]
  /\ answered' = answered \cup {wmsg[c]}
  /\ wmsg' = [wmsg EXCEPT ![c] = NoMsg]
  /\ wpc' = [wpc EXCEPT ![c] = "idle"]
  /\ UNCHANGED <<unified, dpc, cur, slot, queue, rounds, keep, hist, saved,
                 faults, arrived, started, redispatched, swallowed, lost,
                 noteVars>>

(* A panic outside both nets, while the history is restored or while the   *)
(* outer net replies, ends the task; its queue goes down with it.          *)
WorkerDeath(c) ==
  /\ wpc[c] \in {"init", "panicked"}
  /\ faults.panics < MaxPanics
  /\ faults' = [faults EXCEPT !.panics = @ + 1]
  /\ lost' = lost \cup Holding(c)
  /\ queue' = [queue EXCEPT ![c] = <<>>]
  /\ wmsg' = [wmsg EXCEPT ![c] = NoMsg]
  /\ wpc' = [wpc EXCEPT ![c] = "dead"]
  /\ UNCHANGED <<unified, dpc, cur, slot, flagVars, pending, rounds, keep, hist,
                 saved, arrived, started, redispatched, answered, swallowed,
                 noteVars>>

-----------------------------------------------------------------------------
(* The process ends, at whatever point, and is started again.  Only what   *)
(* the memory backend holds survives.                                      *)
Restart ==
  /\ faults.restarts < MaxRestarts
  /\ faults' = [faults EXCEPT !.restarts = @ + 1]
  /\ lost' = lost \cup InFlight
  /\ unified' = <<>>
  /\ dpc' = "recv"
  /\ cur' = NoMsg
  /\ slot' = [c \in Chats |-> FALSE]
  /\ queue' = [c \in Chats |-> <<>>]
  /\ interrupt' = [c \in Chats |-> FALSE]
  /\ isHb' = [c \in Chats |-> FALSE]
  /\ pending' = [c \in Chats |-> <<>>]
  /\ wpc' = [c \in Chats |-> "none"]
  /\ wmsg' = [c \in Chats |-> NoMsg]
  /\ rounds' = [c \in Chats |-> 0]
  /\ keep' = [c \in Chats |-> FALSE]
  /\ hist' = [c \in Chats |-> <<>>]
  /\ UNCHANGED <<saved, arrived, started, redispatched, answered, swallowed,
                 noteVars>>

DispatcherStep ==
  \/ RecvHeartbeatQueue
  \/ RecvHeartbeatSkip
  \/ RecvHeartbeatSpawn
  \/ RecvMessage
  \/ PreemptHeartbeat
  \/ StopCommand
  \/ NotePending
  \/ EnsureWorker
  \/ Send
  \/ SendDead
  \/ Redispatch

WorkerStep(c) ==
  \/ WorkerRestore(c)
  \/ WorkerRecv(c)
  \/ WorkerBegin(c)
  \/ WorkerCommand(c)
  \/ WorkerInterrupted(c)
  \/ WorkerGiveUp(c)
  \/ WorkerRound(c)
  \/ WorkerTools(c)
  \/ WorkerFinal(c)
  \/ \E stored \in BOOLEAN : WorkerFinish(c, stored)
  \/ WorkerRecover(c)

Panic(c) ==
  \/ WorkerInnerPanic(c)
  \/ WorkerOuterPanic(c)
  \/ WorkerDeath(c)

Next ==
  \/ \E m \in Messages : Arrive(m)
  \/ DispatcherStep
  \/ \E c \in Chats : WorkerStep(c) \/ Panic(c)
  \/ Restart

(* tokio polls every ready task: the dispatcher and every worker keep      *)
(* going.  Nothing obliges a message to arrive or a task to panic.         *)
Fairness ==
  /\ WF_vars(DispatcherStep)
  /\ \A c \in Chats : WF_vars(WorkerStep(c))

Spec == Init /\ [][Next]_vars
FairSpec == Spec /\ Fairness

-----------------------------------------------------------------------------
(***************************************************************************)
(* Properties                                                              *)
(***************************************************************************)

DispatcherPCs == {"recv", "preempt", "route", "send", "redispatch"}
WorkerPCs == {"none", "init", "idle", "begin", "cmd", "poll", "round", "post",
              "panicked", "dead"}

ChannelsOK ==
  /\ unified \in Seq(Messages)
  /\ Len(unified) <= UnifiedCap
  /\ slot \in [Chats -> BOOLEAN]
  /\ queue \in [Chats -> Seq(Messages)]
  /\ \A c \in Chats : Len(queue[c]) <= ChatCap
  /\ pending \in [Chats -> Seq(Messages)]

ControlOK ==
  /\ dpc \in DispatcherPCs
  /\ cur \in Messages \cup {NoMsg}
  /\ wpc \in [Chats -> WorkerPCs]
  /\ wmsg \in [Chats -> Messages \cup {NoMsg}]
  /\ rounds \in [Chats -> 0..MaxRounds]
  /\ interrupt \in [Chats -> BOOLEAN]
  /\ isHb \in [Chats -> BOOLEAN]
  /\ keep \in [Chats -> BOOLEAN]

HistoriesOK ==
  /\ hist \in [Chats -> Seq(Messages)]
  /\ saved \in [Chats -> Seq(Messages)]

RecordsOK ==
  /\ faults \in [panics : 0..MaxPanics, restarts : 0..MaxRestarts]
  /\ arrived \in Seq(Messages)
  /\ started \in [Chats -> Seq(Messages)]
  /\ redispatched \subseteq Messages
  /\ answered \subseteq Messages
  /\ swallowed \subseteq Messages
  /\ lost \subseteq Messages
  /\ stopped \subseteq Messages
  /\ cut \subseteq Messages
  /\ injected \subseteq Messages \X Messages

(* Every variable has its type, and the bounded channels (mpsc::channel    *)
(* with capacities 32 and 4 in main.rs) never hold more than they may.     *)
TypeOK == ChannelsOK /\ ControlOK /\ HistoriesOK /\ RecordsOK

(* A message the unified channel accepted is held by one of the gateway's  *)
(* own parts until it is answered, consumed by the dispatcher, or goes     *)
(* down with a dead worker or process: recv, send, the re-dispatch after a *)
(* failed send and the panic nets never let one slip between two of them.  *)
Accounted ==
  Elems(arrived) = InFlight \cup answered \cup swallowed \cup lost

Occurrences(s, m) == Cardinality({i \in 1..Len(s) : s[i] = m})
One(b) == IF b THEN 1 ELSE 0

(* The number of copies of m, its final outcome included.                  *)
Copies(m) ==
  LET c == ChatOf[m]
  IN Occurrences(unified, m) + One(cur = m) + Occurrences(queue[c], m)
       + One(wmsg[c] = m) + One(m \in answered) + One(m \in swallowed)
       + One(m \in lost)

(* The backup copy the dispatcher keeps for the re-dispatch never becomes  *)
(* a second delivery, and a message never reaches another chat's worker.   *)
ExactlyOnce ==
  /\ \A m \in Elems(arrived) : Copies(m) = 1
  /\ \A c \in Chats : \A m \in Holding(c) : ChatOf[m] = c

Position(s, m) == CHOOSE i \in 1..Len(s) : s[i] = m

(* The executor is serial per chat: a chat's worker takes messages in the  *)
(* order the unified channel accepted them, except for a message that had  *)
(* to be put back behind its successors because the worker had died.       *)
ArrivalOrder ==
  \A c \in Chats : \A i, j \in 1..Len(started[c]) :
    i < j => \/ started[c][i] = started[c][j]
             \/ Position(arrived, started[c][i]) < Position(arrived, started[c][j])
             \/ started[c][j] \in redispatched

(* A task that was told to stop while it ran never begins another tool     *)
(* round: nothing clears the flag before the task has polled it.           *)
StopEndsTask ==
  [][\A c \in Chats :
       wpc[c] = "poll" /\ wmsg[c] \in stopped => wpc'[c] # "round"]_vars

(* A task other than a heartbeat is cut short only by a stop command given *)
(* while it ran: an interrupt meant for one task never hits the next one.  *)
(* Holds while there are no heartbeats; "User message preempting active    *)
(* heartbeat task" (main.rs) promises it with them as well, but between    *)
(* the load of is_heartbeat and the store of the interrupt flag the        *)
(* worker may have moved on to a user's task.                              *)
CutOnlyByStop ==
  \A m \in cut : ~Heartbeat(m) => m \in stopped

(* The flag is_heartbeat never outlives its task: while it is set, the     *)
(* worker is busy with a heartbeat.                                        *)
HeartbeatFlagTrue ==
  \A c \in Chats :
    isHb[c] => /\ wpc[c] \in {"begin", "cmd", "poll", "round", "post", "panicked", "dead"}
               /\ wpc[c] # "dead" => wmsg[c] # NoMsg /\ Heartbeat(wmsg[c])

(* A text is never shown as pending to a task that starts after the turn   *)
(* of its own message: at the end of a turn, a caught panic included, the  *)
(* pending texts are dropped.  Slash commands leave them, and a message    *)
(* lost with its worker leaves its text behind.                            *)
PendingNotPast ==
  \A p \in injected :
    LET order == started[ChatOf[p[1]]]
    IN p[2] \in Elems(order) =>
         \/ Position(order, p[1]) <= Position(order, p[2])
         \/ KindOf[p[2]] = "cmd"
         \/ p[2] \in lost

(* Increasing sequence of indices picking t out of s.                      *)
Subsequence(t, s) ==
  \A i, j \in 1..Len(t) :
    i < j => \E k, l \in 1..Len(s) : k < l /\ s[k] = t[i] /\ s[l] = t[j]

(* What is saved for a chat, and what its worker remembers, are turns its  *)
(* workers really took, each once, oldest first, and at most HistCap of    *)
(* them, through faults, roll-backs, failed loads and failed saves.        *)
HistoryGenuine ==
  \A c \in Chats : \A h \in {hist[c], saved[c]} :
    /\ Elems(h) \subseteq Elems(started[c])
    /\ Subsequence(h, started[c])
    /\ Len(h) <= HistCap

(* Under fair scheduling every accepted message ends: the dispatcher never *)
(* blocks forever on a full chat queue and no worker sits on a message.    *)
EveryMessageEnds ==
  \A m \in Messages :
    m \in Elems(arrived) ~> m \in answered \cup swallowed \cup lost

-----------------------------------------------------------------------------
(***************************************************************************)
(* What the repository says and the code does not do                       *)
(***************************************************************************)

(* "so the dispatcher loop creates a fresh worker for this chat_id - zero  *)
(* messages lost": the re-dispatch after a worker's death always gets      *)
(* through.                                                                *)
RedispatchCompletes == dpc = "redispatch" ~> dpc # "redispatch"
=============================================================================
