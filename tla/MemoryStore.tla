---------------------------- MODULE MemoryStore -----------------------------
(***************************************************************************)
(* What the Memory trait (skyclaw-core, traits/memory.rs) promises to the  *)
(* tasks that share one backend.  A store or delete takes effect at one    *)
(* moment, and at most once; Ok is returned only after that moment.  An    *)
(* error says nothing: the operation may have had its effect, may never    *)
(* have it, or may still have it after the error was returned.             *)
(***************************************************************************)
EXTENDS Integers, FiniteSets

CONSTANTS Tasks, Ids, Values

VARIABLES entry,      \* id |-> content, 0 when there is no entry
          call,       \* task |-> the call it is in
          returned,   \* task |-> what its last call returned
          stray       \* effects of calls that have returned an error

storeVars == <<entry, call, returned, stray>>

Idle == [op |-> "idle"]
Reads == {"get", "search"}
Writes == {"store", "delete"}

Init == /\ entry = [i \in Ids |-> 0] /\ stray = {}
        /\ call = [t \in Tasks |-> Idle] /\ returned = [t \in Tasks |-> [kind |-> "none"]]

(* The entries after a store or a delete, and what a read sees. *)
Written(e, op, i, v) == [e EXCEPT ![i] = IF op = "store" THEN v ELSE 0]
Seen(e, op, i) == {<<j, e[j]>> : j \in {k \in Ids : e[k] # 0 /\ (op = "get" => k = i)}}

Calls == [op : Reads \union Writes, id : Ids, value : Values, done : {FALSE}, saw : {{}}]

Invoke(t) ==
  /\ call[t] = Idle /\ call'[t] \in Calls
  /\ call' = [call EXCEPT ![t] = call'[t]]
  /\ UNCHANGED <<entry, returned, stray>>

Effect(t) ==
  LET c == call[t]
  IN /\ c # Idle /\ ~c.done
     /\ entry' = IF c.op \in Writes THEN Written(entry, c.op, c.id, c.value) ELSE entry
     /\ call' = [call EXCEPT ![t].done = TRUE,
                             ![t].saw = IF c.op \in Reads THEN Seen(entry, c.op, c.id) ELSE {}]
     /\ UNCHANGED <<returned, stray>>

ReturnOk(t) ==
  /\ call[t] # Idle /\ call[t].done
  /\ returned' = [returned EXCEPT ![t] = [kind |-> "ok", saw |-> call[t].saw]]
  /\ call' = [call EXCEPT ![t] = Idle]
  /\ UNCHANGED <<entry, stray>>

ReturnErr(t) ==
  /\ call[t] # Idle
  /\ returned' = [returned EXCEPT ![t] = [kind |-> "err"]]
  /\ call' = [call EXCEPT ![t] = Idle]
  /\ \/ UNCHANGED stray
     \/ /\ call[t].op \in Writes /\ ~call[t].done
        /\ stray' = stray \union {[op |-> call[t].op, id |-> call[t].id, value |-> call[t].value]}
  /\ UNCHANGED entry

(* An effect whose caller is gone happens, or never will. *)
StrayEnds(s) ==
  /\ stray' = stray \ {s}
  /\ entry' \in {entry, Written(entry, s.op, s.id, s.value)}
  /\ UNCHANGED <<call, returned>>

Next == \/ \E t \in Tasks : Invoke(t) \/ Effect(t) \/ ReturnOk(t) \/ ReturnErr(t)
        \/ \E s \in stray : StrayEnds(s)

Spec == Init /\ [][Next]_storeVars
=============================================================================
