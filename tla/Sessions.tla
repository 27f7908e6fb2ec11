------------------------------ MODULE Sessions ------------------------------
(***************************************************************************)
(* SessionManager of the gateway (skyclaw-gateway, session.rs): a map of   *)
(* sessions and the order of their last use, each under a lock of its own. *)
(* Tasks interleave wherever no lock is held; an eviction holds both.  A   *)
(* session is its history; a task works on a clone and writes it back.     *)
(***************************************************************************)
EXTENDS Integers, Sequences, FiniteSets, Functions

CONSTANTS Tasks,        \* concurrent users of the manager
          Keys,         \* channel:chat:user
          MaxSessions,  \* MAX_SESSIONS
          MaxHistory,   \* MAX_HISTORY_PER_SESSION
          MaxTurns      \* bound on operations

VARIABLES sessions,     \* key |-> history, for the keys in use
          accessOrder,  \* most recent at the back
          at,           \* task |-> [pc, key]
          clone,        \* task |-> the session it holds, <<>> if none
          turns,        \* operations begun
          removals      \* remove_session calls (history)

sessionVars == <<sessions, accessOrder, at, clone, turns, removals>>

Idle == [pc |-> "idle", key |-> "none"]
At(t, pc, k) == at' = [at EXCEPT ![t] = [pc |-> pc, key |-> k]]
Hold(t, h) == clone' = [clone EXCEPT ![t] = <<h>>]

Init == /\ sessions = <<>> /\ accessOrder = <<>>
        /\ at = [t \in Tasks |-> Idle] /\ clone = [t \in Tasks |-> <<>>]
        /\ turns = 0 /\ removals = 0

(* get_or_create_session, fast path under the read lock. *)
Get(t, k) == /\ at[t].pc = "idle" /\ clone[t] = <<>> /\ turns < MaxTurns
             /\ turns' = turns + 1
             /\ IF k \in DOMAIN sessions
                THEN At(t, "touch", k) /\ Hold(t, sessions[k])
                ELSE At(t, "create", k) /\ UNCHANGED clone
             /\ UNCHANGED <<sessions, accessOrder, removals>>

(* The keys an eviction takes from the front of the order: as few as bring *)
(* the map below the limit, or all of them.                                *)
Evicted == LET left(n) == Cardinality(DOMAIN sessions \ {accessOrder[i] : i \in 1..n})
               enough == {n \in 0..Len(accessOrder) : left(n) < MaxSessions}
           IN IF enough = {} THEN Len(accessOrder)
              ELSE CHOOSE n \in enough : \A m \in enough : n <= m

(* Mutant of Create: evicts only beyond the limit. *)
CreateLate(t) ==
  LET k == at[t].key
      n == IF Cardinality(DOMAIN sessions) > MaxSessions THEN Evicted ELSE 0
      keep == DOMAIN sessions \ {accessOrder[i] : i \in 1..n}
  IN /\ at[t].pc = "create"
     /\ IF k \in DOMAIN sessions
        THEN At(t, "touch", k) /\ Hold(t, sessions[k]) /\ UNCHANGED <<sessions, accessOrder>>
        ELSE /\ sessions' = [x \in keep \union {k} |-> IF x = k THEN <<>> ELSE sessions[x]]
             /\ accessOrder' = SubSeq(accessOrder, n + 1, Len(accessOrder))
             /\ At(t, "push", k) /\ Hold(t, <<>>)
     /\ UNCHANGED <<turns, removals>>

(* The slow path: look again, evict, insert; all under the write lock. *)
Create(t) ==
  LET k == at[t].key
      keep == DOMAIN sessions \ {accessOrder[i] : i \in 1..Evicted}
  IN /\ at[t].pc = "create"
     /\ IF k \in DOMAIN sessions
        THEN At(t, "touch", k) /\ Hold(t, sessions[k]) /\ UNCHANGED <<sessions, accessOrder>>
        ELSE /\ sessions' = [x \in keep \union {k} |-> IF x = k THEN <<>> ELSE sessions[x]]
             /\ accessOrder' = SubSeq(accessOrder, Evicted + 1, Len(accessOrder))
             /\ At(t, "push", k) /\ Hold(t, <<>>)
     /\ UNCHANGED <<turns, removals>>

Push(t) == /\ at[t].pc = "push"
           /\ accessOrder' = Append(accessOrder, at[t].key)
           /\ At(t, "idle", at[t].key)
           /\ UNCHANGED <<sessions, clone, turns, removals>>

(* A sequence without the elements x, the others in their order. *)
Without(s, x) ==
  LET kept == {i \in DOMAIN s : s[i] # x}
      rank(i) == Cardinality({j \in kept : j <= i})
  IN [n \in 1..Cardinality(kept) |-> s[CHOOSE i \in kept : rank(i) = n]]

Unlist(k) == Without(accessOrder, k)

(* touch_access_order *)
Touch(t) == /\ at[t].pc = "touch"
            /\ accessOrder' = Append(Unlist(at[t].key), at[t].key)
            /\ At(t, "idle", at[t].key)
            /\ UNCHANGED <<sessions, clone, turns, removals>>

(* Only the newest messages of a history are kept. *)
Cut(h) == IF Len(h) > MaxHistory THEN SubSeq(h, Len(h) - MaxHistory + 1, Len(h)) ELSE h

(* The task has added to its clone; update_session cuts it and inserts it, *)
(* also when the session has been evicted meanwhile.                       *)
Update(t) ==
  LET k == at[t].key
      h == Append(clone[t][1], t)
  IN /\ at[t].pc = "idle" /\ clone[t] # <<>>
     /\ sessions' = [x \in DOMAIN sessions \union {k} |-> IF x = k THEN Cut(h) ELSE sessions[x]]
     /\ clone' = [clone EXCEPT ![t] = <<>>]
     /\ At(t, "touch", k)
     /\ UNCHANGED <<accessOrder, turns, removals>>

(* remove_session, its two locks one after the other. *)
RemoveSession(t, k) == /\ at[t].pc = "idle" /\ clone[t] = <<>> /\ turns < MaxTurns
                /\ turns' = turns + 1 /\ removals' = removals + 1
                /\ sessions' = [x \in DOMAIN sessions \ {k} |-> sessions[x]]
                /\ At(t, "unlist", k)
                /\ UNCHANGED <<accessOrder, clone>>

RemoveOrder(t) == /\ at[t].pc = "unlist"
                  /\ accessOrder' = Unlist(at[t].key)
                  /\ At(t, "idle", at[t].key)
                  /\ UNCHANGED <<sessions, clone, turns, removals>>

Next == \E t \in Tasks :
          \/ \E k \in Keys : Get(t, k) \/ RemoveSession(t, k)
          \/ Create(t) \/ Push(t) \/ Touch(t) \/ Update(t) \/ RemoveOrder(t)

Spec == Init /\ [][Next]_sessionVars

-----------------------------------------------------------------------------
TypeOK == /\ \A k \in DOMAIN sessions : k \in Keys /\ Len(sessions[k]) <= MaxHistory
          /\ accessOrder \in Seq(Keys)

(* The limit is exceeded at most by what update_session brings back after  *)
(* an eviction, one session for each task that still held it, and by one   *)
(* session for each removal that raced a creation of the same key.         *)
SessionsBounded ==
  Cardinality(DOMAIN sessions) <= MaxSessions + (Cardinality(Tasks) - 1) + removals

(* Without removals no session escapes the eviction: whenever no task is   *)
(* between its two locks every session is listed in the order of use.      *)
EverySessionListed ==
  (removals = 0 /\ \A t \in Tasks : at[t].pc = "idle") =>
    DOMAIN sessions \subseteq Range(accessOrder)
-----------------------------------------------------------------------------
(* What holds between any two steps.                                         *)
SessionTypes ==
  /\ IsFiniteSet(DOMAIN sessions) /\ DOMAIN sessions \subseteq Keys
  /\ \A k \in DOMAIN sessions : sessions[k] \in Seq(Tasks) /\ Len(sessions[k]) <= MaxHistory
  /\ accessOrder \in Seq(Keys)
  /\ at \in [Tasks -> [pc : {"idle", "create", "push", "touch", "unlist"},
                       key : Keys \union {"none"}]]
  /\ clone \in [Tasks -> Seq(Seq(Tasks))]
  /\ \A t \in Tasks : /\ (at[t].pc # "idle" \/ clone[t] # <<>>) => at[t].key \in Keys
                      /\ at[t].pc \in {"create", "unlist"} => clone[t] = <<>>
  /\ removals \in Nat

(* Keys a task is about to list, and sessions nothing will list.             *)
Pending == {at[t].key : t \in {x \in Tasks : at[x].pc \in {"push", "touch"}}}
Stray == DOMAIN sessions \ (Range(accessOrder) \union Pending)
Unlisters == {t \in Tasks : at[t].pc = "unlist"}

(* A removal between its two locks can make one session a stray.             *)
StrayBound == Cardinality(Stray) + Cardinality(Unlisters) <= removals

(* The sessions of the map and those that tasks can still put back.          *)
Held == {at[t].key : t \in {x \in Tasks : clone[x] # <<>>}}
Known == DOMAIN sessions \union Held
KnownBound ==
  Cardinality(Known) <= MaxSessions + (Cardinality(Tasks) - 1) + removals

SessionsInv == SessionTypes /\ StrayBound /\ KnownBound
=============================================================================
