--------------------------- MODULE CircuitBreaker ---------------------------
(***************************************************************************)
(* The circuit breaker in front of the provider.  One breaker is shared by *)
(* every chat worker (they hold clones of one Arc<AgentRuntime>), and its  *)
(* fields are separate atomics and mutexes, so each load, store and locked *)
(* section is a step of its own and the callers interleave between them.   *)
(***************************************************************************)
EXTENDS Naturals, TLAPS

CONSTANTS
  Callers,    (* the tasks that share the breaker                          *)
  Threshold,  (* failure_threshold (5 in the code)                         *)
  Base,       (* base_recovery_timeout (30 s), in ticks                    *)
  MaxTimeout  (* MAX_RECOVERY_TIMEOUT (300 s), in ticks                    *)

ASSUME BreakerAssumption ==
  /\ Threshold \in Nat \ {0}
  /\ Base \in Nat \ {0}
  /\ MaxTimeout \in Nat
  /\ Base <= MaxTimeout

VARIABLES
  state,      (* "closed", "open" or "halfOpen"                            *)
  failures,   (* consecutive_failures, see Saturated                       *)
  timeout,    (* current_recovery_timeout                                  *)
  opened,     (* opened_at holds an instant                                *)
  age,        (* time since that instant, see Saturated                    *)
  pc,         (* pc[p]: what caller p does next                            *)
  seen        (* seen[p]: the last value caller p read or computed         *)

vars == <<state, failures, timeout, opened, age, pc, seen>>

(***************************************************************************)
(* The code only asks whether failures >= Threshold and whether            *)
(* age >= timeout, with timeout <= MaxTimeout, so counting stops once the  *)
(* answer can no longer change.                                            *)
(***************************************************************************)
Saturated(n, limit) == IF n > limit THEN limit ELSE n

Double(t) == Saturated(t * 2, MaxTimeout)

(* CircuitBreaker::new                                                     *)
Init ==
  /\ state = "closed"
  /\ failures = 0
  /\ timeout = Base
  /\ opened = FALSE
  /\ age = 0
  /\ pc = [p \in Callers |-> "idle"]
  /\ seen = [p \in Callers |-> 0]

Goto(p, l) == pc' = [pc EXCEPT ![p] = l]
Note(p, v) == seen' = [seen EXCEPT ![p] = v]

(* Time passes; elapsed() grows.                                           *)
Tick ==
  /\ age' = Saturated(age + 1, MaxTimeout + 1)
  /\ UNCHANGED <<state, failures, timeout, opened, pc, seen>>

-----------------------------------------------------------------------------
(***************************************************************************)
(* can_execute                                                             *)
(***************************************************************************)

(* The state is loaded: closed and half-open let the request through.      *)
Admit(p) ==
  /\ pc[p] = "idle"
  /\ state # "open"
  /\ Goto(p, "call")
  /\ UNCHANGED <<state, failures, timeout, opened, age, seen>>

(* Open: the recovery timeout is read first ...                            *)
ReadTimeout(p) ==
  /\ pc[p] = "idle"
  /\ state = "open"
  /\ Goto(p, "elapsed")
  /\ Note(p, timeout)
  /\ UNCHANGED <<state, failures, timeout, opened, age>>

(* ... then compared with the time since opened_at.  No instant counts as  *)
(* "long enough".                                                          *)
ShouldTry(p) == ~opened \/ age >= seen[p]

Reject(p) ==
  /\ pc[p] = "elapsed"
  /\ ~ShouldTry(p)
  /\ Goto(p, "idle")
  /\ UNCHANGED <<state, failures, timeout, opened, age, seen>>

Recover(p) ==
  /\ pc[p] = "elapsed"
  /\ ShouldTry(p)
  /\ Goto(p, "halfOpen")
  /\ UNCHANGED <<state, failures, timeout, opened, age, seen>>

(* Mutant of StoreHalfOpen: the request goes through, the state stays.     *)
StoreHalfOpenNot(p) ==
  /\ pc[p] = "halfOpen"
  /\ Goto(p, "call")
  /\ UNCHANGED <<state, failures, timeout, opened, age, seen>>

StoreHalfOpen(p) ==
  /\ pc[p] = "halfOpen"
  /\ state' = "halfOpen"
  /\ Goto(p, "call")
  /\ UNCHANGED <<failures, timeout, opened, age, seen>>

-----------------------------------------------------------------------------
(***************************************************************************)
(* The provider call (external) and record_success                         *)
(***************************************************************************)
CallSucceeds(p) ==
  /\ pc[p] = "call"
  /\ Goto(p, "storeClosed")
  /\ UNCHANGED <<state, failures, timeout, opened, age, seen>>

CallFails(p) ==
  /\ pc[p] = "call"
  /\ Goto(p, "count")
  /\ UNCHANGED <<state, failures, timeout, opened, age, seen>>

StoreClosed(p) ==
  /\ pc[p] = "storeClosed"
  /\ state' = "closed"
  /\ Goto(p, "resetCount")
  /\ UNCHANGED <<failures, timeout, opened, age, seen>>

(* Mutant of ResetCount: the failures of the past are kept.                *)
ResetCountNot(p) ==
  /\ pc[p] = "resetCount"
  /\ Goto(p, "resetTimeout")
  /\ UNCHANGED <<state, failures, timeout, opened, age, seen>>

ResetCount(p) ==
  /\ pc[p] = "resetCount"
  /\ failures' = 0
  /\ Goto(p, "resetTimeout")
  /\ UNCHANGED <<state, timeout, opened, age, seen>>

ResetTimeout(p) ==
  /\ pc[p] = "resetTimeout"
  /\ timeout' = Base
  /\ Goto(p, "idle")
  /\ UNCHANGED <<state, failures, opened, age, seen>>

-----------------------------------------------------------------------------
(***************************************************************************)
(* record_failure                                                          *)
(***************************************************************************)

(* fetch_add returns the count this caller has to compare.                 *)
CountFailure(p) ==
  /\ pc[p] = "count"
  /\ failures' = Saturated(failures + 1, Threshold)
  /\ Note(p, Saturated(failures + 1, Threshold))
  /\ Goto(p, "judge")
  /\ UNCHANGED <<state, timeout, opened, age>>

(* Then the state is loaded and decides what happens.                      *)
JudgeNothing(p) ==
  /\ pc[p] = "judge"
  /\ state = "open" \/ (state = "closed" /\ seen[p] < Threshold)
  /\ Goto(p, "idle")
  /\ UNCHANGED <<state, failures, timeout, opened, age, seen>>

JudgeTrip(p) ==
  /\ pc[p] = "judge"
  /\ state = "closed"
  /\ seen[p] >= Threshold
  /\ Goto(p, "trip")
  /\ UNCHANGED <<state, failures, timeout, opened, age, seen>>

JudgeReopen(p) ==
  /\ pc[p] = "judge"
  /\ state = "halfOpen"
  /\ Goto(p, "reopen")
  /\ UNCHANGED <<state, failures, timeout, opened, age, seen>>

(* state := Open, from Closed or from HalfOpen.                            *)
StoreOpen(p) ==
  /\ pc[p] \in {"trip", "reopen"}
  /\ state' = "open"
  /\ Goto(p, IF pc[p] = "trip" THEN "stamp" ELSE "restamp")
  /\ UNCHANGED <<failures, timeout, opened, age, seen>>

(* Mutant of Stamp: forgotten when a closed circuit opens.                 *)
StampReopen(p) ==
  /\ pc[p] \in {"stamp", "restamp"}
  /\ opened' = (opened \/ pc[p] = "restamp")
  /\ age' = 0
  /\ Goto(p, IF pc[p] = "stamp" THEN "idle" ELSE "double")
  /\ UNCHANGED <<state, failures, timeout, seen>>

(* opened_at := now                                                        *)
Stamp(p) ==
  /\ pc[p] \in {"stamp", "restamp"}
  /\ opened' = TRUE
  /\ age' = 0
  /\ Goto(p, IF pc[p] = "stamp" THEN "idle" ELSE "double")
  /\ UNCHANGED <<state, failures, timeout, seen>>

(* Mutant of DoubleTimeout: without the upper limit.                       *)
DoubleUncapped(p) ==
  /\ pc[p] = "double"
  /\ timeout' = timeout * 2
  /\ Goto(p, "idle")
  /\ UNCHANGED <<state, failures, opened, age, seen>>

DoubleTimeout(p) ==
  /\ pc[p] = "double"
  /\ timeout' = Double(timeout)
  /\ Goto(p, "idle")
  /\ UNCHANGED <<state, failures, opened, age, seen>>

-----------------------------------------------------------------------------
Request(p) ==
  \/ Admit(p) \/ ReadTimeout(p) \/ Reject(p) \/ Recover(p) \/ StoreHalfOpen(p)
Record(p) ==
  \/ StoreClosed(p) \/ ResetCount(p) \/ ResetTimeout(p)
  \/ CountFailure(p) \/ JudgeNothing(p) \/ JudgeTrip(p) \/ JudgeReopen(p)
  \/ StoreOpen(p) \/ Stamp(p) \/ DoubleTimeout(p)
Call(p) == CallSucceeds(p) \/ CallFails(p)

Next == Tick \/ \E p \in Callers : Request(p) \/ Call(p) \/ Record(p)

Spec == Init /\ [][Next]_vars

(* Requests keep coming, calls return, tasks are polled and time passes.   *)
Fairness ==
  /\ WF_vars(Tick)
  /\ \A p \in Callers : WF_vars(Request(p) \/ Call(p) \/ Record(p))

FairSpec == Spec /\ Fairness

-----------------------------------------------------------------------------
(***************************************************************************)
(* Properties                                                              *)
(***************************************************************************)
PCs == {"idle", "elapsed", "halfOpen", "call", "storeClosed", "resetCount",
        "resetTimeout", "count", "judge", "trip", "reopen", "stamp", "restamp",
        "double"}

(* Types; in particular the recovery timeout stays between its base and    *)
(* MAX_RECOVERY_TIMEOUT whatever callers double and reset it.              *)
TypeOK ==
  /\ state \in {"closed", "open", "halfOpen"}
  /\ failures \in 0..Threshold
  /\ timeout \in Base..MaxTimeout
  /\ opened \in BOOLEAN
  /\ age \in 0..(MaxTimeout + 1)
  /\ pc \in [Callers -> PCs]
  /\ seen \in [Callers -> Nat]

(* Caller p is between the call's result and the end of record_*.          *)
Recording(p) ==
  pc[p] \in {"storeClosed", "resetCount", "resetTimeout", "count", "judge",
             "trip", "reopen", "stamp", "restamp", "double"}
Quiet == \A p \in Callers : ~Recording(p)

(* Once every result has been recorded, a closed circuit has fewer than    *)
(* Threshold failures on its count: no interleaving of a late success with *)
(* failures leaves a circuit closed that should have opened.               *)
ClosedMeansBelow == Quiet /\ state = "closed" => failures < Threshold

(* ... and a circuit that is not closed has a start for its recovery time, *)
(* so nobody is let through because opened_at is still empty.              *)
OpenHasStart == Quiet /\ state # "closed" => opened

(* An open circuit is not open forever: if requests keep coming, one of    *)
(* them is let through, however often the provider fails.                  *)
OpenEnds == state = "open" ~> state # "open"

-----------------------------------------------------------------------------
(* Theorems about CircuitBreaker, for any number of callers, any threshold *)
(* and any timeouts.                                                       *)

(***************************************************************************)
(* While results are being recorded the two properties do not hold: a      *)
(* closed circuit may have reached the threshold, and an open one may lack *)
(* its start.  In both cases some caller is just about to put it right.    *)
(***************************************************************************)
TripDue ==
  state = "closed" /\ failures >= Threshold =>
    \E p \in Callers : \/ pc[p] \in {"resetCount", "trip"}
                       \/ pc[p] = "judge" /\ seen[p] >= Threshold

StampDue ==
  ~opened /\ (state # "closed" \/ \E p \in Callers : pc[p] \in {"elapsed", "halfOpen"})
    => \E p \in Callers : pc[p] \in {"stamp", "restamp"}

(* Doubling with the upper limit stays within the limits.                  *)
LEMMA DoubleBounds ==
  ASSUME NEW t \in Base..MaxTimeout
  PROVE  Double(t) \in Base..MaxTimeout
BY BreakerAssumption DEF Double, Saturated

LEMMA NextType ==
  ASSUME TypeOK, [Next]_vars
  PROVE  TypeOK'
<1>. USE BreakerAssumption DEF TypeOK, PCs, Goto, Note
<1>1. CASE Tick
  BY <1>1 DEF Tick, Saturated
<1>2. ASSUME NEW p \in Callers, Admit(p) PROVE TypeOK'
  BY <1>2 DEF Admit
<1>3. ASSUME NEW p \in Callers, ReadTimeout(p) PROVE TypeOK'
  BY <1>3 DEF ReadTimeout
<1>4. ASSUME NEW p \in Callers, Reject(p) PROVE TypeOK'
  BY <1>4 DEF Reject
<1>5. ASSUME NEW p \in Callers, Recover(p) PROVE TypeOK'
  BY <1>5 DEF Recover
<1>6. ASSUME NEW p \in Callers, StoreHalfOpen(p) PROVE TypeOK'
  BY <1>6 DEF StoreHalfOpen
<1>7. ASSUME NEW p \in Callers, CallSucceeds(p) PROVE TypeOK'
  BY <1>7 DEF CallSucceeds
<1>8. ASSUME NEW p \in Callers, CallFails(p) PROVE TypeOK'
  BY <1>8 DEF CallFails
<1>9. ASSUME NEW p \in Callers, StoreClosed(p) PROVE TypeOK'
  BY <1>9 DEF StoreClosed
<1>10. ASSUME NEW p \in Callers, ResetCount(p) PROVE TypeOK'
  BY <1>10 DEF ResetCount
<1>11. ASSUME NEW p \in Callers, ResetTimeout(p) PROVE TypeOK'
  BY <1>11 DEF ResetTimeout
<1>12. ASSUME NEW p \in Callers, CountFailure(p) PROVE TypeOK'
  BY <1>12 DEF CountFailure, Saturated
<1>13. ASSUME NEW p \in Callers, JudgeNothing(p) PROVE TypeOK'
  BY <1>13 DEF JudgeNothing
<1>14. ASSUME NEW p \in Callers, JudgeTrip(p) PROVE TypeOK'
  BY <1>14 DEF JudgeTrip
<1>15. ASSUME NEW p \in Callers, JudgeReopen(p) PROVE TypeOK'
  BY <1>15 DEF JudgeReopen
<1>16. ASSUME NEW p \in Callers, StoreOpen(p) PROVE TypeOK'
  BY <1>16 DEF StoreOpen
<1>17. ASSUME NEW p \in Callers, Stamp(p) PROVE TypeOK'
  BY <1>17 DEF Stamp
<1>18. ASSUME NEW p \in Callers, DoubleTimeout(p) PROVE TypeOK'
  BY <1>18, DoubleBounds DEF DoubleTimeout
<1>19. CASE UNCHANGED vars
  BY <1>19 DEF vars
<1>. QED
  BY <1>1, <1>2, <1>3, <1>4, <1>5, <1>6, <1>7, <1>8, <1>9, <1>10, <1>11,
      <1>12, <1>13, <1>14, <1>15, <1>16, <1>17, <1>18, <1>19
  DEF Next, Request, Call, Record

(* Whoever takes the count to the threshold, or stores Closed over it, has *)
(* not finished yet.                                                       *)
LEMMA NextTripDue ==
  ASSUME TypeOK, TripDue, [Next]_vars
  PROVE  TripDue'
<1>. USE BreakerAssumption DEF TypeOK, TripDue, Goto, Note
<1>1. CASE Tick
  BY <1>1 DEF Tick
<1>2. ASSUME NEW p \in Callers, Admit(p) PROVE TripDue'
  BY <1>2 DEF Admit
<1>3. ASSUME NEW p \in Callers, ReadTimeout(p) PROVE TripDue'
  BY <1>3 DEF ReadTimeout
<1>4. ASSUME NEW p \in Callers, Reject(p) PROVE TripDue'
  BY <1>4 DEF Reject
<1>5. ASSUME NEW p \in Callers, Recover(p) PROVE TripDue'
  BY <1>5 DEF Recover
<1>6. ASSUME NEW p \in Callers, StoreHalfOpen(p) PROVE TripDue'
  BY <1>6 DEF StoreHalfOpen
<1>7. ASSUME NEW p \in Callers, CallSucceeds(p) PROVE TripDue'
  BY <1>7 DEF CallSucceeds
<1>8. ASSUME NEW p \in Callers, CallFails(p) PROVE TripDue'
  BY <1>8 DEF CallFails
<1>9. ASSUME NEW p \in Callers, StoreClosed(p) PROVE TripDue'
  BY <1>9 DEF StoreClosed
<1>10. ASSUME NEW p \in Callers, ResetCount(p) PROVE TripDue'
  BY <1>10 DEF ResetCount
<1>11. ASSUME NEW p \in Callers, ResetTimeout(p) PROVE TripDue'
  BY <1>11 DEF ResetTimeout
<1>12. ASSUME NEW p \in Callers, CountFailure(p) PROVE TripDue'
  BY <1>12 DEF CountFailure, Saturated
<1>13. ASSUME NEW p \in Callers, JudgeNothing(p) PROVE TripDue'
  BY <1>13 DEF JudgeNothing
<1>14. ASSUME NEW p \in Callers, JudgeTrip(p) PROVE TripDue'
  BY <1>14 DEF JudgeTrip
<1>15. ASSUME NEW p \in Callers, JudgeReopen(p) PROVE TripDue'
  BY <1>15 DEF JudgeReopen
<1>16. ASSUME NEW p \in Callers, StoreOpen(p) PROVE TripDue'
  BY <1>16 DEF StoreOpen
<1>17. ASSUME NEW p \in Callers, Stamp(p) PROVE TripDue'
  BY <1>17 DEF Stamp
<1>18. ASSUME NEW p \in Callers, DoubleTimeout(p) PROVE TripDue'
  BY <1>18 DEF DoubleTimeout
<1>19. CASE UNCHANGED vars
  BY <1>19 DEF vars
<1>. QED
  BY <1>1, <1>2, <1>3, <1>4, <1>5, <1>6, <1>7, <1>8, <1>9, <1>10, <1>11,
      <1>12, <1>13, <1>14, <1>15, <1>16, <1>17, <1>18, <1>19
  DEF Next, Request, Call, Record

(* Whoever stores Open has still to set opened_at, which is never emptied. *)
LEMMA NextStampDue ==
  ASSUME TypeOK, StampDue, [Next]_vars
  PROVE  StampDue'
<1>. USE BreakerAssumption DEF TypeOK, StampDue, Goto, Note
<1>1. CASE Tick
  BY <1>1 DEF Tick
<1>2. ASSUME NEW p \in Callers, Admit(p) PROVE StampDue'
  BY <1>2 DEF Admit
<1>3. ASSUME NEW p \in Callers, ReadTimeout(p) PROVE StampDue'
  BY <1>3 DEF ReadTimeout
<1>4. ASSUME NEW p \in Callers, Reject(p) PROVE StampDue'
  BY <1>4 DEF Reject
<1>5. ASSUME NEW p \in Callers, Recover(p) PROVE StampDue'
  BY <1>5 DEF Recover
<1>6. ASSUME NEW p \in Callers, StoreHalfOpen(p) PROVE StampDue'
  BY <1>6 DEF StoreHalfOpen
<1>7. ASSUME NEW p \in Callers, CallSucceeds(p) PROVE StampDue'
  BY <1>7 DEF CallSucceeds
<1>8. ASSUME NEW p \in Callers, CallFails(p) PROVE StampDue'
  BY <1>8 DEF CallFails
<1>9. ASSUME NEW p \in Callers, StoreClosed(p) PROVE StampDue'
  BY <1>9 DEF StoreClosed
<1>10. ASSUME NEW p \in Callers, ResetCount(p) PROVE StampDue'
  BY <1>10 DEF ResetCount
<1>11. ASSUME NEW p \in Callers, ResetTimeout(p) PROVE StampDue'
  BY <1>11 DEF ResetTimeout
<1>12. ASSUME NEW p \in Callers, CountFailure(p) PROVE StampDue'
  BY <1>12 DEF CountFailure
<1>13. ASSUME NEW p \in Callers, JudgeNothing(p) PROVE StampDue'
  BY <1>13 DEF JudgeNothing
<1>14. ASSUME NEW p \in Callers, JudgeTrip(p) PROVE StampDue'
  BY <1>14 DEF JudgeTrip
<1>15. ASSUME NEW p \in Callers, JudgeReopen(p) PROVE StampDue'
  BY <1>15 DEF JudgeReopen
<1>16. ASSUME NEW p \in Callers, StoreOpen(p) PROVE StampDue'
  BY <1>16 DEF StoreOpen
<1>17. ASSUME NEW p \in Callers, Stamp(p) PROVE StampDue'
  BY <1>17 DEF Stamp
<1>18. ASSUME NEW p \in Callers, DoubleTimeout(p) PROVE StampDue'
  BY <1>18 DEF DoubleTimeout
<1>19. CASE UNCHANGED vars
  BY <1>19 DEF vars
<1>. QED
  BY <1>1, <1>2, <1>3, <1>4, <1>5, <1>6, <1>7, <1>8, <1>9, <1>10, <1>11,
      <1>12, <1>13, <1>14, <1>15, <1>16, <1>17, <1>18, <1>19
  DEF Next, Request, Call, Record

LEMMA Inductive == Spec => [](TypeOK /\ TripDue /\ StampDue)
<1>1. ASSUME Init PROVE TypeOK /\ TripDue /\ StampDue
  <2>1. TypeOK
    <3>1. 0 \in 0..Threshold /\ Base \in Base..MaxTimeout /\ 0 \in 0..(MaxTimeout + 1)
      BY BreakerAssumption
    <3>2. pc \in [Callers -> PCs] /\ seen \in [Callers -> Nat]
      BY <1>1 DEF Init, PCs
    <3>. QED
      BY <1>1, <3>1, <3>2 DEF Init, TypeOK
  <2>2. TripDue
    BY <1>1, BreakerAssumption DEF Init, TripDue
  <2>3. StampDue
    BY <1>1 DEF Init, StampDue
  <2>. QED
    BY <2>1, <2>2, <2>3
<1>2. TypeOK /\ TripDue /\ StampDue /\ [Next]_vars => TypeOK' /\ TripDue' /\ StampDue'
  BY NextType, NextTripDue, NextStampDue
<1>. QED
  BY <1>1, <1>2, PTL DEF Spec

(* The recovery timeout stays between its base and its maximum, and all    *)
(* fields have their types, for any number of interleaved callers.         *)
THEOREM TypeCorrect == Spec => []TypeOK
BY Inductive, PTL

(* No interleaving leaves a circuit closed that has Threshold failures     *)
(* once all results are recorded.                                          *)
THEOREM ClosedIsBelow == Spec => []ClosedMeansBelow
<1>1. TypeOK /\ TripDue => ClosedMeansBelow
  BY BreakerAssumption DEF TypeOK, TripDue, ClosedMeansBelow, Quiet, Recording
<1>. QED
  BY <1>1, Inductive, PTL

(* No interleaving leaves a circuit open or half-open without the instant  *)
(* from which its recovery timeout is counted.                             *)
THEOREM OpenIsStamped == Spec => []OpenHasStart
<1>1. StampDue => OpenHasStart
  BY DEF StampDue, OpenHasStart, Quiet, Recording
<1>. QED
  BY <1>1, Inductive, PTL
=============================================================================
