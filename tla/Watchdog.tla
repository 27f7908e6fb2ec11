------------------------------- MODULE Watchdog -------------------------------
(***************************************************************************)
(* The process watchdog (skyclaw-agent, watchdog.rs): subsystems report    *)
(* their health, checkers read the reports one lock at a time and update   *)
(* the counter of consecutive failures without a lock over the whole.      *)
(***************************************************************************)
EXTENDS Integers, Sequences, FiniteSets

CONSTANTS Subsystems, Checkers,
          MaxFailures,   \* max_consecutive_failures
          MaxChecks      \* bound on health checks

VARIABLES health,     \* SubsystemStatus of each subsystem
          failures,   \* consecutive_failures
          pc, view,   \* per checker: next step; statuses it has read
          checks,     \* checks begun
          ill,        \* per checker: a subsystem was unhealthy during its check
          alarms      \* checks during which one was (history)

watchdogVars == <<health, failures, pc, view, checks, ill, alarms>>

SomeIll(h) == \E s \in Subsystems : h[s] = "unhealthy"

Init == /\ health = [s \in Subsystems |-> "healthy"]
        /\ failures = 0 /\ checks = 0 /\ alarms = 0
        /\ ill = [c \in Checkers |-> FALSE]
        /\ pc = [c \in Checkers |-> "idle"]
        /\ view = [c \in Checkers |-> <<>>]

(* to_status *)
ToStatus(ok, detail) == IF ~ok THEN "unhealthy" ELSE IF detail THEN "degraded" ELSE "healthy"

Report(s, ok, detail) ==
  /\ health[s] # ToStatus(ok, detail)
  /\ health' = [health EXCEPT ![s] = ToStatus(ok, detail)]
  /\ ill' = [c \in Checkers |-> ill[c] \/ SomeIll(health')]
  /\ UNCHANGED <<failures, pc, view, checks, alarms>>

(* Mutant of Begin: the statuses of the checker's last check are used again. *)
BeginStale(c) ==
  /\ pc[c] = "idle" /\ checks < MaxChecks
  /\ checks' = checks + 1
  /\ ill' = [ill EXCEPT ![c] = SomeIll(health)]
  /\ pc' = [pc EXCEPT ![c] = IF view[c] = <<>> THEN "read" ELSE "judge"]
  /\ UNCHANGED <<health, failures, view, alarms>>

Begin(c) == /\ pc[c] = "idle" /\ checks < MaxChecks
            /\ checks' = checks + 1
            /\ pc' = [pc EXCEPT ![c] = "read"]
            /\ view' = [view EXCEPT ![c] = <<>>]
            /\ ill' = [ill EXCEPT ![c] = SomeIll(health)]
            /\ UNCHANGED <<health, failures, alarms>>

(* The locks of the subsystems are taken one after the other. *)
ReadNext(c, s) ==
  /\ pc[c] = "read" /\ s \notin {view[c][i][1] : i \in DOMAIN view[c]}
  /\ view' = [view EXCEPT ![c] = Append(@, <<s, health[s]>>)]
  /\ pc' = [pc EXCEPT ![c] = IF Len(view[c]) + 1 = Cardinality(Subsystems) THEN "judge" ELSE @]
  /\ UNCHANGED <<health, failures, checks, ill, alarms>>

Unhealthy(c) == \E i \in DOMAIN view[c] : view[c][i][2] = "unhealthy"

(* fetch_add, or the load that decides about the reset. *)
Judge(c) ==
  /\ pc[c] = "judge"
  /\ IF Unhealthy(c)
     THEN failures' = failures + 1 /\ pc' = [pc EXCEPT ![c] = "idle"]
     ELSE /\ pc' = [pc EXCEPT ![c] = IF failures > 0 THEN "reset" ELSE "idle"]
          /\ UNCHANGED failures
  /\ alarms' = IF ill[c] THEN alarms + 1 ELSE alarms
  /\ UNCHANGED <<health, view, checks, ill>>

(* The store of zero; increments since the load are overwritten. *)
Reset(c) ==
  /\ pc[c] = "reset"
  /\ failures' = 0
  /\ pc' = [pc EXCEPT ![c] = "idle"]
  /\ UNCHANGED <<health, view, checks, ill, alarms>>

ResetFailures == /\ failures > 0
                 /\ failures' = 0
                 /\ UNCHANGED <<health, pc, view, checks, ill, alarms>>

ShouldShutdown == failures > MaxFailures

Next == \/ \E s \in Subsystems, ok, d \in BOOLEAN : Report(s, ok, d)
        \/ \E c \in Checkers : \/ Begin(c) \/ Judge(c) \/ Reset(c)
                               \/ \E s \in Subsystems : ReadNext(c, s)
        \/ ResetFailures

Spec == Init /\ [][Next]_watchdogVars

-----------------------------------------------------------------------------
TypeOK == /\ health \in [Subsystems -> {"healthy", "degraded", "unhealthy"}]
          /\ failures \in Nat

(* A shutdown is recommended only after more checks than permitted during  *)
(* which some subsystem really was unhealthy: a check that reads one lock  *)
(* after the other, while reports arrive, never counts an illness that was *)
(* over before it began.                                                   *)
ShutdownEarned == ShouldShutdown => alarms > MaxFailures

-----------------------------------------------------------------------------
(* What holds between any two steps: a checker under way that has read, or   *)
(* can still read, an illness has it within its check.                       *)
Statuses == {"healthy", "degraded", "unhealthy"}
WatchdogTypes ==
  /\ health \in [Subsystems -> Statuses] /\ failures \in Nat /\ alarms \in Nat
  /\ pc \in [Checkers -> {"idle", "read", "judge", "reset"}]
  /\ view \in [Checkers -> Seq(Subsystems \X Statuses)]
  /\ ill \in [Checkers -> BOOLEAN]
Noticed(c) == pc[c] \in {"read", "judge"} /\ (Unhealthy(c) \/ SomeIll(health)) => ill[c]

WatchdogInv == /\ WatchdogTypes /\ failures <= alarms
               /\ \A c \in Checkers : Noticed(c)
=============================================================================
