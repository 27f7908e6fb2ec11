---------------------------- MODULE SelfCorrection ----------------------------
(***************************************************************************)
(* FailureTracker (skyclaw-agent, self_correction.rs): errors per tool     *)
(* since its last success, and the strategy rotation after max_failures.   *)
(***************************************************************************)
EXTENDS Integers, Sequences, FiniteSets, Functions

CONSTANTS Tools, MaxFailures, MaxCalls

VARIABLES failed,    \* tool |-> call numbers of its recorded failures
          calls      \* outcomes of all tool calls (history)

trackerVars == <<failed, calls>>

Init == failed = [t \in Tools |-> <<>>] /\ calls = <<>>

RecordFailure(t) ==
  /\ Len(calls) < MaxCalls
  /\ calls' = Append(calls, <<t, FALSE>>)
  /\ failed' = [failed EXCEPT ![t] = Append(@, Len(calls'))]

RecordSuccess(t) ==
  /\ Len(calls) < MaxCalls
  /\ calls' = Append(calls, <<t, TRUE>>)
  /\ failed' = [failed EXCEPT ![t] = <<>>]

ShouldRotateStrategy(t) == Len(failed[t]) >= MaxFailures

(* format_rotation_prompt lists the recorded errors, or is not given. *)
RotationPrompt(t) == IF ShouldRotateStrategy(t) THEN failed[t] ELSE <<>>

Next == \E t \in Tools : RecordFailure(t) \/ RecordSuccess(t)

Spec == Init /\ [][Next]_trackerVars

-----------------------------------------------------------------------------
(* The calls of a tool, and its failures since its last success. *)
Mine(t) == {i \in DOMAIN calls : calls[i][1] = t}
Since(t) == {i \in Mine(t) : \A j \in Mine(t) : calls[j][2] => j < i}

Increasing(s) == \A j, k \in DOMAIN s : j < k => s[j] < s[k]

(* The rotation is due exactly when at least max_failures calls of the     *)
(* tool, whatever other tools did between them, have failed since its last *)
(* success; and the prompt quotes exactly those errors, oldest first.      *)
RotationIsDue ==
  \A t \in Tools :
    /\ ShouldRotateStrategy(t) <=> Cardinality(Since(t)) >= MaxFailures
    /\ ShouldRotateStrategy(t) => Range(RotationPrompt(t)) = Since(t) /\ Increasing(RotationPrompt(t))

(* The inductive invariant: what is recorded for a tool are its failures   *)
(* since its last success, in their order.                                 *)
TrackerInv ==
  /\ calls \in Seq(Tools \X BOOLEAN)
  /\ failed \in [Tools -> Seq(Nat)]
  /\ \A t \in Tools : Range(failed[t]) = Since(t) /\ Increasing(failed[t])
=============================================================================
