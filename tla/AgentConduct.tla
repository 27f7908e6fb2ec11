---------------------------- MODULE AgentConduct ----------------------------
(***************************************************************************)
(* What the agent does of its own accord, side by side: prompt patches,    *)
(* the watchdog, strategy rotation, proactive triggers, lessons, the       *)
(* choice of a model, planned work, delegation, the tool calls of one      *)
(* answer, and the SQLite memory they write to.                            *)
(* These parts share no state, so any behaviour of the agent is a          *)
(* behaviour of each of them; what they promise is proved here.            *)
(***************************************************************************)
EXTENDS Integers, Sequences, FiniteSets, Functions,
        FiniteSetTheorems, NaturalsInduction, WellFoundedInduction, TLAPS

CONSTANTS MaxPatches, Threshold, Traces, MaxProposed, MaxApplied,
          Subsystems, Checkers, MaxIllChecks, MaxChecks,
          TrackedTools, MaxToolFailures, MaxTracked,
          Triggers, Rules, MaxActions, Hour, MaxClock,
          Words, RoutedTools, ReadOnlyTools, Configs, ShortText, ShortTask, DeepHistory,
          MaxWords, MaxTaskTurns,
          LearntTools, MaxLearntCalls, MaxChatTurns,
          Callers, MaxTotal, MaxParts, AgentTools, Keywords,
          StoreTasks, StoreIds, Connections, MaxRetries, MaxStoreCalls,
          GraphSteps, MaxLines,
          Paths, MaxBatch, MaxConcurrent

VARIABLES patches, inUse, serial, byUser,
          health, failures, checkerPc, view, checks, ill, alarms,
          failed, toolCalls,
          clock, enabled, rules, hourStart, counted, offered, lastFired, early, inWindow,
          routerConfig, taskText, used, turnCalls, messages,
          chat, lessons,
          spawned, granted, callerPc, plan, agentStatus, ends, agentResults,
          rows, task, conn, result, made,
          graph, taskStatus,
          calls, groups, pos, running, crashed, ran, results

Patch == INSTANCE PromptPatches
Watch == INSTANCE Watchdog WITH MaxFailures <- MaxIllChecks, pc <- checkerPc
Correct == INSTANCE SelfCorrection WITH Tools <- TrackedTools, MaxFailures <- MaxToolFailures,
                                        MaxCalls <- MaxTracked, calls <- toolCalls
Pro == INSTANCE Proactive
Routing == INSTANCE TaskRouting WITH Tools <- RoutedTools, MaxTurns <- MaxTaskTurns,
                                     calls <- turnCalls, config <- routerConfig, text <- taskText
Learn == INSTANCE Learning WITH Tools <- LearntTools, MaxCalls <- MaxLearntCalls,
                                MaxTurns <- MaxChatTurns
Delegate == INSTANCE Delegation WITH Tools <- AgentTools, pc <- callerPc, status <- agentStatus,
                                     results <- agentResults
Sql == INSTANCE SqliteMemory WITH Tasks <- StoreTasks, Ids <- StoreIds,
                                  MaxCalls <- MaxStoreCalls
Graph == INSTANCE TaskGraph WITH Steps <- GraphSteps, status <- taskStatus
Exec == INSTANCE Executor WITH MaxCalls <- MaxBatch

-----------------------------------------------------------------------------
(* What a finished task left in the history.                                 *)
PatchAssume == /\ Traces \subseteq Seq([tool : STRING, ok : BOOLEAN, rotated : BOOLEAN])
               /\ MaxPatches \in Nat
ASSUME PatchAssumption == PatchAssume

(* The limits and thresholds are unsigned; the router has a configuration.   *)
ASSUME WatchdogAssumption == MaxIllChecks \in Nat
ASSUME ProactiveAssumption == MaxActions \in Nat
ASSUME RoutingAssumption == /\ ShortText \in Nat /\ ShortTask \in Nat /\ DeepHistory \in Nat
                            /\ Configs # {}
                            /\ Configs \subseteq [enabled : BOOLEAN, fast : BOOLEAN, premium : BOOLEAN]
ASSUME LearningAssumption == MaxChatTurns \in Nat
ASSUME DelegationAssumption == MaxTotal \in Nat /\ MaxParts \in Nat /\ IsFiniteSet(Callers)
ASSUME StoreAssumption == MaxStoreCalls \in Nat
(* Sub-tasks are numbered; an answer without a numbered line is sub-task 1.  *)
ASSUME GraphAssumption == GraphSteps \subseteq Nat /\ 1 \in GraphSteps /\ MaxLines \in Nat
ASSUME ExecAssumption == Paths \subseteq Seq(STRING) /\ MaxBatch \in Nat

-----------------------------------------------------------------------------
(* What the agent does of its own accord. A risky prompt patch needs the     *)
(* approval of the user; the watchdog recommends a shutdown only for         *)
(* failures that were there, although it reads one lock after the other; a   *)
(* change of strategy is due exactly after consecutive failures of one tool; *)
(* proactive actions keep to the hourly limit and the cooldown of their      *)
(* rule; a lesson calls a success only what was one; delegation keeps its    *)
(* limit for all callers together although each raises the shared counter    *)
(* before it looks, refuses only when the limit is used up, and reports a    *)
(* sub-agent once, whichever of it and its timer comes first.                *)
InterventionsEarned ==
  /\ Patch!TypeOK /\ Patch!RiskyNeedsUser
  /\ Watch!TypeOK /\ Watch!ShutdownEarned
  /\ Correct!RotationIsDue
  /\ Pro!TypeOK /\ Pro!WindowLimit /\ Pro!RuleSpacing
  /\ Learn!TypeOK /\ Learn!SuccessEarned
  /\ Delegate!TypeOK /\ Delegate!WithinAgentLimit /\ Delegate!RefusedOnlyWhenFull
  /\ Delegate!OneResultEach

(* Decisions that later steps may not undo. A prompt patch that was rejected *)
(* or has expired never comes back, also when the outcome of a task that     *)
(* began with it arrives late; a task that goes on is never moved to a       *)
(* weaker model; a text recognised as compound stays so however it goes on.  *)
DecisionsStand == /\ Patch!EndedStaysEnded
                  /\ Routing!TierNeverDrops
                  /\ Routing!CompoundGrows

(* The library operators that the components use are those of this module.   *)
LEMMA PatchOps == \A S : Patch!Cardinality(S) = Cardinality(S)
BY DEF Patch!Cardinality, Cardinality

LEMMA CorrectOps ==
  /\ \A S : Correct!Cardinality(S) = Cardinality(S)
  /\ \A s : Correct!Range(s) = Range(s)
BY DEF Correct!Cardinality, Cardinality, Correct!Range, Range

LEMMA RoutingOps ==
  \A S : Routing!Cardinality(S) = Cardinality(S) /\ Routing!IsFiniteSet(S) = IsFiniteSet(S)
BY DEF Routing!Cardinality, Cardinality, Routing!IsFiniteSet, IsFiniteSet

LEMMA LearnOps == \A S : Learn!Cardinality(S) = Cardinality(S)
BY DEF Learn!Cardinality, Cardinality

LEMMA GraphOps ==
  \A S : Graph!Cardinality(S) = Cardinality(S) /\ Graph!IsFiniteSet(S) = IsFiniteSet(S)
BY DEF Graph!Cardinality, Cardinality, Graph!IsFiniteSet, IsFiniteSet

LEMMA ExecOps ==
  \A S : Exec!Cardinality(S) = Cardinality(S) /\ Exec!IsFiniteSet(S) = IsFiniteSet(S) /\ Exec!Range(S) = Range(S)
BY DEF Exec!Cardinality, Cardinality, Exec!IsFiniteSet, IsFiniteSet, Exec!Range, Range

LEMMA DelegateOps == \A S : Delegate!Cardinality(S) = Cardinality(S)
BY DEF Delegate!Cardinality, Cardinality

(* The SQLite backend keeps the promise of the Memory trait (MemoryStore):   *)
(* with several tasks, a locked database, retries of store and calls that    *)
(* time out, every change has its effect once and before its Ok, and what a  *)
(* dropped call still does is done at most once.                             *)
ImplementsStore == Sql!ImplementsStore

(* Planned work. task_decomposition accepts an answer exactly if its steps   *)
(* are well-founded, orders them by what they depend on, never offers one    *)
(* too early and never leaves the agent without advice.                      *)
PlannedWorkRuns == /\ Graph!TypeOK
                   /\ Graph!AcceptedIffAcyclic
                   /\ Graph!OrderRespectsDeps
                   /\ Graph!GraphAdvances

(* Tool calls of one answer. execute_tools_parallel runs them in groups      *)
(* under a semaphore: calls that conflict are never together and keep their  *)
(* order, the groups are the components of the dependency graph, every call  *)
(* gets its own result although a panic ends its group, and no file tool     *)
(* runs with a path outside the workspace.                                   *)
CallsExecuted == /\ Exec!TypeOK
                 /\ Exec!ConflictsInOrder
                 /\ Exec!GroupsAreComponents
                 /\ Exec!EveryCallAnswered
                 /\ Exec!ExecutedInScope

-----------------------------------------------------------------------------
(* The least number of a set.                                                *)

LEMMA LeastIn ==
  ASSUME NEW S \in SUBSET Nat, S # {}
  PROVE  \E x \in S : \A y \in S : x <= y
<1>. DEFINE R == OpToRel(<, Nat)
<1>1. IsWellFoundedOn(R, Nat)
  BY NatLessThanWellFounded, Zenon
<1>. HIDE DEF R
<1>2. PICK x \in S : \A y \in S : ~(<<y, x>> \in R)
  BY <1>1, WFMin
<1>3. \A y \in S : ~(y < x)
  BY <1>2, Zenon DEF R, OpToRel
<1>. QED
  BY <1>2, <1>3

-----------------------------------------------------------------------------
(* The process watchdog.                                                     *)

LEMMA ReportStep ==
  ASSUME Watch!WatchdogInv, NEW s \in Subsystems, NEW ok \in BOOLEAN, NEW d \in BOOLEAN, Watch!Report(s, ok, d)
  PROVE  Watch!WatchdogInv'
<1>1. Watch!WatchdogTypes
  BY DEF Watch!WatchdogInv
<1>2. Watch!ToStatus(ok, d) \in Watch!Statuses
  BY DEF Watch!ToStatus, Watch!Statuses
<1>3. ill' = [c \in Checkers |-> ill[c] \/ Watch!SomeIll(health')]
  BY DEF Watch!Report
<1>4. ill' \in [Checkers -> BOOLEAN]
  BY <1>3, Zenon
<1>5. Watch!WatchdogTypes'
  BY <1>1, <1>2, <1>4 DEF Watch!WatchdogTypes, Watch!Report
<1>6. ASSUME NEW c \in Checkers PROVE Watch!Noticed(c)'
  <2>1. UNCHANGED <<checkerPc, view>> /\ Watch!Noticed(c)
    BY DEF Watch!Report, Watch!WatchdogInv
  <2>2. Watch!Unhealthy(c)' <=> Watch!Unhealthy(c)
    BY <2>1 DEF Watch!Unhealthy
  <2>3. ill'[c] <=> (ill[c] \/ Watch!SomeIll(health'))
    BY <1>3, Zenon
  <2>4. Watch!SomeIll(health)' <=> Watch!SomeIll(health')
    BY DEF Watch!SomeIll
  <2>. QED
    BY <2>1, <2>2, <2>3, <2>4 DEF Watch!Noticed
<1>. QED
  BY <1>5, <1>6 DEF Watch!WatchdogInv, Watch!Report

LEMMA CheckStep ==
  ASSUME Watch!WatchdogInv, NEW c \in Checkers,
         \/ Watch!Begin(c) \/ Watch!Judge(c) \/ Watch!Reset(c) \/ \E s \in Subsystems : Watch!ReadNext(c, s)
  PROVE  Watch!WatchdogInv'
<1>1. Watch!WatchdogTypes /\ failures <= alarms /\ UNCHANGED health
  BY DEF Watch!WatchdogInv, Watch!Begin, Watch!Judge, Watch!Reset, Watch!ReadNext
<1>. DEFINE others == \A d \in Checkers : d # c => checkerPc'[d] = checkerPc[d] /\ view'[d] = view[d] /\ ill'[d] = ill[d]
<1>2. ASSUME others, Watch!Noticed(c)' PROVE \A d \in Checkers : Watch!Noticed(d)'
  BY <1>1, <1>2 DEF Watch!WatchdogInv, Watch!Noticed, Watch!Unhealthy, Watch!SomeIll
<1>3. CASE Watch!Begin(c)
  <2>1. /\ view' = [view EXCEPT ![c] = <<>>] /\ checkerPc' = [checkerPc EXCEPT ![c] = "read"]
        /\ ill' = [ill EXCEPT ![c] = Watch!SomeIll(health)] /\ UNCHANGED <<failures, alarms>>
    BY <1>3 DEF Watch!Begin
  <2>2. Watch!SomeIll(health) \in BOOLEAN
    BY DEF Watch!SomeIll
  <2>3. Watch!WatchdogTypes'
    BY <1>1, <2>1, <2>2 DEF Watch!WatchdogTypes
  <2>4. others /\ view'[c] = <<>> /\ (ill'[c] <=> Watch!SomeIll(health))
    BY <1>1, <2>1, <2>2 DEF Watch!WatchdogTypes
  <2>5. ~Watch!Unhealthy(c)' /\ (Watch!SomeIll(health)' <=> Watch!SomeIll(health))
    BY <2>4, <1>1 DEF Watch!Unhealthy, Watch!SomeIll
  <2>6. Watch!Noticed(c)'
    BY <2>4, <2>5 DEF Watch!Noticed
  <2>. QED
    BY <1>1, <1>2, <2>1, <2>3, <2>4, <2>6 DEF Watch!WatchdogInv
<1>4. CASE Watch!Judge(c)
  <2>1. /\ UNCHANGED <<view, ill>> /\ checkerPc' \in [Checkers -> {"idle", "read", "judge", "reset"}]
        /\ checkerPc'[c] \notin {"read", "judge"} /\ \A d \in Checkers : d # c => checkerPc'[d] = checkerPc[d]
    BY <1>1, <1>4 DEF Watch!Judge, Watch!WatchdogTypes
  <2>2. Watch!Unhealthy(c) => ill[c]
    BY <1>4 DEF Watch!Judge, Watch!WatchdogInv, Watch!Noticed
  <2>3. Watch!WatchdogTypes' /\ failures' <= alarms'
    BY <1>1, <1>4, <2>1, <2>2 DEF Watch!WatchdogTypes, Watch!Judge
  <2>. QED
    BY <1>2, <2>1, <2>3 DEF Watch!WatchdogInv, Watch!Noticed
<1>5. CASE Watch!Reset(c)
  <2>1. /\ UNCHANGED <<view, ill, alarms>> /\ checkerPc' = [checkerPc EXCEPT ![c] = "idle"] /\ failures' = 0
    BY <1>5 DEF Watch!Reset
  <2>2. Watch!WatchdogTypes' /\ others /\ checkerPc'[c] = "idle" /\ failures' <= alarms'
    BY <1>1, <2>1 DEF Watch!WatchdogTypes
  <2>. QED
    BY <1>2, <2>2 DEF Watch!WatchdogInv, Watch!Noticed
<1>6. CASE \E s \in Subsystems : Watch!ReadNext(c, s)
  <2>. PICK s \in Subsystems : Watch!ReadNext(c, s)
    BY <1>6
  <2>1. /\ view' = [view EXCEPT ![c] = Append(view[c], <<s, health[s]>>)]
        /\ UNCHANGED <<ill, failures, alarms>> /\ checkerPc[c] = "read"
        /\ checkerPc' \in [Checkers -> {"idle", "read", "judge", "reset"}]
        /\ \A d \in Checkers : d # c => checkerPc'[d] = checkerPc[d]
    BY <1>1 DEF Watch!ReadNext, Watch!WatchdogTypes
  <2>2. <<s, health[s]>> \in Subsystems \X Watch!Statuses /\ view[c] \in Seq(Subsystems \X Watch!Statuses)
    BY <1>1 DEF Watch!WatchdogTypes
  <2>3. /\ Append(view[c], <<s, health[s]>>) \in Seq(Subsystems \X Watch!Statuses)
        /\ view'[c] = Append(view[c], <<s, health[s]>>)
    BY <1>1, <2>1, <2>2 DEF Watch!WatchdogTypes
  <2>4. Watch!WatchdogTypes' /\ others
    BY <1>1, <2>1, <2>3 DEF Watch!WatchdogTypes
  <2>5. Watch!Unhealthy(c)' => Watch!Unhealthy(c) \/ Watch!SomeIll(health)
    BY <2>2, <2>3 DEF Watch!Unhealthy, Watch!SomeIll
  <2>6. Watch!Noticed(c)'
    BY <1>1, <2>1, <2>5 DEF Watch!Noticed, Watch!WatchdogInv, Watch!SomeIll
  <2>. QED
    BY <1>1, <1>2, <2>1, <2>4, <2>6 DEF Watch!WatchdogInv
<1>. QED
  BY <1>3, <1>4, <1>5, <1>6

LEMMA WatchdogInvariant == Watch!Spec => []Watch!WatchdogInv
<1>1. Watch!Init => Watch!WatchdogInv
  <2>. SUFFICES ASSUME Watch!Init PROVE Watch!WatchdogInv
    OBVIOUS
  <2>1. Watch!WatchdogTypes
    BY DEF Watch!Init, Watch!WatchdogTypes, Watch!Statuses
  <2>. QED
    BY <2>1 DEF Watch!Init, Watch!WatchdogInv, Watch!Noticed
<1>2. Watch!WatchdogInv /\ [Watch!Next]_Watch!watchdogVars => Watch!WatchdogInv'
  <2>. SUFFICES ASSUME Watch!WatchdogInv, [Watch!Next]_Watch!watchdogVars PROVE Watch!WatchdogInv'
    OBVIOUS
  <2>1. CASE Watch!ResetFailures
    BY <2>1 DEF Watch!ResetFailures, Watch!WatchdogInv, Watch!WatchdogTypes, Watch!Noticed, Watch!Unhealthy, Watch!SomeIll
  <2>2. CASE UNCHANGED Watch!watchdogVars
    BY <2>2 DEF Watch!watchdogVars, Watch!WatchdogInv, Watch!WatchdogTypes, Watch!Noticed, Watch!Unhealthy, Watch!SomeIll
  <2>. QED
    BY <2>1, <2>2, ReportStep, CheckStep DEF Watch!Next
<1>. QED
  BY <1>1, <1>2, PTL DEF Watch!Spec

LEMMA WatchdogFollows ==
  ASSUME MaxIllChecks \in Nat, Watch!WatchdogInv
  PROVE  Watch!TypeOK /\ Watch!ShutdownEarned
BY DEF Watch!WatchdogInv, Watch!WatchdogTypes, Watch!TypeOK, Watch!Statuses, Watch!ShutdownEarned, Watch!ShouldShutdown

-----------------------------------------------------------------------------
(* FailureTracker.                                                           *)

LEMMA CallsLengthen ==
  ASSUME Correct!TrackerInv, NEW t \in TrackedTools, NEW o \in BOOLEAN, toolCalls' = Append(toolCalls, <<t, o>>)
  PROVE  /\ toolCalls' \in Seq(TrackedTools \X BOOLEAN)
         /\ Len(toolCalls) \in Nat /\ Len(toolCalls') = Len(toolCalls) + 1
         /\ DOMAIN toolCalls = 1..Len(toolCalls) /\ DOMAIN toolCalls' = 1..(Len(toolCalls) + 1)
         /\ toolCalls'[Len(toolCalls) + 1] = <<t, o>>
         /\ \A i \in DOMAIN toolCalls : toolCalls'[i] = toolCalls[i]
BY DEF Correct!TrackerInv

LEMMA OtherTools ==
  ASSUME Correct!TrackerInv, NEW t \in TrackedTools, NEW o \in BOOLEAN, toolCalls' = Append(toolCalls, <<t, o>>),
         NEW u \in TrackedTools, u # t
  PROVE  Correct!Since(u)' = Correct!Since(u)
<1>1. /\ Len(toolCalls) \in Nat /\ Len(toolCalls') = Len(toolCalls) + 1
      /\ DOMAIN toolCalls = 1..Len(toolCalls) /\ DOMAIN toolCalls' = 1..(Len(toolCalls) + 1)
      /\ toolCalls'[Len(toolCalls) + 1] = <<t, o>>
      /\ \A i \in DOMAIN toolCalls : toolCalls'[i] = toolCalls[i]
  BY CallsLengthen
<1>2. Correct!Mine(u)' = Correct!Mine(u)
  BY <1>1 DEF Correct!Mine
<1>3. \A j \in Correct!Mine(u) : toolCalls'[j][2] = toolCalls[j][2]
  BY <1>1 DEF Correct!Mine
<1>. QED
  BY <1>2, <1>3, Zenon DEF Correct!Since

LEMMA FailureAdds ==
  ASSUME Correct!TrackerInv, NEW t \in TrackedTools, toolCalls' = Append(toolCalls, <<t, FALSE>>)
  PROVE  Correct!Since(t)' = Correct!Since(t) \cup {Len(toolCalls) + 1}
<1>1. /\ Len(toolCalls) \in Nat /\ Len(toolCalls') = Len(toolCalls) + 1
      /\ DOMAIN toolCalls = 1..Len(toolCalls) /\ DOMAIN toolCalls' = 1..(Len(toolCalls) + 1)
      /\ toolCalls'[Len(toolCalls) + 1] = <<t, FALSE>>
      /\ \A i \in DOMAIN toolCalls : toolCalls'[i] = toolCalls[i]
  BY CallsLengthen
<1>2. Correct!Mine(t)' = Correct!Mine(t) \cup {Len(toolCalls) + 1}
  BY <1>1 DEF Correct!Mine
<1>3. Correct!Mine(t) \subseteq 1..Len(toolCalls)
  BY <1>1 DEF Correct!Mine
<1>4. \A j \in Correct!Mine(t) : toolCalls'[j][2] = toolCalls[j][2]
  BY <1>1, <1>3
<1>5. toolCalls'[Len(toolCalls) + 1][2] = FALSE
  BY <1>1
<1>6. Correct!Since(t)' = {i \in Correct!Mine(t)' : \A j \in Correct!Mine(t)' : toolCalls'[j][2] => j < i}
  BY DEF Correct!Since
<1>7. \A i \in Correct!Mine(t) : (\A j \in Correct!Mine(t)' : toolCalls'[j][2] => j < i) <=> (\A j \in Correct!Mine(t) : toolCalls[j][2] => j < i)
  BY <1>2, <1>4, <1>5
<1>8. \A j \in Correct!Mine(t)' : toolCalls'[j][2] => j < Len(toolCalls) + 1
  BY <1>1, <1>2, <1>3, <1>5
<1>. QED
  BY <1>2, <1>6, <1>7, <1>8 DEF Correct!Since

LEMMA SuccessClears ==
  ASSUME Correct!TrackerInv, NEW t \in TrackedTools, toolCalls' = Append(toolCalls, <<t, TRUE>>)
  PROVE  Correct!Since(t)' = {}
<1>1. /\ Len(toolCalls) \in Nat /\ Len(toolCalls') = Len(toolCalls) + 1
      /\ DOMAIN toolCalls = 1..Len(toolCalls) /\ DOMAIN toolCalls' = 1..(Len(toolCalls) + 1)
      /\ toolCalls'[Len(toolCalls) + 1] = <<t, TRUE>>
      /\ \A i \in DOMAIN toolCalls : toolCalls'[i] = toolCalls[i]
  BY CallsLengthen
<1>2. Len(toolCalls) + 1 \in Correct!Mine(t)' /\ toolCalls'[Len(toolCalls) + 1][2] /\ Correct!Mine(t)' \subseteq 1..(Len(toolCalls) + 1)
  BY <1>1 DEF Correct!Mine
<1>3. \A i \in 1..(Len(toolCalls) + 1) : ~(Len(toolCalls) + 1 < i)
  BY <1>1
<1>. QED
  BY <1>2, <1>3 DEF Correct!Since

LEMMA TrackerStep ==
  ASSUME Correct!TrackerInv, [Correct!Next]_Correct!trackerVars
  PROVE  Correct!TrackerInv'
<1>1. ASSUME NEW t \in TrackedTools, Correct!RecordFailure(t) PROVE Correct!TrackerInv'
  <2>1. toolCalls' = Append(toolCalls, <<t, FALSE>>) /\ failed' = [failed EXCEPT ![t] = Append(@, Len(toolCalls'))]
    BY <1>1 DEF Correct!RecordFailure
  <2>2. /\ toolCalls' \in Seq(TrackedTools \X BOOLEAN) /\ Len(toolCalls') = Len(toolCalls) + 1 /\ Len(toolCalls) \in Nat
        /\ DOMAIN toolCalls = 1..Len(toolCalls)
    BY <2>1, CallsLengthen
  <2>3. PICK s \in Seq(Nat) : s = failed[t] /\ Range(s) = Correct!Since(t) /\ Correct!Increasing(s)
    BY CorrectOps DEF Correct!TrackerInv
  <2>4. PICK r : r = Append(s, Len(toolCalls) + 1)
    OBVIOUS
  <2>5. /\ r \in Seq(Nat) /\ DOMAIN s = 1..Len(s) /\ DOMAIN r = 1..(Len(s) + 1) /\ Len(s) \in Nat
        /\ r[Len(s) + 1] = Len(toolCalls) + 1 /\ \A k \in 1..Len(s) : r[k] = s[k]
    BY <2>2, <2>4
  <2>6. \A k \in 1..Len(s) : s[k] \in 1..Len(toolCalls)
    BY <2>2, <2>3, <2>5 DEF Range, Correct!Since, Correct!Mine
  <2>7. Range(r) = Range(s) \cup {Len(toolCalls) + 1}
    <3>1. \A x \in Range(s) : x \in Range(r)
      BY <2>5 DEF Range
    <3>2. Len(toolCalls) + 1 \in Range(r)
      BY <2>5 DEF Range
    <3>3. \A x \in Range(r) : x \in Range(s) \cup {Len(toolCalls) + 1}
      BY <2>5 DEF Range
    <3>. QED
      BY <3>1, <3>2, <3>3
  <2>8. Correct!Increasing(r)
    <3>. SUFFICES ASSUME NEW j \in 1..(Len(s) + 1), NEW k \in 1..(Len(s) + 1), j < k
                  PROVE  r[j] < r[k]
      BY <2>5 DEF Correct!Increasing
    <3>1. j \in 1..Len(s) /\ r[j] = s[j] /\ s[j] \in 1..Len(toolCalls)
      BY <2>5, <2>6
    <3>2. CASE k = Len(s) + 1
      BY <3>1, <3>2, <2>2, <2>5
    <3>3. CASE k \in 1..Len(s)
      BY <3>1, <3>3, <2>3, <2>5 DEF Correct!Increasing
    <3>. QED
      BY <3>2, <3>3, <2>5
  <2>9. failed' \in [TrackedTools -> Seq(Nat)] /\ failed'[t] = r /\ \A u \in TrackedTools : u # t => failed'[u] = failed[u]
    BY <2>1, <2>2, <2>3, <2>4, <2>5 DEF Correct!TrackerInv
  <2>10. ASSUME NEW u \in TrackedTools PROVE Range(failed'[u]) = Correct!Since(u)' /\ Correct!Increasing(failed'[u])
    <3>1. CASE u = t
      BY <3>1, <2>1, <2>3, <2>7, <2>8, <2>9, FailureAdds
    <3>2. CASE u # t
      BY CorrectOps, <3>2, <2>1, <2>9, OtherTools DEF Correct!TrackerInv
    <3>. QED
      BY <3>1, <3>2
  <2>. QED
    BY CorrectOps, <2>2, <2>9, <2>10 DEF Correct!TrackerInv
<1>2. ASSUME NEW t \in TrackedTools, Correct!RecordSuccess(t) PROVE Correct!TrackerInv'
  <2>1. toolCalls' = Append(toolCalls, <<t, TRUE>>) /\ failed' = [failed EXCEPT ![t] = <<>>]
    BY <1>2 DEF Correct!RecordSuccess
  <2>2. toolCalls' \in Seq(TrackedTools \X BOOLEAN)
    BY <2>1, CallsLengthen
  <2>3. failed' \in [TrackedTools -> Seq(Nat)] /\ failed'[t] = <<>> /\ \A u \in TrackedTools : u # t => failed'[u] = failed[u]
    BY <2>1 DEF Correct!TrackerInv
  <2>4. Range(<<>>) = {} /\ Correct!Increasing(<<>>)
    BY DEF Range, Correct!Increasing
  <2>5. ASSUME NEW u \in TrackedTools PROVE Range(failed'[u]) = Correct!Since(u)' /\ Correct!Increasing(failed'[u])
    <3>1. CASE u = t
      BY <3>1, <2>1, <2>3, <2>4, SuccessClears
    <3>2. CASE u # t
      BY CorrectOps, <3>2, <2>1, <2>3, OtherTools DEF Correct!TrackerInv
    <3>. QED
      BY <3>1, <3>2
  <2>. QED
    BY CorrectOps, <2>2, <2>3, <2>5 DEF Correct!TrackerInv
<1>3. CASE UNCHANGED Correct!trackerVars
  BY <1>3 DEF Correct!trackerVars, Correct!TrackerInv, Correct!Since, Correct!Mine
<1>. QED
  BY <1>1, <1>2, <1>3 DEF Correct!Next

LEMMA TrackerStart == Correct!Init => Correct!TrackerInv
<1>. SUFFICES ASSUME Correct!Init PROVE Correct!TrackerInv
  OBVIOUS
<1>1. toolCalls \in Seq(TrackedTools \X BOOLEAN) /\ failed \in [TrackedTools -> Seq(Nat)]
  BY DEF Correct!Init
<1>2. Range(<<>>) = {} /\ Correct!Increasing(<<>>)
  BY DEF Range, Correct!Increasing
<1>3. \A t \in TrackedTools : failed[t] = <<>> /\ Correct!Since(t) = {}
  BY DEF Correct!Init, Correct!Since, Correct!Mine
<1>. QED
  BY CorrectOps, <1>1, <1>2, <1>3 DEF Correct!TrackerInv

(* An increasing sequence has as many members as places.                     *)
LEMMA AsManyAsPlaces ==
  ASSUME NEW s \in Seq(Nat), Correct!Increasing(s)
  PROVE  Cardinality(Range(s)) = Len(s)
<1>1. DOMAIN s = 1..Len(s) /\ Len(s) \in Nat
  OBVIOUS
<1>2. \A k \in 1..Len(s) : s[k] \in Nat
  OBVIOUS
<1>3. \A j, k \in 1..Len(s) : s[j] = s[k] => j = k
  BY <1>1, <1>2 DEF Correct!Increasing
<1>4. s \in [1..Len(s) -> Range(s)]
  BY <1>1 DEF Range
<1>5. s \in Bijection(1..Len(s), Range(s))
  <2>1. s \in Injection(1..Len(s), Range(s))
    BY <1>3, <1>4 DEF Injection, IsInjective
  <2>2. s \in Surjection(1..Len(s), Range(s))
    BY <1>1, <1>4 DEF Surjection, Range
  <2>. QED
    BY <2>1, <2>2 DEF Bijection
<1>6. IsFiniteSet(1..Len(s)) /\ Cardinality(1..Len(s)) = Len(s)
  <2>1. 1 \in Int /\ Len(s) \in Int
    BY <1>1
  <2>2. IsFiniteSet(1..Len(s)) /\ Cardinality(1..Len(s)) = IF 1 > Len(s) THEN 0 ELSE Len(s) - 1 + 1
    BY <2>1, FS_Interval, Zenon
  <2>. QED
    BY <1>1, <2>2
<1>7. ExistsBijection(1..Len(s), Range(s))
  BY <1>5 DEF ExistsBijection
<1>. QED
  BY <1>6, <1>7, FS_Bijection

(* A change of strategy is proposed exactly when it is due.                  *)
LEMMA RotationsAreDue == Correct!Spec => []Correct!RotationIsDue
<1>1. Correct!TrackerInv /\ [Correct!Next]_Correct!trackerVars => Correct!TrackerInv'
  BY TrackerStep
<1>2. Correct!TrackerInv => Correct!RotationIsDue
  <2>. SUFFICES ASSUME Correct!TrackerInv, NEW t \in TrackedTools
                PROVE  /\ Correct!ShouldRotateStrategy(t) <=> Cardinality(Correct!Since(t)) >= MaxToolFailures
                       /\ Correct!ShouldRotateStrategy(t) => Range(Correct!RotationPrompt(t)) = Correct!Since(t) /\ Correct!Increasing(Correct!RotationPrompt(t))
    BY CorrectOps DEF Correct!RotationIsDue
  <2>1. failed[t] \in Seq(Nat) /\ Range(failed[t]) = Correct!Since(t) /\ Correct!Increasing(failed[t])
    BY CorrectOps DEF Correct!TrackerInv
  <2>2. Cardinality(Correct!Since(t)) = Len(failed[t])
    BY <2>1, AsManyAsPlaces
  <2>. QED
    BY <2>1, <2>2 DEF Correct!ShouldRotateStrategy, Correct!RotationPrompt
<1>. QED
  BY <1>1, <1>2, TrackerStart, PTL DEF Correct!Spec

-----------------------------------------------------------------------------
(* ProactiveManager.                                                         *)

LEMMA EvaluateStep ==
  ASSUME Pro!ProactiveInv, NEW t \in Triggers, Pro!EvaluateTrigger(t)
  PROVE  Pro!FiringsKnown' /\ Pro!RuleSpacing'
<1>. DEFINE firing == {e \in rules : Pro!Fires(e, t)}
            ids == {e.rule.id : e \in firing}
            soon(e) == lastFired[e.rule.id] # -1 /\ clock - lastFired[e.rule.id] < e.rule.cooldown
<1>1. /\ rules' = {Pro!Stamp(e, t) : e \in rules}
      /\ early' = early \union {e.rule.id : e \in {x \in firing : soon(x)}}
      /\ lastFired' = [id \in DOMAIN lastFired |-> IF id \in ids THEN clock ELSE lastFired[id]]
      /\ clock' = clock
  BY DEF Pro!EvaluateTrigger
<1>2. /\ clock \in Nat /\ lastFired \in [{r.id : r \in Rules} -> -1..clock]
      /\ rules \subseteq [rule : Rules, last : -1..clock]
      /\ \A e \in rules : e.last = lastFired[e.rule.id]
      /\ \A e, f \in rules : e.rule.id = f.rule.id => e = f
  BY DEF Pro!ProactiveInv, Pro!FiringsKnown
<1>3. \A e \in rules : /\ e.rule \in Rules /\ e.last \in -1..clock
                       /\ e.rule.id \in {r.id : r \in Rules}
  BY <1>2
<1>4. clock \in -1..clock
  BY <1>2
<1>5. \A e \in rules : e.rule.id \in ids <=> Pro!Fires(e, t)
  BY <1>2
<1>6. \A e \in rules : /\ Pro!Fires(e, t) => Pro!Stamp(e, t) = [rule |-> e.rule, last |-> clock]
                       /\ ~Pro!Fires(e, t) => Pro!Stamp(e, t) = e
  BY DEF Pro!Stamp
<1>7. \A e \in firing : ~soon(e)
  BY <1>2 DEF Pro!Fires, Pro!InCooldown
<1>8. early' = {}
  BY <1>1, <1>7 DEF Pro!ProactiveInv, Pro!RuleSpacing
<1>. HIDE DEF firing, soon, ids
<1>9. lastFired' \in [{r.id : r \in Rules} -> -1..clock]
  BY <1>1, <1>2, <1>4
<1>10. \A e \in rules : /\ Pro!Stamp(e, t) \in [rule : Rules, last : -1..clock]
                        /\ Pro!Stamp(e, t).rule = e.rule
                        /\ Pro!Stamp(e, t).last = lastFired'[e.rule.id]
  <2>. SUFFICES ASSUME NEW e \in rules
                PROVE  /\ Pro!Stamp(e, t) \in [rule : Rules, last : -1..clock]
                       /\ Pro!Stamp(e, t).rule = e.rule
                       /\ Pro!Stamp(e, t).last = lastFired'[e.rule.id]
    OBVIOUS
  <2>1. lastFired'[e.rule.id] = IF e.rule.id \in ids THEN clock ELSE lastFired[e.rule.id]
    BY <1>1, <1>2, <1>3
  <2>2. CASE Pro!Fires(e, t)
    BY <2>1, <2>2, <1>3, <1>4, <1>5, <1>6
  <2>3. CASE ~Pro!Fires(e, t)
    BY <2>1, <2>3, <1>2, <1>3, <1>5, <1>6
  <2>. QED
    BY <2>2, <2>3
<1>11. \A x \in rules' : /\ x \in [rule : Rules, last : -1..clock] /\ x.last = lastFired'[x.rule.id]
  BY <1>1, <1>10
<1>12. \A x, y \in rules' : x.rule.id = y.rule.id => x = y
  <2>. SUFFICES ASSUME NEW x \in rules', NEW y \in rules', x.rule.id = y.rule.id PROVE x = y
    OBVIOUS
  <2>1. PICK e \in rules : x = Pro!Stamp(e, t)
    BY <1>1
  <2>2. PICK f \in rules : y = Pro!Stamp(f, t)
    BY <1>1
  <2>3. e.rule.id = f.rule.id
    BY <2>1, <2>2, <1>10
  <2>. QED
    BY <2>1, <2>2, <2>3, <1>2
<1>. QED
  BY <1>1, <1>8, <1>9, <1>11, <1>12 DEF Pro!FiringsKnown, Pro!RuleSpacing

LEMMA ProactiveStep ==
  ASSUME Pro!ProactiveInv, [Pro!Next]_Pro!proactiveVars
  PROVE  Pro!ProactiveInv'
<1>. USE ProactiveAssumption DEF Pro!ProactiveInv, Pro!TypeOK, Pro!ActionsCounted
<1>1. ASSUME NEW on \in BOOLEAN, Pro!Switch(on) PROVE Pro!ProactiveInv'
  BY <1>1 DEF Pro!Switch, Pro!FiringsKnown, Pro!RuleSpacing
<1>2. ASSUME NEW r \in Rules, Pro!AddRule(r) PROVE Pro!ProactiveInv'
  <2>1. /\ rules' = rules \cup {[rule |-> r, last |-> -1]} /\ lastFired[r.id] = -1
        /\ r.id \notin {e.rule.id : e \in rules}
        /\ UNCHANGED <<clock, enabled, hourStart, counted, offered, lastFired, early, inWindow>>
    BY <1>2 DEF Pro!AddRule
  <2>0. -1 \in -1..clock
    OBVIOUS
  <2>2. PICK n \in [rule : Rules, last : -1..clock] : n = [rule |-> r, last |-> -1]
    BY <2>0
  <2>3. n.rule = r /\ n.last = -1
    BY <2>2
  <2>4. Pro!FiringsKnown'
    BY <2>1, <2>2, <2>3 DEF Pro!FiringsKnown
  <2>5. \A e \in rules' : e.last \in -1..clock
    BY <2>1, <2>2, <2>3
  <2>. QED
    BY <2>1, <2>4, <2>5 DEF Pro!RuleSpacing
<1>3. ASSUME NEW r \in Rules, Pro!RemoveRule(r.id) PROVE Pro!ProactiveInv'
  BY <1>3 DEF Pro!RemoveRule, Pro!FiringsKnown, Pro!RuleSpacing
<1>4. ASSUME NEW t \in Triggers, Pro!EvaluateTrigger(t) PROVE Pro!ProactiveInv'
  <2>1. Pro!FiringsKnown' /\ Pro!RuleSpacing'
    BY <1>4, EvaluateStep
  <2>2. /\ counted' = (IF Pro!WindowOver THEN 0 ELSE counted)
        /\ hourStart' = (IF Pro!WindowOver THEN clock ELSE hourStart)
        /\ inWindow' = (IF Pro!WindowOver THEN 0 ELSE inWindow)
        /\ UNCHANGED <<clock, enabled>>
    BY <1>4 DEF Pro!EvaluateTrigger, Pro!Counted
  <2>3. \A e \in rules' : e.last \in -1..clock
    BY <2>1, <2>2 DEF Pro!FiringsKnown
  <2>. QED
    BY <2>1, <2>2, <2>3
<1>5. ASSUME Pro!Act PROVE Pro!ProactiveInv'
  <2>1. /\ counted' = counted + 1 /\ (Pro!WindowOver \/ counted < MaxActions)
        /\ inWindow' = (IF Pro!WindowOver THEN inWindow ELSE inWindow + 1)
        /\ UNCHANGED <<clock, enabled, rules, hourStart, lastFired, early>>
    BY <1>5 DEF Pro!Act, Pro!CanAct
  <2>2. Pro!FiringsKnown' /\ Pro!RuleSpacing'
    BY <2>1 DEF Pro!FiringsKnown, Pro!RuleSpacing
  <2>. QED
    BY <2>1, <2>2
<1>6. ASSUME Pro!Tick PROVE Pro!ProactiveInv'
  <2>1. clock' = clock + 1 /\ UNCHANGED <<enabled, rules, hourStart, counted, offered, lastFired, early, inWindow>>
    BY <1>6 DEF Pro!Tick
  <2>2. -1..clock \subseteq -1..(clock + 1) /\ 0..clock \subseteq 0..(clock + 1)
    OBVIOUS
  <2>3. Pro!FiringsKnown'
    BY <2>1, <2>2 DEF Pro!FiringsKnown
  <2>. QED
    BY <2>1, <2>2, <2>3 DEF Pro!RuleSpacing
<1>7. CASE UNCHANGED Pro!proactiveVars
  BY <1>7 DEF Pro!proactiveVars, Pro!FiringsKnown, Pro!RuleSpacing
<1>. QED
  BY <1>1, <1>2, <1>3, <1>4, <1>5, <1>6, <1>7 DEF Pro!Next

LEMMA ProactiveStart == Pro!Init => Pro!ProactiveInv
<1>. SUFFICES ASSUME Pro!Init PROVE Pro!ProactiveInv
  OBVIOUS
<1>1. clock = 0 /\ rules = {} /\ lastFired = [id \in {r.id : r \in Rules} |-> -1]
  BY DEF Pro!Init
<1>2. -1 \in -1..clock
  BY <1>1
<1>3. Pro!FiringsKnown
  BY <1>1, <1>2 DEF Pro!FiringsKnown
<1>. QED
  <2>1. Pro!TypeOK
    <3>1. enabled \in BOOLEAN
      BY Zenon DEF Pro!Init
    <3>2. counted \in Nat /\ hourStart \in 0..clock
      BY DEF Pro!Init
    <3>. QED
      BY <1>1, <3>1, <3>2 DEF Pro!TypeOK
  <2>2. Pro!ActionsCounted
    BY ProactiveAssumption DEF Pro!Init, Pro!ActionsCounted
  <2>3. Pro!RuleSpacing
    BY DEF Pro!Init, Pro!RuleSpacing
  <2>. QED
    BY <1>1, <1>3, <2>1, <2>2, <2>3 DEF Pro!ProactiveInv

(* Proactive actions keep to the hourly limit and to the cooldowns.          *)
LEMMA ActionsAreSpaced == Pro!Spec => [](Pro!TypeOK /\ Pro!WindowLimit /\ Pro!RuleSpacing)
<1>1. Pro!ProactiveInv /\ [Pro!Next]_Pro!proactiveVars => Pro!ProactiveInv'
  BY ProactiveStep
<1>2. Pro!ProactiveInv => Pro!TypeOK /\ Pro!WindowLimit /\ Pro!RuleSpacing
  BY DEF Pro!ProactiveInv, Pro!ActionsCounted, Pro!WindowLimit
<1>. QED
  BY <1>1, <1>2, ProactiveStart, PTL DEF Pro!Spec

-----------------------------------------------------------------------------
(* Learnings of a chat.                                                      *)

(* What a longer chat keeps of a lesson drawn from a part of it.             *)
LEMMA EarnedStays ==
  ASSUME NEW l, NEW n \in Nat, l.turn \in 1..n,
         \A i \in 1..n : chat'[i] = chat[i], Learn!Earned(l)
  PROVE  Learn!Earned(l)'
<1>1. \A j \in 1..l.turn : j \in 1..n
  OBVIOUS
<1>2. \A j \in 1..l.turn : chat'[j] = chat[j]
  BY <1>1
<1>3. {j \in 1..l.turn : chat'[j].err} = {j \in 1..l.turn : chat[j].err}
  BY <1>2
<1>4. chat'[l.turn] = chat[l.turn]
  BY <1>2
<1>. QED
  BY <1>2, <1>3, <1>4 DEF Learn!Earned

LEMMA TextsCounted ==
  ASSUME chat \in Seq(Learn!Message)
  PROVE  /\ IsFiniteSet(Learn!Texts) /\ Learn!Turns \in Nat /\ Learn!Texts \subseteq 1..Len(chat)
         /\ Learn!Failures \in Nat
<1>1. DOMAIN chat = 1..Len(chat) /\ Len(chat) \in Nat
  OBVIOUS
<1>2. IsFiniteSet(1..Len(chat))
  BY <1>1, FS_Interval
<1>3. Learn!Texts \subseteq 1..Len(chat)
  BY <1>1 DEF Learn!Texts
<1>4. IsFiniteSet(Learn!Texts) /\ Cardinality(Learn!Texts) \in Nat
  BY <1>2, <1>3, FS_Subset, FS_CardinalityType
<1>. DEFINE F == {i \in DOMAIN chat : chat[i].role = "tool" /\ chat[i].err}
<1>5. F \subseteq 1..Len(chat)
  BY <1>1
<1>6. Learn!Failures = Cardinality(F)
  BY LearnOps DEF Learn!Failures
<1>. HIDE DEF F
<1>7. Cardinality(F) \in Nat
  BY <1>2, <1>5, FS_Subset, FS_CardinalityType
<1>. QED
  BY LearnOps, <1>3, <1>4, <1>6, <1>7 DEF Learn!Turns

LEMMA UseToolStep ==
  ASSUME Learn!LearningInv, NEW t \in LearntTools, NEW e \in BOOLEAN, NEW r \in BOOLEAN, Learn!UseTool(t, e, r)
  PROVE  Learn!LearningInv'
<1>1. chat' = chat \o <<Learn!Call(t), Learn!Result(e, r)>> /\ lessons' = lessons
  BY DEF Learn!UseTool
<1>2. chat \in Seq(Learn!Message) /\ DOMAIN chat = 1..Len(chat) /\ Len(chat) \in Nat
  BY DEF Learn!LearningInv
<1>3. Learn!Call(t) \in Learn!Message /\ Learn!Result(e, r) \in Learn!Message
  BY DEF Learn!Call, Learn!Result, Learn!Message
<1>4. PICK a, b : a = Learn!Call(t) /\ b = Learn!Result(e, r)
  OBVIOUS
<1>5. PICK n \in Nat : n = Len(chat)
  BY <1>2
<1>6. chat' = chat \o <<a, b>> /\ <<a, b>> \in Seq(Learn!Message)
  BY <1>1, <1>3, <1>4
<1>7. chat' \in Seq(Learn!Message) /\ Len(chat') = n + 2 /\ DOMAIN chat' = 1..(n + 2)
  BY <1>2, <1>5, <1>6
<1>8. \A i \in 1..n : chat'[i] = chat[i]
  BY <1>2, <1>5, <1>6
<1>9. chat'[n + 1] = a /\ chat'[n + 2] = b
  BY <1>2, <1>5, <1>6
<1>10. \A i \in 1..(n + 2) : i \in 1..n \/ i = n + 1 \/ i = n + 2
  OBVIOUS
<1>11. /\ a.err = FALSE /\ b.role = "tool"
       /\ a.says = {"none"} /\ b.says = {"none"}
  BY <1>4 DEF Learn!Call, Learn!Result
<1>12. Learn!Texts' = Learn!Texts
  <2>1. Learn!Texts' = {i \in 1..(n + 2) : chat'[i].role = "assistant" /\ "none" \notin chat'[i].says}
    BY <1>7 DEF Learn!Texts
  <2>2. Learn!Texts = {i \in 1..n : chat[i].role = "assistant" /\ "none" \notin chat[i].says}
    BY <1>2, <1>5 DEF Learn!Texts
  <2>. QED
    BY <2>1, <2>2, <1>8, <1>9, <1>10, <1>11
<1>13. Learn!Turns' = Learn!Turns
  BY <1>12 DEF Learn!Turns
<1>14. \A i \in DOMAIN chat' : chat'[i].err => chat'[i].role = "tool"
  BY <1>2, <1>5, <1>7, <1>8, <1>9, <1>10, <1>11 DEF Learn!LearningInv
<1>15. \A i \in DOMAIN lessons : lessons[i].turn \in 1..n /\ Learn!Earned(lessons[i])
  BY <1>5 DEF Learn!LearningInv, Learn!SuccessEarned
<1>16. \A i \in DOMAIN lessons : Learn!Earned(lessons[i])'
  BY <1>8, <1>15, EarnedStays, <1>1
<1>. QED
  BY <1>1, <1>7, <1>13, <1>14, <1>15, <1>16 DEF Learn!LearningInv, Learn!SuccessEarned

(* The lesson of a turn that has just ended rests on its reply.              *)
LEMMA NewLesson ==
  ASSUME chat' \in Seq(Learn!Message), \A i \in DOMAIN chat' : chat'[i].err => chat'[i].role = "tool",
         Len(chat') > 0, chat'[Len(chat')].role = "assistant", "none" \notin chat'[Len(chat')].says,
         Learn!ToolsUsed' # {},
         NEW l, l = [type |-> Learn!InferTaskType(Learn!ToolsUsed)', approach |-> Learn!ToolsUsed',
                     lesson |-> Learn!Lesson', turn |-> Len(chat')]
  PROVE  l \in Learn!Learnt /\ l.turn = Len(chat') /\ Learn!Earned(l)'
<1>1. DOMAIN chat' = 1..Len(chat') /\ Len(chat') \in Nat
  OBVIOUS
<1>2. PICK n \in Nat : n = Len(chat') /\ n > 0 /\ n \in 1..n
  BY <1>1
<1>3. l.turn = n /\ l.lesson = Learn!Lesson'
  BY <1>2
<1>4. n \in Learn!Texts' /\ Learn!Texts' \subseteq 1..n
  BY <1>1, <1>2 DEF Learn!Texts
<1>5. Learn!FinalText' = chat'[n].says
  <2>1. \A i \in Learn!Texts' : (\A j \in Learn!Texts' : j <= i) => i = n
    BY <1>4
  <2>2. (CHOOSE i \in Learn!Texts' : \A j \in Learn!Texts' : j <= i) = n
    <3>1. \A j \in Learn!Texts' : j <= n
      BY <1>4
    <3>. QED
      BY <1>4, <2>1, <3>1
  <2>. QED
    BY <1>4, <2>2 DEF Learn!FinalText
<1>6. Learn!Failures' \in Nat
  <2>. DEFINE F == {i \in DOMAIN chat' : chat'[i].role = "tool" /\ chat'[i].err}
  <2>1. F \subseteq 1..n /\ IsFiniteSet(1..n)
    BY <1>1, <1>2, FS_Interval
  <2>2. Learn!Failures' = Cardinality(F)
    BY LearnOps DEF Learn!Failures
  <2>. HIDE DEF F
  <2>. QED
    BY <2>1, <2>2, FS_Subset, FS_CardinalityType
<1>7. PICK o : o = Learn!DetermineOutcome'
  OBVIOUS
<1>8. /\ o \in {"Success", "Failure", "Partial"}
      /\ o = "Success" => Learn!Failures' <= 1 /\ Learn!FinalText' # {"failure"}
  BY <1>6, <1>7 DEF Learn!DetermineOutcome
<1>9. {j \in 1..n : chat'[j].err} = {i \in DOMAIN chat' : chat'[i].role = "tool" /\ chat'[i].err}
  BY <1>1, <1>2
<1>10. Cardinality({j \in 1..n : chat'[j].err}) = Learn!Failures'
  BY LearnOps, <1>9 DEF Learn!Failures
<1>11. PICK x : x = Learn!Lesson'
  OBVIOUS
<1>12. x.outcome = o
  BY <1>7, <1>11 DEF Learn!Lesson
<1>13. x \in [outcome : {"Success", "Failure", "Partial"}, errors : 0..3, rotation : BOOLEAN]
  <2>1. Learn!HadRotation' \in BOOLEAN
    BY DEF Learn!HadRotation
  <2>2. PICK k \in 0..3 : k = IF Learn!Failures' > 3 THEN 3 ELSE Learn!Failures'
    BY <1>6
  <2>3. PICK h \in BOOLEAN : h = Learn!HadRotation'
    BY <2>1, Zenon
  <2>4. x = [outcome |-> o, errors |-> k, rotation |-> h]
    BY <1>7, <1>11, <2>2, <2>3 DEF Learn!Lesson
  <2>. QED
    BY <1>8, <2>4
<1>14. PICK u : u = Learn!ToolsUsed'
  OBVIOUS
<1>15. u \subseteq 1..n /\ u \in SUBSET Nat
  <2>1. u \subseteq DOMAIN chat'
    BY <1>14, Zenon DEF Learn!ToolsUsed
  <2>. QED
    BY <1>1, <1>2, <2>1
<1>16. Learn!InferTaskType(u)' \subseteq LearntTools \cup {""}
  <2>1. \A i \in 1..n : chat'[i].tool \in LearntTools \cup {""}
    <3>1. \A i \in 1..n : chat'[i] \in Learn!Message
      BY <1>1, <1>2
    <3>. QED
      BY <3>1 DEF Learn!Message
  <2>. QED
    BY <1>15, <2>1 DEF Learn!InferTaskType
<1>17. l \in Learn!Learnt
  <2>1. PICK y : y = Learn!InferTaskType(u)'
    OBVIOUS
  <2>2. l = [type |-> y, approach |-> u, lesson |-> x, turn |-> n]
    BY <1>2, <1>11, <1>14, <2>1
  <2>3. y \in SUBSET (LearntTools \cup {""})
    BY <2>1, <1>16
  <2>. DEFINE A == SUBSET (LearntTools \cup {""})
              B == SUBSET Nat
              C == [outcome : {"Success", "Failure", "Partial"}, errors : 0..3, rotation : BOOLEAN]
  <2>4. y \in A /\ u \in B /\ x \in C
    BY <2>3, <1>13, <1>15
  <2>5. Learn!Learnt = [type : A, approach : B, lesson : C, turn : Nat]
    BY DEF Learn!Learnt
  <2>. HIDE DEF A, B, C
  <2>. QED
    BY <2>2, <2>4, <2>5
<1>18. \E j \in 1..n : chat'[j].tool # ""
  BY <1>1, <1>2 DEF Learn!ToolsUsed
<1>19. l.lesson.outcome = o
  BY <1>3, <1>11, <1>12
<1>20. Learn!Earned(l)'
  BY LearnOps, <1>3, <1>5, <1>8, <1>10, <1>18, <1>19 DEF Learn!Earned
<1>. QED
  BY <1>2, <1>3, <1>17, <1>20

LEMMA EndTurnStep ==
  ASSUME Learn!LearningInv, NEW says \in SUBSET {"success", "failure"}, NEW s \in BOOLEAN, Learn!EndTurn(says, s)
  PROVE  Learn!LearningInv'
<1>1. chat' = Append(chat, Learn!Reply(says)) /\ lessons' = (IF s THEN lessons \o Learn!ExtractLearnings' ELSE lessons) /\ Learn!Turns < MaxChatTurns
  BY DEF Learn!EndTurn
<1>2. chat \in Seq(Learn!Message) /\ DOMAIN chat = 1..Len(chat) /\ Len(chat) \in Nat
  BY DEF Learn!LearningInv
<1>3. PICK a \in Learn!Message : a = Learn!Reply(says) /\ a.err = FALSE /\ a.role = "assistant" /\ "none" \notin a.says
  <2>1. says \in SUBSET {"none", "success", "failure"} /\ "none" \notin says
    OBVIOUS
  <2>2. Learn!Reply(says) \in Learn!Message
    BY <2>1 DEF Learn!Reply, Learn!Message
  <2>. QED
    BY <2>1, <2>2 DEF Learn!Reply
<1>4. PICK n \in Nat : n = Len(chat)
  BY <1>2
<1>5. chat' = Append(chat, a)
  BY <1>1, <1>3
<1>6. /\ chat' \in Seq(Learn!Message) /\ Len(chat') = n + 1 /\ DOMAIN chat' = 1..(n + 1)
      /\ chat'[n + 1] = a /\ \A i \in 1..n : chat'[i] = chat[i]
  BY <1>2, <1>4, <1>5
<1>7. \A i \in DOMAIN chat' : chat'[i].err => chat'[i].role = "tool"
  BY <1>2, <1>3, <1>4, <1>6 DEF Learn!LearningInv
<1>8. Learn!Turns \in Nat /\ Learn!Turns' = Learn!Turns + 1
  <2>1. Learn!Texts' = {i \in 1..(n + 1) : chat'[i].role = "assistant" /\ "none" \notin chat'[i].says}
    BY <1>6 DEF Learn!Texts
  <2>2. Learn!Texts = {i \in 1..n : chat[i].role = "assistant" /\ "none" \notin chat[i].says}
    BY <1>2, <1>4 DEF Learn!Texts
  <2>3. \A i \in 1..(n + 1) : i \in 1..n \/ i = n + 1
    OBVIOUS
  <2>4. \A i \in 1..n : i \in 1..(n + 1) /\ i # n + 1
    OBVIOUS
  <2>5. n + 1 \in 1..(n + 1)
    OBVIOUS
  <2>6. Learn!Texts' = Learn!Texts \cup {n + 1} /\ n + 1 \notin Learn!Texts
    BY <2>1, <2>2, <2>3, <2>4, <2>5, <1>3, <1>6
  <2>7. IsFiniteSet(Learn!Texts) /\ Learn!Turns \in Nat
    BY <1>2, TextsCounted
  <2>. QED
    BY LearnOps, <2>6, <2>7, FS_AddElement DEF Learn!Turns
<1>9. \A i \in DOMAIN lessons : lessons[i].turn \in 1..n /\ Learn!Earned(lessons[i])
  BY <1>4 DEF Learn!LearningInv, Learn!SuccessEarned
<1>10. ASSUME NEW i \in DOMAIN lessons, NEW l, l = lessons[i] PROVE Learn!Earned(l)' /\ l.turn \in 1..(n + 1)
  BY <1>6, <1>9, <1>10, EarnedStays
<1>11. lessons \in Seq(Learn!Learnt) /\ Len(lessons) \in Nat /\ DOMAIN lessons = 1..Len(lessons)
  BY DEF Learn!LearningInv
<1>12. /\ Len(lessons) <= Learn!Turns /\ Learn!Turns + 1 <= MaxChatTurns
  BY <1>1, <1>8, LearningAssumption DEF Learn!LearningInv
<1>13. CASE lessons' = lessons
  <2>1. \A i \in DOMAIN lessons' : lessons'[i].turn \in 1..Len(chat')
    BY <1>6, <1>10, <1>13
  <2>2. \A i \in DOMAIN lessons' : \E l : l = lessons'[i] /\ Learn!Earned(l)'
    BY <1>10, <1>13
  <2>3. Learn!SuccessEarned'
    BY <2>2 DEF Learn!SuccessEarned, Learn!Earned
  <2>. QED
    BY <2>1, <2>3, <1>6, <1>7, <1>8, <1>11, <1>12, <1>13 DEF Learn!LearningInv
<1>14. ASSUME Learn!ToolsUsed' # {}, s
       PROVE  Learn!LearningInv'
  <2>. DEFINE x == [type |-> Learn!InferTaskType(Learn!ToolsUsed), approach |-> Learn!ToolsUsed, lesson |-> Learn!Lesson, turn |-> Len(chat)]
  <2>1. PICK l : l = x'
    OBVIOUS
  <2>2. Learn!ExtractLearnings' = <<l>>
    BY <1>14, <2>1 DEF Learn!ExtractLearnings
  <2>3. lessons' = lessons \o <<l>>
    BY <1>1, <1>14, <2>2
  <2>4. l \in Learn!Learnt /\ l.turn = Len(chat') /\ Learn!Earned(l)'
    BY <1>3, <1>6, <1>7, <1>14, <2>1, NewLesson
  <2>. HIDE DEF x
  <2>5. /\ lessons' \in Seq(Learn!Learnt) /\ Len(lessons') = Len(lessons) + 1 /\ DOMAIN lessons' = 1..(Len(lessons) + 1)
        /\ lessons'[Len(lessons) + 1] = l /\ \A i \in 1..Len(lessons) : lessons'[i] = lessons[i]
    BY <1>11, <2>3, <2>4
  <2>6. ASSUME NEW i \in DOMAIN lessons'
        PROVE  lessons'[i].turn \in 1..Len(chat') /\ \E m : m = lessons'[i] /\ Learn!Earned(m)'
    <3>1. CASE i \in 1..Len(lessons)
      BY <3>1, <1>6, <1>10, <1>11, <2>5
    <3>2. CASE i = Len(lessons) + 1
      BY <3>2, <1>6, <2>4, <2>5
    <3>. QED
      BY <3>1, <3>2, <2>5, <1>11
  <2>7. Learn!SuccessEarned'
    BY <2>6 DEF Learn!SuccessEarned, Learn!Earned
  <2>. QED
    BY <2>5, <2>6, <2>7, <1>6, <1>7, <1>8, <1>11, <1>12 DEF Learn!LearningInv
<1>15. CASE ~(Learn!ToolsUsed' # {} /\ s)
  <2>1. CASE ~s
    BY <2>1, <1>1, <1>13
  <2>2. CASE s /\ Learn!ToolsUsed' = {}
    <3>1. Learn!ExtractLearnings' = <<>>
      BY <2>2 DEF Learn!ExtractLearnings
    <3>2. lessons' = lessons
      BY <3>1, <2>2, <1>1, <1>11
    <3>. QED
      BY <3>2, <1>13
  <2>. QED
    BY <2>1, <2>2, <1>15
<1>. QED
  BY <1>14, <1>15

LEMMA LearningStep ==
  ASSUME Learn!LearningInv, [Learn!Next]_Learn!learningVars
  PROVE  Learn!LearningInv'
<1>1. CASE UNCHANGED Learn!learningVars
  <2>1. chat' = chat /\ lessons' = lessons
    BY <1>1 DEF Learn!learningVars
  <2>2. Learn!Turns' = Learn!Turns /\ Learn!SuccessEarned' = Learn!SuccessEarned
    BY <2>1 DEF Learn!Turns, Learn!Texts, Learn!SuccessEarned, Learn!Earned
  <2>. QED
    BY <2>1, <2>2 DEF Learn!LearningInv
<1>. QED
  BY <1>1, UseToolStep, EndTurnStep DEF Learn!Next

LEMMA LearningStart == Learn!Init => Learn!LearningInv
<1>. SUFFICES ASSUME Learn!Init PROVE Learn!LearningInv
  OBVIOUS
<1>1. chat = <<>> /\ lessons = <<>>
  BY DEF Learn!Init
<1>2. Learn!Texts = {}
  BY <1>1 DEF Learn!Texts
<1>3. Learn!Turns = 0
  BY LearnOps, <1>2, FS_EmptySet DEF Learn!Turns
<1>. QED
  BY <1>1, <1>3, LearningAssumption DEF Learn!LearningInv, Learn!SuccessEarned

(* Lessons call a success only what was one.                                 *)
LEMMA LessonsAreEarned == Learn!Spec => [](Learn!TypeOK /\ Learn!SuccessEarned)
<1>1. Learn!LearningInv /\ [Learn!Next]_Learn!learningVars => Learn!LearningInv'
  BY LearningStep
<1>2. Learn!LearningInv => Learn!TypeOK /\ Learn!SuccessEarned
  <2>. SUFFICES ASSUME Learn!LearningInv PROVE Learn!TypeOK /\ Learn!SuccessEarned
    OBVIOUS
  <2>1. Learn!Turns \in Nat /\ lessons \in Seq(Learn!Learnt)
    BY TextsCounted DEF Learn!LearningInv
  <2>. QED
    BY <2>1, LearningAssumption DEF Learn!LearningInv, Learn!TypeOK
<1>. QED
  BY <1>1, <1>2, LearningStart, PTL DEF Learn!Spec

-----------------------------------------------------------------------------
(* DONE criteria and model router.                                           *)

(* The first place of a connector does not move when words follow it.        *)
LEMMA JointIs ==
  ASSUME Routing!RoutingInv, NEW c, Routing!Has(c)
  PROVE  /\ Routing!Joint(c) \in DOMAIN taskText /\ taskText[Routing!Joint(c)] = c
         /\ \A j \in 1..(Routing!Joint(c) - 1) : taskText[j] # c
<1>. DEFINE S == {i \in DOMAIN taskText : taskText[i] = c}
<1>1. DOMAIN taskText = 1..Len(taskText) /\ Len(taskText) \in Nat
  BY DEF Routing!RoutingInv
<1>2. S \in SUBSET Nat /\ S # {}
  BY <1>1 DEF Routing!Has
<1>3. PICK x \in S : \A y \in S : x <= y
  BY <1>2, LeastIn
<1>4. x \in DOMAIN taskText /\ taskText[x] = c /\ \A j \in 1..(x - 1) : taskText[j] # c
  BY <1>1, <1>3
<1>. QED
  BY <1>4 DEF Routing!Joint

LEMMA TextFollows ==
  ASSUME Routing!RoutingInv, NEW w \in Words, taskText' = Append(taskText, w)
  PROVE  /\ taskText' \in Seq(Words)
         /\ Len(taskText) \in Nat /\ Len(taskText') = Len(taskText) + 1
         /\ DOMAIN taskText = 1..Len(taskText) /\ DOMAIN taskText' = 1..(Len(taskText) + 1)
         /\ \A i \in DOMAIN taskText : i \in DOMAIN taskText' /\ taskText'[i] = taskText[i]
BY DEF Routing!RoutingInv

LEMMA JointStays ==
  ASSUME Routing!RoutingInv, NEW w \in Words, taskText' = Append(taskText, w), NEW c, Routing!Has(c)
  PROVE  Routing!Has(c)' /\ Routing!Joint(c)' = Routing!Joint(c)
<1>1. /\ Routing!Joint(c) \in DOMAIN taskText /\ taskText[Routing!Joint(c)] = c
      /\ \A j \in 1..(Routing!Joint(c) - 1) : taskText[j] # c
  BY JointIs
<1>2. PICK x : x = Routing!Joint(c)
  OBVIOUS
<1>. DEFINE Q(i) == i \in DOMAIN taskText' /\ taskText'[i] = c /\ \A j \in 1..(i - 1) : taskText'[j] # c
<1>3. x \in 1..Len(taskText) /\ Len(taskText) \in Nat
  BY <1>1, <1>2, TextFollows
<1>4. Q(x)
  BY <1>1, <1>2, <1>3, TextFollows
<1>5. \A y : Q(y) => y = x
  <2>. SUFFICES ASSUME NEW y, Q(y) PROVE y = x
    OBVIOUS
  <2>1. y \in 1..(Len(taskText) + 1)
    BY TextFollows
  <2>2. ~(y < x) /\ ~(x < y)
    BY <1>3, <1>4, <2>1
  <2>. QED
    BY <1>3, <2>1, <2>2
<1>6. Routing!Joint(c)' = CHOOSE i \in DOMAIN taskText' : taskText'[i] = c /\ \A j \in 1..(i - 1) : taskText'[j] # c
  BY DEF Routing!Joint
<1>7. Routing!Joint(c)' \in DOMAIN taskText' /\ taskText'[Routing!Joint(c)'] = c /\ \A j \in 1..(Routing!Joint(c)' - 1) : taskText'[j] # c
  BY <1>4, <1>6
<1>8. Routing!Has(c)'
  BY <1>4 DEF Routing!Has
<1>. QED
  BY <1>2, <1>5, <1>7, <1>8

LEMMA MoreIndices ==
  ASSUME NEW n \in Nat, NEW S, NEW T, S \subseteq T, T \subseteq 1..n, Cardinality(S) >= 2
  PROVE  Cardinality(T) >= 2
<1>1. IsFiniteSet(1..n)
  BY FS_Interval
<1>2. IsFiniteSet(T)
  BY <1>1, FS_Subset
<1>3. IsFiniteSet(S) /\ Cardinality(S) <= Cardinality(T)
  BY <1>2, FS_Subset
<1>. QED
  BY <1>2, <1>3, FS_CardinalityType

LEMMA CompoundStays ==
  ASSUME Routing!RoutingInv, NEW w \in Words, taskText' = Append(taskText, w), Routing!IsCompoundTask
  PROVE  Routing!IsCompoundTask'
<1>0. /\ Len(taskText) \in Nat /\ Len(taskText') = Len(taskText) + 1
      /\ DOMAIN taskText = 1..Len(taskText) /\ DOMAIN taskText' = 1..(Len(taskText) + 1)
      /\ \A i \in DOMAIN taskText : i \in DOMAIN taskText' /\ taskText'[i] = taskText[i]
  BY TextFollows
<1>1. Len(taskText') >= ShortText
  BY <1>0, RoutingAssumption DEF Routing!IsCompoundTask
<1>2. CASE Cardinality({i \in DOMAIN taskText : taskText[i] = "item"}) >= 2
  <2>. DEFINE S == {i \in DOMAIN taskText : taskText[i] = "item"}
              T == {i \in DOMAIN taskText' : taskText'[i] = "item"}
  <2>1. S \subseteq T /\ T \subseteq 1..(Len(taskText) + 1)
    BY <1>0
  <2>2. Cardinality(T) >= 2
    <3>1. Cardinality(S) >= 2
      BY <1>2
    <3>. HIDE DEF S, T
    <3>2. Len(taskText) + 1 \in Nat
      BY <1>0
    <3>. QED
      BY <2>1, <3>1, <3>2, MoreIndices
  <2>. QED
    BY RoutingOps, <1>1, <2>2 DEF Routing!IsCompoundTask
<1>3. CASE \E c \in {"and", "then"} : Routing!Connects(c)
  <2>1. PICK c \in {"and", "then"} : Routing!Connects(c)
    BY <1>3
  <2>2. Routing!Has(c)
    BY <2>1 DEF Routing!Connects
  <2>3. Routing!Has(c)' /\ Routing!Joint(c)' = Routing!Joint(c) /\ Routing!Joint(c) \in 1..Len(taskText)
    BY <2>2, JointStays, JointIs, <1>0
  <2>4. \E i \in 1..(Routing!Joint(c) - 1) : taskText'[i] = "verb"
    BY <2>1, <2>3, <1>0 DEF Routing!Connects
  <2>5. \E i \in (Routing!Joint(c) + 1)..Len(taskText') : taskText'[i] = "verb"
    BY <2>1, <2>3, <1>0 DEF Routing!Connects
  <2>6. Routing!Connects(c)'
    BY <2>3, <2>4, <2>5 DEF Routing!Connects
  <2>. QED
    BY <1>1, <2>6 DEF Routing!IsCompoundTask
<1>4. CASE Cardinality({i \in Routing!Firsts : taskText[i] = "verb"}) >= 2
  <2>. DEFINE S == {i \in Routing!Firsts : taskText[i] = "verb"}
              T == {i \in Routing!Firsts' : taskText'[i] = "verb"}
  <2>1. S \subseteq T /\ T \subseteq 1..(Len(taskText) + 1)
    BY <1>0 DEF Routing!Firsts
  <2>2. Cardinality(T) >= 2
    <3>1. Cardinality(S) >= 2
      BY <1>4
    <3>. HIDE DEF S, T
    <3>2. Len(taskText) + 1 \in Nat
      BY <1>0
    <3>. QED
      BY <2>1, <3>1, <3>2, MoreIndices
  <2>. QED
    BY RoutingOps, <1>1, <2>2 DEF Routing!IsCompoundTask
<1>. QED
  BY RoutingOps, <1>2, <1>3, <1>4 DEF Routing!IsCompoundTask

(* How strong a model the classification asks for. *)
Strength(c) == CASE c = "Simple" -> 1 [] c = "Standard" -> 2 [] OTHER -> 3

LEMMA HarderStays ==
  ASSUME Routing!RoutingInv, NEW t \in RoutedTools, Routing!Turn(t)
  PROVE  /\ Routing!ClassifyComplexity \in {"Simple", "Standard", "Complex"}
         /\ Routing!ClassifyComplexity' \in {"Simple", "Standard", "Complex"}
         /\ Strength(Routing!ClassifyComplexity') >= Strength(Routing!ClassifyComplexity)
<1>1. /\ taskText' = taskText /\ turnCalls \in Nat /\ messages \in Nat
      /\ turnCalls' = turnCalls + 1 /\ messages' = messages + 2 /\ used' = used \cup {t}
  BY DEF Routing!Turn, Routing!RoutingInv
<1>2. Routing!Compound => Routing!Compound'
  <2>1. IsFiniteSet(used) /\ IsFiniteSet(used')
    BY RoutingOps, <1>1, FS_AddElement DEF Routing!RoutingInv
  <2>2. Cardinality(used) \in Nat /\ Cardinality(used') \in Nat /\ Cardinality(used) <= Cardinality(used')
    BY <1>1, <2>1, FS_Subset, FS_CardinalityType
  <2>. QED
    BY RoutingOps, <1>1, <2>2, RoutingAssumption DEF Routing!Compound
<1>3. \A w : Routing!Has(w)' <=> Routing!Has(w)
  BY <1>1 DEF Routing!Has
<1>. DEFINE Easy == /\ Len(taskText) < ShortTask /\ turnCalls <= 1
                    /\ used \subseteq ReadOnlyTools /\ messages <= DeepHistory
<1>4. Easy' => Easy
  BY <1>1, RoutingAssumption
<1>5. Routing!ClassifyComplexity = IF Routing!Has("hard") \/ Routing!Compound \/ Routing!Has("done") THEN "Complex"
                           ELSE IF Easy THEN "Simple" ELSE "Standard"
  BY DEF Routing!ClassifyComplexity
<1>6. Routing!ClassifyComplexity' = IF Routing!Has("hard")' \/ Routing!Compound' \/ Routing!Has("done")' THEN "Complex"
                            ELSE IF Easy' THEN "Simple" ELSE "Standard"
  BY DEF Routing!ClassifyComplexity
<1>. HIDE DEF Easy
<1>. QED
  BY <1>2, <1>3, <1>4, <1>5, <1>6 DEF Strength

(* The model that serves a strength. *)
Serving(s) == Routing!GetModelName(IF s = 1 THEN "Fast" ELSE IF s = 2 THEN "Primary" ELSE "Premium")

LEMMA RankOfServing ==
  ASSUME Routing!RoutingInv, NEW a \in 1..3, NEW b \in 1..3, a <= b
  PROVE  /\ Routing!Rank(Serving(a)) \in 1..3 /\ Routing!Rank(Serving(a)) <= Routing!Rank(Serving(b))
         /\ ~routerConfig.premium => Routing!Rank(Serving(a)) <= 2
<1>1. routerConfig.fast \in BOOLEAN /\ routerConfig.premium \in BOOLEAN
  BY DEF Routing!RoutingInv
<1>2. Routing!Rank("Fast") = 1 /\ Routing!Rank("Primary") = 2 /\ Routing!Rank("Premium") = 3
  BY DEF Routing!Rank
<1>3. /\ Serving(1) = IF routerConfig.fast THEN "Fast" ELSE "Primary"
      /\ Serving(2) = "Primary"
      /\ Serving(3) = IF routerConfig.premium THEN "Premium" ELSE "Primary"
  BY <1>1 DEF Serving, Routing!GetModelName
<1>. QED
  BY <1>1, <1>2, <1>3

LEMMA RouteServes ==
  ASSUME Routing!RoutingInv, Routing!ClassifyComplexity \in {"Simple", "Standard", "Complex"}
  PROVE  /\ Strength(Routing!ClassifyComplexity) \in 1..3
         /\ ~routerConfig.enabled => Routing!Route(FALSE) = "Primary"
         /\ (routerConfig.enabled /\ Routing!Forced) => Routing!Route(FALSE) = Serving(1)
         /\ (routerConfig.enabled /\ ~Routing!Forced) => Routing!Route(FALSE) = Serving(Strength(Routing!ClassifyComplexity))
         /\ routerConfig.enabled => Routing!Route(TRUE) = IF routerConfig.premium THEN "Premium" ELSE "Primary"
<1>1. routerConfig.fast \in BOOLEAN /\ routerConfig.premium \in BOOLEAN /\ routerConfig.enabled \in BOOLEAN
  BY DEF Routing!RoutingInv
<1>. QED
  BY <1>1 DEF Routing!Route, Serving, Routing!GetModelName, Routing!SelectTier, Strength

LEMMA RoutingKeeps ==
  ASSUME Routing!RoutingInv, [Routing!Next]_Routing!routingVars
  PROVE  Routing!RoutingInv'
<1>1. ASSUME NEW c \in Configs, Routing!Configure(c) PROVE Routing!RoutingInv'
  BY <1>1, RoutingAssumption DEF Routing!Configure, Routing!RoutingInv
<1>2. ASSUME NEW w \in Words, Routing!Say(w) PROVE Routing!RoutingInv'
  BY <1>2, TextFollows DEF Routing!Say, Routing!RoutingInv
<1>3. ASSUME Routing!Begin PROVE Routing!RoutingInv'
  BY <1>3 DEF Routing!Begin, Routing!RoutingInv
<1>4. ASSUME NEW t \in RoutedTools, Routing!Turn(t) PROVE Routing!RoutingInv'
  BY RoutingOps, <1>4, FS_AddElement DEF Routing!Turn, Routing!RoutingInv
<1>5. CASE UNCHANGED Routing!routingVars
  BY <1>5 DEF Routing!routingVars, Routing!RoutingInv
<1>. QED
  BY <1>1, <1>2, <1>3, <1>4, <1>5 DEF Routing!Next

LEMMA RoutingStart == Routing!Init => Routing!RoutingInv
<1>1. (CHOOSE c \in Configs : TRUE) \in Configs
  BY RoutingAssumption
<1>2. IsFiniteSet({})
  BY FS_EmptySet
<1>. QED
  BY RoutingOps, <1>1, <1>2, RoutingAssumption DEF Routing!Init, Routing!RoutingInv

LEMMA TierStep ==
  ASSUME Routing!RoutingInv, [Routing!Next]_Routing!routingVars, messages > 0
  PROVE  /\ Routing!Rank(Routing!Route(FALSE))' >= Routing!Rank(Routing!Route(FALSE))
         /\ (routerConfig.enabled /\ ~Routing!Forced) => Routing!Rank(Routing!Route(TRUE))' >= Routing!Rank(Routing!Route(FALSE))
<1>1. Routing!RoutingInv'
  BY RoutingKeeps
<1>2. taskText # <<>> /\ ~(messages = 0) /\ routerConfig.enabled \in BOOLEAN /\ routerConfig.premium \in BOOLEAN
  BY DEF Routing!RoutingInv
<1>3. Routing!Rank("Primary") = 2 /\ Routing!Rank("Premium") = 3
  BY DEF Routing!Rank
<1>4. Routing!ClassifyComplexity \in {"Simple", "Standard", "Complex"}
  BY DEF Routing!ClassifyComplexity
<1>5. PICK a \in 1..3 : a = Strength(Routing!ClassifyComplexity)
  BY <1>4, RouteServes
<1>6. /\ Routing!Rank(Serving(a)) \in 1..3 /\ Routing!Rank(Serving(1)) \in 1..3
      /\ ~routerConfig.premium => Routing!Rank(Serving(a)) <= 2
  BY RankOfServing
<1>7. ASSUME NEW t \in RoutedTools, Routing!Turn(t)
      PROVE  /\ Routing!Rank(Routing!Route(FALSE))' >= Routing!Rank(Routing!Route(FALSE))
             /\ (routerConfig.enabled /\ ~Routing!Forced) => Routing!Rank(Routing!Route(TRUE))' >= Routing!Rank(Routing!Route(FALSE))
  <2>1. routerConfig' = routerConfig /\ taskText' = taskText
    BY <1>7 DEF Routing!Turn
  <2>2. Routing!ClassifyComplexity' \in {"Simple", "Standard", "Complex"}
    BY DEF Routing!ClassifyComplexity
  <2>3. /\ Strength(Routing!ClassifyComplexity') \in 1..3
        /\ ~routerConfig'.enabled => Routing!Route(FALSE)' = "Primary"
        /\ (routerConfig'.enabled /\ Routing!Forced') => Routing!Route(FALSE)' = Serving(1)'
        /\ (routerConfig'.enabled /\ ~Routing!Forced') => Routing!Route(FALSE)' = Serving(Strength(Routing!ClassifyComplexity))'
        /\ routerConfig'.enabled => Routing!Route(TRUE)' = IF routerConfig'.premium THEN "Premium" ELSE "Primary"
    BY <1>1, <2>2 DEF Routing!RoutingInv, Strength, Routing!Route, Serving, Routing!GetModelName, Routing!SelectTier
  <2>4. Routing!Forced' <=> Routing!Forced
    BY <2>1 DEF Routing!Forced
  <2>5. \A n : Serving(n)' = Serving(n)
    BY <2>1 DEF Serving, Routing!GetModelName
  <2>6. PICK b \in 1..3 : b = Strength(Routing!ClassifyComplexity')
    BY <2>3
  <2>7. a <= b
    BY <1>5, <2>6, <1>7, HarderStays
  <2>8. Routing!Rank(Serving(a)) <= Routing!Rank(Serving(b))
    BY <2>7, RankOfServing
  <2>9. Serving(Strength(Routing!ClassifyComplexity))' = Serving(b)
    BY <2>1, <2>6 DEF Serving, Routing!GetModelName
  <2>10. \A r : Routing!Rank(r)' = Routing!Rank(r)
    BY DEF Routing!Rank
  <2>11. Routing!Rank(Serving(b)) \in 1..3
    BY RankOfServing
  <2>12. /\ Routing!Rank(Routing!Route(FALSE))' = Routing!Rank(Routing!Route(FALSE)') /\ Routing!Rank(Routing!Route(TRUE))' = Routing!Rank(Routing!Route(TRUE)')
    BY DEF Routing!Rank
  <2>13. PICK p, q, v : p = Routing!Route(FALSE) /\ q = Routing!Route(FALSE)' /\ v = Routing!Route(TRUE)'
    OBVIOUS
  <2>14. /\ Routing!Rank(p) <= Routing!Rank(q)
         /\ (routerConfig.enabled /\ ~Routing!Forced) => Routing!Rank(p) <= Routing!Rank(v)
    <3>1. CASE ~routerConfig.enabled
      <4>1. p = "Primary" /\ q = "Primary"
        BY <2>1, <2>3, <2>13, <3>1, <1>2, <1>4, RouteServes, Zenon
      <4>. QED
        BY <4>1, <3>1, <1>3
    <3>2. CASE routerConfig.enabled /\ Routing!Forced
      <4>1. p = Serving(1) /\ q = Serving(1)
        BY <2>1, <2>3, <2>4, <2>5, <2>13, <3>2, <1>4, RouteServes, Zenon
      <4>. QED
        BY <4>1, <3>2, <1>6
    <3>3. CASE routerConfig.enabled /\ ~Routing!Forced
      <4>1. p = Serving(a) /\ q = Serving(b)
        BY <2>1, <2>3, <2>4, <2>9, <2>13, <3>3, <1>4, <1>5, RouteServes, Zenon
      <4>2. v = IF routerConfig.premium THEN "Premium" ELSE "Primary"
        BY <2>1, <2>3, <2>13, <3>3, Zenon
      <4>. QED
        BY <4>1, <4>2, <2>8, <2>11, <1>2, <1>3, <1>6
    <3>. QED
      BY <3>1, <3>2, <3>3, <1>2
  <2>15. Routing!Rank(Routing!Route(FALSE))' = Routing!Rank(q) /\ Routing!Rank(Routing!Route(TRUE))' = Routing!Rank(v) /\ Routing!Rank(Routing!Route(FALSE)) = Routing!Rank(p)
    BY <2>12, <2>13, Zenon
  <2>16. Routing!Rank(p) \in {1, 2, 3} /\ Routing!Rank(q) \in {1, 2, 3} /\ Routing!Rank(v) \in {1, 2, 3}
    BY DEF Routing!Rank
  <2>. QED
    BY <2>14, <2>15, <2>16
<1>8. CASE UNCHANGED Routing!routingVars
  <2>1. /\ Routing!Route(FALSE)' = Routing!Route(FALSE) /\ Routing!Route(TRUE)' = Routing!Route(TRUE)
    BY <1>8 DEF Routing!routingVars, Routing!Route, Routing!GetModelName, Routing!SelectTier, Routing!ClassifyComplexity, Routing!Has, Routing!Compound, Routing!Forced
  <2>2. /\ Routing!Rank(Routing!Route(FALSE))' = Routing!Rank(Routing!Route(FALSE)) /\ Routing!Rank(Routing!Route(TRUE))' = Routing!Rank(Routing!Route(TRUE))
    BY <2>1 DEF Routing!Rank
  <2>3. PICK p, v : p = Routing!Route(FALSE) /\ v = Routing!Route(TRUE)
    OBVIOUS
  <2>4. Routing!Rank(p) \in {1, 2, 3} /\ Routing!Rank(v) \in {1, 2, 3}
    BY DEF Routing!Rank
  <2>5. routerConfig.enabled /\ ~Routing!Forced => Routing!Rank(p) <= Routing!Rank(v)
    <3>. SUFFICES ASSUME routerConfig.enabled, ~Routing!Forced PROVE Routing!Rank(p) <= Routing!Rank(v)
      OBVIOUS
    <3>1. p = Serving(a)
      BY <2>3, <1>4, <1>5, RouteServes, Zenon
    <3>2. v = IF routerConfig.premium THEN "Premium" ELSE "Primary"
      BY <2>3, <1>4, RouteServes, Zenon
    <3>. QED
      BY <3>1, <3>2, <1>2, <1>3, <1>6
  <2>6. Routing!Rank(Routing!Route(FALSE)) = Routing!Rank(p) /\ Routing!Rank(Routing!Route(FALSE))' = Routing!Rank(p) /\ Routing!Rank(Routing!Route(TRUE))' = Routing!Rank(v)
    BY <2>2, <2>3, Zenon
  <2>7. Routing!Rank(p) >= Routing!Rank(p) /\ (Routing!Rank(p) <= Routing!Rank(v) => Routing!Rank(v) >= Routing!Rank(p))
    BY <2>4
  <2>. QED
    BY <2>5, <2>6, <2>7, Zenon
<1>. QED
  BY <1>2, <1>7, <1>8 DEF Routing!Next, Routing!Configure, Routing!Say, Routing!Begin

(* A task that goes on is never moved to a weaker model, whatever the       *)
(* configuration, the tools and the thresholds are.                         *)
LEMMA TierHolds == Routing!Spec => Routing!TierNeverDrops
<1>. DEFINE Goal == messages > 0 =>
       /\ Routing!Rank(Routing!Route(FALSE))' >= Routing!Rank(Routing!Route(FALSE))
       /\ (routerConfig.enabled /\ ~Routing!Forced) => Routing!Rank(Routing!Route(TRUE))' >= Routing!Rank(Routing!Route(FALSE))
<1>1. Routing!RoutingInv /\ [Routing!Next]_Routing!routingVars => Routing!RoutingInv'
  BY RoutingKeeps
<1>2. Routing!RoutingInv /\ [Routing!Next]_Routing!routingVars => [Goal]_Routing!routingVars
  BY TierStep
<1>. QED
  BY <1>1, <1>2, RoutingStart, PTL DEF Routing!Spec, Routing!TierNeverDrops

(* A text once recognised as compound stays so however it goes on.          *)
LEMMA CompoundHolds == Routing!Spec => Routing!CompoundGrows
<1>1. Routing!RoutingInv /\ [Routing!Next]_Routing!routingVars => Routing!RoutingInv'
  BY RoutingKeeps
<1>2. Routing!RoutingInv /\ [Routing!Next]_Routing!routingVars => [Routing!IsCompoundTask => Routing!IsCompoundTask']_Routing!routingVars
  <2>. SUFFICES ASSUME Routing!RoutingInv, Routing!Next, Routing!IsCompoundTask PROVE Routing!IsCompoundTask'
    OBVIOUS
  <2>1. ASSUME NEW w \in Words, Routing!Say(w) PROVE Routing!IsCompoundTask'
    BY <2>1, CompoundStays DEF Routing!Say
  <2>2. CASE taskText' = taskText
    <3>1. Routing!Firsts' = Routing!Firsts /\ \A c : Routing!Has(c)' = Routing!Has(c) /\ Routing!Joint(c)' = Routing!Joint(c)
      BY <2>2, Zenon DEF Routing!Firsts, Routing!Has, Routing!Joint
    <3>2. \A c : Routing!Connects(c)' = Routing!Connects(c)
      BY <2>2, <3>1, Zenon DEF Routing!Connects
    <3>. QED
      BY <2>2, <3>1, <3>2, Zenon DEF Routing!IsCompoundTask
  <2>. QED
    BY <2>1, <2>2 DEF Routing!Next, Routing!Configure, Routing!Begin, Routing!Turn
<1>. QED
  BY <1>1, <1>2, RoutingStart, PTL DEF Routing!Spec, Routing!CompoundGrows

-----------------------------------------------------------------------------
(* PromptPatchManager.                                                       *)

LEMMA Removed ==
  ASSUME NEW S, NEW s \in Seq(S), NEW e \in 1..Len(s)
  PROVE  /\ Patch!RemoveAt(s, e) \in Seq(S) /\ Len(Patch!RemoveAt(s, e)) = Len(s) - 1
         /\ \A j \in 1..(Len(s) - 1) : Patch!RemoveAt(s, e)[j] = IF j < e THEN s[j] ELSE s[j + 1]
<1>. DEFINE a == SubSeq(s, 1, e - 1)
            b == SubSeq(s, e + 1, Len(s))
<1>1. a \in Seq(S) /\ Len(a) = e - 1 /\ \A j \in 1..(e - 1) : a[j] = s[j]
  OBVIOUS
<1>2. b \in Seq(S) /\ Len(b) = Len(s) - e /\ \A j \in 1..(Len(s) - e) : b[j] = s[j + e]
  OBVIOUS
<1>3. Patch!RemoveAt(s, e) = a \o b
  BY DEF Patch!RemoveAt
<1>. HIDE DEF a, b
<1>4. a \o b \in Seq(S)
  BY <1>1, <1>2
<1>5. Len(a \o b) = Len(s) - 1
  BY <1>1, <1>2
<1>6. \A j \in 1..(Len(s) - 1) : (a \o b)[j] = IF j < e THEN s[j] ELSE s[j + 1]
  BY <1>1, <1>2
<1>. QED
  BY <1>3, <1>4, <1>5, <1>6

LEMMA ExtractIs ==
  ASSUME PatchAssume, NEW trace \in Traces
  PROVE  Patch!ExtractPromptPatches(trace) \in Seq(Patch!Proposal)
<1>. DEFINE Turn == [tool : STRING, ok : BOOLEAN, rotated : BOOLEAN]
            a == IF \E i \in DOMAIN trace : trace[i].rotated THEN <<[kind |-> "ErrorAvoidance", conf |-> 70]>> ELSE <<>>
            b == IF Len(trace) >= 2 /\ Patch!FirstSuccess(trace) # 0 /\ Patch!Runs(trace) >= 2
                 THEN <<[kind |-> "WorkflowPattern", conf |-> 50 + 10 * Patch!Lesser(Patch!Runs(trace), 5)]>> ELSE <<>>
            c == IF Patch!FirstSuccess(trace) # 0 /\ Cardinality(Patch!Tried(trace)) >= 2
                 THEN <<[kind |-> "ToolUsageHint", conf |-> 60 + 5 * Patch!Lesser(Cardinality(Patch!Tried(trace)), 4)]>> ELSE <<>>
<1>1. trace \in Seq(Turn)
  BY DEF PatchAssume
<1>2. Patch!Runs(trace) \in Nat
  <2>1. DOMAIN trace = 1..Len(trace) /\ Len(trace) \in Nat
    BY <1>1
  <2>2. IsFiniteSet(DOMAIN trace)
    BY <2>1, FS_Interval
  <2>. QED
    BY PatchOps, <2>2, FS_Subset, FS_CardinalityType DEF Patch!Runs
<1>3. Patch!FirstSuccess(trace) # 0 => Cardinality(Patch!Tried(trace)) \in Nat
  <2>. SUFFICES ASSUME Patch!FirstSuccess(trace) # 0 PROVE Cardinality(Patch!Tried(trace)) \in Nat
    OBVIOUS
  <2>. DEFINE hits == {i \in DOMAIN trace : trace[i].ok}
  <2>1. hits # {} /\ hits \in SUBSET Nat
    BY <1>1 DEF Patch!FirstSuccess
  <2>2. PICK n \in hits : \A m \in hits : n <= m
    BY <2>1, LeastIn
  <2>3. n \in DOMAIN trace /\ trace[n].ok /\ \A j \in 1..(n - 1) : ~trace[j].ok
    BY <1>1, <2>2
  <2>4. Patch!FirstSuccess(trace) = CHOOSE i \in DOMAIN trace : trace[i].ok /\ \A j \in 1..(i - 1) : ~trace[j].ok
    BY <2>3 DEF Patch!FirstSuccess
  <2>5. Patch!FirstSuccess(trace) \in DOMAIN trace
    BY <2>3, <2>4
  <2>6. IsFiniteSet(1..Patch!FirstSuccess(trace))
    BY <1>1, <2>5, FS_Interval
  <2>. DEFINE S == 1..Patch!FirstSuccess(trace)
              f == [i \in S |-> trace[i].tool]
              T == {trace[i].tool : i \in S}
  <2>7. f \in Surjection(S, T)
    BY DEF Surjection
  <2>. HIDE DEF S, f, T
  <2>8. IsFiniteSet(S)
    BY <2>6 DEF S
  <2>9. IsFiniteSet(T)
    BY <2>7, <2>8, FS_Surjection
  <2>10. Cardinality(T) \in Nat
    BY <2>9, FS_CardinalityType
  <2>. QED
    BY <2>10 DEF T, S, Patch!Tried
<1>0. ASSUME NEW k, NEW n \in Nat, k \in {"ErrorAvoidance", "WorkflowPattern", "ToolUsageHint"}
      PROVE  <<[kind |-> k, conf |-> n]>> \in Seq(Patch!Proposal)
  <2>1. [kind |-> k, conf |-> n] \in Patch!Proposal
    BY <1>0 DEF Patch!Proposal
  <2>. QED
    BY <2>1
<1>. HIDE DEF Patch!Proposal
<1>4. a \in Seq(Patch!Proposal)
  <2>1. <<[kind |-> "ErrorAvoidance", conf |-> 70]>> \in Seq(Patch!Proposal)
    BY <1>0
  <2>. QED
    BY <2>1
<1>5. b \in Seq(Patch!Proposal)
  <2>1. 50 + 10 * Patch!Lesser(Patch!Runs(trace), 5) \in Nat
    BY <1>2 DEF Patch!Lesser
  <2>2. <<[kind |-> "WorkflowPattern", conf |-> 50 + 10 * Patch!Lesser(Patch!Runs(trace), 5)]>> \in Seq(Patch!Proposal)
    BY <1>0, <2>1
  <2>. QED
    BY <2>2
<1>6. c \in Seq(Patch!Proposal)
  <2>1. Patch!FirstSuccess(trace) # 0 => 60 + 5 * Patch!Lesser(Cardinality(Patch!Tried(trace)), 4) \in Nat
    BY <1>3 DEF Patch!Lesser
  <2>2. Patch!FirstSuccess(trace) # 0 => <<[kind |-> "ToolUsageHint",
                                      conf |-> 60 + 5 * Patch!Lesser(Cardinality(Patch!Tried(trace)), 4)]>> \in Seq(Patch!Proposal)
    BY <1>0, <2>1
  <2>. QED
    BY <2>2
<1>7. Patch!ExtractPromptPatches(trace) = a \o b \o c
  BY PatchOps DEF Patch!ExtractPromptPatches
<1>. HIDE DEF a, b, c
<1>8. a \o b \in Seq(Patch!Proposal)
  BY <1>4, <1>5
<1>9. a \o b \o c \in Seq(Patch!Proposal)
  BY <1>6, <1>8
<1>. QED
  BY <1>7, <1>9

(* An eviction takes one patch that has ended.                               *)
LEMMA EvictionIs ==
  ASSUME Patch!PatchTypes, Patch!Evictable(patches) # {}
  PROVE  \E e \in Patch!Evictable(patches) : Patch!EvictOne(patches) = Patch!RemoveAt(patches, e)
<1>. DEFINE E == Patch!Evictable(patches)
            confs == {patches[i].conf : i \in E}
            low == {i \in E : \A j \in E : patches[i].conf <= patches[j].conf}
<1>1. E \subseteq DOMAIN patches /\ DOMAIN patches \in SUBSET Nat /\ \A i \in DOMAIN patches : patches[i].conf \in Nat
  <2>1. patches \in Seq(Patch!Patch)
    BY DEF Patch!PatchTypes
  <2>2. \A i \in DOMAIN patches : patches[i] \in Patch!Patch
    BY <2>1
  <2>3. DOMAIN patches = 1..Len(patches) /\ Len(patches) \in Nat
    BY <2>1
  <2>4. \A i \in DOMAIN patches : patches[i].conf \in Nat
    BY <2>2 DEF Patch!Patch
  <2>5. E \subseteq DOMAIN patches
    BY DEF Patch!Evictable
  <2>. QED
    BY <2>3, <2>4, <2>5
<1>2. confs \in SUBSET Nat /\ confs # {}
  BY <1>1
<1>3. PICK x \in confs : \A y \in confs : x <= y
  BY <1>2, LeastIn
<1>4. low # {} /\ low \in SUBSET Nat /\ low \subseteq E
  BY <1>1, <1>3
<1>5. PICK e \in low : \A j \in low : e <= j
  BY <1>4, LeastIn
<1>. DEFINE f == CHOOSE i \in low : \A j \in low : i <= j
<1>6. f \in low
  BY <1>5
<1>7. Patch!EvictOne(patches) = Patch!RemoveAt(patches, f)
  BY DEF Patch!EvictOne
<1>. QED
  BY <1>4, <1>6, <1>7

(* What the proposal of a patch does to the list: a new one at the end, and  *)
(* from the others at most one that has ended is gone.                       *)
LEMMA ProposalStep ==
  ASSUME Patch!PatchInv, PatchAssume, NEW p \in Patch!Proposal, Patch!ProposePatch(p)
  PROVE  /\ Patch!PatchInv'
         /\ \A i \in DOMAIN patches : ~Patch!Ended(patches[i]) => \E j \in DOMAIN patches' : patches'[j] = patches[i]
         /\ \A j \in DOMAIN patches' : patches'[j].id = serial \/ \E i \in DOMAIN patches : patches'[j] = patches[i]
<1>. DEFINE new == [id |-> serial, kind |-> p.kind, conf |-> p.conf, applied |-> 0, wins |-> 0,
                    status |-> IF Patch!AutoApproved(p) THEN "approved" ELSE "proposed"]
            same(j, i) == patches'[j] = patches[i]
<1>0. patches \in Seq(Patch!Patch) /\ serial \in Nat /\ serial' = serial + 1 /\ UNCHANGED byUser /\ Patch!OwnIds
      /\ Len(patches) <= MaxPatches /\ MaxPatches \in Nat
  BY DEF Patch!PatchInv, Patch!PatchTypes, Patch!ProposePatch, PatchAssume
<1>1. new \in Patch!Patch /\ new.id = serial /\ Patch!Consented(new)
  BY <1>0 DEF Patch!Patch, Patch!Proposal, Patch!Consented, Patch!AutoApproved
<1>. HIDE DEF new
<1>2. \E old \in Seq(Patch!Patch) :
         /\ patches' = Append(old, new) \/ (patches' = old /\ old = patches)
         /\ Len(old) + 1 <= MaxPatches \/ (patches' = old /\ old = patches)
         /\ \A j \in DOMAIN old : \E i \in DOMAIN patches : old[j] = patches[i]
         /\ \A j, k \in DOMAIN old : old[j].id = old[k].id => j = k
         /\ \A i \in DOMAIN patches : ~Patch!Ended(patches[i]) => \E j \in DOMAIN old : old[j] = patches[i]
  <2>1. CASE Len(patches) < MaxPatches
    <3>1. patches' = Append(patches, new)
      BY <2>1 DEF Patch!ProposePatch, new
    <3>. QED
      BY <1>0, <2>1, <3>1 DEF Patch!OwnIds
  <2>2. CASE ~(Len(patches) < MaxPatches) /\ Patch!Evictable(patches) # {}
    <3>1. patches' = Append(Patch!EvictOne(patches), new)
      BY <2>2 DEF Patch!ProposePatch, new
    <3>2. PICK e \in Patch!Evictable(patches) : Patch!EvictOne(patches) = Patch!RemoveAt(patches, e)
      BY <2>2, EvictionIs DEF Patch!PatchInv
    <3>3. e \in 1..Len(patches) /\ Patch!Ended(patches[e])
      BY <1>0 DEF Patch!Evictable
    <3>. DEFINE old == Patch!RemoveAt(patches, e)
    <3>4. /\ old \in Seq(Patch!Patch) /\ Len(old) = Len(patches) - 1
          /\ \A j \in 1..(Len(patches) - 1) : old[j] = IF j < e THEN patches[j] ELSE patches[j + 1]
      BY <1>0, <3>3, Removed
    <3>. HIDE DEF old
    <3>5. patches' = Append(old, new)
      BY <3>1, <3>2 DEF old
    <3>6. \A j \in DOMAIN old : \E i \in DOMAIN patches : old[j] = patches[i]
      BY <1>0, <3>3, <3>4
    <3>7. \A j, k \in DOMAIN old : old[j].id = old[k].id => j = k
      <4>. SUFFICES ASSUME NEW j \in DOMAIN old, NEW k \in DOMAIN old, old[j].id = old[k].id PROVE j = k
        OBVIOUS
      <4>. DEFINE J == IF j < e THEN j ELSE j + 1
                  K == IF k < e THEN k ELSE k + 1
      <4>1. J \in DOMAIN patches /\ K \in DOMAIN patches /\ old[j] = patches[J] /\ old[k] = patches[K]
        <5>1. DOMAIN old = 1..(Len(patches) - 1) /\ DOMAIN patches = 1..Len(patches) /\ Len(patches) \in Nat
          BY <1>0, <3>4
        <5>2. ASSUME NEW x \in DOMAIN old PROVE (IF x < e THEN x ELSE x + 1) \in DOMAIN patches
          BY <3>3, <5>1
        <5>3. J \in DOMAIN patches /\ K \in DOMAIN patches
          BY <5>2
        <5>4. old[j] = patches[J] /\ old[k] = patches[K]
          BY <3>4, <5>1
        <5>. QED
          BY <5>3, <5>4
      <4>2. J = K
        BY <1>0, <4>1 DEF Patch!OwnIds
      <4>. QED
        BY <1>0, <3>3, <3>4, <4>2
    <3>8. ASSUME NEW i \in DOMAIN patches, ~Patch!Ended(patches[i]) PROVE \E j \in DOMAIN old : old[j] = patches[i]
      <4>1. i # e /\ i \in 1..Len(patches)
        BY <1>0, <3>3, <3>8
      <4>. DEFINE j == IF i < e THEN i ELSE i - 1
      <4>2. j \in 1..(Len(patches) - 1) /\ j \in DOMAIN old
        BY <1>0, <3>3, <3>4, <4>1
      <4>3. old[j] = patches[i]
        BY <1>0, <3>3, <3>4, <4>1, <4>2
      <4>. QED
        BY <4>2, <4>3
    <3>9. Len(old) + 1 <= MaxPatches
      BY <1>0, <3>4
    <3>. QED
      BY <3>4, <3>5, <3>6, <3>7, <3>8, <3>9
  <2>3. CASE ~(Len(patches) < MaxPatches) /\ Patch!Evictable(patches) = {}
    <3>1. patches' = patches
      BY <2>3 DEF Patch!ProposePatch
    <3>. QED
      BY <1>0, <3>1 DEF Patch!OwnIds
  <2>. QED
    BY <2>1, <2>2, <2>3
<1>3. PICK old \in Seq(Patch!Patch) :
         /\ patches' = Append(old, new) \/ (patches' = old /\ old = patches)
         /\ Len(old) + 1 <= MaxPatches \/ (patches' = old /\ old = patches)
         /\ \A j \in DOMAIN old : \E i \in DOMAIN patches : old[j] = patches[i]
         /\ \A j, k \in DOMAIN old : old[j].id = old[k].id => j = k
         /\ \A i \in DOMAIN patches : ~Patch!Ended(patches[i]) => \E j \in DOMAIN old : old[j] = patches[i]
  BY <1>2
<1>4. Patch!PatchTypes'
  <2>1. CASE patches' = Append(old, new) /\ Len(old) + 1 <= MaxPatches
    <3>1. Append(old, new) \in Seq(Patch!Patch) /\ Len(Append(old, new)) = Len(old) + 1
      BY <1>1
    <3>. QED
      BY <1>0, <2>1, <3>1 DEF Patch!PatchTypes
  <2>2. CASE patches' = patches
    BY <1>0, <2>2 DEF Patch!PatchTypes
  <2>. QED
    BY <1>3, <2>1, <2>2
<1>5. /\ \A j \in DOMAIN patches' : (j \in DOMAIN old /\ patches'[j] = old[j]) \/ (j = Len(old) + 1 /\ patches'[j] = new)
      /\ \A j \in DOMAIN old : j \in DOMAIN patches' /\ patches'[j] = old[j]
  <2>1. CASE patches' = Append(old, new)
    <3>1. /\ DOMAIN Append(old, new) = 1..(Len(old) + 1) /\ DOMAIN old = 1..Len(old) /\ Len(old) \in Nat
          /\ \A j \in 1..Len(old) : Append(old, new)[j] = old[j]
          /\ Append(old, new)[Len(old) + 1] = new
      BY <1>1
    <3>. QED
      BY <2>1, <3>1
  <2>2. CASE patches' = old
    BY <2>2
  <2>. QED
    BY <1>3, <2>1, <2>2
<1>6. \A i \in DOMAIN patches : patches[i].id < serial /\ patches[i].id \in Nat /\ Patch!Consented(patches[i])
  <2>1. \A i \in DOMAIN patches : patches[i] \in Patch!Patch
    BY <1>0
  <2>. QED
    BY <1>0, <2>1 DEF Patch!PatchInv, Patch!OwnIds, Patch!Patch
<1>7. Patch!OwnIds'
  <2>1. \A j \in DOMAIN old : old[j].id < serial /\ old[j].id \in Nat
    BY <1>3, <1>6
  <2>2. \A j \in DOMAIN patches' : patches'[j].id < serial'
    BY <1>0, <1>1, <1>5, <2>1
  <2>3. ASSUME NEW j \in DOMAIN patches', NEW k \in DOMAIN patches', patches'[j].id = patches'[k].id PROVE j = k
    BY <1>0, <1>1, <1>3, <1>5, <2>1, <2>3
  <2>. QED
    BY <2>2, <2>3 DEF Patch!OwnIds
<1>8. \A j \in DOMAIN patches' : Patch!Consented(patches[j])'
  BY <1>0, <1>1, <1>3, <1>5, <1>6 DEF Patch!Consented
<1>9. \A j \in DOMAIN patches' : patches'[j].id = serial \/ \E i \in DOMAIN patches : patches'[j] = patches[i]
  BY <1>1, <1>3, <1>5
<1>10. \A i \in DOMAIN patches : ~Patch!Ended(patches[i]) => \E j \in DOMAIN patches' : patches'[j] = patches[i]
  BY <1>3, <1>5
<1>. QED
  BY <1>4, <1>7, <1>8, <1>9, <1>10 DEF Patch!PatchInv

(* A decision, an outcome or an expiry changes patches where they are.       *)
LEMMA InPlaceStep ==
  ASSUME Patch!PatchInv, DOMAIN patches' = DOMAIN patches, patches' \in Seq(Patch!Patch), serial' = serial,
         byUser \subseteq byUser',
         \A i \in DOMAIN patches : /\ patches'[i].id = patches[i].id /\ patches'[i].kind = patches[i].kind
                                   /\ patches'[i].status = "approved" /\ patches[i].status # "approved" =>
                                        patches[i].id \in byUser'
  PROVE  Patch!PatchInv'
<1>1. patches \in Seq(Patch!Patch) /\ serial \in Nat /\ Len(patches) <= MaxPatches /\ Patch!OwnIds
  BY DEF Patch!PatchInv, Patch!PatchTypes
<1>2. Len(patches') = Len(patches)
  BY <1>1
<1>3. Patch!PatchTypes'
  BY <1>1, <1>2 DEF Patch!PatchTypes
<1>4. Patch!OwnIds'
  BY <1>1 DEF Patch!OwnIds
<1>5. ASSUME NEW i \in DOMAIN patches PROVE Patch!Consented(patches[i])'
  BY DEF Patch!Consented, Patch!PatchInv
<1>. QED
  BY <1>3, <1>4, <1>5 DEF Patch!PatchInv

LEMMA DecideStep ==
  ASSUME Patch!PatchInv, NEW i \in DOMAIN patches, NEW v \in {"approved", "rejected"}, Patch!Decide(i, v)
  PROVE  /\ Patch!PatchInv'
         /\ DOMAIN patches' = DOMAIN patches
         /\ \A j \in DOMAIN patches : /\ patches'[j].id = patches[j].id
                                      /\ Patch!Ended(patches[j]) => Patch!Ended(patches'[j])
<1>1. patches \in Seq(Patch!Patch)
  BY DEF Patch!PatchInv, Patch!PatchTypes
<1>2. /\ patches' = [patches EXCEPT ![i].status = v] /\ patches[i].status = "proposed" /\ UNCHANGED serial
      /\ byUser' = IF v = "approved" THEN byUser \cup {patches[i].id} ELSE byUser
  BY DEF Patch!Decide
<1>3. patches[i] \in Patch!Patch
  BY <1>1
<1>4. /\ [patches[i] EXCEPT !.status = v] \in Patch!Patch
      /\ [patches[i] EXCEPT !.status = v].id = patches[i].id
      /\ [patches[i] EXCEPT !.status = v].kind = patches[i].kind
  BY <1>3 DEF Patch!Patch
<1>5. /\ patches' \in Seq(Patch!Patch) /\ DOMAIN patches' = DOMAIN patches
      /\ patches'[i] = [patches[i] EXCEPT !.status = v]
      /\ \A j \in DOMAIN patches : j # i => patches'[j] = patches[j]
  BY <1>1, <1>2, <1>4
<1>6. \A j \in DOMAIN patches : /\ patches'[j].id = patches[j].id /\ patches'[j].kind = patches[j].kind
                                /\ patches'[j].status = "approved" /\ patches[j].status # "approved" =>
                                     patches[j].id \in byUser'
  <2>. SUFFICES ASSUME NEW j \in DOMAIN patches
                PROVE  /\ patches'[j].id = patches[j].id /\ patches'[j].kind = patches[j].kind
                       /\ patches'[j].status = "approved" /\ patches[j].status # "approved" =>
                            patches[j].id \in byUser'
    OBVIOUS
  <2>1. CASE j = i
    <3>1. patches'[i].status = v
      BY <1>3, <1>5 DEF Patch!Patch
    <3>. QED
      BY <1>2, <1>4, <1>5, <2>1, <3>1
  <2>2. CASE j # i
    BY <1>5, <2>2
  <2>. QED
    BY <2>1, <2>2
<1>7. Patch!PatchInv'
  BY <1>2, <1>5, <1>6, InPlaceStep
<1>8. \A j \in DOMAIN patches : Patch!Ended(patches[j]) => Patch!Ended(patches'[j])
  BY <1>2, <1>5 DEF Patch!Ended
<1>. QED
  BY <1>5, <1>6, <1>7, <1>8

LEMMA OutcomeStep ==
  ASSUME Patch!PatchInv, (\E s \in BOOLEAN : Patch!RecordTaskOutcome(s)) \/ Patch!ExpireUnderperforming(1)
  PROVE  /\ Patch!PatchInv'
         /\ DOMAIN patches' = DOMAIN patches
         /\ \A j \in DOMAIN patches : /\ patches'[j].id = patches[j].id
                                      /\ Patch!Ended(patches[j]) => Patch!Ended(patches'[j])
<1>1. patches \in Seq(Patch!Patch) /\ DOMAIN patches = 1..Len(patches) /\ Len(patches) \in Nat
  BY DEF Patch!PatchInv, Patch!PatchTypes
<1>2. \A i \in DOMAIN patches : patches[i] \in Patch!Patch
  BY <1>1
<1>3. /\ DOMAIN patches' = DOMAIN patches /\ UNCHANGED <<serial, byUser>>
      /\ \A i \in DOMAIN patches :
           /\ patches'[i] \in Patch!Patch /\ patches'[i].id = patches[i].id /\ patches'[i].kind = patches[i].kind
           /\ patches'[i].status = patches[i].status \/ (patches[i].status = "approved" /\ patches'[i].status = "expired")
      /\ \E g : patches' = [i \in DOMAIN patches |-> g[i]]
  <2>1. ASSUME NEW s \in BOOLEAN, Patch!RecordTaskOutcome(s)
        PROVE  /\ DOMAIN patches' = DOMAIN patches /\ UNCHANGED <<serial, byUser>>
               /\ \A i \in DOMAIN patches :
                    /\ patches'[i] \in Patch!Patch /\ patches'[i].id = patches[i].id /\ patches'[i].kind = patches[i].kind
                    /\ patches'[i].status = patches[i].status
               /\ \E g : patches' = [i \in DOMAIN patches |-> g[i]]
    <3>. DEFINE w == IF s THEN 1 ELSE 0
                g == [i \in DOMAIN patches |->
                       IF patches[i].id \in inUse /\ patches[i].status = "approved"
                       THEN [patches[i] EXCEPT !.applied = @ + 1, !.wins = @ + w]
                       ELSE patches[i]]
    <3>1. patches' = g /\ UNCHANGED <<serial, byUser>>
      BY <2>1 DEF Patch!RecordTaskOutcome
    <3>2. w \in Nat
      OBVIOUS
    <3>3. DOMAIN g = DOMAIN patches /\ g = [i \in DOMAIN patches |-> g[i]]
      OBVIOUS
    <3>4. \A i \in DOMAIN patches :
            g[i] = patches[i] \/ g[i] = [patches[i] EXCEPT !.applied = @ + 1, !.wins = @ + w]
      OBVIOUS
    <3>. HIDE DEF w, g
    <3>5. \A i \in DOMAIN patches : /\ g[i] \in Patch!Patch /\ g[i].id = patches[i].id /\ g[i].kind = patches[i].kind
                                    /\ g[i].status = patches[i].status
      <4>. SUFFICES ASSUME NEW i \in DOMAIN patches
                    PROVE  /\ g[i] \in Patch!Patch /\ g[i].id = patches[i].id /\ g[i].kind = patches[i].kind
                           /\ g[i].status = patches[i].status
        OBVIOUS
      <4>1. patches[i] \in Patch!Patch
        BY <1>2
      <4>2. CASE g[i] = patches[i]
        BY <4>1, <4>2
      <4>3. CASE g[i] = [patches[i] EXCEPT !.applied = @ + 1, !.wins = @ + w]
        <5>. DEFINE r == patches[i]
        <5>0. /\ r.id \in Nat /\ r.applied \in Nat /\ r.wins \in Nat
              /\ r = [id |-> r.id, kind |-> r.kind, conf |-> r.conf,
                      applied |-> r.applied, wins |-> r.wins, status |-> r.status]
          BY <4>1 DEF Patch!Patch
        <5>1. g[i] = [id |-> r.id, kind |-> r.kind, conf |-> r.conf,
                      applied |-> r.applied + 1, wins |-> r.wins + w, status |-> r.status]
          BY <4>1, <4>3 DEF Patch!Patch
        <5>2. r.applied + 1 \in Nat /\ r.wins + w \in Nat
          BY <5>0, <3>2
        <5>3. g[i].id = r.id /\ g[i].kind = r.kind /\ g[i].status = r.status
          BY <5>1
        <5>4. g[i] \in Patch!Patch
          BY <4>1, <5>1, <5>2 DEF Patch!Patch
        <5>. QED
          BY <5>3, <5>4
      <4>. QED
        BY <4>2, <4>3, <3>4
    <3>. QED
      BY <3>1, <3>3, <3>5
  <2>2. ASSUME Patch!ExpireUnderperforming(1)
        PROVE  /\ DOMAIN patches' = DOMAIN patches /\ UNCHANGED <<serial, byUser>>
               /\ \A i \in DOMAIN patches :
                    /\ patches'[i] \in Patch!Patch /\ patches'[i].id = patches[i].id /\ patches'[i].kind = patches[i].kind
                    /\ patches'[i].status = patches[i].status \/ (patches[i].status = "approved" /\ patches'[i].status = "expired")
               /\ \E g : patches' = [i \in DOMAIN patches |-> g[i]]
    <3>. DEFINE g == [i \in DOMAIN patches |->
                       IF /\ patches[i].status = "approved"
                          /\ patches[i].applied >= 1
                          /\ 2 * patches[i].wins < patches[i].applied
                       THEN [patches[i] EXCEPT !.status = "expired"]
                       ELSE patches[i]]
    <3>1. patches' = g /\ UNCHANGED <<serial, byUser>>
      BY <2>2 DEF Patch!ExpireUnderperforming
    <3>2. \A i \in DOMAIN patches :
            /\ g[i] \in Patch!Patch /\ g[i].id = patches[i].id /\ g[i].kind = patches[i].kind
            /\ g[i].status = patches[i].status \/ (patches[i].status = "approved" /\ g[i].status = "expired")
      BY <1>2 DEF Patch!Patch
    <3>3. g = [i \in DOMAIN patches |-> g[i]] /\ DOMAIN g = DOMAIN patches
      OBVIOUS
    <3>. HIDE DEF g
    <3>. QED
      BY <3>1, <3>2, <3>3
  <2>. QED
    BY <2>1, <2>2
<1>4. patches' \in Seq(Patch!Patch)
  <2>1. PICK g : patches' = [i \in 1..Len(patches) |-> g[i]]
    BY <1>1, <1>3
  <2>2. \A i \in 1..Len(patches) : g[i] \in Patch!Patch
    BY <1>1, <1>3, <2>1
  <2>. QED
    BY <1>1, <2>1, <2>2
<1>5. Patch!PatchInv'
  BY <1>3, <1>4, InPlaceStep
<1>6. \A j \in DOMAIN patches : Patch!Ended(patches[j]) => Patch!Ended(patches'[j])
  BY <1>3 DEF Patch!Ended
<1>. QED
  BY <1>3, <1>5, <1>6

(* The steps of a patch manager, and what they do to each patch.             *)
LEMMA PatchKeeps ==
  ASSUME PatchAssume, Patch!PatchInv, Patch!Next
  PROVE  /\ Patch!PatchInv'
         /\ \A i \in DOMAIN patches :
              /\ Patch!Ended(patches[i]) => \A j \in DOMAIN patches' : patches'[j].id = patches[i].id => Patch!Ended(patches'[j])
              /\ ~Patch!Ended(patches[i]) => \E j \in DOMAIN patches' : patches'[j].id = patches[i].id
<1>0. Patch!OwnIds /\ serial \in Nat
  BY DEF Patch!PatchInv, Patch!PatchTypes
<1>1. ASSUME NEW trace \in Traces, NEW k \in DOMAIN Patch!ExtractPromptPatches(trace),
             Patch!ProposePatch(Patch!ExtractPromptPatches(trace)[k])
      PROVE  /\ Patch!PatchInv'
             /\ \A i \in DOMAIN patches :
                  /\ Patch!Ended(patches[i]) => \A j \in DOMAIN patches' : patches'[j].id = patches[i].id => Patch!Ended(patches'[j])
                  /\ ~Patch!Ended(patches[i]) => \E j \in DOMAIN patches' : patches'[j].id = patches[i].id
  <2>1. Patch!ExtractPromptPatches(trace)[k] \in Patch!Proposal
    BY ExtractIs
  <2>2. /\ Patch!PatchInv'
        /\ \A i \in DOMAIN patches : ~Patch!Ended(patches[i]) => \E j \in DOMAIN patches' : patches'[j] = patches[i]
        /\ \A j \in DOMAIN patches' : patches'[j].id = serial \/ \E i \in DOMAIN patches : patches'[j] = patches[i]
    BY <1>1, <2>1, ProposalStep
  <2>3. ASSUME NEW i \in DOMAIN patches, Patch!Ended(patches[i]), NEW j \in DOMAIN patches', patches'[j].id = patches[i].id
        PROVE  Patch!Ended(patches'[j])
    <3>1. patches[i].id # serial
      BY <1>0 DEF Patch!OwnIds, Patch!PatchInv, Patch!PatchTypes, Patch!Patch
    <3>2. PICK h \in DOMAIN patches : patches'[j] = patches[h]
      BY <2>2, <2>3, <3>1
    <3>3. h = i
      BY <1>0, <2>3, <3>2 DEF Patch!OwnIds
    <3>. QED
      BY <2>3, <3>2, <3>3
  <2>. QED
    BY <2>2, <2>3
<1>2. ASSUME Patch!PatchInv', DOMAIN patches' = DOMAIN patches,
             \A j \in DOMAIN patches : /\ patches'[j].id = patches[j].id
                                       /\ Patch!Ended(patches[j]) => Patch!Ended(patches'[j])
      PROVE  \A i \in DOMAIN patches :
                  /\ Patch!Ended(patches[i]) => \A j \in DOMAIN patches' : patches'[j].id = patches[i].id => Patch!Ended(patches'[j])
                  /\ ~Patch!Ended(patches[i]) => \E j \in DOMAIN patches' : patches'[j].id = patches[i].id
  BY <1>0, <1>2 DEF Patch!OwnIds
<1>3. CASE Patch!BeginTask
  <2>1. UNCHANGED <<patches, serial, byUser>>
    BY <1>3 DEF Patch!BeginTask
  <2>2. Patch!PatchInv'
    BY <2>1 DEF Patch!PatchInv, Patch!PatchTypes, Patch!OwnIds, Patch!Consented
  <2>. QED
    BY <1>2, <2>1, <2>2
<1>4. ASSUME NEW i \in DOMAIN patches, NEW v \in {"approved", "rejected"}, Patch!Decide(i, v)
      PROVE  /\ Patch!PatchInv'
             /\ DOMAIN patches' = DOMAIN patches
             /\ \A j \in DOMAIN patches : /\ patches'[j].id = patches[j].id
                                          /\ Patch!Ended(patches[j]) => Patch!Ended(patches'[j])
  BY <1>4, DecideStep
<1>5. CASE (\E s \in BOOLEAN : Patch!RecordTaskOutcome(s)) \/ Patch!ExpireUnderperforming(1)
  BY <1>2, <1>5, OutcomeStep
<1>. QED
  BY <1>1, <1>2, <1>3, <1>4, <1>5 DEF Patch!Next

LEMMA PatchInvariant ==
  ASSUME PatchAssume
  PROVE  Patch!Spec => []Patch!PatchInv
<1>1. Patch!Init => Patch!PatchInv
  BY DEF Patch!Init, Patch!PatchInv, Patch!PatchTypes, Patch!OwnIds, PatchAssume
<1>2. Patch!PatchInv /\ [Patch!Next]_Patch!patchVars => Patch!PatchInv'
  <2>. SUFFICES ASSUME Patch!PatchInv, [Patch!Next]_Patch!patchVars PROVE Patch!PatchInv'
    OBVIOUS
  <2>1. CASE UNCHANGED Patch!patchVars
    BY <2>1 DEF Patch!patchVars, Patch!PatchInv, Patch!PatchTypes, Patch!OwnIds, Patch!Consented
  <2>. QED
    BY <2>1, PatchKeeps
<1>. QED
  BY <1>1, <1>2, PTL DEF Patch!Spec

LEMMA PatchFollows ==
  ASSUME Patch!PatchInv
  PROVE  Patch!TypeOK /\ Patch!RiskyNeedsUser
<1>1. patches \in Seq(Patch!Patch) /\ Patch!OwnIds
  BY DEF Patch!PatchInv, Patch!PatchTypes
<1>2. \A i \in DOMAIN patches : patches[i] \in Patch!Patch
  BY <1>1
<1>3. Patch!TypeOK
  BY <1>1, <1>2 DEF Patch!PatchInv, Patch!PatchTypes, Patch!TypeOK, Patch!Patch
<1>4. Patch!RiskyNeedsUser
  BY <1>1 DEF Patch!RiskyNeedsUser, Patch!ActivePatches, Patch!OwnIds, Patch!PatchInv, Patch!Consented
<1>. QED
  BY <1>3, <1>4

LEMMA EndsAreFinal ==
  ASSUME PatchAssume
  PROVE  Patch!Spec => Patch!EndedStaysEnded
<1>. DEFINE Stays == \A i \in DOMAIN patches :
                       /\ Patch!Ended(patches[i]) =>
                            \A j \in DOMAIN patches' : patches'[j].id = patches[i].id => Patch!Ended(patches'[j])
                       /\ ~Patch!Ended(patches[i]) =>
                            \E j \in DOMAIN patches' : patches'[j].id = patches[i].id
<1>1. Patch!PatchInv /\ [Patch!Next]_Patch!patchVars => [Stays]_Patch!patchVars
  BY PatchKeeps
<1>. QED
  BY <1>1, PatchInvariant, PTL DEF Patch!Spec, Patch!EndedStaysEnded

-----------------------------------------------------------------------------
(* DelegationManager.                                                        *)

(* The refused callers after one of them joined, left, or none did.        *)
LEMMA RefusedCount ==
  ASSUME IsFiniteSet(Callers), NEW c \in Callers,
         \A d \in Callers : d # c => callerPc'[d] = callerPc[d]
  PROVE  /\ Cardinality(Delegate!Refused) \in Nat
         /\ Delegate!Refused # {} => Cardinality(Delegate!Refused) > 0
         /\ Delegate!Refused = {} => Cardinality(Delegate!Refused) = 0
         /\ callerPc'[c] = "rollback" /\ callerPc[c] # "rollback" => Cardinality(Delegate!Refused') = Cardinality(Delegate!Refused) + 1
         /\ callerPc'[c] # "rollback" /\ callerPc[c] = "rollback" => Cardinality(Delegate!Refused') = Cardinality(Delegate!Refused) - 1
         /\ callerPc'[c] # "rollback" /\ callerPc[c] # "rollback" => Delegate!Refused' = Delegate!Refused
<1>1. IsFiniteSet(Delegate!Refused)
  <2>1. Delegate!Refused \subseteq Callers
    BY DEF Delegate!Refused
  <2>. QED
    BY <2>1, FS_Subset
<1>2. Cardinality(Delegate!Refused) \in Nat
  BY <1>1, FS_CardinalityType
<1>3. Cardinality(Delegate!Refused) = 0 <=> Delegate!Refused = {}
  BY <1>1, FS_EmptySet
<1>4. callerPc'[c] = "rollback" /\ callerPc[c] # "rollback" => Delegate!Refused' = Delegate!Refused \cup {c} /\ c \notin Delegate!Refused
  BY DEF Delegate!Refused
<1>5. callerPc'[c] # "rollback" /\ callerPc[c] = "rollback" => Delegate!Refused' = Delegate!Refused \ {c} /\ c \in Delegate!Refused
  BY DEF Delegate!Refused
<1>6. callerPc'[c] # "rollback" /\ callerPc[c] # "rollback" => Delegate!Refused' = Delegate!Refused
  BY DEF Delegate!Refused
<1>7. c \notin Delegate!Refused => Cardinality(Delegate!Refused \cup {c}) = Cardinality(Delegate!Refused) + 1
  BY <1>1, FS_AddElement
<1>8. c \in Delegate!Refused => Cardinality(Delegate!Refused \ {c}) = Cardinality(Delegate!Refused) - 1
  BY <1>1, FS_RemoveElement
<1>9. (Delegate!Refused # {} => Cardinality(Delegate!Refused) > 0) /\ (Delegate!Refused = {} => Cardinality(Delegate!Refused) = 0)
  BY <1>2, <1>3
<1>10. callerPc'[c] = "rollback" /\ callerPc[c] # "rollback" => Cardinality(Delegate!Refused') = Cardinality(Delegate!Refused) + 1
  BY <1>4, <1>7
<1>11. callerPc'[c] # "rollback" /\ callerPc[c] = "rollback" => Cardinality(Delegate!Refused') = Cardinality(Delegate!Refused) - 1
  BY <1>5, <1>8
<1>. QED
  BY <1>2, <1>6, <1>9, <1>10, <1>11

(* A plan has at least one part and gives out available tools only.        *)
LEMMA PlanParts ==
  ASSUME NEW t \in Delegate!Task, MaxParts \in Nat
  PROVE  /\ Delegate!SplitTask(t) \in Nat /\ Delegate!SplitTask(t) >= 1
         /\ \A hits : Delegate!AssignTools(hits, AgentTools) \in SUBSET AgentTools
<1>1. /\ t.numbered \in Nat /\ t.semi \in Nat /\ t.next \in Nat /\ t.conj \in Nat
  BY DEF Delegate!Task
<1>2. Delegate!SplitTask(t) \in Nat /\ Delegate!SplitTask(t) >= 1
  BY <1>1 DEF Delegate!SplitTask
<1>3. \A hits : Delegate!AssignTools(hits, AgentTools) \in SUBSET AgentTools
  BY DEF Delegate!AssignTools
<1>. QED
  BY <1>2, <1>3

(* What a report adds to the results.                                      *)
LEMMA OneMore ==
  ASSUME NEW s \in Seq(Delegate!Report), NEW r \in Delegate!Report
  PROVE  /\ Append(s, r) \in Seq(Delegate!Report) /\ DOMAIN s = 1..Len(s) /\ Len(s) \in Nat
         /\ DOMAIN Append(s, r) = DOMAIN s \cup {Len(s) + 1} /\ Len(s) + 1 \notin DOMAIN s
         /\ \A i \in DOMAIN s : Append(s, r)[i] = s[i] /\ s[i] \in Delegate!Report
         /\ Append(s, r)[Len(s) + 1] = r
OBVIOUS

(* The start.                                                              *)
LEMMA InitDelegation ==
  ASSUME Delegate!Init, MaxTotal \in Nat
  PROVE  Delegate!DelegationInv
<1>1. Delegate!DelegationTypes
  BY DEF Delegate!Init, Delegate!DelegationTypes, Delegate!Steps, Delegate!Statuses
<1>2. Delegate!Refused = {} /\ Cardinality({}) = 0
  BY FS_EmptySet DEF Delegate!Init, Delegate!Refused
<1>3. Delegate!Counted
  BY DelegateOps, <1>2 DEF Delegate!Init, Delegate!Counted
<1>4. Delegate!Planned /\ Delegate!Reported /\ Delegate!Distinct
  BY DEF Delegate!Init, Delegate!Planned, Delegate!Reported, Delegate!Distinct
<1>. QED
  BY <1>1, <1>3, <1>4 DEF Delegate!DelegationInv

(* A caller plans.                                                         *)
LEMMA PlanKeeps ==
  ASSUME Delegate!DelegationInv, MaxTotal \in Nat, MaxParts \in Nat, IsFiniteSet(Callers),
         NEW c \in Callers, NEW t \in Delegate!Task, Delegate!PlanDelegation(c, t)
  PROVE  Delegate!DelegationInv'
<1>0. Delegate!DelegationTypes /\ Delegate!Counted /\ Delegate!Planned /\ Delegate!Reported /\ Delegate!Distinct
  BY DEF Delegate!DelegationInv
<1>1. callerPc[c] = "idle" /\ UNCHANGED <<spawned, granted, agentStatus, ends, agentResults>>
  BY DEF Delegate!PlanDelegation
<1>2. /\ callerPc'[c] \in {"refused", "add"} /\ callerPc' \in [Callers -> Delegate!Steps]
      /\ \A d \in Callers : d # c => callerPc'[d] = callerPc[d]
  BY <1>0 DEF Delegate!PlanDelegation, Delegate!DelegationTypes, Delegate!Steps
<1>3. Delegate!Counted'
  <2>1. Delegate!Refused' = Delegate!Refused
    BY <1>1, <1>2, RefusedCount
  <2>. QED
    BY <1>0, <1>1, <2>1 DEF Delegate!Counted
<1>4. /\ plan' \in [Callers -> Seq(SUBSET AgentTools)]
      /\ \A d \in Callers : d # c => plan'[d] = plan[d]
      /\ callerPc'[c] = "add" => plan'[c] # <<>>
  <2>1. CASE t.empty \/ Delegate!Remaining = 0
    BY <1>0, <2>1 DEF Delegate!PlanDelegation, Delegate!DelegationTypes
  <2>2. CASE ~(t.empty \/ Delegate!Remaining = 0)
    <3>. DEFINE parts == IF Delegate!SplitTask(t) > Delegate!Remaining THEN Delegate!Remaining ELSE Delegate!SplitTask(t)
    <3>1. Delegate!Remaining \in Nat /\ Delegate!Remaining # 0
      BY <1>0, <2>2 DEF Delegate!Remaining, Delegate!DelegationTypes
    <3>2. parts \in Nat /\ parts >= 1
      BY <3>1, PlanParts
    <3>3. PICK hits \in SUBSET Keywords :
            plan' = [plan EXCEPT ![c] = [i \in 1..parts |-> Delegate!AssignTools(hits, AgentTools)]]
      BY <2>2 DEF Delegate!PlanDelegation
    <3>. HIDE DEF parts
    <3>. DEFINE p == [i \in 1..parts |-> Delegate!AssignTools(hits, AgentTools)]
    <3>4. p \in Seq(SUBSET AgentTools) /\ p # <<>>
      <4>1. Delegate!AssignTools(hits, AgentTools) \in SUBSET AgentTools
        BY PlanParts
      <4>2. p \in [1..parts -> SUBSET AgentTools]
        BY <4>1
      <4>3. p \in Seq(SUBSET AgentTools) /\ Len(p) = parts
        BY <3>2, <4>2
      <4>. QED
        BY <3>2, <4>3
    <3>. HIDE DEF p
    <3>5. plan' = [plan EXCEPT ![c] = p]
      BY <3>3 DEF p
    <3>. QED
      BY <1>0, <3>4, <3>5 DEF Delegate!DelegationTypes
  <2>. QED
    BY <2>1, <2>2
<1>5. Delegate!DelegationTypes'
  BY <1>0, <1>1, <1>2, <1>4 DEF Delegate!DelegationTypes
<1>6. Delegate!Planned'
  BY <1>0, <1>2, <1>4 DEF Delegate!Planned
<1>7. \A i \in DOMAIN agentResults : agentResults[i].of[1] # c /\ agentResults[i].of[1] \in Callers
  <2>1. \A i \in DOMAIN agentResults : agentResults[i] \in Delegate!Report
    BY <1>0 DEF Delegate!DelegationTypes
  <2>. QED
    BY <1>0, <1>1, <2>1 DEF Delegate!Reported, Delegate!Report
<1>8. Delegate!Reported' /\ Delegate!Distinct'
  BY <1>0, <1>1, <1>2, <1>4, <1>7 DEF Delegate!Reported, Delegate!Distinct
<1>. QED
  BY <1>3, <1>5, <1>6, <1>8 DEF Delegate!DelegationInv

(* A caller registers an agent, or takes its increment back.               *)
LEMMA RegisterKeeps ==
  ASSUME Delegate!DelegationInv, MaxTotal \in Nat, IsFiniteSet(Callers), NEW c \in Callers,
         Delegate!RegisterSpawn(c) \/ Delegate!Rollback(c)
  PROVE  Delegate!DelegationInv'
<1>0. Delegate!DelegationTypes /\ Delegate!Counted /\ Delegate!Planned /\ Delegate!Reported /\ Delegate!Distinct
  BY DEF Delegate!DelegationInv
<1>1. callerPc[c] \in {"add", "rollback"} /\ UNCHANGED <<plan, agentResults>>
  BY DEF Delegate!RegisterSpawn, Delegate!Rollback
<1>2. /\ callerPc' \in [Callers -> Delegate!Steps] /\ agentStatus' \in [Callers -> Delegate!Statuses]
      /\ \A d \in Callers : d # c => callerPc'[d] = callerPc[d] /\ agentStatus'[d] = agentStatus[d]
      /\ callerPc'[c] \in {"rollback", "run", "refused"} /\ (callerPc'[c] = "run" => callerPc[c] = "add")
  BY <1>0, <1>1 DEF Delegate!RegisterSpawn, Delegate!Rollback, Delegate!DelegationTypes, Delegate!Steps, Delegate!Statuses
<1>3. /\ spawned \in Nat /\ granted \in Nat /\ spawned = granted + Cardinality(Delegate!Refused)
      /\ granted <= MaxTotal /\ (Delegate!Refused # {} => granted = MaxTotal)
  BY DelegateOps, <1>0 DEF Delegate!DelegationTypes, Delegate!Counted
<1>4. /\ Cardinality(Delegate!Refused) \in Nat
      /\ Delegate!Refused # {} => Cardinality(Delegate!Refused) > 0
      /\ Delegate!Refused = {} => Cardinality(Delegate!Refused) = 0
  BY <1>2, RefusedCount
<1>5. Delegate!Counted' /\ spawned' \in Nat /\ granted' \in Nat
  <2>1. CASE Delegate!RegisterSpawn(c) /\ spawned >= MaxTotal
    <3>1. /\ spawned' = spawned + 1 /\ granted' = granted
          /\ callerPc'[c] = "rollback" /\ callerPc[c] # "rollback"
      BY <1>0, <2>1 DEF Delegate!RegisterSpawn, Delegate!DelegationTypes
    <3>2. Cardinality(Delegate!Refused') = Cardinality(Delegate!Refused) + 1
      BY <1>2, <3>1, RefusedCount
    <3>3. granted = MaxTotal
      BY <1>3, <1>4, <2>1
    <3>. QED
      BY DelegateOps, <1>3, <1>4, <3>1, <3>2, <3>3 DEF Delegate!Counted
  <2>2. CASE Delegate!RegisterSpawn(c) /\ ~(spawned >= MaxTotal)
    <3>1. /\ spawned' = spawned + 1 /\ granted' = granted + 1
          /\ callerPc'[c] # "rollback" /\ callerPc[c] # "rollback"
      BY <1>0, <2>2 DEF Delegate!RegisterSpawn, Delegate!DelegationTypes
    <3>2. Delegate!Refused' = Delegate!Refused
      BY <1>2, <3>1, RefusedCount
    <3>3. Delegate!Refused = {} /\ granted < MaxTotal
      BY <1>3, <1>4, <2>2
    <3>. QED
      BY DelegateOps, <1>3, <1>4, <3>1, <3>2, <3>3 DEF Delegate!Counted
  <2>3. CASE Delegate!Rollback(c)
    <3>1. /\ spawned' = spawned - 1 /\ granted' = granted
          /\ callerPc'[c] # "rollback" /\ callerPc[c] = "rollback"
      BY <1>0, <2>3 DEF Delegate!Rollback, Delegate!DelegationTypes
    <3>2. Cardinality(Delegate!Refused') = Cardinality(Delegate!Refused) - 1
      BY <1>2, <3>1, RefusedCount
    <3>3. c \in Delegate!Refused
      BY <3>1 DEF Delegate!Refused
    <3>4. granted = MaxTotal /\ Cardinality(Delegate!Refused) > 0
      BY <1>3, <1>4, <3>3
    <3>. QED
      BY DelegateOps, <1>3, <1>4, <3>1, <3>2, <3>4 DEF Delegate!Counted
  <2>. QED
    BY <2>1, <2>2, <2>3
<1>6. Delegate!DelegationTypes' /\ Delegate!Planned' /\ Delegate!Distinct'
  BY <1>0, <1>1, <1>2, <1>5 DEF Delegate!DelegationTypes, Delegate!Planned, Delegate!Distinct
<1>7. Delegate!Reported'
  <2>1. \A i \in DOMAIN agentResults : agentResults[i].of[1] \in Callers
    <3>1. \A i \in DOMAIN agentResults : agentResults[i] \in Delegate!Report
      BY <1>0 DEF Delegate!DelegationTypes
    <3>. QED
      BY <3>1 DEF Delegate!Report
  <2>. QED
    BY <1>0, <1>1, <1>2, <2>1 DEF Delegate!Reported
<1>. QED
  BY <1>5, <1>6, <1>7 DEF Delegate!DelegationInv

(* The agent or its timer ends; whoever is first reports.                  *)
LEMMA EndKeeps ==
  ASSUME Delegate!DelegationInv, NEW c \in Callers, NEW o \in Delegate!Ends, NEW who \in {"agent", "timer"},
         callerPc[c] = "run", ends' = [ends EXCEPT ![c] = @ \ {who}],
         IF Delegate!MayEnd(c)
         THEN /\ agentStatus' = [agentStatus EXCEPT ![c] = o]
              /\ agentResults' = Append(agentResults, [of |-> <<c, Len(plan[c])>>, status |-> o])
         ELSE UNCHANGED <<agentStatus, agentResults>>,
         UNCHANGED <<spawned, granted, callerPc, plan>>
  PROVE  Delegate!DelegationInv'
<1>0. Delegate!DelegationTypes /\ Delegate!Counted /\ Delegate!Planned /\ Delegate!Reported /\ Delegate!Distinct
  BY DEF Delegate!DelegationInv
<1>1. Delegate!Refused' = Delegate!Refused /\ Delegate!Counted' /\ Delegate!Planned'
  BY <1>0 DEF Delegate!Refused, Delegate!Counted, Delegate!Planned
<1>2. CASE ~Delegate!MayEnd(c)
  BY <1>0, <1>1, <1>2 DEF Delegate!DelegationInv, Delegate!DelegationTypes, Delegate!Reported, Delegate!Distinct
<1>3. CASE Delegate!MayEnd(c)
  <2>. DEFINE r == [of |-> <<c, Len(plan[c])>>, status |-> o]
  <2>1. /\ agentStatus' = [agentStatus EXCEPT ![c] = o] /\ agentResults' = Append(agentResults, r)
        /\ agentStatus[c] = "running"
    BY <1>3 DEF Delegate!MayEnd
  <2>2. Len(plan[c]) \in Nat
    BY <1>0 DEF Delegate!DelegationTypes
  <2>3. r \in Delegate!Report /\ r.of = <<c, Len(plan[c])>> /\ r.status = o
    BY <2>2 DEF Delegate!Report
  <2>4. r.of[1] = c /\ r.of[2] = Len(plan[c])
    BY <2>3
  <2>. HIDE DEF r
  <2>5. agentResults \in Seq(Delegate!Report)
    BY <1>0 DEF Delegate!DelegationTypes
  <2>6. /\ agentResults' \in Seq(Delegate!Report)
        /\ DOMAIN agentResults' = DOMAIN agentResults \cup {Len(agentResults) + 1}
        /\ Len(agentResults) + 1 \notin DOMAIN agentResults
        /\ \A i \in DOMAIN agentResults : agentResults'[i] = agentResults[i] /\ agentResults[i] \in Delegate!Report
        /\ agentResults'[Len(agentResults) + 1] = r
    BY <2>1, <2>3, <2>5, OneMore
  <2>7. /\ agentStatus'[c] = o /\ \A d \in Callers : d # c => agentStatus'[d] = agentStatus[d]
        /\ agentStatus' \in [Callers -> Delegate!Statuses]
    BY <1>0, <2>1 DEF Delegate!DelegationTypes, Delegate!Statuses, Delegate!Ends
  <2>8. Delegate!DelegationTypes'
    BY <1>0, <2>6, <2>7 DEF Delegate!DelegationTypes
  <2>9. \A i \in DOMAIN agentResults : /\ agentResults[i].of \in Callers \X Nat /\ agentResults[i].status # "running"
                                       /\ agentResults[i].of # <<c, Len(plan[c])>>
    <3>1. ASSUME NEW i \in DOMAIN agentResults
          PROVE  agentResults[i].of \in Callers \X Nat /\ agentResults[i].status # "running"
      BY <2>6 DEF Delegate!Report, Delegate!Ends
    <3>2. ASSUME NEW i \in DOMAIN agentResults, agentResults[i].of = <<c, Len(plan[c])>> PROVE FALSE
      <4>1. agentResults[i].of[1] = c /\ agentResults[i].of[2] = Len(plan[c])
        BY <3>2
      <4>2. agentStatus[c] = agentResults[i].status
        BY <1>0, <4>1 DEF Delegate!Reported
      <4>. QED
        BY <2>1, <3>1, <4>2
    <3>. QED
      BY <3>1, <3>2
  <2>10. Delegate!Distinct'
    <3>1. ASSUME NEW i \in DOMAIN agentResults', NEW j \in DOMAIN agentResults', agentResults'[i].of = agentResults'[j].of
          PROVE  i = j
      <4>1. CASE i \in DOMAIN agentResults /\ j \in DOMAIN agentResults
        BY <1>0, <2>6, <3>1, <4>1 DEF Delegate!Distinct
      <4>2. CASE i = Len(agentResults) + 1 /\ j = Len(agentResults) + 1
        BY <4>2
      <4>3. CASE i \in DOMAIN agentResults /\ j = Len(agentResults) + 1
        BY <2>3, <2>6, <2>9, <3>1, <4>3
      <4>4. CASE i = Len(agentResults) + 1 /\ j \in DOMAIN agentResults
        BY <2>3, <2>6, <2>9, <3>1, <4>4
      <4>. QED
        BY <2>6, <4>1, <4>2, <4>3, <4>4
    <3>. QED
      BY <3>1 DEF Delegate!Distinct
  <2>11. Delegate!Reported'
    <3>1. ASSUME NEW i \in DOMAIN agentResults
          PROVE  LET d == agentResults[i].of[1]
                     n == agentResults[i].of[2]
                 IN /\ callerPc[d] # "idle" /\ n >= Len(plan[d])
                    /\ n = Len(plan[d]) => callerPc[d] = "run" /\ agentStatus'[d] = agentResults[i].status
      <4>1. agentResults[i].of \in Callers \X Nat
        BY <2>9
      <4>2. agentResults[i].of[1] \in Callers /\ agentResults[i].of = <<agentResults[i].of[1], agentResults[i].of[2]>>
        BY <4>1
      <4>3. agentResults[i].of[1] = c => agentResults[i].of[2] # Len(plan[c])
        BY <2>9, <4>2
      <4>. QED
        BY <1>0, <2>7, <4>2, <4>3 DEF Delegate!Reported
    <3>2. callerPc[c] # "idle" /\ Len(plan[c]) >= Len(plan[c])
      BY <2>2
    <3>3. ASSUME NEW i \in DOMAIN agentResults'
          PROVE  LET d == agentResults'[i].of[1]
                     n == agentResults'[i].of[2]
                 IN /\ callerPc'[d] # "idle" /\ n >= Len(plan'[d])
                    /\ n = Len(plan'[d]) => callerPc'[d] = "run" /\ agentStatus'[d] = agentResults'[i].status
      <4>1. CASE i \in DOMAIN agentResults
        BY <2>6, <3>1, <4>1
      <4>2. CASE i = Len(agentResults) + 1
        BY <2>3, <2>4, <2>6, <2>7, <3>2, <4>2
      <4>. QED
        BY <2>6, <4>1, <4>2
    <3>. QED
      BY <3>3 DEF Delegate!Reported
  <2>. QED
    BY <1>1, <2>8, <2>10, <2>11 DEF Delegate!DelegationInv
<1>. QED
  BY <1>2, <1>3

(* The caller goes on.                                                     *)
LEMMA NextAgentKeeps ==
  ASSUME Delegate!DelegationInv, IsFiniteSet(Callers), NEW c \in Callers, Delegate!NextAgent(c)
  PROVE  Delegate!DelegationInv'
<1>0. Delegate!DelegationTypes /\ Delegate!Counted /\ Delegate!Planned /\ Delegate!Reported /\ Delegate!Distinct
  BY DEF Delegate!DelegationInv
<1>1. callerPc[c] = "run" /\ UNCHANGED <<spawned, granted, ends, agentResults>>
  BY DEF Delegate!NextAgent
<1>2. plan[c] \in Seq(SUBSET AgentTools) /\ plan[c] # <<>>
  BY <1>0, <1>1 DEF Delegate!DelegationTypes, Delegate!Planned
<1>3. Tail(plan[c]) \in Seq(SUBSET AgentTools) /\ Len(Tail(plan[c])) = Len(plan[c]) - 1 /\ Len(plan[c]) \in Nat
  BY <1>2
<1>4. /\ plan' = [plan EXCEPT ![c] = Tail(plan[c])] /\ plan'[c] = Tail(plan[c])
      /\ \A d \in Callers : d # c => plan'[d] = plan[d]
      /\ plan' \in [Callers -> Seq(SUBSET AgentTools)]
  BY <1>0, <1>3 DEF Delegate!NextAgent, Delegate!DelegationTypes
<1>5. /\ callerPc'[c] \in {"done", "add"} /\ (callerPc'[c] = "add" => plan'[c] # <<>>)
      /\ callerPc' \in [Callers -> Delegate!Steps]
      /\ \A d \in Callers : d # c => callerPc'[d] = callerPc[d]
  BY <1>0, <1>4 DEF Delegate!NextAgent, Delegate!DelegationTypes, Delegate!Steps
<1>6. agentStatus' \in [Callers -> Delegate!Statuses] /\ \A d \in Callers : d # c => agentStatus'[d] = agentStatus[d]
  BY <1>0 DEF Delegate!NextAgent, Delegate!DelegationTypes, Delegate!Statuses
<1>7. Delegate!Counted'
  <2>1. Delegate!Refused' = Delegate!Refused
    BY <1>1, <1>5, RefusedCount
  <2>. QED
    BY <1>0, <1>1, <2>1 DEF Delegate!Counted
<1>8. Delegate!DelegationTypes' /\ Delegate!Planned' /\ Delegate!Distinct'
  BY <1>0, <1>1, <1>4, <1>5, <1>6 DEF Delegate!DelegationTypes, Delegate!Planned, Delegate!Distinct
<1>9. Delegate!Reported'
  <2>1. ASSUME NEW i \in DOMAIN agentResults
        PROVE  LET d == agentResults[i].of[1]
                   n == agentResults[i].of[2]
               IN /\ callerPc'[d] # "idle" /\ n >= Len(plan'[d])
                  /\ n = Len(plan'[d]) => callerPc'[d] = "run" /\ agentStatus'[d] = agentResults[i].status
    <3>1. agentResults[i].of[1] \in Callers /\ agentResults[i].of[2] \in Nat
      <4>1. agentResults[i] \in Delegate!Report
        BY <1>0 DEF Delegate!DelegationTypes
      <4>. QED
        BY <4>1 DEF Delegate!Report
    <3>2. CASE agentResults[i].of[1] = c
      <4>1. agentResults[i].of[2] >= Len(plan[c])
        BY <1>0, <3>2 DEF Delegate!Reported
      <4>2. agentResults[i].of[2] > Len(plan'[c])
        BY <1>3, <1>4, <3>1, <4>1
      <4>3. Len(plan'[c]) \in Nat
        BY <1>3, <1>4
      <4>4. agentResults[i].of[2] >= Len(plan'[c]) /\ agentResults[i].of[2] # Len(plan'[c])
        BY <3>1, <4>2, <4>3
      <4>. QED
        BY <1>5, <3>2, <4>4
    <3>3. CASE agentResults[i].of[1] # c
      BY <1>0, <1>4, <1>5, <1>6, <3>1, <3>3 DEF Delegate!Reported
    <3>. QED
      BY <3>2, <3>3
  <2>. QED
    BY <1>1, <2>1 DEF Delegate!Reported
<1>. QED
  BY <1>7, <1>8, <1>9 DEF Delegate!DelegationInv

(* The inductive invariant.                                                *)
LEMMA DelegationInvariant ==
  ASSUME MaxTotal \in Nat, MaxParts \in Nat, IsFiniteSet(Callers)
  PROVE  Delegate!Spec => []Delegate!DelegationInv
<1>1. Delegate!Init => Delegate!DelegationInv
  BY InitDelegation
<1>2. Delegate!DelegationInv /\ [Delegate!Next]_Delegate!delegationVars => Delegate!DelegationInv'
  <2>. SUFFICES ASSUME Delegate!DelegationInv, [Delegate!Next]_Delegate!delegationVars PROVE Delegate!DelegationInv'
    OBVIOUS
  <2>1. CASE UNCHANGED Delegate!delegationVars
    <3>1. Delegate!Refused' = Delegate!Refused
      BY <2>1 DEF Delegate!delegationVars, Delegate!Refused
    <3>. QED
      BY <2>1, <3>1 DEF Delegate!delegationVars, Delegate!DelegationInv, Delegate!DelegationTypes, Delegate!Counted, Delegate!Planned, Delegate!Reported, Delegate!Distinct
  <2>2. ASSUME NEW c \in Callers, NEW o \in {"completed", "failed"}, Delegate!AgentEnds(c, o)
        PROVE  Delegate!DelegationInv'
    BY <2>2, EndKeeps DEF Delegate!AgentEnds, Delegate!Ends
  <2>3. ASSUME NEW c \in Callers, Delegate!TimerFires(c) PROVE Delegate!DelegationInv'
    BY <2>3, EndKeeps DEF Delegate!TimerFires, Delegate!Ends
  <2>. QED
    BY <2>1, <2>2, <2>3, PlanKeeps, RegisterKeeps, NextAgentKeeps DEF Delegate!Next
<1>. QED
  BY <1>1, <1>2, PTL DEF Delegate!Spec

(* The limit of agents holds for all callers together, nobody is refused   *)
(* while there is room, and at rest the counter is exact: for any number   *)
(* of callers that race on fetch_add and fetch_sub.                        *)
THEOREM LimitIsShared ==
  ASSUME MaxTotal \in Nat, MaxParts \in Nat, IsFiniteSet(Callers)
  PROVE  Delegate!Spec => [](Delegate!TypeOK /\ Delegate!WithinAgentLimit /\ Delegate!RefusedOnlyWhenFull)
<1>1. Delegate!DelegationInv => Delegate!TypeOK /\ Delegate!WithinAgentLimit /\ Delegate!RefusedOnlyWhenFull
  <2>. SUFFICES ASSUME Delegate!DelegationInv PROVE Delegate!TypeOK /\ Delegate!WithinAgentLimit /\ Delegate!RefusedOnlyWhenFull
    OBVIOUS
  <2>0. Cardinality({}) = 0
    BY FS_EmptySet
  <2>1. (\A c \in Callers : callerPc[c] # "rollback") => spawned = granted
    <3>1. SUFFICES ASSUME \A c \in Callers : callerPc[c] # "rollback" PROVE spawned = granted
      OBVIOUS
    <3>2. Delegate!Refused = {}
      BY <3>1 DEF Delegate!Refused
    <3>. QED
      BY DelegateOps, <2>0, <3>2 DEF Delegate!DelegationInv, Delegate!DelegationTypes, Delegate!Counted
  <2>2. \A c \in Callers : callerPc[c] = "rollback" => granted = MaxTotal
    BY DEF Delegate!DelegationInv, Delegate!Counted, Delegate!Refused
  <2>. QED
    BY <2>1, <2>2 DEF Delegate!DelegationInv, Delegate!DelegationTypes, Delegate!Counted, Delegate!Statuses, Delegate!TypeOK, Delegate!WithinAgentLimit,
                      Delegate!RefusedOnlyWhenFull
<1>. QED
  BY <1>1, DelegationInvariant, PTL

(* Three sets without a common element.                                    *)
LEMMA ThreeParts ==
  ASSUME NEW A, NEW B, NEW C, IsFiniteSet(A), IsFiniteSet(B), IsFiniteSet(C),
         A \cap B = {}, (A \cup B) \cap C = {}
  PROVE  Cardinality(A) + Cardinality(B) + Cardinality(C) = Cardinality((A \cup B) \cup C)
<1>1. /\ Cardinality(A) \in Nat /\ Cardinality(B) \in Nat /\ Cardinality(C) \in Nat
      /\ Cardinality({}) = 0
  BY FS_CardinalityType, FS_EmptySet
<1>2. /\ IsFiniteSet(A \cup B)
      /\ Cardinality(A \cup B) = Cardinality(A) + Cardinality(B) - Cardinality(A \cap B)
  BY FS_Union, Zenon
<1>3. Cardinality((A \cup B) \cup C)
        = Cardinality(A \cup B) + Cardinality(C) - Cardinality((A \cup B) \cap C)
  BY <1>2, FS_Union, Zenon
<1>4. Cardinality(A \cap B) = 0 /\ Cardinality((A \cup B) \cap C) = 0
  BY <1>1
<1>. QED
  BY <1>1, <1>2, <1>3, <1>4

(* A sub-agent is reported once, by itself or by its timer, with the       *)
(* status it has, and the summary counts every report once.                *)
THEOREM ReportedOnce ==
  ASSUME MaxTotal \in Nat, MaxParts \in Nat, IsFiniteSet(Callers)
  PROVE  Delegate!Spec => []Delegate!OneResultEach
<1>1. Delegate!DelegationInv => Delegate!OneResultEach
  <2>. SUFFICES ASSUME Delegate!DelegationInv PROVE Delegate!OneResultEach
    OBVIOUS
  <2>1. \A c \in Callers, i \in DOMAIN agentResults :
          callerPc[c] = "run" /\ agentResults[i].of = <<c, Len(plan[c])>> => agentResults[i].status = agentStatus[c]
    <3>1. ASSUME NEW c \in Callers, NEW i \in DOMAIN agentResults, agentResults[i].of = <<c, Len(plan[c])>>
          PROVE  agentResults[i].status = agentStatus[c]
      <4>1. agentResults[i].of[1] = c /\ agentResults[i].of[2] = Len(plan[c])
        BY <3>1
      <4>. QED
        BY <4>1 DEF Delegate!DelegationInv, Delegate!Reported
    <3>. QED
      BY <3>1
  <2>2. Delegate!Count("completed") + Delegate!Count("failed") + Delegate!Count("timedout") = Len(agentResults)
    <3>. DEFINE D == DOMAIN agentResults
                A == {i \in D : agentResults[i].status = "completed"}
                B == {i \in D : agentResults[i].status = "failed"}
                C == {i \in D : agentResults[i].status = "timedout"}
    <3>1. D = 1..Len(agentResults) /\ Len(agentResults) \in Nat /\ \A i \in D : agentResults[i].status \in Delegate!Ends
      <4>1. agentResults \in Seq(Delegate!Report)
        BY DEF Delegate!DelegationInv, Delegate!DelegationTypes
      <4>2. \A i \in D : agentResults[i] \in Delegate!Report
        BY <4>1
      <4>. QED
        BY <4>1, <4>2 DEF Delegate!Report
    <3>2. IsFiniteSet(D) /\ Cardinality(D) = Len(agentResults)
      BY <3>1, FS_Interval
    <3>3. IsFiniteSet(A) /\ IsFiniteSet(B) /\ IsFiniteSet(C)
      BY <3>2, FS_Subset
    <3>4. D = (A \cup B) \cup C /\ A \cap B = {} /\ (A \cup B) \cap C = {}
      BY <3>1 DEF Delegate!Ends
    <3>. HIDE DEF A, B, C, D
    <3>5. Cardinality(A) + Cardinality(B) + Cardinality(C) = Len(agentResults)
      BY <3>2, <3>3, <3>4, ThreeParts
    <3>6. Delegate!Count("completed") = Cardinality(A) /\ Delegate!Count("failed") = Cardinality(B)
          /\ Delegate!Count("timedout") = Cardinality(C)
      BY DelegateOps DEF Delegate!Count, A, B, C, D
    <3>. QED
      BY <3>5, <3>6
  <2>. QED
    BY <2>1, <2>2 DEF Delegate!OneResultEach, Delegate!DelegationInv, Delegate!Distinct
<1>. QED
  BY <1>1, DelegationInvariant, PTL

-----------------------------------------------------------------------------
(* Planned sub-tasks.                                                        *)

(* Sorted lists every element of a finite set of numbers once.             *)
LEMMA SortedIs ==
  ASSUME NEW S \in SUBSET Nat, IsFiniteSet(S)
  PROVE  /\ Graph!Sorted(S) \in Seq(S) /\ Graph!Range(Graph!Sorted(S)) = S
         /\ Graph!Distinct(Graph!Sorted(S))
         /\ \A n \in DOMAIN Graph!Sorted(S) : Cardinality({y \in S : y <= Graph!Sorted(S)[n]}) = n
<1>. DEFINE N == Cardinality(S)
            upTo(x) == {y \in S : y <= x}
            rank == [x \in S |-> Cardinality(upTo(x))]
<1>1. N \in Nat /\ IsFiniteSet(1..N) /\ Cardinality(1..N) = N
  BY FS_CardinalityType, FS_Interval
<1>2. ASSUME NEW x \in S PROVE IsFiniteSet(upTo(x)) /\ Cardinality(upTo(x)) \in 1..N
  <2>1. upTo(x) \in SUBSET S /\ upTo(x) # {}
    OBVIOUS
  <2>2. IsFiniteSet(upTo(x)) /\ Cardinality(upTo(x)) <= N
    BY <2>1, FS_Subset
  <2>3. Cardinality(upTo(x)) \in Nat /\ Cardinality(upTo(x)) # 0
    BY <2>1, <2>2, FS_CardinalityType, FS_EmptySet
  <2>. QED
    BY <1>1, <2>2, <2>3
<1>3. ASSUME NEW x \in S, NEW z \in S, x < z PROVE Cardinality(upTo(x)) # Cardinality(upTo(z))
  <2>1. x \in Nat /\ z \in Nat /\ \A y \in S : y \in Nat
    OBVIOUS
  <2>2. \A y \in upTo(x) : y \in upTo(z)
    BY <1>3, <2>1
  <2>3. z \in upTo(z) /\ z \notin upTo(x)
    BY <1>3, <2>1
  <2>4. upTo(x) \in SUBSET upTo(z)
    BY <2>2
  <2>. QED
    BY <1>2, <2>3, <2>4, FS_Subset
<1>4. rank \in Injection(S, 1..N)
  <2>1. rank \in [S -> 1..N]
    BY <1>2
  <2>2. \A x, z \in S : rank[x] = rank[z] => x = z
    BY <1>3
  <2>. QED
    BY <2>1, <2>2 DEF Injection, IsInjective
<1>5. rank \in Surjection(S, 1..N)
  BY <1>1, <1>4, FS_Injection
<1>6. \A n \in 1..N : \E x \in S : Cardinality(upTo(x)) = n
  BY <1>5 DEF Surjection
<1>7. ASSUME NEW n \in 1..N
      PROVE  Graph!Sorted(S)[n] \in S /\ Cardinality(upTo(Graph!Sorted(S)[n])) = n
  <2>1. Graph!Sorted(S)[n] = CHOOSE x \in S : Cardinality(upTo(x)) = n
    BY GraphOps DEF Graph!Sorted
  <2>. QED
    BY <1>6, <2>1
<1>8. Graph!Sorted(S) \in [1..N -> S]
  BY <1>7, GraphOps DEF Graph!Sorted
<1>9. Graph!Distinct(Graph!Sorted(S))
  <2>1. ASSUME NEW i \in 1..N, NEW j \in 1..N, Graph!Sorted(S)[i] = Graph!Sorted(S)[j] PROVE i = j
    <3>. DEFINE x == Graph!Sorted(S)[i]
    <3>1. Cardinality(upTo(x)) = i
      BY <1>7
    <3>2. Cardinality(upTo(Graph!Sorted(S)[j])) = j
      BY <1>7
    <3>3. Cardinality(upTo(x)) = j
      BY <2>1, <3>2, Zenon
    <3>. QED
      BY <3>1, <3>3
  <2>2. DOMAIN Graph!Sorted(S) = 1..N
    BY <1>8
  <2>. QED
    BY <2>1, <2>2, Zenon DEF Graph!Distinct
<1>10. ASSUME NEW x \in S PROVE x \in Graph!Range(Graph!Sorted(S))
  <2>. DEFINE n == Cardinality(upTo(x))
  <2>1. n \in 1..N
    BY <1>2
  <2>. DEFINE z == Graph!Sorted(S)[n]
  <2>2. z \in S /\ Cardinality(upTo(z)) = n
    BY <1>7, <2>1
  <2>. HIDE DEF z
  <2>3. ~(x < z) /\ ~(z < x)
    BY <1>3, <2>2
  <2>4. x = z
    BY <2>2, <2>3
  <2>. QED
    BY <1>8, <2>1, <2>4 DEF Graph!Range, z
<1>11. Graph!Range(Graph!Sorted(S)) \subseteq S
  BY <1>8 DEF Graph!Range
<1>12. Graph!Sorted(S) \in Seq(S)
  BY <1>1, <1>8
<1>13. \A n \in DOMAIN Graph!Sorted(S) : Cardinality({y \in S : y <= Graph!Sorted(S)[n]}) = n
  <2>1. DOMAIN Graph!Sorted(S) = 1..N
    BY <1>8
  <2>. QED
    BY <1>7, <2>1
<1>. QED
  BY <1>9, <1>10, <1>11, <1>12, <1>13

-----------------------------------------------------------------------------
(* Kahn's algorithm.                                                       *)
LEMMA KahnBegins ==
  ASSUME NEW g, Graph!Proper(g)
  PROVE  Graph!KahnInv(g, Graph!KahnStart(g)) /\ Graph!KahnStart(g).result = <<>>
<1>. DEFINE T == Graph!Tasks(g)
            zeros == {t \in T : g.deps[t] = {}}
            k == Graph!KahnStart(g)
<1>1. zeros \in SUBSET Nat /\ IsFiniteSet(zeros) /\ IsFiniteSet(T) /\ g.deps \in [T -> SUBSET T]
  BY GraphAssumption, GraphOps, FS_Subset DEF Graph!Proper
<1>2. k.queue = Graph!Sorted(zeros) /\ k.result = <<>> /\ k.degree = [t \in T |-> Cardinality(g.deps[t])]
  BY GraphOps DEF Graph!KahnStart
<1>3. k.queue \in Seq(zeros) /\ Graph!Range(k.queue) = zeros /\ Graph!Distinct(k.queue)
  BY <1>1, <1>2, SortedIs
<1>4. Graph!Range(k.result) = {} /\ Graph!Distinct(k.result) /\ Graph!InTurn(g, k.result)
  BY <1>2 DEF Graph!Range, Graph!Distinct, Graph!InTurn
<1>5. k.queue \in Seq(T) /\ k.result \in Seq(T)
  BY <1>2, <1>3
<1>6. \A t \in T : Cardinality(g.deps[t]) \in Nat
  BY <1>1, FS_Subset, FS_CardinalityType
<1>7. k.degree \in [T -> Nat] /\ \A t \in T : k.degree[t] = Cardinality(g.deps[t] \ {})
  BY <1>2, <1>6
<1>. HIDE DEF k
<1>8. \A t \in T : t \in zeros <=> g.deps[t] \subseteq {}
  OBVIOUS
<1>9. Graph!KahnInv(g, k)
  BY <1>3, <1>4, <1>5, <1>7, <1>8, GraphOps DEF Graph!KahnInv
<1>. QED
  BY <1>2, <1>9 DEF k

LEMMA JoinedSeqs ==
  ASSUME NEW T, NEW a \in Seq(T), NEW b \in Seq(T), Graph!Distinct(a), Graph!Distinct(b),
         Graph!Range(a) \cap Graph!Range(b) = {}
  PROVE  /\ a \o b \in Seq(T) /\ Graph!Range(a \o b) = Graph!Range(a) \union Graph!Range(b)
         /\ Graph!Distinct(a \o b)
<1>. DEFINE c == a \o b
<1>1. c \in Seq(T) /\ Len(c) = Len(a) + Len(b)
  OBVIOUS
<1>2. \A i \in 1..Len(a) : c[i] = a[i]
  OBVIOUS
<1>3. \A i \in 1..Len(b) : c[Len(a) + i] = b[i]
  OBVIOUS
<1>4. \A i \in 1..Len(c) : i \in 1..Len(a) \/ i - Len(a) \in 1..Len(b)
  BY <1>1
<1>5. \A i \in 1..Len(c) : i \notin 1..Len(a) => c[i] = b[i - Len(a)] /\ i - Len(a) \in 1..Len(b)
  BY <1>1
<1>. HIDE DEF c
<1>6. Graph!Range(c) \subseteq Graph!Range(a) \union Graph!Range(b)
  BY <1>1, <1>2, <1>5 DEF Graph!Range
<1>7. Graph!Range(a) \subseteq Graph!Range(c)
  BY <1>1, <1>2 DEF Graph!Range
<1>8. Graph!Range(b) \subseteq Graph!Range(c)
  <2>1. ASSUME NEW i \in DOMAIN b PROVE b[i] \in Graph!Range(c)
    <3>1. i \in 1..Len(b)
      OBVIOUS
    <3>2. c[Len(a) + i] = b[i]
      BY <1>3, <3>1
    <3>3. DOMAIN c = 1..Len(c) /\ Len(a) \in Nat /\ Len(b) \in Nat
      BY <1>1
    <3>4. Len(a) + i \in DOMAIN c
      BY <1>1, <3>1, <3>3
    <3>. QED
      BY <3>2, <3>4 DEF Graph!Range
  <2>. QED
    BY <2>1 DEF Graph!Range
<1>9. ASSUME NEW i \in DOMAIN c, NEW j \in DOMAIN c, c[i] = c[j] PROVE i = j
  <2>1. CASE i \in 1..Len(a) /\ j \in 1..Len(a)
    BY <1>2, <1>9, <2>1 DEF Graph!Distinct
  <2>2. CASE i \in 1..Len(a) /\ j \notin 1..Len(a)
    <3>1. c[i] \in Graph!Range(a) /\ c[j] \in Graph!Range(b)
      BY <1>1, <1>2, <1>5, <2>2 DEF Graph!Range
    <3>. QED
      BY <1>9, <3>1
  <2>3. CASE i \notin 1..Len(a) /\ j \in 1..Len(a)
    <3>1. c[i] = b[i - Len(a)] /\ i - Len(a) \in DOMAIN b /\ c[j] = a[j] /\ j \in DOMAIN a
      BY <1>1, <1>2, <1>5, <2>3
    <3>2. c[i] \in Graph!Range(b) /\ c[j] \in Graph!Range(a)
      BY <3>1 DEF Graph!Range
    <3>. QED
      BY <1>9, <3>2
  <2>4. CASE i \notin 1..Len(a) /\ j \notin 1..Len(a)
    <3>1. i - Len(a) \in DOMAIN b /\ j - Len(a) \in DOMAIN b /\ b[i - Len(a)] = b[j - Len(a)]
      BY <1>1, <1>5, <1>9, <2>4
    <3>2. i - Len(a) = j - Len(a)
      BY <3>1 DEF Graph!Distinct
    <3>. QED
      BY <1>1, <3>2
  <2>. QED
    BY <2>1, <2>2, <2>3, <2>4
<1>. QED
  BY <1>1, <1>6, <1>7, <1>8, <1>9 DEF c, Graph!Distinct

LEMMA HeadAndTail ==
  ASSUME NEW T, NEW a \in Seq(T), a # <<>>, Graph!Distinct(a)
  PROVE  /\ Head(a) \in T /\ Head(a) \in Graph!Range(a) /\ Tail(a) \in Seq(T)
         /\ Graph!Range(Tail(a)) = Graph!Range(a) \ {Head(a)} /\ Graph!Distinct(Tail(a))
<1>. DEFINE b == Tail(a)
<1>1. b \in Seq(T) /\ Len(b) = Len(a) - 1 /\ \A i \in 1..Len(b) : b[i] = a[i + 1] /\ i + 1 \in 1..Len(a)
  OBVIOUS
<1>2. Head(a) = a[1] /\ 1 \in DOMAIN a /\ a[1] \in T
  OBVIOUS
<1>. HIDE DEF b
<1>3. Graph!Range(b) \subseteq Graph!Range(a) \ {a[1]}
  <2>1. \A i \in 1..Len(b) : a[i + 1] # a[1]
    BY <1>1, <1>2 DEF Graph!Distinct
  <2>. QED
    BY <1>1, <2>1 DEF Graph!Range
<1>4. ASSUME NEW x \in Graph!Range(a) \ {a[1]} PROVE x \in Graph!Range(b)
  <2>1. PICK i \in DOMAIN a : x = a[i]
    BY DEF Graph!Range
  <2>2. i - 1 \in 1..Len(b) /\ (i - 1) + 1 = i
    BY <1>1, <2>1
  <2>3. b[i - 1] = x /\ i - 1 \in DOMAIN b
    BY <1>1, <2>1, <2>2
  <2>. QED
    BY <2>3 DEF Graph!Range
<1>5. Graph!Distinct(b)
  <2>1. ASSUME NEW i \in 1..Len(b), NEW j \in 1..Len(b), b[i] = b[j] PROVE i = j
    <3>1. a[i + 1] = a[j + 1] /\ i + 1 \in DOMAIN a /\ j + 1 \in DOMAIN a
      BY <1>1, <2>1
    <3>2. i + 1 = j + 1
      BY <3>1 DEF Graph!Distinct
    <3>. QED
      BY <3>2
  <2>. QED
    BY <1>1, <2>1 DEF Graph!Distinct
<1>6. a[1] \in Graph!Range(a)
  BY <1>2 DEF Graph!Range
<1>. QED
  BY <1>1, <1>2, <1>3, <1>4, <1>5, <1>6 DEF b

(* One turn of the loop: the first of the queue is visited.                *)
LEMMA KahnTurn ==
  ASSUME NEW g, Graph!Proper(g), NEW k, Graph!KahnInv(g, k), k.queue # <<>>
  PROVE  /\ Graph!KahnInv(g, Graph!KahnStep(g, k))
         /\ Len(Graph!KahnStep(g, k).result) = Len(k.result) + 1
<1>. DEFINE T == Graph!Tasks(g)
            node == Head(k.queue)
            neighbours == {t \in T : node \in g.deps[t]}
            degree == [t \in T |-> IF t \in neighbours THEN k.degree[t] - 1 ELSE k.degree[t]]
            next == {t \in neighbours : degree[t] = 0}
            n == Graph!KahnStep(g, k)
            R == Graph!Range(k.result)
            Q == Graph!Range(k.queue)
<1>1. /\ n.queue = Tail(k.queue) \o Graph!Sorted(next) /\ n.degree = degree
      /\ n.result = Append(k.result, node)
  BY DEF Graph!KahnStep
<1>. HIDE DEF n
<1>2. /\ k.queue \in Seq(T) /\ k.result \in Seq(T) /\ k.degree \in [T -> Nat]
      /\ Graph!Distinct(k.queue) /\ Graph!Distinct(k.result) /\ Q \cap R = {}
      /\ \A t \in T : k.degree[t] = Cardinality(g.deps[t] \ R)
      /\ \A t \in T : t \in Q \union R <=> g.deps[t] \subseteq R
      /\ Graph!InTurn(g, k.result)
  BY GraphOps DEF Graph!KahnInv
<1>3. /\ IsFiniteSet(T) /\ T \subseteq Nat /\ g.deps \in [T -> SUBSET T]
  BY GraphAssumption, GraphOps DEF Graph!Proper
<1>4. /\ node \in T /\ node \in Q /\ Tail(k.queue) \in Seq(T)
      /\ Graph!Range(Tail(k.queue)) = Q \ {node} /\ Graph!Distinct(Tail(k.queue))
  BY <1>2, HeadAndTail
<1>5. node \notin R /\ R \subseteq T /\ Q \subseteq T
  <2>1. R \subseteq T /\ Q \subseteq T
    BY <1>2 DEF Graph!Range
  <2>. QED
    BY <1>2, <1>4, <2>1
<1>6. n.result \in Seq(T) /\ Len(n.result) = Len(k.result) + 1
  BY <1>1, <1>2, <1>4
<1>m. /\ \A i \in DOMAIN k.result : n.result[i] = k.result[i] /\ i \in DOMAIN n.result
      /\ n.result[Len(k.result) + 1] = node /\ Len(k.result) + 1 \in DOMAIN n.result
      /\ \A i \in DOMAIN n.result : i \in DOMAIN k.result \/ i = Len(k.result) + 1
  BY <1>1, <1>2, <1>4
<1>7. Graph!Range(n.result) = R \union {node} /\ Graph!Distinct(n.result)
  <2>1. \A i \in DOMAIN k.result : k.result[i] # node
    BY <1>5 DEF Graph!Range
  <2>2. \A i \in DOMAIN n.result : n.result[i] \in R \union {node}
    BY <1>m DEF Graph!Range
  <2>3. \A i \in DOMAIN k.result : k.result[i] \in Graph!Range(n.result)
    BY <1>m DEF Graph!Range
  <2>4. node \in Graph!Range(n.result)
    BY <1>m DEF Graph!Range
  <2>5. Graph!Range(n.result) = R \union {node}
    BY <2>2, <2>3, <2>4 DEF Graph!Range
  <2>6. Graph!Distinct(n.result)
    BY <1>m, <1>2, <2>1 DEF Graph!Distinct
  <2>. QED
    BY <2>5, <2>6
<1>8. \A t \in T : degree[t] \in Nat /\ degree[t] = Cardinality(g.deps[t] \ (R \union {node}))
  <2>. SUFFICES ASSUME NEW t \in T
                PROVE  degree[t] \in Nat /\ degree[t] = Cardinality(g.deps[t] \ (R \union {node}))
    OBVIOUS
  <2>. DEFINE W == g.deps[t] \ R
  <2>1. IsFiniteSet(W)
    <3>1. W \in SUBSET T
      BY <1>3
    <3>. QED
      BY <1>3, <3>1, FS_Subset
  <2>2. g.deps[t] \ (R \union {node}) = W \ {node}
    OBVIOUS
  <2>3. node \in W <=> t \in neighbours
    BY <1>5
  <2>4. k.degree[t] = Cardinality(W)
    BY <1>2
  <2>. HIDE DEF W
  <2>5. /\ IsFiniteSet(W \ {node})
        /\ Cardinality(W \ {node}) = IF node \in W THEN Cardinality(W) - 1 ELSE Cardinality(W)
    BY <2>1, FS_RemoveElement
  <2>6. Cardinality(W \ {node}) \in Nat
    BY <2>5, FS_CardinalityType
  <2>7. degree[t] = IF t \in neighbours THEN k.degree[t] - 1 ELSE k.degree[t]
    OBVIOUS
  <2>. QED
    BY <2>2, <2>3, <2>4, <2>5, <2>6, <2>7
<1>9. \A t \in T : degree[t] = 0 <=> g.deps[t] \subseteq R \union {node}
  <2>. SUFFICES ASSUME NEW t \in T PROVE degree[t] = 0 <=> g.deps[t] \subseteq R \union {node}
    OBVIOUS
  <2>. DEFINE W == g.deps[t] \ (R \union {node})
  <2>1. degree[t] = Cardinality(W)
    BY <1>8
  <2>2. IsFiniteSet(W)
    <3>1. W \in SUBSET T
      BY <1>3
    <3>. QED
      BY <1>3, <3>1, FS_Subset
  <2>3. W = {} <=> g.deps[t] \subseteq R \union {node}
    OBVIOUS
  <2>. HIDE DEF W, degree
  <2>. QED
    BY <2>1, <2>2, <2>3, FS_EmptySet
<1>10. degree \in [T -> Nat]
  BY <1>8
<1>. HIDE DEF degree
<1>11. next \in SUBSET T /\ next \cap (Q \union R) = {} /\ IsFiniteSet(next)
  <2>1. \A t \in next : t \in T /\ node \in g.deps[t]
    OBVIOUS
  <2>2. \A t \in next : ~(g.deps[t] \subseteq R)
    BY <1>5, <2>1
  <2>3. next \in SUBSET T /\ next \cap (Q \union R) = {}
    BY <1>2, <2>1, <2>2
  <2>. QED
    BY <1>3, <2>3, FS_Subset
<1>12. /\ Graph!Sorted(next) \in Seq(T) /\ Graph!Range(Graph!Sorted(next)) = next
       /\ Graph!Distinct(Graph!Sorted(next))
  <2>1. next \in SUBSET Nat
    BY <1>3, <1>11
  <2>2. /\ Graph!Sorted(next) \in Seq(next) /\ Graph!Range(Graph!Sorted(next)) = next
        /\ Graph!Distinct(Graph!Sorted(next))
    BY <1>11, <2>1, SortedIs
  <2>. HIDE DEF next
  <2>. QED
    BY <1>11, <2>2
<1>13. Graph!Range(Tail(k.queue)) \cap Graph!Range(Graph!Sorted(next)) = {}
  BY <1>4, <1>11, <1>12
<1>14. /\ n.queue \in Seq(T) /\ Graph!Distinct(n.queue)
       /\ Graph!Range(n.queue) = (Q \ {node}) \union next
  <2>. DEFINE a == Tail(k.queue)
              b == Graph!Sorted(next)
  <2>1. n.queue = a \o b /\ a \in Seq(T) /\ b \in Seq(T) /\ Graph!Range(a) = Q \ {node} /\ Graph!Range(b) = next
    BY <1>1, <1>4, <1>12
  <2>2. Graph!Distinct(a) /\ Graph!Distinct(b) /\ Graph!Range(a) \cap Graph!Range(b) = {}
    BY <1>4, <1>12, <1>13
  <2>. HIDE DEF a, b
  <2>3. /\ a \o b \in Seq(T) /\ Graph!Range(a \o b) = Graph!Range(a) \union Graph!Range(b)
        /\ Graph!Distinct(a \o b)
    BY <2>1, <2>2, JoinedSeqs
  <2>. HIDE DEF next, node
  <2>. QED
    BY <2>1, <2>3, Zenon
<1>15. Graph!Range(n.queue) \cap Graph!Range(n.result) = {}
  BY <1>2, <1>4, <1>7, <1>11, <1>14
<1>16. ASSUME NEW t \in T
       PROVE  t \in Graph!Range(n.queue) \union Graph!Range(n.result) <=> g.deps[t] \subseteq Graph!Range(n.result)
  <2>1. t \in Graph!Range(n.queue) \union Graph!Range(n.result) <=> t \in Q \union R \/ t \in next
    BY <1>4, <1>7, <1>14
  <2>2. t \in next <=> t \in neighbours /\ degree[t] = 0
    OBVIOUS
  <2>3. t \in Q \union R <=> g.deps[t] \subseteq R
    BY <1>2
  <2>4. t \notin neighbours => (g.deps[t] \subseteq R \union {node} <=> g.deps[t] \subseteq R)
    OBVIOUS
  <2>5. degree[t] = 0 <=> g.deps[t] \subseteq R \union {node}
    BY <1>9
  <2>. HIDE DEF next, neighbours
  <2>. QED
    BY <1>7, <2>1, <2>2, <2>3, <2>4, <2>5
<1>17. Graph!InTurn(g, n.result)
  <2>2. \A i \in DOMAIN k.result : i < Len(k.result) + 1
    BY <1>2
  <2>3. g.deps[node] \subseteq R
    BY <1>2, <1>4
  <2>4. ASSUME NEW i \in DOMAIN n.result, NEW d \in g.deps[n.result[i]]
        PROVE  \E j \in DOMAIN n.result : j < i /\ n.result[j] = d
    <3>1. CASE i \in DOMAIN k.result
      <4>1. PICK j \in DOMAIN k.result : j < i /\ k.result[j] = d
        BY <1>2, <1>m, <2>4, <3>1 DEF Graph!InTurn
      <4>. QED
        BY <1>m, <4>1
    <3>2. CASE i = Len(k.result) + 1
      <4>1. PICK j \in DOMAIN k.result : k.result[j] = d
        BY <1>m, <2>3, <2>4, <3>2 DEF Graph!Range
      <4>. QED
        BY <1>m, <2>2, <3>2, <4>1
    <3>. QED
      BY <1>m, <3>1, <3>2
  <2>. QED
    BY <2>4 DEF Graph!InTurn
<1>18. \A t \in T : n.degree[t] = Cardinality(g.deps[t] \ Graph!Range(n.result))
  BY <1>1, <1>7, <1>8
<1>19. Graph!KahnInv(g, n)
  BY <1>1, <1>6, <1>7, <1>10, <1>14, <1>15, <1>16, <1>17, <1>18, GraphOps DEF Graph!KahnInv
<1>. QED
  BY <1>6, <1>19 DEF n

(* The rounds of the loop are well defined.                                *)
LEMMA RoundsExist ==
  ASSUME NEW g, NEW N \in Nat
  PROVE  \E f : f = [n \in 0..N |-> IF n = 0 THEN Graph!KahnStart(g) ELSE Graph!Loop(g, f[n - 1])]
<1>. DEFINE Fits(m, f) == f = [n \in 0..m |-> IF n = 0 THEN Graph!KahnStart(g) ELSE Graph!Loop(g, f[n - 1])]
            Bad == {m \in Nat : ~\E f : Fits(m, f)}
<1>1. SUFFICES Bad = {}
  BY <1>1
<1>2. SUFFICES ASSUME Bad # {} PROVE FALSE
  OBVIOUS
<1>3. PICK m \in Bad : \A y \in Bad : m <= y
  BY <1>2, LeastIn
<1>4. CASE m = 0
  <2>1. Fits(0, [n \in 0..0 |-> Graph!KahnStart(g)])
    OBVIOUS
  <2>. QED
    BY <1>3, <1>4, <2>1
<1>5. CASE m # 0
  <2>. HIDE DEF Bad
  <2>a. m \in Nat
    BY <1>3 DEF Bad
  <2>b. m - 1 \in Nat /\ ~(m <= m - 1)
    BY <1>5, <2>a
  <2>1. m \in Nat /\ m - 1 \in Nat /\ m - 1 \notin Bad
    BY <1>3, <2>a, <2>b
  <2>. USE DEF Bad
  <2>2. PICK f : Fits(m - 1, f)
    BY <2>1
  <2>. DEFINE h == [n \in 0..m |-> IF n = m THEN Graph!Loop(g, f[m - 1]) ELSE f[n]]
  <2>3. ASSUME NEW n \in 0..m
        PROVE  h[n] = IF n = 0 THEN Graph!KahnStart(g) ELSE Graph!Loop(g, h[n - 1])
    <3>1. CASE n = m
      BY <1>5, <2>1, <3>1
    <3>2. CASE n # m
      <4>1. n \in 0..(m - 1) /\ (n # 0 => n - 1 \in 0..m /\ n - 1 # m)
        BY <2>1, <3>2
      <4>2. f[n] = IF n = 0 THEN Graph!KahnStart(g) ELSE Graph!Loop(g, f[n - 1])
        BY <2>2, <4>1
      <4>. QED
        BY <3>2, <4>1, <4>2
    <3>. QED
      BY <3>1, <3>2
  <2>4. Fits(m, h)
    BY <2>3
  <2>. QED
    BY <1>3, <2>4
<1>. QED
  BY <1>4, <1>5

(* After as many rounds as there are sub-tasks the queue is empty, or all  *)
(* of them have been visited.                                              *)
LEMMA KahnEnds ==
  ASSUME NEW g, Graph!Proper(g)
  PROVE  \E k : /\ Graph!Kahn(g) = k.result /\ Graph!KahnInv(g, k)
                /\ k.queue = <<>> \/ Len(k.result) = Cardinality(Graph!Tasks(g))
<1>. DEFINE N == Cardinality(Graph!Tasks(g))
            run[n \in 0..N] == IF n = 0 THEN Graph!KahnStart(g) ELSE Graph!Loop(g, run[n - 1])
            Holds(n) == /\ Graph!KahnInv(g, run[n])
                        /\ run[n].queue = <<>> \/ Len(run[n].result) = n
            Bad == {n \in 0..N : ~Holds(n)}
<1>1. N \in Nat
  BY GraphOps, FS_CardinalityType DEF Graph!Proper
<1>2. Graph!Kahn(g) = run[N].result
  BY GraphOps DEF Graph!Kahn
<1>3. run = [n \in 0..N |-> IF n = 0 THEN Graph!KahnStart(g) ELSE Graph!Loop(g, run[n - 1])]
  BY <1>1, RoundsExist
<1>. HIDE DEF run
<1>4. run[0] = Graph!KahnStart(g) /\ \A n \in 0..N : n # 0 => run[n] = Graph!Loop(g, run[n - 1])
  BY <1>1, <1>3
<1>5. ASSUME NEW n \in Bad, \A y \in Bad : n <= y PROVE FALSE
  <2>1. CASE n = 0
    <3>1. Graph!KahnInv(g, Graph!KahnStart(g)) /\ Graph!KahnStart(g).result = <<>>
      BY KahnBegins
    <3>2. Holds(0)
      BY <1>4, <3>1
    <3>. QED
      BY <1>5, <2>1, <3>2
  <2>2. CASE n # 0
    <3>1. n \in 0..N /\ n - 1 \in 0..N /\ ~(n <= n - 1)
      BY <1>1, <2>2
    <3>2. Holds(n - 1)
      BY <1>5, <3>1
    <3>3. run[n] = Graph!Loop(g, run[n - 1])
      BY <1>4, <2>2, <3>1
    <3>. DEFINE k == run[n - 1]
    <3>4. CASE k.queue = <<>>
      <4>1. run[n] = k
        BY <3>3, <3>4 DEF Graph!Loop
      <4>2. Holds(n)
        BY <3>2, <3>4, <4>1
      <4>. QED
        BY <4>2
    <3>5. CASE k.queue # <<>>
      <4>1. run[n] = Graph!KahnStep(g, k)
        BY <3>3, <3>5 DEF Graph!Loop
      <4>2. Graph!KahnInv(g, k) /\ Len(k.result) = n - 1
        BY <3>2, <3>5
      <4>3. Graph!KahnInv(g, Graph!KahnStep(g, k)) /\ Len(Graph!KahnStep(g, k).result) = Len(k.result) + 1
        BY <3>5, <4>2, KahnTurn
      <4>4. Len(run[n].result) = n
        BY <3>1, <4>1, <4>2, <4>3
      <4>5. Holds(n)
        BY <4>1, <4>3, <4>4
      <4>. QED
        BY <4>5
    <3>. QED
      BY <3>4, <3>5
  <2>. QED
    BY <2>1, <2>2
<1>6. Bad \in SUBSET Nat
  BY <1>1
<1>7. Bad = {}
  <2>. HIDE DEF Bad
  <2>. QED
    BY <1>5, <1>6, LeastIn
<1>8. Holds(N)
  BY <1>1, <1>7
<1>. QED
  BY <1>2, <1>8

(* A graph is listed completely exactly if it has no cycle, and then in an *)
(* order that respects its dependencies.                                   *)
LEMMA KahnMeans ==
  ASSUME NEW g, Graph!Proper(g)
  PROVE  /\ Graph!DetectCycle(g) <=> ~Graph!WellFounded(g)
         /\ ~Graph!DetectCycle(g) => /\ Graph!Range(Graph!Kahn(g)) = Graph!Tasks(g)
                                     /\ Len(Graph!Kahn(g)) = Cardinality(Graph!Tasks(g))
                                     /\ Graph!Kahn(g) \in Seq(Graph!Tasks(g)) /\ Graph!Distinct(Graph!Kahn(g))
                                     /\ Graph!InTurn(g, Graph!Kahn(g))
<1>. DEFINE T == Graph!Tasks(g)
            N == Cardinality(T)
<1>1. PICK k : Graph!Kahn(g) = k.result /\ Graph!KahnInv(g, k) /\ (k.queue = <<>> \/ Len(k.result) = N)
  BY KahnEnds
<1>. DEFINE o == k.result
            R == Graph!Range(o)
<1>2. /\ o \in Seq(T) /\ Graph!Distinct(o) /\ Graph!InTurn(g, o)
      /\ \A t \in T : t \in Graph!Range(k.queue) \union R <=> g.deps[t] \subseteq R
  BY <1>1 DEF Graph!KahnInv
<1>3. IsFiniteSet(T) /\ N \in Nat /\ g.deps \in [T -> SUBSET T]
  BY GraphOps, FS_CardinalityType DEF Graph!Proper
<1>4. Graph!DetectCycle(g) <=> Len(o) # N
  BY <1>1, GraphOps DEF Graph!DetectCycle
<1>. HIDE DEF o
<1>5. Len(o) \in Nat /\ DOMAIN o = 1..Len(o) /\ R \subseteq T
  BY <1>2 DEF Graph!Range
<1>6. Len(o) = N <=> R = T
  <2>1. o \in Injection(1..Len(o), T)
    BY <1>2, <1>5 DEF Injection, IsInjective, Graph!Distinct
  <2>2. Cardinality(1..Len(o)) = Len(o)
    <3>. DEFINE m == Len(o)
    <3>1. m \in Nat
      BY <1>5
    <3>. HIDE DEF m
    <3>2. Cardinality(1..m) = m
      BY <3>1, FS_Interval
    <3>. QED
      BY <3>2 DEF m
  <2>3. Len(o) = N <=> o \in Surjection(1..Len(o), T)
    BY <1>3, <2>1, <2>2, FS_Injection
  <2>4. o \in Surjection(1..Len(o), T) <=> \A t \in T : \E i \in 1..Len(o) : o[i] = t
    BY <1>2, <1>5 DEF Surjection
  <2>5. R = T <=> \A t \in T : \E i \in 1..Len(o) : o[i] = t
    BY <1>5 DEF Graph!Range
  <2>. QED
    BY <2>3, <2>4, <2>5
<1>7. ASSUME R = T PROVE Graph!WellFounded(g)
  <2>. SUFFICES ASSUME NEW S \in (SUBSET T) \ {{}} PROVE \E t \in S : g.deps[t] \cap S = {}
    BY DEF Graph!WellFounded
  <2>. DEFINE hits == {i \in DOMAIN o : o[i] \in S}
  <2>1. hits \in SUBSET Nat /\ hits # {}
    <3>1. PICK t \in S : t \in R
      BY <1>7
    <3>. QED
      BY <1>5, <3>1 DEF Graph!Range
  <2>2. PICK i \in hits : \A j \in hits : i <= j
    <3>. HIDE DEF hits
    <3>. QED
      BY <2>1, LeastIn
  <2>3. ASSUME NEW d \in g.deps[o[i]] \cap S PROVE FALSE
    <3>1. PICK j \in DOMAIN o : j < i /\ o[j] = d
      BY <1>2, <2>3 DEF Graph!InTurn
    <3>2. j \in hits
      BY <2>3, <3>1
    <3>. QED
      BY <1>5, <2>2, <3>1, <3>2
  <2>. QED
    BY <2>2, <2>3
<1>8. ASSUME Graph!WellFounded(g), R # T PROVE FALSE
  <2>1. k.queue = <<>>
    BY <1>1, <1>6, <1>8 DEF o
  <2>2. Graph!Range(k.queue) = {}
    BY <2>1 DEF Graph!Range
  <2>3. T \ R \in (SUBSET T) \ {{}}
    BY <1>5, <1>8
  <2>4. PICK t \in T \ R : g.deps[t] \cap (T \ R) = {}
    BY <1>8, <2>3 DEF Graph!WellFounded
  <2>5. g.deps[t] \subseteq R
    BY <1>3, <2>4
  <2>. QED
    BY <1>2, <2>2, <2>4, <2>5
<1>9. Graph!Kahn(g) = o
  BY <1>1 DEF o
<1>. QED
  BY <1>2, <1>4, <1>6, <1>7, <1>8, <1>9

-----------------------------------------------------------------------------
(* What TaskGraph::new collects: the last line of every number.            *)
LEMMA Collected ==
  ASSUME NEW n \in Nat \ {0}, NEW lines \in [1..n -> Graph!Line], NEW g, g = Graph!Collect(lines)
  PROVE  /\ IsFiniteSet(Graph!Tasks(g)) /\ Graph!Tasks(g) \subseteq GraphSteps /\ Graph!Tasks(g) # {}
         /\ g.order \in Seq(GraphSteps) /\ Graph!Range(g.order) = Graph!Tasks(g)
         /\ g.deps \in [Graph!Tasks(g) -> SUBSET GraphSteps]
<1>. DEFINE ids == {lines[i].id : i \in DOMAIN lines}
            last(t) == CHOOSE i \in DOMAIN lines :
                         /\ lines[i].id = t
                         /\ \A j \in DOMAIN lines : lines[j].id = t => j <= i
<1>1. g.order = [i \in DOMAIN lines |-> lines[i].id] /\ g.deps = [t \in ids |-> lines[last(t)].deps]
  BY DEF Graph!Collect
<1>2. DOMAIN lines = 1..n /\ \A i \in 1..n : lines[i].id \in GraphSteps /\ lines[i].deps \in SUBSET GraphSteps
  BY DEF Graph!Line
<1>3. Graph!Tasks(g) = ids
  BY <1>1 DEF Graph!Tasks
<1>4. g.order \in [1..n -> GraphSteps] /\ Graph!Range(g.order) = ids
  BY <1>1, <1>2 DEF Graph!Range
<1>5. g.order \in Seq(GraphSteps)
  BY <1>4
<1>6. IsFiniteSet(ids)
  <2>1. g.order \in Surjection(1..n, ids)
    BY <1>1, <1>2 DEF Surjection
  <2>2. IsFiniteSet(1..n)
    BY FS_Interval
  <2>. HIDE DEF ids
  <2>. QED
    BY <2>1, <2>2, FS_Surjection
<1>7. ids \subseteq GraphSteps /\ ids # {}
  <2>1. lines[1].id \in ids
    BY <1>2
  <2>. QED
    BY <1>2, <2>1
<1>8. ASSUME NEW t \in ids PROVE last(t) \in DOMAIN lines
  <2>. DEFINE back == {m \in 0..n : n - m \in DOMAIN lines /\ lines[n - m].id = t}
  <2>1. PICK i \in 1..n : lines[i].id = t
    BY <1>2
  <2>2. n - (n - i) = i /\ n - i \in 0..n
    OBVIOUS
  <2>3. n - i \in back
    BY <1>2, <2>1, <2>2
  <2>4. back \in SUBSET Nat /\ back # {}
    <3>1. back \subseteq Nat
      BY SMT
    <3>. HIDE DEF back
    <3>. QED
      BY <2>3, <3>1
  <2>5. PICK m \in back : \A y \in back : m <= y
    <3>. HIDE DEF back
    <3>. QED
      BY <2>4, LeastIn
  <2>6. n - m \in DOMAIN lines /\ lines[n - m].id = t
    BY <2>5
  <2>7. ASSUME NEW j \in DOMAIN lines, lines[j].id = t PROVE j <= n - m
    <3>1. n - (n - j) = j /\ n - j \in 0..n
      BY <1>2
    <3>2. n - j \in back
      BY <2>7, <3>1
    <3>3. m <= n - j
      BY <2>5, <3>2
    <3>. QED
      BY <1>2, <2>5, <3>3
  <2>8. \E k \in DOMAIN lines : /\ lines[k].id = t
                                /\ \A j \in DOMAIN lines : lines[j].id = t => j <= k
    BY <2>6, <2>7
  <2>. QED
    BY <2>8
<1>9. g.deps \in [ids -> SUBSET GraphSteps]
  <2>. HIDE DEF ids, last
  <2>. QED
    BY <1>1, <1>2, <1>8
<1>. QED
  BY <1>3, <1>4, <1>5, <1>6, <1>7, <1>9

LEMMA NewGraph ==
  ASSUME NEW lines \in Graph!Answers, Graph!New(lines)
  PROVE  Graph!GraphInv'
<1>. DEFINE parsed == Graph!ParseDecomposition(lines)
            g == Graph!Collect(parsed)
            T == Graph!Tasks(g)
<1>1. \E n \in Nat \ {0} : parsed \in [1..n -> Graph!Line]
  <2>1. PICK n \in 0..MaxLines : lines \in [1..n -> Graph!Line]
    BY DEF Graph!Answers
  <2>2. CASE lines = <<>>
    <3>1. parsed = <<[id |-> 1, deps |-> {}]>>
      BY <2>2 DEF Graph!ParseDecomposition
    <3>2. parsed \in [1..1 -> Graph!Line]
      BY <3>1, GraphAssumption DEF Graph!Line
    <3>. QED
      BY <3>2
  <2>3. CASE lines # <<>>
    <3>1. parsed = lines
      BY <2>3 DEF Graph!ParseDecomposition
    <3>2. n # 0
      BY <2>1, <2>3
    <3>. QED
      BY <2>1, <3>1, <3>2, GraphAssumption
  <2>. QED
    BY <2>2, <2>3
<1>2. /\ IsFiniteSet(T) /\ T \subseteq GraphSteps /\ T # {}
      /\ g.order \in Seq(GraphSteps) /\ Graph!Range(g.order) = T /\ g.deps \in [T -> SUBSET GraphSteps]
  <2>. HIDE DEF parsed
  <2>. QED
    BY <1>1, Collected
<1>3. /\ graph' = [state |-> Graph!Verdict(g), order |-> g.order, deps |-> g.deps]
      /\ taskStatus' = IF graph'.state = "built" THEN [t \in T |-> "pending"] ELSE taskStatus
  BY DEF Graph!New
<1>. HIDE DEF g
<1>4. graph'.state = "built" <=> Graph!DepsKnown(g) /\ Graph!WellFounded(g)
  <2>1. graph'.state = "built" <=> Graph!DepsKnown(g) /\ ~Graph!DetectCycle(g)
    BY <1>3 DEF Graph!Verdict
  <2>2. ASSUME Graph!DepsKnown(g) PROVE Graph!DetectCycle(g) <=> ~Graph!WellFounded(g)
    <3>1. g.deps \in [T -> SUBSET T]
      BY <1>2, <2>2 DEF Graph!DepsKnown
    <3>2. Graph!Proper(g)
      BY <1>2, <3>1, GraphOps DEF Graph!Proper
    <3>. QED
      BY <3>2, KahnMeans
  <2>. QED
    BY <2>1, <2>2
<1>5. graph'.deps = g.deps /\ graph'.order = g.order
  BY <1>3
<1>6. Graph!Tasks(graph') = T
  BY <1>5 DEF Graph!Tasks
<1>7. Graph!DepsKnown(graph') <=> Graph!DepsKnown(g)
  BY <1>5, <1>6 DEF Graph!DepsKnown
<1>8. Graph!WellFounded(graph') <=> Graph!WellFounded(g)
  BY <1>5, <1>6 DEF Graph!WellFounded
<1>9. graph'.state = "built" => taskStatus' = [t \in T |-> "pending"]
  BY <1>3
<1>. HIDE DEF T
<1>10. graph'.state = "built" =>
         /\ taskStatus' \in [T -> {"pending", "running", "completed", "failed"}]
         /\ \A t \in T : taskStatus'[t] = "pending"
  BY <1>9
<1>11. Graph!GraphInv' <=>
        (graph'.state # "none" =>
          /\ IsFiniteSet(T) /\ T \subseteq GraphSteps /\ T # {}
          /\ graph'.order \in Seq(GraphSteps) /\ Graph!Range(graph'.order) = T
          /\ graph'.deps \in [T -> SUBSET GraphSteps]
          /\ (graph'.state = "built") <=> Graph!DepsKnown(graph') /\ Graph!WellFounded(graph')
          /\ graph'.state = "built" =>
               /\ taskStatus' \in [T -> {"pending", "running", "completed", "failed"}]
               /\ \A t \in T : taskStatus'[t] # "pending" =>
                    \A d \in graph'.deps[t] : taskStatus'[d] = "completed")
  BY <1>6, GraphOps DEF Graph!GraphInv, Graph!Built
<1>. QED
  BY <1>2, <1>4, <1>5, <1>7, <1>8, <1>10, <1>11

(* A step of the caller changes the status of one sub-task that is not     *)
(* completed, and of one that waits only when all it depends on is.        *)
LEMMA MarkStep ==
  ASSUME Graph!GraphInv, Graph!Built, NEW t \in Graph!Tasks(graph), NEW s \in {"running", "completed", "failed"},
         UNCHANGED graph, taskStatus' = [taskStatus EXCEPT ![t] = s], taskStatus[t] # "completed",
         taskStatus[t] = "pending" => \A d \in graph.deps[t] : taskStatus[d] = "completed"
  PROVE  Graph!GraphInv'
<1>. DEFINE T == Graph!Tasks(graph)
<1>1. /\ IsFiniteSet(T) /\ T \subseteq GraphSteps /\ T # {}
      /\ graph.order \in Seq(GraphSteps) /\ Graph!Range(graph.order) = T
      /\ graph.deps \in [T -> SUBSET GraphSteps]
      /\ Graph!DepsKnown(graph) /\ Graph!WellFounded(graph)
      /\ taskStatus \in [T -> {"pending", "running", "completed", "failed"}]
      /\ \A u \in T : taskStatus[u] # "pending" => \A d \in graph.deps[u] : taskStatus[d] = "completed"
  BY GraphOps DEF Graph!GraphInv, Graph!Built
<1>2. graph.deps \in [T -> SUBSET T]
  BY <1>1 DEF Graph!DepsKnown
<1>3. taskStatus' \in [T -> {"pending", "running", "completed", "failed"}]
  BY <1>1
<1>4. ASSUME NEW u \in T, taskStatus'[u] # "pending", NEW d \in graph.deps[u]
      PROVE  taskStatus'[d] = "completed"
  <2>1. taskStatus[d] = "completed"
    BY <1>1, <1>4
  <2>2. d \in T /\ d # t
    BY <1>2, <1>4, <2>1
  <2>. QED
    BY <1>1, <2>1, <2>2
<1>. HIDE DEF T
<1>5. Graph!GraphInv' <=>
        (graph.state # "none" =>
          /\ IsFiniteSet(T) /\ T \subseteq GraphSteps /\ T # {}
          /\ graph.order \in Seq(GraphSteps) /\ Graph!Range(graph.order) = T
          /\ graph.deps \in [T -> SUBSET GraphSteps]
          /\ (graph.state = "built") <=> Graph!DepsKnown(graph) /\ Graph!WellFounded(graph)
          /\ graph.state = "built" =>
               /\ taskStatus' \in [T -> {"pending", "running", "completed", "failed"}]
               /\ \A u \in T : taskStatus'[u] # "pending" =>
                    \A d \in graph.deps[u] : taskStatus'[d] = "completed")
  BY GraphOps DEF Graph!GraphInv, Graph!Built, T
<1>6. graph.state = "built"
  BY DEF Graph!Built
<1>. QED
  BY <1>1, <1>3, <1>4, <1>5, <1>6

LEMMA GraphKeeps ==
  ASSUME Graph!GraphInv, [Graph!Next]_(Graph!graphVars)
  PROVE  Graph!GraphInv'
<1>1. CASE UNCHANGED Graph!graphVars
  <2>1. graph' = graph /\ taskStatus' = taskStatus
    BY <1>1 DEF Graph!graphVars
  <2>. QED
    BY <2>1 DEF Graph!GraphInv, Graph!Built, Graph!Tasks, Graph!DepsKnown, Graph!WellFounded
<1>2. ASSUME NEW lines \in Graph!Answers, Graph!New(lines) PROVE Graph!GraphInv'
  BY <1>2, NewGraph
<1>3. ASSUME Graph!Built, NEW t \in Graph!Tasks(graph), Graph!MarkRunning(t) PROVE Graph!GraphInv'
  <2>1. /\ taskStatus[t] = "pending" /\ \A d \in graph.deps[t] : taskStatus[d] = "completed"
        /\ taskStatus' = [taskStatus EXCEPT ![t] = "running"] /\ UNCHANGED graph
    BY <1>3 DEF Graph!MarkRunning, Graph!ReadyTasks, Graph!Ready
  <2>. QED
    BY <1>3, <2>1, MarkStep
<1>4. ASSUME Graph!Built, NEW t \in Graph!Tasks(graph), Graph!MarkCompleted(t) PROVE Graph!GraphInv'
  <2>1. /\ taskStatus[t] = "running" /\ UNCHANGED graph
        /\ taskStatus' = [taskStatus EXCEPT ![t] = "completed"]
    BY <1>4 DEF Graph!MarkCompleted
  <2>. QED
    BY <1>4, <2>1, MarkStep
<1>5. ASSUME Graph!Built, NEW t \in Graph!Tasks(graph), Graph!MarkFailed(t) PROVE Graph!GraphInv'
  <2>1. /\ taskStatus[t] = "running" /\ UNCHANGED graph
        /\ taskStatus' = [taskStatus EXCEPT ![t] = "failed"]
    BY <1>5 DEF Graph!MarkFailed
  <2>. QED
    BY <1>5, <2>1, MarkStep
<1>. QED
  BY <1>1, <1>2, <1>3, <1>4, <1>5 DEF Graph!Next

LEMMA GraphFollows ==
  ASSUME Graph!GraphInv
  PROVE  Graph!TypeOK /\ Graph!AcceptedIffAcyclic /\ Graph!OrderRespectsDeps /\ Graph!GraphAdvances
<1>. DEFINE T == Graph!Tasks(graph)
<1>1. Graph!AcceptedIffAcyclic
  <2>. SUFFICES ASSUME graph.state # "none"
                PROVE  Graph!Built <=> /\ UNION {graph.deps[t] : t \in T} \subseteq T
                                       /\ \A S \in (SUBSET T) \ {{}} : \E t \in S : graph.deps[t] \cap S = {}
    BY DEF Graph!AcceptedIffAcyclic
  <2>1. Graph!Built <=> Graph!DepsKnown(graph) /\ Graph!WellFounded(graph)
    BY DEF Graph!GraphInv
  <2>2. Graph!DepsKnown(graph) <=> UNION {graph.deps[t] : t \in T} \subseteq T
    BY DEF Graph!DepsKnown
  <2>. QED
    BY <2>1, <2>2 DEF Graph!WellFounded
<1>2. ASSUME Graph!Built
      PROVE  /\ IsFiniteSet(T) /\ T \subseteq GraphSteps /\ T # {}
             /\ graph.order \in Seq(GraphSteps) /\ Graph!Range(graph.order) = T
             /\ graph.deps \in [T -> SUBSET T] /\ Graph!WellFounded(graph)
             /\ taskStatus \in [T -> {"pending", "running", "completed", "failed"}]
             /\ \A u \in T : taskStatus[u] # "pending" => \A d \in graph.deps[u] : taskStatus[d] = "completed"
  BY <1>2, GraphOps DEF Graph!GraphInv, Graph!Built, Graph!DepsKnown
<1>3. Graph!TypeOK
  BY <1>2 DEF Graph!TypeOK
<1>4. Graph!OrderRespectsDeps
  <2>. SUFFICES ASSUME Graph!Built
                PROVE  LET o == Graph!TopologicalOrder(graph)
                       IN  /\ Graph!Range(o) = T /\ Len(o) = Graph!Cardinality(T)
                           /\ \A i, j \in DOMAIN o : o[j] \in graph.deps[o[i]] => j < i
    BY DEF Graph!OrderRespectsDeps
  <2>. DEFINE o == Graph!Kahn(graph)
  <2>1. Graph!Proper(graph) /\ Graph!WellFounded(graph)
    BY <1>2, GraphOps DEF Graph!Proper
  <2>2. /\ Graph!Range(o) = T /\ Len(o) = Cardinality(T) /\ Graph!Distinct(o) /\ Graph!InTurn(graph, o)
    BY <2>1, KahnMeans
  <2>. HIDE DEF o
  <2>3. ASSUME NEW i \in DOMAIN o, NEW j \in DOMAIN o, o[j] \in graph.deps[o[i]] PROVE j < i
    <3>1. PICK m \in DOMAIN o : m < i /\ o[m] = o[j]
      BY <2>2, <2>3 DEF Graph!InTurn
    <3>2. m = j
      BY <2>2, <3>1 DEF Graph!Distinct
    <3>. QED
      BY <3>1, <3>2
  <2>. QED
    BY <2>2, <2>3, GraphOps DEF Graph!TopologicalOrder, o
<1>5. Graph!GraphAdvances
  <2>. SUFFICES ASSUME Graph!Built, \A t \in T : taskStatus[t] # "running" PROVE Graph!Advice # "nothing"
    BY <1>2 DEF Graph!GraphAdvances
  <2>1. CASE Graph!ReadyTasks # {}
    BY <2>1 DEF Graph!Advice
  <2>2. CASE \E t \in T : taskStatus[t] = "failed"
    BY <2>2 DEF Graph!Advice, Graph!IsFailed
  <2>3. CASE Graph!ReadyTasks = {} /\ \A t \in T : taskStatus[t] # "failed"
    <3>. DEFINE S == {t \in T : taskStatus[t] = "pending"}
    <3>1. ASSUME S # {} PROVE FALSE
      <4>1. PICK t \in S : graph.deps[t] \cap S = {}
        BY <1>2, <3>1 DEF Graph!WellFounded
      <4>2. \A d \in graph.deps[t] : taskStatus[d] = "completed"
        BY <1>2, <2>3, <4>1
      <4>3. t \in Graph!ReadyTasks
        BY <1>2, <4>1, <4>2 DEF Graph!ReadyTasks, Graph!Ready
      <4>. QED
        BY <2>3, <4>3
    <3>2. \A t \in T : taskStatus[t] = "completed"
      BY <1>2, <2>3, <3>1
    <3>3. Graph!IsComplete
      BY <1>2, <3>2 DEF Graph!IsComplete
    <3>. QED
      BY <3>3 DEF Graph!Advice
  <2>. QED
    BY <2>1, <2>2, <2>3
<1>. QED
  BY <1>1, <1>3, <1>4, <1>5

-----------------------------------------------------------------------------
(* What holds at zero and from each number to the next holds up to N.      *)
LEMMA UpTo ==
  ASSUME NEW N \in Nat, NEW G, 0 \in G, \A n \in 1..N : n - 1 \in G => n \in G
  PROVE  \A n \in 0..N : n \in G
<1>. DEFINE Bad == {n \in 0..N : n \notin G}
<1>1. Bad \in SUBSET Nat
  BY SMT
<1>2. SUFFICES ASSUME Bad # {} PROVE FALSE
  OBVIOUS
<1>3. PICK n \in Bad : \A y \in Bad : n <= y
  <2>. HIDE DEF Bad
  <2>. QED
    BY <1>1, <1>2, LeastIn
<1>4. n \in 1..N /\ n - 1 \in 0..N /\ ~(n <= n - 1)
  <2>1. n \in 0..N /\ n # 0
    BY <1>3
  <2>. QED
    BY <2>1
<1>5. n - 1 \in G
  BY <1>3, <1>4
<1>. QED
  BY <1>3, <1>4, <1>5

(* A value can be carried through N steps.                                 *)
Carries(f, N, V, a, s) == f \in [0..N -> V] /\ f[0] = a /\ \A n \in 1..N : f[n] = s[n][f[n - 1]]

LEMMA RoundsOf ==
  ASSUME NEW N \in Nat, NEW V, NEW a \in V, NEW s \in [1..N -> [V -> V]]
  PROVE  \E f : Carries(f, N, V, a, s)
<1>. DEFINE Fits(m, f) == /\ f \in [0..m -> V]
                          /\ \A n \in 0..m : f[n] = IF n = 0 THEN a ELSE s[n][f[n - 1]]
            G == {m \in 0..N : \E f : Fits(m, f)}
<1>1. 0 \in G
  <2>1. Fits(0, [n \in 0..0 |-> a])
    OBVIOUS
  <2>2. 0 \in 0..N
    OBVIOUS
  <2>. HIDE DEF Fits
  <2>. QED
    BY <2>1, <2>2
<1>2. ASSUME NEW m \in 1..N, m - 1 \in G PROVE m \in G
  <2>1. PICK f : Fits(m - 1, f)
    BY <1>2
  <2>. DEFINE h == [n \in 0..m |-> IF n = m THEN s[m][f[m - 1]] ELSE f[n]]
  <2>2. f[m - 1] \in V /\ \A n \in 0..m : n # m => n \in 0..(m - 1)
    BY <2>1
  <2>3. h \in [0..m -> V]
    BY <2>1, <2>2
  <2>4. ASSUME NEW n \in 0..m PROVE h[n] = IF n = 0 THEN a ELSE s[n][h[n - 1]]
    <3>1. CASE n = m
      <4>1. n # 0 /\ n - 1 # m /\ n - 1 \in 0..m /\ n - 1 = m - 1
        BY <3>1
      <4>2. h[n - 1] = f[m - 1]
        BY <4>1
      <4>. QED
        BY <3>1, <4>1, <4>2
    <3>2. CASE n # m
      <4>1. n \in 0..(m - 1) /\ (n # 0 => n - 1 \in 0..m /\ n - 1 # m)
        BY <3>2
      <4>2. f[n] = IF n = 0 THEN a ELSE s[n][f[n - 1]]
        BY <2>1, <4>1
      <4>. QED
        BY <3>2, <4>1, <4>2
    <3>. QED
      BY <3>1, <3>2
  <2>5. Fits(m, h)
    BY <2>3, <2>4
  <2>6. m \in 0..N
    OBVIOUS
  <2>. HIDE DEF Fits
  <2>. QED
    BY <2>5, <2>6
<1>3. N \in G
  <2>a. N \in 0..N
    OBVIOUS
  <2>. HIDE DEF G
  <2>. QED
    BY <1>1, <1>2, <2>a, UpTo
<1>4. PICK f : Fits(N, f)
  BY <1>3
<1>5. f[0] = a /\ \A n \in 1..N : f[n] = s[n][f[n - 1]]
  <2>1. 0 \in 0..N /\ \A n \in 1..N : n \in 0..N /\ n # 0
    OBVIOUS
  <2>. QED
    BY <1>4, <2>1
<1>. QED
  BY <1>4, <1>5 DEF Carries

(* Following the parents stays within the calls and, in a forest, ends at  *)
(* the root.                                                               *)
LEMMA FindGoes ==
  ASSUME NEW n \in Nat, NEW parent \in [1..n -> 1..n], NEW x \in 1..n
  PROVE  \E up : /\ up \in [0..n -> 1..n] /\ up[0] = x /\ up[n] = Exec!Find(parent, x)
                 /\ \A m \in 1..n : up[m] = parent[up[m - 1]]
<1>1. Len(parent) = n
  OBVIOUS
<1>. DEFINE up[m \in 0..n] == IF m = 0 THEN x ELSE parent[up[m - 1]]
<1>2. Exec!Find(parent, x) = up[n]
  BY <1>1 DEF Exec!Find
<1>3. \E f : f = [m \in 0..n |-> IF m = 0 THEN x ELSE parent[f[m - 1]]]
  <2>. DEFINE s == [m \in 1..n |-> parent]
  <2>1. s \in [1..n -> [1..n -> 1..n]]
    OBVIOUS
  <2>3. PICK f : Carries(f, n, 1..n, x, s)
    <3>. HIDE DEF s
    <3>. QED
      BY <2>1, RoundsOf
  <2>2. \A m \in 0..n : m # 0 => m \in 1..n
    OBVIOUS
  <2>4. f = [m \in 0..n |-> IF m = 0 THEN x ELSE parent[f[m - 1]]]
    BY <2>2, <2>3 DEF Carries
  <2>. QED
    BY <2>4
<1>4. up = [m \in 0..n |-> IF m = 0 THEN x ELSE parent[up[m - 1]]]
  BY <1>3
<1>. HIDE DEF up
<1>5. up[0] = x /\ \A m \in 1..n : up[m] = parent[up[m - 1]]
  <2>1. 0 \in 0..n /\ \A m \in 1..n : m \in 0..n /\ m # 0
    OBVIOUS
  <2>2. \A m \in 0..n : up[m] = IF m = 0 THEN x ELSE parent[up[m - 1]]
    BY <1>4
  <2>. QED
    BY <2>1, <2>2
<1>6. \A m \in 0..n : up[m] \in 1..n
  <2>. DEFINE G == {m \in 0..n : up[m] \in 1..n}
  <2>0. 0 \in 0..n /\ \A m \in 1..n : m \in 0..n
    OBVIOUS
  <2>1. 0 \in G
    BY <1>5, <2>0
  <2>2. ASSUME NEW m \in 1..n, m - 1 \in G PROVE m \in G
    <3>1. up[m - 1] \in 1..n /\ up[m] = parent[up[m - 1]]
      BY <1>5, <2>2
    <3>. QED
      BY <2>0, <3>1
  <2>3. \A m \in 0..n : m \in G
    <3>. HIDE DEF G
    <3>. QED
      BY <2>1, <2>2, UpTo
  <2>. QED
    BY <2>3
<1>7. up \in [0..n -> 1..n]
  BY <1>4, <1>6
<1>. QED
  BY <1>2, <1>5, <1>7

LEMMA FindIs ==
  ASSUME NEW n \in Nat, NEW parent, NEW root, NEW depth, Exec!Forest(n, parent, root, depth), NEW x \in 1..n
  PROVE  Exec!Find(parent, x) = root[x]
<1>1. /\ parent \in [1..n -> 1..n] /\ root \in [1..n -> 1..n] /\ depth \in [1..n -> Nat]
      /\ \A y \in 1..n : /\ parent[y] = y => root[y] = y
                         /\ parent[y] # y => root[parent[y]] = root[y] /\ depth[parent[y]] < depth[y]
  BY DEF Exec!Forest
<1>2. PICK up : /\ up \in [0..n -> 1..n] /\ up[0] = x /\ up[n] = Exec!Find(parent, x)
                /\ \A m \in 1..n : up[m] = parent[up[m - 1]]
  BY <1>1, FindGoes
<1>3. depth[x] < n
  <2>. DEFINE R == Exec!Roots(parent)
  <2>1. R \in SUBSET (1..n) /\ root[x] \in R
    BY <1>1 DEF Exec!Roots, Exec!Forest
  <2>2. IsFiniteSet(R)
    BY <2>1, FS_Interval, FS_Subset
  <2>3. Cardinality(R) \in Nat /\ Cardinality(R) # 0
    BY <2>1, <2>2, FS_CardinalityType, FS_EmptySet
  <2>4. depth[x] + Cardinality(R) <= n
    BY ExecOps DEF Exec!Forest
  <2>5. depth[x] \in Nat
    BY <1>1
  <2>. HIDE DEF R
  <2>. QED
    BY <2>3, <2>4, <2>5
<1>. DEFINE G == {m \in 0..n : /\ root[up[m]] = root[x]
                               /\ parent[up[m]] = up[m] \/ depth[up[m]] + m <= depth[x]}
<1>4. 0 \in G
  <2>1. depth[x] \in Nat /\ 0 \in 0..n
    BY <1>1
  <2>2. up[0] = x
    BY <1>2
  <2>3. depth[x] + 0 <= depth[x]
    BY <2>1
  <2>. QED
    BY <2>1, <2>2, <2>3
<1>5. ASSUME NEW m \in 1..n, m - 1 \in G PROVE m \in G
  <2>. DEFINE y == up[m - 1]
  <2>1. y \in 1..n /\ up[m] = parent[y] /\ parent[y] \in 1..n
    <3>1. m - 1 \in 0..n
      OBVIOUS
    <3>. QED
      BY <1>1, <1>2, <3>1
  <2>2. root[y] = root[x] /\ (parent[y] = y \/ depth[y] + (m - 1) <= depth[x])
    BY <1>5
  <2>3. depth[y] \in Nat /\ depth[parent[y]] \in Nat /\ depth[x] \in Nat
    BY <1>1, <2>1
  <2>. HIDE DEF y
  <2>4. CASE parent[y] = y
    BY <2>1, <2>2, <2>4
  <2>5. CASE parent[y] # y
    <3>1. root[parent[y]] = root[y] /\ depth[parent[y]] < depth[y]
      BY <1>1, <2>1, <2>5
    <3>2. depth[parent[y]] + m <= depth[x]
      BY <2>2, <2>3, <2>5, <3>1
    <3>. QED
      BY <2>1, <2>2, <3>1, <3>2
  <2>. QED
    BY <2>4, <2>5
<1>6. n \in G
  <2>. HIDE DEF G
  <2>. QED
    BY <1>4, <1>5, UpTo
<1>. DEFINE z == up[n]
<1>7. z \in 1..n /\ root[z] = root[x] /\ (parent[z] = z \/ depth[z] + n <= depth[x])
  BY <1>2, <1>6
<1>8. parent[z] = z
  <2>1. depth[z] \in Nat /\ depth[x] \in Nat
    BY <1>1, <1>7
  <2>. HIDE DEF z
  <2>. QED
    BY <1>3, <1>7, <2>1
<1>. QED
  BY <1>1, <1>2, <1>7, <1>8

(* The root p becomes a child of the root q.                               *)
Moved(n, parent, root, depth, p, q, parent2, root2, depth2) ==
  /\ parent2 \in [1..n -> 1..n] /\ root2 \in [1..n -> 1..n] /\ depth2 \in [1..n -> Nat]
  /\ parent2[p] = q /\ \A x \in 1..n : x # p => parent2[x] = parent[x]
  /\ \A x \in 1..n : root[x] = p => root2[x] = q /\ depth2[x] = depth[x] + 1
  /\ \A x \in 1..n : root[x] # p => root2[x] = root[x] /\ depth2[x] = depth[x]

LEMMA Deeper == \A n, a, b, c, d \in Nat : d = c - 1 /\ (a = b + 1 \/ a = b) /\ b + c <= n => a + d <= n
OBVIOUS

LEMMA Joined ==
  ASSUME NEW n \in Nat, NEW parent, NEW root, NEW depth, Exec!Forest(n, parent, root, depth),
         NEW p \in 1..n, NEW q \in 1..n, p # q, parent[p] = p, parent[q] = q,
         NEW parent2, NEW root2, NEW depth2, Moved(n, parent, root, depth, p, q, parent2, root2, depth2)
  PROVE  Exec!Forest(n, parent2, root2, depth2)
<1>. DEFINE R == Exec!Roots(parent)
            R2 == Exec!Roots(parent2)
<1>1. /\ parent \in [1..n -> 1..n] /\ root \in [1..n -> 1..n] /\ depth \in [1..n -> Nat]
      /\ \A x \in 1..n : /\ parent[root[x]] = root[x]
                         /\ parent[x] = x => root[x] = x /\ depth[x] = 0
                         /\ parent[x] # x => root[parent[x]] = root[x] /\ depth[parent[x]] < depth[x]
                         /\ depth[x] + Cardinality(R) <= n
  BY ExecOps DEF Exec!Forest
<1>2. /\ parent2 \in [1..n -> 1..n] /\ parent2[p] = q /\ \A x \in 1..n : x # p => parent2[x] = parent[x]
      /\ root2 \in [1..n -> 1..n] /\ depth2 \in [1..n -> Nat]
  BY DEF Moved
<1>3. root[p] = p /\ root[q] = q /\ depth[p] = 0 /\ depth[q] = 0
  BY <1>1
<1>4. Cardinality(R2) = Cardinality(R) - 1 /\ Cardinality(R) \in Nat
  <2>a. R = {x \in 1..n : parent[x] = x} /\ R2 = {x \in 1..n : parent2[x] = x}
    BY <1>1, <1>2 DEF Exec!Roots
  <2>. HIDE DEF R, R2
  <2>1. R \in SUBSET (1..n) /\ p \in R /\ R2 = R \ {p}
    <3>1. p \in R /\ p \notin R2
      BY <1>2, <2>a
    <3>2. \A x : x \in R2 <=> x \in R /\ x # p
      BY <1>2, <2>a, <3>1
    <3>. QED
      BY <2>a, <3>1, <3>2
  <2>b. IsFiniteSet(1..n)
    BY FS_Interval
  <2>2. IsFiniteSet(R)
    BY <2>1, <2>b, FS_Subset
  <2>. QED
    BY <2>1, <2>2, FS_RemoveElement, FS_CardinalityType
<1>6. Cardinality(R2) \in Nat
  <2>1. R2 \in SUBSET (1..n)
    BY <1>2 DEF Exec!Roots
  <2>. HIDE DEF R2
  <2>2. IsFiniteSet(1..n)
    BY FS_Interval
  <2>. QED
    BY <2>1, <2>2, FS_Subset, FS_CardinalityType
<1>5. ASSUME NEW x \in 1..n
      PROVE  /\ parent2[root2[x]] = root2[x]
             /\ parent2[x] = x => root2[x] = x /\ depth2[x] = 0
             /\ parent2[x] # x => root2[parent2[x]] = root2[x] /\ depth2[parent2[x]] < depth2[x]
             /\ depth2[x] + Cardinality(R2) <= n
  <2>. HIDE DEF R, R2
  <2>0. root[x] \in 1..n /\ parent[x] \in 1..n /\ depth[x] \in Nat
    BY <1>1
  <2>1. parent2[root2[x]] = root2[x]
    <3>1. CASE root[x] = p
      BY <1>1, <1>2, <1>3, <3>1 DEF Moved
    <3>2. CASE root[x] # p
      BY <1>1, <1>2, <2>0, <3>2 DEF Moved
    <3>. QED
      BY <3>1, <3>2
  <2>2. ASSUME parent2[x] = x PROVE root2[x] = x /\ depth2[x] = 0
    <3>1. x # p /\ parent[x] = x
      BY <1>2, <2>2
    <3>2. root[x] = x /\ depth[x] = 0
      BY <1>1, <3>1
    <3>. QED
      BY <3>1, <3>2 DEF Moved
  <2>3. ASSUME parent2[x] # x PROVE root2[parent2[x]] = root2[x] /\ depth2[parent2[x]] < depth2[x]
    <3>1. CASE x = p
      <4>1. parent2[x] = q /\ root2[q] = q /\ root2[x] = q
        BY <1>2, <1>3, <3>1 DEF Moved
      <4>2. depth2[q] = 0
        BY <1>3 DEF Moved
      <4>3. depth2[x] = 0 + 1
        BY <1>3, <3>1 DEF Moved
      <4>. QED
        BY <4>1, <4>2, <4>3
    <3>2. CASE x # p
      <4>1. parent2[x] = parent[x] /\ parent[x] # x
        BY <1>2, <2>3, <3>2
      <4>2. root[parent[x]] = root[x] /\ depth[parent[x]] < depth[x] /\ depth[parent[x]] \in Nat
        BY <1>1, <2>0, <4>1
      <4>3. root2[parent[x]] = root2[x] /\ depth2[parent[x]] < depth2[x]
        <5>1. CASE root[x] = p
          <6>1. root2[parent[x]] = q /\ depth2[parent[x]] = depth[parent[x]] + 1 /\ root2[x] = q /\ depth2[x] = depth[x] + 1
            BY <2>0, <4>2, <5>1 DEF Moved
          <6>. QED
            BY <2>0, <4>2, <6>1
        <5>2. CASE root[x] # p
          <6>1. root2[parent[x]] = root[x] /\ depth2[parent[x]] = depth[parent[x]] /\ root2[x] = root[x] /\ depth2[x] = depth[x]
            BY <2>0, <4>2, <5>2 DEF Moved
          <6>. QED
            BY <4>2, <6>1
        <5>. QED
          BY <5>1, <5>2
      <4>. QED
        BY <4>1, <4>3
    <3>. QED
      BY <3>1, <3>2
  <2>4. depth2[x] = depth[x] + 1 \/ depth2[x] = depth[x]
    BY DEF Moved
  <2>5. depth[x] + Cardinality(R) <= n /\ depth2[x] \in Nat
    BY <1>1, <1>2
  <2>6. depth2[x] + Cardinality(R2) <= n
    <3>. QED
      <4>2. Cardinality(R2) \in Nat
        BY <1>4, <1>6
      <4>. QED
        BY <1>4, <2>0, <2>4, <2>5, <4>2, Deeper
  <2>. QED
    BY <2>1, <2>2, <2>3, <2>6
<1>. QED
  <2>1. Exec!Cardinality(Exec!Roots(parent2)) = Cardinality(R2)
    BY ExecOps
  <2>. QED
    BY <1>2, <1>5, <2>1 DEF Exec!Forest

LEMMA TurnKeeps ==
  ASSUME NEW cs \in Seq(Exec!Call), NEW parent, NEW i \in 1..Len(cs), NEW j \in 1..Len(cs),
         Exec!UnionInv(cs, parent, i, j - 1)
  PROVE  Exec!UnionInv(cs, Exec!Turn(cs, parent, i, j), i, j)
<1>. DEFINE n == Len(cs)
<1>0. n \in Nat /\ DOMAIN cs = 1..n
  OBVIOUS
<1>1. PICK root, depth : /\ Exec!Forest(n, parent, root, depth) /\ Exec!Linked(cs, root)
                         /\ Exec!Merged(cs, root, i, j - 1)
  BY DEF Exec!UnionInv
<1>2. CASE ~(i < j /\ Exec!AreDependent(cs[i], cs[j]))
  <2>1. Exec!Turn(cs, parent, i, j) = parent
    BY <1>2 DEF Exec!Turn
  <2>2. Exec!Merged(cs, root, i, j)
    <3>. SUFFICES ASSUME NEW a \in DOMAIN cs, NEW b \in DOMAIN cs, a < b, Exec!AreDependent(cs[a], cs[b]),
                         a < i \/ (a = i /\ b <= j)
                  PROVE  root[a] = root[b]
      BY DEF Exec!Merged
    <3>1. ~(a = i /\ b = j)
      BY <1>2
    <3>2. a < i \/ (a = i /\ b <= j - 1)
      BY <1>0, <3>1
    <3>. QED
      BY <1>1, <3>2 DEF Exec!Merged
  <2>. QED
    BY <1>1, <2>1, <2>2 DEF Exec!UnionInv
<1>3. CASE i < j /\ Exec!AreDependent(cs[i], cs[j])
  <2>. DEFINE p == root[i]
              q == root[j]
              parent2 == [parent EXCEPT ![p] = q]
  <2>1. p \in 1..n /\ q \in 1..n /\ parent[p] = p /\ parent[q] = q /\ parent \in [1..n -> 1..n]
    BY <1>1 DEF Exec!Forest
  <2>2. Exec!Turn(cs, parent, i, j) = parent2
    <3>1. Exec!Find(parent, i) = p /\ Exec!Find(parent, j) = q
      BY <1>0, <1>1, FindIs
    <3>. QED
      BY <1>3, <3>1 DEF Exec!Turn, Exec!Unite
  <2>3. ASSUME NEW a \in DOMAIN cs, NEW b \in DOMAIN cs, a < b, Exec!AreDependent(cs[a], cs[b]),
               a < i \/ (a = i /\ b <= j)
        PROVE  root[a] = root[b] \/ (a = i /\ b = j)
    <3>1. (a = i /\ b = j) \/ a < i \/ (a = i /\ b <= j - 1)
      BY <1>0, <2>3
    <3>. QED
      BY <1>1, <2>3, <3>1 DEF Exec!Merged
  <2>4. CASE p = q
    <3>1. parent2 = parent
      BY <2>1, <2>4
    <3>2. Exec!Merged(cs, root, i, j)
      BY <2>3, <2>4 DEF Exec!Merged
    <3>. QED
      BY <1>1, <2>2, <3>1, <3>2 DEF Exec!UnionInv
  <2>5. CASE p # q
    <3>. DEFINE root2 == [x \in 1..n |-> IF root[x] = p THEN q ELSE root[x]]
                depth2 == [x \in 1..n |-> IF root[x] = p THEN depth[x] + 1 ELSE depth[x]]
    <3>1. Exec!Forest(n, parent2, root2, depth2)
      <4>1. root2 \in [1..n -> 1..n]
        <5>1. \A x \in 1..n : root[x] \in 1..n
          BY <1>1 DEF Exec!Forest
        <5>2. \A x \in 1..n : (IF root[x] = p THEN q ELSE root[x]) \in 1..n
          BY <2>1, <5>1
        <5>. QED
          BY <5>2
      <4>2. depth2 \in [1..n -> Nat]
        <5>1. \A x \in 1..n : depth[x] \in Nat
          BY <1>1 DEF Exec!Forest
        <5>2. \A x \in 1..n : depth[x] + 1 \in Nat
          BY <5>1
        <5>3. \A x \in 1..n : (IF root[x] = p THEN depth[x] + 1 ELSE depth[x]) \in Nat
          BY <5>1, <5>2, Zenon
        <5>. QED
          BY <5>3
      <4>3. /\ parent2 \in [1..n -> 1..n] /\ parent2[p] = q
            /\ \A x \in 1..n : x # p => parent2[x] = parent[x]
        BY <2>1
      <4>4. Moved(n, parent, root, depth, p, q, parent2, root2, depth2)
        BY <4>1, <4>2, <4>3 DEF Moved
      <4>. HIDE DEF p, q, root2, depth2, parent2, n
      <4>. QED
        BY <1>0, <1>1, <2>1, <2>5, <4>4, Joined
    <3>2. \A x \in 1..n : root2[x] = IF root[x] = p THEN q ELSE root[x]
      OBVIOUS
    <3>. HIDE DEF root2, depth2, parent2
    <3>3. Exec!Linked(cs, root2)
      <4>. SUFFICES ASSUME NEW S \in SUBSET DOMAIN cs, Exec!Closed(cs, S), NEW x \in S, NEW y \in DOMAIN cs,
                           root2[x] = root2[y]
                    PROVE  y \in S
        BY DEF Exec!Linked
      <4>0. \A v \in S : \A w \in DOMAIN cs : root[v] = root[w] => w \in S
        BY <1>1 DEF Exec!Linked
      <4>1. i \in DOMAIN cs /\ j \in DOMAIN cs /\ x \in 1..n /\ y \in 1..n
        BY <1>0
      <4>2. Exec!Dep(cs, i, j) /\ Exec!Dep(cs, j, i)
        <5>1. ~(j < i)
          BY <1>0, <1>3
        <5>. QED
          BY <1>3, <5>1 DEF Exec!Dep
      <4>3. i \in S <=> j \in S
        BY <4>1, <4>2 DEF Exec!Closed
      <4>4. root[x] = root[y] \/ (root[x] = p /\ root[y] = q) \/ (root[x] = q /\ root[y] = p)
        BY <3>2, <4>1
      <4>. QED
        BY <4>0, <4>1, <4>3, <4>4
    <3>4. Exec!Merged(cs, root2, i, j)
      BY <1>0, <2>3, <3>2 DEF Exec!Merged
    <3>. QED
      BY <2>2, <3>1, <3>3, <3>4 DEF Exec!UnionInv
  <2>. QED
    BY <2>4, <2>5
<1>. QED
  BY <1>2, <1>3

(* The loops go from one turn to the next.                                 *)
LEMMA TurnType ==
  ASSUME NEW cs \in Seq(Exec!Call), NEW parent \in [1..Len(cs) -> 1..Len(cs)],
         NEW i \in 1..Len(cs), NEW j \in 1..Len(cs)
  PROVE  Exec!Turn(cs, parent, i, j) \in [1..Len(cs) -> 1..Len(cs)]
<1>. DEFINE n == Len(cs)
<1>0. n \in Nat
  OBVIOUS
<1>1. ASSUME NEW x \in 1..n PROVE Exec!Find(parent, x) \in 1..n
  <2>1. PICK up : /\ up \in [0..n -> 1..n] /\ up[0] = x /\ up[n] = Exec!Find(parent, x)
                  /\ \A m \in 1..n : up[m] = parent[up[m - 1]]
    <3>1. parent \in [1..n -> 1..n] /\ x \in 1..n
      OBVIOUS
    <3>. HIDE DEF n
    <3>. QED
      BY <1>0, <3>1, FindGoes
  <2>2. n \in 0..n
    BY <1>0
  <2>. QED
    BY <2>1, <2>2
<1>2. Exec!Unite(parent, i, j) \in [1..n -> 1..n]
  BY <1>1 DEF Exec!Unite
<1>. QED
  BY <1>2 DEF Exec!Turn

LEMMA RowGoes ==
  ASSUME NEW cs \in Seq(Exec!Call), NEW parent \in [1..Len(cs) -> 1..Len(cs)], NEW i \in 1..Len(cs)
  PROVE  \E after \in [0..Len(cs) -> [1..Len(cs) -> 1..Len(cs)]] :
           /\ after[0] = parent /\ after[Len(cs)] = Exec!Row(cs, parent, i)
           /\ \A j \in 1..Len(cs) : after[j] = Exec!Turn(cs, after[j - 1], i, j)
<1>. DEFINE n == Len(cs)
            V == [1..n -> 1..n]
            after[j \in 0..n] == IF j = 0 THEN parent ELSE Exec!Turn(cs, after[j - 1], i, j)
            s == [j \in 1..n |-> [p \in V |-> Exec!Turn(cs, p, i, j)]]
<1>0. n \in Nat /\ parent \in V /\ 0 \in 0..n /\ n \in 0..n
      /\ \A j \in 1..n : j \in 0..n /\ j # 0 /\ j - 1 \in 0..n
  OBVIOUS
<1>1. Exec!Row(cs, parent, i) = after[n]
  BY DEF Exec!Row
<1>2. s \in [1..n -> [V -> V]]
  BY TurnType
<1>3. PICK f : Carries(f, n, V, parent, s)
  <2>. HIDE DEF n, V, s
  <2>. QED
    BY <1>0, <1>2, RoundsOf
<1>4. f = [j \in 0..n |-> IF j = 0 THEN parent ELSE Exec!Turn(cs, f[j - 1], i, j)]
  <2>1. f \in [0..n -> V] /\ f[0] = parent /\ \A j \in 1..n : f[j] = s[j][f[j - 1]]
    BY <1>3 DEF Carries
  <2>2. ASSUME NEW j \in 0..n PROVE f[j] = IF j = 0 THEN parent ELSE Exec!Turn(cs, f[j - 1], i, j)
    <3>1. CASE j = 0
      BY <2>1, <3>1
    <3>2. CASE j # 0
      <4>1. j \in 1..n /\ j - 1 \in 0..n
        BY <3>2
      <4>2. f[j - 1] \in V /\ f[j] = s[j][f[j - 1]]
        BY <2>1, <4>1
      <4>3. f[j] = Exec!Turn(cs, f[j - 1], i, j)
        BY <4>1, <4>2
      <4>. QED
        BY <3>2, <4>3
    <3>. QED
      BY <3>1, <3>2
  <2>. QED
    BY <2>1, <2>2
<1>5. after = [j \in 0..n |-> IF j = 0 THEN parent ELSE Exec!Turn(cs, after[j - 1], i, j)]
  BY <1>4
<1>. HIDE DEF after, s
<1>6. after[0] = parent /\ \A j \in 1..n : after[j] = Exec!Turn(cs, after[j - 1], i, j)
  BY <1>0, <1>5
<1>7. \A j \in 0..n : after[j] \in V
  <2>. DEFINE G == {j \in 0..n : after[j] \in V}
  <2>1. 0 \in G
    BY <1>0, <1>6
  <2>2. ASSUME NEW j \in 1..n, j - 1 \in G PROVE j \in G
    <3>1. after[j - 1] \in V
      BY <2>2
    <3>a. Exec!Turn(cs, after[j - 1], i, j) \in V
      BY <3>1, TurnType
    <3>2. after[j] \in V
      BY <1>6, <3>a
    <3>. QED
      BY <1>0, <3>2
  <2>3. \A j \in 0..n : j \in G
    <3>. HIDE DEF G, V
    <3>. QED
      BY <1>0, <2>1, <2>2, UpTo
  <2>. QED
    BY <2>3
<1>8. after \in [0..n -> V]
  BY <1>5, <1>7
<1>. QED
  BY <1>1, <1>6, <1>8

LEMMA RowKeeps ==
  ASSUME NEW cs \in Seq(Exec!Call), NEW parent, NEW i \in 1..Len(cs), Exec!UnionInv(cs, parent, i, 0)
  PROVE  Exec!UnionInv(cs, Exec!Row(cs, parent, i), i, Len(cs))
<1>. DEFINE n == Len(cs)
<1>0. n \in Nat /\ n \in 0..n /\ 0 \in 0..n /\ \A j \in 1..n : j \in 0..n
  OBVIOUS
<1>1. parent \in [1..n -> 1..n]
  BY DEF Exec!UnionInv, Exec!Forest
<1>2. PICK after : /\ after[0] = parent /\ after[n] = Exec!Row(cs, parent, i)
                   /\ \A j \in 1..n : after[j] = Exec!Turn(cs, after[j - 1], i, j)
  BY <1>1, RowGoes
<1>. DEFINE G == {j \in 0..n : Exec!UnionInv(cs, after[j], i, j)}
<1>3. 0 \in G
  BY <1>0, <1>2
<1>4. ASSUME NEW j \in 1..n, j - 1 \in G PROVE j \in G
  <2>1. Exec!UnionInv(cs, after[j - 1], i, j - 1)
    BY <1>4
  <2>2. Exec!UnionInv(cs, Exec!Turn(cs, after[j - 1], i, j), i, j)
    BY <2>1, TurnKeeps
  <2>. QED
    BY <1>0, <1>2, <2>2
<1>5. n \in G
  <2>. HIDE DEF G
  <2>. QED
    BY <1>0, <1>3, <1>4, UpTo
<1>. QED
  BY <1>2, <1>5

LEMMA ParentsGo ==
  ASSUME NEW cs \in Seq(Exec!Call)
  PROVE  \E after : /\ after[0] = [x \in 1..Len(cs) |-> x] /\ after[Len(cs)] = Exec!Parents(cs)
                    /\ \A i \in 1..Len(cs) : after[i] = Exec!Row(cs, after[i - 1], i)
<1>. DEFINE n == Len(cs)
            V == [1..n -> 1..n]
            start == [x \in 1..n |-> x]
            after[i \in 0..n] == IF i = 0 THEN [x \in 1..n |-> x] ELSE Exec!Row(cs, after[i - 1], i)
            s == [i \in 1..n |-> [p \in V |-> Exec!Row(cs, p, i)]]
<1>0. n \in Nat /\ start \in V /\ 0 \in 0..n /\ n \in 0..n
      /\ \A i \in 1..n : i \in 0..n /\ i # 0 /\ i - 1 \in 0..n
  OBVIOUS
<1>1. Exec!Parents(cs) = after[n]
  BY DEF Exec!Parents
<1>2. ASSUME NEW i \in 1..n, NEW p \in V PROVE Exec!Row(cs, p, i) \in V
  <2>1. PICK f \in [0..n -> V] : f[n] = Exec!Row(cs, p, i)
    BY RowGoes
  <2>. QED
    BY <1>0, <2>1
<1>3. s \in [1..n -> [V -> V]]
  BY <1>2
<1>4. PICK f : Carries(f, n, V, start, s)
  <2>. HIDE DEF n, V, s, start
  <2>. QED
    BY <1>0, <1>3, RoundsOf
<1>5. f = [i \in 0..n |-> IF i = 0 THEN [x \in 1..n |-> x] ELSE Exec!Row(cs, f[i - 1], i)]
  <2>1. f \in [0..n -> V] /\ f[0] = start /\ \A i \in 1..n : f[i] = s[i][f[i - 1]]
    BY <1>4 DEF Carries
  <2>2. ASSUME NEW i \in 0..n PROVE f[i] = IF i = 0 THEN [x \in 1..n |-> x] ELSE Exec!Row(cs, f[i - 1], i)
    <3>1. CASE i = 0
      BY <2>1, <3>1
    <3>2. CASE i # 0
      <4>1. i \in 1..n /\ i - 1 \in 0..n
        BY <3>2
      <4>2. f[i - 1] \in V /\ f[i] = s[i][f[i - 1]]
        BY <2>1, <4>1
      <4>3. f[i] = Exec!Row(cs, f[i - 1], i)
        BY <4>1, <4>2
      <4>. QED
        BY <3>2, <4>3
    <3>. QED
      BY <3>1, <3>2
  <2>. QED
    BY <2>1, <2>2
<1>6. after = [i \in 0..n |-> IF i = 0 THEN [x \in 1..n |-> x] ELSE Exec!Row(cs, after[i - 1], i)]
  BY <1>5
<1>. HIDE DEF after, s
<1>7. after[0] = start /\ \A i \in 1..n : after[i] = Exec!Row(cs, after[i - 1], i)
  BY <1>0, <1>6
<1>. QED
  BY <1>1, <1>7

(* Once all pairs are visited, calls have one root exactly if a chain of   *)
(* dependent calls connects them.                                          *)
LEMMA PairsVisited ==
  ASSUME NEW cs \in Seq(Exec!Call)
  PROVE  Exec!UnionInv(cs, Exec!Parents(cs), Len(cs), Len(cs))
<1>. DEFINE n == Len(cs)
            start == [x \in 1..n |-> x]
<1>0. n \in Nat /\ DOMAIN cs = 1..n /\ n \in 0..n /\ 0 \in 0..n /\ \A i \in 1..n : i \in 0..n
  OBVIOUS
<1>1. PICK after : /\ after[0] = start /\ after[n] = Exec!Parents(cs)
                   /\ \A i \in 1..n : after[i] = Exec!Row(cs, after[i - 1], i)
  BY ParentsGo
<1>. DEFINE G == {i \in 0..n : Exec!UnionInv(cs, after[i], i, n)}
<1>2. Exec!UnionInv(cs, start, 0, n)
  <2>. DEFINE zero == [x \in 1..n |-> 0]
  <2>1. start \in [1..n -> 1..n] /\ zero \in [1..n -> Nat] /\ \A x \in 1..n : start[x] = x /\ zero[x] = 0
    OBVIOUS
  <2>2. Exec!Cardinality(Exec!Roots(start)) = n
    <3>1. Exec!Roots(start) = 1..n
      BY DEF Exec!Roots
    <3>2. Cardinality(1..n) = n
      <4>. HIDE DEF n
      <4>. QED
        BY <1>0, FS_Interval
    <3>. QED
      BY <3>1, <3>2, ExecOps
  <2>. HIDE DEF start, zero
  <2>3. Exec!Forest(n, start, start, zero)
    <3>1. 0 + n <= n
      BY <1>0
    <3>. QED
      BY <2>1, <2>2, <3>1 DEF Exec!Forest
  <2>4. Exec!Linked(cs, start)
    BY <1>0, <2>1 DEF Exec!Linked
  <2>5. Exec!Merged(cs, start, 0, n)
    BY <1>0 DEF Exec!Merged
  <2>. QED
    BY <2>3, <2>4, <2>5 DEF Exec!UnionInv
<1>3. 0 \in G
  BY <1>0, <1>1, <1>2
<1>4. ASSUME NEW i \in 1..n, i - 1 \in G PROVE i \in G
  <2>1. PICK root, depth : /\ Exec!Forest(n, after[i - 1], root, depth) /\ Exec!Linked(cs, root)
                           /\ Exec!Merged(cs, root, i - 1, n)
    BY <1>4 DEF Exec!UnionInv
  <2>2. Exec!Merged(cs, root, i, 0)
    <3>. SUFFICES ASSUME NEW a \in DOMAIN cs, NEW b \in DOMAIN cs, a < b, Exec!AreDependent(cs[a], cs[b]),
                         a < i \/ (a = i /\ b <= 0)
                  PROVE  root[a] = root[b]
      BY DEF Exec!Merged
    <3>1. a < i - 1 \/ (a = i - 1 /\ b <= n)
      BY <1>0
    <3>. QED
      BY <2>1, <3>1 DEF Exec!Merged
  <2>3. Exec!UnionInv(cs, after[i - 1], i, 0)
    BY <2>1, <2>2 DEF Exec!UnionInv
  <2>4. Exec!UnionInv(cs, Exec!Row(cs, after[i - 1], i), i, n)
    BY <2>3, RowKeeps
  <2>. QED
    BY <1>0, <1>1, <2>4
<1>5. n \in G
  <2>. HIDE DEF G
  <2>. QED
    BY <1>0, <1>3, <1>4, UpTo
<1>. QED
  BY <1>1, <1>5

(* Ascending lists a set of numbers from the least to the greatest.        *)
LEMMA AscendingIs ==
  ASSUME NEW S \in SUBSET Nat, IsFiniteSet(S)
  PROVE  /\ Exec!Ascending(S) \in Seq(S) /\ Range(Exec!Ascending(S)) = S
         /\ \A k, l \in DOMAIN Exec!Ascending(S) : k < l => Exec!Ascending(S)[k] < Exec!Ascending(S)[l]
<1>. DEFINE A == Exec!Ascending(S)
<1>1. A = Graph!Sorted(S)
  BY DEF Exec!Ascending, Graph!Sorted, Exec!Cardinality, Graph!Cardinality
<1>2. /\ A \in Seq(S) /\ Range(A) = S
      /\ \A i, j \in DOMAIN A : A[i] = A[j] => i = j
      /\ \A n \in DOMAIN A : Cardinality({y \in S : y <= A[n]}) = n
  <2>. HIDE DEF A
  <2>. QED
    BY <1>1, SortedIs DEF Graph!Range, Range, Graph!Distinct
<1>. HIDE DEF A
<1>3. ASSUME NEW k \in DOMAIN A, NEW l \in DOMAIN A, k < l PROVE A[k] < A[l]
  <2>. DEFINE upTo(x) == {y \in S : y <= x}
  <2>1. A[k] \in Nat /\ A[l] \in Nat /\ k \in Nat /\ l \in Nat /\ \A y \in S : y \in Nat
    <3>1. PICK m \in Nat : A \in [1..m -> S]
      BY <1>2
    <3>2. k \in 1..m /\ l \in 1..m
      BY <3>1
    <3>3. A[k] \in S /\ A[l] \in S
      BY <3>1, <3>2
    <3>4. \A y \in S : y \in Nat
      OBVIOUS
    <3>5. A[k] \in Nat /\ A[l] \in Nat
      BY <3>3, <3>4, Zenon
    <3>6. k \in Nat /\ l \in Nat
      BY <3>2
    <3>. QED
      BY <3>4, <3>5, <3>6
  <2>2. ASSUME A[l] <= A[k] PROVE FALSE
    <3>0. \A y \in Nat : y <= A[l] => y <= A[k]
      BY <2>1, <2>2
    <3>1. upTo(A[l]) \in SUBSET upTo(A[k]) /\ upTo(A[k]) \in SUBSET S
      BY <2>1, <3>0
    <3>2. Cardinality(upTo(A[l])) <= Cardinality(upTo(A[k]))
      <4>. HIDE DEF upTo
      <4>. QED
        BY <3>1, FS_Subset
    <3>. QED
      BY <1>2, <1>3, <2>1, <3>2
  <2>. QED
    BY <2>1, <2>2
<1>. QED
  BY <1>2, <1>3 DEF A

(* The groups of a response are its components.                            *)
LEMMA GroupsAre ==
  ASSUME NEW cs \in Seq(Exec!Call)
  PROVE  Exec!Grouped(cs, Exec!DetectDependencies(cs))
<1>. DEFINE n == Len(cs)
            parent == Exec!Parents(cs)
            roots == {Exec!Find(parent, i) : i \in DOMAIN cs}
            class(r) == {i \in DOMAIN cs : Exec!Find(parent, i) = r}
            rs == Exec!Ascending(roots)
            gs == Exec!DetectDependencies(cs)
<1>0. n \in Nat /\ DOMAIN cs = 1..n
  OBVIOUS
<1>1. PICK root, depth : /\ Exec!Forest(n, parent, root, depth) /\ Exec!Linked(cs, root)
                         /\ Exec!Merged(cs, root, n, n)
  BY PairsVisited DEF Exec!UnionInv
<1>2. gs = [k \in DOMAIN rs |-> Exec!Ascending(class(rs[k]))]
  BY DEF Exec!DetectDependencies
<1>3. \A i \in 1..n : Exec!Find(parent, i) = root[i] /\ root[i] \in 1..n
  <2>1. root \in [1..n -> 1..n]
    BY <1>1 DEF Exec!Forest
  <2>2. ASSUME NEW i \in 1..n PROVE Exec!Find(parent, i) = root[i]
    <3>. HIDE DEF n, parent
    <3>. QED
      BY <1>0, <1>1, FindIs
  <2>. QED
    BY <2>1, <2>2
<1>4. roots \in SUBSET (1..n) /\ \A r : class(r) \in SUBSET (1..n) /\ class(r) = {i \in 1..n : root[i] = r}
  BY <1>0, <1>3
<1>5. \A S \in SUBSET (1..n) : S \in SUBSET Nat /\ IsFiniteSet(S)
  <2>1. IsFiniteSet(1..n) /\ 1..n \subseteq Nat
    BY <1>0, FS_Interval
  <2>. QED
    BY <2>1, FS_Subset
<1>6. \A i \in 1..n : root[i] \in roots
  BY <1>0, <1>3
<1>. HIDE DEF roots, class, rs, gs, parent
<1>7. rs \in Seq(roots) /\ Range(rs) = roots /\ \A k, l \in DOMAIN rs : rs[k] = rs[l] => k = l
  <2>1. /\ rs \in Seq(roots) /\ Range(rs) = roots
        /\ \A k, l \in DOMAIN rs : k < l => rs[k] < rs[l]
    BY <1>4, <1>5, AscendingIs DEF rs
  <2>a. PICK m \in Nat : rs \in [1..m -> roots]
    BY <2>1
  <2>2. ASSUME NEW k \in DOMAIN rs PROVE k \in Nat /\ rs[k] \in Nat
    <3>1. k \in 1..m
      BY <2>a
    <3>2. rs[k] \in roots /\ roots \subseteq Nat
      BY <1>4, <1>5, <2>a, <3>1
    <3>3. rs[k] \in Nat
      BY <3>2, Zenon
    <3>4. k \in Nat
      BY <3>1
    <3>. QED
      BY <3>3, <3>4
  <2>3. ASSUME NEW k \in DOMAIN rs, NEW l \in DOMAIN rs, rs[k] = rs[l] PROVE k = l
    <3>1. ~(rs[k] < rs[l]) /\ ~(rs[l] < rs[k])
      BY <2>2, <2>3
    <3>. QED
      BY <2>1, <2>2, <3>1
  <2>. QED
    BY <2>1, <2>3
<1>8. DOMAIN gs = DOMAIN rs /\ DOMAIN rs = 1..Len(rs) /\ Len(rs) \in Nat
  BY <1>2, <1>7
<1>9. ASSUME NEW g \in DOMAIN gs
      PROVE  /\ gs[g] \in Seq(1..n) /\ Range(gs[g]) = {i \in 1..n : root[i] = rs[g]}
             /\ \A k, l \in DOMAIN gs[g] : k < l => gs[g][k] < gs[g][l]
             /\ rs[g] \in roots
  <2>1. gs[g] = Exec!Ascending(class(rs[g]))
    BY <1>2, <1>8
  <2>2. class(rs[g]) \in SUBSET (1..n) /\ class(rs[g]) \in SUBSET Nat /\ IsFiniteSet(class(rs[g]))
    BY <1>4, <1>5
  <2>3. /\ gs[g] \in Seq(class(rs[g])) /\ Range(gs[g]) = class(rs[g])
        /\ \A k, l \in DOMAIN gs[g] : k < l => gs[g][k] < gs[g][l]
    BY <2>1, <2>2, AscendingIs
  <2>4. gs[g] \in Seq(1..n)
    BY <2>2, <2>3
  <2>5. rs[g] \in roots
    BY <1>7, <1>8
  <2>. QED
    BY <1>4, <2>3, <2>4, <2>5
<1>10. gs \in Seq(Seq(1..n))
  BY <1>2, <1>8, <1>9
<1>11. ASSUME NEW i \in 1..n PROVE \E g \in DOMAIN gs : i \in Range(gs[g])
  <2>1. PICK g \in DOMAIN rs : rs[g] = root[i]
    BY <1>6, <1>7 DEF Range
  <2>. QED
    BY <1>8, <1>9, <2>1
<1>12. ASSUME NEW g \in DOMAIN gs, NEW h \in DOMAIN gs, Range(gs[g]) \cap Range(gs[h]) # {} PROVE g = h
  <2>1. PICK i \in 1..n : root[i] = rs[g] /\ root[i] = rs[h]
    BY <1>9, <1>12
  <2>. QED
    BY <1>7, <1>8, <2>1
<1>13. ASSUME NEW g \in DOMAIN gs PROVE Exec!Closed(cs, Range(gs[g]))
  <2>. SUFFICES ASSUME NEW i \in Range(gs[g]), NEW j \in DOMAIN cs \ Range(gs[g]), Exec!Dep(cs, i, j) PROVE FALSE
    BY DEF Exec!Closed
  <2>1. i \in 1..n /\ j \in 1..n /\ root[i] = rs[g] /\ root[j] # rs[g]
    BY <1>0, <1>9
  <2>2. CASE i < j
    <3>1. Exec!AreDependent(cs[i], cs[j]) /\ (i < n \/ (i = n /\ j <= n))
      BY <1>0, <2>1, <2>2 DEF Exec!Dep
    <3>. QED
      BY <1>0, <1>1, <2>1, <2>2, <3>1 DEF Exec!Merged
  <2>3. CASE j < i
    <3>1. Exec!AreDependent(cs[j], cs[i]) /\ (j < n \/ (j = n /\ i <= n))
      BY <1>0, <2>1, <2>3 DEF Exec!Dep
    <3>. QED
      BY <1>0, <1>1, <2>1, <2>3, <3>1 DEF Exec!Merged
  <2>. QED
    BY <1>0, <2>1, <2>2, <2>3
<1>15. ASSUME NEW g \in DOMAIN gs PROVE Range(gs[g]) # {}
  <2>1. PICK i \in DOMAIN cs : rs[g] = Exec!Find(parent, i)
    BY <1>9 DEF roots
  <2>. QED
    BY <1>0, <1>3, <1>9, <2>1
<1>14. ASSUME NEW g \in DOMAIN gs, NEW S \in SUBSET Range(gs[g]), S # {}, Exec!Closed(cs, S)
       PROVE  S = Range(gs[g])
  <2>1. Range(gs[g]) = {i \in 1..n : root[i] = rs[g]}
    BY <1>9
  <2>2. S \in SUBSET DOMAIN cs
    BY <1>0, <2>1
  <2>3. \A x \in S : \A y \in DOMAIN cs : root[x] = root[y] => y \in S
    BY <1>1, <1>14, <2>2 DEF Exec!Linked
  <2>4. PICK x : x \in S
    BY <1>14
  <2>. QED
    BY <1>0, <2>1, <2>3, <2>4
<1>. QED
  <2>1. \A g : Exec!Range(gs[g]) = Range(gs[g])
    BY ExecOps
  <2>2. gs \in Seq(Seq(DOMAIN cs))
    BY <1>0, <1>10
  <2>3. \A i \in DOMAIN cs : \E g \in DOMAIN gs : i \in Exec!Range(gs[g])
    BY <1>0, <1>11, <2>1
  <2>4. \A g \in DOMAIN gs : \A k, l \in DOMAIN gs[g] : k < l => gs[g][k] < gs[g][l]
    BY <1>9
  <2>. HIDE DEF n
  <2>6. \A g, h \in DOMAIN gs : Exec!Range(gs[g]) \cap Exec!Range(gs[h]) # {} => g = h
    BY <1>12, <2>1
  <2>7. \A g \in DOMAIN gs : Exec!Range(gs[g]) # {} /\ Exec!Closed(cs, Exec!Range(gs[g]))
    BY <1>13, <1>15, <2>1
  <2>8. \A g \in DOMAIN gs : \A S \in SUBSET Exec!Range(gs[g]) : S # {} /\ Exec!Closed(cs, S) => S = Exec!Range(gs[g])
    BY <1>14, <2>1
  <2>5. Exec!Grouped(cs, gs)
    BY <2>2, <2>3, <2>4, <2>6, <2>7, <2>8, Zenon DEF Exec!Grouped
  <2>. QED
    BY <2>5 DEF gs

(* The paths of calls: names normalized one by one are a walk, but for the *)
(* steps above the root that come first.                                   *)
Components == STRING \cup {"workspace"}

SameWay(done, at) ==
  /\ done \in Seq(Components) /\ at \in Seq(Components) /\ Len(at) <= Len(done)
  /\ \A k \in 1..(Len(done) - Len(at)) : done[k] = ".."
  /\ \A k \in 1..Len(at) : done[(Len(done) - Len(at)) + k] = at[k] /\ at[k] # ".."

LEMMA Appended ==
  ASSUME NEW V, NEW s \in Seq(V), NEW c \in V
  PROVE  /\ Append(s, c) \in Seq(V) /\ Len(Append(s, c)) = Len(s) + 1 /\ Append(s, c)[Len(s) + 1] = c
         /\ \A k \in 1..Len(s) : Append(s, c)[k] = s[k]
OBVIOUS

LEMMA Shortened ==
  ASSUME NEW V, NEW s \in Seq(V), s # <<>>
  PROVE  /\ SubSeq(s, 1, Len(s) - 1) \in Seq(V) /\ Len(SubSeq(s, 1, Len(s) - 1)) = Len(s) - 1
         /\ \A k \in 1..(Len(s) - 1) : SubSeq(s, 1, Len(s) - 1)[k] = s[k]
<1>1. PICK m \in Nat : m + 1 = Len(s)
  OBVIOUS
<1>2. SubSeq(s, 1, m) \in Seq(V) /\ Len(SubSeq(s, 1, m)) = m
  BY <1>1
<1>3. \A k \in 1..m : SubSeq(s, 1, m)[k] = s[k]
  BY <1>1
<1>4. Len(s) - 1 = m
  BY <1>1
<1>. QED
  BY <1>2, <1>3, <1>4

LEMMA StepsType ==
  ASSUME NEW s \in Seq(Components), NEW c \in Components
  PROVE  Exec!Enter(s, c) \in Seq(Components) /\ Exec!Walk(s, c) \in Seq(Components)
BY Appended, Shortened DEF Exec!Enter, Exec!Walk

LEMMA StepsAgree ==
  ASSUME NEW done, NEW at, SameWay(done, at), NEW c \in Components
  PROVE  SameWay(Exec!Enter(done, c), Exec!Walk(at, c))
<1>1. /\ done \in Seq(Components) /\ at \in Seq(Components) /\ Len(at) <= Len(done)
      /\ Len(done) \in Nat /\ Len(at) \in Nat
      /\ \A k \in 1..(Len(done) - Len(at)) : done[k] = ".."
      /\ \A k \in 1..Len(at) : done[(Len(done) - Len(at)) + k] = at[k] /\ at[k] # ".."
  BY DEF SameWay
<1>2. CASE c = "."
  BY <1>2 DEF Exec!Enter, Exec!Walk
<1>3. CASE c = ".." /\ at = <<>>
  <2>1. Exec!Walk(at, c) = at /\ Len(at) = 0
    BY <1>3 DEF Exec!Walk
  <2>2. done # <<>> => done[Len(done)] = ".."
    BY <1>1, <2>1
  <2>3. Exec!Enter(done, c) = Append(done, c)
    BY <1>3, <2>2 DEF Exec!Enter
  <2>4. Append(done, c) \in Seq(Components) /\ Len(Append(done, c)) = Len(done) + 1
    BY <1>1, Appended
  <2>5. ASSUME NEW k \in 1..(Len(done) + 1) PROVE Append(done, c)[k] = ".."
    <3>1. CASE k = Len(done) + 1
      BY <1>1, <1>3, <3>1
    <3>2. CASE k # Len(done) + 1
      <4>1. k \in 1..Len(done) /\ k \in 1..(Len(done) - Len(at))
        BY <1>1, <2>1, <3>2
      <4>. QED
        BY <1>1, <4>1
    <3>. QED
      BY <3>1, <3>2
  <2>. QED
    BY <1>1, <2>1, <2>3, <2>4, <2>5 DEF SameWay
<1>4. CASE c = ".." /\ at # <<>>
  <2>. DEFINE d2 == SubSeq(done, 1, Len(done) - 1)
              a2 == SubSeq(at, 1, Len(at) - 1)
  <2>1. Len(at) > 0 /\ Len(done) > 0 /\ done # <<>>
    BY <1>1, <1>4
  <2>2. Exec!Walk(at, c) = a2
    BY <1>4 DEF Exec!Walk
  <2>3. done[Len(done)] # ".."
    <3>1. Len(at) \in 1..Len(at) /\ (Len(done) - Len(at)) + Len(at) = Len(done)
      BY <1>1, <2>1
    <3>. QED
      BY <1>1, <3>1
  <2>4. Exec!Enter(done, c) = d2
    BY <1>4, <2>1, <2>3 DEF Exec!Enter
  <2>5. /\ d2 \in Seq(Components) /\ Len(d2) = Len(done) - 1 /\ \A k \in 1..(Len(done) - 1) : d2[k] = done[k]
        /\ a2 \in Seq(Components) /\ Len(a2) = Len(at) - 1 /\ \A k \in 1..(Len(at) - 1) : a2[k] = at[k]
    BY <1>1, <1>4, <2>1, Shortened
  <2>. HIDE DEF d2, a2
  <2>6. Len(d2) - Len(a2) = Len(done) - Len(at) /\ Len(a2) <= Len(d2)
    BY <1>1, <2>5
  <2>7. ASSUME NEW k \in 1..(Len(d2) - Len(a2)) PROVE d2[k] = ".."
    <3>1. k \in 1..(Len(done) - 1) /\ k \in 1..(Len(done) - Len(at))
      BY <1>1, <2>1, <2>6
    <3>. QED
      BY <1>1, <2>5, <3>1
  <2>8. ASSUME NEW k \in 1..Len(a2) PROVE d2[(Len(d2) - Len(a2)) + k] = a2[k] /\ a2[k] # ".."
    <3>1. k \in 1..(Len(at) - 1) /\ k \in 1..Len(at) /\ (Len(done) - Len(at)) + k \in 1..(Len(done) - 1)
      BY <1>1, <2>1, <2>5
    <3>. QED
      BY <1>1, <2>5, <2>6, <3>1
  <2>. QED
    BY <2>2, <2>4, <2>5, <2>6, <2>7, <2>8 DEF SameWay
<1>5. CASE c # "." /\ c # ".."
  <2>. DEFINE d2 == Append(done, c)
              a2 == Append(at, c)
  <2>1. Exec!Enter(done, c) = d2 /\ Exec!Walk(at, c) = a2
    BY <1>5 DEF Exec!Enter, Exec!Walk
  <2>2. /\ d2 \in Seq(Components) /\ Len(d2) = Len(done) + 1 /\ \A k \in 1..Len(done) : d2[k] = done[k]
        /\ a2 \in Seq(Components) /\ Len(a2) = Len(at) + 1 /\ \A k \in 1..Len(at) : a2[k] = at[k]
        /\ d2[Len(done) + 1] = c /\ a2[Len(at) + 1] = c
    BY <1>1, Appended
  <2>. HIDE DEF d2, a2
  <2>3. Len(d2) - Len(a2) = Len(done) - Len(at) /\ Len(a2) <= Len(d2)
    BY <1>1, <2>2
  <2>4. ASSUME NEW k \in 1..(Len(d2) - Len(a2)) PROVE d2[k] = ".."
    <3>1. k \in 1..Len(done) /\ k \in 1..(Len(done) - Len(at))
      BY <1>1, <2>3
    <3>. QED
      BY <1>1, <2>2, <3>1
  <2>5. ASSUME NEW k \in 1..Len(a2) PROVE d2[(Len(d2) - Len(a2)) + k] = a2[k] /\ a2[k] # ".."
    <3>1. CASE k = Len(at) + 1
      <4>0. (Len(done) - Len(at)) + (Len(at) + 1) = Len(done) + 1
        BY <1>1
      <4>1. (Len(d2) - Len(a2)) + k = Len(done) + 1
        BY <2>3, <3>1, <4>0
      <4>. QED
        BY <1>5, <2>2, <3>1, <4>1
    <3>2. CASE k # Len(at) + 1
      <4>1. k \in 1..Len(at) /\ (Len(done) - Len(at)) + k \in 1..Len(done)
        BY <1>1, <2>2, <3>2
      <4>. QED
        BY <1>1, <2>2, <2>3, <4>1
    <3>. QED
      BY <3>1, <3>2
  <2>. QED
    BY <2>1, <2>2, <2>3, <2>4, <2>5 DEF SameWay
<1>. QED
  BY <1>2, <1>3, <1>4, <1>5

LEMMA PathsGo ==
  ASSUME NEW path \in Seq(STRING)
  PROVE  \E done, at : /\ done[0] = <<"workspace">> /\ done[Len(path)] = Exec!Normalize(path)
                       /\ \A k \in 1..Len(path) : done[k] = Exec!Enter(done[k - 1], path[k])
                       /\ at[0] = <<"workspace">> /\ at[Len(path)] = Exec!WalkEnd(path)
                       /\ \A k \in 1..Len(path) : at[k] = Exec!Walk(at[k - 1], path[k])
<1>. DEFINE n == Len(path)
            V == Seq(Components)
            start == <<"workspace">>
            done[k \in 0..n] == IF k = 0 THEN <<"workspace">> ELSE Exec!Enter(done[k - 1], path[k])
            at[k \in 0..n] == IF k = 0 THEN <<"workspace">> ELSE Exec!Walk(at[k - 1], path[k])
            s == [k \in 1..n |-> [d \in V |-> Exec!Enter(d, path[k])]]
            w == [k \in 1..n |-> [d \in V |-> Exec!Walk(d, path[k])]]
<1>0. n \in Nat /\ start \in V /\ 0 \in 0..n /\ n \in 0..n
      /\ \A k \in 1..n : k \in 0..n /\ k # 0 /\ path[k] \in Components
  <2>1. n \in Nat /\ \A k \in 1..n : path[k] \in Components
    BY DEF Components
  <2>2. start \in V
    BY DEF Components
  <2>. HIDE DEF n, start, V
  <2>. QED
    BY <2>1, <2>2
<1>1. Exec!Normalize(path) = done[n] /\ Exec!WalkEnd(path) = at[n]
  BY DEF Exec!Normalize, Exec!WalkEnd
<1>2. \A k \in 0..n : k # 0 => k \in 1..n /\ k - 1 \in 0..n
  BY <1>0
<1>3. done[0] = start /\ \A k \in 1..n : done[k] = Exec!Enter(done[k - 1], path[k])
  <2>1. s \in [1..n -> [V -> V]]
    BY <1>0, StepsType
  <2>2. PICK f : Carries(f, n, V, start, s)
    <3>. HIDE DEF n, V, s, start
    <3>. QED
      BY <1>0, <2>1, RoundsOf
  <2>3. f \in [0..n -> V] /\ f[0] = start /\ \A k \in 1..n : f[k] = s[k][f[k - 1]]
    BY <2>2 DEF Carries
  <2>4. ASSUME NEW k \in 1..n PROVE f[k] = Exec!Enter(f[k - 1], path[k])
    <3>1. k - 1 \in 0..n
      BY <1>0
    <3>2. f[k - 1] \in V
      BY <2>3, <3>1
    <3>. HIDE DEF V
    <3>3. s[k][f[k - 1]] = Exec!Enter(f[k - 1], path[k])
      BY <3>2
    <3>. QED
      BY <2>3, <3>3
  <2>5. f = [k \in 0..n |-> IF k = 0 THEN <<"workspace">> ELSE Exec!Enter(f[k - 1], path[k])]
    BY <1>2, <2>3, <2>4
  <2>6. done = [k \in 0..n |-> IF k = 0 THEN <<"workspace">> ELSE Exec!Enter(done[k - 1], path[k])]
    BY <2>5
  <2>. HIDE DEF done
  <2>. QED
    BY <1>0, <2>6
<1>4. at[0] = start /\ \A k \in 1..n : at[k] = Exec!Walk(at[k - 1], path[k])
  <2>1. w \in [1..n -> [V -> V]]
    BY <1>0, StepsType
  <2>2. PICK f : Carries(f, n, V, start, w)
    <3>. HIDE DEF n, V, w, start
    <3>. QED
      BY <1>0, <2>1, RoundsOf
  <2>3. f \in [0..n -> V] /\ f[0] = start /\ \A k \in 1..n : f[k] = w[k][f[k - 1]]
    BY <2>2 DEF Carries
  <2>4. ASSUME NEW k \in 1..n PROVE f[k] = Exec!Walk(f[k - 1], path[k])
    <3>1. k - 1 \in 0..n
      BY <1>0
    <3>2. f[k - 1] \in V
      BY <2>3, <3>1
    <3>. HIDE DEF V
    <3>3. w[k][f[k - 1]] = Exec!Walk(f[k - 1], path[k])
      BY <3>2
    <3>. QED
      BY <2>3, <3>3
  <2>5. f = [k \in 0..n |-> IF k = 0 THEN <<"workspace">> ELSE Exec!Walk(f[k - 1], path[k])]
    BY <1>2, <2>3, <2>4
  <2>6. at = [k \in 0..n |-> IF k = 0 THEN <<"workspace">> ELSE Exec!Walk(at[k - 1], path[k])]
    BY <2>5
  <2>. HIDE DEF at
  <2>. QED
    BY <1>0, <2>6
<1>. HIDE DEF done, at
<1>. QED
  BY <1>1, <1>3, <1>4

(* A path that is let through ends in the workspace.                       *)
LEMMA PathsStayInside ==
  ASSUME NEW path \in Seq(STRING), Exec!InWorkspace(path)
  PROVE  Exec!WalkEnd(path) # <<>> /\ Head(Exec!WalkEnd(path)) = "workspace"
<1>. DEFINE n == Len(path)
<1>0. n \in Nat /\ n \in 0..n /\ 0 \in 0..n /\ \A k \in 1..n : k \in 0..n /\ path[k] \in Components
  BY DEF Components
<1>1. PICK done, at : /\ done[0] = <<"workspace">> /\ done[n] = Exec!Normalize(path)
                      /\ \A k \in 1..n : done[k] = Exec!Enter(done[k - 1], path[k])
                      /\ at[0] = <<"workspace">> /\ at[n] = Exec!WalkEnd(path)
                      /\ \A k \in 1..n : at[k] = Exec!Walk(at[k - 1], path[k])
  BY PathsGo
<1>. DEFINE G == {k \in 0..n : SameWay(done[k], at[k])}
<1>2. SameWay(<<"workspace">>, <<"workspace">>)
  <2>. DEFINE o == <<"workspace">>
  <2>1. o \in Seq(Components) /\ Len(o) = 1 /\ o[1] = "workspace"
    BY DEF Components
  <2>3. "workspace" # ".."
    OBVIOUS
  <2>. HIDE DEF o
  <2>2. SameWay(o, o)
    BY <2>1, <2>3 DEF SameWay
  <2>. QED
    BY <2>2 DEF o
<1>3. 0 \in G
  BY <1>0, <1>1, <1>2
<1>4. ASSUME NEW k \in 1..n, k - 1 \in G PROVE k \in G
  <2>1. SameWay(done[k - 1], at[k - 1])
    BY <1>4
  <2>2. SameWay(Exec!Enter(done[k - 1], path[k]), Exec!Walk(at[k - 1], path[k]))
    BY <1>0, <2>1, StepsAgree
  <2>. QED
    BY <1>0, <1>1, <2>2
<1>5. SameWay(Exec!Normalize(path), Exec!WalkEnd(path))
  <2>1. n \in G
    <3>. HIDE DEF G
    <3>. QED
      BY <1>0, <1>3, <1>4, UpTo
  <2>. QED
    BY <1>1, <2>1
<1>. DEFINE d == Exec!Normalize(path)
            e == Exec!WalkEnd(path)
<1>6. d # <<>> /\ Head(d) = "workspace"
  BY DEF Exec!InWorkspace
<1>. HIDE DEF d, e
<1>7. /\ d \in Seq(Components) /\ e \in Seq(Components) /\ Len(e) <= Len(d)
      /\ \A k \in 1..(Len(d) - Len(e)) : d[k] = ".."
      /\ \A k \in 1..Len(e) : d[(Len(d) - Len(e)) + k] = e[k]
  BY <1>5 DEF SameWay, d, e
<1>8. Len(d) \in Nat /\ Len(e) \in Nat /\ Len(d) > 0 /\ d[1] = "workspace"
  BY <1>6, <1>7
<1>9. "workspace" # ".."
  OBVIOUS
<1>10. Len(d) = Len(e)
  <2>1. ~(1 \in 1..(Len(d) - Len(e)))
    BY <1>7, <1>8, <1>9
  <2>. QED
    BY <1>7, <1>8, <2>1
<1>11. e[1] = d[1]
  <2>1. 1 \in 1..Len(e) /\ (Len(d) - Len(e)) + 1 = 1
    BY <1>8, <1>10
  <2>. QED
    BY <1>7, <2>1
<1>12. e # <<>> /\ Head(e) = "workspace"
  BY <1>7, <1>8, <1>10, <1>11
<1>. QED
  BY <1>12 DEF e

-----------------------------------------------------------------------------
LEMMA ExecStarts == Exec!Init => Exec!ExecInv
<1>. SUFFICES ASSUME Exec!Init PROVE Exec!ExecInv
  OBVIOUS
<1>1. /\ calls = <<>> /\ groups = <<>> /\ pos = <<>> /\ running = <<>>
      /\ crashed = {} /\ ran = {} /\ results = <<>>
  BY DEF Exec!Init
<1>2. calls \in Seq(Exec!Call) /\ DOMAIN calls = {} /\ DOMAIN groups = {}
  BY <1>1
<1>3. Exec!Grouped(calls, groups)
  <2>1. groups \in Seq(Seq(DOMAIN calls))
    BY <1>1
  <2>. QED
    BY <1>2, <2>1 DEF Exec!Grouped
<1>4. pos \in [DOMAIN groups -> Nat] /\ running \in [DOMAIN groups -> BOOLEAN]
  BY <1>1
<1>. QED
  BY <1>1, <1>2, <1>3, <1>4 DEF Exec!ExecInv

LEMMA StartStep ==
  ASSUME Exec!ExecInv, NEW n \in 1..MaxBatch, NEW batch \in [1..n -> Exec!Call], Exec!Start(batch)
  PROVE  Exec!ExecInv'
<1>1. /\ calls = <<>> /\ calls' = batch /\ groups' = Exec!DetectDependencies(batch)
      /\ pos' = [g \in DOMAIN groups' |-> 0] /\ running' = [g \in DOMAIN groups' |-> FALSE]
      /\ crashed' = crashed /\ ran' = ran /\ results' = results
  BY DEF Exec!Start
<1>2. batch \in Seq(Exec!Call) /\ DOMAIN batch = 1..n /\ n \in Nat
  BY ExecAssumption
<1>3. Exec!Grouped(calls, groups)'
  BY <1>1, <1>2, GroupsAre
<1>4. DOMAIN calls = {} /\ crashed = {} /\ ran = {} /\ results = <<>>
  <2>1. DOMAIN calls = {}
    BY <1>1
  <2>2. DOMAIN groups = {}
    <3>1. SUFFICES ASSUME NEW g \in DOMAIN groups PROVE FALSE
      OBVIOUS
    <3>2. groups \in Seq(Seq({})) /\ Exec!Range(groups[g]) # {}
      BY <2>1 DEF Exec!ExecInv, Exec!Grouped
    <3>3. groups[g] \in Seq({})
      BY <3>2
    <3>4. PICK k \in DOMAIN groups[g] : TRUE
      BY <3>2 DEF Exec!Range
    <3>. QED
      BY <3>3, <3>4
  <2>. QED
    BY <1>1, <2>1, <2>2 DEF Exec!ExecInv
<1>5. ASSUME NEW g \in DOMAIN groups' PROVE Len(groups'[g]) \in Nat /\ \A k \in DOMAIN groups'[g] : k \in Nat /\ k > 0
  <2>1. groups' \in Seq(Seq(1..n))
    BY <1>1, <1>2, <1>3 DEF Exec!Grouped
  <2>2. groups'[g] \in Seq(1..n)
    BY <2>1
  <2>. QED
    BY <2>2
<1>6. pos' \in [DOMAIN groups' -> Nat] /\ running' \in [DOMAIN groups' -> BOOLEAN]
      /\ \A g \in DOMAIN groups' : pos'[g] = 0 /\ ~running'[g]
  BY <1>1
<1>. QED
  BY <1>1, <1>2, <1>3, <1>4, <1>5, <1>6 DEF Exec!ExecInv, Exec!Live

LEMMA GroupKeeps ==
  ASSUME Exec!ExecInv, NEW g \in DOMAIN groups, Exec!GroupStep(g)
  PROVE  Exec!ExecInv'
<1>0. /\ pos \in [DOMAIN groups -> Nat] /\ running \in [DOMAIN groups -> BOOLEAN]
      /\ \A h \in DOMAIN groups : pos[h] <= Len(groups[h]) /\ (running[h] => Exec!Live(h))
      /\ \A h \in DOMAIN groups : \A k \in DOMAIN groups[h] :
           k <= pos[h] \/ (k = pos[h] + 1 /\ running[h]) =>
             (Exec!Valid(calls[groups[h][k]]) => groups[h][k] \in ran)
      /\ ran \subseteq DOMAIN calls /\ crashed \subseteq DOMAIN groups
      /\ \A i \in ran : Exec!Valid(calls[i])
  BY DEF Exec!ExecInv
<1>a. Exec!Live(g) /\ calls' = calls /\ groups' = groups /\ results' = results /\ results = <<>>
  <2>1. Exec!Live(g) /\ calls' = calls /\ groups' = groups /\ results' = results
    BY DEF Exec!GroupStep, Exec!Acquire, Exec!Finish, Exec!Panic
  <2>. QED
    BY <2>1 DEF Exec!ExecInv
<1>b. \A h \in DOMAIN groups : groups[h] \in Seq(DOMAIN calls)
  BY DEF Exec!ExecInv, Exec!Grouped
<1>c. \A h \in DOMAIN groups : Len(groups[h]) \in Nat /\ DOMAIN groups[h] = 1..Len(groups[h]) /\ pos[h] \in Nat
  BY <1>0, <1>b
<1>d. g \notin crashed /\ pos[g] < Len(groups[g]) /\ pos[g] + 1 \in DOMAIN groups[g]
  BY <1>a, <1>c DEF Exec!Live
<1>e. Exec!Current(g) = groups[g][pos[g] + 1] /\ Exec!Current(g) \in DOMAIN calls
  BY <1>b, <1>d DEF Exec!Current
<1>f. Exec!Grouped(calls', groups') /\ calls' \in Seq(Exec!Call) /\ results' = <<>>
  BY <1>a DEF Exec!ExecInv
<1>1. CASE Exec!Acquire(g)
  <2>1. /\ running' = [running EXCEPT ![g] = TRUE] /\ pos' = pos /\ crashed' = crashed
        /\ ran' = IF Exec!Valid(calls[Exec!Current(g)]) THEN ran \cup {Exec!Current(g)} ELSE ran
    BY <1>1 DEF Exec!Acquire
  <2>2. /\ running' \in [DOMAIN groups -> BOOLEAN] /\ \A h \in DOMAIN groups : h # g => running'[h] = running[h]
    BY <1>0, <2>1
  <2>3. ran \subseteq ran' /\ ran' \subseteq DOMAIN calls /\ \A i \in ran' : Exec!Valid(calls[i])
    BY <1>0, <1>e, <2>1
  <2>4. \A h \in DOMAIN groups : Exec!Live(h)' <=> Exec!Live(h)
    BY <1>a, <2>1 DEF Exec!Live
  <2>5. ASSUME NEW h \in DOMAIN groups, NEW k \in DOMAIN groups[h],
               k <= pos[h] \/ (k = pos[h] + 1 /\ running'[h]), Exec!Valid(calls[groups[h][k]])
        PROVE  groups[h][k] \in ran'
    <3>1. CASE h = g /\ k = pos[h] + 1
      BY <1>e, <2>1, <2>5, <3>1
    <3>2. CASE ~(h = g /\ k = pos[h] + 1)
      BY <1>0, <2>2, <2>3, <2>5, <3>2
    <3>. QED
      BY <3>1, <3>2
  <2>. QED
    BY <1>0, <1>a, <1>f, <2>1, <2>2, <2>3, <2>4, <2>5 DEF Exec!ExecInv
<1>2. CASE Exec!Finish(g)
  <2>1. /\ running[g] /\ running' = [running EXCEPT ![g] = FALSE] /\ pos' = [pos EXCEPT ![g] = @ + 1]
        /\ crashed' = crashed /\ ran' = ran
    BY <1>2 DEF Exec!Finish
  <2>2. /\ running' \in [DOMAIN groups -> BOOLEAN] /\ pos' \in [DOMAIN groups -> Nat]
        /\ ~running'[g] /\ pos'[g] = pos[g] + 1
        /\ \A h \in DOMAIN groups : h # g => running'[h] = running[h] /\ pos'[h] = pos[h]
    BY <1>0, <2>1
  <2>3. \A h \in DOMAIN groups : h # g => (Exec!Live(h)' <=> Exec!Live(h))
    BY <1>a, <2>1, <2>2 DEF Exec!Live
  <2>4. \A h \in DOMAIN groups : pos'[h] <= Len(groups[h]) /\ (running'[h] => Exec!Live(h)')
    <3>1. pos'[g] <= Len(groups[g])
      BY <1>c, <1>d, <2>2
    <3>. QED
      BY <1>0, <2>2, <2>3, <3>1
  <2>5. ASSUME NEW h \in DOMAIN groups, NEW k \in DOMAIN groups[h],
               k <= pos'[h] \/ (k = pos'[h] + 1 /\ running'[h]), Exec!Valid(calls[groups[h][k]])
        PROVE  groups[h][k] \in ran
    <3>1. CASE h = g
      <4>1. k \in Nat /\ pos[g] \in Nat /\ k <= pos[g] + 1
        BY <1>c, <2>2, <2>5, <3>1
      <4>2. k <= pos[g] \/ k = pos[g] + 1
        BY <4>1
      <4>. QED
        BY <1>0, <2>1, <2>5, <3>1, <4>2
    <3>2. CASE h # g
      BY <1>0, <2>2, <2>5, <3>2
    <3>. QED
      BY <3>1, <3>2
  <2>. QED
    BY <1>0, <1>a, <1>f, <2>1, <2>2, <2>4, <2>5 DEF Exec!ExecInv
<1>3. CASE Exec!Panic(g)
  <2>1. /\ running' = [running EXCEPT ![g] = FALSE] /\ pos' = pos
        /\ crashed' = crashed \cup {g} /\ ran' = ran
    BY <1>3 DEF Exec!Panic
  <2>2. /\ running' \in [DOMAIN groups -> BOOLEAN] /\ ~running'[g]
        /\ \A h \in DOMAIN groups : h # g => running'[h] = running[h]
    BY <1>0, <2>1
  <2>3. \A h \in DOMAIN groups : h # g => (Exec!Live(h)' <=> Exec!Live(h))
    BY <1>a, <2>1 DEF Exec!Live
  <2>4. \A h \in DOMAIN groups : running'[h] => Exec!Live(h)'
    BY <1>0, <2>2, <2>3
  <2>5. ASSUME NEW h \in DOMAIN groups, NEW k \in DOMAIN groups[h],
               k <= pos[h] \/ (k = pos[h] + 1 /\ running'[h]), Exec!Valid(calls[groups[h][k]])
        PROVE  groups[h][k] \in ran
    BY <1>0, <2>2, <2>5
  <2>. QED
    BY <1>0, <1>a, <1>f, <2>1, <2>2, <2>4, <2>5 DEF Exec!ExecInv
<1>. QED
  BY <1>1, <1>2, <1>3 DEF Exec!GroupStep

LEMMA CollectStep ==
  ASSUME Exec!ExecInv, Exec!Collect
  PROVE  Exec!ExecInv'
<1>1. /\ calls # <<>> /\ \A g \in DOMAIN groups : ~Exec!Live(g)
      /\ results' = [i \in DOMAIN calls |-> Exec!OutputOf(i)]
      /\ calls' = calls /\ groups' = groups /\ pos' = pos /\ running' = running
      /\ crashed' = crashed /\ ran' = ran
  BY DEF Exec!Collect
<1>2. (\A g : Exec!Live(g)' <=> Exec!Live(g)) /\ \A i : Exec!OutputOf(i)' = Exec!OutputOf(i)
  BY <1>1 DEF Exec!Live, Exec!OutputOf, Exec!GroupOf
<1>. QED
  BY <1>1, <1>2 DEF Exec!ExecInv

LEMMA ExecKeeps == Exec!ExecInv /\ [Exec!Next]_(Exec!executorVars) => Exec!ExecInv'
<1>. SUFFICES ASSUME Exec!ExecInv, [Exec!Next]_(Exec!executorVars) PROVE Exec!ExecInv'
  OBVIOUS
<1>1. CASE UNCHANGED Exec!executorVars
  BY <1>1 DEF Exec!executorVars, Exec!ExecInv, Exec!Live, Exec!OutputOf, Exec!GroupOf
<1>2. CASE Exec!Next
  BY <1>2, StartStep, GroupKeeps, CollectStep DEF Exec!Next
<1>. QED
  BY <1>1, <1>2

(* Every call has one group, and one place in it.                          *)
LEMMA InOneGroup ==
  ASSUME Exec!ExecInv, NEW i \in DOMAIN calls
  PROVE  /\ Exec!GroupOf(i) \in DOMAIN groups
         /\ i \in Exec!Range(groups[Exec!GroupOf(i)])
         /\ \A h \in DOMAIN groups : i \in Exec!Range(groups[h]) => h = Exec!GroupOf(i)
<1>1. /\ \E g \in DOMAIN groups : i \in Exec!Range(groups[g])
      /\ \A g, h \in DOMAIN groups : Exec!Range(groups[g]) \cap Exec!Range(groups[h]) # {} => g = h
  BY DEF Exec!ExecInv, Exec!Grouped
<1>2. /\ Exec!GroupOf(i) \in DOMAIN groups
      /\ i \in Exec!Range(groups[Exec!GroupOf(i)])
  BY <1>1, Zenon DEF Exec!GroupOf
<1>. QED
  BY <1>1, <1>2, Zenon

LEMMA InOnePlace ==
  ASSUME Exec!ExecInv, NEW g \in DOMAIN groups, NEW k \in DOMAIN groups[g]
  PROVE  /\ groups[g][k] \in DOMAIN calls /\ k \in Nat
         /\ Exec!GroupOf(groups[g][k]) = g
         /\ Exec!Begun(groups[g][k]) <=> k <= pos[g] \/ (k = pos[g] + 1 /\ (running[g] \/ g \in crashed))
         /\ Exec!Ended(groups[g][k]) <=> k <= pos[g]
<1>1. /\ groups \in Seq(Seq(DOMAIN calls))
      /\ \A l, m \in DOMAIN groups[g] : l < m => groups[g][l] < groups[g][m]
  BY DEF Exec!ExecInv, Exec!Grouped
<1>2. groups[g] \in Seq(DOMAIN calls)
  BY <1>1
<1>3. groups[g][k] \in DOMAIN calls /\ \A l \in DOMAIN groups[g] : l \in Nat /\ groups[g][l] \in DOMAIN calls
  BY <1>2
<1>4. groups[g][k] \in Exec!Range(groups[g])
  BY DEF Exec!Range
<1>5. Exec!GroupOf(groups[g][k]) = g
  BY <1>3, <1>4, InOneGroup
<1>6. DOMAIN calls \subseteq Nat
  BY DEF Exec!ExecInv
<1>7. ASSUME NEW l \in DOMAIN groups[g], groups[g][l] = groups[g][k] PROVE l = k
  <2>1. ~(groups[g][l] < groups[g][k]) /\ ~(groups[g][k] < groups[g][l])
    BY <1>3, <1>6, <1>7
  <2>2. ~(l < k) /\ ~(k < l)
    BY <1>1, <2>1
  <2>. QED
    BY <1>3, <2>2
<1>8. (CHOOSE l \in DOMAIN groups[g] : groups[g][l] = groups[g][k]) = k
  BY <1>7
<1>. QED
  BY <1>3, <1>5, <1>8 DEF Exec!Begun, Exec!Ended

LEMMA ConflictsFollow == Exec!ExecInv => Exec!ConflictsInOrder
<1>1. SUFFICES ASSUME Exec!ExecInv, NEW i \in DOMAIN calls, NEW j \in DOMAIN calls,
                      i < j,
                      \/ calls[i].tool = "shell" /\ calls[j].tool = "shell"
                      \/ /\ calls[i].path = calls[j].path /\ calls[i].path # Exec!NoPath
                         /\ "file_write" \in {calls[i].tool, calls[j].tool},
                      Exec!Begun(j)
               PROVE  Exec!Ended(i)
  BY DEF Exec!ConflictsInOrder
<1>. DEFINE g == Exec!GroupOf(i)
<1>2. Exec!AreDependent(calls[i], calls[j])
  <2>1. CASE calls[i].tool = "shell" /\ calls[j].tool = "shell"
    BY <2>1 DEF Exec!AreDependent
  <2>2. CASE /\ calls[i].path = calls[j].path /\ calls[i].path # Exec!NoPath
             /\ "file_write" \in {calls[i].tool, calls[j].tool}
    <3>1. /\ calls[i].path \in Exec!PathsOf(calls[i]) \cap Exec!PathsOf(calls[j])
          /\ calls[i].path \in Exec!WritePaths(calls[i]) \cup Exec!WritePaths(calls[j])
      BY <2>2 DEF Exec!PathsOf, Exec!WritePaths
    <3>. QED
      BY <3>1 DEF Exec!AreDependent
  <2>. QED
    BY <1>1, <2>1, <2>2
<1>3. g \in DOMAIN groups /\ i \in Exec!Range(groups[g])
  BY <1>1, InOneGroup
<1>4. j \in Exec!Range(groups[g])
  <2>1. Exec!Closed(calls, Exec!Range(groups[g]))
    BY <1>1, <1>3 DEF Exec!ExecInv, Exec!Grouped
  <2>2. Exec!Dep(calls, i, j)
    BY <1>1, <1>2 DEF Exec!Dep
  <2>. QED
    BY <1>3, <2>1, <2>2 DEF Exec!Closed
<1>. HIDE DEF g
<1>5. PICK k \in DOMAIN groups[g] : groups[g][k] = i
  BY <1>3 DEF Exec!Range
<1>6. PICK l \in DOMAIN groups[g] : groups[g][l] = j
  BY <1>4 DEF Exec!Range
<1>7. /\ k \in Nat /\ l \in Nat
      /\ l <= pos[g] \/ l = pos[g] + 1
  BY <1>1, <1>3, <1>5, <1>6, InOnePlace
<1>8. k < l
  <2>1. i \in Nat /\ j \in Nat
    BY <1>1 DEF Exec!ExecInv
  <2>2. l # k
    BY <1>1, <1>5, <1>6, <2>1
  <2>3. ~(l < k)
    <3>1. l < k => j < i
      BY <1>1, <1>3, <1>5, <1>6 DEF Exec!ExecInv, Exec!Grouped
    <3>. QED
      BY <1>1, <2>1, <3>1
  <2>. QED
    BY <1>7, <2>2, <2>3
<1>9. pos[g] \in Nat
  BY <1>1, <1>3 DEF Exec!ExecInv
<1>10. k <= pos[g]
  BY <1>7, <1>8, <1>9
<1>. QED
  BY <1>1, <1>3, <1>5, <1>10, InOnePlace

LEMMA GroupsFollow == Exec!ExecInv => Exec!GroupsAreComponents
<1>1. SUFFICES ASSUME Exec!ExecInv PROVE Exec!GroupsAreComponents
  OBVIOUS
<1>2. ASSUME NEW i \in DOMAIN calls
      PROVE  Exec!Cardinality({g \in DOMAIN groups : i \in Exec!Range(groups[g])}) = 1
  <2>1. {g \in DOMAIN groups : i \in Exec!Range(groups[g])} = {Exec!GroupOf(i)}
    BY <1>1, InOneGroup
  <2>2. Cardinality({Exec!GroupOf(i)}) = 1
    BY FS_Singleton
  <2>. QED
    BY <2>1, <2>2, ExecOps
<1>3. ASSUME NEW g \in DOMAIN groups
      PROVE  /\ Exec!Closed(calls, Exec!Range(groups[g]))
             /\ \A S \in (SUBSET Exec!Range(groups[g])) \ {{}, Exec!Range(groups[g])} : ~Exec!Closed(calls, S)
  BY <1>1 DEF Exec!ExecInv, Exec!Grouped
<1>. QED
  BY <1>2, <1>3, Zenon DEF Exec!GroupsAreComponents

LEMMA AnswersFollow == Exec!ExecInv => Exec!EveryCallAnswered
<1>1. SUFFICES ASSUME Exec!ExecInv, results # <<>> PROVE
         /\ DOMAIN results = DOMAIN calls
         /\ \A i \in DOMAIN calls :
              /\ results[i] = "output" <=> i \in ran /\ Exec!GroupOf(i) \notin crashed
              /\ results[i] = "panicked" <=> Exec!GroupOf(i) \in crashed
  BY DEF Exec!EveryCallAnswered
<1>2. /\ \A g \in DOMAIN groups : ~Exec!Live(g)
      /\ results = [i \in DOMAIN calls |-> Exec!OutputOf(i)]
      /\ \A i \in ran : Exec!Valid(calls[i])
  BY <1>1 DEF Exec!ExecInv
<1>3. ASSUME NEW i \in DOMAIN calls, Exec!GroupOf(i) \notin crashed, Exec!Valid(calls[i])
      PROVE  i \in ran
  <2>. DEFINE g == Exec!GroupOf(i)
  <2>1. g \in DOMAIN groups /\ i \in Exec!Range(groups[g])
    BY <1>1, InOneGroup
  <2>. HIDE DEF g
  <2>2. PICK k \in DOMAIN groups[g] : groups[g][k] = i
    BY <2>1 DEF Exec!Range
  <2>3. ~(pos[g] < Len(groups[g]))
    BY <1>2, <1>3, <2>1 DEF Exec!Live, g
  <2>4. groups[g] \in Seq(DOMAIN calls) /\ pos[g] \in Nat
    BY <1>1, <2>1 DEF Exec!ExecInv, Exec!Grouped
  <2>5. k <= pos[g]
    BY <2>2, <2>3, <2>4
  <2>. QED
    BY <1>1, <1>3, <2>1, <2>2, <2>5 DEF Exec!ExecInv
<1>. QED
  BY <1>2, <1>3 DEF Exec!OutputOf

LEMMA ScopeFollows == Exec!ExecInv => Exec!ExecutedInScope
<1>1. SUFFICES ASSUME Exec!ExecInv, NEW i \in ran, calls[i].path # Exec!NoPath
               PROVE  /\ Exec!WalkEnd(calls[i].path) # <<>>
                      /\ Head(Exec!WalkEnd(calls[i].path)) = "workspace"
  BY DEF Exec!ExecutedInScope
<1>2. i \in DOMAIN calls /\ calls \in Seq(Exec!Call) /\ Exec!Valid(calls[i])
  BY <1>1 DEF Exec!ExecInv
<1>3. Exec!InWorkspace(calls[i].path)
  BY <1>1, <1>2 DEF Exec!Valid
<1>4. calls[i] \in Exec!Call
  BY <1>2
<1>5. calls[i].path \in Paths
  BY <1>1, <1>4 DEF Exec!Call
<1>6. calls[i].path \in Seq(STRING)
  BY <1>5, ExecAssumption
<1>. QED
  BY <1>3, <1>6, PathsStayInside

LEMMA CallsTyped == Exec!ExecInv => Exec!TypeOK
<1>1. SUFFICES ASSUME Exec!ExecInv PROVE Exec!TypeOK
  OBVIOUS
<1>2. calls \in Seq(Exec!Call) /\ groups \in Seq(Seq(DOMAIN calls)) /\ ran \subseteq DOMAIN calls
  BY <1>1 DEF Exec!ExecInv, Exec!Grouped
<1>3. ASSUME NEW i \in DOMAIN results PROVE results[i] \in {"output", "refused", "panicked"}
  <2>1. results # <<>>
    BY <1>3
  <2>2. results = [n \in DOMAIN calls |-> Exec!OutputOf(n)]
    BY <1>1, <2>1 DEF Exec!ExecInv
  <2>3. results[i] = Exec!OutputOf(i)
    BY <2>2
  <2>. QED
    BY <2>3 DEF Exec!OutputOf
<1>. QED
  BY <1>2, <1>3 DEF Exec!TypeOK

-----------------------------------------------------------------------------
(* What the agent does of its own accord is earned: for any traces, tools,   *)
(* rules, callers and limits.                                                *)
THEOREM ConductIsEarned ==
  /\ Patch!Spec /\ Watch!Spec /\ Correct!Spec /\ Pro!Spec /\ Learn!Spec /\ Delegate!Spec
  => []InterventionsEarned
<1>1. Patch!Spec => [](Patch!TypeOK /\ Patch!RiskyNeedsUser)
  BY PatchInvariant, PatchFollows, PatchAssumption, PTL
<1>2. Watch!Spec => [](Watch!TypeOK /\ Watch!ShutdownEarned)
  BY WatchdogInvariant, WatchdogFollows, WatchdogAssumption, PTL
<1>3. Delegate!Spec => [](/\ Delegate!TypeOK /\ Delegate!WithinAgentLimit
                          /\ Delegate!RefusedOnlyWhenFull /\ Delegate!OneResultEach)
  BY LimitIsShared, ReportedOnce, DelegationAssumption, PTL
<1>4. Correct!Spec => []Correct!RotationIsDue
  BY RotationsAreDue
<1>5. Pro!Spec => [](Pro!TypeOK /\ Pro!WindowLimit /\ Pro!RuleSpacing)
  BY ActionsAreSpaced
<1>6. Learn!Spec => [](Learn!TypeOK /\ Learn!SuccessEarned)
  BY LessonsAreEarned
<1>. QED
  BY <1>1, <1>2, <1>3, <1>4, <1>5, <1>6, PTL DEF InterventionsEarned

(* Decisions on prompt patches, on the strength of the model and on compound *)
(* texts stand, whatever comes later.                                        *)
THEOREM DecisionsHold == Patch!Spec /\ Routing!Spec => DecisionsStand
BY EndsAreFinal, PatchAssumption, TierHolds, CompoundHolds DEF DecisionsStand

(* The backend keeps the promise of the Memory trait for any tasks, ids,     *)
(* connections and number of retries.                                        *)
THEOREM StoreIsKept == Sql!Spec => ImplementsStore
BY StoreAssumption, Sql!BackendKeepsPromise DEF ImplementsStore

(* A graph is built from exactly the answers without a cycle, its order      *)
(* respects the dependencies, and its caller is never left without advice.   *)
THEOREM PlannedWorkAdvances == Graph!Spec => []PlannedWorkRuns
<1>1. Graph!Init => Graph!GraphInv
  BY DEF Graph!Init, Graph!GraphInv
<1>2. Graph!GraphInv /\ [Graph!Next]_(Graph!graphVars) => Graph!GraphInv'
  BY GraphKeeps
<1>3. Graph!GraphInv => PlannedWorkRuns
  BY GraphFollows DEF PlannedWorkRuns
<1>. QED
  BY <1>1, <1>2, <1>3, PTL DEF Graph!Spec

(* Of any number of calls, those that conflict run in their order, each is   *)
(* answered, and a file tool runs only inside the workspace.                 *)
THEOREM CallsAreExecuted == Exec!Spec => []CallsExecuted
<1>1. Exec!ExecInv => CallsExecuted
  BY CallsTyped, ConflictsFollow, GroupsFollow, AnswersFollow, ScopeFollows DEF CallsExecuted
<1>. QED
  BY <1>1, ExecStarts, ExecKeeps, PTL DEF Exec!Spec
=============================================================================
