------------------------------ MODULE Recovery ------------------------------
(***************************************************************************)
(* Restart of the process and recovery of its tasks.  The table of the     *)
(* task queue and the saved histories survive; on startup calls of         *)
(* RecoveryManager::recover_incomplete_tasks scan the table, make a plan   *)
(* for every incomplete task, and apply_abandonments marks the stale ones  *)
(* as failed.  Only then are messages served again, as in AgentLoop.       *)
(***************************************************************************)
EXTENDS AgentLoop, FiniteSetTheorems, WellFoundedInduction, TLAPS

CONSTANTS
  Scanners,    (* concurrent callers of recover_incomplete_tasks           *)
  MaxScans,    (* bound: calls by one of them after a start                *)
  MaxRestarts  (* bound: restarts of the process                           *)

ASSUME RecoveryAssumption == MaxScans \in Nat \ {0} /\ MaxRestarts \in Nat

VARIABLES
  mode,        (* "boot" while tasks are recovered, then "serve"           *)
  restarts,    (* restarts so far                                          *)
  old,         (* tasks created more than MAX_TASK_AGE_HOURS ago           *)
  recovered,   (* recovered_ids                                            *)
  spc,         (* spc[s]: what scanner s does next                         *)
  scans,       (* scans[s]: calls s has made                               *)
  todo,        (* todo[s]: loaded tasks (abandonments) s has yet to handle *)
  plans        (* plans made since the start, each with its scan           *)

scanVars == <<recovered, spc, scans, todo, plans>>
recVars == <<mode, restarts, old, recovered, spc, scans, todo, plans>>
allVars == <<vars, recVars>>

RecoveryInit ==
  /\ Init
  /\ mode = "serve"
  /\ restarts = 0
  /\ old = {}
  /\ recovered = {}
  /\ spc = [s \in Scanners |-> "idle"]
  /\ scans = [s \in Scanners |-> 0]
  /\ todo = [s \in Scanners |-> {}]
  /\ plans = {}

(* The process dies at any point, before the end of a boot included, and   *)
(* starts again with what the database and the memory backend hold.        *)
Restart ==
  /\ restarts < MaxRestarts
  /\ restarts' = restarts + 1
  /\ mode' = "boot"
  /\ spent' = 0
  /\ pc' = [c \in Chats |-> "idle"]
  /\ turn' = [c \in Chats |-> 0]
  /\ held' = [c \in Chats |-> FALSE]
  /\ rounds' = [c \in Chats |-> 0]
  /\ results' = [c \in Chats |-> <<>>]
  /\ history' = saved
  /\ recovered' = {}
  /\ spc' = [s \in Scanners |-> "idle"]
  /\ scans' = [s \in Scanners |-> 0]
  /\ todo' = [s \in Scanners |-> {}]
  /\ plans' = {}
  /\ UNCHANGED <<begun, saved, rows, executed, old>>

(* Time passes; tasks grow old in the order they were created.             *)
GrowOld(n) ==
  /\ rows[n].status # "absent"
  /\ \A m \in 1..n : rows[m].status # "absent" /\ m # n => m \in old
  /\ n \notin old
  /\ old' = old \cup {n}
  /\ UNCHANGED <<vars, mode, restarts, scanVars>>

-----------------------------------------------------------------------------
(***************************************************************************)
(* recover_incomplete_tasks                                                *)
(***************************************************************************)
Goes(s, l) == spc' = [spc EXCEPT ![s] = l]

(* Mutants of Incomplete: finished tasks are loaded too; tasks that never  *)
(* began to run are forgotten.                                             *)
IncompleteAll == {n \in Turns : rows[n].status # "absent"}
IncompleteRunning == {n \in Turns : rows[n].status = "running"}

(* load_incomplete                                                         *)
Incomplete == {n \in Turns : rows[n].status \in {"pending", "running"}}

(* ORDER BY created_at ASC                                                 *)
First(S) == CHOOSE n \in S : \A m \in S : n <= m

ScanLoad(s) ==
  /\ mode = "boot"
  /\ spc[s] = "idle"
  /\ scans[s] < MaxScans
  /\ scans' = [scans EXCEPT ![s] = @ + 1]
  /\ todo' = [todo EXCEPT ![s] = Incomplete]
  /\ Goes(s, "check")
  /\ UNCHANGED <<vars, mode, restarts, old, recovered, plans>>

(* Is the task already recovered?  Asked under the lock, which is released *)
(* again before the plan is made.                                          *)
ScanSkip(s) ==
  /\ spc[s] = "check"
  /\ todo[s] # {}
  /\ First(todo[s]) \in recovered
  /\ todo' = [todo EXCEPT ![s] = @ \ {First(@)}]
  /\ UNCHANGED <<vars, mode, restarts, old, recovered, spc, scans, plans>>

ScanTake(s) ==
  /\ spc[s] = "check"
  /\ todo[s] # {}
  /\ First(todo[s]) \notin recovered
  /\ Goes(s, "plan")
  /\ UNCHANGED <<vars, mode, restarts, old, recovered, scans, todo, plans>>

(* classify_recovery.  A checkpoint is always valid JSON here: it was      *)
(* written by serde_json.                                                  *)
Classify(n) ==
  IF n \in old THEN "abandon"
  ELSE IF rows[n].checkpoint # <<>> THEN "resume" ELSE "restart"

(* Mutant of CompletedSteps: errors count as completed.                    *)
CompletedStepsAll(h) ==
  {<<s[1], s[2], s[3], "ok">> : s \in UNION {Steps(h, n) : n \in Turns}}

(* extract_completed_steps: every tool result of the stored history, with  *)
(* whether it succeeded.                                                   *)
CompletedSteps(h) == UNION {Steps(h, n) : n \in Turns}

(* Mutant of ScanPlan: the task is not marked as recovered.                *)
ScanPlanUnmarked(s) ==
  /\ spc[s] = "plan"
  /\ LET n == First(todo[s])
     IN /\ plans' = plans \cup
              {[scan |-> <<s, scans[s]>>, task |-> n, action |-> Classify(n),
                steps |-> CompletedSteps(rows[n].checkpoint)]}
        /\ todo' = [todo EXCEPT ![s] = @ \ {n}]
  /\ Goes(s, "check")
  /\ UNCHANGED <<vars, mode, restarts, old, recovered, scans>>

(* The plan is made and the task marked as recovered, under the lock.      *)
ScanPlan(s) ==
  /\ spc[s] = "plan"
  /\ LET n == First(todo[s])
     IN /\ plans' = plans \cup
              {[scan |-> <<s, scans[s]>>, task |-> n, action |-> Classify(n),
                steps |-> CompletedSteps(rows[n].checkpoint)]}
        /\ recovered' = recovered \cup {n}
        /\ todo' = [todo EXCEPT ![s] = @ \ {n}]
  /\ Goes(s, "check")
  /\ UNCHANGED <<vars, mode, restarts, old, scans>>

(* The scan returns its plans, and the caller has the abandonments among   *)
(* them applied.                                                           *)
ScanEnd(s) ==
  /\ spc[s] = "check"
  /\ todo[s] = {}
  /\ todo' = [todo EXCEPT ![s] =
                {p.task : p \in {q \in plans : /\ q.scan = <<s, scans[s]>>
                                               /\ q.action = "abandon"}}]
  /\ Goes(s, "apply")
  /\ UNCHANGED <<vars, mode, restarts, old, recovered, scans, plans>>

(* apply_abandonments: one update after the other; the first that fails    *)
(* ends it.                                                                *)
Abandon(s) ==
  /\ spc[s] = "apply"
  /\ todo[s] # {}
  /\ rows' = [rows EXCEPT ![First(todo[s])].status = "failed"]
  /\ todo' = [todo EXCEPT ![s] = @ \ {First(@)}]
  /\ UNCHANGED <<spent, begun, pc, turn, held, rounds, results, memVars,
                 executed, mode, restarts, old, recovered, spc, scans,
                 plans>>

AbandonFails(s) ==
  /\ spc[s] = "apply"
  /\ todo[s] # {}
  /\ todo' = [todo EXCEPT ![s] = {}]
  /\ UNCHANGED <<vars, mode, restarts, old, recovered, spc, scans, plans>>

ApplyEnd(s) ==
  /\ spc[s] = "apply"
  /\ todo[s] = {}
  /\ Goes(s, "idle")
  /\ UNCHANGED <<vars, mode, restarts, old, recovered, scans, todo, plans>>

(* Every caller has scanned at least once and is done: messages flow.      *)
Serve ==
  /\ mode = "boot"
  /\ \A s \in Scanners : spc[s] = "idle" /\ scans[s] > 0
  /\ mode' = "serve"
  /\ UNCHANGED <<vars, restarts, old, scanVars>>

-----------------------------------------------------------------------------
Scan(s) ==
  \/ ScanLoad(s) \/ ScanSkip(s) \/ ScanTake(s) \/ ScanPlan(s) \/ ScanEnd(s)
  \/ Abandon(s) \/ AbandonFails(s) \/ ApplyEnd(s)

RecoveryNext ==
  \/ mode = "serve" /\ Next /\ UNCHANGED recVars
  \/ \E s \in Scanners : Scan(s)
  \/ \E n \in Turns : GrowOld(n)
  \/ Serve
  \/ Restart

RecoverySpec == RecoveryInit /\ [][RecoveryNext]_allVars
(* Once started, the recovery goes on, the gateway is served and turns     *)
(* under way go on.                                                        *)
RecoveryFairSpec ==
  /\ RecoverySpec
  /\ \A c \in Chats : WF_allVars(mode = "serve" /\ Step(c) /\ UNCHANGED recVars)
  /\ \A s \in Scanners : WF_allVars(Scan(s))
  /\ WF_allVars(Serve)

-----------------------------------------------------------------------------
(***************************************************************************)
(* Properties                                                              *)
(***************************************************************************)

(* No plan lists a step as completed that did not run to that very result, *)
(* whatever step the crash cut short and whichever writes had failed.      *)
PlansGenuine == \A p \in plans : p.steps \subseteq executed

(* A task's end is final: no scan and no abandonment reopens or fails a    *)
(* task that was completed, or revives one that was abandoned.             *)
EndIsFinal ==
  [][\A n \in Turns :
       rows[n].status \in {"completed", "failed"} => rows'[n].status = rows[n].status]_allVars

(* "Tracks which tasks have already been recovered to prevent              *)
(* double-recovery across multiple calls": one plan per task and start.    *)
(* Holds for calls one after the other; two concurrent ones may both find  *)
(* a task not yet recovered.                                               *)
PlannedOnce == \A p, q \in plans : p.task = q.task => p = q

(* After a restart every incomplete task gets a plan.                      *)
IncompleteIsPlanned ==
  \A n \in Turns :
    mode = "boot" /\ rows[n].status \in {"pending", "running"} ~>
      \E p \in plans : p.task = n

-----------------------------------------------------------------------------
(* What follows are theorems about AgentLoop and Recovery, for any set of  *)
(* chats, any limit, any cost and any number of turns, scans and restarts. *)

(***************************************************************************)
(* OverspendBounded is not inductive: it does not say why the chats that   *)
(* have passed check_budget may still add their costs.  SpendRoom reserves *)
(* the highest cost for each of them.                                      *)
(***************************************************************************)
SpendRoom ==
  MaxSpend # 0 =>
    spent + MaxCost * Cardinality(Spending) < MaxSpend + MaxCost * Cardinality(Chats)

(* The part of the types that the argument needs.                          *)
SpendType == spent \in Nat /\ pc \in [Chats -> PCs]

(* The chats about to spend are some of the finitely many chats.           *)
LEMMA SpendingFinite ==
  /\ IsFiniteSet(Spending)
  /\ Cardinality(Spending) \in Nat
  /\ Cardinality(Chats) \in Nat
  /\ Cardinality(Spending) <= Cardinality(Chats)
<1>1. Spending \subseteq Chats
  BY DEF Spending
<1>. QED
  BY <1>1, LoopAssumption, FS_Subset, FS_CardinalityType

(* The same in the next state.                                             *)
LEMMA SpendingFiniteNext ==
  /\ IsFiniteSet(Spending')
  /\ Cardinality(Spending') \in Nat
  /\ Cardinality(Spending') <= Cardinality(Chats)
<1>1. Spending' \subseteq Chats
  BY DEF Spending
<1>. QED
  BY <1>1, LoopAssumption, FS_Subset, FS_CardinalityType

(* More chats about to spend reserve more.                                 *)
LEMMA ReserveMonotone ==
  ASSUME NEW a \in Nat, NEW b \in Nat, a <= b
  PROVE  MaxCost * a <= MaxCost * b
BY LoopAssumption

(* A chat that records its cost gives up its reservation.                  *)
LEMMA ReserveOne ==
  ASSUME NEW a \in Nat
  PROVE  MaxCost * (a + 1) = MaxCost * a + MaxCost
BY LoopAssumption

(* A step after which nobody new may spend, and nothing was spent.         *)
LEMMA NothingSpent ==
  ASSUME SpendType, SpendRoom, spent' = spent, Spending' \subseteq Spending
  PROVE  SpendRoom'
<1>1. Cardinality(Spending') <= Cardinality(Spending)
  BY SpendingFinite, FS_Subset
<1>2. MaxCost * Cardinality(Spending') <= MaxCost * Cardinality(Spending)
  BY <1>1, SpendingFinite, SpendingFiniteNext, ReserveMonotone
<1>3. /\ MaxCost * Cardinality(Spending') \in Nat
      /\ MaxCost * Cardinality(Spending) \in Nat
      /\ MaxCost * Cardinality(Chats) \in Nat
  BY SpendingFinite, SpendingFiniteNext, LoopAssumption
<1>. QED
  BY <1>2, <1>3, LoopAssumption DEF SpendRoom, SpendType

(* A chat that has its answer adds the cost, and is no longer counted.     *)
LEMMA CostRecorded ==
  ASSUME SpendType, SpendRoom, NEW c \in Chats, pc[c] = "call",
         NEW cost \in 0..MaxCost, spent' = spent + cost,
         Spending' = Spending \ {c}
  PROVE  SpendRoom'
<1>1. c \in Spending
  BY DEF Spending
<1>2. Cardinality(Spending) = Cardinality(Spending') + 1
  BY <1>1, SpendingFinite, SpendingFiniteNext, FS_RemoveElement
<1>3. MaxCost * Cardinality(Spending) = MaxCost * Cardinality(Spending') + MaxCost
  BY <1>2, SpendingFiniteNext, ReserveOne
<1>4. /\ MaxCost * Cardinality(Spending') \in Nat
      /\ MaxCost * Cardinality(Chats) \in Nat
  BY SpendingFinite, SpendingFiniteNext, LoopAssumption
<1>. QED
  BY <1>3, <1>4, LoopAssumption DEF SpendRoom, SpendType

(* A chat that passes check_budget finds the limit not yet reached.        *)
LEMMA BudgetPassed ==
  ASSUME SpendType, ~Exhausted, spent' = spent
  PROVE  SpendRoom'
<1>1. MaxCost * Cardinality(Spending') <= MaxCost * Cardinality(Chats)
  BY SpendingFinite, SpendingFiniteNext, ReserveMonotone
<1>2. /\ MaxCost * Cardinality(Spending') \in Nat
      /\ MaxCost * Cardinality(Chats) \in Nat
  BY SpendingFinite, SpendingFiniteNext, LoopAssumption
<1>. QED
  BY <1>1, <1>2, LoopAssumption DEF SpendRoom, SpendType, Exhausted

(* Every step keeps the types.                                             *)
LEMMA NextSpendType ==
  ASSUME SpendType, [Next]_vars
  PROVE  SpendType'
<1>. USE LoopAssumption DEF SpendType, PCs, Goto, Return
<1>0. CASE UNCHANGED vars
  BY <1>0 DEF vars
<1>1. ASSUME NEW c \in Chats, NEW compound \in BOOLEAN, Begin(c, compound)
      PROVE  SpendType'
  BY <1>1 DEF Begin
<1>2. ASSUME NEW c \in Chats, NEW ok \in BOOLEAN,
             \/ CreateTask(c, ok) \/ MarkRunning(c, ok)
             \/ Checkpoint(c, ok) \/ Complete(c, ok)
      PROVE  SpendType'
  BY <1>2 DEF CreateTask, MarkRunning, Checkpoint, Complete
<1>3. ASSUME NEW c \in Chats,
             \/ Interrupted(c) \/ GiveUp(c) \/ NextRound(c) \/ BudgetRefuses(c)
             \/ BudgetAllows(c) \/ BreakerRefuses(c) \/ CallFails(c) \/ Panic(c)
             \/ EmptyMessage(c)
      PROVE  SpendType'
  BY <1>3 DEF EmptyMessage, Interrupted, GiveUp, NextRound, BudgetRefuses, BudgetAllows,
              BreakerRefuses, CallFails, Panic
<1>4. ASSUME NEW c \in Chats, NEW cost \in 0..MaxCost, CallReplies(c, cost)
      PROVE  SpendType'
  BY <1>4 DEF CallReplies
<1>5. ASSUME NEW c \in Chats, NEW cost \in 0..MaxCost, NEW uses \in 1..MaxUses,
             CallAsksTools(c, cost, uses)
      PROVE  SpendType'
  BY <1>5 DEF CallAsksTools
<1>6. ASSUME NEW c \in Chats, NEW r \in {"ok", "error"}, RunTool(c, r)
      PROVE  SpendType'
  BY <1>6 DEF RunTool
<1>7. ASSUME NEW c \in Chats, PushResults(c)
      PROVE  SpendType'
  BY <1>7 DEF PushResults
<1>. QED
  BY <1>0, <1>1, <1>2, <1>3, <1>4, <1>5, <1>6, <1>7 DEF Next, Step

(* Every step keeps enough room for the costs still to come.               *)
LEMMA NextSpendRoom ==
  ASSUME SpendType, SpendRoom, [Next]_vars
  PROVE  SpendRoom'
<1>. USE DEF SpendType, Spending, Goto, Return
<1>0. CASE UNCHANGED vars
  <2>1. spent' = spent /\ Spending' \subseteq Spending
    BY <1>0 DEF vars
  <2>. QED
    BY <2>1, NothingSpent
<1>1. ASSUME NEW c \in Chats, NEW compound \in BOOLEAN, Begin(c, compound)
      PROVE  SpendRoom'
  <2>1. spent' = spent /\ Spending' \subseteq Spending
    BY <1>1 DEF Begin
  <2>. QED
    BY <2>1, NothingSpent
<1>2. ASSUME NEW c \in Chats, NEW ok \in BOOLEAN,
             \/ CreateTask(c, ok) \/ MarkRunning(c, ok)
             \/ Checkpoint(c, ok) \/ Complete(c, ok)
      PROVE  SpendRoom'
  <2>1. spent' = spent /\ Spending' \subseteq Spending
    BY <1>2 DEF CreateTask, MarkRunning, Checkpoint, Complete
  <2>. QED
    BY <2>1, NothingSpent
<1>3. ASSUME NEW c \in Chats,
             \/ Interrupted(c) \/ GiveUp(c) \/ NextRound(c) \/ BudgetRefuses(c)
             \/ BreakerRefuses(c) \/ CallFails(c) \/ Panic(c) \/ EmptyMessage(c)
      PROVE  SpendRoom'
  <2>1. spent' = spent /\ Spending' \subseteq Spending
    BY <1>3 DEF Interrupted, GiveUp, NextRound, BudgetRefuses, BreakerRefuses,
                CallFails, Panic, EmptyMessage
  <2>. QED
    BY <2>1, NothingSpent
<1>4. ASSUME NEW c \in Chats, BudgetAllows(c)
      PROVE  SpendRoom'
  <2>1. spent' = spent /\ ~Exhausted
    BY <1>4 DEF BudgetAllows
  <2>. QED
    BY <2>1, BudgetPassed
<1>5. ASSUME NEW c \in Chats, NEW cost \in 0..MaxCost, CallReplies(c, cost)
      PROVE  SpendRoom'
  <2>1. spent' = spent + cost /\ pc[c] = "call" /\ Spending' = Spending \ {c}
    BY <1>5 DEF CallReplies
  <2>. QED
    BY <2>1, CostRecorded
<1>6. ASSUME NEW c \in Chats, NEW cost \in 0..MaxCost, NEW uses \in 1..MaxUses,
             CallAsksTools(c, cost, uses)
      PROVE  SpendRoom'
  <2>1. spent' = spent + cost /\ pc[c] = "call" /\ Spending' = Spending \ {c}
    BY <1>6 DEF CallAsksTools
  <2>. QED
    BY <2>1, CostRecorded
<1>7. ASSUME NEW c \in Chats, NEW r \in {"ok", "error"}, RunTool(c, r)
      PROVE  SpendRoom'
  <2>1. spent' = spent /\ Spending' \subseteq Spending
    BY <1>7 DEF RunTool
  <2>. QED
    BY <2>1, NothingSpent
<1>8. ASSUME NEW c \in Chats, PushResults(c)
      PROVE  SpendRoom'
  <2>1. spent' = spent /\ Spending' \subseteq Spending
    BY <1>8 DEF PushResults
  <2>. QED
    BY <2>1, NothingSpent
<1>. QED
  BY <1>0, <1>1, <1>2, <1>3, <1>4, <1>5, <1>6, <1>7, <1>8 DEF Next, Step

(* However many chats run turns at the same time, the budget is exceeded   *)
(* by less than one call per chat (check_budget and record_usage race).    *)
THEOREM SpendIsBounded == Spec => []OverspendBounded
<1>1. Init => SpendType
  BY DEF Init, SpendType, PCs
<1>2. Init => SpendRoom
  <2>. SUFFICES ASSUME Init PROVE SpendRoom
    OBVIOUS
  <2>1. Spending = {}
    BY DEF Init, Spending
  <2>2. Cardinality(Spending) = 0
    BY <2>1, FS_EmptySet
  <2>3. /\ MaxCost * Cardinality(Chats) \in Nat
        /\ MaxCost * 0 = 0
    BY SpendingFinite, LoopAssumption
  <2>. QED
    BY <2>2, <2>3, LoopAssumption DEF Init, SpendRoom
<1>3. SpendType /\ [Next]_vars => SpendType'
  BY NextSpendType
<1>4. SpendType /\ SpendRoom /\ [Next]_vars => SpendRoom'
  BY NextSpendRoom
<1>5. SpendType /\ SpendRoom => OverspendBounded
  <2>. SUFFICES ASSUME SpendType, SpendRoom PROVE OverspendBounded
    OBVIOUS
  <2>1. /\ MaxCost * Cardinality(Spending) \in Nat
        /\ MaxCost * Cardinality(Chats) \in Nat
    BY SpendingFinite, LoopAssumption
  <2>. QED
    BY <2>1, LoopAssumption DEF SpendType, SpendRoom, OverspendBounded
<1>. QED
  BY <1>1, <1>2, <1>3, <1>4, <1>5, PTL DEF Spec

-----------------------------------------------------------------------------
(***************************************************************************)
(* What a turn does to its history, by the way its steps change it.        *)
(***************************************************************************)

(* The turn goes on without a new entry in its history.                    *)
Proceeds(c) ==
  \/ \E ok \in BOOLEAN : CreateTask(c, ok) \/ MarkRunning(c, ok) \/ Checkpoint(c, ok)
  \/ NextRound(c) \/ BudgetAllows(c)

(* The turn ends and leaves its history to the next one.                   *)
Leaves(c) ==
  \/ Interrupted(c) \/ GiveUp(c) \/ BudgetRefuses(c) \/ BreakerRefuses(c) \/ CallFails(c)
  \/ \E ok \in BOOLEAN : Complete(c, ok)

(* A turn begins, replies, asks for tools, runs one.                       *)
Begins(c) == \E compound \in BOOLEAN : Begin(c, compound)
Replies(c) == \E cost \in 0..MaxCost : CallReplies(c, cost)
AsksTools(c) ==
  \E cost \in 0..MaxCost : \E uses \in 1..MaxUses : CallAsksTools(c, cost, uses)
RunsTool(c) == \E r \in {"ok", "error"} : RunTool(c, r)

Moves(c) ==
  \/ EmptyMessage(c) \/ Begins(c) \/ Proceeds(c) \/ Leaves(c) \/ Replies(c)
  \/ AsksTools(c) \/ RunsTool(c) \/ PushResults(c) \/ Panic(c)

(* Every step of the loop is a move of one chat.                           *)
LEMMA NextMoves ==
  ASSUME Next
  PROVE  \E c \in Chats : Moves(c)
BY DEF Next, Step, Moves, Begins, Proceeds, Leaves, Replies, AsksTools, RunsTool

(* An entry of the history is well typed.                                  *)
LEMMA EntryType ==
  ASSUME NEW kind \in {"user", "system", "reply", "call", "result"}, NEW n \in Turns,
         NEW r \in 0..MaxRounds, NEW parts \in Seq({"use", "ok", "error"})
  PROVE  /\ Entry(kind, n, r, parts) \in Entries
         /\ Entry(kind, n, r, parts).kind = kind
         /\ Entry(kind, n, r, parts).turn = n
         /\ Entry(kind, n, r, parts).round = r
         /\ Entry(kind, n, r, parts).parts = parts
BY DEF Entry, Entries

(* Results are among the parts that an entry may have.                     *)
LEMMA ResultParts ==
  ASSUME NEW s \in Seq({"ok", "error"})
  PROVE  s \in Seq({"use", "ok", "error"})
<1>1. s \in [1..Len(s) -> {"ok", "error"}] /\ Len(s) \in Nat
  OBVIOUS
<1>2. s \in [1..Len(s) -> {"use", "ok", "error"}]
  BY <1>1
<1>. QED
  BY <1>1, <1>2

-----------------------------------------------------------------------------
(***************************************************************************)
(* The shape of a turn.                                                    *)
(***************************************************************************)

(* A worker is idle exactly when it has no turn; a round has begun where   *)
(* the provider is asked, and results are collected only while tools run.  *)
InTurn(c) ==
  /\ pc[c] = "idle" <=> turn[c] = 0
  /\ turn[c] <= begun
  /\ pc[c] \in {"budget", "call", "tools", "checkpoint", "complete"} => rounds[c] >= 1
  /\ pc[c] # "tools" => results[c] = <<>>

(* No turn is run by two workers.                                          *)
OwnTurns == \A c, d \in Chats : c # d /\ turn[c] = turn[d] => turn[c] = 0

Shape == TypeOK /\ (\A c \in Chats : InTurn(c)) /\ OwnTurns

(* A worker that is not idle has a turn.                                   *)
LEMMA BusyHasTurn ==
  ASSUME Shape, NEW c \in Chats, pc[c] # "idle"
  PROVE  turn[c] \in Turns /\ turn[c] <= begun /\ begun \in Turns
BY LoopAssumption DEF Shape, TypeOK, InTurn, Turns

(* What the steps that only go on leave alone.                             *)
LEMMA ProceedsEffect ==
  ASSUME Shape, NEW c \in Chats, Proceeds(c)
  PROVE  /\ pc[c] \in {"create", "mark", "top", "budget", "checkpoint"}
         /\ pc'[c] \in {"mark", "top", "budget", "call"}
         /\ pc' = [pc EXCEPT ![c] = pc'[c]]
         /\ held' \in [Chats -> BOOLEAN]
         /\ rounds' \in [Chats -> 0..MaxRounds]
         /\ rounds' = [rounds EXCEPT ![c] = rounds'[c]]
         /\ rounds'[c] = rounds[c] \/ (rounds'[c] = rounds[c] + 1 /\ pc'[c] = "budget")
         /\ pc'[c] = "budget" => rounds'[c] = rounds[c] + 1 /\ pc[c] = "top"
         /\ pc'[c] = "call" => pc[c] = "budget"
         /\ UNCHANGED <<spent, begun, turn, results, history, saved, executed>>
<1>. USE DEF Shape, TypeOK, Goto, PCs, memVars
<1>1. ASSUME NEW ok \in BOOLEAN, CreateTask(c, ok) \/ MarkRunning(c, ok) \/ Checkpoint(c, ok)
      PROVE  /\ pc[c] \in {"create", "mark", "checkpoint"}
             /\ pc'[c] \in {"mark", "top"}
             /\ pc' = [pc EXCEPT ![c] = pc'[c]]
             /\ held' \in [Chats -> BOOLEAN]
             /\ UNCHANGED <<spent, begun, turn, rounds, results, history, saved, executed>>
  BY <1>1 DEF CreateTask, MarkRunning, Checkpoint
<1>2. CASE NextRound(c)
  BY <1>2, LoopAssumption DEF NextRound
<1>3. CASE BudgetAllows(c)
  BY <1>3 DEF BudgetAllows
<1>. QED
  BY <1>1, <1>2, <1>3 DEF Proceeds

(* The end of a turn.                                                      *)
LEMMA LeavesEffect ==
  ASSUME Shape, NEW c \in Chats, Leaves(c)
  PROVE  /\ pc[c] \in {"top", "budget", "call", "complete"}
         /\ Return(c, history[c])
         /\ UNCHANGED <<spent, begun, history, executed>>
<1>1. ASSUME NEW ok \in BOOLEAN, Complete(c, ok)
      PROVE  /\ pc[c] \in {"top", "budget", "call", "complete"}
             /\ Return(c, history[c])
             /\ UNCHANGED <<spent, begun, history, executed>>
  BY <1>1 DEF Complete
<1>. QED
  BY <1>1 DEF Leaves, Interrupted, GiveUp, BudgetRefuses, BreakerRefuses, CallFails

(* Rows: only the row of the turn under way changes; its status is set by  *)
(* the steps that own it, its checkpoint only to the history after a       *)
(* round.                                                                  *)
LEMMA RowEffect ==
  ASSUME Shape, NEW c \in Chats, Moves(c)
  PROVE  /\ rows' \in [Turns -> [status : Statuses, checkpoint : Seq(Entries)]]
         /\ \A n \in Turns : n # turn[c] => rows'[n] = rows[n]
         /\ pc[c] = "idle" => rows' = rows
         /\ pc'[c] # "idle" /\ pc[c] # "idle" =>
              \/ rows'[turn[c]].status = rows[turn[c]].status
              \/ rows'[turn[c]].status \in {"pending", "running"}
         /\ pc[c] # "idle" =>
              \/ rows'[turn[c]].checkpoint = rows[turn[c]].checkpoint
              \/ /\ pc[c] = "checkpoint" /\ pc'[c] = "top"
                 /\ rows'[turn[c]].checkpoint = history[c]
                 /\ rounds' = rounds
<1>. DEFINE Row == [status : Statuses, checkpoint : Seq(Entries)]
<1>0. rows \in [Turns -> Row]
  BY DEF Shape, TypeOK
<1>1. CASE UNCHANGED rows
  BY <1>0, <1>1
<1>2. CASE ~UNCHANGED rows
  <2>1. PICK ok \in BOOLEAN : \/ CreateTask(c, ok) \/ MarkRunning(c, ok)
                              \/ Checkpoint(c, ok) \/ Complete(c, ok)
    BY <1>2 DEF Moves, Begins, Begin, EmptyMessage, Proceeds, NextRound, BudgetAllows,
                Leaves, Interrupted, GiveUp, BudgetRefuses, BreakerRefuses, CallFails,
                Replies, CallReplies, AsksTools, CallAsksTools, RunsTool, RunTool,
                PushResults, Panic
  <2>2. pc[c] # "idle" /\ turn[c] \in Turns
    BY <2>1, BusyHasTurn DEF CreateTask, MarkRunning, Checkpoint, Complete
  <2>3. history[c] \in Seq(Entries) /\ pc \in [Chats -> PCs]
    BY DEF Shape, TypeOK
  <2>4. CASE CreateTask(c, ok)
    <3>1. rows' = [rows EXCEPT ![turn[c]].status = "pending"] /\ pc[c] # "checkpoint"
      BY <1>2, <2>4 DEF CreateTask
    <3>. QED
      BY <1>0, <2>2, <3>1 DEF Statuses
  <2>5. CASE MarkRunning(c, ok)
    <3>1. rows' = [rows EXCEPT ![turn[c]].status = "running"] /\ pc[c] # "checkpoint"
      BY <1>2, <2>5 DEF MarkRunning
    <3>. QED
      BY <1>0, <2>2, <3>1 DEF Statuses
  <2>6. CASE Checkpoint(c, ok)
    <3>1. /\ rows' = [rows EXCEPT ![turn[c]].checkpoint = history[c]]
          /\ pc[c] = "checkpoint" /\ pc'[c] = "top" /\ rounds' = rounds
      BY <1>2, <2>3, <2>6 DEF Checkpoint, Goto
    <3>. QED
      BY <1>0, <2>2, <2>3, <3>1
  <2>7. CASE Complete(c, ok)
    <3>1. /\ rows' = [rows EXCEPT ![turn[c]].status = "completed"]
          /\ pc'[c] = "idle"
      BY <1>2, <2>3, <2>7 DEF Complete, Return, Goto
    <3>. QED
      BY <1>0, <2>2, <3>1 DEF Statuses
  <2>. QED
    BY <2>1, <2>4, <2>5, <2>6, <2>7
<1>. QED
  BY <1>1, <1>2

(* A move of c leaves every other chat alone.                              *)
LEMMA OthersEffect ==
  ASSUME Shape, NEW c \in Chats, Moves(c), NEW d \in Chats, d # c
  PROVE  /\ pc'[d] = pc[d] /\ turn'[d] = turn[d] /\ rounds'[d] = rounds[d]
         /\ results'[d] = results[d] /\ history'[d] = history[d] /\ saved'[d] = saved[d]
<1>0. Leaves(c) => Return(c, history[c]) /\ UNCHANGED history
  BY LeavesEffect
<1>. USE DEF Shape, TypeOK, Goto, Push, Return, memVars
<1>1. CASE EmptyMessage(c) \/ Begins(c)
  BY <1>1 DEF EmptyMessage, Begins, Begin
<1>2. CASE Proceeds(c)
  BY <1>2, ProceedsEffect
<1>3. CASE Leaves(c)
  BY <1>0, <1>3
<1>4. CASE Replies(c)
  BY <1>4 DEF Replies, CallReplies
<1>5. CASE AsksTools(c)
  BY <1>5 DEF AsksTools, CallAsksTools
<1>6. CASE RunsTool(c)
  BY <1>6 DEF RunsTool, RunTool
<1>7. CASE PushResults(c)
  BY <1>7 DEF PushResults
<1>8. CASE Panic(c)
  BY <1>8 DEF Panic
<1>. QED
  BY <1>1, <1>2, <1>3, <1>4, <1>5, <1>6, <1>7, <1>8 DEF Moves

(* What the move of c does to c's own variables, one clause for each way.  *)
LEMMA OwnTypes ==
  ASSUME Shape, NEW c \in Chats, Moves(c)
  PROVE  TypeOK'
<1>. DEFINE E == Seq(Entries)
<1>0. /\ spent \in Nat /\ begun \in 0..MaxTasks
      /\ pc \in [Chats -> PCs] /\ turn \in [Chats -> 0..MaxTasks]
      /\ held \in [Chats -> BOOLEAN] /\ rounds \in [Chats -> 0..MaxRounds]
      /\ results \in [Chats -> Seq({"ok", "error"})]
      /\ history \in [Chats -> E] /\ saved \in [Chats -> E]
      /\ executed \subseteq Turns \X (1..MaxRounds) \X Nat \X {"ok", "error"}
  BY DEF Shape, TypeOK
<1>r. rows' \in [Turns -> [status : Statuses, checkpoint : E]]
  BY RowEffect
<1>e. /\ <<>> \in Seq({"use", "ok", "error"})
      /\ \A h \in E, e \in Entries : Append(h, e) \in E
  OBVIOUS
<1>p. UNCHANGED <<spent, begun, turn, results, history, saved, executed>> /\
      pc' \in [Chats -> PCs] /\ held' \in [Chats -> BOOLEAN] /\ 
      rounds' \in [Chats -> 0..MaxRounds]
      => TypeOK'
  BY <1>0, <1>r DEF TypeOK
<1>b. pc[c] # "idle" => turn[c] \in Turns
  BY BusyHasTurn
<1>i. InTurn(c)
  BY DEF Shape
<1>1. CASE EmptyMessage(c)
  <2>1. begun' \in 0..MaxTasks
    BY <1>0, <1>1, LoopAssumption DEF EmptyMessage
  <2>. QED
    BY <1>0, <1>r, <1>1, <2>1 DEF EmptyMessage, TypeOK, memVars
<1>2. CASE Begins(c)
  <2>1. PICK compound \in BOOLEAN : Begin(c, compound)
    BY <1>2 DEF Begins
  <2>2. begun + 1 \in Turns /\ begun + 1 \in 0..MaxTasks /\ 0 \in 0..MaxRounds
    BY <1>0, <2>1, LoopAssumption DEF Begin, Turns
  <2>. DEFINE user == Entry("user", begun + 1, 0, <<>>)
              done == Entry("system", begun + 1, 0, <<>>)
              tail == IF compound THEN <<user, done>> ELSE <<user>>
  <2>3. user \in Entries /\ done \in Entries
    BY <1>e, <2>2, EntryType
  <2>. HIDE DEF user, done
  <2>4. history[c] \o tail \in E
    BY <1>0, <2>3
  <2>5. history' = [history EXCEPT ![c] = history[c] \o tail]
    BY <2>1 DEF Begin, user, done
  <2>6. history' \in [Chats -> E]
    BY <1>0, <2>4, <2>5
  <2>7. /\ spent' \in Nat /\ begun' \in 0..MaxTasks
        /\ pc' \in [Chats -> PCs] /\ turn' \in [Chats -> 0..MaxTasks]
        /\ UNCHANGED <<held, rounds, results, saved, executed>>
    BY <1>0, <2>1, <2>2 DEF Begin, Goto, PCs
  <2>. QED
    BY <1>0, <1>r, <2>6, <2>7 DEF TypeOK
<1>3. CASE Proceeds(c)
  <2>1. pc' \in [Chats -> PCs]
    BY <1>0, <1>3, ProceedsEffect DEF PCs
  <2>. QED
    BY <1>p, <1>3, <2>1, ProceedsEffect
<1>4. CASE Leaves(c)
  <2>1. Return(c, history[c]) /\ UNCHANGED <<spent, begun, history, executed>>
    BY <1>4, LeavesEffect
  <2>2. /\ pc' \in [Chats -> PCs] /\ turn' \in [Chats -> 0..MaxTasks]
        /\ held' \in [Chats -> BOOLEAN] /\ rounds' \in [Chats -> 0..MaxRounds]
        /\ results' \in [Chats -> Seq({"ok", "error"})]
        /\ saved' \in [Chats -> E]
    BY <1>0, <2>1, LoopAssumption DEF Return, Goto, PCs
  <2>. QED
    BY <1>0, <1>r, <2>1, <2>2 DEF TypeOK
<1>5. CASE Replies(c)
  <2>1. PICK cost \in 0..MaxCost : CallReplies(c, cost)
    BY <1>5 DEF Replies
  <2>2. Entry("reply", turn[c], rounds[c], <<>>) \in Entries
    <3>1. turn[c] \in Turns /\ rounds[c] \in 0..MaxRounds
      BY <1>0, <1>b, <2>1 DEF CallReplies
    <3>. QED
      BY <1>e, <3>1, EntryType
  <2>3. history' \in [Chats -> E]
    BY <1>0, <1>e, <2>1, <2>2 DEF CallReplies, Push
  <2>4. /\ spent' \in Nat /\ pc' \in [Chats -> PCs]
        /\ UNCHANGED <<begun, turn, held, rounds, results, saved, executed>>
    BY <1>0, <2>1, LoopAssumption DEF CallReplies, Goto, PCs
  <2>. QED
    BY <1>0, <1>r, <2>3, <2>4 DEF TypeOK
<1>6. CASE AsksTools(c)
  <2>1. PICK cost \in 0..MaxCost, uses \in 1..MaxUses : CallAsksTools(c, cost, uses)
    BY <1>6 DEF AsksTools
  <2>u. [i \in 1..uses |-> "use"] \in Seq({"use", "ok", "error"})
    BY LoopAssumption
  <2>2. Entry("call", turn[c], rounds[c], [i \in 1..uses |-> "use"]) \in Entries
    BY <1>0, <1>b, <2>u, <2>1, EntryType DEF CallAsksTools
  <2>3. history' \in [Chats -> E]
    BY <1>0, <1>e, <2>1, <2>2 DEF CallAsksTools, Push
  <2>4. /\ spent' \in Nat /\ pc' \in [Chats -> PCs]
        /\ UNCHANGED <<begun, turn, held, rounds, results, saved, executed>>
    BY <1>0, <2>1, LoopAssumption DEF CallAsksTools, Goto, PCs
  <2>. QED
    BY <1>0, <1>r, <2>3, <2>4 DEF TypeOK
<1>7. CASE RunsTool(c)
  <2>1. PICK r \in {"ok", "error"} : RunTool(c, r)
    BY <1>7 DEF RunsTool
  <2>2. results' \in [Chats -> Seq({"ok", "error"})]
    BY <1>0, <2>1 DEF RunTool
  <2>3. turn[c] \in Turns /\ rounds[c] \in 1..MaxRounds /\ Len(results[c]) + 1 \in Nat
    BY <1>0, <1>b, <1>i, <2>1, LoopAssumption DEF RunTool, InTurn
  <2>4. executed' \subseteq Turns \X (1..MaxRounds) \X Nat \X {"ok", "error"}
    BY <1>0, <2>1, <2>3 DEF RunTool
  <2>. QED
    BY <1>0, <1>r, <2>1, <2>2, <2>4 DEF TypeOK, RunTool, memVars
<1>8. CASE PushResults(c)
  <2>1. results[c] \in Seq({"use", "ok", "error"})
    BY <1>0, ResultParts
  <2>2. Entry("result", turn[c], rounds[c], results[c]) \in Entries
    BY <1>0, <1>b, <1>8, <2>1, EntryType DEF PushResults
  <2>3. history' \in [Chats -> E]
    BY <1>0, <1>e, <1>8, <2>2 DEF PushResults, Push
  <2>4. /\ results' \in [Chats -> Seq({"ok", "error"})] /\ pc' \in [Chats -> PCs]
        /\ UNCHANGED <<spent, begun, turn, held, rounds, saved, executed>>
    BY <1>0, <1>8 DEF PushResults, Goto, PCs
  <2>. QED
    BY <1>0, <1>r, <2>3, <2>4 DEF TypeOK
<1>9. CASE Panic(c)
  <2>1. /\ pc' \in [Chats -> PCs] /\ turn' \in [Chats -> 0..MaxTasks]
        /\ held' \in [Chats -> BOOLEAN] /\ rounds' \in [Chats -> 0..MaxRounds]
        /\ results' \in [Chats -> Seq({"ok", "error"})]
        /\ saved' \in [Chats -> E] /\ history' \in [Chats -> E]
        /\ UNCHANGED <<spent, begun, executed>>
    BY <1>0, <1>9, LoopAssumption DEF Panic, Return, Goto, PCs
  <2>. QED
    BY <1>0, <1>r, <2>1 DEF TypeOK
<1>. QED
  BY <1>1, <1>2, <1>3, <1>4, <1>5, <1>6, <1>7, <1>8, <1>9 DEF Moves

(* The chat that moves keeps its shape, and numbers only ever grow.        *)
LEMMA OwnShape ==
  ASSUME Shape, NEW c \in Chats, Moves(c)
  PROVE  /\ InTurn(c)'
         /\ begun' \in Nat /\ begun \in Nat /\ begun <= begun'
         /\ turn'[c] = turn[c] \/ turn'[c] = 0 \/ (turn'[c] = begun + 1 /\ begun' = begun + 1)
<1>0. /\ begun \in Nat /\ turn[c] \in Nat /\ rounds[c] \in Nat
      /\ pc \in [Chats -> PCs] /\ turn \in [Chats -> 0..MaxTasks]
      /\ rounds \in [Chats -> 0..MaxRounds]
      /\ results \in [Chats -> Seq({"ok", "error"})]
      /\ InTurn(c)
  BY LoopAssumption DEF Shape, TypeOK
<1>1. CASE EmptyMessage(c)
  BY <1>0, <1>1 DEF EmptyMessage, InTurn
<1>2. CASE Begins(c)
  BY <1>0, <1>2 DEF Begins, Begin, Goto, InTurn
<1>3. CASE Proceeds(c)
  <2>1. pc[c] # "idle" /\ pc'[c] # "idle" /\ pc[c] # "tools" /\ pc'[c] # "tools"
    BY <1>3, ProceedsEffect
  <2>2. UNCHANGED <<begun, turn, results>>
    BY <1>3, ProceedsEffect
  <2>3. pc'[c] \in {"budget", "call", "tools", "checkpoint", "complete"} => rounds'[c] >= 1
    <3>1. /\ pc'[c] \in {"mark", "top", "budget", "call"}
          /\ pc'[c] = "budget" => rounds'[c] = rounds[c] + 1
          /\ pc'[c] = "call" => rounds'[c] = rounds[c] /\ pc[c] = "budget"
      BY <1>3, ProceedsEffect
    <3>2. pc[c] = "budget" => rounds[c] >= 1
      BY <1>0 DEF InTurn
    <3>. QED
      BY <1>0, <3>1, <3>2
  <2>. QED
    BY <1>0, <2>1, <2>2, <2>3 DEF InTurn
<1>4. CASE Leaves(c) \/ Panic(c)
  <2>1. \E h : Return(c, h) /\ UNCHANGED begun
    BY <1>4, LeavesEffect DEF Panic
  <2>. QED
    BY <1>0, <2>1 DEF Return, Goto, InTurn
<1>5. CASE Replies(c)
  BY <1>0, <1>5 DEF Replies, CallReplies, Goto, InTurn
<1>6. CASE AsksTools(c)
  BY <1>0, <1>6 DEF AsksTools, CallAsksTools, Goto, InTurn
<1>7. CASE RunsTool(c)
  BY <1>0, <1>7 DEF RunsTool, RunTool, InTurn
<1>8. CASE PushResults(c)
  BY <1>0, <1>8 DEF PushResults, Goto, InTurn
<1>. QED
  BY <1>1, <1>2, <1>3, <1>4, <1>5, <1>6, <1>7, <1>8 DEF Moves

(* Every move keeps the shape.                                             *)
LEMMA NextShape ==
  ASSUME Shape, NEW c \in Chats, Moves(c)
  PROVE  Shape'
<1>0. /\ begun \in Nat /\ turn \in [Chats -> 0..MaxTasks] /\ \A d \in Chats : turn[d] \in Nat
  BY LoopAssumption DEF Shape, TypeOK
<1>1. \A d \in Chats : d # c => InTurn(d)'
  <2>. SUFFICES ASSUME NEW d \in Chats, d # c PROVE InTurn(d)'
    OBVIOUS
  <2>1. /\ pc'[d] = pc[d] /\ turn'[d] = turn[d] /\ rounds'[d] = rounds[d]
        /\ results'[d] = results[d] /\ begun' \in Nat /\ begun <= begun'
    BY OthersEffect, OwnShape
  <2>2. InTurn(d)
    BY DEF Shape
  <2>3. turn'[d] <= begun'
    BY <1>0, <2>1, <2>2 DEF InTurn
  <2>. QED
    BY <2>1, <2>2, <2>3 DEF InTurn
<1>2. OwnTurns'
  <2>. SUFFICES ASSUME NEW d \in Chats, NEW e \in Chats, d # e, turn'[d] = turn'[e]
                PROVE  turn'[d] = 0
    BY DEF OwnTurns
  <2>1. /\ turn[d] <= begun /\ turn[e] <= begun
        /\ turn[d] = turn[e] => turn[d] = 0
    BY DEF Shape, InTurn, OwnTurns
  <2>2. /\ d # c => turn'[d] = turn[d]
        /\ e # c => turn'[e] = turn[e]
    BY OthersEffect
  <2>3. turn'[c] = turn[c] \/ turn'[c] = 0 \/ turn'[c] = begun + 1
    BY OwnShape
  <2>. QED
    BY <1>0, <2>1, <2>2, <2>3
<1>. QED
  BY <1>1, <1>2, OwnTypes, OwnShape DEF Shape

-----------------------------------------------------------------------------
(***************************************************************************)
(* Histories: what an appended entry changes.                              *)
(***************************************************************************)

(* The last entry of an extended history.                                  *)
LEMMA LastOfAppend ==
  ASSUME NEW h \in Seq(Entries), NEW e \in Entries
  PROVE  /\ Append(h, e) \in Seq(Entries) /\ Append(h, e) # <<>>
         /\ Len(Append(h, e)) = Len(h) + 1 /\ Len(h) \in Nat
         /\ Append(h, e)[Len(Append(h, e))] = e
         /\ \A i \in 1..Len(h) : Append(h, e)[i] = h[i]
OBVIOUS

(* A text entry leaves every call answered.                                *)
LEMMA PairedText ==
  ASSUME NEW h \in Seq(Entries), NEW e \in Entries, Paired(h),
         e.kind # "call", e.kind # "result"
  PROVE  Paired(Append(h, e))
<1>. DEFINE g == Append(h, e)
<1>1. /\ Len(g) = Len(h) + 1 /\ Len(h) \in Nat /\ g[Len(h) + 1] = e
      /\ \A i \in 1..Len(h) : g[i] = h[i]
  OBVIOUS
<1>. HIDE DEF g
<1>2. ASSUME NEW i \in 1..Len(g), g[i].kind = "call"
      PROVE  /\ i < Len(g)
             /\ g[i + 1].kind = "result" /\ g[i + 1].turn = g[i].turn
             /\ g[i + 1].round = g[i].round /\ Len(g[i + 1].parts) = Len(g[i].parts)
  <2>1. i \in 1..Len(h) /\ g[i] = h[i]
    BY <1>1, <1>2
  <2>2. i < Len(h) /\ h[i + 1].kind = "result" /\ h[i + 1].turn = h[i].turn
        /\ h[i + 1].round = h[i].round /\ Len(h[i + 1].parts) = Len(h[i].parts)
    BY <1>2, <2>1 DEF Paired
  <2>3. g[i + 1] = h[i + 1]
    BY <1>1, <2>1, <2>2
  <2>. QED
    BY <1>1, <2>1, <2>2, <2>3
<1>3. ASSUME NEW i \in 1..Len(g), g[i].kind = "result"
      PROVE  i > 1 /\ g[i - 1].kind = "call"
  <2>1. i \in 1..Len(h) /\ g[i] = h[i]
    BY <1>1, <1>3
  <2>2. i > 1 /\ h[i - 1].kind = "call"
    BY <1>3, <2>1 DEF Paired
  <2>3. g[i - 1] = h[i - 1]
    BY <1>1, <2>1, <2>2
  <2>. QED
    BY <2>2, <2>3
<1>4. Paired(g)
  BY <1>2, <1>3 DEF Paired
<1>. QED
  BY <1>4 DEF g

(* A call and its answer leave every call answered.                        *)
LEMMA PairedAnswer ==
  ASSUME NEW h \in Seq(Entries), NEW e \in Entries, NEW f \in Entries, Paired(h),
         e.kind = "call", f.kind = "result", f.turn = e.turn, f.round = e.round,
         Len(f.parts) = Len(e.parts)
  PROVE  Paired(Append(Append(h, e), f))
<1>. DEFINE g == Append(Append(h, e), f)
<1>1. /\ Len(g) = Len(h) + 2 /\ Len(h) \in Nat
      /\ g[Len(h) + 1] = e /\ g[Len(h) + 2] = f
      /\ \A i \in 1..Len(h) : g[i] = h[i]
  OBVIOUS
<1>. HIDE DEF g
<1>2. ASSUME NEW i \in 1..Len(g), g[i].kind = "call"
      PROVE  /\ i < Len(g)
             /\ g[i + 1].kind = "result" /\ g[i + 1].turn = g[i].turn
             /\ g[i + 1].round = g[i].round /\ Len(g[i + 1].parts) = Len(g[i].parts)
  <2>1. CASE i \in 1..Len(h)
    <3>1. g[i] = h[i]
      BY <1>1, <2>1
    <3>2. i < Len(h) /\ h[i + 1].kind = "result" /\ h[i + 1].turn = h[i].turn
          /\ h[i + 1].round = h[i].round /\ Len(h[i + 1].parts) = Len(h[i].parts)
      BY <1>2, <2>1, <3>1 DEF Paired
    <3>3. g[i + 1] = h[i + 1]
      BY <1>1, <2>1, <3>2
    <3>. QED
      BY <1>1, <2>1, <3>1, <3>2, <3>3
  <2>2. CASE i = Len(h) + 1
    <3>1. g[i] = e /\ g[i + 1] = f /\ i < Len(g)
      BY <1>1, <2>2
    <3>. QED
      BY <3>1
  <2>. QED
    BY <1>1, <1>2, <2>1, <2>2
<1>3. ASSUME NEW i \in 1..Len(g), g[i].kind = "result"
      PROVE  i > 1 /\ g[i - 1].kind = "call"
  <2>1. CASE i \in 1..Len(h)
    <3>1. g[i] = h[i]
      BY <1>1, <2>1
    <3>2. i > 1 /\ h[i - 1].kind = "call"
      BY <1>3, <2>1, <3>1 DEF Paired
    <3>3. g[i - 1] = h[i - 1]
      BY <1>1, <2>1, <3>2
    <3>. QED
      BY <3>2, <3>3
  <2>2. CASE i = Len(h) + 2
    <3>1. i > 1 /\ g[i - 1] = e
      BY <1>1, <2>2
    <3>. QED
      BY <3>1
  <2>. QED
    BY <1>1, <1>3, <2>1, <2>2
<1>4. Paired(g)
  BY <1>2, <1>3 DEF Paired
<1>. QED
  BY <1>4 DEF g

(* The steps that one Tool message records.                                *)
StepsOf(e) == {<<e.turn, e.round, i, e.parts[i]>> : i \in 1..Len(e.parts)}

(* What it means to be recorded.                                           *)
LEMMA StepsMember ==
  ASSUME NEW h, NEW n, NEW s
  PROVE  s \in Steps(h, n) <=>
           \E j \in 1..Len(h) :
             h[j].kind = "result" /\ h[j].turn = n /\ s \in StepsOf(h[j])
<1>. DEFINE J == {k \in 1..Len(h) : h[k].kind = "result" /\ h[k].turn = n}
            F(j) == {<<n, h[j].round, i, h[j].parts[i]>> : i \in 1..Len(h[j].parts)}
<1>1. Steps(h, n) = UNION {F(j) : j \in J}
  BY DEF Steps
<1>2. s \in Steps(h, n) <=> \E j \in J : s \in F(j)
  BY <1>1
<1>3. ASSUME NEW j \in J PROVE F(j) = StepsOf(h[j])
  BY <1>3 DEF StepsOf
<1>. QED
  BY <1>2, <1>3

(* An appended Tool message adds its steps to those of its turn, any other *)
(* entry adds none.                                                        *)
LEMMA StepsAppend ==
  ASSUME NEW h \in Seq(Entries), NEW e \in Entries, NEW n
  PROVE  /\ e.kind = "result" /\ e.turn = n => Steps(Append(h, e), n) = Steps(h, n) \cup StepsOf(e)
         /\ e.kind # "result" \/ e.turn # n => Steps(Append(h, e), n) = Steps(h, n)
<1>. DEFINE g == Append(h, e)
<1>1. /\ Len(g) = Len(h) + 1 /\ Len(h) \in Nat /\ g[Len(h) + 1] = e
      /\ \A i \in 1..Len(h) : g[i] = h[i]
  OBVIOUS
<1>. HIDE DEF g
<1>2. \A j : j \in 1..Len(g) <=> j \in 1..Len(h) \/ j = Len(h) + 1
  BY <1>1
<1>3. ASSUME NEW s
      PROVE  s \in Steps(g, n) <=>
               \/ s \in Steps(h, n)
               \/ e.kind = "result" /\ e.turn = n /\ s \in StepsOf(e)
  <2>. HIDE DEF StepsOf
  <2>1. s \in Steps(h, n) <=> \E j \in 1..Len(h) : h[j].kind = "result" /\ h[j].turn = n /\ s \in StepsOf(h[j])
    BY StepsMember
  <2>2. s \in Steps(g, n) <=> \E j \in 1..Len(g) : g[j].kind = "result" /\ g[j].turn = n /\ s \in StepsOf(g[j])
    BY StepsMember
  <2>. QED
    BY <1>1, <1>2, <2>1, <2>2
<1>. QED
  BY <1>3 DEF g

(* Two histories whose entries are all of other turns record no step.      *)
LEMMA StepsNone ==
  ASSUME NEW h, NEW n, \A i \in 1..Len(h) : h[i].turn # n
  PROVE  Steps(h, n) = {}
BY StepsMember

(* What the results of the round under way are.                            *)
Now(c) == {<<turn[c], rounds[c], i, results[c][i]>> : i \in 1..Len(results[c])}

(* An entry without parts.                                                 *)
LEMMA TextType ==
  ASSUME NEW kind \in {"user", "system", "reply"}, NEW n \in Turns, NEW r \in 0..MaxRounds
  PROVE  /\ Entry(kind, n, r, <<>>) \in Entries
         /\ Entry(kind, n, r, <<>>).kind = kind
         /\ Entry(kind, n, r, <<>>).turn = n
BY DEF Entry, Entries

(* The first entries of a turn are texts of that turn.                     *)
LEMMA BeginsEffect ==
  ASSUME Shape, NEW c \in Chats, Begins(c)
  PROVE  /\ pc[c] = "idle" /\ pc'[c] = "create" /\ turn'[c] = begun + 1 /\ begun' = begun + 1
         /\ begun + 1 \in Turns
         /\ UNCHANGED <<rounds, results, saved, rows, executed>>
         /\ \E user, done \in Entries :
              /\ user.kind = "user" /\ done.kind = "system"
              /\ user.turn = begun + 1 /\ done.turn = begun + 1
              /\ \/ history'[c] = Append(history[c], user)
                 \/ history'[c] = Append(Append(history[c], user), done)
<1>1. PICK compound \in BOOLEAN : Begin(c, compound)
  BY DEF Begins
<1>. DEFINE user == Entry("user", begun + 1, 0, <<>>)
            done == Entry("system", begun + 1, 0, <<>>)
<1>2. /\ begun + 1 \in Turns /\ history[c] \in Seq(Entries) /\ c \in DOMAIN history
      /\ pc \in [Chats -> PCs] /\ turn \in [Chats -> 0..MaxTasks]
  BY <1>1, LoopAssumption DEF Begin, Shape, TypeOK, Turns
<1>3. /\ user \in Entries /\ done \in Entries /\ user.kind = "user" /\ done.kind = "system"
      /\ user.turn = begun + 1 /\ done.turn = begun + 1
  <2>1. 0 \in 0..MaxRounds
    BY LoopAssumption
  <2>. QED
    BY <1>2, <2>1, TextType
<1>4. history'[c] = history[c] \o (IF compound THEN <<user, done>> ELSE <<user>>)
  BY <1>1, <1>2 DEF Begin
<1>. HIDE DEF user, done
<1>5. \/ history'[c] = Append(history[c], user)
      \/ history'[c] = Append(Append(history[c], user), done)
  <2>1. CASE compound
    <3>1. history'[c] = history[c] \o <<user, done>>
      BY <1>4, <2>1
    <3>2. history[c] \o <<user, done>> = Append(Append(history[c], user), done)
      BY <1>2, <1>3
    <3>. QED
      BY <3>1, <3>2
  <2>2. CASE ~compound
    <3>1. history'[c] = history[c] \o <<user>>
      BY <1>4, <2>2
    <3>2. history[c] \o <<user>> = Append(history[c], user)
      BY <1>2, <1>3
    <3>. QED
      BY <3>1, <3>2
  <2>. QED
    BY <2>1, <2>2
<1>. QED
  BY <1>1, <1>2, <1>3, <1>5 DEF Begin, Goto

(* The answers of the provider.                                            *)
LEMMA RepliesEffect ==
  ASSUME Shape, NEW c \in Chats, Replies(c)
  PROVE  /\ pc[c] = "call" /\ pc'[c] = "complete"
         /\ UNCHANGED <<begun, turn, rounds, results, saved, rows, executed>>
         /\ \E e \in Entries : e.kind = "reply" /\ e.turn = turn[c] /\ history'[c] = Append(history[c], e)
<1>1. PICK cost \in 0..MaxCost : CallReplies(c, cost)
  BY DEF Replies
<1>2. /\ rounds[c] \in 0..MaxRounds /\ pc \in [Chats -> PCs] /\ history \in [Chats -> Seq(Entries)]
  BY DEF Shape, TypeOK
<1>3. turn[c] \in Turns
  BY <1>1, BusyHasTurn DEF CallReplies
<1>4. /\ Entry("reply", turn[c], rounds[c], <<>>) \in Entries
      /\ Entry("reply", turn[c], rounds[c], <<>>).kind = "reply"
      /\ Entry("reply", turn[c], rounds[c], <<>>).turn = turn[c]
  BY <1>2, <1>3, TextType
<1>5. history'[c] = Append(history[c], Entry("reply", turn[c], rounds[c], <<>>))
  BY <1>1, <1>2 DEF CallReplies, Push
<1>. QED
  BY <1>1, <1>2, <1>4, <1>5 DEF CallReplies, Goto

(* A response that asks for tools leaves a call at the end.                *)
LEMMA AsksToolsEffect ==
  ASSUME Shape, NEW c \in Chats, AsksTools(c)
  PROVE  /\ pc[c] = "call" /\ pc'[c] = "tools"
         /\ UNCHANGED <<begun, turn, rounds, results, saved, rows, executed>>
         /\ \E e \in Entries : /\ e.kind = "call" /\ e.turn = turn[c] /\ e.round = rounds[c]
                               /\ Len(e.parts) \in Nat
                               /\ history'[c] = Append(history[c], e)
<1>1. PICK cost \in 0..MaxCost, uses \in 1..MaxUses : CallAsksTools(c, cost, uses)
  BY DEF AsksTools
<1>. DEFINE parts == [i \in 1..uses |-> "use"]
            e == Entry("call", turn[c], rounds[c], parts)
<1>2. /\ rounds[c] \in 0..MaxRounds /\ pc \in [Chats -> PCs] /\ history \in [Chats -> Seq(Entries)]
      /\ parts \in Seq({"use", "ok", "error"})
  BY LoopAssumption DEF Shape, TypeOK
<1>3. turn[c] \in Turns
  BY <1>1, BusyHasTurn DEF CallAsksTools
<1>. HIDE DEF parts
<1>4. /\ e \in Entries /\ e.kind = "call" /\ e.turn = turn[c] /\ e.round = rounds[c]
      /\ e.parts = parts
  BY <1>2, <1>3, EntryType
<1>5. history'[c] = Append(history[c], e)
  BY <1>1, <1>2 DEF CallAsksTools, Push, parts
<1>6. Len(e.parts) \in Nat
  BY <1>2, <1>4
<1>. HIDE DEF e
<1>7. /\ pc[c] = "call" /\ pc'[c] = "tools"
      /\ UNCHANGED <<begun, turn, rounds, results, saved, rows, executed>>
  BY <1>1, <1>2 DEF CallAsksTools, Goto
<1>. QED
  BY <1>4, <1>5, <1>6, <1>7

(* The Tool message of a round has the round's results.                    *)
LEMMA PushResultsEffect ==
  ASSUME Shape, NEW c \in Chats, PushResults(c)
  PROVE  /\ pc[c] = "tools" /\ pc'[c] = "checkpoint" /\ results'[c] = <<>>
         /\ Len(results[c]) = Len(Asked(c))
         /\ UNCHANGED <<begun, turn, rounds, saved, rows, executed>>
         /\ \E e \in Entries : /\ e.kind = "result" /\ e.turn = turn[c] /\ e.round = rounds[c]
                               /\ e.parts = results[c] /\ StepsOf(e) = Now(c)
                               /\ history'[c] = Append(history[c], e)
<1>. DEFINE e == Entry("result", turn[c], rounds[c], results[c])
<1>1. /\ rounds[c] \in 0..MaxRounds /\ pc \in [Chats -> PCs] /\ history \in [Chats -> Seq(Entries)]
      /\ results \in [Chats -> Seq({"ok", "error"})]
  BY DEF Shape, TypeOK
<1>2. turn[c] \in Turns
  BY BusyHasTurn DEF PushResults
<1>3. /\ e \in Entries /\ e.kind = "result" /\ e.turn = turn[c] /\ e.round = rounds[c]
      /\ e.parts = results[c]
  BY <1>1, <1>2, EntryType, ResultParts
<1>4. history'[c] = Append(history[c], e)
  BY <1>1 DEF PushResults, Push
<1>. HIDE DEF e
<1>5. StepsOf(e) = Now(c)
  BY <1>3 DEF StepsOf, Now
<1>6. /\ pc[c] = "tools" /\ pc'[c] = "checkpoint" /\ results'[c] = <<>>
      /\ Len(results[c]) = Len(Asked(c))
      /\ UNCHANGED <<begun, turn, rounds, saved, rows, executed>>
  BY <1>1 DEF PushResults, Goto
<1>. QED
  BY <1>3, <1>4, <1>5, <1>6

(* A tool that has run is the next result, and nothing else changes.       *)
LEMMA RunsToolEffect ==
  ASSUME Shape, NEW c \in Chats, RunsTool(c)
  PROVE  /\ pc[c] = "tools" /\ Len(results[c]) < Len(Asked(c))
         /\ UNCHANGED <<begun, pc, turn, rounds, history, saved, rows>>
         /\ \E r \in {"ok", "error"} :
              /\ results'[c] = Append(results[c], r)
              /\ executed' = executed \cup {<<turn[c], rounds[c], Len(results[c]) + 1, r>>}
BY DEF RunsTool, RunTool, Shape, TypeOK, memVars

(* An ended turn leaves its history, a panicking one the one before it.    *)
LEMMA ReturnEffect ==
  ASSUME Shape, NEW c \in Chats, Leaves(c) \/ Panic(c)
  PROVE  /\ pc[c] # "idle" /\ pc'[c] = "idle" /\ turn'[c] = 0 /\ rounds'[c] = 0 /\ results'[c] = <<>>
         /\ UNCHANGED <<begun, executed>>
         /\ saved'[c] = history'[c]
         /\ \/ pc[c] # "tools" /\ history'[c] = history[c]
            \/ history'[c] = saved[c]
<1>1. /\ pc \in [Chats -> PCs] /\ turn \in [Chats -> 0..MaxTasks]
      /\ rounds \in [Chats -> 0..MaxRounds]
      /\ results \in [Chats -> Seq({"ok", "error"})]
      /\ history \in [Chats -> Seq(Entries)] /\ saved \in [Chats -> Seq(Entries)]
  BY DEF Shape, TypeOK
<1>2. CASE Leaves(c)
  <2>1. /\ pc[c] \in {"top", "budget", "call", "complete"}
        /\ Return(c, history[c])
        /\ UNCHANGED <<spent, begun, history, executed>>
    BY <1>2, LeavesEffect
  <2>. QED
    BY <1>1, <2>1 DEF Return, Goto
<1>3. CASE Panic(c)
  BY <1>1, <1>3 DEF Panic, Return, Goto
<1>. QED
  BY <1>2, <1>3

(* The Tool message answers the call that is open while tools run.         *)
Open(c) ==
  \E g \in Seq(Entries), e \in Entries :
    /\ history[c] = Append(g, e)
    /\ Paired(g)
    /\ e.kind = "call" /\ e.turn = turn[c] /\ e.round = rounds[c]
    /\ Len(results[c]) <= Len(e.parts)

(* HistoryPaired is not inductive: between a call and its answer the       *)
(* history is not paired, but for the one call that is open.               *)
Answered(c) ==
  /\ Paired(saved[c])
  /\ pc[c] # "tools" => Paired(history[c])
  /\ pc[c] = "tools" => Open(c)

Pairing ==
  /\ \A c \in Chats : Answered(c)
  /\ \A n \in Turns : Paired(rows[n].checkpoint)

(* The moving chat's own histories.                                        *)
LEMMA OwnAnswered ==
  ASSUME Shape, Pairing, NEW c \in Chats, Moves(c)
  PROVE  Answered(c)'
<1>0. /\ Answered(c) /\ history[c] \in Seq(Entries) /\ results[c] \in Seq({"ok", "error"})
      /\ InTurn(c)
  BY DEF Pairing, Shape, TypeOK
<1>1. CASE EmptyMessage(c)
  BY <1>0, <1>1 DEF EmptyMessage, Answered, memVars
<1>2. CASE Begins(c)
  <2>1. PICK user, done \in Entries :
           /\ user.kind = "user" /\ done.kind = "system"
           /\ \/ history'[c] = Append(history[c], user)
              \/ history'[c] = Append(Append(history[c], user), done)
    BY <1>2, BeginsEffect
  <2>2. /\ pc[c] = "idle" /\ pc'[c] = "create" /\ saved' = saved
    BY <1>2, BeginsEffect
  <2>3. Paired(Append(history[c], user)) /\ Append(history[c], user) \in Seq(Entries)
    BY <1>0, <2>1, <2>2, PairedText DEF Answered
  <2>4. Paired(Append(Append(history[c], user), done))
    BY <2>1, <2>3, PairedText
  <2>. QED
    BY <1>0, <2>1, <2>2, <2>3, <2>4 DEF Answered
<1>3. CASE Proceeds(c)
  <2>1. pc[c] # "tools" /\ pc'[c] # "tools" /\ history' = history /\ saved' = saved
    BY <1>3, ProceedsEffect
  <2>. QED
    BY <1>0, <2>1 DEF Answered
<1>4. CASE Leaves(c) \/ Panic(c)
  BY <1>0, <1>4, ReturnEffect DEF Answered
<1>5. CASE Replies(c)
  <2>1. PICK e \in Entries : e.kind = "reply" /\ history'[c] = Append(history[c], e)
    BY <1>5, RepliesEffect
  <2>2. pc[c] = "call" /\ pc'[c] = "complete" /\ saved' = saved
    BY <1>5, RepliesEffect
  <2>3. Paired(Append(history[c], e))
    BY <1>0, <2>1, <2>2, PairedText DEF Answered
  <2>. QED
    BY <1>0, <2>1, <2>2, <2>3 DEF Answered
<1>6. CASE AsksTools(c)
  <2>1. PICK e \in Entries : /\ e.kind = "call" /\ e.turn = turn[c] /\ e.round = rounds[c]
                             /\ Len(e.parts) \in Nat
                             /\ history'[c] = Append(history[c], e)
    BY <1>6, AsksToolsEffect
  <2>2. /\ pc[c] = "call" /\ pc'[c] = "tools"
        /\ UNCHANGED <<turn, rounds, results, saved>>
    BY <1>6, AsksToolsEffect
  <2>3. results[c] = <<>> /\ Paired(history[c])
    BY <1>0, <2>2 DEF InTurn, Answered
  <2>4. Len(results'[c]) <= Len(e.parts)
    BY <2>1, <2>2, <2>3
  <2>5. Open(c)'
    BY <1>0, <2>1, <2>2, <2>3, <2>4 DEF Open
  <2>. QED
    BY <1>0, <2>2, <2>5 DEF Answered
<1>7. CASE RunsTool(c)
  <2>1. /\ pc[c] = "tools" /\ Len(results[c]) < Len(Asked(c))
        /\ UNCHANGED <<pc, turn, rounds, history, saved>>
    BY <1>7, RunsToolEffect
  <2>2. PICK r \in {"ok", "error"} : results'[c] = Append(results[c], r)
    BY <1>7, RunsToolEffect
  <2>3. PICK g \in Seq(Entries), e \in Entries :
           /\ history[c] = Append(g, e)
           /\ Paired(g)
           /\ e.kind = "call" /\ e.turn = turn[c] /\ e.round = rounds[c]
    BY <1>0, <2>1 DEF Answered, Open
  <2>4. Asked(c) = e.parts
    BY <2>3, LastOfAppend DEF Asked
  <2>5. e.parts \in Seq({"use", "ok", "error"})
    BY DEF Entries
  <2>6. Len(results'[c]) = Len(results[c]) + 1 /\ Len(results[c]) \in Nat /\ Len(e.parts) \in Nat
    BY <1>0, <2>2, <2>5
  <2>7. Len(results'[c]) <= Len(e.parts)
    BY <2>1, <2>4, <2>6
  <2>8. Open(c)'
    BY <2>1, <2>3, <2>7 DEF Open
  <2>. QED
    BY <1>0, <2>1, <2>8 DEF Answered
<1>8. CASE PushResults(c)
  <2>1. /\ pc[c] = "tools" /\ pc'[c] = "checkpoint"
        /\ Len(results[c]) = Len(Asked(c)) /\ saved' = saved
    BY <1>8, PushResultsEffect
  <2>2. PICK f \in Entries : /\ f.kind = "result" /\ f.turn = turn[c] /\ f.round = rounds[c]
                             /\ f.parts = results[c]
                             /\ history'[c] = Append(history[c], f)
    BY <1>8, PushResultsEffect
  <2>3. PICK g \in Seq(Entries), e \in Entries :
           /\ history[c] = Append(g, e)
           /\ Paired(g)
           /\ e.kind = "call" /\ e.turn = turn[c] /\ e.round = rounds[c]
    BY <1>0, <2>1 DEF Answered, Open
  <2>4. Asked(c) = e.parts
    BY <2>3, LastOfAppend DEF Asked
  <2>5. Paired(Append(Append(g, e), f))
    BY <2>1, <2>2, <2>3, <2>4, PairedAnswer
  <2>. QED
    BY <1>0, <2>1, <2>2, <2>3, <2>5 DEF Answered
<1>. QED
  BY <1>1, <1>2, <1>3, <1>4, <1>5, <1>6, <1>7, <1>8 DEF Moves

(* Every move keeps the calls answered.                                    *)
LEMMA NextPairing ==
  ASSUME Shape, Pairing, NEW c \in Chats, Moves(c)
  PROVE  Pairing'
<1>1. ASSUME NEW d \in Chats, d # c PROVE Answered(d)'
  <2>1. /\ pc'[d] = pc[d] /\ turn'[d] = turn[d] /\ rounds'[d] = rounds[d]
        /\ results'[d] = results[d] /\ history'[d] = history[d] /\ saved'[d] = saved[d]
    BY <1>1, OthersEffect
  <2>2. Answered(d)
    BY DEF Pairing
  <2>3. Open(d) => Open(d)'
    BY <2>1 DEF Open
  <2>. QED
    BY <2>1, <2>2, <2>3 DEF Answered
<1>2. ASSUME NEW n \in Turns PROVE Paired(rows'[n].checkpoint)
  <2>1. Paired(rows[n].checkpoint) /\ Answered(c)
    BY DEF Pairing
  <2>2. rows'[n] = rows[n] \/ (n = turn[c] /\ pc[c] # "idle")
    BY RowEffect
  <2>3. n = turn[c] /\ pc[c] # "idle" =>
          \/ rows'[n].checkpoint = rows[n].checkpoint
          \/ pc[c] = "checkpoint" /\ rows'[n].checkpoint = history[c]
    BY RowEffect
  <2>4. pc[c] = "checkpoint" => Paired(history[c])
    BY <2>1 DEF Answered
  <2>. QED
    BY <2>1, <2>2, <2>3, <2>4
<1>. QED
  BY <1>1, <1>2, OwnAnswered DEF Pairing

-----------------------------------------------------------------------------
(***************************************************************************)
(* Turns that have not begun have left no trace.                           *)
(***************************************************************************)
Dated(h, n) == \A i \in 1..Len(h) : h[i].turn <= n

Fresh ==
  /\ \A n \in Turns : n > begun => rows[n] = NoRow
  /\ \A s \in executed : s[1] <= begun
  /\ \A c \in Chats : Dated(history[c], begun) /\ Dated(saved[c], begun)

(* An entry of a turn that has begun.                                      *)
LEMMA DatedAppend ==
  ASSUME NEW h \in Seq(Entries), NEW e \in Entries, NEW n \in Nat, Dated(h, n), e.turn <= n
  PROVE  Dated(Append(h, e), n)
<1>1. /\ Len(Append(h, e)) = Len(h) + 1 /\ Len(h) \in Nat
      /\ Append(h, e)[Len(h) + 1] = e
      /\ \A i \in 1..Len(h) : Append(h, e)[i] = h[i]
  OBVIOUS
<1>2. ASSUME NEW i \in 1..Len(Append(h, e)) PROVE Append(h, e)[i].turn <= n
  <2>1. i \in 1..Len(h) \/ i = Len(h) + 1
    BY <1>1
  <2>. QED
    BY <1>1, <2>1 DEF Dated
<1>. QED
  BY <1>2 DEF Dated

(* More turns may have begun.                                              *)
LEMMA DatedLater ==
  ASSUME NEW h \in Seq(Entries), NEW n \in Nat, NEW m \in Nat, n <= m, Dated(h, n)
  PROVE  Dated(h, m)
<1>1. ASSUME NEW i \in 1..Len(h) PROVE h[i].turn <= m
  <2>1. h[i] \in Entries /\ h[i].turn <= n
    BY DEF Dated
  <2>2. h[i].turn \in Nat
    BY <2>1, LoopAssumption DEF Entries, Turns
  <2>. QED
    BY <2>1, <2>2
<1>. QED
  BY <1>1 DEF Dated

(* The moving chat's histories have no entry of a turn to come.            *)
LEMMA OwnDated ==
  ASSUME Shape, Fresh, NEW c \in Chats, Moves(c)
  PROVE  Dated(history[c], begun)' /\ Dated(saved[c], begun)'
<1>0. /\ history[c] \in Seq(Entries) /\ saved[c] \in Seq(Entries)
      /\ Dated(history[c], begun) /\ Dated(saved[c], begun)
      /\ begun \in Nat /\ begun' \in Nat /\ begun <= begun' /\ begun <= begun
  BY OwnShape DEF Shape, TypeOK, Fresh
<1>1. Dated(history[c], begun') /\ Dated(saved[c], begun')
  BY <1>0, DatedLater
<1>2. CASE EmptyMessage(c) \/ Proceeds(c) \/ RunsTool(c)
  <2>1. history'[c] = history[c] /\ saved'[c] = saved[c]
    BY <1>2, ProceedsEffect, RunsToolEffect DEF EmptyMessage, memVars
  <2>. QED
    BY <1>1, <2>1
<1>3. CASE Begins(c)
  <2>1. PICK user, done \in Entries :
           /\ user.turn = begun + 1 /\ done.turn = begun + 1
           /\ \/ history'[c] = Append(history[c], user)
              \/ history'[c] = Append(Append(history[c], user), done)
    BY <1>3, BeginsEffect
  <2>2. saved' = saved /\ begun' = begun + 1
    BY <1>3, BeginsEffect
  <2>3. user.turn <= begun' /\ done.turn <= begun'
    BY <1>0, <2>1, <2>2
  <2>4. Dated(Append(history[c], user), begun') /\ Append(history[c], user) \in Seq(Entries)
    BY <1>0, <1>1, <2>1, <2>3, DatedAppend
  <2>5. Dated(Append(Append(history[c], user), done), begun')
    BY <1>0, <2>3, <2>4, DatedAppend
  <2>. QED
    BY <1>1, <2>1, <2>2, <2>4, <2>5
<1>4. CASE Leaves(c) \/ Panic(c)
  BY <1>1, <1>4, ReturnEffect
<1>5. CASE Replies(c) \/ AsksTools(c) \/ PushResults(c)
  <2>1. /\ pc[c] # "idle" /\ begun' = begun /\ saved' = saved
        /\ \E e \in Entries : e.turn = turn[c] /\ history'[c] = Append(history[c], e)
    BY <1>5, RepliesEffect, AsksToolsEffect, PushResultsEffect
  <2>2. turn[c] <= begun
    BY <2>1, BusyHasTurn
  <2>. QED
    BY <1>0, <2>1, <2>2, DatedAppend
<1>. QED
  BY <1>2, <1>3, <1>4, <1>5 DEF Moves

(* Only a tool that runs adds to the log, and only of its own turn.        *)
LEMMA ExecutedEffect ==
  ASSUME Shape, NEW c \in Chats, Moves(c)
  PROVE  /\ executed \subseteq executed'
         /\ \A s \in executed' : s \in executed \/ (s[1] = turn[c] /\ s[2] = rounds[c] /\ pc[c] = "tools")
<1>1. CASE RunsTool(c)
  <2>1. PICK r \in {"ok", "error"} :
           executed' = executed \cup {<<turn[c], rounds[c], Len(results[c]) + 1, r>>}
    BY <1>1, RunsToolEffect
  <2>. QED
    BY <1>1, <2>1, RunsToolEffect
<1>2. CASE ~RunsTool(c)
  <2>1. executed' = executed
    BY <1>2, BeginsEffect, ProceedsEffect, ReturnEffect, RepliesEffect, AsksToolsEffect,
       PushResultsEffect DEF Moves, EmptyMessage
  <2>. QED
    BY <2>1
<1>. QED
  BY <1>1, <1>2

(* Every move leaves the turns to come without a trace.                    *)
LEMMA NextFresh ==
  ASSUME Shape, Fresh, NEW c \in Chats, Moves(c)
  PROVE  Fresh'
<1>0. begun \in Nat /\ begun' \in Nat /\ begun <= begun'
  BY OwnShape
<1>1. ASSUME NEW n \in Turns, n > begun' PROVE rows'[n] = NoRow
  <2>1. n > begun /\ n \in Nat
    BY <1>0, <1>1, LoopAssumption DEF Turns
  <2>2. rows[n] = NoRow
    BY <2>1 DEF Fresh
  <2>3. pc[c] # "idle" => turn[c] # n
    BY <1>0, <2>1, BusyHasTurn DEF Turns
  <2>4. rows'[n] = rows[n]
    BY <2>3, RowEffect
  <2>. QED
    BY <2>2, <2>4
<1>2. ASSUME NEW s \in executed' PROVE s[1] <= begun'
  <2>1. s \in executed \/ (s[1] = turn[c] /\ pc[c] = "tools")
    BY <1>2, ExecutedEffect
  <2>2. s \in executed => s[1] <= begun /\ s[1] \in Nat
    BY LoopAssumption DEF Fresh, Shape, TypeOK, Turns
  <2>3. pc[c] = "tools" => turn[c] <= begun /\ turn[c] \in Nat
    BY BusyHasTurn, LoopAssumption DEF Turns
  <2>. QED
    BY <1>0, <2>1, <2>2, <2>3
<1>3. ASSUME NEW d \in Chats, d # c PROVE Dated(history'[d], begun') /\ Dated(saved'[d], begun')
  <2>1. /\ history'[d] = history[d] /\ saved'[d] = saved[d]
        /\ history[d] \in Seq(Entries) /\ saved[d] \in Seq(Entries)
        /\ Dated(history[d], begun) /\ Dated(saved[d], begun)
    BY <1>3, OthersEffect DEF Shape, TypeOK, Fresh
  <2>. QED
    BY <1>0, <2>1, DatedLater
<1>. QED
  BY <1>1, <1>2, <1>3, OwnDated DEF Fresh

-----------------------------------------------------------------------------
(***************************************************************************)
(* The history of a turn records what has run.  CheckpointExact speaks of  *)
(* checkpoints only; it is kept because the history that the next one is   *)
(* taken from is exact too, and because no tool runs in a round that has   *)
(* already been stored.                                                    *)
(***************************************************************************)

(* The tools of turn n that have run.                                      *)
Ran(n) == {s \in executed : s[1] = n}

Logged(c) ==
  pc[c] # "idle" =>
    /\ Ran(turn[c]) = Steps(history[c], turn[c]) \cup Now(c)
    /\ \A s \in Ran(turn[c]) : s[2] <= rounds[c]

(* The stored checkpoint is of an earlier round while the provider is      *)
(* asked and the tools run.                                                *)
Behind(c) ==
  LET k == rows[turn[c]].checkpoint
  IN pc[c] # "idle" /\ k # <<>> =>
       /\ k[Len(k)].round <= rounds[c]
       /\ pc[c] \in {"budget", "call", "tools"} => k[Len(k)].round < rounds[c]

(* What is stored after a round ends with the round's Tool message.        *)
Ready(c) ==
  pc[c] = "checkpoint" =>
    /\ history[c] # <<>>
    /\ LET e == history[c][Len(history[c])]
       IN e.kind = "result" /\ e.turn = turn[c] /\ e.round = rounds[c]

Exact == CheckpointExact /\ \A c \in Chats : Logged(c) /\ Behind(c) /\ Ready(c)

(* A result more.                                                          *)
LEMMA NowAppend ==
  ASSUME NEW n, NEW k, NEW q \in Seq({"ok", "error"}), NEW r \in {"ok", "error"}
  PROVE  {<<n, k, i, Append(q, r)[i]>> : i \in 1..Len(Append(q, r))}
           = {<<n, k, i, q[i]>> : i \in 1..Len(q)} \cup {<<n, k, Len(q) + 1, r>>}
<1>1. /\ Len(Append(q, r)) = Len(q) + 1 /\ Len(q) \in Nat
      /\ Append(q, r)[Len(q) + 1] = r
      /\ \A i \in 1..Len(q) : Append(q, r)[i] = q[i]
  OBVIOUS
<1>2. \A i : i \in 1..Len(Append(q, r)) <=> i \in 1..Len(q) \/ i = Len(q) + 1
  BY <1>1
<1>. HIDE DEF Append
<1>. QED
  BY <1>1, <1>2

(* The log of a turn that no tool was run for.                             *)
LEMMA RanKept ==
  ASSUME Shape, NEW c \in Chats, Moves(c), NEW n, n # turn[c] \/ ~RunsTool(c)
  PROVE  Ran(n)' = Ran(n)
<1>1. CASE RunsTool(c)
  <2>1. n # turn[c]
    BY <1>1
  <2>. QED
    BY <2>1, ExecutedEffect DEF Ran
<1>2. CASE ~RunsTool(c)
  <2>1. executed' = executed
    BY <1>2, BeginsEffect, ProceedsEffect, ReturnEffect, RepliesEffect, AsksToolsEffect,
       PushResultsEffect DEF Moves, EmptyMessage
  <2>. QED
    BY <2>1 DEF Ran
<1>. QED
  BY <1>1, <1>2

(* The moving chat's own history stays exact.                              *)
LEMMA OwnLogged ==
  ASSUME Shape, Fresh, Exact, NEW c \in Chats, Moves(c)
  PROVE  Logged(c)'
<1>0. /\ Logged(c) /\ InTurn(c) /\ history[c] \in Seq(Entries)
      /\ results[c] \in Seq({"ok", "error"}) /\ rounds[c] \in Nat
      /\ begun \in Nat /\ Dated(history[c], begun)
  BY LoopAssumption DEF Exact, Shape, TypeOK, Fresh
<1>1. CASE EmptyMessage(c)
  <2>1. UNCHANGED <<pc, turn, rounds, results, history, executed>>
    BY <1>1 DEF EmptyMessage, memVars
  <2>. QED
    BY <1>0, <2>1 DEF Logged, Ran, Now
<1>2. CASE Begins(c)
  <2>1. PICK user, done \in Entries :
           /\ user.kind = "user" /\ done.kind = "system"
           /\ \/ history'[c] = Append(history[c], user)
              \/ history'[c] = Append(Append(history[c], user), done)
    BY <1>2, BeginsEffect
  <2>2. pc[c] = "idle" /\ turn'[c] = begun + 1 /\ UNCHANGED <<results, executed>>
    BY <1>2, BeginsEffect
  <2>. DEFINE n == begun + 1
  <2>3. Steps(history[c], n) = {}
    <3>1. \A i \in 1..Len(history[c]) : history[c][i].turn # n
      <4>1. ASSUME NEW i \in 1..Len(history[c]) PROVE history[c][i].turn # n
        <5>1. history[c][i] \in Entries /\ history[c][i].turn <= begun
          BY <1>0 DEF Dated
        <5>2. history[c][i].turn \in Nat
          BY <5>1, LoopAssumption DEF Entries, Turns
        <5>. QED
          BY <1>0, <5>1, <5>2
      <4>. QED
        BY <4>1
    <3>. QED
      BY <3>1, StepsNone
  <2>4. Steps(history'[c], n) = {}
    <3>1. /\ Append(history[c], user) \in Seq(Entries)
          /\ Steps(Append(history[c], user), n) = {}
      BY <1>0, <2>1, <2>3, StepsAppend
    <3>2. Steps(Append(Append(history[c], user), done), n) = {}
      BY <2>1, <3>1, StepsAppend
    <3>. QED
      BY <2>1, <3>1, <3>2
  <2>5. Ran(turn[c])' = {}
    <3>1. ASSUME NEW s \in executed PROVE s[1] # n
      <4>1. s[1] \in Nat /\ s[1] <= begun
        BY LoopAssumption DEF Shape, TypeOK, Turns, Fresh
      <4>. QED
        BY <1>0, <4>1
    <3>. QED
      BY <2>2, <3>1 DEF Ran
  <2>6. Now(c)' = {}
    <3>1. results'[c] = <<>>
      BY <1>0, <2>2 DEF InTurn
    <3>. QED
      BY <3>1 DEF Now
  <2>. QED
    BY <2>2, <2>4, <2>5, <2>6 DEF Logged
<1>3. CASE Proceeds(c)
  <2>1. pc[c] # "idle" /\ pc[c] # "tools" /\ UNCHANGED <<turn, results, history, executed>>
    BY <1>3, ProceedsEffect
  <2>2. rounds'[c] = rounds[c] \/ rounds'[c] = rounds[c] + 1
    BY <1>3, ProceedsEffect
  <2>3. results[c] = <<>>
    BY <1>0, <2>1 DEF InTurn
  <2>4. Now(c) = {} /\ Now(c)' = {}
    BY <2>1, <2>3 DEF Now
  <2>5. Ran(turn[c])' = Ran(turn[c])
    BY <2>1 DEF Ran
  <2>6. ASSUME NEW s \in Ran(turn[c]) PROVE s[2] <= rounds'[c]
    <3>1. s[2] \in Nat /\ s[2] <= rounds[c]
      BY <1>0, <2>1, LoopAssumption DEF Logged, Ran, Shape, TypeOK
    <3>. QED
      BY <1>0, <2>2, <3>1
  <2>. QED
    BY <1>0, <2>1, <2>4, <2>5, <2>6 DEF Logged
<1>4. CASE Leaves(c) \/ Panic(c)
  BY <1>4, ReturnEffect DEF Logged
<1>5. CASE Replies(c) \/ AsksTools(c)
  <2>1. /\ pc[c] # "idle" /\ UNCHANGED <<turn, rounds, results, executed>>
        /\ \E e \in Entries : e.kind # "result" /\ history'[c] = Append(history[c], e)
    <3>1. CASE Replies(c)
      BY <3>1, RepliesEffect
    <3>2. CASE AsksTools(c)
      BY <3>2, AsksToolsEffect
    <3>. QED
      BY <1>5, <3>1, <3>2
  <2>2. Steps(history'[c], turn[c]) = Steps(history[c], turn[c])
    BY <1>0, <2>1, StepsAppend
  <2>3. Ran(turn[c])' = Ran(turn[c]) /\ Now(c)' = Now(c)
    BY <2>1 DEF Ran, Now
  <2>. QED
    BY <1>0, <2>1, <2>2, <2>3 DEF Logged
<1>6. CASE RunsTool(c)
  <2>1. pc[c] = "tools" /\ UNCHANGED <<pc, turn, rounds, history>>
    BY <1>6, RunsToolEffect
  <2>2. PICK r \in {"ok", "error"} :
          /\ results'[c] = Append(results[c], r)
          /\ executed' = executed \cup {<<turn[c], rounds[c], Len(results[c]) + 1, r>>}
    BY <1>6, RunsToolEffect
  <2>. DEFINE new == <<turn[c], rounds[c], Len(results[c]) + 1, r>>
  <2>3. Now(c)' = Now(c) \cup {new}
    BY <1>0, <2>1, <2>2, NowAppend DEF Now
  <2>4. Ran(turn[c])' = Ran(turn[c]) \cup {new}
    BY <2>1, <2>2 DEF Ran
  <2>5. new[2] <= rounds[c]
    BY <1>0
  <2>. HIDE DEF new
  <2>. QED
    BY <1>0, <2>1, <2>3, <2>4, <2>5 DEF Logged
<1>7. CASE PushResults(c)
  <2>1. pc[c] = "tools" /\ results'[c] = <<>> /\ UNCHANGED <<turn, rounds, executed>>
    BY <1>7, PushResultsEffect
  <2>2. PICK e \in Entries : /\ e.kind = "result" /\ e.turn = turn[c] /\ StepsOf(e) = Now(c)
                             /\ history'[c] = Append(history[c], e)
    BY <1>7, PushResultsEffect
  <2>3. Steps(history'[c], turn[c]) = Steps(history[c], turn[c]) \cup Now(c)
    BY <1>0, <2>2, StepsAppend
  <2>4. Now(c)' = {} /\ Ran(turn[c])' = Ran(turn[c])
    BY <2>1 DEF Now, Ran
  <2>. QED
    BY <1>0, <2>1, <2>3, <2>4 DEF Logged
<1>. QED
  BY <1>1, <1>2, <1>3, <1>4, <1>5, <1>6, <1>7 DEF Moves

(* The other chats' too: the log has new steps only of c's turn.           *)
LEMMA NextLogged ==
  ASSUME Shape, Fresh, Exact, NEW c \in Chats, Moves(c), NEW d \in Chats
  PROVE  Logged(d)'
<1>1. CASE d = c
  BY <1>1, OwnLogged
<1>2. CASE d # c
  <2>1. /\ pc'[d] = pc[d] /\ turn'[d] = turn[d] /\ rounds'[d] = rounds[d]
        /\ results'[d] = results[d] /\ history'[d] = history[d]
    BY <1>2, OthersEffect
  <2>2. Logged(d)
    BY DEF Exact
  <2>3. pc[d] # "idle" => turn[d] # turn[c]
    BY <1>2, BusyHasTurn DEF Shape, OwnTurns, Turns
  <2>4. pc[d] # "idle" => Ran(turn[d])' = Ran(turn[d])
    <3>1. pc[d] # "idle" => \A s : s \in executed' /\ s[1] = turn[d] <=> s \in executed /\ s[1] = turn[d]
      BY <2>3, ExecutedEffect
    <3>. QED
      BY <2>1, <3>1 DEF Ran
  <2>5. Now(d)' = Now(d)
    BY <2>1 DEF Now
  <2>. QED
    BY <2>1, <2>2, <2>4, <2>5 DEF Logged
<1>. QED
  BY <1>1, <1>2

(* Rows and checkpoints of a turn under way.                               *)
LEMMA NextBehind ==
  ASSUME Shape, Fresh, Exact, NEW c \in Chats, Moves(c), NEW d \in Chats
  PROVE  Behind(d)'
<1>1. CASE d # c
  <2>1. pc'[d] = pc[d] /\ turn'[d] = turn[d] /\ rounds'[d] = rounds[d]
    BY <1>1, OthersEffect
  <2>2. pc[d] # "idle" => turn[d] # turn[c] /\ turn[d] \in Turns
    BY <1>1, BusyHasTurn DEF Shape, OwnTurns, Turns
  <2>3. pc[d] # "idle" => rows'[turn[d]] = rows[turn[d]]
    BY <2>2, RowEffect
  <2>4. Behind(d)
    BY DEF Exact
  <2>. QED
    BY <2>1, <2>3, <2>4 DEF Behind
<1>2. CASE d = c
  <2>. DEFINE k == rows[turn[c]].checkpoint
  <2>0. Behind(c) /\ Ready(c) /\ InTurn(c) /\ rounds[c] \in Nat
    BY LoopAssumption DEF Exact, Shape, TypeOK
  <2>1. CASE pc[c] = "idle"
    <3>1. rows' = rows /\ (EmptyMessage(c) \/ Begins(c))
      BY <2>1, RowEffect, ProceedsEffect, ReturnEffect, RepliesEffect, AsksToolsEffect,
         PushResultsEffect, RunsToolEffect DEF Moves
    <3>2. CASE EmptyMessage(c)
      BY <1>2, <2>1, <3>2 DEF EmptyMessage, Behind
    <3>3. CASE Begins(c)
      <4>1. turn'[c] = begun + 1 /\ begun + 1 \in Turns /\ begun \in Nat
        BY <3>3, BeginsEffect, OwnShape
      <4>2. rows'[turn'[c]].checkpoint = <<>>
        BY <3>1, <4>1 DEF Fresh, NoRow
      <4>. QED
        BY <1>2, <4>2 DEF Behind
    <3>. QED
      BY <3>1, <3>2, <3>3
  <2>2. CASE pc[c] # "idle" /\ pc'[c] = "idle"
    BY <1>2, <2>2 DEF Behind
  <2>3. CASE pc[c] # "idle" /\ pc'[c] # "idle"
    <3>1. ~EmptyMessage(c) /\ ~Begins(c) /\ ~Leaves(c) /\ ~Panic(c)
      BY <2>3, BeginsEffect, ReturnEffect DEF EmptyMessage
    <3>2. turn'[c] = turn[c]
      BY <3>1, ProceedsEffect, RepliesEffect, AsksToolsEffect, PushResultsEffect,
         RunsToolEffect DEF Moves
    <3>3. /\ rounds'[c] = rounds[c] \/ (rounds'[c] = rounds[c] + 1 /\ pc'[c] = "budget")
          /\ pc'[c] = "budget" => rounds'[c] = rounds[c] + 1
          /\ pc'[c] = "call" => pc[c] = "budget" /\ rounds'[c] = rounds[c]
          /\ pc'[c] = "tools" => pc[c] \in {"call", "tools"} /\ rounds'[c] = rounds[c]
      <4>1. CASE Proceeds(c)
        BY <4>1, ProceedsEffect
      <4>2. CASE Replies(c) \/ AsksTools(c) \/ PushResults(c) \/ RunsTool(c)
        BY <4>2, RepliesEffect, AsksToolsEffect, PushResultsEffect, RunsToolEffect
      <4>. QED
        BY <3>1, <4>1, <4>2 DEF Moves
    <3>4. \/ rows'[turn[c]].checkpoint = k
          \/ /\ pc[c] = "checkpoint" /\ pc'[c] = "top"
             /\ rows'[turn[c]].checkpoint = history[c] /\ rounds' = rounds
      BY <2>3, RowEffect
    <3>5. CASE rows'[turn[c]].checkpoint = k
      <4>1. CASE k = <<>>
        BY <1>2, <3>2, <3>5, <4>1 DEF Behind
      <4>2. CASE k # <<>>
        <5>1. k \in Seq(Entries)
          BY <2>3, BusyHasTurn DEF Shape, TypeOK
        <5>2. k[Len(k)] \in Entries
          BY <4>2, <5>1
        <5>3. k[Len(k)].round \in Nat
          BY <5>2, LoopAssumption DEF Entries
        <5>4. /\ k[Len(k)].round <= rounds[c]
              /\ pc[c] \in {"budget", "call", "tools"} => k[Len(k)].round < rounds[c]
          BY <2>0, <2>3, <4>2 DEF Behind
        <5>. HIDE DEF k
        <5>5. /\ k[Len(k)].round <= rounds'[c]
              /\ pc'[c] \in {"budget", "call", "tools"} => k[Len(k)].round < rounds'[c]
          BY <2>0, <3>3, <5>3, <5>4
        <5>. QED
          BY <1>2, <3>2, <3>5, <5>5 DEF Behind
      <4>. QED
        BY <4>1, <4>2
    <3>6. CASE /\ pc[c] = "checkpoint" /\ pc'[c] = "top"
               /\ rows'[turn[c]].checkpoint = history[c] /\ rounds' = rounds
      <4>1. history[c][Len(history[c])].round = rounds[c]
        BY <2>0, <3>6 DEF Ready
      <4>2. history[c][Len(history[c])].round <= rounds'[c]
        BY <2>0, <3>6, <4>1
      <4>. QED
        BY <1>2, <3>2, <3>6, <4>2 DEF Behind
    <3>. QED
      BY <3>4, <3>5, <3>6
  <2>. QED
    BY <2>1, <2>2, <2>3
<1>. QED
  BY <1>1, <1>2

(* Every move keeps what is about to be stored complete.                   *)
LEMMA NextReady ==
  ASSUME Shape, Exact, NEW c \in Chats, Moves(c), NEW d \in Chats
  PROVE  Ready(d)'
<1>1. CASE d # c
  <2>1. /\ pc'[d] = pc[d] /\ turn'[d] = turn[d] /\ rounds'[d] = rounds[d]
        /\ history'[d] = history[d]
    BY <1>1, OthersEffect
  <2>. QED
    BY <2>1 DEF Exact, Ready
<1>2. CASE d = c
  <2>1. CASE PushResults(c)
    <3>1. PICK e \in Entries : /\ e.kind = "result" /\ e.turn = turn[c] /\ e.round = rounds[c]
                               /\ history'[c] = Append(history[c], e)
      BY <2>1, PushResultsEffect
    <3>2. UNCHANGED <<turn, rounds>> /\ history[c] \in Seq(Entries)
      BY <2>1, PushResultsEffect DEF Shape, TypeOK
    <3>3. history'[c] # <<>> /\ history'[c][Len(history'[c])] = e
      BY <3>1, <3>2, LastOfAppend
    <3>. QED
      BY <1>2, <3>1, <3>2, <3>3 DEF Ready
  <2>2. CASE ~PushResults(c)
    <3>1. pc'[c] # "checkpoint" \/ EmptyMessage(c)
      BY <2>2, BeginsEffect, ProceedsEffect, ReturnEffect, RepliesEffect, AsksToolsEffect,
         RunsToolEffect DEF Moves
    <3>2. EmptyMessage(c) => pc'[c] = "idle"
      BY DEF EmptyMessage
    <3>. QED
      BY <1>2, <3>1, <3>2 DEF Ready
  <2>. QED
    BY <2>1, <2>2
<1>. QED
  BY <1>1, <1>2

(* What a checkpoint that is exact says.                                   *)
ExactAt(n) ==
  LET h == rows[n].checkpoint
  IN h # <<>> =>
       /\ h[Len(h)].kind = "result" /\ h[Len(h)].turn = n
       /\ Steps(h, n) = {s \in executed : s[1] = n /\ s[2] <= h[Len(h)].round}

(* Task by task.                                                           *)
LEMMA ExactEach == CheckpointExact <=> \A n \in Turns : ExactAt(n)
BY DEF CheckpointExact, ExactAt

(* Every move keeps the stored checkpoints exact.                          *)
LEMMA NextCheckpointExact ==
  ASSUME Shape, Exact, NEW c \in Chats, Moves(c)
  PROVE  CheckpointExact'
<1>1. ASSUME NEW n \in Turns PROVE ExactAt(n)'
  <2>. DEFINE k == rows[n].checkpoint
  <2>0. ExactAt(n) /\ k \in Seq(Entries)
    BY ExactEach DEF Exact, Shape, TypeOK
  <2>1. CASE rows'[n].checkpoint = k
    <3>1. CASE k = <<>>
      BY <2>1, <3>1 DEF ExactAt
    <3>2. CASE k # <<>>
      <4>. DEFINE l == k[Len(k)].round
      <4>1. /\ k[Len(k)].kind = "result" /\ k[Len(k)].turn = n
            /\ Steps(k, n) = {s \in executed : s[1] = n /\ s[2] <= l}
        BY <2>0, <3>2 DEF ExactAt
      <4>2. pc[c] = "tools" /\ turn[c] = n => ~(rounds[c] <= l)
        <5>1. k[Len(k)] \in Entries
          BY <2>0, <3>2
        <5>2. l \in Nat /\ rounds[c] \in Nat
          BY <5>1, LoopAssumption DEF Entries, Shape, TypeOK
        <5>3. pc[c] = "tools" /\ turn[c] = n => l < rounds[c]
          BY <3>2 DEF Exact, Behind
        <5>. HIDE DEF l
        <5>. QED
          BY <5>2, <5>3
      <4>. HIDE DEF l
      <4>3. \A s : s \in executed' /\ s[1] = n /\ s[2] <= l <=> s \in executed /\ s[1] = n /\ s[2] <= l
        BY <4>2, ExecutedEffect
      <4>4. {s \in executed : s[1] = n /\ s[2] <= l} = {s \in executed' : s[1] = n /\ s[2] <= l}
        BY <4>3
      <4>5. Steps(k, n) = {s \in executed' : s[1] = n /\ s[2] <= l}
        BY <4>1, <4>4
      <4>. QED
        BY <2>1, <4>1, <4>5 DEF ExactAt, l
    <3>. QED
      BY <3>1, <3>2
  <2>2. CASE rows'[n].checkpoint # k
    <3>1. /\ n = turn[c] /\ pc[c] = "checkpoint" /\ pc'[c] = "top"
          /\ rows'[n].checkpoint = history[c]
      BY <2>2, RowEffect
    <3>2. /\ history[c] # <<>>
          /\ history[c][Len(history[c])].kind = "result"
          /\ history[c][Len(history[c])].turn = n
          /\ history[c][Len(history[c])].round = rounds[c]
      BY <3>1 DEF Exact, Ready
    <3>3. Now(c) = {}
      <4>1. results[c] = <<>>
        BY <3>1 DEF Shape, InTurn
      <4>. QED
        BY <4>1 DEF Now
    <3>4. Ran(n) = Steps(history[c], n) /\ \A s \in Ran(n) : s[2] <= rounds[c]
      BY <3>1, <3>3 DEF Exact, Logged
    <3>5. executed' = executed
      BY <3>1, BeginsEffect, ProceedsEffect, ReturnEffect, RepliesEffect, AsksToolsEffect,
         PushResultsEffect, RunsToolEffect DEF Moves, EmptyMessage
    <3>6. Steps(history[c], n) = {s \in executed' : s[1] = n /\ s[2] <= rounds[c]}
      BY <3>4, <3>5 DEF Ran
    <3>. QED
      BY <3>1, <3>2, <3>6 DEF ExactAt
  <2>. QED
    BY <2>1, <2>2
<1>2. (\A n \in Turns : ExactAt(n))' => CheckpointExact'
  BY DEF CheckpointExact, ExactAt
<1>. QED
  BY <1>1, <1>2

(* Every move keeps histories and checkpoints exact.                       *)
LEMMA NextExact ==
  ASSUME Shape, Fresh, Exact, NEW c \in Chats, Moves(c)
  PROVE  Exact'
BY NextLogged, NextBehind, NextReady, NextCheckpointExact DEF Exact

-----------------------------------------------------------------------------
(***************************************************************************)
(* Nothing is recorded that has not run, in any history and for any turn.  *)
(***************************************************************************)
Recorded(h, log) == \A m \in Turns : Steps(h, m) \subseteq log

Genuine ==
  /\ \A c \in Chats : Recorded(history[c], executed) /\ Recorded(saved[c], executed)
  /\ \A n \in Turns : Recorded(rows[n].checkpoint, executed)

(* More tools may have run.                                                *)
LEMMA RecordedLater ==
  ASSUME NEW h, NEW log, NEW more, Recorded(h, log), log \subseteq more
  PROVE  Recorded(h, more)
BY DEF Recorded

(* An entry without results records nothing.                               *)
LEMMA RecordedText ==
  ASSUME NEW h \in Seq(Entries), NEW e \in Entries, NEW log, Recorded(h, log), e.kind # "result"
  PROVE  Recorded(Append(h, e), log)
BY StepsAppend DEF Recorded

(* A Tool message records the results it has.                              *)
LEMMA RecordedResult ==
  ASSUME NEW h \in Seq(Entries), NEW e \in Entries, NEW log, Recorded(h, log),
         StepsOf(e) \subseteq log
  PROVE  Recorded(Append(h, e), log)
<1>1. ASSUME NEW m \in Turns PROVE Steps(Append(h, e), m) \subseteq log
  <2>1. \/ Steps(Append(h, e), m) = Steps(h, m) \cup StepsOf(e)
        \/ Steps(Append(h, e), m) = Steps(h, m)
    BY StepsAppend
  <2>2. Steps(h, m) \subseteq log
    BY DEF Recorded
  <2>. QED
    BY <2>1, <2>2
<1>. QED
  BY <1>1 DEF Recorded

(* The moving chat records only what has run.                              *)
LEMMA OwnGenuine ==
  ASSUME Shape, Exact, Genuine, NEW c \in Chats, Moves(c)
  PROVE  Recorded(history'[c], executed') /\ Recorded(saved'[c], executed')
<1>. DEFINE log == executed'
<1>0. /\ Recorded(history[c], log) /\ Recorded(saved[c], log)
      /\ history[c] \in Seq(Entries)
  BY ExecutedEffect, RecordedLater DEF Genuine, Shape, TypeOK
<1>. HIDE DEF log
<1>1. CASE EmptyMessage(c) \/ Proceeds(c) \/ RunsTool(c)
  <2>1. history'[c] = history[c] /\ saved'[c] = saved[c]
    BY <1>1, ProceedsEffect, RunsToolEffect DEF EmptyMessage, memVars
  <2>. QED
    BY <1>0, <2>1 DEF log
<1>2. CASE Begins(c)
  <2>1. PICK user, done \in Entries :
           /\ user.kind = "user" /\ done.kind = "system"
           /\ \/ history'[c] = Append(history[c], user)
              \/ history'[c] = Append(Append(history[c], user), done)
    BY <1>2, BeginsEffect
  <2>2. saved' = saved
    BY <1>2, BeginsEffect
  <2>3. Recorded(Append(history[c], user), log) /\ Append(history[c], user) \in Seq(Entries)
    BY <1>0, <2>1, RecordedText
  <2>4. Recorded(Append(Append(history[c], user), done), log)
    BY <2>1, <2>3, RecordedText
  <2>. QED
    BY <1>0, <2>1, <2>2, <2>3, <2>4 DEF log
<1>3. CASE Leaves(c) \/ Panic(c)
  BY <1>0, <1>3, ReturnEffect DEF log
<1>4. CASE Replies(c) \/ AsksTools(c)
  <2>1. /\ saved' = saved
        /\ \E e \in Entries : e.kind # "result" /\ history'[c] = Append(history[c], e)
    <3>1. CASE Replies(c)
      BY <3>1, RepliesEffect
    <3>2. CASE AsksTools(c)
      BY <3>2, AsksToolsEffect
    <3>. QED
      BY <1>4, <3>1, <3>2
  <2>. QED
    BY <1>0, <2>1, RecordedText DEF log
<1>5. CASE PushResults(c)
  <2>1. pc[c] = "tools" /\ saved' = saved /\ executed' = executed
    BY <1>5, PushResultsEffect
  <2>2. PICK e \in Entries : StepsOf(e) = Now(c) /\ history'[c] = Append(history[c], e)
    BY <1>5, PushResultsEffect
  <2>3. Now(c) \subseteq executed
    BY <2>1 DEF Exact, Logged, Ran
  <2>4. StepsOf(e) \subseteq log
    BY <2>1, <2>2, <2>3 DEF log
  <2>. QED
    BY <1>0, <2>1, <2>2, <2>4, RecordedResult DEF log
<1>. QED
  BY <1>1, <1>2, <1>3, <1>4, <1>5 DEF Moves

(* Every move keeps the records genuine.                                   *)
LEMMA NextGenuine ==
  ASSUME Shape, Exact, Genuine, NEW c \in Chats, Moves(c)
  PROVE  Genuine'
<1>1. ASSUME NEW d \in Chats, d # c
      PROVE  Recorded(history'[d], executed') /\ Recorded(saved'[d], executed')
  <2>1. history'[d] = history[d] /\ saved'[d] = saved[d]
    BY <1>1, OthersEffect
  <2>2. Recorded(history[d], executed) /\ Recorded(saved[d], executed)
    BY DEF Genuine
  <2>. QED
    BY <2>1, <2>2, ExecutedEffect, RecordedLater
<1>2. ASSUME NEW n \in Turns PROVE Recorded(rows'[n].checkpoint, executed')
  <2>1. rows'[n].checkpoint = rows[n].checkpoint \/ rows'[n].checkpoint = history[c]
    BY RowEffect
  <2>2. Recorded(rows[n].checkpoint, executed) /\ Recorded(history[c], executed)
    BY DEF Genuine
  <2>3. Recorded(rows[n].checkpoint, executed') /\ Recorded(history[c], executed')
    BY <2>2, ExecutedEffect, RecordedLater
  <2>. QED
    BY <2>1, <2>3
<1>. QED
  BY <1>1, <1>2, OwnGenuine DEF Genuine

-----------------------------------------------------------------------------
(***************************************************************************)
(* The invariant of the loop.                                              *)
(***************************************************************************)
LoopInv == Shape /\ Fresh /\ Pairing /\ Exact /\ Genuine

(* The invariant holds before the first turn,                              *)
LEMMA InitLoopInv == Init => LoopInv
<1>. SUFFICES ASSUME Init PROVE LoopInv
  OBVIOUS
<1>1. Shape
  BY LoopAssumption DEF Init, Shape, TypeOK, InTurn, OwnTurns, NoRow, PCs, Statuses
<1>2. Fresh
  BY DEF Init, Fresh, Dated
<1>3. Paired(<<>>)
  BY DEF Paired
<1>4. Pairing
  BY <1>3 DEF Init, Pairing, Answered, NoRow
<1>5. Exact
  BY DEF Init, Exact, CheckpointExact, Logged, Behind, Ready, NoRow
<1>6. Recorded(<<>>, {})
  BY StepsNone DEF Recorded
<1>7. Genuine
  BY <1>6 DEF Init, Genuine, NoRow
<1>. QED
  BY <1>1, <1>2, <1>4, <1>5, <1>7 DEF LoopInv

(* is not disturbed by steps of others,                                    *)
LEMMA StutterLoopInv ==
  ASSUME LoopInv, UNCHANGED vars
  PROVE  LoopInv'
<1>1. Shape'
  BY DEF LoopInv, vars, Shape, TypeOK, InTurn, OwnTurns
<1>2. Fresh'
  BY DEF LoopInv, vars, Fresh, Dated
<1>3. Pairing'
  BY DEF LoopInv, vars, Pairing, Answered, Open
<1>4. Exact'
  BY DEF LoopInv, vars, Exact, CheckpointExact, Logged, Behind, Ready, Ran, Now
<1>5. Genuine'
  BY DEF LoopInv, vars, Genuine
<1>. QED
  BY <1>1, <1>2, <1>3, <1>4, <1>5 DEF LoopInv

(* and is kept by every step of the loop.                                  *)
LEMMA NextLoopInv ==
  ASSUME LoopInv, [Next]_vars
  PROVE  LoopInv'
<1>1. CASE UNCHANGED vars
  BY <1>1, StutterLoopInv
<1>2. CASE Next
  <2>1. PICK c \in Chats : Moves(c)
    BY <1>2, NextMoves
  <2>. QED
    BY <2>1, NextShape, NextFresh, NextPairing, NextExact, NextGenuine DEF LoopInv
<1>. QED
  BY <1>1, <1>2

(* It implies the properties of the runs.                                  *)
LEMMA LoopInvProperties == LoopInv => TypeOK /\ HistoryPaired /\ CheckpointExact
<1>1. Pairing => HistoryPaired
  BY DEF Pairing, Answered, HistoryPaired
<1>. QED
  BY <1>1 DEF LoopInv, Shape, Exact

(* So it always holds.                                                     *)
LEMMA LoopAlways == Spec => []LoopInv
<1>1. Init => LoopInv
  BY InitLoopInv
<1>2. LoopInv /\ [Next]_vars => LoopInv'
  BY NextLoopInv
<1>. QED
  BY <1>1, <1>2, PTL DEF Spec

(* The types, and with them max_tool_rounds: no turn goes beyond it.       *)
THEOREM LoopTypeCorrect == Spec => []TypeOK
BY LoopAlways, LoopInvProperties, PTL

(* However a turn ends, every tool call in the history that is kept, sent  *)
(* to the provider or stored has its answer.                               *)
THEOREM EveryCallAnswered == Spec => []HistoryPaired
BY LoopAlways, LoopInvProperties, PTL

(* Whatever the other chats run meanwhile, a stored checkpoint records     *)
(* precisely the tools its own task has run up to its last round.          *)
THEOREM CheckpointsAreExact == Spec => []CheckpointExact
BY LoopAlways, LoopInvProperties, PTL

-----------------------------------------------------------------------------
(***************************************************************************)
(* Restart and recovery.                                                   *)
(***************************************************************************)

(* A nonempty set of tasks has a first one.                                *)
LEMMA FirstIn ==
  ASSUME NEW S \in SUBSET Turns, S # {}
  PROVE  First(S) \in S
<1>. DEFINE R == OpToRel(<, Nat)
<1>1. S \subseteq Nat
  BY LoopAssumption DEF Turns
<1>2. IsWellFoundedOn(R, Nat)
  BY NatLessThanWellFounded, Zenon
<1>. HIDE DEF R
<1>3. PICK x \in S : \A y \in S : ~(<<y, x>> \in R)
  BY <1>1, <1>2, WFMin
<1>4. \A y \in S : ~(y < x)
  BY <1>1, <1>3, Zenon DEF R, OpToRel
<1>5. \A y \in S : x <= y
  BY <1>1, <1>4
<1>. QED
  BY <1>5 DEF First

(* Types of the recovery; a task is taken from a list that has one.        *)
RecoveryTypes ==
  /\ mode \in {"boot", "serve"}
  /\ spc \in [Scanners -> {"idle", "check", "plan", "apply"}]
  /\ scans \in [Scanners -> Nat]
  /\ todo \in [Scanners -> SUBSET Turns]
  /\ \A p \in plans : p.task \in Turns
  /\ \A s \in Scanners : spc[s] = "plan" => todo[s] # {}

(* No turn runs while tasks are recovered, and no scan once messages are   *)
(* served; what a scan still has to handle had not been completed.         *)
Quiet ==
  /\ mode = "boot" => \A c \in Chats : pc[c] = "idle"
  /\ mode = "serve" => \A s \in Scanners : spc[s] = "idle"
Undone(n) == rows[n].status \in {"pending", "running", "failed"}
Handled ==
  mode = "boot" =>
    /\ \A s \in Scanners : \A n \in todo[s] : Undone(n)
    /\ \A p \in plans : Undone(p.task)

(* A plan's steps have run; a task under way has not ended.                *)
Unended ==
  \A c \in Chats : pc[c] # "idle" => rows[turn[c]].status \notin {"completed", "failed"}

RecoveryInv ==
  LoopInv /\ RecoveryTypes /\ Quiet /\ Handled /\ Unended /\ PlansGenuine

(* A scanner's step is one of a boot.                                      *)
LEMMA ScanInBoot ==
  ASSUME RecoveryInv, NEW s \in Scanners, Scan(s)
  PROVE  mode = "boot" /\ mode' = mode
BY DEF RecoveryInv, RecoveryTypes, Quiet, Scan, ScanLoad, ScanSkip, ScanTake, ScanPlan, ScanEnd,
       Abandon, AbandonFails, ApplyEnd

(* The scan that is under way has a first task to handle.                  *)
LEMMA TodoFirst ==
  ASSUME RecoveryInv, mode = "boot", NEW s \in Scanners, todo[s] # {}
  PROVE  First(todo[s]) \in todo[s] /\ First(todo[s]) \in Turns /\ Undone(First(todo[s]))
<1>1. todo[s] \in SUBSET Turns
  BY DEF RecoveryInv, RecoveryTypes
<1>. QED
  BY <1>1, FirstIn DEF RecoveryInv, Handled

(* An abandonment changes the status of a row, and nothing else that the   *)
(* loop's invariant speaks of.                                             *)
LEMMA AbandonLoopInv ==
  ASSUME LoopInv, NEW n \in Turns, Undone(n),
         rows' = [rows EXCEPT ![n].status = "failed"],
         UNCHANGED <<spent, begun, pc, turn, held, rounds, results, memVars, executed>>
  PROVE  LoopInv'
<1>0. rows \in [Turns -> [status : Statuses, checkpoint : Seq(Entries)]]
  BY DEF LoopInv, Shape, TypeOK
<1>1. /\ rows' \in [Turns -> [status : Statuses, checkpoint : Seq(Entries)]]
      /\ \A m \in Turns : rows'[m].checkpoint = rows[m].checkpoint
      /\ \A m \in Turns : m # n => rows'[m] = rows[m]
  BY <1>0 DEF Statuses
<1>2. Shape'
  BY <1>1 DEF LoopInv, memVars, Shape, TypeOK, InTurn, OwnTurns
<1>3. ~(n > begun)
  BY DEF LoopInv, Fresh, Undone, NoRow
<1>4. Fresh'
  BY <1>1, <1>3 DEF LoopInv, memVars, Fresh, Dated
<1>5. Pairing'
  BY <1>1 DEF LoopInv, memVars, Pairing, Answered, Open
<1>6. \A c \in Chats : Logged(c)' /\ Ready(c)'
  BY DEF LoopInv, memVars, Exact, Logged, Ready, Ran, Now
<1>7. \A c \in Chats : Behind(c)'
  <2>1. ASSUME NEW c \in Chats PROVE Behind(c)'
    <3>1. Behind(c) /\ UNCHANGED <<pc, turn, rounds>>
      BY DEF LoopInv, Exact
    <3>2. pc[c] # "idle" => rows'[turn[c]].checkpoint = rows[turn[c]].checkpoint
      BY <1>1, BusyHasTurn DEF LoopInv
    <3>. QED
      BY <3>1, <3>2 DEF Behind
  <2>. QED
    BY <2>1
<1>8. CheckpointExact'
  BY <1>1 DEF LoopInv, Exact, CheckpointExact
<1>9. Genuine'
  BY <1>1 DEF LoopInv, memVars, Genuine
<1>. QED
  BY <1>2, <1>4, <1>5, <1>6, <1>7, <1>8, <1>9 DEF LoopInv, Exact

(* A crash at any point leaves what the loop's invariant says of the rows  *)
(* and the saved histories.                                                *)
LEMMA RestartLoopInv ==
  ASSUME LoopInv, Restart
  PROVE  LoopInv'
<1>0. Restart /\ TypeOK
  BY DEF LoopInv, Shape
<1>1. \A c \in Chats : /\ pc'[c] = "idle" /\ turn'[c] = 0 /\ rounds'[c] = 0 /\ results'[c] = <<>>
                       /\ history'[c] = saved[c] /\ saved'[c] = saved[c]
  BY DEF Restart
<1>2. UNCHANGED <<begun, saved, rows, executed>> /\ history' = saved /\ spent' = 0
  BY DEF Restart
<1>3. Shape'
  <2>1. TypeOK'
    BY <1>0, LoopAssumption DEF Restart, TypeOK, PCs
  <2>2. \A c \in Chats : InTurn(c)'
    <3>1. 0 <= begun'
      BY <1>0, <1>2, LoopAssumption DEF TypeOK
    <3>. QED
      BY <1>1, <3>1 DEF InTurn
  <2>. QED
    BY <1>1, <2>1, <2>2 DEF Shape, OwnTurns
<1>4. Fresh'
  BY <1>1, <1>2 DEF LoopInv, Fresh, Dated
<1>5. Pairing'
  BY <1>1, <1>2 DEF LoopInv, Pairing, Answered
<1>6. CheckpointExact'
  BY <1>2 DEF LoopInv, Exact, CheckpointExact
<1>7. \A c \in Chats : Logged(c)' /\ Behind(c)' /\ Ready(c)'
  BY <1>1 DEF Logged, Behind, Ready
<1>8. Genuine'
  BY <1>1, <1>2 DEF LoopInv, Genuine
<1>. QED
  BY <1>3, <1>4, <1>5, <1>6, <1>7, <1>8 DEF LoopInv, Exact

(* What a scan changes: its own list of tasks, the plans, and of the rows  *)
(* only the status of an abandoned task.                                   *)
LEMMA ScanEffect ==
  ASSUME RecoveryInv, NEW s \in Scanners, Scan(s)
  PROVE  /\ UNCHANGED <<spent, begun, pc, turn, held, rounds, results, memVars, executed, old>>
         /\ RecoveryTypes'
         /\ Handled'
         /\ \/ UNCHANGED rows
            \/ \E n \in Turns : Undone(n) /\ rows' = [rows EXCEPT ![n].status = "failed"]
         /\ PlansGenuine'
<1>0. mode = "boot" /\ mode' = "boot"
  BY ScanInBoot
<1>p. \A t \in Scanners : spc[t] = "plan" => todo[t] # {}
  BY DEF RecoveryInv, RecoveryTypes
<1>1. /\ spc \in [Scanners -> {"idle", "check", "plan", "apply"}]
      /\ scans \in [Scanners -> Nat]
      /\ todo \in [Scanners -> SUBSET Turns]
      /\ \A p \in plans : p.task \in Turns
      /\ \A t \in Scanners : \A n \in todo[t] : Undone(n)
      /\ \A p \in plans : Undone(p.task)
      /\ PlansGenuine
  BY <1>0 DEF RecoveryInv, RecoveryTypes, Handled
<1>2. CASE ScanLoad(s)
  <2>1. /\ UNCHANGED <<vars, old, recovered, plans>>
        /\ Incomplete \in SUBSET Turns
        /\ todo' = [todo EXCEPT ![s] = Incomplete]
        /\ scans' \in [Scanners -> Nat]
        /\ spc' \in [Scanners -> {"idle", "check", "plan", "apply"}]
        /\ \A t \in Scanners : spc'[t] = "plan" => todo'[t] # {}
    BY <1>1, <1>2, <1>p DEF ScanLoad, Goes, Incomplete
  <2>2. \A n \in Incomplete : Undone(n)
    BY DEF Incomplete, Undone
  <2>3. RecoveryTypes'
    BY <1>0, <1>1, <2>1 DEF RecoveryTypes
  <2>4. Handled'
    BY <1>0, <1>1, <2>1, <2>2 DEF Handled, Undone, vars
  <2>. QED
    BY <1>1, <2>1, <2>3, <2>4 DEF vars, memVars, PlansGenuine
<1>3. CASE ScanSkip(s) \/ ScanTake(s) \/ AbandonFails(s) \/ ApplyEnd(s)
  <2>1. /\ UNCHANGED <<vars, old, scans, plans>>
        /\ \A t \in Scanners : todo'[t] \subseteq todo[t]
        /\ todo' \in [Scanners -> SUBSET Turns]
        /\ spc' \in [Scanners -> {"idle", "check", "plan", "apply"}]
        /\ \A t \in Scanners : spc'[t] = "plan" => todo'[t] # {}
    BY <1>1, <1>3, <1>p DEF ScanSkip, ScanTake, AbandonFails, ApplyEnd, Goes
  <2>2. RecoveryTypes'
    BY <1>0, <1>1, <2>1 DEF RecoveryTypes
  <2>3. Handled'
    BY <1>0, <1>1, <2>1 DEF Handled, Undone, vars
  <2>. QED
    BY <1>1, <2>1, <2>2, <2>3 DEF vars, memVars, PlansGenuine
<1>4. CASE ScanEnd(s)
  <2>. DEFINE A == {p.task : p \in {q \in plans : /\ q.scan = <<s, scans[s]>>
                                                 /\ q.action = "abandon"}}
  <2>1. /\ UNCHANGED <<vars, old, scans, plans>>
        /\ todo' = [todo EXCEPT ![s] = A]
        /\ spc' \in [Scanners -> {"idle", "check", "plan", "apply"}]
        /\ \A t \in Scanners : spc'[t] = "plan" => todo'[t] # {}
    BY <1>1, <1>4, <1>p DEF ScanEnd, Goes
  <2>2. A \in SUBSET Turns /\ \A n \in A : Undone(n)
    BY <1>1
  <2>. HIDE DEF A
  <2>3. RecoveryTypes'
    BY <1>0, <1>1, <2>1, <2>2 DEF RecoveryTypes
  <2>4. Handled'
    BY <1>0, <1>1, <2>1, <2>2 DEF Handled, Undone, vars
  <2>. QED
    BY <1>1, <2>1, <2>3, <2>4 DEF vars, memVars, PlansGenuine
<1>5. CASE Abandon(s)
  <2>. DEFINE n == First(todo[s])
  <2>1. n \in Turns /\ Undone(n)
    BY <1>0, <1>5, TodoFirst DEF Abandon
  <2>. HIDE DEF n
  <2>2. /\ rows' = [rows EXCEPT ![n].status = "failed"]
        /\ \A t \in Scanners : todo'[t] \subseteq todo[t]
        /\ todo' \in [Scanners -> SUBSET Turns]
        /\ UNCHANGED <<spent, begun, pc, turn, held, rounds, results, memVars,
                       executed, old, spc, scans, plans>>
        /\ \A t \in Scanners : spc'[t] = "plan" => todo'[t] # {}
    BY <1>1, <1>5, <1>p DEF Abandon, n
  <2>3. \A m \in Turns : Undone(m) => Undone(m)'
    BY <2>1, <2>2 DEF RecoveryInv, LoopInv, Shape, TypeOK, Undone
  <2>4. RecoveryTypes'
    BY <1>0, <1>1, <2>2 DEF RecoveryTypes
  <2>5. Handled'
    BY <1>0, <1>1, <2>2, <2>3 DEF Handled
  <2>. QED
    BY <1>1, <2>1, <2>2, <2>4, <2>5 DEF PlansGenuine
<1>6. CASE ScanPlan(s)
  <2>. DEFINE n == First(todo[s])
              p == [scan |-> <<s, scans[s]>>, task |-> n, action |-> Classify(n),
                    steps |-> CompletedSteps(rows[n].checkpoint)]
  <2>1. /\ UNCHANGED <<vars, old, scans>>
        /\ plans' = plans \cup {p}
        /\ todo' = [todo EXCEPT ![s] = @ \ {n}]
        /\ spc' \in [Scanners -> {"idle", "check", "plan", "apply"}]
        /\ \A t \in Scanners : spc'[t] = "plan" => todo'[t] # {}
    BY <1>1, <1>6, <1>p DEF ScanPlan, Goes
  <2>2. n \in Turns /\ Undone(n)
    BY <1>0, <1>6, <1>p, TodoFirst DEF ScanPlan
  <2>3. p.steps \subseteq executed
    <3>1. Recorded(rows[n].checkpoint, executed)
      BY <2>2 DEF RecoveryInv, LoopInv, Genuine
    <3>2. CompletedSteps(rows[n].checkpoint) \subseteq executed
      BY <3>1 DEF CompletedSteps, Recorded
    <3>. QED
      BY <3>2
  <2>4. p.task = n
    OBVIOUS
  <2>. HIDE DEF p, n
  <2>5. /\ \A t \in Scanners : todo'[t] \subseteq todo[t]
        /\ todo' \in [Scanners -> SUBSET Turns]
    BY <1>1, <2>1
  <2>6. RecoveryTypes'
    BY <1>0, <1>1, <2>1, <2>2, <2>4, <2>5 DEF RecoveryTypes
  <2>7. Handled'
    BY <1>0, <1>1, <2>1, <2>2, <2>4, <2>5 DEF Handled, Undone, vars
  <2>8. PlansGenuine'
    BY <1>1, <2>1, <2>3 DEF PlansGenuine, vars
  <2>. QED
    BY <2>1, <2>6, <2>7, <2>8 DEF vars, memVars
<1>. QED
  BY <1>2, <1>3, <1>4, <1>5, <1>6 DEF Scan

(* The loop's own steps, while messages are served.                        *)
LEMMA ServeMoves ==
  ASSUME RecoveryInv, mode = "serve", Next, UNCHANGED recVars
  PROVE  /\ Unended'
         /\ \A n \in Turns : rows[n].status \in {"completed", "failed"} => rows'[n].status = rows[n].status
         /\ executed \subseteq executed'
<1>0. Shape /\ Fresh /\ Unended
  BY DEF RecoveryInv, LoopInv
<1>1. PICK c \in Chats : Moves(c)
  BY NextMoves
<1>2. ASSUME NEW d \in Chats, pc'[d] # "idle"
      PROVE  rows'[turn'[d]].status \notin {"completed", "failed"}
  <2>1. CASE d # c
    <3>1. pc'[d] = pc[d] /\ turn'[d] = turn[d]
      BY <1>0, <1>1, <2>1, OthersEffect
    <3>2. turn[d] # turn[c] /\ turn[d] \in Turns
      BY <1>0, <1>2, <2>1, <3>1, BusyHasTurn DEF Shape, OwnTurns, Turns
    <3>3. rows'[turn[d]] = rows[turn[d]]
      BY <1>0, <1>1, <3>2, RowEffect
    <3>. QED
      BY <1>0, <1>2, <3>1, <3>3 DEF Unended
  <2>2. CASE d = c /\ pc[c] = "idle"
    <3>1. Begins(c) \/ EmptyMessage(c)
      BY <1>0, <1>1, <2>2, ProceedsEffect, ReturnEffect, RepliesEffect, AsksToolsEffect,
         PushResultsEffect, RunsToolEffect DEF Moves
    <3>2. Begins(c)
      BY <1>2, <2>2, <3>1 DEF EmptyMessage
    <3>3. turn'[c] = begun + 1 /\ begun + 1 \in Turns /\ begun \in Nat /\ rows' = rows
      BY <1>0, <1>1, <3>2, BeginsEffect, OwnShape
    <3>4. rows'[turn'[c]].status = "absent"
      BY <1>0, <3>3 DEF Fresh, NoRow
    <3>. QED
      BY <2>2, <3>4
  <2>3. CASE d = c /\ pc[c] # "idle"
    <3>1. turn'[c] = turn[c]
      BY <1>0, <1>1, <1>2, <2>3, BeginsEffect, ProceedsEffect, ReturnEffect, RepliesEffect,
         AsksToolsEffect, PushResultsEffect, RunsToolEffect DEF Moves, EmptyMessage
    <3>2. \/ rows'[turn[c]].status = rows[turn[c]].status
          \/ rows'[turn[c]].status \in {"pending", "running"}
      BY <1>0, <1>1, <1>2, <2>3, RowEffect
    <3>3. rows[turn[c]].status \notin {"completed", "failed"}
      BY <1>0, <2>3 DEF Unended
    <3>. QED
      BY <2>3, <3>1, <3>2, <3>3
  <2>. QED
    BY <2>1, <2>2, <2>3
<1>3. ASSUME NEW n \in Turns, rows[n].status \in {"completed", "failed"}
      PROVE  rows'[n].status = rows[n].status
  <2>1. pc[c] # "idle" => turn[c] # n
    BY <1>0, <1>3 DEF Unended
  <2>. QED
    BY <1>0, <1>1, <2>1, RowEffect
<1>. QED
  BY <1>0, <1>1, <1>2, <1>3, ExecutedEffect DEF Unended

(* Every step of the recovery keeps the invariant, and the end of tasks.   *)
LEMMA NextRecoveryInv ==
  ASSUME RecoveryInv, [RecoveryNext]_allVars
  PROVE  /\ RecoveryInv'
         /\ \A n \in Turns : rows[n].status \in {"completed", "failed"} => rows'[n].status = rows[n].status
<1>. DEFINE Final == \A n \in Turns :
              rows[n].status \in {"completed", "failed"} => rows'[n].status = rows[n].status
<1>0. UNCHANGED vars => LoopInv' /\ Final /\ Unended'
  <2>. SUFFICES ASSUME UNCHANGED vars PROVE LoopInv' /\ Final /\ Unended'
    OBVIOUS
  <2>1. LoopInv'
    BY StutterLoopInv DEF RecoveryInv
  <2>2. UNCHANGED <<pc, turn, rows>>
    BY DEF vars
  <2>. QED
    BY <2>1, <2>2 DEF RecoveryInv, Unended
<1>1. CASE UNCHANGED allVars
  <2>1. UNCHANGED vars /\ UNCHANGED recVars
    BY <1>1 DEF allVars
  <2>. QED
    BY <1>0, <2>1 DEF RecoveryInv, RecoveryTypes, Quiet, Handled, Undone, PlansGenuine, vars, recVars
<1>2. CASE mode = "serve" /\ Next /\ UNCHANGED recVars
  <2>1. LoopInv'
    BY <1>2, NextLoopInv DEF RecoveryInv
  <2>2. Unended' /\ Final /\ executed \subseteq executed'
    BY <1>2, ServeMoves
  <2>3. UNCHANGED <<mode, spc, scans, todo, plans>>
    BY <1>2 DEF recVars
  <2>4. RecoveryTypes' /\ Quiet' /\ Handled'
    BY <1>2, <2>3 DEF RecoveryInv, RecoveryTypes, Quiet, Handled
  <2>5. PlansGenuine'
    BY <2>2, <2>3 DEF RecoveryInv, PlansGenuine
  <2>. QED
    BY <2>1, <2>2, <2>4, <2>5 DEF RecoveryInv
<1>3. ASSUME NEW s \in Scanners, Scan(s) PROVE RecoveryInv' /\ Final
  <2>1. /\ UNCHANGED <<spent, begun, pc, turn, held, rounds, results, memVars, executed, old>>
        /\ RecoveryTypes' /\ Handled' /\ PlansGenuine'
    BY <1>3, ScanEffect
  <2>2. mode = "boot" /\ mode' = "boot"
    BY <1>3, ScanInBoot
  <2>3. Quiet' /\ \A c \in Chats : pc'[c] = "idle"
    BY <2>1, <2>2 DEF RecoveryInv, Quiet
  <2>4. Unended'
    BY <2>3 DEF Unended
  <2>5. CASE UNCHANGED rows
    <3>1. UNCHANGED vars
      BY <2>1, <2>5 DEF vars, memVars
    <3>. QED
      BY <1>0, <2>1, <2>3, <2>4, <3>1 DEF RecoveryInv
  <2>6. ASSUME NEW n \in Turns, Undone(n), rows' = [rows EXCEPT ![n].status = "failed"]
        PROVE  RecoveryInv' /\ Final
    <3>1. LoopInv'
      BY <2>1, <2>6, AbandonLoopInv DEF RecoveryInv
    <3>2. Final
      BY <2>6 DEF RecoveryInv, LoopInv, Shape, TypeOK, Undone
    <3>. QED
      BY <2>1, <2>3, <2>4, <3>1, <3>2 DEF RecoveryInv
  <2>. QED
    BY <1>3, <2>5, <2>6, ScanEffect
<1>4. ASSUME NEW n \in Turns, GrowOld(n) PROVE RecoveryInv' /\ Final
  <2>1. UNCHANGED vars /\ UNCHANGED <<mode, spc, scans, todo, plans>>
    BY <1>4 DEF GrowOld, scanVars
  <2>. QED
    BY <1>0, <2>1 DEF RecoveryInv, RecoveryTypes, Quiet, Handled, Undone, PlansGenuine, vars
<1>5. CASE Serve
  <2>1. /\ UNCHANGED vars /\ UNCHANGED <<spc, scans, todo, plans>>
        /\ mode' = "serve" /\ \A s \in Scanners : spc[s] = "idle"
    BY <1>5 DEF Serve, scanVars
  <2>. QED
    BY <1>0, <2>1 DEF RecoveryInv, RecoveryTypes, Quiet, Handled, PlansGenuine, vars
<1>6. CASE Restart
  <2>1. LoopInv'
    BY <1>6, RestartLoopInv DEF RecoveryInv
  <2>2. /\ mode' = "boot" /\ rows' = rows /\ plans' = {}
        /\ \A c \in Chats : pc'[c] = "idle"
        /\ \A s \in Scanners : todo'[s] = {} /\ spc'[s] = "idle"
    BY <1>6 DEF Restart
  <2>3. RecoveryTypes'
    BY <1>6 DEF Restart, RecoveryTypes
  <2>4. Quiet' /\ Handled' /\ Unended' /\ PlansGenuine' /\ Final
    BY <2>2 DEF Quiet, Handled, Unended, PlansGenuine
  <2>. QED
    BY <2>1, <2>3, <2>4 DEF RecoveryInv
<1>. QED
  BY <1>1, <1>2, <1>3, <1>4, <1>5, <1>6 DEF RecoveryNext

(* It holds at the first start.                                            *)
LEMMA InitRecoveryInv == RecoveryInit => RecoveryInv
<1>. SUFFICES ASSUME RecoveryInit PROVE RecoveryInv
  OBVIOUS
<1>1. LoopInv
  BY InitLoopInv DEF RecoveryInit
<1>2. RecoveryTypes /\ Quiet /\ Handled /\ PlansGenuine
  BY DEF RecoveryInit, RecoveryTypes, Quiet, Handled, PlansGenuine
<1>3. Unended
  BY DEF RecoveryInit, Init, Unended
<1>. QED
  BY <1>1, <1>2, <1>3 DEF RecoveryInv

(* So it always holds, across restarts.                                    *)
LEMMA RecoveryAlways == RecoverySpec => []RecoveryInv
<1>1. RecoveryInit => RecoveryInv
  BY InitRecoveryInv
<1>2. RecoveryInv /\ [RecoveryNext]_allVars => RecoveryInv'
  BY NextRecoveryInv
<1>. QED
  BY <1>1, <1>2, PTL DEF RecoverySpec

(* Restarts at any point included: types, answered calls and exact         *)
(* checkpoints also hold of what a restarted process finds.                *)
THEOREM LoopSurvivesRestarts ==
  RecoverySpec => [](TypeOK /\ HistoryPaired /\ CheckpointExact)
<1>1. RecoveryInv => TypeOK /\ HistoryPaired /\ CheckpointExact
  BY LoopInvProperties DEF RecoveryInv
<1>. QED
  BY <1>1, RecoveryAlways, PTL

(* No recovery plan claims a step that did not run to that very result.    *)
THEOREM PlansAreGenuine == RecoverySpec => []PlansGenuine
<1>1. RecoveryInv => PlansGenuine
  BY DEF RecoveryInv
<1>. QED
  BY <1>1, RecoveryAlways, PTL

(* Neither a scan, an abandonment nor a later turn changes the status of a *)
(* task that was completed or failed.                                      *)
THEOREM EndsAreFinal == RecoverySpec => EndIsFinal
<1>1. RecoveryInv /\ [RecoveryNext]_allVars =>
        [\A n \in Turns :
           rows[n].status \in {"completed", "failed"} => rows'[n].status = rows[n].status]_allVars
  BY NextRecoveryInv
<1>. QED
  BY <1>1, RecoveryAlways, PTL DEF RecoverySpec, EndIsFinal

-----------------------------------------------------------------------------
(***************************************************************************)
(* One plan per task, when scans do not overlap.                           *)
(***************************************************************************)

(* A planned task is marked, and the one being planned is not.             *)
Marked ==
  /\ \A p \in plans : p.task \in recovered
  /\ \A s \in Scanners : spc[s] = "plan" => First(todo[s]) \notin recovered

(* Every step keeps planned tasks marked, if there is only one scanner.    *)
LEMMA NextMarked ==
  ASSUME \A s, t \in Scanners : s = t,
         RecoveryInv, Marked, PlannedOnce, [RecoveryNext]_allVars
  PROVE  Marked' /\ PlannedOnce'
<1>. USE DEF Marked, PlannedOnce
<1>0. CASE UNCHANGED <<recovered, spc, todo, plans>>
  BY <1>0
<1>1. ASSUME NEW s \in Scanners, Scan(s) PROVE Marked' /\ PlannedOnce'
  <2>0. /\ spc \in [Scanners -> {"idle", "check", "plan", "apply"}]
        /\ todo \in [Scanners -> SUBSET Turns]
    BY DEF RecoveryInv, RecoveryTypes
  <2>1. CASE ScanLoad(s) \/ ScanSkip(s) \/ ScanEnd(s) \/ AbandonFails(s) \/ ApplyEnd(s) \/ Abandon(s)
    <3>1. UNCHANGED <<recovered, plans>> /\ spc'[s] # "plan"
      BY <2>0, <2>1 DEF ScanLoad, ScanSkip, ScanEnd, Abandon, AbandonFails, ApplyEnd, Goes
    <3>2. \A t \in Scanners : t = s
      BY <1>1
    <3>. QED
      BY <3>1, <3>2
  <2>2. CASE ScanTake(s)
    <3>1. UNCHANGED <<recovered, plans, todo>> /\ First(todo[s]) \notin recovered
      BY <2>2 DEF ScanTake
    <3>2. \A t \in Scanners : t = s
      BY <1>1
    <3>. QED
      BY <3>1, <3>2
  <2>3. CASE ScanPlan(s)
    <3>. DEFINE n == First(todo[s])
                p == [scan |-> <<s, scans[s]>>, task |-> n, action |-> Classify(n),
                      steps |-> CompletedSteps(rows[n].checkpoint)]
    <3>1. /\ plans' = plans \cup {p} /\ recovered' = recovered \cup {n}
          /\ n \notin recovered /\ spc'[s] = "check"
      BY <2>0, <2>3 DEF ScanPlan, Goes
    <3>2. p.task = n
      OBVIOUS
    <3>3. \A t \in Scanners : t = s
      BY <1>1
    <3>. HIDE DEF p, n
    <3>4. Marked'
      BY <3>1, <3>2, <3>3
    <3>5. PlannedOnce'
      BY <3>1, <3>2
    <3>. QED
      BY <3>4, <3>5
  <2>. QED
    BY <1>1, <2>1, <2>2, <2>3 DEF Scan
<1>2. CASE Restart
  <2>1. plans' = {} /\ \A s \in Scanners : spc'[s] = "idle"
    BY <1>2 DEF Restart
  <2>. QED
    BY <2>1
<1>3. CASE \/ UNCHANGED allVars \/ UNCHANGED recVars \/ Serve \/ \E n \in Turns : GrowOld(n)
  <2>1. UNCHANGED <<recovered, spc, todo, plans>>
    BY <1>3 DEF allVars, recVars, Serve, GrowOld, scanVars
  <2>. QED
    BY <1>0, <2>1
<1>. QED
  BY <1>1, <1>2, <1>3 DEF RecoveryNext

(* With scans one after the other, recovered_ids keeps a task from being   *)
(* planned twice after one start.  Overlapping scans may plan it twice:    *)
(* the lock is released between the check and the mark.                    *)
THEOREM PlannedOnceHolds ==
  ASSUME \A s, t \in Scanners : s = t
  PROVE  RecoverySpec => []PlannedOnce
<1>1. RecoveryInit => Marked /\ PlannedOnce
  BY DEF RecoveryInit, Marked, PlannedOnce
<1>2. RecoveryInv /\ (Marked /\ PlannedOnce) /\ [RecoveryNext]_allVars => (Marked /\ PlannedOnce)'
  BY NextMarked
<1>. QED
  BY <1>1, <1>2, RecoveryAlways, PTL DEF RecoverySpec
=============================================================================
