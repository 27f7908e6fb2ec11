------------------------------ MODULE Delegation ------------------------------
(***************************************************************************)
(* DelegationManager and SubAgent (skyclaw-agent, delegation.rs) used by   *)
(* several callers of one task.  A caller plans, then registers, starts    *)
(* and awaits its sub-agents one after the other.  register_spawn is two   *)
(* atomic accesses when it fails: the increment and the roll-back.  A      *)
(* running sub-agent and its timer end it in either order; each asks for   *)
(* the status change and reports only if it was granted.                   *)
(***************************************************************************)
EXTENDS Integers, FiniteSets, Sequences

CONSTANTS Callers,   \* tasks that share the manager
          MaxTotal,  \* max_total_agents
          MaxParts,  \* parts of a compound task
          Tools,     \* tools available to the primary agent
          Keywords   \* sets of tools named by the rows of TOOL_KEYWORDS

VARIABLES spawned,   \* spawned_count
          granted,   \* successful register_spawn calls (history)
          pc, plan,  \* per caller: where it is; planned sub-agents not yet begun
          status,    \* per caller: status of its current sub-agent
          ends,      \* per caller: who may still report on it: agent, timer
          results    \* SubAgentResults, in order of arrival

delegationVars == <<spawned, granted, pc, plan, status, ends, results>>

-----------------------------------------------------------------------------
(* A task is what the splitters find in it: the number of parts by         *)
(* numbered list, semicolon, "then" and "and", and whether every part of   *)
(* the last has two words.  split_by_* find at least the whole task.       *)
Task == [empty : BOOLEAN, numbered : 0..MaxParts, semi : 1..MaxParts,
         next : 1..MaxParts, conj : 1..MaxParts, meaningful : BOOLEAN]

SplitTask(t) ==
  IF t.numbered > 1 THEN t.numbered
  ELSE IF t.semi > 1 THEN t.semi
  ELSE IF t.next > 1 THEN t.next
  ELSE IF t.conj \in 2..4 /\ t.meaningful THEN t.conj
  ELSE 1

(* assign_tools for an objective that matches the rows in hits. *)
AssignTools(hits, available) ==
  LET assigned == (UNION hits) \cap available
  IN  IF assigned = {} THEN available ELSE assigned

Remaining == IF spawned > MaxTotal THEN 0 ELSE MaxTotal - spawned

Init ==
  /\ spawned = 0 /\ granted = 0 /\ results = <<>>
  /\ pc = [c \in Callers |-> "idle"]
  /\ plan = [c \in Callers |-> <<>>]
  /\ status = [c \in Callers |-> "pending"]
  /\ ends = [c \in Callers |-> {}]

(* plan_delegation: an empty task and an exhausted manager are errors. *)
PlanDelegation(c, t) ==
  /\ pc[c] = "idle"
  /\ IF t.empty \/ Remaining = 0
     THEN pc' = [pc EXCEPT ![c] = "refused"] /\ UNCHANGED plan
     ELSE LET parts == IF SplitTask(t) > Remaining THEN Remaining ELSE SplitTask(t)
          IN  /\ pc' = [pc EXCEPT ![c] = "add"]
              /\ \E hits \in SUBSET Keywords :
                   plan' = [plan EXCEPT ![c] = [i \in 1..parts |-> AssignTools(hits, Tools)]]
  /\ UNCHANGED <<spawned, granted, status, ends, results>>

(* register_spawn's fetch_add and, when it is granted, SubAgent::start. *)
RegisterSpawn(c) ==
  /\ pc[c] = "add" /\ plan[c] # <<>>
  /\ spawned' = spawned + 1
  /\ IF spawned >= MaxTotal
     THEN pc' = [pc EXCEPT ![c] = "rollback"] /\ UNCHANGED <<granted, status, ends>>
     ELSE /\ granted' = granted + 1
          /\ pc' = [pc EXCEPT ![c] = "run"]
          /\ status' = [status EXCEPT ![c] = "running"]
          /\ ends' = [ends EXCEPT ![c] = {"agent", "timer"}]
  /\ UNCHANGED <<plan, results>>

(* register_spawn's fetch_sub. *)
Rollback(c) ==
  /\ pc[c] = "rollback"
  /\ spawned' = spawned - 1
  /\ pc' = [pc EXCEPT ![c] = "refused"]
  /\ UNCHANGED <<granted, plan, status, ends, results>>

(* complete, fail and time_out are granted from Running only. *)
MayEnd(c) == status[c] = "running"

(* The sub-agent's task ends with success or failure. *)
AgentEnds(c, outcome) ==
  /\ pc[c] = "run" /\ "agent" \in ends[c]
  /\ ends' = [ends EXCEPT ![c] = @ \ {"agent"}]
  /\ IF MayEnd(c)
     THEN /\ status' = [status EXCEPT ![c] = outcome]
          /\ results' = Append(results, [of |-> <<c, Len(plan[c])>>, status |-> outcome])
     ELSE UNCHANGED <<status, results>>
  /\ UNCHANGED <<spawned, granted, pc, plan>>

(* Its timer fires, before or after the sub-agent's end. *)
TimerFires(c) ==
  /\ pc[c] = "run" /\ "timer" \in ends[c]
  /\ ends' = [ends EXCEPT ![c] = @ \ {"timer"}]
  /\ IF MayEnd(c)
     THEN /\ status' = [status EXCEPT ![c] = "timedout"]
          /\ results' = Append(results, [of |-> <<c, Len(plan[c])>>, status |-> "timedout"])
     ELSE UNCHANGED <<status, results>>
  /\ UNCHANGED <<spawned, granted, pc, plan>>

(* The caller goes on to the next planned sub-agent (SubAgent::new). *)
NextAgent(c) ==
  /\ pc[c] = "run" /\ ends[c] = {}
  /\ plan' = [plan EXCEPT ![c] = Tail(@)]
  /\ pc' = [pc EXCEPT ![c] = IF Tail(plan[c]) = <<>> THEN "done" ELSE "add"]
  /\ status' = [status EXCEPT ![c] = "pending"]
  /\ UNCHANGED <<spawned, granted, ends, results>>

Next == \E c \in Callers :
          \/ \E t \in Task : PlanDelegation(c, t)
          \/ RegisterSpawn(c) \/ Rollback(c)
          \/ \E o \in {"completed", "failed"} : AgentEnds(c, o)
          \/ TimerFires(c) \/ NextAgent(c)

Spec == Init /\ [][Next]_delegationVars

(* aggregate_results: the three counters of the summary. *)
Count(s) == Cardinality({i \in DOMAIN results : results[i].status = s})

-----------------------------------------------------------------------------
TypeOK ==
  /\ spawned \in Nat /\ granted \in Nat
  /\ plan \in [Callers -> Seq(SUBSET Tools)]
  /\ status \in [Callers -> {"pending", "running", "completed", "failed", "timedout"}]

(* The hard limit holds for all callers together, although each one checks *)
(* it against a value that the others are changing.                        *)
WithinAgentLimit == granted <= MaxTotal

(* The race of increments and roll-backs never costs an agent: whoever is  *)
(* refused is refused because the limit was really used up, and a manager  *)
(* at rest counts exactly the agents it granted.                           *)
RefusedOnlyWhenFull ==
  /\ \A c \in Callers : pc[c] = "rollback" => granted = MaxTotal
  /\ (\A c \in Callers : pc[c] # "rollback") => spawned = granted

(* A sub-agent and its timer report it once between them, with the status  *)
(* it has; so the counters of the summary add up to the agents that ended. *)
OneResultEach ==
  /\ \A i, j \in DOMAIN results : results[i].of = results[j].of => i = j
  /\ \A c \in Callers, i \in DOMAIN results :
       pc[c] = "run" /\ results[i].of = <<c, Len(plan[c])>> =>
         results[i].status = status[c]
  /\ Count("completed") + Count("failed") + Count("timedout") = Len(results)
-----------------------------------------------------------------------------
(* What holds between any two steps, for any finite number of callers.     *)
Steps == {"idle", "add", "rollback", "run", "done", "refused"}
Statuses == {"pending", "running", "completed", "failed", "timedout"}
Ends == {"completed", "failed", "timedout"}
Report == [of : Callers \X Nat, status : Ends]

DelegationTypes ==
  /\ spawned \in Nat /\ granted \in Nat
  /\ pc \in [Callers -> Steps]
  /\ plan \in [Callers -> Seq(SUBSET Tools)]
  /\ status \in [Callers -> Statuses]
  /\ results \in Seq(Report)

(* The counter is ahead of the agents granted by the callers that have yet *)
(* to take their increment back, and there are such callers only when the  *)
(* limit is used up.                                                       *)
Refused == {c \in Callers : pc[c] = "rollback"}
Counted ==
  /\ spawned = granted + Cardinality(Refused)
  /\ granted <= MaxTotal
  /\ Refused # {} => granted = MaxTotal

(* A caller works off its plan, and numbers its agents by what is left of  *)
(* it: every report is about an earlier agent, or about the one that runs  *)
(* and has ended.                                                          *)
Planned == \A c \in Callers : pc[c] \in {"add", "run"} => plan[c] # <<>>
Reported ==
  \A i \in DOMAIN results :
    LET c == results[i].of[1]
        n == results[i].of[2]
    IN /\ pc[c] # "idle" /\ n >= Len(plan[c])
       /\ n = Len(plan[c]) => pc[c] = "run" /\ status[c] = results[i].status
Distinct == \A i, j \in DOMAIN results : results[i].of = results[j].of => i = j

DelegationInv == DelegationTypes /\ Counted /\ Planned /\ Reported /\ Distinct
=============================================================================
