----------------------------- MODULE AgentLoop -----------------------------
(***************************************************************************)
(* AgentRuntime::process_message, run by the workers of several chats at   *)
(* the same time.  They share one AgentRuntime: its budget tracker (an     *)
(* atomic that is checked before and increased after a provider call) and  *)
(* the persistent task queue, a table that keeps for every task a status   *)
(* and a checkpoint of the session history.                                *)
(*                                                                         *)
(* A turn is one call of process_message.  Turns are numbered in the order *)
(* they begin, and a turn's number also stands for the id of its task.     *)
(***************************************************************************)
EXTENDS Naturals, Sequences, FiniteSets

CONSTANTS
  Chats,     (* chats whose workers call process_message                   *)
  MaxTasks,  (* bound: turns in the instance                               *)
  MaxRounds, (* max_tool_rounds                                            *)
  MaxUses,   (* bound: tool uses in one response                           *)
  MaxSpend,  (* max_micro_cents; 0 means unlimited                         *)
  MaxCost    (* bound: the cost of one provider call                       *)

ASSUME LoopAssumption ==
  /\ IsFiniteSet(Chats)
  /\ MaxTasks \in Nat
  /\ MaxRounds \in Nat
  /\ MaxUses \in Nat
  /\ MaxSpend \in Nat
  /\ MaxCost \in Nat

VARIABLES
  spent,     (* cumulative_micro_cents                                     *)
  begun,     (* turns begun so far                                         *)
  pc,        (* pc[c]: what the turn of c does next                        *)
  turn,      (* turn[c]: the turn c's worker runs, 0 if none               *)
  held,      (* held[c]: task_id is Some                                   *)
  rounds,    (* rounds[c]: rounds of the tool loop                         *)
  results,   (* results[c]: tool_result_parts of the current round         *)
  history,   (* history[c]: session.history                                *)
  saved,     (* saved[c]: persistent_history, the history between turns    *)
  rows       (* rows[n]: the row of task n in the task queue               *)

(* A history variable.                                                     *)
VARIABLE
  executed   (* <<n, r, i, ok>>: tool i of round r of turn n has run       *)

memVars == <<history, saved>>
vars == <<spent, begun, pc, turn, held, rounds, results, history, saved, rows,
          executed>>

Turns == 1..MaxTasks
NoRow == [status |-> "absent", checkpoint |-> <<>>]

(* An entry of the session history.  Its parts are the tool uses of a call *)
(* or the results ("ok", "error") of a Tool message.                       *)
Entry(kind, n, r, parts) ==
  [kind |-> kind, turn |-> n, round |-> r, parts |-> parts]

Init ==
  /\ spent = 0
  /\ begun = 0
  /\ pc = [c \in Chats |-> "idle"]
  /\ turn = [c \in Chats |-> 0]
  /\ held = [c \in Chats |-> FALSE]
  /\ rounds = [c \in Chats |-> 0]
  /\ results = [c \in Chats |-> <<>>]
  /\ history = [c \in Chats |-> <<>>]
  /\ saved = [c \in Chats |-> <<>>]
  /\ rows = [n \in Turns |-> NoRow]
  /\ executed = {}

Goto(c, l) == pc' = [pc EXCEPT ![c] = l]
Push(c, e) == history' = [history EXCEPT ![c] = Append(@, e)]

(* The turn ends, and with it its local variables; the worker keeps h for  *)
(* the next one.                                                           *)
Return(c, h) ==
  /\ Goto(c, "idle")
  /\ saved' = [saved EXCEPT ![c] = h]
  /\ turn' = [turn EXCEPT ![c] = 0]
  /\ held' = [held EXCEPT ![c] = FALSE]
  /\ rounds' = [rounds EXCEPT ![c] = 0]
  /\ results' = [results EXCEPT ![c] = <<>>]

-----------------------------------------------------------------------------
(***************************************************************************)
(* Beginning of a turn                                                     *)
(***************************************************************************)

(* An empty message, without text and attachments, is answered at once.    *)
EmptyMessage(c) ==
  /\ pc[c] = "idle"
  /\ begun < MaxTasks
  /\ begun' = begun + 1
  /\ UNCHANGED <<spent, pc, turn, held, rounds, results, memVars, rows, executed>>

(* The user's message is appended, and for a compound task the prompt that *)
(* asks for DONE criteria.                                                 *)
Begin(c, compound) ==
  /\ pc[c] = "idle"
  /\ begun < MaxTasks
  /\ begun' = begun + 1
  /\ turn' = [turn EXCEPT ![c] = begun + 1]
  /\ LET user == Entry("user", begun + 1, 0, <<>>)
         done == Entry("system", begun + 1, 0, <<>>)
     IN history' = [history EXCEPT ![c] =
                      @ \o (IF compound THEN <<user, done>> ELSE <<user>>)]
  /\ Goto(c, "create")
  /\ UNCHANGED <<spent, held, rounds, results, saved, rows, executed>>

(* create_task, or its failure, with which the turn goes on untracked.     *)
CreateTask(c, ok) ==
  /\ pc[c] = "create"
  /\ held' = [held EXCEPT ![c] = ok]
  /\ rows' = IF ok THEN [rows EXCEPT ![turn[c]].status = "pending"] ELSE rows
  /\ Goto(c, IF ok THEN "mark" ELSE "top")
  /\ UNCHANGED <<spent, begun, turn, rounds, results, memVars, executed>>

(* update_status(Running); a failure is only logged.                       *)
MarkRunning(c, ok) ==
  /\ pc[c] = "mark"
  /\ rows' = IF ok THEN [rows EXCEPT ![turn[c]].status = "running"] ELSE rows
  /\ Goto(c, "top")
  /\ UNCHANGED <<spent, begun, turn, held, rounds, results, memVars, executed>>

-----------------------------------------------------------------------------
(***************************************************************************)
(* The tool loop.  Leaving it in any other way than with a reply does not  *)
(* touch the task's row.                                                   *)
(***************************************************************************)

(* The interrupt flag is found set.                                        *)
Interrupted(c) ==
  /\ pc[c] = "top"
  /\ Return(c, history[c])
  /\ UNCHANGED <<spent, begun, history, rows, executed>>

(* The time limit, which any round may find exceeded, or the round limit.  *)
GiveUp(c) ==
  /\ pc[c] = "top"
  /\ Return(c, history[c])
  /\ UNCHANGED <<spent, begun, history, rows, executed>>

(* Mutant of NextRound: off by one.                                        *)
NextRoundLate(c) ==
  /\ pc[c] = "top"
  /\ rounds[c] <= MaxRounds
  /\ rounds' = [rounds EXCEPT ![c] = @ + 1]
  /\ Goto(c, "budget")
  /\ UNCHANGED <<spent, begun, turn, held, results, memVars, rows, executed>>

(* Otherwise the request is built from the history.                        *)
NextRound(c) ==
  /\ pc[c] = "top"
  /\ rounds[c] < MaxRounds
  /\ rounds' = [rounds EXCEPT ![c] = @ + 1]
  /\ Goto(c, "budget")
  /\ UNCHANGED <<spent, begun, turn, held, results, memVars, rows, executed>>

(* Mutant of Exhausted: off by one.                                        *)
ExhaustedLate == MaxSpend # 0 /\ spent > MaxSpend

(* check_budget                                                            *)
Exhausted == MaxSpend # 0 /\ spent >= MaxSpend

BudgetRefuses(c) ==
  /\ pc[c] = "budget"
  /\ Exhausted
  /\ Return(c, history[c])
  /\ UNCHANGED <<spent, begun, history, rows, executed>>

BudgetAllows(c) ==
  /\ pc[c] = "budget"
  /\ ~Exhausted
  /\ Goto(c, "call")
  /\ UNCHANGED <<spent, begun, turn, held, rounds, results, memVars, rows,
                 executed>>

(* The circuit breaker, see CircuitBreaker, may refuse the call.           *)
BreakerRefuses(c) ==
  /\ pc[c] = "call"
  /\ Return(c, history[c])
  /\ UNCHANGED <<spent, begun, history, rows, executed>>

(* Mutant of CallFails: the call is retried, and no round is counted.      *)
CallFailsRetries(c) ==
  /\ pc[c] = "call"
  /\ Goto(c, "budget")
  /\ UNCHANGED <<spent, begun, turn, held, rounds, results, memVars, rows,
                 executed>>

(* provider.complete fails: the error is returned.                         *)
CallFails(c) ==
  /\ pc[c] = "call"
  /\ Return(c, history[c])
  /\ UNCHANGED <<spent, begun, history, rows, executed>>

(* A response without tool uses is the reply.                              *)
CallReplies(c, cost) ==
  /\ pc[c] = "call"
  /\ spent' = spent + cost
  /\ Push(c, Entry("reply", turn[c], rounds[c], <<>>))
  /\ Goto(c, "complete")
  /\ UNCHANGED <<begun, turn, held, rounds, results, saved, rows, executed>>

(* A response with tool uses is recorded before they run.                  *)
CallAsksTools(c, cost, uses) ==
  /\ pc[c] = "call"
  /\ spent' = spent + cost
  /\ Push(c, Entry("call", turn[c], rounds[c], [i \in 1..uses |-> "use"]))
  /\ Goto(c, "tools")
  /\ UNCHANGED <<begun, turn, held, rounds, results, saved, rows, executed>>

(* The tool uses that the last entry of c's history asks for.              *)
Asked(c) == history[c][Len(history[c])].parts

(* The next tool runs, with or without an error.                           *)
RunTool(c, r) ==
  /\ pc[c] = "tools"
  /\ Len(results[c]) < Len(Asked(c))
  /\ results' = [results EXCEPT ![c] = Append(@, r)]
  /\ executed' = executed \cup {<<turn[c], rounds[c], Len(results[c]) + 1, r>>}
  /\ UNCHANGED <<spent, begun, pc, turn, held, rounds, memVars, rows>>

(* Mutants of PushResults: only a round without an error is recorded; the  *)
(* results of failed tools are left out.                                   *)
PushResultsIfOk(c) ==
  /\ pc[c] = "tools"
  /\ Len(results[c]) = Len(Asked(c))
  /\ IF \E i \in 1..Len(results[c]) : results[c][i] = "error"
     THEN UNCHANGED history
     ELSE Push(c, Entry("result", turn[c], rounds[c], results[c]))
  /\ results' = [results EXCEPT ![c] = <<>>]
  /\ Goto(c, "checkpoint")
  /\ UNCHANGED <<spent, begun, turn, held, rounds, saved, rows, executed>>

(* The results go into the history as one Tool message, whose last part    *)
(* also carries pending texts and hints (see Dispatcher).                  *)
PushResults(c) ==
  /\ pc[c] = "tools"
  /\ Len(results[c]) = Len(Asked(c))
  /\ Push(c, Entry("result", turn[c], rounds[c], results[c]))
  /\ results' = [results EXCEPT ![c] = <<>>]
  /\ Goto(c, "checkpoint")
  /\ UNCHANGED <<spent, begun, turn, held, rounds, saved, rows, executed>>

(* Mutant of Checkpoint: the history of before the turn is stored.         *)
CheckpointStale(c, ok) ==
  /\ pc[c] = "checkpoint"
  /\ rows' = IF ok /\ held[c]
             THEN [rows EXCEPT ![turn[c]].checkpoint = saved[c]]
             ELSE rows
  /\ Goto(c, "top")
  /\ UNCHANGED <<spent, begun, turn, held, rounds, results, memVars, executed>>

(* After a round the session history is stored in the task's row.          *)
Checkpoint(c, ok) ==
  /\ pc[c] = "checkpoint"
  /\ rows' = IF ok /\ held[c]
             THEN [rows EXCEPT ![turn[c]].checkpoint = history[c]]
             ELSE rows
  /\ Goto(c, "top")
  /\ UNCHANGED <<spent, begun, turn, held, rounds, results, memVars, executed>>

(* After the reply the task is marked completed.                           *)
Complete(c, ok) ==
  /\ pc[c] = "complete"
  /\ rows' = IF ok /\ held[c]
             THEN [rows EXCEPT ![turn[c]].status = "completed"]
             ELSE rows
  /\ Return(c, history[c])
  /\ UNCHANGED <<spent, begun, history, executed>>

(* A panic anywhere in the turn is caught by the worker, which rolls the   *)
(* history back to what it was before the turn.                            *)
Panic(c) ==
  /\ pc[c] # "idle"
  /\ history' = [history EXCEPT ![c] = saved[c]]
  /\ Return(c, saved[c])
  /\ UNCHANGED <<spent, begun, rows, executed>>

-----------------------------------------------------------------------------
Step(c) ==
  \/ \E ok \in BOOLEAN :
       CreateTask(c, ok) \/ MarkRunning(c, ok) \/ Checkpoint(c, ok) \/ Complete(c, ok)
  \/ Interrupted(c) \/ GiveUp(c) \/ NextRound(c)
  \/ BudgetRefuses(c) \/ BudgetAllows(c)
  \/ BreakerRefuses(c) \/ CallFails(c)
  \/ \E cost \in 0..MaxCost :
       \/ CallReplies(c, cost)
       \/ \E uses \in 1..MaxUses : CallAsksTools(c, cost, uses)
  \/ \E r \in {"ok", "error"} : RunTool(c, r)
  \/ PushResults(c)

Next ==
  \E c \in Chats :
    \/ EmptyMessage(c)
    \/ \E compound \in BOOLEAN : Begin(c, compound)
    \/ Step(c)
    \/ Panic(c)

(* Workers are polled, calls and tools return: a turn under way goes on.   *)
Fairness == \A c \in Chats : WF_vars(Step(c))

Spec == Init /\ [][Next]_vars
FairSpec == Spec /\ Fairness

-----------------------------------------------------------------------------
(***************************************************************************)
(* Properties                                                              *)
(***************************************************************************)
PCs == {"idle", "create", "mark", "top", "budget", "call", "tools",
        "checkpoint", "complete"}
Entries ==
  [kind : {"user", "system", "reply", "call", "result"}, turn : Turns,
   round : 0..MaxRounds, parts : Seq({"use", "ok", "error"})]
Statuses == {"absent", "pending", "running", "completed", "failed"}

(* Types; in particular no turn makes more than max_tool_rounds rounds.    *)
TypeOK ==
  /\ spent \in Nat
  /\ begun \in 0..MaxTasks
  /\ pc \in [Chats -> PCs]
  /\ turn \in [Chats -> 0..MaxTasks]
  /\ held \in [Chats -> BOOLEAN]
  /\ rounds \in [Chats -> 0..MaxRounds]
  /\ results \in [Chats -> Seq({"ok", "error"})]
  /\ history \in [Chats -> Seq(Entries)]
  /\ saved \in [Chats -> Seq(Entries)]
  /\ rows \in [Turns -> [status : Statuses, checkpoint : Seq(Entries)]]
  /\ executed \subseteq Turns \X (1..MaxRounds) \X Nat \X {"ok", "error"}

(* The chats that have passed check_budget and not yet recorded the cost.  *)
Spending == {c \in Chats : pc[c] = "call"}

(* check_budget and record_usage are not one step, so concurrent chats     *)
(* overshoot the limit, but by no more than one call each.                 *)
OverspendBounded ==
  MaxSpend # 0 => spent < MaxSpend + MaxCost * Cardinality(Chats)

(* h answers every tool call: a "call" is followed at once by the Tool     *)
(* message of its turn and round with one result per tool use, and no      *)
(* Tool message stands anywhere else.                                      *)
Paired(h) ==
  /\ \A i \in 1..Len(h) :
       h[i].kind = "call" =>
         /\ i < Len(h)
         /\ h[i + 1].kind = "result"
         /\ h[i + 1].turn = h[i].turn
         /\ h[i + 1].round = h[i].round
         /\ Len(h[i + 1].parts) = Len(h[i].parts)
  /\ \A i \in 1..Len(h) :
       h[i].kind = "result" => i > 1 /\ h[i - 1].kind = "call"

(* Whatever ends a turn (reply, limits, errors, panics), the history it    *)
(* leaves to the next turn, the one sent to the provider and the one       *)
(* stored in a checkpoint have an answer to every tool call.               *)
HistoryPaired ==
  /\ \A c \in Chats : Paired(saved[c])
  /\ \A c \in Chats : pc[c] \in {"budget", "call"} => Paired(history[c])
  /\ \A n \in Turns : Paired(rows[n].checkpoint)

(* The steps of turn n that history h records.                             *)
Steps(h, n) ==
  UNION {{<<n, h[j].round, i, h[j].parts[i]>> : i \in 1..Len(h[j].parts)} :
           j \in {k \in 1..Len(h) : h[k].kind = "result" /\ h[k].turn = n}}

(* A checkpoint is exact: it belongs to the task in whose row it is, and   *)
(* up to its last round it records precisely the tools that have run and   *)
(* how they ended, so a crash loses at most the rounds after it.           *)
CheckpointExact ==
  \A n \in Turns :
    LET h == rows[n].checkpoint
    IN h # <<>> =>
         /\ h[Len(h)].kind = "result" /\ h[Len(h)].turn = n
         /\ Steps(h, n) =
              {s \in executed : s[1] = n /\ s[2] <= h[Len(h)].round}

(* Every turn ends, however the provider and the tools behave.             *)
TurnReturns == \A c \in Chats : pc[c] # "idle" ~> pc[c] = "idle"
=============================================================================
