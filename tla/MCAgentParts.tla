----------------------------- MODULE MCAgentParts -----------------------------
(*****************************************************************************)
(* The parts of the agent crate that stand beside the tool loop, each one a  *)
(* small instance of its module; AgentConduct has those that act of their    *)
(* own accord, and the memory backend.                                       *)
(* They share no state, so a behaviour is about one of them: the component   *)
(* named by active moves, the others stay in their initial states.           *)
(*****************************************************************************)
EXTENDS AgentConduct

VARIABLES
  active,      \* the component this behaviour is about
  prunable, pruned,
  buffer, since, pushed, sent, notified,
  output, compressed,
  history, request, said

(* Messages of a history for the pruner. *)
Msg(r, c, h) == [role |-> r, content |-> c, has |-> h]
PruningMessages == {Msg("user", "text", {"instruction"}), Msg("user", "text", {"greeting"}),
                    Msg("user", "text", {}), Msg("assistant", "text", {"error"}),
                    Msg("assistant", "text", {"short", "filler"}), Msg("tool", "toolresult", {}),
                    Msg("system", "text", {})}

(* Turns of finished tasks for the prompt patches. *)
T(t, ok, r) == [tool |-> t, ok |-> ok, rotated |-> r]
PatchTraces == {<<T("a", FALSE, TRUE)>>,
                <<T("a", FALSE, FALSE), T("b", FALSE, FALSE), T("c", TRUE, FALSE)>>,
                <<T("a", FALSE, FALSE), T("b", FALSE, FALSE), T("c", FALSE, FALSE), T("d", TRUE, FALSE)>>}

(* Triggers, and rules that wait for them. *)
Trig(k, v, c) == [kind |-> k, key |-> "x", value |-> v, cond |-> c]
Rule(i, p, c) == [id |-> i, name |-> "n", prompt |-> "p", on |-> TRUE, pattern |-> p, cooldown |-> c]
ProTriggers == {Trig("file", 0, "created"), Trig("threshold", 1, "above"), Trig("threshold", 0, "above")}
ProRules == {Rule(1, Trig("file", 0, "created"), 2), Rule(2, Trig("file", 0, "created"), 1)}

OutLine(n, k) == [len |-> n, kind |-> k]
OutLines == {OutLine(1, "plain"), OutLine(3, "plain"), OutLine(2, "error"),
             OutLine(1, "exit"), OutLine(2, "changed")}

Tiers == {[enabled |-> TRUE, fast |-> TRUE, premium |-> TRUE],
          [enabled |-> TRUE, fast |-> FALSE, premium |-> TRUE]}

(* Paths inside, outside, and outside and back in. *)
ExecPaths == {<<"f">>, <<"d", "..", "..", "f">>, <<"..", "workspace", "f">>}

Prune == INSTANCE Pruning WITH
    Messages <- PruningMessages, RecencyWindow <- 2, MaxHistory <- 4,
    Limits <- {2, 3}, history <- prunable
Stream == INSTANCE Streaming WITH
    Tokens <- {<<"l">>, <<"l", "b", "l">>, <<"l", "l">>}, Interval <- 2,
    Unbroken <- 3, MaxPushed <- 5, status <- notified
Output == INSTANCE OutputCompression WITH
    Lines <- OutLines, Small <- 6, MaxKeyLines <- 2, TailLines <- 2,
    HeadLines <- 1, FileTail <- 1, Budgets <- {0, 7, 10, 14}, Header <- 1,
    Mark <- 1, Widths <- {1, 2, 3}, MaxOutput <- 4
Ctx == INSTANCE Context WITH
    Sizes <- {1, 5}, FoundSizes <- {0, 1, 3}, Budget <- 20, Fixed <- 6,
    MinRecent <- 1, MaxRecent <- 2, MaxTurns <- 1, KnowledgeCap <- 2,
    HistCap <- 3, MaxSaid <- 5

GraphVars == <<graph, taskStatus>>
DelegateVars == <<spawned, granted, callerPc, plan, agentStatus, ends, agentResults>>
ExecVars == <<calls, groups, pos, running, crashed, ran, results>>
PruneVars == <<prunable, pruned>>
PatchVars == <<patches, inUse, serial, byUser>>
StreamVars == <<buffer, since, pushed, sent, notified>>
WatchVars == <<health, failures, checkerPc, view, checks, ill, alarms>>
CorrectVars == <<failed, toolCalls>>
ProVars == <<clock, enabled, rules, hourStart, counted, offered, lastFired, early, inWindow>>
RoutingVars == <<routerConfig, taskText, used, turnCalls, messages>>
LearnVars == <<chat, lessons>>
OutputVars == <<output, compressed>>
SqlVars == <<rows, task, conn, result, made>>
CtxVars == <<history, request, said>>

Init == /\ active \in {"Graph", "Delegate", "Exec", "Prune", "Patch", "Stream", "Watch", "Correct", "Pro", "Routing", "Learn", "Output", "Sql", "Ctx"}
        /\ Graph!Init
        /\ Delegate!Init
        /\ Exec!Init
        /\ Prune!Init
        /\ Patch!Init
        /\ Stream!Init
        /\ Watch!Init
        /\ Correct!Init
        /\ Pro!Init
        /\ Routing!Init
        /\ Learn!Init
        /\ Output!Init
        /\ Sql!Init
        /\ Ctx!Init


GraphStep == /\ active = "Graph" /\ Graph!Next
  /\ UNCHANGED <<active, DelegateVars, ExecVars, PruneVars, PatchVars,
                StreamVars, WatchVars, CorrectVars, ProVars, RoutingVars,
                LearnVars, OutputVars, SqlVars, CtxVars>>
DelegateStep == /\ active = "Delegate" /\ Delegate!Next
  /\ UNCHANGED <<active, GraphVars, ExecVars, PruneVars, PatchVars,
                StreamVars, WatchVars, CorrectVars, ProVars, RoutingVars,
                LearnVars, OutputVars, SqlVars, CtxVars>>
ExecStep == /\ active = "Exec" /\ Exec!Next
  /\ UNCHANGED <<active, GraphVars, DelegateVars, PruneVars, PatchVars,
                StreamVars, WatchVars, CorrectVars, ProVars, RoutingVars,
                LearnVars, OutputVars, SqlVars, CtxVars>>
PruneStep == /\ active = "Prune" /\ Prune!Next
  /\ UNCHANGED <<active, GraphVars, DelegateVars, ExecVars, PatchVars,
                StreamVars, WatchVars, CorrectVars, ProVars, RoutingVars,
                LearnVars, OutputVars, SqlVars, CtxVars>>
PatchStep == /\ active = "Patch" /\ Patch!Next
  /\ UNCHANGED <<active, GraphVars, DelegateVars, ExecVars, PruneVars,
                StreamVars, WatchVars, CorrectVars, ProVars, RoutingVars,
                LearnVars, OutputVars, SqlVars, CtxVars>>
StreamStep == /\ active = "Stream" /\ Stream!Next
  /\ UNCHANGED <<active, GraphVars, DelegateVars, ExecVars, PruneVars,
                PatchVars, WatchVars, CorrectVars, ProVars, RoutingVars,
                LearnVars, OutputVars, SqlVars, CtxVars>>
WatchStep == /\ active = "Watch" /\ Watch!Next
  /\ UNCHANGED <<active, GraphVars, DelegateVars, ExecVars, PruneVars,
                PatchVars, StreamVars, CorrectVars, ProVars, RoutingVars,
                LearnVars, OutputVars, SqlVars, CtxVars>>
CorrectStep == /\ active = "Correct" /\ Correct!Next
  /\ UNCHANGED <<active, GraphVars, DelegateVars, ExecVars, PruneVars,
                PatchVars, StreamVars, WatchVars, ProVars, RoutingVars,
                LearnVars, OutputVars, SqlVars, CtxVars>>
ProStep == /\ active = "Pro" /\ Pro!Next
  /\ UNCHANGED <<active, GraphVars, DelegateVars, ExecVars, PruneVars,
                PatchVars, StreamVars, WatchVars, CorrectVars, RoutingVars,
                LearnVars, OutputVars, SqlVars, CtxVars>>
RoutingStep == /\ active = "Routing" /\ Routing!Next
  /\ UNCHANGED <<active, GraphVars, DelegateVars, ExecVars, PruneVars,
                PatchVars, StreamVars, WatchVars, CorrectVars, ProVars,
                LearnVars, OutputVars, SqlVars, CtxVars>>
LearnStep == /\ active = "Learn" /\ Learn!Next
  /\ UNCHANGED <<active, GraphVars, DelegateVars, ExecVars, PruneVars,
                PatchVars, StreamVars, WatchVars, CorrectVars, ProVars,
                RoutingVars, OutputVars, SqlVars, CtxVars>>
OutputStep == /\ active = "Output" /\ Output!Next
  /\ UNCHANGED <<active, GraphVars, DelegateVars, ExecVars, PruneVars,
                PatchVars, StreamVars, WatchVars, CorrectVars, ProVars,
                RoutingVars, LearnVars, SqlVars, CtxVars>>
SqlStep == /\ active = "Sql" /\ Sql!Next
  /\ UNCHANGED <<active, GraphVars, DelegateVars, ExecVars, PruneVars,
                PatchVars, StreamVars, WatchVars, CorrectVars, ProVars,
                RoutingVars, LearnVars, OutputVars, CtxVars>>
CtxStep == /\ active = "Ctx" /\ Ctx!Next
  /\ UNCHANGED <<active, GraphVars, DelegateVars, ExecVars, PruneVars,
                PatchVars, StreamVars, WatchVars, CorrectVars, ProVars,
                RoutingVars, LearnVars, OutputVars, SqlVars>>

Next == \/ GraphStep
        \/ DelegateStep
        \/ ExecStep
        \/ PruneStep
        \/ PatchStep
        \/ StreamStep
        \/ WatchStep
        \/ CorrectStep
        \/ ProStep
        \/ RoutingStep
        \/ LearnStep
        \/ OutputStep
        \/ SqlStep
        \/ CtxStep

suiteVars == <<active, GraphVars, DelegateVars, ExecVars, PruneVars, PatchVars, StreamVars, WatchVars, CorrectVars, ProVars, RoutingVars, LearnVars, OutputVars, SqlVars, CtxVars>>

Spec == Init /\ [][Next]_suiteVars

-----------------------------------------------------------------------------
(* Promises of the components, joined by what they are about.  The comment   *)
(* of each conjunct, in its own module, names the cases it excludes.  Those  *)
(* of the parts in AgentConduct are stated, and proved, there.               *)

(* Whatever is cut to fit. prune_history and build_context keep to their     *)
(* limits, drop older before newer, leave no gap and spare the recent        *)
(* instructions of the user; the streaming buffer loses no character and     *)
(* ends at words; compress_tool_output keeps to its budget and cuts the      *)
(* errors of a shell output last.                                            *)
CutsAreFair ==
  /\ active = "Prune" => /\ Prune!TypeOK
                         /\ Prune!PrunedToLimit
                         /\ Prune!RecentInstructionKept
                         /\ Prune!NewerKept
  /\ active = "Ctx" => /\ Ctx!WithinBudget
                       /\ Ctx!WithinShares
                       /\ Ctx!NewestWithoutGap
  /\ active = "Stream" => /\ Stream!TypeOK
                          /\ Stream!NothingLostInStream
                          /\ Stream!FlushesAtWords
  /\ active = "Output" => /\ Output!TypeOK
                          /\ Output!CompressionBounded
                          /\ Output!ErrorsBeforeTail
=============================================================================
