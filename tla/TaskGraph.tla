------------------------------ MODULE TaskGraph ------------------------------
(***************************************************************************)
(* The graph of sub-tasks of a compound order (skyclaw-agent,              *)
(* task_decomposition.rs).  The model's answer is a sequence of numbered   *)
(* lines, each with the steps it names as "(after N)"; lines that do not   *)
(* parse are not in the sequence.  Two lines may carry the same number.    *)
(* Descriptions and results are left out.  Dependencies are sets: a step   *)
(* named twice is counted twice on both sides of Kahn's algorithm.         *)
(***************************************************************************)
EXTENDS Integers, Sequences, FiniteSets, Functions

CONSTANTS Steps,     \* the step numbers the model may use
          MaxLines   \* lines of an answer

VARIABLES graph,     \* the task graph; a refused one is kept for comparison
          status     \* SubTaskStatus of every sub-task

graphVars == <<graph, status>>

Line == [id : Steps, deps : SUBSET Steps]

Answers == UNION {[1..n -> Line] : n \in 0..MaxLines}

-----------------------------------------------------------------------------
(* parse_decomposition: an answer without a numbered line is one sub-task. *)
ParseDecomposition(lines) ==
  IF lines = <<>> THEN <<[id |-> 1, deps |-> {}]>> ELSE lines

(* TaskGraph::new: order keeps every line, the map the last one of an id. *)
Collect(lines) ==
  LET ids == {lines[i].id : i \in DOMAIN lines}
      last(t) == CHOOSE i \in DOMAIN lines :
                   /\ lines[i].id = t
                   /\ \A j \in DOMAIN lines : lines[j].id = t => j <= i
  IN  [order |-> [i \in DOMAIN lines |-> lines[i].id],
       deps  |-> [t \in ids |-> lines[last(t)].deps]]

Tasks(g) == DOMAIN g.deps

DepsKnown(g) == \A t \in Tasks(g) : g.deps[t] \subseteq Tasks(g)

(* A set in ascending order: sub-tasks are numbered as their ids sort.     *)
Sorted(S) == [n \in 1..Cardinality(S) |-> CHOOSE x \in S : Cardinality({y \in S : y <= x}) = n]

(* One turn of the loop of Kahn's algorithm: take a node, lower the        *)
(* in-degree of its neighbours, queue those that reach zero in order.      *)
KahnStep(g, k) ==
  LET node == Head(k.queue)
      neighbours == {t \in Tasks(g) : node \in g.deps[t]}
      degree == [t \in Tasks(g) |->
                   IF t \in neighbours THEN k.degree[t] - 1 ELSE k.degree[t]]
      next == {t \in neighbours : degree[t] = 0}
  IN  [queue |-> Tail(k.queue) \o Sorted(next),
       degree |-> degree,
       result |-> Append(k.result, node)]

KahnStart(g) == [queue |-> Sorted({t \in Tasks(g) : g.deps[t] = {}}),
                 degree |-> [t \in Tasks(g) |-> Cardinality(g.deps[t])],
                 result |-> <<>>]

Loop(g, k) == IF k.queue = <<>> THEN k ELSE KahnStep(g, k)

Kahn(g) ==
  LET run[n \in 0..Cardinality(Tasks(g))] == IF n = 0 THEN KahnStart(g) ELSE Loop(g, run[n - 1])
  IN  run[Cardinality(Tasks(g))].result

(* detect_cycle counts the nodes that Kahn's algorithm visits. *)
DetectCycle(g) == Len(Kahn(g)) # Cardinality(Tasks(g))

TopologicalOrder(g) == Kahn(g)

(* Mutant of Ready: one completed dependency is enough. *)
ReadyAny(t) == /\ status[t] = "pending"
               /\ \/ graph.deps[t] = {}
                  \/ \E d \in graph.deps[t] : status[d] = "completed"

(* ready_tasks, whose order is that of the lines. *)
Ready(t) == /\ status[t] = "pending"
            /\ \A d \in graph.deps[t] : status[d] = "completed"

ReadyTasks == {t \in Range(graph.order) : Ready(t)}

IsComplete == /\ Tasks(graph) # {}
              /\ \A t \in Tasks(graph) : status[t] = "completed"

IsFailed == \E t \in Tasks(graph) : status[t] = "failed"

(* The last line of to_prompt, what the agent is told to do next. *)
Advice == IF ReadyTasks # {} THEN "execute"
          ELSE IF IsComplete THEN "complete"
          ELSE IF IsFailed THEN "failed"
          ELSE "nothing"

-----------------------------------------------------------------------------
Init == graph = [state |-> "none"] /\ status = <<>>

Verdict(g) == IF DepsKnown(g) /\ ~DetectCycle(g) THEN "built" ELSE "refused"

New(lines) ==
  LET g == Collect(ParseDecomposition(lines))
  IN  /\ graph' = [state |-> Verdict(g), order |-> g.order, deps |-> g.deps]
      /\ status' = IF graph'.state = "built"
                   THEN [t \in Tasks(g) |-> "pending"] ELSE status

Built == graph.state = "built"

(* The caller executes what ready_tasks names, several at a time. *)
MarkRunning(t) ==
  /\ t \in ReadyTasks
  /\ status' = [status EXCEPT ![t] = "running"]
  /\ UNCHANGED graph

MarkCompleted(t) ==
  /\ status[t] = "running"
  /\ status' = [status EXCEPT ![t] = "completed"]
  /\ UNCHANGED graph

MarkFailed(t) ==
  /\ status[t] = "running"
  /\ status' = [status EXCEPT ![t] = "failed"]
  /\ UNCHANGED graph

Next == \/ graph.state = "none" /\ \E lines \in Answers : New(lines)
        \/ /\ Built
           /\ \E t \in Tasks(graph) :
                MarkRunning(t) \/ MarkCompleted(t) \/ MarkFailed(t)

Spec == Init /\ [][Next]_graphVars

-----------------------------------------------------------------------------
TypeOK ==
  Built => /\ graph.order \in Seq(Steps)
           /\ status \in [Tasks(graph) ->
                            {"pending", "running", "completed", "failed"}]

(* Kahn's algorithm against the definition of a cycle: a graph is built    *)
(* from exactly the answers whose steps are known and well-founded (every  *)
(* set of steps has one that waits for no other of the set).               *)
AcceptedIffAcyclic ==
  graph.state # "none" =>
    (Built <=> /\ UNION {graph.deps[t] : t \in Tasks(graph)} \subseteq Tasks(graph)
               /\ \A S \in (SUBSET Tasks(graph)) \ {{}} :
                    \E t \in S : graph.deps[t] \cap S = {})

(* topological_sort lists every sub-task once, after all it depends on. *)
OrderRespectsDeps ==
  Built => LET o == TopologicalOrder(graph)
           IN  /\ Range(o) = Tasks(graph) /\ Len(o) = Cardinality(Tasks(graph))
               /\ \A i, j \in DOMAIN o : o[j] \in graph.deps[o[i]] => j < i

(* Whatever order the sub-tasks run and end in, nothing runs before what   *)
(* it depends on has completed, and the agent is never left without advice *)
(* while no sub-task runs: there is one to execute, or all are complete,   *)
(* or one has failed.                                                      *)
GraphAdvances ==
  Built => /\ \A t \in Tasks(graph) : status[t] # "pending" =>
                \A d \in graph.deps[t] : status[d] = "completed"
           /\ (\A t \in Tasks(graph) : status[t] # "running") => Advice # "nothing"

-----------------------------------------------------------------------------
(* What holds between any two turns of Kahn's loop: the queue has the      *)
(* sub-tasks that wait for none but the visited ones, each node once, the  *)
(* in-degrees count what a sub-task still waits for, and a visited one     *)
(* comes after all it depends on.                                          *)
Distinct(s) == \A i, j \in DOMAIN s : s[i] = s[j] => i = j
InTurn(g, s) == \A i \in DOMAIN s : \A d \in g.deps[s[i]] : \E j \in DOMAIN s : j < i /\ s[j] = d
KahnInv(g, k) ==
  /\ k.queue \in Seq(Tasks(g)) /\ k.result \in Seq(Tasks(g)) /\ k.degree \in [Tasks(g) -> Nat]
  /\ Distinct(k.queue) /\ Distinct(k.result) /\ Range(k.queue) \cap Range(k.result) = {}
  /\ \A t \in Tasks(g) : k.degree[t] = Cardinality(g.deps[t] \ Range(k.result))
  /\ \A t \in Tasks(g) : t \in Range(k.queue) \cup Range(k.result) <=> g.deps[t] \subseteq Range(k.result)
  /\ InTurn(g, k.result)

Proper(g) == IsFiniteSet(Tasks(g)) /\ Tasks(g) \subseteq Steps /\ g.deps \in [Tasks(g) -> SUBSET Tasks(g)]
WellFounded(g) == \A S \in (SUBSET Tasks(g)) \ {{}} : \E t \in S : g.deps[t] \cap S = {}

(* What holds between any two steps of the caller.                         *)
GraphInv ==
  graph.state # "none" =>
    /\ IsFiniteSet(Tasks(graph)) /\ Tasks(graph) \subseteq Steps /\ Tasks(graph) # {}
    /\ graph.order \in Seq(Steps) /\ Range(graph.order) = Tasks(graph)
    /\ graph.deps \in [Tasks(graph) -> SUBSET Steps]
    /\ Built <=> DepsKnown(graph) /\ WellFounded(graph)
    /\ Built => /\ status \in [Tasks(graph) -> {"pending", "running", "completed", "failed"}]
                /\ \A t \in Tasks(graph) : status[t] # "pending" =>
                     \A d \in graph.deps[t] : status[d] = "completed"
=============================================================================
