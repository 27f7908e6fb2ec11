------------------------------- MODULE Executor -------------------------------
(***************************************************************************)
(* Parallel execution of the tool calls of one model response              *)
(* (skyclaw-agent, executor.rs): dependency detection, groups as tokio     *)
(* tasks under a semaphore, validation of each call, panics of a tool, and *)
(* the results in the order of the calls.  A call has a tool name and at   *)
(* most one path argument; a path is a sequence of components relative to  *)
(* the workspace.  Paths are compared as written, as the code does.        *)
(***************************************************************************)
EXTENDS Integers, Sequences, FiniteSets, Functions

CONSTANTS Paths,         \* path arguments: sequences of names, ".." and "."
          MaxCalls,      \* calls of one response
          MaxConcurrent  \* permits of the semaphore

VARIABLES calls,    \* the batch; <<>> before it arrives
          groups,   \* groups of call indices, each in ascending order
          pos,      \* per group: calls of it that have ended
          running,  \* per group: its current call holds a permit
          crashed,  \* groups whose task panicked
          ran,      \* calls that were executed (history)
          results   \* output of every call, once all groups have been joined

executorVars == <<calls, groups, pos, running, crashed, ran, results>>

NoPath == <<"none">>

Call == [tool : {"shell", "screenshot", "browser", "unknown"}, path : {NoPath}]
        \cup [tool : {"file_read", "file_write"}, path : Paths]

-----------------------------------------------------------------------------
(* extract_file_paths and extract_write_paths. *)
PathsOf(c) == {c.path} \ {NoPath}

WritePaths(c) == IF c.tool = "file_read" THEN {} ELSE PathsOf(c)

ReadOnlyTool == {"file_read", "file_list", "file_search", "browser"}

(* Mutant of AreDependent: only two writers of a path are dependent. *)
AreDependentWriters(a, b) ==
  IF a.tool = "shell" /\ b.tool = "shell" THEN TRUE
  ELSE IF PathsOf(a) = {} /\ PathsOf(b) = {}
       THEN a.tool = b.tool /\ a.tool \notin ReadOnlyTool
       ELSE \E p \in PathsOf(a) \cap PathsOf(b) : p \in WritePaths(a) \cap WritePaths(b)

AreDependent(a, b) ==
  IF a.tool = "shell" /\ b.tool = "shell" THEN TRUE
  ELSE IF PathsOf(a) = {} /\ PathsOf(b) = {}
       THEN a.tool = b.tool /\ a.tool \notin ReadOnlyTool
       ELSE \E p \in PathsOf(a) \cap PathsOf(b) : p \in WritePaths(a) \cup WritePaths(b)

(* find: follow parents to the root (path compression changes no root). *)
Find(parent, x) ==
  LET up[n \in 0..Len(parent)] == IF n = 0 THEN x ELSE parent[up[n - 1]]
  IN  up[Len(parent)]

Unite(parent, a, b) == [parent EXCEPT ![Find(parent, a)] = Find(parent, b)]

(* The union-find over all pairs i < j: one turn of the inner loop, the    *)
(* inner loop, and the outer one.                                          *)
Turn(cs, parent, i, j) ==
  IF i < j /\ AreDependent(cs[i], cs[j]) THEN Unite(parent, i, j) ELSE parent

Row(cs, parent, i) ==
  LET after[j \in 0..Len(cs)] == IF j = 0 THEN parent ELSE Turn(cs, after[j - 1], i, j)
  IN  after[Len(cs)]

Parents(cs) ==
  LET after[i \in 0..Len(cs)] == IF i = 0 THEN [x \in 1..Len(cs) |-> x] ELSE Row(cs, after[i - 1], i)
  IN  after[Len(cs)]

(* A set of numbers in ascending order.                                    *)
Ascending(S) == [n \in 1..Cardinality(S) |-> CHOOSE x \in S : Cardinality({y \in S : y <= x}) = n]

DetectDependencies(cs) ==
  LET parent == Parents(cs)
      roots == {Find(parent, i) : i \in DOMAIN cs}
      member(r) == Ascending({i \in DOMAIN cs : Find(parent, i) = r})
      rs == Ascending(roots)
  IN  [k \in DOMAIN rs |-> member(rs[k])]

-----------------------------------------------------------------------------
(* lexical_normalize of a path joined to the workspace (one component, at  *)
(* depth one): ".." removes a name, and stays if there is none.            *)
Enter(done, c) ==
  IF c = "." THEN done
  ELSE IF c = ".." /\ done # <<>> /\ done[Len(done)] # ".." THEN SubSeq(done, 1, Len(done) - 1)
  ELSE Append(done, c)

Normalize(path) ==
  LET done[n \in 0..Len(path)] == IF n = 0 THEN <<"workspace">> ELSE Enter(done[n - 1], path[n])
  IN  done[Len(path)]

(* validate_path_in_workspace for a path that does not exist yet. *)
InWorkspace(path) == Normalize(path) # <<>> /\ Head(Normalize(path)) = "workspace"

(* execute_tool before the tool runs: it is known and its path is in scope *)
Valid(c) == c.tool # "unknown" /\ (c.path # NoPath => InWorkspace(c.path))

-----------------------------------------------------------------------------
Init == /\ calls = <<>> /\ groups = <<>> /\ pos = <<>> /\ running = <<>>
        /\ crashed = {} /\ ran = {} /\ results = <<>>

Permits == MaxConcurrent - Cardinality({g \in DOMAIN groups : running[g]})

Start(batch) ==
  /\ calls = <<>>
  /\ calls' = batch
  /\ groups' = DetectDependencies(batch)
  /\ pos' = [g \in DOMAIN groups' |-> 0]
  /\ running' = [g \in DOMAIN groups' |-> FALSE]
  /\ UNCHANGED <<crashed, ran, results>>

Current(g) == groups[g][pos[g] + 1]

Live(g) == g \notin crashed /\ pos[g] < Len(groups[g])

(* A group acquires a permit for its next call and begins to execute it. *)
Acquire(g) ==
  /\ Live(g) /\ ~running[g] /\ Permits > 0
  /\ running' = [running EXCEPT ![g] = TRUE]
  /\ ran' = IF Valid(calls[Current(g)]) THEN ran \cup {Current(g)} ELSE ran
  /\ UNCHANGED <<calls, groups, pos, crashed, results>>

(* The call returns, with an output or an error, and frees its permit. *)
Finish(g) ==
  /\ Live(g) /\ running[g]
  /\ running' = [running EXCEPT ![g] = FALSE]
  /\ pos' = [pos EXCEPT ![g] = @ + 1]
  /\ UNCHANGED <<calls, groups, crashed, ran, results>>

(* The tool panics: the group's task ends, with the outputs it had.  *)
Panic(g) ==
  /\ Live(g) /\ running[g] /\ Current(g) \in ran
  /\ running' = [running EXCEPT ![g] = FALSE]
  /\ crashed' = crashed \cup {g}
  /\ UNCHANGED <<calls, groups, pos, ran, results>>

GroupOf(i) == CHOOSE g \in DOMAIN groups : i \in Range(groups[g])

(* The slot of call i after all tasks are joined. *)
OutputOf(i) ==
  IF GroupOf(i) \in crashed THEN "panicked"
  ELSE IF Valid(calls[i]) THEN "output" ELSE "refused"

Collect ==
  /\ calls # <<>> /\ results = <<>>
  /\ \A g \in DOMAIN groups : ~Live(g)
  /\ results' = [i \in DOMAIN calls |-> OutputOf(i)]
  /\ UNCHANGED <<calls, groups, pos, running, crashed, ran>>

GroupStep(g) == Acquire(g) \/ Finish(g) \/ Panic(g)

Next == \/ calls = <<>> /\ \E n \in 1..MaxCalls : \E batch \in [1..n -> Call] : Start(batch)
        \/ \E g \in DOMAIN groups : GroupStep(g)
        \/ Collect

Spec == Init /\ [][Next]_executorVars

-----------------------------------------------------------------------------
TypeOK ==
  /\ calls \in Seq(Call) /\ groups \in Seq(Seq(DOMAIN calls))
  /\ ran \subseteq DOMAIN calls
  /\ \A i \in DOMAIN results : results[i] \in {"output", "refused", "panicked"}

Begun(i) == LET g == GroupOf(i)
                k == CHOOSE k \in DOMAIN groups[g] : groups[g][k] = i
            IN  k <= pos[g] \/ (k = pos[g] + 1 /\ (running[g] \/ g \in crashed))

Ended(i) == LET g == GroupOf(i)
                k == CHOOSE k \in DOMAIN groups[g] : groups[g][k] = i
            IN  k <= pos[g]

(* Of two calls of which one writes a path the other uses, or two shell    *)
(* calls, the later one begins when the earlier one has ended: no schedule *)
(* of groups and permits runs them together or the other way round.        *)
ConflictsInOrder ==
  \A i, j \in DOMAIN calls :
    /\ i < j
    /\ \/ calls[i].tool = "shell" /\ calls[j].tool = "shell"
       \/ /\ calls[i].path = calls[j].path /\ calls[i].path # NoPath
          /\ "file_write" \in {calls[i].tool, calls[j].tool}
    /\ Begun(j)
    => Ended(i)

(* Calls i and j are dependent; no call of S and one outside S are.        *)
Dep(cs, i, j) == AreDependent(cs[IF i < j THEN i ELSE j], cs[IF i < j THEN j ELSE i])
Closed(cs, S) == \A i \in S, j \in DOMAIN cs \ S : ~Dep(cs, i, j)

(* The union-find against its definition: two calls share a group exactly  *)
(* if a chain of dependent calls connects them, and every call is in one.  *)
GroupsAreComponents ==
  calls # <<>> =>
    /\ \A i \in DOMAIN calls :
         Cardinality({g \in DOMAIN groups : i \in Range(groups[g])}) = 1
    /\ \A g \in DOMAIN groups :
         /\ Closed(calls, Range(groups[g]))
         /\ \A S \in (SUBSET Range(groups[g])) \ {{}, Range(groups[g])} : ~Closed(calls, S)

(* Every call gets one result in its place.  One that says it ran did run; *)
(* one that never ran is not reported with an output; a panic takes with   *)
(* it the calls of its own group and no others.                            *)
EveryCallAnswered ==
  results # <<>> =>
    /\ DOMAIN results = DOMAIN calls
    /\ \A i \in DOMAIN calls :
         /\ results[i] = "output" <=> i \in ran /\ GroupOf(i) \notin crashed
         /\ results[i] = "panicked" <=> GroupOf(i) \in crashed

(* A walk from the workspace, where ".." leads up and stays at the root.   *)
Walk(at, c) == IF c = "." \/ (c = ".." /\ at = <<>>) THEN at
               ELSE IF c = ".." THEN SubSeq(at, 1, Len(at) - 1) ELSE Append(at, c)

WalkEnd(path) ==
  LET at[n \in 0..Len(path)] == IF n = 0 THEN <<"workspace">> ELSE Walk(at[n - 1], path[n])
  IN  at[Len(path)]

(* A file tool is executed only with a path that such a walk ends in the   *)
(* workspace.                                                              *)
ExecutedInScope ==
  \A i \in ran : calls[i].path # NoPath =>
    WalkEnd(calls[i].path) # <<>> /\ Head(WalkEnd(calls[i].path)) = "workspace"

-----------------------------------------------------------------------------
(* What holds between any two turns of the loops over the pairs: following *)
(* the parents of any call ends at its root, and can, because each step    *)
(* lowers the depth (Forest); calls of one root are of one component, so   *)
(* what contains one of them and is closed contains the other (Linked);    *)
(* and the pairs visited so far have one root (Merged).                    *)
Roots(parent) == {x \in DOMAIN parent : parent[x] = x}
Forest(n, parent, root, depth) ==
  /\ parent \in [1..n -> 1..n] /\ root \in [1..n -> 1..n] /\ depth \in [1..n -> Nat]
  /\ \A x \in 1..n : /\ parent[root[x]] = root[x]
                     /\ parent[x] = x => root[x] = x /\ depth[x] = 0
                     /\ parent[x] # x => root[parent[x]] = root[x] /\ depth[parent[x]] < depth[x]
                     /\ depth[x] + Cardinality(Roots(parent)) <= n

Linked(cs, root) ==
  \A S \in SUBSET DOMAIN cs : Closed(cs, S) =>
    \A x \in S : \A y \in DOMAIN cs : root[x] = root[y] => y \in S

Merged(cs, root, i, j) ==
  \A a, b \in DOMAIN cs :
    a < b /\ AreDependent(cs[a], cs[b]) /\ (a < i \/ (a = i /\ b <= j)) => root[a] = root[b]

UnionInv(cs, parent, i, j) ==
  \E root, depth : Forest(Len(cs), parent, root, depth) /\ Linked(cs, root) /\ Merged(cs, root, i, j)

(* Every call is in one group, a group is in the order of its calls, and   *)
(* no group depends on another or has a part that the rest of it does not. *)
Grouped(cs, gs) ==
  /\ gs \in Seq(Seq(DOMAIN cs))
  /\ \A i \in DOMAIN cs : \E g \in DOMAIN gs : i \in Range(gs[g])
  /\ \A g, h \in DOMAIN gs : Range(gs[g]) \cap Range(gs[h]) # {} => g = h
  /\ \A g \in DOMAIN gs : \A k, l \in DOMAIN gs[g] : k < l => gs[g][k] < gs[g][l]
  /\ \A g \in DOMAIN gs : Range(gs[g]) # {} /\ Closed(cs, Range(gs[g]))
  /\ \A g \in DOMAIN gs : \A S \in SUBSET Range(gs[g]) : S # {} /\ Closed(cs, S) => S = Range(gs[g])

(* What holds between any two steps of the groups.                         *)
ExecInv ==
  /\ calls \in Seq(Call) /\ Grouped(calls, groups)
  /\ pos \in [DOMAIN groups -> Nat] /\ running \in [DOMAIN groups -> BOOLEAN]
  /\ crashed \subseteq DOMAIN groups /\ ran \subseteq DOMAIN calls
  /\ \A g \in DOMAIN groups : pos[g] <= Len(groups[g]) /\ (running[g] => Live(g))
  /\ \A i \in ran : Valid(calls[i])
  /\ \A g \in DOMAIN groups : \A k \in DOMAIN groups[g] :
       k <= pos[g] \/ (k = pos[g] + 1 /\ running[g]) =>
         (Valid(calls[groups[g][k]]) => groups[g][k] \in ran)
  /\ results # <<>> => /\ calls # <<>> /\ \A g \in DOMAIN groups : ~Live(g)
                       /\ results = [i \in DOMAIN calls |-> OutputOf(i)]
=============================================================================
