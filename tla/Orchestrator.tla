---------------------------- MODULE Orchestrator ----------------------------
(***************************************************************************)
(* DockerOrchestrator (skyclaw-core, orchestrator_impl.rs).  The map of    *)
(* instances is locked for single reads and writes only; the calls to the  *)
(* Docker daemon come between them and may fail.  The Kubernetes backend   *)
(* answers every call with an error and has no state.                      *)
(***************************************************************************)
EXTENDS Integers, Sequences, FiniteSets

CONSTANTS Callers,        \* concurrent users of the orchestrator
          Names,          \* instance names
          Family,         \* name |-> the names equal to it or beginning with "name-"
          MaxInstances,   \* max_instances
          MaxJobs         \* bound on operations

VARIABLES containers,   \* the daemon: id |-> "created", "running", "exited"
          names,        \* id |-> its name
          instances,    \* tracked: id |-> status
          job,          \* caller |-> the operation it is in
          jobs,         \* operations begun
          leaked,       \* containers whose start failed (history)
          scaledAway    \* <<primary, victim>> of every scale down (history)

dockerVars == <<containers, names, instances, job, jobs, leaked, scaledAway>>

NoJob == [op |-> "none"]
Ids == DOMAIN names
Tracked == DOMAIN instances
Set(f, k, v) == [x \in DOMAIN f \union {k} |-> IF x = k THEN v ELSE f[x]]
Without(f, k) == [x \in DOMAIN f \ {k} |-> f[x]]
Do(c, r) == job' = [job EXCEPT ![c] = r]
Begin(c) == job[c] = NoJob /\ jobs < MaxJobs /\ jobs' = jobs + 1

Init == /\ containers = <<>> /\ names = <<>> /\ instances = <<>>
        /\ job = [c \in Callers |-> NoJob]
        /\ jobs = 0 /\ leaked = {} /\ scaledAway = {}

(* The ids callers know: those a provision has returned. *)
Handed == {i \in Ids : i \notin leaked /\ \A c \in Callers :
                         job[c].op \in {"start", "track"} => job[c].id # i}

Room == Cardinality(Tracked) < MaxInstances

(* provision: the count is read first and not looked at again. *)
Provision(c, n) == /\ Begin(c) /\ Room
                   /\ Do(c, [op |-> "create", name |-> n])
                   /\ UNCHANGED <<containers, names, instances, leaked, scaledAway>>

CreateContainer(c) ==
  LET id == Len(names) + 1
  IN /\ job[c].op = "create"
     /\ names' = Append(names, job[c].name)
     /\ containers' = Set(containers, id, "created")
     /\ Do(c, [op |-> "start", id |-> id])
     /\ UNCHANGED <<instances, jobs, leaked, scaledAway>>

StartContainer(c) == /\ job[c].op = "start"
                     /\ containers' = [containers EXCEPT ![job[c].id] = "running"]
                     /\ Do(c, [op |-> "track", id |-> job[c].id])
                     /\ UNCHANGED <<names, instances, jobs, leaked, scaledAway>>

(* The error returns at once; the created container stays in the daemon. *)
StartFails(c) == /\ job[c].op = "start"
                 /\ leaked' = leaked \union {job[c].id}
                 /\ Do(c, NoJob)
                 /\ UNCHANGED <<containers, names, instances, jobs, scaledAway>>

Track(c) == /\ job[c].op = "track"
            /\ instances' = Set(instances, job[c].id, "running")
            /\ Do(c, NoJob)
            /\ UNCHANGED <<containers, names, jobs, leaked, scaledAway>>

(* scale: fewer replicas than tracked instances of the family; everything  *)
(* else is answered without a change.                                      *)
Scale(c, id, replicas) ==
  LET current == {i \in Tracked : names[i] \in Family[names[id]]}
  IN /\ Begin(c) /\ replicas > 0 /\ replicas < Cardinality(current)
     /\ Do(c, [op |-> "scale", id |-> id, left |-> current,
               need |-> Cardinality(current) - replicas])
     /\ UNCHANGED <<containers, names, instances, leaked, scaledAway>>

(* Mutant of Victims: the instance asked for is not spared. *)
VictimsAll(r) == r.left
Victims(r) == r.left \ {r.id}

PickVictim(c) ==
  LET r == job[c]
  IN /\ r.op = "scale"
     /\ IF r.need = 0 \/ Victims(r) = {} THEN Do(c, NoJob) /\ UNCHANGED scaledAway
        ELSE \E v \in Victims(r) :
               /\ Do(c, [op |-> "stop", id |-> v,
                         then |-> [r EXCEPT !.left = @ \ {v}, !.need = @ - 1]])
               /\ scaledAway' = scaledAway \union {<<r.id, v>>}
     /\ UNCHANGED <<containers, names, instances, jobs, leaked>>

Destroy(c, id) == /\ Begin(c)
                  /\ Do(c, [op |-> "stop", id |-> id, then |-> NoJob])
                  /\ UNCHANGED <<containers, names, instances, leaked, scaledAway>>

Exists(c) == job[c].id \in DOMAIN containers

StopContainer(c) == /\ job[c].op = "stop" /\ Exists(c)
                    /\ containers' = [containers EXCEPT ![job[c].id] = "exited"]
                    /\ Do(c, [job[c] EXCEPT !.op = "remove"])
                    /\ UNCHANGED <<names, instances, jobs, leaked, scaledAway>>

RemoveContainer(c) == /\ job[c].op = "remove" /\ Exists(c)
                      /\ containers' = Without(containers, job[c].id)
                      /\ Do(c, [job[c] EXCEPT !.op = "untrack"])
                      /\ UNCHANGED <<names, instances, jobs, leaked, scaledAway>>

(* The daemon refuses, or somebody else has removed the container: the     *)
(* whole operation returns the error, a scale down with it.                *)
CallFails(c) == /\ job[c].op \in {"create", "stop", "remove"}
                /\ Do(c, NoJob)
                /\ UNCHANGED <<containers, names, instances, jobs, leaked, scaledAway>>

Untrack(c) == /\ job[c].op = "untrack"
              /\ instances' = Without(instances, job[c].id)
              /\ Do(c, job[c].then)
              /\ UNCHANGED <<containers, names, jobs, leaked, scaledAway>>

(* health: the status is fetched, then written if still tracked. *)
Inspect(c, id) == /\ Begin(c) /\ id \in DOMAIN containers
                  /\ Do(c, [op |-> "status", id |-> id, seen |-> containers[id]])
                  /\ UNCHANGED <<containers, names, instances, leaked, scaledAway>>

UpdateStatus(c) == /\ job[c].op = "status"
                   /\ instances' = IF job[c].id \in Tracked
                                   THEN [instances EXCEPT ![job[c].id] = job[c].seen] ELSE instances
                   /\ Do(c, NoJob)
                   /\ UNCHANGED <<containers, names, jobs, leaked, scaledAway>>

(* A container ends by itself. *)
Exit(id) == /\ containers[id] = "running"
            /\ containers' = [containers EXCEPT ![id] = "exited"]
            /\ UNCHANGED <<names, instances, job, jobs, leaked, scaledAway>>

Next == \/ \E id \in DOMAIN containers : Exit(id)
        \/ \E c \in Callers :
             \/ \E n \in Names : Provision(c, n)
             \/ \E id \in Handed : Destroy(c, id) \/ Inspect(c, id) \/ \E k \in 1..MaxJobs : Scale(c, id, k)
             \/ CreateContainer(c) \/ StartContainer(c) \/ StartFails(c) \/ Track(c)
             \/ PickVictim(c) \/ StopContainer(c) \/ RemoveContainer(c)
             \/ CallFails(c) \/ Untrack(c) \/ UpdateStatus(c)

Spec == Init /\ [][Next]_dockerVars

-----------------------------------------------------------------------------
TypeOK == /\ Tracked \subseteq Ids /\ DOMAIN containers \subseteq Ids
          /\ \A i \in DOMAIN containers : containers[i] \in {"created", "running", "exited"}

(* The cap on instances is checked before the container is made: callers   *)
(* that provision together pass it by at most one each.                    *)
InstancesBounded == Cardinality(Tracked) <= MaxInstances + Cardinality(Callers) - 1

(* Whatever call fails in the middle, no container is forgotten: one that  *)
(* exists is tracked, in the hands of a caller, or had its start refused.  *)
NoContainerLost ==
  \A i \in DOMAIN containers :
    \/ i \in Tracked \/ i \in leaked
    \/ \E c \in Callers : job[c].op \in {"start", "track"} /\ job[c].id = i

(* Scaling down spares the instance it was asked for, also while others    *)
(* destroy and provision instances of that name.                           *)
PrimarySpared == \A p \in scaledAway : p[1] # p[2]

-----------------------------------------------------------------------------
(* What holds between any two steps: the shape of every operation under    *)
(* way, that a container about to be untracked is gone from the daemon, and *)
(* that every provision under way still has its place.                     *)
Statuses == {"created", "running", "exited"}
ScaleJob(I) == [op : {"scale"}, id : I, left : SUBSET I, need : Int]
EndJob(I) == [op : {"stop", "remove", "untrack"}, id : I, then : {NoJob} \union ScaleJob(I)]
MakeJob(I) == [op : {"start", "track"}, id : I]
SeeJob(I) == [op : {"status"}, id : I, seen : Statuses]
JobOf(I) == {NoJob} \union [op : {"create"}, name : Names] \union MakeJob(I)
            \union SeeJob(I) \union ScaleJob(I) \union EndJob(I)

DockerTypes == /\ names \in Seq(Names) /\ job \in [Callers -> JobOf(Ids)]
               /\ TypeOK
Gone == \A c \in Callers : job[c].op = "untrack" => job[c].id \notin DOMAIN containers

Provisioning == {c \in Callers : job[c].op \in {"create", "start", "track"}}
PlacesKept == Cardinality(Tracked) + Cardinality(Provisioning) <= MaxInstances + Cardinality(Callers) - 1

DockerInv == DockerTypes /\ Gone /\ PlacesKept /\ NoContainerLost /\ PrimarySpared
=============================================================================
