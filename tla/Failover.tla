------------------------------ MODULE Failover ------------------------------
(***************************************************************************)
(* ResilientMemory: a decorator that puts an in-memory cache in front of a *)
(* memory backend which may fail.  The fields of InnerState are guarded by *)
(* one RwLock, but the lock is released around every call of the backend,  *)
(* so each locked section and each backend call is one step, and the steps *)
(* of concurrent tasks interleave.                                         *)
(***************************************************************************)
EXTENDS Naturals, TLAPS

CONSTANTS
  Tasks,       (* the tasks that use the memory                            *)
  Ids,         (* entry ids                                                *)
  MaxFailures, (* max_consecutive_failures (3 in the code)                 *)
  MaxStores    (* bound: entries stored in the instance                    *)

ASSUME FailoverAssumption ==
  /\ MaxFailures \in Nat \ {0}
  /\ MaxStores \in Nat

VARIABLES
  primary,     (* primary[i]: version the backend has for i, 0 if none     *)
  cache,       (* cache[i]: version in the fallback cache, 0 if none       *)
  failures,    (* consecutive_failures, see Counted                        *)
  repairTried, (* repair_attempted                                         *)
  stores,      (* entries stored so far; the newest version                *)
  pc,          (* pc[t]: what task t does next                             *)
  job,         (* job[t]: the operation of t, its id and its version       *)
  batch,       (* batch[t]: what t still has to sync, as <<id, version>>   *)
  batchOk      (* batchOk[t]: no entry of t's batch failed so far          *)

(* History variables.                                                      *)
VARIABLES
  newest,      (* newest[i]: version of the last store or 0 after a delete *)
  acked        (* versions whose store has returned Ok                     *)

vars == <<primary, cache, failures, repairTried, stores, pc, job,
          batch, batchOk, newest, acked>>

Versions == 1..MaxStores
NoJob == [op |-> "none", id |-> 0, ver |-> 0]

(* ResilientMemory::new around an empty backend.                           *)
Init ==
  /\ primary = [i \in Ids |-> 0]
  /\ cache = [i \in Ids |-> 0]
  /\ failures = 0
  /\ repairTried = FALSE
  /\ stores = 0
  /\ pc = [t \in Tasks |-> "idle"]
  /\ job = [t \in Tasks |-> NoJob]
  /\ batch = [t \in Tasks |-> {}]
  /\ batchOk = [t \in Tasks |-> TRUE]
  /\ newest = [i \in Ids |-> 0]
  /\ acked = {}

Goto(t, l) == pc' = [pc EXCEPT ![t] = l]
Begin(t, op, i, v) == job' = [job EXCEPT ![t] = [op |-> op, id |-> i, ver |-> v]]

(* Every operation returns Ok to its caller, whatever the backend did.     *)
Return(t) ==
  /\ Goto(t, "idle")
  /\ job' = [job EXCEPT ![t] = NoJob]
  /\ acked' = IF job[t].op = "store" THEN acked \cup {job[t].ver} ELSE acked

(* One failure more.  The code only asks whether the count is zero and     *)
(* whether it has reached the threshold, so it stays at the threshold.     *)
Counted == IF failures < MaxFailures THEN failures + 1 ELSE failures

-----------------------------------------------------------------------------
(***************************************************************************)
(* Operations                                                              *)
(***************************************************************************)

(* store: a copy goes into the cache before the backend is called.         *)
Store(t, i) ==
  /\ pc[t] = "idle"
  /\ stores < MaxStores
  /\ stores' = stores + 1
  /\ cache' = [cache EXCEPT ![i] = stores + 1]
  /\ newest' = [newest EXCEPT ![i] = stores + 1]
  /\ Begin(t, "store", i, stores + 1)
  /\ Goto(t, "call")
  /\ UNCHANGED <<primary, failures, repairTried, batch, batchOk, acked>>

(* delete: the cached copy goes first.                                     *)
Delete(t, i) ==
  /\ pc[t] = "idle"
  /\ cache' = [cache EXCEPT ![i] = 0]
  /\ newest' = [newest EXCEPT ![i] = 0]
  /\ Begin(t, "delete", i, 0)
  /\ Goto(t, "call")
  /\ UNCHANGED <<primary, failures, repairTried, stores, batch, batchOk,
                 acked>>

(* get returns a cached entry at once, which changes nothing; otherwise it *)
(* asks the backend.  search, list_sessions and get_session_history always *)
(* ask it.  What they return is not recorded.                              *)
Read(t) ==
  /\ pc[t] = "idle"
  /\ \E i \in Ids, op \in {"get", "scan"} :
       /\ op = "get" => cache[i] = 0
       /\ Begin(t, op, i, 0)
  /\ Goto(t, "call")
  /\ UNCHANGED <<primary, cache, failures, repairTried, stores, batch,
                 batchOk, newest, acked>>

(* attempt_repair called from outside.                                     *)
Repair(t) ==
  /\ pc[t] = "idle"
  /\ Begin(t, "repair", 0, 0)
  /\ Goto(t, "probe")
  /\ UNCHANGED <<primary, cache, failures, repairTried, stores, batch,
                 batchOk, newest, acked>>

(* The backend call of the operation.                                      *)
BackendOk(t) ==
  /\ pc[t] = "call"
  /\ primary' = IF job[t].op \in {"store", "delete"}
                THEN [primary EXCEPT ![job[t].id] = job[t].ver]
                ELSE primary
  /\ Goto(t, "success")
  /\ UNCHANGED <<cache, failures, repairTried, stores, job, batch,
                 batchOk, newest, acked>>

(* An error; a call that fails is taken to have changed nothing.           *)
BackendFails(t) ==
  /\ pc[t] = "call"
  /\ Goto(t, "failure")
  /\ UNCHANGED <<primary, cache, failures, repairTried, stores, job, batch,
                 batchOk, newest, acked>>

(* record_success                                                          *)
RecordSuccess(t) ==
  /\ pc[t] = "success"
  /\ failures' = 0
  /\ repairTried' = IF failures > 0 THEN FALSE ELSE repairTried
  /\ Return(t)
  /\ UNCHANGED <<primary, cache, stores, batch, batchOk, newest>>

(* record_failure: repair once the threshold is reached ...                *)
RecordFailureRepair(t) ==
  /\ pc[t] = "failure"
  /\ failures + 1 >= MaxFailures
  /\ ~repairTried
  /\ failures' = Counted
  /\ Goto(t, "probe")
  /\ UNCHANGED <<primary, cache, repairTried, stores, job, batch,
                 batchOk, newest, acked>>

(* ... otherwise the operation falls back to the cache and returns.        *)
RecordFailure(t) ==
  /\ pc[t] = "failure"
  /\ failures + 1 < MaxFailures \/ repairTried
  /\ failures' = Counted
  /\ Return(t)
  /\ UNCHANGED <<primary, cache, repairTried, stores, batch, batchOk,
                 newest>>

-----------------------------------------------------------------------------
(***************************************************************************)
(* attempt_repair and sync_cache_to_primary                                *)
(***************************************************************************)
(* The probe, list_sessions, also ends with Ok or an error.                *)
ProbeOk(t) ==
  /\ pc[t] = "probe"
  /\ Goto(t, "snapshot")
  /\ UNCHANGED <<primary, cache, failures, repairTried, stores, job,
                 batch, batchOk, newest, acked>>

ProbeFails(t) ==
  /\ pc[t] = "probe"
  /\ Goto(t, "giveUp")
  /\ UNCHANGED <<primary, cache, failures, repairTried, stores, job, batch,
                 batchOk, newest, acked>>

(* Mutant of GiveUp: the failure count is not raised.                      *)
GiveUpUncounted(t) ==
  /\ pc[t] = "giveUp"
  /\ repairTried' = TRUE
  /\ Return(t)
  /\ UNCHANGED <<primary, cache, failures, stores, batch, batchOk, newest>>

(* Mutant of GiveUp: the probe is repeated until it succeeds.              *)
GiveUpRetries(t) ==
  /\ pc[t] = "giveUp"
  /\ repairTried' = TRUE
  /\ failures' = IF failures = 0 THEN 1 ELSE failures
  /\ Goto(t, "probe")
  /\ UNCHANGED <<primary, cache, stores, job, batch, batchOk, newest, acked>>

(* The probe failed: the memory is reported as failed from now on.         *)
GiveUp(t) ==
  /\ pc[t] = "giveUp"
  /\ repairTried' = TRUE
  /\ failures' = IF failures = 0 THEN 1 ELSE failures
  /\ Return(t)
  /\ UNCHANGED <<primary, cache, stores, batch, batchOk, newest>>

(* Mutant of Snapshot: ids that are not cached are synced as well.         *)
SnapshotAll(t) ==
  /\ pc[t] = "snapshot"
  /\ batch' = [batch EXCEPT ![t] = {<<i, cache[i]>> : i \in Ids}]
  /\ batchOk' = [batchOk EXCEPT ![t] = TRUE]
  /\ Goto(t, "sync")
  /\ UNCHANGED <<primary, cache, failures, repairTried, stores, job, newest,
                 acked>>

(* The entries to sync are copied under the read lock.                     *)
Snapshot(t) ==
  /\ pc[t] = "snapshot"
  /\ batch' = [batch EXCEPT ![t] = {<<i, cache[i]>> : i \in {j \in Ids : cache[j] # 0}}]
  /\ batchOk' = [batchOk EXCEPT ![t] = TRUE]
  /\ Goto(t, IF \A i \in Ids : cache[i] = 0 THEN "repaired" ELSE "sync")
  /\ UNCHANGED <<primary, cache, failures, repairTried, stores, job,
                 newest, acked>>

(* The entries are stored one after the other, in any order (HashMap).     *)
SyncOk(t, e) ==
  /\ pc[t] = "sync"
  /\ e \in batch[t]
  /\ primary' = [primary EXCEPT ![e[1]] = e[2]]
  /\ batch' = [batch EXCEPT ![t] = @ \ {e}]
  /\ UNCHANGED <<cache, failures, repairTried, stores, pc, job, batchOk,
                 newest, acked>>

(* A failed entry is only counted; the others are still tried.             *)
SyncFails(t, e) ==
  /\ pc[t] = "sync"
  /\ e \in batch[t]
  /\ batch' = [batch EXCEPT ![t] = @ \ {e}]
  /\ batchOk' = [batchOk EXCEPT ![t] = FALSE]
  /\ UNCHANGED <<primary, cache, failures, repairTried, stores, pc, job, newest,
                 acked>>

(* Some entry failed: the repair ends with an error that is only logged.   *)
SyncIncomplete(t) ==
  /\ pc[t] = "sync"
  /\ batch[t] = {}
  /\ ~batchOk[t]
  /\ Return(t)
  /\ UNCHANGED <<primary, cache, failures, repairTried, stores, batch,
                 batchOk, newest>>

(* Every entry is in the backend: the whole cache is cleared, not only     *)
(* what was synced.                                                        *)
ClearCache(t) ==
  /\ pc[t] = "sync"
  /\ batch[t] = {}
  /\ batchOk[t]
  /\ cache' = [i \in Ids |-> 0]
  /\ Goto(t, "repaired")
  /\ UNCHANGED <<primary, failures, repairTried, stores, job, batch,
                 batchOk, newest, acked>>

(* The rest of attempt_repair after a complete sync.                       *)
Repaired(t) ==
  /\ pc[t] = "repaired"
  /\ failures' = 0
  /\ repairTried' = FALSE
  /\ Return(t)
  /\ UNCHANGED <<primary, cache, stores, batch, batchOk, newest>>

-----------------------------------------------------------------------------
Start(t) ==
  \/ \E i \in Ids : Store(t, i) \/ Delete(t, i)
  \/ Read(t)
  \/ Repair(t)

Step(t) ==
  \/ BackendOk(t) \/ BackendFails(t)
  \/ RecordSuccess(t) \/ RecordFailureRepair(t) \/ RecordFailure(t)
  \/ ProbeOk(t) \/ ProbeFails(t) \/ GiveUp(t)
  \/ Snapshot(t)
  \/ \E e \in batch[t] : SyncOk(t, e) \/ SyncFails(t, e)
  \/ SyncIncomplete(t) \/ ClearCache(t) \/ Repaired(t)

Next == \E t \in Tasks : Start(t) \/ Step(t)

(* A task that has started an operation goes on with it: backend calls     *)
(* return and the lock is never held across one.                           *)
Fairness == \A t \in Tasks : WF_vars(Step(t))

Spec == Init /\ [][Next]_vars
FairSpec == Spec /\ Fairness

-----------------------------------------------------------------------------
(***************************************************************************)
(* Properties                                                              *)
(***************************************************************************)
PCs == {"idle", "call", "success", "failure", "probe", "giveUp", "snapshot",
        "sync", "repaired"}

Jobs ==
  [op : {"none", "delete", "get", "scan", "repair"}, id : Ids \cup {0}, ver : {0}]
    \cup [op : {"store"}, id : Ids, ver : Versions]

(* Types; in particular only entries that were in the cache are synced.    *)
TypeOK ==
  /\ primary \in [Ids -> 0..MaxStores]
  /\ cache \in [Ids -> 0..MaxStores]
  /\ failures \in 0..MaxFailures
  /\ repairTried \in BOOLEAN
  /\ stores \in 0..MaxStores
  /\ pc \in [Tasks -> PCs]
  /\ job \in [Tasks -> Jobs]
  /\ batch \in [Tasks -> SUBSET (Ids \X Versions)]
  /\ batchOk \in [Tasks -> BOOLEAN]
  /\ newest \in [Ids -> 0..MaxStores]
  /\ acked \subseteq Versions

(* What get(i) finds while the backend answers.                            *)
Visible(i) == IF cache[i] # 0 THEN cache[i] ELSE primary[i]

(* "Always cache a copy so we don't lose it if primary fails": an entry    *)
(* whose store returned, and which nobody stored again or deleted, is what *)
(* get finds.  Holds for one task; with two, a repair can clear the cache  *)
(* of an entry stored after its snapshot, or write an old version back     *)
(* over a newer one.                                                       *)
StoredIsFound == \A i \in Ids : newest[i] \in acked => Visible(i) = newest[i]

(* health_status reports Failed only if it would not report Healthy: after *)
(* a failed repair the failure count is never zero, so a broken backend    *)
(* is not reported as healthy, whichever tasks race with the repair.       *)
FailedIsNotHealthy == repairTried => failures > 0

(* Every operation returns, even when it has to repair the backend first.  *)
Returns == \A t \in Tasks : pc[t] # "idle" ~> pc[t] = "idle"

-----------------------------------------------------------------------------
(* Theorems about Failover, for any number of tasks, ids and stores.       *)

(* Initially every variable of ResilientMemory has its type.               *)
LEMMA InitType == ASSUME Init PROVE TypeOK
<1>1. job \in [Tasks -> Jobs]
  BY DEF Init, Jobs, NoJob
<1>2. pc \in [Tasks -> PCs]
  BY DEF Init, PCs
<1>3. /\ failures \in 0..MaxFailures
      /\ stores \in 0..MaxStores
      /\ 0 \in 0..MaxStores
  BY FailoverAssumption DEF Init
<1>4. repairTried \in BOOLEAN /\ batchOk \in [Tasks -> BOOLEAN]
  BY DEF Init
<1>5. batch \in [Tasks -> SUBSET (Ids \X Versions)]
  BY DEF Init
<1>6. /\ primary \in [Ids -> 0..MaxStores]
      /\ cache \in [Ids -> 0..MaxStores]
      /\ newest \in [Ids -> 0..MaxStores]
      /\ acked \subseteq Versions
  BY <1>3 DEF Init
<1>. QED
  BY <1>1, <1>2, <1>3, <1>4, <1>5, <1>6 DEF TypeOK

(* Returning to the caller keeps the types of what it changes.             *)
LEMMA ReturnType ==
  ASSUME TypeOK, NEW t \in Tasks, Return(t)
  PROVE  /\ pc' \in [Tasks -> PCs]
         /\ job' \in [Tasks -> Jobs]
         /\ acked' \subseteq Versions
<1>1. pc' \in [Tasks -> PCs]
  BY DEF Return, Goto, TypeOK, PCs
<1>2. job' \in [Tasks -> Jobs]
  BY DEF Return, TypeOK, NoJob, Jobs
<1>3. job[t].op = "store" => job[t].ver \in Versions
  BY DEF TypeOK, Jobs
<1>. QED
  BY <1>1, <1>2, <1>3 DEF Return, TypeOK

(* The failure count stays between 0 and the threshold.                    *)
LEMMA CountedType ==
  ASSUME failures \in 0..MaxFailures
  PROVE  Counted \in 0..MaxFailures
BY FailoverAssumption DEF Counted

(* Every step of every task keeps the types.                               *)
LEMMA NextType == ASSUME TypeOK, [Next]_vars PROVE TypeOK'
<1>. USE FailoverAssumption
<1>0. CASE UNCHANGED vars
  BY <1>0 DEF TypeOK, vars
<1>. SUFFICES ASSUME NEW t \in Tasks, Start(t) \/ Step(t) PROVE TypeOK'
  BY <1>0 DEF Next
<1>1. ASSUME NEW i \in Ids, Store(t, i) PROVE TypeOK'
  BY <1>1 DEF Store, TypeOK, PCs, Goto, Jobs, Begin, Versions
<1>2. ASSUME NEW i \in Ids, Delete(t, i) PROVE TypeOK'
  BY <1>2 DEF Delete, TypeOK, PCs, Goto, Jobs, Begin, Versions
<1>3. CASE Read(t)
  BY <1>3 DEF Read, TypeOK, PCs, Goto, Jobs, Begin, Versions
<1>4. CASE Repair(t)
  BY <1>4 DEF Repair, TypeOK, PCs, Goto, Jobs, Begin, Versions
<1>5. CASE BackendOk(t)
  <2>1. job[t].ver \in 0..MaxStores
    BY DEF TypeOK, Jobs, Versions
  <2>2. primary' \in [Ids -> 0..MaxStores]
    BY <1>5, <2>1 DEF BackendOk, TypeOK
  <2>3. pc' \in [Tasks -> PCs]
    BY <1>5 DEF BackendOk, Goto, TypeOK, PCs
  <2>. QED
    BY <1>5, <2>2, <2>3 DEF BackendOk, TypeOK
<1>6. CASE BackendFails(t)
  BY <1>6 DEF BackendFails, TypeOK, PCs, Goto, Jobs, Begin, Versions
<1>7. CASE RecordSuccess(t)
  <2>1. repairTried' \in BOOLEAN
    BY <1>7 DEF RecordSuccess, TypeOK
  <2>2. Return(t) /\ failures' \in 0..MaxFailures
    BY <1>7 DEF RecordSuccess
  <2>. QED
    BY <1>7, <2>1, <2>2, ReturnType DEF RecordSuccess, TypeOK
<1>8. CASE RecordFailureRepair(t)
  BY <1>8, CountedType DEF RecordFailureRepair, TypeOK, PCs, Goto, Jobs, Begin, Versions
<1>9. CASE RecordFailure(t)
  BY <1>9, ReturnType, CountedType DEF RecordFailure, TypeOK, PCs
<1>10. CASE ProbeOk(t)
  BY <1>10 DEF ProbeOk, TypeOK, PCs, Goto, Jobs, Begin, Versions
<1>11. CASE ProbeFails(t)
  BY <1>11 DEF ProbeFails, TypeOK, PCs, Goto, Jobs, Begin, Versions
<1>12. CASE GiveUp(t)
  BY <1>12, ReturnType DEF GiveUp, TypeOK, PCs
<1>13. CASE Snapshot(t)
  BY <1>13 DEF Snapshot, TypeOK, PCs, Goto, Jobs, Begin, Versions
<1>14. ASSUME NEW e \in batch[t], SyncOk(t, e) PROVE TypeOK'
  BY <1>14 DEF SyncOk, TypeOK, PCs, Goto, Jobs, Begin, Versions
<1>15. ASSUME NEW e \in batch[t], SyncFails(t, e) PROVE TypeOK'
  BY <1>15 DEF SyncFails, TypeOK, PCs, Goto, Jobs, Begin, Versions
<1>16. CASE SyncIncomplete(t)
  BY <1>16, ReturnType DEF SyncIncomplete, TypeOK, PCs
<1>17. CASE ClearCache(t)
  BY <1>17 DEF ClearCache, TypeOK, PCs, Goto, Jobs, Begin, Versions
<1>18. CASE Repaired(t)
  <2>1. repairTried' \in BOOLEAN
    BY <1>18 DEF Repaired
  <2>2. Return(t) /\ failures' \in 0..MaxFailures
    BY <1>18 DEF Repaired
  <2>. QED
    BY <1>18, <2>1, <2>2, ReturnType DEF Repaired, TypeOK
<1>. QED
  BY <1>1, <1>2, <1>3, <1>4, <1>5, <1>6, <1>7, <1>8, <1>9, <1>10, <1>11, <1>12,
     <1>13, <1>14, <1>15, <1>16, <1>17, <1>18 DEF Start, Step

(* Every reachable state of the memory is well typed, for any number of    *)
(* tasks that store, read, delete and repair at the same time.             *)
THEOREM TypeCorrect == Spec => []TypeOK
<1>1. Init => TypeOK
  BY InitType
<1>2. TypeOK /\ [Next]_vars => TypeOK'
  BY NextType
<1>. QED
  BY <1>1, <1>2, PTL DEF Spec

(* A memory whose repair failed is never reported as healthy: the flag and *)
(* the count are only changed together, under one lock, so                 *)
(* FailedIsNotHealthy is inductive over the types.                         *)
THEOREM FailureIsReported == Spec => []FailedIsNotHealthy
<1>1. Init => FailedIsNotHealthy
  BY DEF Init, FailedIsNotHealthy
<1>2. ASSUME TypeOK, FailedIsNotHealthy, [Next]_vars PROVE FailedIsNotHealthy'
  <2>. USE FailoverAssumption DEF FailedIsNotHealthy
  <2>0. CASE UNCHANGED vars
    BY <1>2, <2>0 DEF vars
  <2>. SUFFICES ASSUME NEW t \in Tasks, Start(t) \/ Step(t) PROVE FailedIsNotHealthy'
    BY <1>2, <2>0 DEF Next
  <2>1. ASSUME NEW i \in Ids, Store(t, i) PROVE FailedIsNotHealthy'
    BY <1>2, <2>1 DEF Store
  <2>2. ASSUME NEW i \in Ids, Delete(t, i) PROVE FailedIsNotHealthy'
    BY <1>2, <2>2 DEF Delete
  <2>3. CASE Read(t)
    BY <1>2, <2>3 DEF Read
  <2>4. CASE Repair(t)
    BY <1>2, <2>4 DEF Repair
  <2>5. CASE BackendOk(t)
    BY <1>2, <2>5 DEF BackendOk
  <2>6. CASE BackendFails(t)
    BY <1>2, <2>6 DEF BackendFails
  <2>7. CASE RecordSuccess(t)
    BY <1>2, <2>7 DEF RecordSuccess, TypeOK
  <2>8. CASE RecordFailureRepair(t)
    BY <1>2, <2>8 DEF RecordFailureRepair, TypeOK, Counted
  <2>9. CASE RecordFailure(t)
    BY <1>2, <2>9 DEF RecordFailure, TypeOK, Counted
  <2>10. CASE ProbeOk(t)
    BY <1>2, <2>10 DEF ProbeOk
  <2>11. CASE ProbeFails(t)
    BY <1>2, <2>11 DEF ProbeFails
  <2>12. CASE GiveUp(t)
    BY <1>2, <2>12 DEF GiveUp, TypeOK
  <2>13. CASE Snapshot(t)
    BY <1>2, <2>13 DEF Snapshot
  <2>14. ASSUME NEW e \in batch[t], SyncOk(t, e) PROVE FailedIsNotHealthy'
    BY <1>2, <2>14 DEF SyncOk
  <2>15. ASSUME NEW e \in batch[t], SyncFails(t, e) PROVE FailedIsNotHealthy'
    BY <1>2, <2>15 DEF SyncFails
  <2>16. CASE SyncIncomplete(t)
    BY <1>2, <2>16 DEF SyncIncomplete
  <2>17. CASE ClearCache(t)
    BY <1>2, <2>17 DEF ClearCache
  <2>18. CASE Repaired(t)
    BY <1>2, <2>18 DEF Repaired
  <2>. QED
    BY <2>1, <2>2, <2>3, <2>4, <2>5, <2>6, <2>7, <2>8, <2>9, <2>10, <2>11, <2>12,
       <2>13, <2>14, <2>15, <2>16, <2>17, <2>18 DEF Start, Step
<1>. QED
  BY <1>1, <1>2, TypeCorrect, PTL DEF Spec
=============================================================================
