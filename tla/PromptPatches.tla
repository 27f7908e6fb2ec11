---------------------------- MODULE PromptPatches ----------------------------
(***************************************************************************)
(* Prompt patches (skyclaw-agent, prompt_patches.rs): proposals extracted  *)
(* from a finished task, approval by the user or automatically, outcomes,  *)
(* expiry and eviction.  Confidences are in hundredths; a success rate is  *)
(* wins out of applications.  A task takes the active patches when it      *)
(* begins and reports on them when it ends.                                *)
(***************************************************************************)
EXTENDS Integers, Sequences, FiniteSets

CONSTANTS MaxPatches,     \* max_patches
          Threshold,      \* auto_approve_threshold, in hundredths
          Traces,         \* finished tasks: sequences of tool turns
          MaxProposed,    \* bound on proposals
          MaxApplied      \* bound on applied_count

VARIABLES patches,   \* the manager's list
          inUse,     \* ids injected into the prompt of the running task
          serial,    \* proposals so far; the id of the next one
          byUser     \* ids the user has approved (history)

patchVars == <<patches, inUse, serial, byUser>>

LowRisk == {"ToolUsageHint", "StylePreference"}

-----------------------------------------------------------------------------
(* A tool turn: the tool, whether its result was an error, and whether a   *)
(* strategy rotation was announced in it.                                  *)
FirstSuccess(trace) ==
  IF \E i \in DOMAIN trace : trace[i].ok
  THEN CHOOSE i \in DOMAIN trace : trace[i].ok /\ \A j \in 1..(i - 1) : ~trace[j].ok
  ELSE 0

(* The number of tools after consecutive repetitions are merged. *)
Runs(trace) == Cardinality({i \in DOMAIN trace : i = 1 \/ trace[i].tool # trace[i - 1].tool})

Tried(trace) == {trace[i].tool : i \in 1..FirstSuccess(trace)}

Lesser(a, b) == IF a < b THEN a ELSE b

(* extract_prompt_patches: at most one patch of each of three kinds. *)
ExtractPromptPatches(trace) ==
  LET succeeded == FirstSuccess(trace) # 0
      new(kind, conf) == <<[kind |-> kind, conf |-> conf]>>
  IN  (IF \E i \in DOMAIN trace : trace[i].rotated THEN new("ErrorAvoidance", 70) ELSE <<>>)
      \o (IF Len(trace) >= 2 /\ succeeded /\ Runs(trace) >= 2
          THEN new("WorkflowPattern", 50 + 10 * Lesser(Runs(trace), 5)) ELSE <<>>)
      \o (IF succeeded /\ Cardinality(Tried(trace)) >= 2
          THEN new("ToolUsageHint", 60 + 5 * Lesser(Cardinality(Tried(trace)), 4)) ELSE <<>>)

-----------------------------------------------------------------------------
Init == patches = <<>> /\ inUse = {} /\ serial = 0 /\ byUser = {}

Ended(p) == p.status \in {"expired", "rejected"}

Evictable(ps) == {i \in DOMAIN ps : Ended(ps[i])}

RemoveAt(ps, e) == SubSeq(ps, 1, e - 1) \o SubSeq(ps, e + 1, Len(ps))

(* evict_one: the first of the evictable patches with least confidence. *)
EvictOne(ps) ==
  LET least == {i \in Evictable(ps) : \A j \in Evictable(ps) : ps[i].conf <= ps[j].conf}
  IN  RemoveAt(ps, CHOOSE i \in least : \A j \in least : i <= j)

AutoApproved(p) == p.kind \in LowRisk /\ p.conf >= Threshold

(* propose_patch; the limit is an error if nothing can be evicted. *)
ProposePatch(p) ==
  /\ serial < MaxProposed
  /\ serial' = serial + 1
  /\ LET room == Len(patches) < MaxPatches
         new == [id |-> serial, kind |-> p.kind, conf |-> p.conf, applied |-> 0, wins |-> 0,
                 status |-> IF AutoApproved(p) THEN "approved" ELSE "proposed"]
     IN  patches' = IF room THEN Append(patches, new)
                    ELSE IF Evictable(patches) # {} THEN Append(EvictOne(patches), new)
                    ELSE patches
  /\ UNCHANGED <<inUse, byUser>>

(* Mutant of Decide: a decision is accepted whatever the status is. *)
DecideAlways(i, verdict) ==
  /\ patches' = [patches EXCEPT ![i].status = verdict]
  /\ byUser' = IF verdict = "approved" THEN byUser \cup {patches[i].id} ELSE byUser
  /\ UNCHANGED <<inUse, serial>>

(* approve_patch and reject_patch. *)
Decide(i, verdict) ==
  /\ patches[i].status = "proposed"
  /\ patches' = [patches EXCEPT ![i].status = verdict]
  /\ byUser' = IF verdict = "approved" THEN byUser \cup {patches[i].id} ELSE byUser
  /\ UNCHANGED <<inUse, serial>>

(* get_active_patches and format_patches_for_prompt. *)
ActivePatches == {patches[i].id : i \in {j \in DOMAIN patches : patches[j].status = "approved"}}

BeginTask == /\ inUse = {} /\ ActivePatches # {}
             /\ inUse' = ActivePatches
             /\ UNCHANGED <<patches, serial, byUser>>

(* record_task_outcome for the patches the task began with; those that     *)
(* were expired or evicted meanwhile are passed over.                      *)
RecordTaskOutcome(success) ==
  /\ inUse # {}
  /\ \A i \in DOMAIN patches : patches[i].applied < MaxApplied
  /\ patches' = [i \in DOMAIN patches |->
                   IF patches[i].id \in inUse /\ patches[i].status = "approved"
                   THEN [patches[i] EXCEPT !.applied = @ + 1,
                                           !.wins = @ + IF success THEN 1 ELSE 0]
                   ELSE patches[i]]
  /\ inUse' = {}
  /\ UNCHANGED <<serial, byUser>>

(* expire_underperforming, with a rate below one half. *)
ExpireUnderperforming(minApplications) ==
  /\ patches' = [i \in DOMAIN patches |->
                   IF /\ patches[i].status = "approved"
                      /\ patches[i].applied >= minApplications
                      /\ 2 * patches[i].wins < patches[i].applied
                   THEN [patches[i] EXCEPT !.status = "expired"]
                   ELSE patches[i]]
  /\ UNCHANGED <<inUse, serial, byUser>>

Next == \/ \E trace \in Traces : \E k \in DOMAIN ExtractPromptPatches(trace) :
             ProposePatch(ExtractPromptPatches(trace)[k])
        \/ \E i \in DOMAIN patches, v \in {"approved", "rejected"} : Decide(i, v)
        \/ BeginTask
        \/ \E s \in BOOLEAN : RecordTaskOutcome(s)
        \/ ExpireUnderperforming(1)

Spec == Init /\ [][Next]_patchVars

-----------------------------------------------------------------------------
TypeOK == /\ Len(patches) <= MaxPatches
          /\ \A i \in DOMAIN patches :
               patches[i].status \in {"proposed", "approved", "rejected", "expired"}

(* A patch that changes more than tool hints or style reaches the prompt   *)
(* only if the user has approved that very patch.                          *)
RiskyNeedsUser ==
  \A i \in DOMAIN patches :
    patches[i].id \in ActivePatches /\ patches[i].kind \notin LowRisk =>
      patches[i].id \in byUser

(* What the user rejected and what has expired never comes back, and a     *)
(* patch is evicted only after its end.                                    *)
EndedStaysEnded ==
  [][\A i \in DOMAIN patches :
       /\ Ended(patches[i]) =>
            \A j \in DOMAIN patches' : patches'[j].id = patches[i].id => Ended(patches'[j])
       /\ ~Ended(patches[i]) =>
            \E j \in DOMAIN patches' : patches'[j].id = patches[i].id]_patchVars

-----------------------------------------------------------------------------
(* What holds between any two steps: the ids of the patches are distinct     *)
(* and older than the next one, and the risky ones among the approved are    *)
(* the user's.                                                               *)
Proposal == [kind : {"ErrorAvoidance", "WorkflowPattern", "ToolUsageHint", "StylePreference"},
             conf : Nat]
Patch == [id : Nat, kind : {"ErrorAvoidance", "WorkflowPattern", "ToolUsageHint", "StylePreference"},
          conf : Nat, applied : Nat, wins : Nat,
          status : {"proposed", "approved", "rejected", "expired"}]
PatchTypes == patches \in Seq(Patch) /\ serial \in Nat /\ Len(patches) <= MaxPatches
OwnIds == \A i, j \in DOMAIN patches : /\ patches[i].id < serial
                                       /\ patches[i].id = patches[j].id => i = j
Consented(p) == p.status = "approved" /\ p.kind \notin LowRisk => p.id \in byUser

PatchInv == PatchTypes /\ OwnIds /\ \A i \in DOMAIN patches : Consented(patches[i])
=============================================================================
