---------------------------- MODULE KeyRotation ----------------------------
(***************************************************************************)
(* Keys of a provider (skyclaw-providers): current_key and rotate_key of   *)
(* anthropic.rs and openai_compat.rs, with the keys create_provider gives  *)
(* them.  Requests of several chats share one atomic index; a request that *)
(* is refused (401, 429) moves it on without looking whether another       *)
(* request has done so since it read the key.                              *)
(***************************************************************************)
EXTENDS Integers, Sequences, FiniteSets

CONSTANTS Callers,
          Keys,          \* the provider's key list
          Refused,       \* keys the service refuses
          MaxCalls

VARIABLES keyIndex,      \* key_index
          inFlight,      \* caller |-> index of the key of its request, or 0
          alone,         \* caller |-> no other request overlapped this one (history)
          streak,        \* refusals in a row, none of them overlapped (history)
          called

rotationVars == <<keyIndex, inFlight, alone, streak, called>>

Init == /\ keyIndex = 0 /\ inFlight = [c \in Callers |-> 0]
        /\ alone = [c \in Callers |-> TRUE] /\ streak = 0 /\ called = 0

(* current_key, counting from 1. *)
CurrentKey(i) == (i % Len(Keys)) + 1

(* complete, stream, health_check and list_models read the key. *)
Request(c) ==
  /\ inFlight[c] = 0 /\ called < MaxCalls /\ called' = called + 1
  /\ inFlight' = [inFlight EXCEPT ![c] = CurrentKey(keyIndex)]
  /\ LET others == {d \in Callers \ {c} : inFlight[d] # 0}
     IN alone' = [d \in Callers |-> IF d = c THEN others = {}
                                   ELSE IF d \in others THEN FALSE ELSE alone[d]]
  /\ UNCHANGED <<keyIndex, streak>>

(* The answer: success, another error, or a refusal of the key, which      *)
(* rotates.  (A 429 may meet any key.)                                     *)
Answer(c, refused) ==
  /\ inFlight[c] # 0 /\ inFlight' = [inFlight EXCEPT ![c] = 0]
  /\ refused = (Keys[inFlight[c]] \in Refused)
  /\ keyIndex' = IF refused THEN keyIndex + 1 ELSE keyIndex
  /\ streak' = IF refused /\ alone[c] THEN streak + 1 ELSE 0
  /\ UNCHANGED <<alone, called>>

Next == \E c \in Callers : Request(c) \/ Answer(c, TRUE) \/ Answer(c, FALSE)

Spec == Init /\ [][Next]_rotationVars

-----------------------------------------------------------------------------
TypeOK == keyIndex \in 0..MaxCalls /\ streak \in 0..MaxCalls /\ called \in 0..MaxCalls

(* Rotation finds a working key: as long as requests do not overlap, fewer *)
(* refusals follow each other than there are keys.  (Two overlapping       *)
(* refusals rotate twice and can come back to the refused key.)            *)
RotationFinds ==
  (\E i \in DOMAIN Keys : Keys[i] \notin Refused) => streak < Len(Keys)

-----------------------------------------------------------------------------
(* What holds between any two steps: every rotation belongs to an answer,  *)
(* a request that nobody overlaps was made with the key that is still the  *)
(* current one, and a streak went over that many keys in a row.            *)
Waiting == {c \in Callers : inFlight[c] # 0}

RotationTypes == /\ keyIndex \in Nat /\ streak \in 0..keyIndex /\ called \in 0..MaxCalls
                 /\ inFlight \in [Callers -> 0..Len(Keys)] /\ alone \in [Callers -> BOOLEAN]
                 /\ keyIndex + Cardinality(Waiting) <= called

AloneIsCurrent == \A c \in Waiting : alone[c] => inFlight[c] = CurrentKey(keyIndex) /\ Waiting = {c}

StreakRefused == \A j \in (keyIndex - streak)..(keyIndex - 1) : Keys[CurrentKey(j)] \in Refused

RotationInv == RotationTypes /\ AloneIsCurrent /\ StreakRefused
=============================================================================
