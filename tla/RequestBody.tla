----------------------------- MODULE RequestBody -----------------------------
(***************************************************************************)
(* What of a conversation reaches the model: build_request_body and the    *)
(* message conversions of openai_compat.rs and anthropic.rs, over          *)
(* histories as the agent writes them.  A message is [role, parts]; a part *)
(* is [kind, id] of kind "text", "image", "call" or "result".              *)
(***************************************************************************)
EXTENDS Integers, Sequences, FiniteSets, SequencesExt

CONSTANTS MaxMessages, MaxParts

VARIABLES messages,    \* request.messages
          nextId       \* numbers of parts

bodyVars == <<messages, nextId>>

Part(k, id) == [kind |-> k, id |-> id]
Message(r, ps) == [role |-> r, parts |-> ps]
Of(ps, k) == SelectSeq(ps, LAMBDA p : p.kind = k)

Init == messages = <<>> /\ nextId = 1

Add(m, used) == /\ Len(messages) < MaxMessages /\ messages' = Append(messages, m)
                /\ nextId' = nextId + used

Answered == IF messages = <<>> THEN TRUE ELSE Of(Last(messages).parts, "call") = <<>>

(* A prompt, perhaps with images (runtime.rs). *)
Say(ks) == Answered /\ Add(Message("user", [i \in DOMAIN ks |-> Part(ks[i], nextId + i)]), Len(ks) + 1)
(* Context injected as a system message: memories, digest, DONE criteria.  *)
Inject == Answered /\ Add(Message("system", <<Part("text", nextId)>>), 1)
(* The model's turn: texts and tool calls. *)
Turn(ks) == /\ messages # <<>> /\ Answered
            /\ Add(Message("assistant", [i \in DOMAIN ks |-> Part(ks[i], nextId + i)]), Len(ks) + 1)

(* Results of all calls of the turn. *)
Results == /\ ~Answered
           /\ LET cs == Of(Last(messages).parts, "call")
              IN Add(Message("tool", [i \in DOMAIN cs |-> Part("result", cs[i].id)]), 1)

Kinds(S) == UNION {[1..n -> S] : n \in 1..MaxParts}

Next == \/ \E ks \in Kinds({"text", "image"}) : Say(ks)
        \/ \E ks \in Kinds({"text", "call"}) : Turn(ks)
        \/ Inject \/ Results

Spec == Init /\ [][Next]_bodyVars

-----------------------------------------------------------------------------
(* convert_message_to_openai, one message after the other.                 *)

(* One wire message for each tool result. *)
ToolMessages(m) == [i \in DOMAIN m.parts |-> Message("tool", <<m.parts[i]>>)]

(* Assistant: each text part overwrites the one before. *)
AssistantMessage(m) ==
  LET texts == Of(m.parts, "text")
  IN Message("assistant", (IF texts = <<>> THEN <<>> ELSE <<Last(texts)>>) \o Of(m.parts, "call"))

ToOpenAI(m) == CASE m.role = "tool" -> ToolMessages(m)
                 [] m.role = "assistant" -> <<AssistantMessage(m)>>
                 [] OTHER -> <<m>>

OpenAI(ms) == FlattenSeq([i \in DOMAIN ms |-> ToOpenAI(ms[i])])

(* build_request_body of Anthropic drops every system message of the list; *)
(* request.system goes beside it.                                          *)
Sent(ms) == SelectSeq(ms, LAMBDA m : m.role # "system")

(* convert_message_to_anthropic: results travel as user messages. *)
Anthropic(ms) == [i \in DOMAIN Sent(ms) |->
                    Message(IF Sent(ms)[i].role = "tool" THEN "user" ELSE Sent(ms)[i].role, Sent(ms)[i].parts)]

-----------------------------------------------------------------------------
TypeOK == Len(messages) <= MaxMessages /\ nextId \in Nat

Ids(ms, k) == LET ps == FlattenSeq([i \in DOMAIN ms |-> Of(ms[i].parts, k)])
              IN [i \in DOMAIN ps |-> ps[i].id]

(* The APIs refuse a request in which a call has no result: on either wire *)
(* the calls are those of the history, and a turn with calls is followed   *)
(* at once by their results, all of them and in order.  (Not so the texts: *)
(* OpenAI is sent the last text of a turn only, and Anthropic none of the  *)
(* system messages that inject memories, the digest or DONE criteria.)     *)
WirePaired ==
  Answered =>
    \A body \in {OpenAI(messages), Anthropic(messages)} :
      /\ Ids(body, "call") = Ids(messages, "call")
      /\ \A i \in DOMAIN body :
           LET cs == Of(body[i].parts, "call")
               later == SubSeq(body, i + 1, Len(body))
           IN cs # <<>> =>
                /\ later # <<>> /\ Of(later[1].parts, "result") # <<>>
                /\ IsPrefix([k \in DOMAIN cs |-> cs[k].id], Ids(later, "result"))
=============================================================================
