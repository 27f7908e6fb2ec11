------------------------------- MODULE Learning -------------------------------
(***************************************************************************)
(* Lessons drawn from a chat (skyclaw-agent, learning.rs, called at the    *)
(* end of a turn in runtime.rs).  The whole history of the chat is         *)
(* analysed, earlier turns included; a result is reduced to error or not   *)
(* and whether it announces a strategy rotation, a text to the indicators  *)
(* it contains.                                                            *)
(***************************************************************************)
EXTENDS Integers, Sequences, FiniteSets

CONSTANTS Tools,        \* tool names
          MaxCalls, MaxTurns

VARIABLES chat,      \* history: Seq of [role, tool, err, rotation, says]
          lessons    \* learnings stored, oldest first

learningVars == <<chat, lessons>>

Call(t)      == [role |-> "assistant", tool |-> t, err |-> FALSE, rotation |-> FALSE, says |-> {"none"}]
Result(e, r) == [role |-> "tool", tool |-> "", err |-> e, rotation |-> r, says |-> {"none"}]
Reply(s)     == [role |-> "assistant", tool |-> "", err |-> FALSE, rotation |-> FALSE, says |-> s]

(* tools_used: each tool once, where it was used first; the list has them  *)
(* in this order.                                                          *)
ToolsUsed == {i \in DOMAIN chat : chat[i].tool # "" /\ \A j \in 1..(i - 1) : chat[j].tool # chat[i].tool}

Failures == Cardinality({i \in DOMAIN chat : chat[i].role = "tool" /\ chat[i].err})
HadRotation == \E i \in DOMAIN chat : chat[i].rotation

(* The last text of the assistant; a message with only a call has none. *)
Texts == {i \in DOMAIN chat : chat[i].role = "assistant" /\ "none" \notin chat[i].says}
FinalText == IF Texts = {} THEN {} ELSE chat[CHOOSE i \in Texts : \A j \in Texts : j <= i].says

DetermineOutcome ==
  IF "success" \in FinalText /\ "failure" \notin FinalText /\ Failures <= 1 THEN "Success"
  ELSE IF "failure" \in FinalText /\ "success" \notin FinalText THEN "Failure"
  ELSE IF Failures > 0 THEN "Partial" ELSE "Success"

InferTaskType(uses) == {chat[i].tool : i \in uses}

(* At most three errors are told. *)
Lesson == [outcome |-> DetermineOutcome, errors |-> IF Failures > 3 THEN 3 ELSE Failures,
           rotation |-> HadRotation]

ExtractLearnings ==
  IF ToolsUsed = {} THEN <<>>
  ELSE <<[type |-> InferTaskType(ToolsUsed), approach |-> ToolsUsed, lesson |-> Lesson, turn |-> Len(chat)]>>

Init == chat = <<>> /\ lessons = <<>>

Turns == Cardinality(Texts)
Results == Cardinality({i \in DOMAIN chat : chat[i].role = "tool"})

UseTool(t, e, r) == /\ Results < MaxCalls
                    /\ Turns < MaxTurns
                    /\ chat' = chat \o <<Call(t), Result(e, r)>>
                    /\ UNCHANGED lessons

(* The final reply; the store of a learning may fail, which is only logged. *)
EndTurn(says, stored) ==
  /\ Turns < MaxTurns
  /\ chat' = Append(chat, Reply(says))
  /\ lessons' = IF stored THEN lessons \o ExtractLearnings' ELSE lessons

Next == \/ \E t \in Tools, e, r \in BOOLEAN : UseTool(t, e, r)
        \/ \E says \in SUBSET {"success", "failure"}, s \in BOOLEAN : EndTurn(says, s)

Spec == Init /\ [][Next]_learningVars

-----------------------------------------------------------------------------
TypeOK == Len(lessons) <= MaxTurns

(* What one lesson has to rest on, in the part of the chat before it. *)
Earned(l) ==
  /\ l.lesson.outcome = "Success" =>
       /\ Cardinality({j \in 1..l.turn : chat[j].err}) <= 1
       /\ chat[l.turn].says # {"failure"}
  /\ \E j \in 1..l.turn : chat[j].tool # ""

(* What a lesson calls a success had at most one failing tool call before  *)
(* it in its chat and did not end on a text that only tells of a failure,  *)
(* and no lesson is drawn from a chat in which no tool was ever used.      *)
SuccessEarned == \A i \in DOMAIN lessons : Earned(lessons[i])

(* The inductive invariant: only a tool's result is an error, a lesson is  *)
(* about a reply in the chat, and there are no more of them than replies.  *)
Message == [role : {"assistant", "tool"}, tool : Tools \union {""}, err : BOOLEAN,
            rotation : BOOLEAN, says : SUBSET {"none", "success", "failure"}]
Learnt == [type : SUBSET (Tools \union {""}), approach : SUBSET Nat,
           lesson : [outcome : {"Success", "Failure", "Partial"}, errors : 0..3, rotation : BOOLEAN],
           turn : Nat]
LearningInv ==
  /\ chat \in Seq(Message) /\ lessons \in Seq(Learnt)
  /\ \A i \in DOMAIN chat : chat[i].err => chat[i].role = "tool"
  /\ \A i \in DOMAIN lessons : lessons[i].turn \in 1..Len(chat)
  /\ Len(lessons) <= Turns /\ Turns <= MaxTurns
  /\ SuccessEarned
=============================================================================
