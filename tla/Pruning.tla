------------------------------- MODULE Pruning -------------------------------
(***************************************************************************)
(* History pruning by importance (skyclaw-agent, history_pruning.rs).  A   *)
(* message is its role, what its content is ("text", "tooluse",            *)
(* "toolresult" or "image") and the set of patterns its text matches; the  *)
(* pattern tables are text and become names.                               *)
(***************************************************************************)
EXTENDS Integers, Sequences, FiniteSets, SequencesExt

CONSTANTS Messages,       \* the messages a history may hold
          RecencyWindow,  \* RECENCY_WINDOW
          MaxHistory,     \* bound on the history
          Limits          \* values of max_messages

VARIABLES history, pruned   \* pruned: the last PrunedHistory

pruningVars == <<history, pruned>>

Trivial == 1
Low == 3
Medium == 5
High == 7
Critical == 10

RecencyBonus == 3

-----------------------------------------------------------------------------
UserText(p) ==
  IF p \cap {"marker", "instruction"} # {} THEN Critical
  ELSE IF p \cap {"code", "data"} # {} THEN High
  ELSE IF "greeting" \in p THEN Trivial
  ELSE IF "short" \in p /\ "command" \notin p THEN Low
  ELSE Medium

AssistantText(p) ==
  IF p \cap {"error", "code", "data"} # {} THEN High
  ELSE IF "progress" \in p THEN Low
  ELSE IF {"short", "filler"} \subseteq p THEN Trivial
  ELSE Medium

ToolText(p) ==
  IF "error" \in p THEN High
  ELSE IF "filler" \in p THEN Low
  ELSE Medium

(* classify_message, for a message of one part or plain text. *)
Classify(m) ==
  CASE m.content = "text" ->
         (CASE m.role = "user" -> UserText(m.has)
            [] m.role = "assistant" -> AssistantText(m.has)
            [] m.role = "system" -> Critical
            [] m.role = "tool" -> ToolText(m.has))
    [] m.content = "tooluse" -> Medium
    [] m.content = "toolresult" -> ToolText(m.has)
    [] m.content = "image" -> High

(* Mutant of Score: the bonus goes to the oldest messages. *)
ScoreOldest(h, i) == Classify(h[i]) + IF i <= RecencyWindow THEN RecencyBonus ELSE 0

(* score_message for the message at i. *)
Score(h, i) == Classify(h[i]) + IF i > Len(h) - RecencyWindow THEN RecencyBonus ELSE 0

(* The order in which messages are given up. *)
Before(h, i, j) == \/ Score(h, i) < Score(h, j)
                   \/ Score(h, i) = Score(h, j) /\ i < j

DropCount(h, limit) == Len(h) - limit

Dropped(h, limit) ==
  LET byScore == SetToSortSeq(DOMAIN h, LAMBDA i, j : Before(h, i, j))
  IN  IF Len(h) <= limit THEN {} ELSE {byScore[k] : k \in 1..DropCount(h, limit)}

(* generate_pruned_summary: whether topics, tools, errors and results of    *)
(* the dropped messages are mentioned.  Only plain user texts of more than  *)
(* three characters are topics, and three of them are listed.               *)
Topics(h, dropped) == {i \in dropped : /\ h[i].role = "user" /\ h[i].content = "text"
                                       /\ "tiny" \notin h[i].has}

Summary(h, dropped) ==
  [topics  |-> IF Cardinality(Topics(h, dropped)) <= 3 THEN Topics(h, dropped)
               ELSE CHOOSE S \in SUBSET Topics(h, dropped) :
                      /\ Cardinality(S) = 3
                      /\ \A i \in S, j \in Topics(h, dropped) \ S : i < j,
   tools   |-> \E i \in dropped : h[i].content = "tooluse",
   errors  |-> \E i \in dropped : "error" \in h[i].has,
   results |-> \E i \in dropped : h[i].content = "toolresult"]

PruneHistory(h, limit) ==
  LET d == Dropped(h, limit)
  IN  [limit |-> limit, dropped |-> d, summary |-> Summary(h, d),
       kept |-> SetToSortSeq(DOMAIN h \ d, <)]

-----------------------------------------------------------------------------
Init == history = <<>> /\ pruned = [limit |-> MaxHistory, dropped |-> {}, kept |-> <<>>]

Say(m) == /\ Len(history) < MaxHistory
          /\ history' = Append(history, m)
          /\ pruned' = PruneHistory(history', pruned.limit)

Prune(limit) == /\ pruned.limit # limit
                /\ pruned' = PruneHistory(history, limit)
                /\ UNCHANGED history

Next == (\E m \in Messages : Say(m)) \/ (\E n \in Limits : Prune(n))

Spec == Init /\ [][Next]_pruningVars

-----------------------------------------------------------------------------
TypeOK == history \in Seq(Messages) /\ pruned.dropped \subseteq DOMAIN history

(* The result has at most the asked-for length and loses no more than it   *)
(* must: kept and dropped together are the history, in its order.          *)
PrunedToLimit ==
  /\ Len(pruned.kept) = IF Len(history) <= pruned.limit THEN Len(history) ELSE pruned.limit
  /\ ToSet(pruned.kept) \cup pruned.dropped = DOMAIN history
  /\ \A k \in 1..(Len(pruned.kept) - 1) : pruned.kept[k] < pruned.kept[k + 1]

(* An instruction of the user among the newest messages is never given up  *)
(* for anything but a system message or another instruction as recent.     *)
RecentInstructionKept ==
  \A i \in pruned.dropped :
    i > Len(history) - RecencyWindow /\ "instruction" \in history[i].has
      /\ history[i].role = "user" /\ history[i].content = "text" =>
        \A j \in ToSet(pruned.kept) :
          j > Len(history) - RecencyWindow /\ Classify(history[j]) = Critical

(* Of two messages alike the newer one is kept. *)
NewerKept ==
  \A i \in pruned.dropped, j \in ToSet(pruned.kept) :
    history[i] = history[j] => i < j
=============================================================================
