------------------------------- MODULE Replies -------------------------------
(***************************************************************************)
(* How a reply leaves the program: send_with_retry (main.rs) around        *)
(* send_message of Discord and Slack, which cuts the text into chunks      *)
(* (split_message) and posts them one by one.  A request may fail before   *)
(* or after the service took the chunk; the whole message is then sent     *)
(* again.  Texts are sequences of letters "x", spaces and newlines.        *)
(***************************************************************************)
EXTENDS Integers, Sequences, FiniteSets, SequencesExt, FiniteSetsExt

CONSTANTS MaxLen,       \* characters of one post (2000, 4000)
          Attempts,     \* attempts of send_with_retry (3)
          MaxText

VARIABLES text, rest,   \* the reply, and what split_message has left of it
          chunks,       \* the chunks made so far
          sent,         \* chunks of this attempt taken by the service
          attempt, phase,
          posted        \* everything the user sees

replyVars == <<text, rest, chunks, sent, attempt, phase, posted>>

Texts == UNION {[1..n -> {"x", "sp", "nl"}] : n \in 1..MaxText}

Init == /\ text = <<>> /\ rest = <<>> /\ chunks = <<>> /\ sent = 0
        /\ attempt = 0 /\ phase = "idle" /\ posted = <<>>

(* A text, and the client is connected (else every attempt fails at once). *)
Reply(t) ==
  /\ phase = "idle"
  /\ text' = t /\ rest' = t /\ attempt' = 1 /\ phase' = "split"
  /\ UNCHANGED <<chunks, sent, posted>>

(* rfind in the first MaxLen characters; 0 when there is none.  Counting   *)
(* from 1, the chunk ends before the character found.                      *)
LastBreak(s, k) == Max({0} \union {i \in 1..MaxLen : s[i] = k})

(* The length of the next chunk: up to the last newline, else the last     *)
(* space, else the limit.                                                  *)
SplitAt(s) == IF LastBreak(s, "nl") > 0 THEN LastBreak(s, "nl") - 1
              ELSE IF LastBreak(s, "sp") > 0 THEN LastBreak(s, "sp") - 1 ELSE MaxLen

(* trim_start_matches: newlines go, a space stays. *)
TrimNewlines(s) ==
  LET first == {i \in DOMAIN s : s[i] # "nl"}
  IN IF first = {} THEN <<>> ELSE SubSeq(s, Min(first), Len(s))

(* One round of the loop of split_message.  The round that leaves the rest *)
(* as it was will be repeated for ever.                                    *)
SplitRound ==
  /\ phase = "split"
  /\ IF rest = <<>> \/ Len(rest) <= MaxLen
     THEN /\ chunks' = IF rest = <<>> THEN chunks ELSE Append(chunks, rest)
          /\ rest' = <<>> /\ phase' = "post"
     ELSE LET n == SplitAt(rest)
              left == TrimNewlines(SubSeq(rest, n + 1, Len(rest)))
          IN /\ chunks' = Append(chunks, SubSeq(rest, 1, n))
             /\ rest' = left
             /\ phase' = IF left = rest THEN "spinning" ELSE "split"
  /\ UNCHANGED <<text, sent, attempt, posted>>

(* A chunk is posted and the answer is good. *)
Post == /\ phase = "post" /\ sent < Len(chunks)
        /\ posted' = Append(posted, chunks[sent + 1])
        /\ sent' = sent + 1
        /\ UNCHANGED <<text, rest, chunks, attempt, phase>>

AllPosted == /\ phase = "post" /\ sent = Len(chunks)
             /\ phase' = "sent"
             /\ UNCHANGED <<text, rest, chunks, sent, attempt, posted>>

(* send_message is called again with the whole message. *)
Restart == /\ chunks' = <<>> /\ rest' = text /\ sent' = 0 /\ phase' = "split"

(* The request or its answer is lost: error, and the next attempt or, at   *)
(* the third, the end.                                                     *)
PostFails ==
  /\ phase = "post" /\ sent < Len(chunks)
  /\ posted' \in {posted, Append(posted, chunks[sent + 1])}
  /\ IF attempt >= Attempts
     THEN phase' = "lost" /\ UNCHANGED <<chunks, rest, sent, attempt>>
     ELSE attempt' = attempt + 1 /\ Restart
  /\ UNCHANGED text

Next == \/ phase = "idle" /\ \E t \in Texts : Reply(t)
        \/ SplitRound \/ Post \/ AllPosted \/ PostFails

Spec == Init /\ [][Next]_replyVars

-----------------------------------------------------------------------------
TypeOK == /\ attempt \in 0..Attempts /\ sent \in 0..Len(chunks)
          /\ phase \in {"idle", "split", "spinning", "post", "sent", "lost"}

Visible(s) == SelectSeq(s, LAMBDA x : x # "nl")

(* A reply reported as sent has arrived whole: the last posts are its      *)
(* chunks in order, none longer than the service takes, and together they  *)
(* are the text but for newlines at the cuts.                              *)
ArrivesWhole ==
  phase = "sent" =>
    LET mine == SubSeq(posted, Len(posted) - Len(chunks) + 1, Len(posted))
    IN /\ Len(posted) >= Len(chunks) /\ mine = chunks
       /\ \A i \in DOMAIN chunks : Len(chunks[i]) <= MaxLen
       /\ Visible(FlattenSeq(mine)) = Visible(text)

(* Runs of letters of text t. *)
HasWord(t, n) == \E i \in DOMAIN t : /\ i + n - 1 <= Len(t)
                                     /\ \A j \in i..(i + n - 1) : t[j] = "x"

(* split_message ends, except for a word that does not fit into a post     *)
(* together with the space before it: there the rest begins with its only  *)
(* space, the chunk is empty and the loop never ends.                      *)
SplitEnds == phase = "spinning" => HasWord(text, MaxLen - 1)
=============================================================================
