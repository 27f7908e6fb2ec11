------------------------------ MODULE Streaming ------------------------------
(***************************************************************************)
(* StreamBuffer and StreamingNotifier (skyclaw-agent, streaming.rs).  A    *)
(* token is a sequence of "l" (letters) and "b" (a blank or a punctuation  *)
(* mark, which ends a word).  Time since the last flush is saturated at    *)
(* the flush interval.                                                     *)
(***************************************************************************)
EXTENDS Integers, Sequences, FiniteSets, SequencesExt

CONSTANTS Tokens,     \* tokens of the provider
          Interval,   \* min_flush_interval, in ticks
          Unbroken,   \* length above which a single word is flushed (500)
          MaxPushed   \* bound on the characters pushed

VARIABLES buffer, since,   \* the buffer; ticks since the last flush
          pushed,          \* all characters pushed (history)
          sent,            \* texts handed out: [text, how, waited]
          status           \* notifications: "delivered" or "dropped"

streamVars == <<buffer, since, pushed, sent, status>>

Init == buffer = <<>> /\ since = 0 /\ pushed = <<>> /\ sent = <<>> /\ status = "none"

Push(token) ==
  /\ Len(pushed) + Len(token) <= MaxPushed
  /\ buffer' = buffer \o token
  /\ pushed' = pushed \o token
  /\ UNCHANGED <<since, sent, status>>

Tick == /\ since < Interval
        /\ since' = since + 1
        /\ UNCHANGED <<buffer, pushed, sent, status>>

(* find_last_word_boundary: the position after the last break, or 0. *)
LastBoundary(text) == LET B == {i \in DOMAIN text : text[i] = "b"}
                      IN  IF B = {} THEN 0 ELSE CHOOSE i \in B : \A j \in B : j <= i

(* Hand out the first n characters and restart the clock. *)
Emit(n, how) ==
  /\ sent' = Append(sent, [text |-> SubSeq(buffer, 1, n), how |-> how, waited |-> since])
  /\ buffer' = SubSeq(buffer, n + 1, Len(buffer))
  /\ since' = 0

FlushEnd == IF LastBoundary(buffer) # 0 THEN LastBoundary(buffer)
            ELSE IF Len(buffer) > Unbroken THEN Len(buffer) ELSE 0

TryFlush == /\ buffer # <<>> /\ since >= Interval /\ FlushEnd # 0
            /\ Emit(FlushEnd, "try")
            /\ UNCHANGED <<pushed, status>>

FlushAll == /\ buffer # <<>>
            /\ Emit(Len(buffer), "all")
            /\ UNCHANGED <<pushed, status>>

(* notify_tool_start, notify_tool_complete, notify_status: nothing without *)
(* a channel or when switched off, and a failed send is swallowed.         *)
Notify(enabled, channel) ==
  /\ status' = IF ~enabled THEN "none" ELSE IF channel = "up" THEN "delivered" ELSE "dropped"
  /\ UNCHANGED <<buffer, since, pushed, sent>>

Next == \/ \E t \in Tokens : Push(t)
        \/ Tick \/ TryFlush \/ FlushAll
        \/ \E e \in BOOLEAN, c \in {"up", "down", "none"} : Notify(e, c)

Spec == Init /\ [][Next]_streamVars

-----------------------------------------------------------------------------
TypeOK == pushed \in Seq({"l", "b"}) /\ since \in 0..Interval

(* What was handed out, followed by the buffer, is what was pushed: no     *)
(* flush loses, repeats or moves a character.                              *)
NothingLostInStream ==
  FoldLeft(LAMBDA acc, f : acc \o f.text, <<>>, sent) \o buffer = pushed

(* A timed flush waits for the interval and ends at the end of a word,     *)
(* unless the word alone is longer than the limit.                         *)
FlushesAtWords ==
  \A i \in DOMAIN sent : sent[i].how = "try" =>
    /\ sent[i].waited >= Interval
    /\ \/ Last(sent[i].text) = "b"
       \/ Len(sent[i].text) > Unbroken /\ LastBoundary(sent[i].text) = 0
=============================================================================
