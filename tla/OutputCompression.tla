-------------------------- MODULE OutputCompression --------------------------
(***************************************************************************)
(* Compression of large tool outputs (skyclaw-agent,                       *)
(* output_compression.rs).  An output is a sequence of lines, a line its   *)
(* length and its kind; a character is its width in bytes.                 *)
(***************************************************************************)
EXTENDS Integers, Sequences, SequencesExt, FiniteSetsExt

CONSTANTS Lines,       \* [len, kind] records, kind in {"plain", "error", "exit", "changed"}
          Small,       \* SMALL_OUTPUT_THRESHOLD
          MaxKeyLines, \* MAX_KEY_LINES
          TailLines, HeadLines, FileTail,  \* 20; 50 and 20 for a file
          Budgets,     \* max_chars
          Header, Mark,   \* lengths of a heading and of the truncation mark
          Widths,      \* widths of characters in bytes
          MaxOutput

VARIABLES output, compressed    \* compressed: [tool, budget, lines] or <<>>

outputVars == <<output, compressed>>

Least(a, b) == IF a < b THEN a ELSE b
Size(ls) == FoldLeft(LAMBDA n, l : n + l.len + 1, 0, ls)
Line(n, k) == [len |-> n, kind |-> k]
Newest(ls, n) == SubSeq(ls, Len(ls) - Least(n, Len(ls)) + 1, Len(ls))
OfKind(ls, ks) == SelectSeq(ls, LAMBDA l : l.kind \in ks)

ExtractKeyLines(ls) == LET k == OfKind(ls, {"error"}) IN SubSeq(k, 1, Least(MaxKeyLines, Len(k)))

Heading == <<Line(Header, "heading")>>
Section(ls) == IF ls = <<>> THEN <<>> ELSE Heading \o ls

(* The longest run of whole lines within the limit, then the mark. *)
TruncatePreservingLines(ls, max) ==
  IF Size(ls) <= max THEN ls
  ELSE LET n == Max({k \in 0..Len(ls) : Size(SubSeq(ls, 1, k)) <= max})
       IN Append(SubSeq(ls, 1, n), Line(Mark, "mark"))

Budgeted(ls, max) == IF max > 0 THEN TruncatePreservingLines(ls, max) ELSE ls

(* Exit code, key lines and last lines, each with a heading. *)
SummarizeShell(ls, max) ==
  Budgeted(Heading \o SubSeq(OfKind(ls, {"exit"}), 1, Least(1, Len(OfKind(ls, {"exit"}))))
             \o Section(ExtractKeyLines(ls)) \o Section(Newest(ls, TailLines)), max)

SummarizeLargeText(ls) ==
  IF Len(ls) <= HeadLines + FileTail THEN ls
  ELSE SubSeq(ls, 1, HeadLines) \o <<Line(Mark, "mark")>> \o Newest(ls, FileTail)

SummarizeGit(ls, max) ==
  Budgeted(Heading \o Section(OfKind(ls, {"error"})) \o Section(OfKind(ls, {"changed"})), max)

(* The other tools: bytes of the head and of the tail, cut at the borders  *)
(* of characters; s is the sequence of the characters' widths.             *)
Bytes(s) == FoldLeft(LAMBDA n, w : n + w, 0, s)
SafeTruncate(s, max) == SubSeq(s, 1, Max({k \in 0..Len(s) : Bytes(SubSeq(s, 1, k)) <= max}))
SafeTruncateTail(s, max) ==
  SubSeq(s, Min({k \in 1..(Len(s) + 1) : Bytes(SubSeq(s, k, Len(s))) <= max}), Len(s))

DefaultCompress(s, max) ==
  LET hb == (max * 2) \div 3  tb == max \div 3
  IN IF Bytes(s) <= hb + tb THEN [head |-> s, tail |-> <<>>, omitted |-> 0]
     ELSE LET h == SafeTruncate(s, hb) t == SafeTruncateTail(s, tb)
          IN [head |-> h, tail |-> t, omitted |-> Bytes(s) - Bytes(h) - Bytes(t)]

CompressToolOutput(tool, ls, max) ==
  IF Size(ls) < Small THEN ls
  ELSE CASE tool = "shell" -> SummarizeShell(ls, max)
         [] tool = "file_read" -> SummarizeLargeText(ls)
         [] tool = "git" -> SummarizeGit(ls, max)

Init == output = <<>> /\ compressed = <<>>

Emit(l) == /\ compressed = <<>> /\ Len(output) < MaxOutput
           /\ output' = Append(output, l) /\ UNCHANGED compressed

Compress(tool, max) == /\ compressed = <<>>
                       /\ compressed' = <<tool, max, CompressToolOutput(tool, output, max)>>
                       /\ UNCHANGED output

Next == \/ \E l \in Lines : Emit(l)
        \/ \E tool \in {"shell", "file_read", "git"}, max \in Budgets : Compress(tool, max)

Spec == Init /\ [][Next]_outputVars

-----------------------------------------------------------------------------
TypeOK == compressed = <<>> \/ Len(compressed) = 3

(* However large an output is, what is kept of a shell or git output       *)
(* exceeds the budget (0: none) by the truncation mark at most; the head and *)
(* tail of any other output add up with what is left out: no byte is told  *)
(* twice, also where characters of several bytes lie on the borders.       *)
CompressionBounded ==
  /\ (compressed # <<>> /\ Size(output) >= Small /\ compressed[1] # "file_read" /\ compressed[2] > 0)
       => Size(compressed[3]) <= compressed[2] + Mark + 1
  /\ compressed = <<>> => \A max \in Budgets :
       LET chars == [i \in DOMAIN output |-> IF output[i].kind = "error" THEN Max(Widths) ELSE Min(Widths)]
           c == DefaultCompress(chars, max)
       IN /\ c.omitted >= 0
          /\ c.omitted > 0 => Bytes(c.head) + Bytes(c.tail) <= max

(* Of a shell output the first errors are never cut while ordinary lines   *)
(* of its tail are kept.                                                   *)
ErrorsBeforeTail ==
  (compressed # <<>> /\ compressed[1] = "shell" /\ Size(output) >= Small
     /\ \E i \in DOMAIN compressed[3] : compressed[3][i].kind = "plain")
  => LET errs == Len(ExtractKeyLines(output))
     IN Len(OfKind(compressed[3], {"error"})) >= errs
=============================================================================
