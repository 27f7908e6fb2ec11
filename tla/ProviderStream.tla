--------------------------- MODULE ProviderStream ---------------------------
(***************************************************************************)
(* Streams of server-sent events from the model providers                  *)
(* (skyclaw-providers: openai_compat.rs and anthropic.rs).  The provider   *)
(* writes events, the network delivers them in pieces of any size, and the *)
(* consumer's poll takes whole events from the buffer until one makes a    *)
(* chunk.  Tool calls are gathered from fragments.  An event cut by a      *)
(* piece of the network cannot be taken yet: it counts as undelivered.     *)
(***************************************************************************)
EXTENDS Integers, Sequences, SequencesExt

CONSTANTS MaxText,      \* text deltas of an answer
          MaxCalls,     \* tool calls of an answer
          MaxParts      \* argument fragments of a call

VARIABLES dialect,      \* "openai", "anthropic", or "none" before the request
          block,        \* the provider's open content block (Anthropic)
          said,         \* text deltas written so far
          asked,        \* argument fragments written for each call
          answer,       \* "open", "finished", "done", "closed" or "cut"
          wire, buffer, \* events under way, and events delivered
          calls,        \* tool_calls / tool_blocks: [id, parts]
          out,          \* chunks handed to the consumer
          ended         \* the consumer saw the end of the stream

streamVars == <<dialect, block, said, asked, answer, wire, buffer, calls, out, ended>>

Init == /\ dialect = "none" /\ block = "none" /\ said = 0 /\ asked = <<>>
        /\ answer = "open" /\ wire = <<>> /\ buffer = <<>> /\ calls = <<>>
        /\ out = <<>> /\ ended = FALSE

Event(k, id, n) == [kind |-> k, id |-> id, n |-> n]
Ping == Event("ping", 0, 0)      \* keep-alives, role deltas, block and message starts

(* stream(): the request succeeds; a 429 or 401 is KeyRotation's. *)
Connect(d) == /\ dialect = "none" /\ dialect' = d
              /\ UNCHANGED <<block, said, asked, answer, wire, buffer, calls, out, ended>>

Writes(es) == /\ dialect # "none" /\ answer = "open" /\ wire' = wire \o es
              /\ UNCHANGED <<dialect, buffer, calls, out, ended>>

(* A text delta; Anthropic opens a text block for it. *)
WriteText ==
  /\ said < MaxText /\ said' = said + 1
  /\ \/ dialect = "openai" /\ UNCHANGED block
     \/ dialect = "anthropic" /\ block # "tool" /\ block' = "text"
  /\ Writes(<<Ping, Event("text", 0, said')>>)
  /\ UNCHANGED <<asked, answer>>

(* A call begins: id and name, no arguments yet. *)
WriteCall ==
  /\ Len(asked) < MaxCalls /\ asked' = Append(asked, 0)
  /\ dialect = "anthropic" => block = "none"
  /\ block' = IF dialect = "anthropic" THEN "tool" ELSE block
  /\ Writes(<<Event("call", Len(asked'), 0)>>)
  /\ UNCHANGED <<said, answer>>

(* A fragment of arguments: of any call of OpenAI, of the open block else. *)
WriteArgs(i) ==
  /\ asked[i] < MaxParts
  /\ dialect = "anthropic" => block = "tool" /\ i = Len(asked)
  /\ asked' = [asked EXCEPT ![i] = @ + 1]
  /\ Writes(<<Event("args", i, asked'[i])>>)
  /\ UNCHANGED <<block, said, answer>>

(* content_block_stop *)
WriteBlockStop ==
  /\ dialect = "anthropic" /\ block # "none" /\ block' = "none"
  /\ Writes(<<Event("stop", 0, 0)>>)
  /\ UNCHANGED <<said, asked, answer>>

(* finish_reason and [DONE]; message_delta and message_stop. *)
WriteFinish ==
  /\ dialect # "none" /\ answer = "open" /\ block = "none" /\ said + Len(asked) > 0
  /\ \E reason \in {"tools", "length"} :
       wire' = wire \o <<Event("finish", IF reason = "tools" THEN 1 ELSE 0, 0), Event("done", 0, 0)>>
  /\ answer' = "done"
  /\ UNCHANGED <<dialect, block, said, asked, buffer, calls, out, ended>>

(* The body ends, early or not. *)
Close == /\ dialect # "none" /\ answer \in {"open", "done"}
         /\ answer' = IF answer = "done" THEN "closed" ELSE "cut"
         /\ UNCHANGED <<dialect, block, said, asked, wire, buffer, calls, out, ended>>

(* byte_stream.next: any number of whole events arrives. *)
Deliver(n) == /\ buffer = <<>>      \* the poll asks for data when it has no whole event
              /\ buffer' = SubSeq(wire, 1, n) /\ wire' = SubSeq(wire, n + 1, Len(wire))
              /\ UNCHANGED <<dialect, block, said, asked, answer, calls, out, ended>>

Chunk(k, id, parts) == [kind |-> k, id |-> id, parts |-> parts]
CallChunk(c) == Chunk("call", c.id, c.parts)

(* flush_tool_calls: the first gathered call, if any. *)
FlushOne == /\ out' = Append(out, CallChunk(calls[1])) /\ calls' = Tail(calls)

(* Mutant of Gather: a fragment replaces the one before. *)
GatherLast(parts, n) == <<n>>
(* push_str *)
Gather(parts, n) == Append(parts, n)

(* extract_openai_sse_event on one event.  The slot of a call is its index *)
(* among the calls not yet flushed.                                        *)
ExtractOpenAI(e) ==
  \/ e.kind = "ping" /\ UNCHANGED <<calls, out>>
  \/ e.kind = "text" /\ out' = Append(out, Chunk("text", e.n, <<>>)) /\ UNCHANGED calls
  \/ /\ e.kind = "call" /\ UNCHANGED out
     /\ calls' = Append(calls, [id |-> e.id, parts |-> <<>>])
  \/ /\ e.kind = "args" /\ UNCHANGED out
     /\ calls' = [calls EXCEPT ![e.id].parts = Gather(@, e.n)]
  \/ /\ e.kind = "finish"
     /\ IF e.id = 1 /\ calls # <<>> THEN FlushOne
        ELSE out' = Append(out, Chunk("stop", 0, <<>>)) /\ UNCHANGED calls
  \/ /\ e.kind = "done"
     /\ IF calls # <<>> THEN FlushOne ELSE UNCHANGED <<calls, out>>

(* content_block_stop pops and emits; for a text block there is none. *)
AtStop(e) == IF calls # <<>>
             THEN out' = Append(out, CallChunk(Last(calls))) /\ calls' = Front(calls)
             ELSE UNCHANGED <<calls, out>>

(* extract_sse_event on one event; fragments go to the last block. *)
ExtractAnthropic(e) ==
  \/ e.kind \in {"ping", "done"} /\ UNCHANGED <<calls, out>>
  \/ e.kind = "text" /\ out' = Append(out, Chunk("text", e.n, <<>>)) /\ UNCHANGED calls
  \/ /\ e.kind = "call" /\ UNCHANGED out
     /\ calls' = Append(calls, [id |-> e.id, parts |-> <<>>])
  \/ /\ e.kind = "args" /\ UNCHANGED out
     /\ calls' = [calls EXCEPT ![Len(calls)].parts = Gather(@, e.n)]
  \/ e.kind = "stop" /\ AtStop(e)
  \/ e.kind = "finish" /\ out' = Append(out, Chunk("stop", 0, <<>>)) /\ UNCHANGED calls

Extract == /\ buffer # <<>> /\ buffer' = Tail(buffer)
           /\ IF dialect = "openai" THEN ExtractOpenAI(Head(buffer))
              ELSE ExtractAnthropic(Head(buffer))
           /\ UNCHANGED <<dialect, block, said, asked, answer, wire, ended>>

(* The byte stream is at its end: OpenAI hands out what it still holds.    *)
AtEnd == /\ answer \in {"closed", "cut"} /\ wire = <<>> /\ buffer = <<>> /\ ~ended
         /\ IF dialect = "openai" /\ calls # <<>>
            THEN FlushOne /\ UNCHANGED ended
            ELSE ended' = TRUE /\ UNCHANGED <<calls, out>>
         /\ UNCHANGED <<dialect, block, said, asked, answer, wire, buffer>>

Next == \/ \E d \in {"openai", "anthropic"} : Connect(d)
        \/ WriteText \/ WriteCall \/ WriteBlockStop \/ WriteFinish \/ Close
        \/ \E i \in DOMAIN asked : WriteArgs(i)
        \/ \E n \in 1..Len(wire) : Deliver(n)
        \/ Extract \/ AtEnd

Spec == Init /\ [][Next]_streamVars

-----------------------------------------------------------------------------
TypeOK == /\ said \in 0..MaxText /\ Len(asked) <= MaxCalls
          /\ answer \in {"open", "done", "closed", "cut"}

TextOut == SelectSeq(out, LAMBDA c : c.kind = "text")
CallsOut == SelectSeq(out, LAMBDA c : c.kind = "call")
Whole(i) == Chunk("call", i, [k \in 1..asked[i] |-> k])

(* Whatever the pieces of the network: at the end of a finished stream the *)
(* consumer has every tool call once, in order and with all its arguments, *)
(* and the text deltas in order.                                           *)
StreamComplete ==
  (ended /\ answer = "closed") =>
    /\ CallsOut = [i \in 1..Len(asked) |-> Whole(i)]
    /\ TextOut = [i \in 1..said |-> Chunk("text", i, <<>>)]

(* Before the end no call is handed out that lacks a fragment: a call on   *)
(* the consumer's side is whole, unless the body was cut (then OpenAI's    *)
(* last flush hands out what it has, and arguments that do not parse       *)
(* become an empty object).                                                *)
CallsWhole == answer # "cut" => \A i \in DOMAIN CallsOut : CallsOut[i] = Whole(CallsOut[i].id)
=============================================================================
