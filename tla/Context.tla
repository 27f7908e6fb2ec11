------------------------------ MODULE Context ------------------------------
(***************************************************************************)
(* build_context: the request for the provider, put together from a chat's *)
(* history, memory and learnings under a token budget.  The history grows  *)
(* as the tool loop and the chat's worker make it grow (see AgentLoop and  *)
(* Dispatcher); a message is reduced to its kind, its estimated tokens and *)
(* whether it has a text.                                                  *)
(***************************************************************************)
EXTENDS Integers, SequencesExt

CONSTANTS
  Sizes,       (* estimated tokens of a message                            *)
  FoundSizes,  (* tokens of what a memory search finds; 0 if nothing       *)
  Budget,      (* max_context_tokens                                       *)
  Fixed,       (* system prompt, tool definitions and overhead             *)
  MinRecent,   (* MIN_RECENT_MESSAGES (30 in the code)                     *)
  MaxRecent,   (* MAX_RECENT_MESSAGES (60)                                 *)
  MaxTurns,    (* max_turns; 0 means no limit                              *)
  KnowledgeCap,(* limit for knowledge entries (2000)                       *)
  HistCap,     (* entries a worker keeps between turns (200)               *)
  MaxSaid      (* bound: messages said in the instance                     *)

(* What a theorem about this module may assume of the constants.           *)
ContextAssumption ==
  /\ Sizes \subseteq Nat
  /\ FoundSizes \subseteq Nat
  /\ {Budget, Fixed, MinRecent, MaxRecent, MaxTurns, KnowledgeCap} \subseteq Nat
  /\ HistCap \in Nat \ {0}
  /\ MaxSaid \in Nat

VARIABLES
  history,     (* session.history                                          *)
  request,     (* the request under way, see BuildContext                  *)
  said         (* messages said so far                                     *)

vars == <<history, request, said>>

Message == [kind : {"user", "done", "reply", "call", "result"}, size : Sizes,
            text : BOOLEAN]

Least(a, b) == IF a < b THEN a ELSE b
Most(a, b) == IF a > b THEN a ELSE b
(* saturating_sub                                                          *)
Minus(a, b) == IF a > b THEN a - b ELSE 0

Tokens(h) == FoldSeq(LAMBDA m, n : m.size + n, 0, h)
Newest(h, n) == SubSeq(h, Len(h) - n + 1, Len(h))
Oldest(h, n) == SubSeq(h, 1, n)

(* What was found is used only when all of it fits.                        *)
Fitting(found, limit) == IF found <= limit THEN found ELSE 0

-----------------------------------------------------------------------------
(***************************************************************************)
(* The parts of a request                                                  *)
(***************************************************************************)
RecentCount(h) == Most(Least(Len(h), MaxRecent), Least(Len(h), MinRecent))

(* The messages before the recent ones, trimmed to max_turns exchanges.    *)
OlderHistory(h) ==
  LET end == Len(h) - RecentCount(h)
  IN IF MaxTurns > 0 /\ end > MaxTurns * 2
     THEN Newest(Oldest(h, end), MaxTurns * 2) ELSE Oldest(h, end)

(* How many of them fit, walking from the newest to the oldest.            *)
KeptCount(older, limit) ==
  CHOOSE n \in 0..Len(older) :
    /\ Tokens(Newest(older, n)) <= limit
    /\ n = Len(older) \/ Tokens(Newest(older, n + 1)) > limit

(* What is left for older messages.                                        *)
HistoryBudget(recent, memory, knowledge, learnings) ==
  Minus(Budget, Fixed + recent + memory + knowledge + learnings)

(* Knowledge entries use what the memory search left of its share.         *)
KnowledgeBudget(share, memory) == Least(Minus(share, memory), KnowledgeCap)

(* Users who spoke; the digest of the conversation needs two.              *)
UserCount(h) == Len(SelectSeq(h, LAMBDA m : m.kind = "user"))

(* extract_latest_query: the newest message that has a text.               *)
LatestQuery(h) ==
  IF \E i \in 1..Len(h) : h[i].text
  THEN LET i == CHOOSE k \in 1..Len(h) :
                  h[k].text /\ \A j \in k + 1 .. Len(h) : ~h[j].text
       IN h[i].kind
  ELSE "none"

(* build_context for history h, given the tokens of what the searches for  *)
(* memories, knowledge and learnings would find.                           *)
BuildContext(h, mem, know, learn) ==
  LET recent    == Newest(h, RecentCount(h))
      available == Minus(Budget, Fixed + Tokens(recent))
      share     == Least((Budget * 15) \div 100, available)
      query     == LatestQuery(h)
      memory    == IF query = "none" THEN 0 ELSE Fitting(mem, share)
      knowledge == Fitting(know, KnowledgeBudget(share, memory))
      learnings == IF query = "none" THEN 0
                   ELSE Fitting(learn, Least((Budget * 5) \div 100,
                                             Minus(available, memory + knowledge)))
      older     == OlderHistory(h)
      kept      == KeptCount(older, HistoryBudget(Tokens(recent), memory,
                                                  knowledge, learnings))
  IN [query     |-> query,
      summary   |-> kept < Len(older),
      digest    |-> UserCount(Newest(older, kept) \o recent) >= 2,
      memory    |-> memory,
      knowledge |-> knowledge,
      learnings |-> learnings,
      messages  |-> Newest(older, kept) \o recent]

(* No request is under way.                                                *)
NoRequest == BuildContext(<<>>, 0, 0, 0)

-----------------------------------------------------------------------------
(* A new chat.                                                             *)
Init ==
  /\ history = <<>>
  /\ request = NoRequest
  /\ said = 0

LastKind == IF history = <<>> THEN "none" ELSE history[Len(history)].kind

(* Kinds of messages that may follow one of the given kind in a turn.      *)
Follows(k) ==
  CASE k = "user"            -> {"done", "reply", "call", "user"}
    [] k \in {"done", "result"} -> {"reply", "call", "user"}
    [] k = "call"            -> {"result"}
    [] OTHER                 -> {"user"}

(* The loop appends a message; with a user's message begins a new turn, on *)
(* a history that the worker has capped after the previous one.            *)
Say(m) ==
  /\ said < MaxSaid
  /\ said' = said + 1
  /\ m.kind \in Follows(LastKind)
  /\ m.kind \in {"user", "done", "reply"} => m.text
  /\ m.kind = "result" => ~m.text
  /\ history' = IF m.kind = "user"
                THEN Append(Newest(history, Least(Len(history), HistCap)), m)
                ELSE Append(history, m)
  /\ request' = NoRequest

(* A provider call; what the searches find is up to the memory backend.    *)
Request(mem, know, learn) ==
  /\ LastKind \in {"user", "done", "result"}
  /\ request' = BuildContext(history, mem, know, learn)
  /\ UNCHANGED <<history, said>>

Next ==
  \/ \E m \in Message : Say(m)
  \/ \E mem, know, learn \in FoundSizes : Request(mem, know, learn)

Spec == Init /\ [][Next]_vars

-----------------------------------------------------------------------------
(***************************************************************************)
(* Properties.  They compare a request with the history it is made from.   *)
(***************************************************************************)
(* The request stays within max_context_tokens as long as the fixed part   *)
(* and the recent messages, which are always sent, leave any room at all.  *)
WithinBudget ==
  LET recent == Newest(history, RecentCount(history))
  IN request # NoRequest =>
     \/ Fixed + Tokens(recent) >= Budget
     \/ Fixed + Tokens(request.messages) + request.memory + request.knowledge
          + request.learnings <= Budget

(* Memories and knowledge together stay within 15% of the budget, learnings*)
(* within 5%.                                                              *)
WithinShares ==
  /\ (request.memory + request.knowledge) * 100 <= Budget * 15
  /\ request.learnings * 100 <= Budget * 5

(* A request is the newest part of the history, without a gap, with all of *)
(* the recent messages; and no older message that would still fit, or that *)
(* max_turns allows, is left out.                                          *)
NewestWithoutGap ==
  LET n == Len(request.messages)
      used == Fixed + Tokens(request.messages) + request.memory
                + request.knowledge + request.learnings
  IN request # NoRequest =>
       /\ IsSuffix(request.messages, history)
       /\ n >= Least(Len(history), MaxRecent)
       /\ \/ n = Len(history)
          \/ MaxTurns > 0 /\ n = RecentCount(history) + MaxTurns * 2
          \/ used + history[Len(history) - n].size > Budget
=============================================================================
