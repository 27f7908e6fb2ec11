----------------------------- MODULE TaskRouting -----------------------------
(***************************************************************************)
(* What a task's text and its course decide (skyclaw-agent): whether it is *)
(* compound and gets DONE criteria (done_criteria.rs), and which model     *)
(* tier serves it (model_router.rs).  A text is a sequence of words, each  *)
(* reduced to what the rules look at.                                      *)
(***************************************************************************)
EXTENDS Integers, Sequences, FiniteSets

CONSTANTS Words,        \* subset of {"verb", "word", "and", "then", "stop", "item", "hard", "done", "!fast"}
          Tools, ReadOnlyTools,
          Configs,      \* [enabled, fast, premium]: BOOLEANs, which tiers are configured
          ShortText,    \* words below which a text is never compound (20 characters)
          ShortTask,    \* words below which a task may be simple (100 characters)
          DeepHistory,  \* COMPLEX_HISTORY_THRESHOLD
          MaxWords, MaxTurns

VARIABLES config, text,   \* the configuration, the user's text
          used, calls,    \* tools used so far, number of calls
          messages        \* length of the history

routingVars == <<config, text, used, calls, messages>>

Has(w) == \E i \in DOMAIN text : text[i] = w

(* The beginnings of sentences; a stop ends one. *)
Firsts == {i \in DOMAIN text : text[i] # "stop" /\ (i = 1 \/ text[i-1] = "stop")}

(* Where the connector occurs first. *)
Joint(c) == CHOOSE i \in DOMAIN text : text[i] = c /\ \A j \in 1..(i-1) : text[j] # c

Connects(c) == /\ Has(c)
               /\ \E i \in 1..(Joint(c) - 1) : text[i] = "verb"
               /\ \E i \in (Joint(c) + 1)..Len(text) : text[i] = "verb"

IsCompoundTask ==
  /\ Len(text) >= ShortText
  /\ \/ Cardinality({i \in DOMAIN text : text[i] = "item"}) >= 2
     \/ \E c \in {"and", "then"} : Connects(c)
     \/ Cardinality({i \in Firsts : text[i] = "verb"}) >= 2

Compound == messages > DeepHistory /\ Cardinality(used) > 2

(* DONE criteria, when they were added to the history as a system message, *)
(* are not recognised there: their text holds none of the phrases that     *)
(* history_contains_done_criteria looks for.                               *)
ClassifyComplexity ==
  IF Has("hard") \/ Compound \/ Has("done") THEN "Complex"
  ELSE IF /\ Len(text) < ShortTask /\ calls <= 1
          /\ used \subseteq ReadOnlyTools /\ messages <= DeepHistory
       THEN "Simple" ELSE "Standard"

SelectTier(c) == CASE c = "Simple" -> "Fast" [] c = "Standard" -> "Primary" [] OTHER -> "Premium"

(* A tier that is not configured is served by the primary model. *)
GetModelName(tier) == IF \/ tier = "Fast" /\ ~config.fast
                         \/ tier = "Premium" /\ ~config.premium THEN "Primary" ELSE tier

Forced == text # <<>> /\ text[1] = "!fast"

Route(verification) ==
  GetModelName(IF ~config.enabled THEN "Primary"
               ELSE IF verification THEN (IF config.premium THEN "Premium" ELSE "Primary")
               ELSE IF Forced THEN "Fast"
               ELSE SelectTier(ClassifyComplexity))

Rank(model) == CASE model = "Fast" -> 1 [] model = "Primary" -> 2 [] OTHER -> 3

Init == /\ config = CHOOSE c \in Configs : TRUE
        /\ text = <<>> /\ used = {} /\ calls = 0 /\ messages = 0

(* Configuration is read once, before anything else. *)
Configure(c) == /\ text = <<>> /\ config # c /\ config' = c
                /\ UNCHANGED <<text, used, calls, messages>>

(* The user's text; complete once the task has begun. *)
Say(w) == /\ messages = 0 /\ Len(text) < MaxWords
          /\ text' = Append(text, w)
          /\ UNCHANGED <<config, used, calls, messages>>

(* A compound task starts with the message that asks for DONE criteria. *)
Begin == /\ messages = 0 /\ text # <<>>
         /\ messages' = IF IsCompoundTask THEN 2 ELSE 1
         /\ UNCHANGED <<config, text, used, calls>>

Turn(t) == /\ messages > 0 /\ calls < MaxTurns
           /\ calls' = calls + 1
           /\ used' = used \union {t}
           /\ messages' = messages + 2
           /\ UNCHANGED <<config, text>>

Next == \/ \E c \in Configs : Configure(c)
        \/ \E w \in Words : Say(w)
        \/ Begin
        \/ \E t \in Tools : Turn(t)

Spec == Init /\ [][Next]_routingVars

-----------------------------------------------------------------------------
TypeOK == config \in Configs /\ used \subseteq Tools /\ text \in Seq(Words)

(* While a task goes on, its messages and tools only growing, it is never  *)
(* moved to a weaker model, and never by a verification step either: the   *)
(* order in which classify_complexity asks its questions decides this.     *)
TierNeverDrops ==
  [][messages > 0 =>
       /\ Rank(Route(FALSE))' >= Rank(Route(FALSE))
       /\ (config.enabled /\ ~Forced) => Rank(Route(TRUE))' >= Rank(Route(FALSE))]_routingVars

(* A text that is recognised as compound stays so however it goes on: the  *)
(* rules look for the first connector of a kind and count only upwards.    *)
CompoundGrows == [][IsCompoundTask => IsCompoundTask']_routingVars

(* The inductive invariant: the types, only finitely many tools used, and  *)
(* no task without a text.                                                 *)
RoutingInv == /\ config \in [enabled : BOOLEAN, fast : BOOLEAN, premium : BOOLEAN]
              /\ text \in Seq(Words) /\ IsFiniteSet(used)
              /\ calls \in Nat /\ messages \in Nat
              /\ messages > 0 => text # <<>>
=============================================================================
