----------------------------- MODULE SecretFilter -----------------------------
(***************************************************************************)
(* Secrets in messages.  detect_credentials (detector.rs) finds them in    *)
(* what a user writes; censor_secrets (main.rs) replaces the saved keys in *)
(* every reply, reading the credentials file that other handlers rewrite.  *)
(* A text is a sequence of symbols, a finding of a pattern is a record.    *)
(***************************************************************************)
EXTENDS Integers, Sequences, SequencesExt, FiniteSets

CONSTANTS
  Symbols,     \* what keys and replies are made of
  KeySets,     \* lists of keys a credentials file can hold
  MinKey,      \* shorter keys are not censored
  MaxReply,    \* the longest reply
  Found,       \* findings: the value, and the patterns that match there
  MaxFound     \* findings in a text

VARIABLES
  creds,       \* the credentials file: whole with its keys, or absent or truncated
  message,     \* the findings in a user's message
  reported,    \* what detect_credentials returned for it
  reply,       \* the reply about to be sent
  sent,        \* the censored reply
  known        \* history: the keys the censoring read, or none if truncated

filterVars == <<creds, message, reported, reply, sent, known>>

Redacted == "*"
Whole(keys) == [whole |-> TRUE, keys |-> keys]
Truncated == [whole |-> FALSE, keys |-> <<>>]

-----------------------------------------------------------------------------
(* The order of the pattern tables: providers first, then assignments. *)
Patterns == <<"anthropic", "openrouter", "openai", "grok", "groq", "gemini", "slack",
              "api_key", "token", "secret", "env">>

(* One pattern over the whole text; a value already seen is skipped. *)

ScanPattern(p, text, results) ==
  FoldLeft(LAMBDA r, f : IF p \in f.patterns /\ \A i \in 1..Len(r) : r[i].value # f.value
                         THEN Append(r, [value |-> f.value, as |-> p]) ELSE r,
           results, text)

DetectCredentials(text) ==
  FoldLeft(LAMBDA r, p : ScanPattern(p, text, r), <<>>, Patterns)

-----------------------------------------------------------------------------
OccursAt(key, text, i) ==
  i + Len(key) - 1 <= Len(text) /\ SubSeq(text, i, i + Len(key) - 1) = key

(* str::replace: from the left, occurrences that do not overlap. *)
Replace(text, key) ==
  LET from[i \in 1..Len(text) + 1] ==
        IF i > Len(text) THEN <<>>
        ELSE IF OccursAt(key, text, i) THEN <<Redacted>> \o from[i + Len(key)]
        ELSE <<text[i]>> \o from[i + 1]
  IN from[1]

(* Empty, placeholder and short keys are passed over. *)
Censored(key) == Len(key) >= MinKey

CensorSecrets(text, file) ==
  IF ~file.whole THEN text
  ELSE FoldLeft(LAMBDA t, k : IF Censored(k) THEN Replace(t, k) ELSE t, text, file.keys)

-----------------------------------------------------------------------------
TypeOK ==
  /\ creds \in {Truncated} \cup {Whole(k) : k \in KeySets}
  /\ known \in {Truncated} \cup {Whole(k) : k \in KeySets}

Init ==
  /\ creds = Truncated /\ known = Truncated
  /\ message = <<>> /\ reported = <<>> /\ reply = <<>> /\ sent = <<>>

Receive(f) ==
  /\ Len(message) < MaxFound /\ reply = <<>>
  /\ message' = Append(message, f)
  /\ reported' = DetectCredentials(message')
  /\ UNCHANGED <<creds, reply, sent, known>>

(* Another handler saves: the file is emptied and then written. *)
SaveCredentials(keys) ==
  /\ creds' = IF creds.whole THEN Truncated ELSE Whole(keys)
  /\ UNCHANGED <<message, reported, reply, sent, known>>

Compose(s) ==
  /\ Len(reply) < MaxReply /\ message = <<>>
  /\ reply' = Append(reply, s) /\ sent' = <<>> /\ known' = Truncated
  /\ UNCHANGED <<creds, message, reported>>

Send ==
  /\ sent = <<>> /\ reply # <<>>
  /\ sent' = CensorSecrets(reply, creds) /\ known' = creds
  /\ UNCHANGED <<creds, message, reported, reply>>

Next ==
  \/ \E f \in Found : Receive(f)
  \/ \E k \in KeySets : SaveCredentials(k)
  \/ \E s \in Symbols : Compose(s)
  \/ Send

Spec == Init /\ [][Next]_filterVars

-----------------------------------------------------------------------------
(* No key of the file appears in a reply that was sent, also when keys     *)
(* overlap or one contains another, unless the file was just being         *)
(* rewritten when the reply was censored.                                  *)
RepliesCensored ==
  \A i \in 1..Len(known.keys) :
    Len(known.keys[i]) >= MinKey =>
      \A j \in 1..Len(sent) : ~OccursAt(known.keys[i], sent, j)

(* Every value a pattern matches is reported once, under the first of all  *)
(* the patterns that match it anywhere in the message: a provider's key is *)
(* named for the provider although it stands in an assignment too.         *)
ReportedOnce ==
  LET index(p) == CHOOSE i \in 1..Len(Patterns) : Patterns[i] = p
      matching(v) == UNION {message[i].patterns : i \in {j \in 1..Len(message) : message[j].value = v}}
      values == {message[i].value : i \in {j \in 1..Len(message) : message[j].patterns # {}}}
  IN /\ {reported[i].value : i \in 1..Len(reported)} = values
     /\ Len(reported) = Cardinality(values)
     /\ \A i \in 1..Len(reported) : \A p \in matching(reported[i].value) :
          index(reported[i].as) <= index(p)
=============================================================================
