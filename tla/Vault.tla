-------------------------------- MODULE Vault --------------------------------
(***************************************************************************)
(* The local vault (skyclaw-vault): a key file, a file of encrypted        *)
(* secrets and the cache of it that one process holds.  Tasks of that      *)
(* process store, delete and read secrets; the process may die anywhere.   *)
(* A secret is a value and the key it was encrypted with.                  *)
(***************************************************************************)
EXTENDS Integers, FiniteSets, Functions

CONSTANTS
  Tasks,      \* callers of the vault
  Keys,       \* names of secrets
  Values,     \* their plaintexts
  MaxCalls    \* calls in a behaviour

VARIABLES
  keyFile,    \* the key file: NoKey, ShortKey, or the key in it
  file,       \* the vault file: none, torn (not JSON), or the secrets in it
  cache,      \* the secrets in memory
  process,    \* what the process does
  task,       \* per task: what it is about to do, and the snapshot it writes
  answer,     \* the answer of the last get_secret
  made,       \* calls so far
  behind      \* history: an overlap or an error has left the file behind

vaultVars == <<keyFile, file, cache, process, task, answer, made, behind>>

NoKey == 0
ShortKey == -1

NoSecrets == [k \in {} |-> <<>>]
Secrets == UNION {[K -> Values \X (1..2)] : K \in SUBSET Keys}

Fresh == [state |-> "none"]
Torn == [state |-> "torn"]
File(s) == [state |-> "whole", secrets |-> s]
Files == [state : {"whole"}, secrets : Secrets]

Idle == [at |-> "idle"]
Snap == [at |-> "snapshot"]
Flushing(s, emptied) == [at |-> "flush", json |-> s, emptied |-> emptied]
Flushes == [at : {"flush"}, json : Secrets, emptied : BOOLEAN]

TypeOK ==
  /\ keyFile \in {NoKey, ShortKey} \cup 1..2
  /\ file \in {Fresh, Torn} \cup Files
  /\ cache \in Secrets
  /\ process \in {"down", "making key", "writing key", "loading", "open", "failed"}
  /\ task \in [Tasks -> {Idle, Snap} \cup Flushes]
  /\ answer \in {"", "none", "error"} \cup Values
  /\ made \in 0..MaxCalls /\ behind \in BOOLEAN

Init ==
  /\ keyFile = NoKey /\ file = Fresh /\ cache = NoSecrets
  /\ process = "down" /\ task = [t \in Tasks |-> Idle]
  /\ answer = "" /\ made = 0 /\ behind = FALSE

-----------------------------------------------------------------------------
(* Opening: the key is made only when there is no key file at all.         *)

NeedsKey == keyFile = NoKey

WithDir ==
  /\ process = "down"
  /\ process' = IF NeedsKey THEN "making key" ELSE "loading"
  /\ UNCHANGED <<keyFile, file, cache, task, answer, made, behind>>

(* tokio::fs::write creates the file and then fills it. *)
EnsureKey ==
  \/ /\ process = "making key"
     /\ process' = "writing key" /\ keyFile' = ShortKey
     /\ UNCHANGED <<file, cache, task, answer, made, behind>>
  \/ /\ process = "writing key"
     /\ process' = "loading" /\ keyFile' \in 1..2
     /\ UNCHANGED <<file, cache, task, answer, made, behind>>

(* An absent or blank file is an empty vault; anything but JSON refuses. *)
Load ==
  /\ process = "loading"
  /\ process' = IF file = Torn THEN "failed" ELSE "open"
  /\ cache' = IF file.state = "whole" THEN file.secrets ELSE NoSecrets
  /\ UNCHANGED <<keyFile, file, task, answer, made, behind>>

-----------------------------------------------------------------------------
HasKey == keyFile \notin {NoKey, ShortKey}

May(t) == process = "open" /\ task[t] = Idle /\ made < MaxCalls

(* read_key, encrypt, and the change of the cache under its lock. *)
StoreSecret(t, k, v) ==
  /\ May(t)
  /\ made' = made + 1
  /\ IF HasKey
     THEN /\ cache' = [j \in DOMAIN cache \cup {k} |-> IF j = k THEN <<v, keyFile>> ELSE cache[j]]
          /\ task' = [task EXCEPT ![t] = Snap]
     ELSE UNCHANGED <<cache, task>>
  /\ UNCHANGED <<keyFile, file, process, answer, behind>>

(* Mutant of DeleteSecret: the file is not written. *)
DeleteSecretCached(t, k) ==
  /\ May(t)
  /\ made' = made + 1
  /\ cache' = Restrict(cache, DOMAIN cache \ {k})
  /\ UNCHANGED <<keyFile, file, process, task, answer, behind>>

(* A key that is not there is only logged: the file is written all the same. *)
DeleteSecret(t, k) ==
  /\ May(t)
  /\ made' = made + 1
  /\ cache' = Restrict(cache, DOMAIN cache \ {k})
  /\ task' = [task EXCEPT ![t] = Snap]
  /\ UNCHANGED <<keyFile, file, process, answer, behind>>

Decrypt(s) == IF HasKey /\ s[2] = keyFile THEN s[1] ELSE "error"

GetSecret(t, k) ==
  /\ May(t)
  /\ made' = made + 1
  /\ answer' = IF k \in DOMAIN cache THEN Decrypt(cache[k]) ELSE "none"
  /\ UNCHANGED <<keyFile, file, cache, process, task, behind>>

-----------------------------------------------------------------------------
(* flush: the text is made under the read lock and written without it.     *)

InFlush(t) == task[t].at = "flush"
Alone(t) == \A u \in Tasks \ {t} : ~InFlush(u)

Snapshot(t) ==
  /\ task[t].at = "snapshot"
  /\ task' = [task EXCEPT ![t] = Flushing(cache, FALSE)]
  /\ behind' = (behind \/ ~Alone(t))
  /\ UNCHANGED <<keyFile, file, cache, process, answer, made>>

(* The write empties the file first. *)
Truncate(t) ==
  /\ InFlush(t) /\ ~task[t].emptied
  /\ file' = Fresh
  /\ task' = [task EXCEPT ![t].emptied = TRUE]
  /\ UNCHANGED <<keyFile, cache, process, answer, made, behind>>

(* Writing from the start over what another flush has put there meanwhile  *)
(* leaves the rest of a longer text behind.                                *)
Overlay(old, new) ==
  IF \/ old = Torn
     \/ old.state = "whole" /\ Cardinality(DOMAIN old.secrets) > Cardinality(DOMAIN new)
  THEN Torn ELSE File(new)

Write(t) ==
  /\ InFlush(t) /\ task[t].emptied
  /\ file' = Overlay(file, task[t].json)
  /\ task' = [task EXCEPT ![t] = Idle]
  /\ behind' = (behind /\ ~(Alone(t) /\ file' = File(cache)))
  /\ UNCHANGED <<keyFile, cache, process, answer, made>>

(* An error of the write is the caller's; the cache keeps the change. *)
WriteFails(t) ==
  /\ InFlush(t)
  /\ task' = [task EXCEPT ![t] = Idle]
  /\ behind' = TRUE
  /\ UNCHANGED <<keyFile, file, cache, process, answer, made>>

Crash ==
  /\ process # "down"
  /\ process' = "down" /\ cache' = NoSecrets
  /\ task' = [t \in Tasks |-> Idle]
  /\ behind' = FALSE
  /\ UNCHANGED <<keyFile, file, answer, made>>

Next ==
  \/ WithDir \/ EnsureKey \/ Load \/ Crash
  \/ \E t \in Tasks :
       \/ \E k \in Keys : \/ \E v \in Values : StoreSecret(t, k, v)
                          \/ DeleteSecret(t, k)
                          \/ GetSecret(t, k)
       \/ Snapshot(t) \/ Truncate(t) \/ Write(t) \/ WriteFails(t)

Spec == Init /\ [][Next]_vaultVars

-----------------------------------------------------------------------------
(* Every secret in memory and on disk can be decrypted with the key on disk, *)
(* after any number of crashes, also in the making of the key: ensure_key  *)
(* never replaces a key that secrets were encrypted with, and get_secret   *)
(* answers no error.                                                       *)
SecretsReadable ==
  /\ \A k \in DOMAIN cache : cache[k][2] = keyFile
  /\ file.state = "whole" => \A k \in DOMAIN file.secrets : file.secrets[k][2] = keyFile
  /\ answer # "error"

(* At rest the file holds what the cache holds, so that a restart finds    *)
(* every acknowledged store and no deleted secret, unless flushes          *)
(* overlapped or a write failed since the last write that ran alone.       *)
VaultFileCurrent ==
  process = "open" /\ ~behind /\ (\A t \in Tasks : task[t] = Idle) =>
    cache = IF file.state = "whole" THEN file.secrets ELSE NoSecrets
-----------------------------------------------------------------------------
(***************************************************************************)
(* Proof of both promises for any tasks, keys, values and number of calls. *)
(***************************************************************************)
Contents(f) == IF f.state = "whole" THEN f.secrets ELSE NoSecrets
Readable(s) == \A k \in DOMAIN s : s[k][2] = keyFile

(* Whatever holds secrets, the text that a flush is about to write too,    *)
(* holds them under the key on disk; so there are none while there is no   *)
(* key, and making one spoils none.                                        *)
UnderKey ==
  /\ Readable(cache)
  /\ Readable(Contents(file))
  /\ \A t \in Tasks : InFlush(t) => Readable(task[t].json)
  /\ answer # "error"

(* Only an open vault has tasks, and a key is made once.                   *)
Stages ==
  /\ process # "open" => \A t \in Tasks : task[t] = Idle
  /\ process = "making key" => keyFile = NoKey
  /\ process = "writing key" => keyFile = ShortKey

(* While no overlap or error has left the file behind: one flush at most,  *)
(* which finds the file as it left it; and the last state of the cache is  *)
(* in the file, in the text of that flush, or yet to be read by a task.    *)
Following ==
  process = "open" /\ ~behind =>
    /\ \A t, u \in Tasks : InFlush(t) /\ InFlush(u) => t = u
    /\ \A t \in Tasks : InFlush(t) /\ task[t].emptied => file = Fresh
    /\ \/ \E t \in Tasks : task[t] = Snap
       \/ \E t \in Tasks : InFlush(t) /\ task[t].json = cache
       \/ (\A t \in Tasks : task[t] = Idle) /\ cache = Contents(file)

VaultInv == TypeOK /\ Stages /\ UnderKey /\ Following
=============================================================================
