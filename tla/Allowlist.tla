------------------------------ MODULE Allowlist ------------------------------
(***************************************************************************)
(* Who may talk to the bot (skyclaw-channels: discord.rs, telegram.rs and  *)
(* slack.rs).  The list and the admin live in memory behind locks and on   *)
(* disk in ~/.skyclaw/*allowlist.toml; the first user ever to write becomes*)
(* the admin.  Handlers of different messages run concurrently; each lock  *)
(* is held for one step only, and a file is written by truncating it first.*)
(* Slack has one polling task and no commands: it is the instance with one *)
(* handler and plain texts.                                                *)
(***************************************************************************)
EXTENDS Integers, Sequences, FiniteSets, Functions

CONSTANTS Users, Handlers,
          Config,         \* allowlist of the configuration file
          MaxMessages, MaxCrashes

VARIABLES list, admin,    \* the two locked values
          stored,         \* the file: NoFile, Torn or [admin, users]
          handler,        \* handler |-> the message it is in
          lastSave,       \* how the last save ended (history)
          arrived, crashes

allowVars == <<list, admin, stored, handler, lastSave, arrived, crashes>>

Texts == {<<"say">>} \union ({"allow", "revoke"} \X Users)
Free == [at |-> "free"]
Persisting == {"snap", "truncate", "write"}

(* load_allowlist_file: what does not parse counts as no file. *)
NoFile == [admin |-> "no file", users |-> <<>>]
Torn == [admin |-> "torn", users |-> <<>>]
Loads == stored \notin {NoFile, Torn}

(* DiscordChannel::new and its twins: the file, else the configured list,  *)
(* whose first entry is the admin, else nobody.                            *)
LoadedList == IF Loads THEN stored.users ELSE Config
LoadedAdmin == IF Loads THEN stored.admin
               ELSE IF Config # <<>> THEN Config[1] ELSE "nobody"

Init == /\ stored = NoFile /\ list = Config
        /\ admin = IF Config # <<>> THEN Config[1] ELSE "nobody"
        /\ handler = [h \in Handlers |-> Free]
        /\ lastSave = "fresh" /\ arrived = 0 /\ crashes = 0

(* A message that passed the filters on bots, guilds and mentions. *)
Arrive(h, u, t) ==
  /\ handler[h] = Free /\ arrived < MaxMessages
  /\ arrived' = arrived + 1
  /\ handler' = [handler EXCEPT ![h] = [at |-> "first", user |-> u, text |-> t]]
  /\ UNCHANGED <<list, admin, stored, lastSave, crashes>>

Goto(h, step) == handler' = [handler EXCEPT ![h].at = step]
Done(h) == handler' = [handler EXCEPT ![h] = Free]

(* Auto-whitelist: the write lock covers the test and the push, and the    *)
(* admin is set before the list is released.                               *)
FirstUser(h) ==
  /\ handler[h].at = "first"
  /\ IF list = <<>>
     THEN /\ list' = <<handler[h].user>> /\ admin' = handler[h].user
          /\ handler' = [handler EXCEPT ![h] = [at |-> "snap", then |-> [@ EXCEPT !.at = "check"]]]
     ELSE Goto(h, "check") /\ UNCHANGED <<list, admin>>
  /\ UNCHANGED <<stored, lastSave, arrived, crashes>>

(* The access check; what passes is forwarded or taken as a command. *)
Check(h) ==
  /\ handler[h].at = "check"
  /\ IF handler[h].user \in Range(list)
     THEN Goto(h, IF handler[h].text[1] = "say" THEN "forward" ELSE "command")
     ELSE Done(h)
  /\ UNCHANGED <<list, admin, stored, lastSave, arrived, crashes>>

(* tx.send: the message goes to the gateway. *)
Forward(h) == /\ handler[h].at = "forward" /\ Done(h)
              /\ UNCHANGED <<list, admin, stored, lastSave, arrived, crashes>>

Revocable(u, x) == x # u

(* s with every x taken out (retain).                                      *)
Without(s, x) ==
  LET kept == {i \in DOMAIN s : s[i] # x}
      rank(i) == Cardinality({j \in kept : j <= i})
  IN [n \in 1..Cardinality(kept) |-> s[CHOOSE i \in kept : rank(i) = n]]

(* The list after /allow or /revoke by its admin; the same list when the   *)
(* command has nothing to do.                                              *)
After(u, t) == IF t[1] = "allow"
               THEN IF t[2] \in Range(list) THEN list ELSE Append(list, t[2])
               ELSE IF Revocable(u, t[2]) THEN Without(list, t[2]) ELSE list

Changed(new) == new # list

Command(h) ==
  LET u == handler[h].user
      new == After(u, handler[h].text)
  IN /\ handler[h].at = "command"
     /\ IF admin = u /\ new # list
        THEN /\ list' = new
             /\ IF Changed(new)
                THEN handler' = [handler EXCEPT ![h] = [at |-> "snap", then |-> Free]]
                ELSE Done(h)
        ELSE Done(h) /\ UNCHANGED list
     /\ UNCHANGED <<admin, stored, lastSave, arrived, crashes>>

(* persist_allowlist reads both values; the admin does not change while    *)
(* the list has a member.                                                  *)
Snapshot(h) ==
  /\ handler[h].at = "snap"
  /\ handler' = [handler EXCEPT ![h] =
        [at |-> "truncate", then |-> @.then, snap |-> [admin |-> admin, users |-> list]]]
  /\ UNCHANGED <<list, admin, stored, lastSave, arrived, crashes>>

AfterSave(h) == handler' = [handler EXCEPT ![h] = @.then]

(* std::fs::write opens with truncation, or fails and leaves the file. *)
Truncate(h) ==
  /\ handler[h].at = "truncate"
  /\ \/ stored' = Torn /\ Goto(h, "write") /\ UNCHANGED lastSave
     \/ AfterSave(h) /\ lastSave' = "failed" /\ UNCHANGED stored
  /\ UNCHANGED <<list, admin, arrived, crashes>>

Write(h) ==
  /\ handler[h].at = "write"
  /\ stored' = handler[h].snap
  /\ lastSave' = IF handler[h].snap.users = list THEN "fresh" ELSE "stale"
  /\ AfterSave(h)
  /\ UNCHANGED <<list, admin, arrived, crashes>>

(* The process dies and is started again. *)
Crash ==
  /\ crashes < MaxCrashes /\ crashes' = crashes + 1
  /\ list' = LoadedList /\ admin' = LoadedAdmin
  /\ handler' = [h \in Handlers |-> Free]
  /\ lastSave' = "fresh"
  /\ UNCHANGED <<stored, arrived>>

Next == \/ \E h \in Handlers :
             \/ FirstUser(h) \/ Check(h) \/ Forward(h) \/ Command(h)
             \/ Snapshot(h) \/ Truncate(h) \/ Write(h)
             \/ \E u \in Users, t \in Texts : Arrive(h, u, t)
        \/ Crash

Spec == Init /\ [][Next]_allowVars

-----------------------------------------------------------------------------
TypeOK == /\ admin \in Users \union {"nobody"} /\ Range(list) \subseteq Users
          /\ lastSave \in {"fresh", "stale", "failed"}

(* The owner of the bot keeps it: whoever is the admin is on the list, so  *)
(* the list never becomes empty again for the next writer to take over,    *)
(* and a file that loads names the same admin and lists him.  (A crash     *)
(* before the first save, or in the middle of a write, does lose him.)     *)
OwnerKept ==
  /\ (admin = "nobody") = (list = <<>>)
  /\ admin # "nobody" => admin \in Range(list)
  /\ Loads => stored.admin = admin /\ admin \in Range(stored.users)

(* Every change reaches the disk: when no handler is saving and the last   *)
(* save did not fail or write an overtaken snapshot, a restart would read  *)
(* the list as it is.  An overtaken snapshot brings a revoked user back.   *)
FileFollowsList ==
  (Loads /\ lastSave = "fresh" /\ \A h \in Handlers : handler[h].at \notin Persisting)
    => stored.users = list

-----------------------------------------------------------------------------
(* What holds between any two steps: the shape of the file and of every    *)
(* handler, and that whoever is saving, or has a snapshot to write, has a  *)
(* list with the admin in it.                                              *)
Saved == [admin : Users, users : Seq(Users)]
InCheck == [at : {"first", "check", "forward", "command"}, user : Users, text : Texts]
ToSnap == [at : {"snap"}, then : {Free} \union InCheck]
ToWrite == [at : {"truncate", "write"}, then : {Free} \union InCheck, snap : Saved]

AllowTypes == /\ list \in Seq(Users) /\ admin \in Users \union {"nobody"}
              /\ stored \in {NoFile, Torn} \union Saved
              /\ lastSave \in {"fresh", "stale", "failed"}
              /\ handler \in [Handlers -> {Free} \union InCheck \union ToSnap \union ToWrite]

Named(s) == s.admin = admin /\ admin \in Range(s.users)

SnapshotsNamed == \A h \in Handlers :
  /\ handler[h].at \in Persisting => list # <<>>
  /\ handler[h].at \in {"truncate", "write"} => Named(handler[h].snap)

AllowInv == AllowTypes /\ OwnerKept /\ SnapshotsNamed /\ FileFollowsList
=============================================================================
