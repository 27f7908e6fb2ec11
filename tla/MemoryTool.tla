----------------------------- MODULE MemoryTool -----------------------------
(***************************************************************************)
(* The memory_manage tool (skyclaw-tools) over the two memory backends     *)
(* (skyclaw-memory): SQLite replaces a row in one statement, Markdown      *)
(* reads a file, changes the text and writes it back, and finds the first  *)
(* entry of an id.  Tools of several chats run at a time.  One file stands *)
(* for the daily files: an entry is in one of them.                        *)
(***************************************************************************)
EXTENDS Integers, Sequences

CONSTANTS Tasks,
          Scopes,       \* "global", "user" and "chat", in the order of the fallback
          Names,        \* keys as the model writes them
          MaxOps

VARIABLES backend,      \* "none" before create_memory_backend
          entries,      \* place |-> row or section [id, content]; a newer one has a greater place
          tool,         \* task |-> the operation it is in
          expected,     \* id |-> content of the last reported change, 0 for none (history)
          spoiled,      \* ids with overlapping operations or a failed call (history)
          ops

memoryVars == <<backend, entries, tool, expected, spoiled, ops>>

(* build_key *)
Ids == {Scopes[k] : k \in DOMAIN Scopes} \X Names
Resting == [at |-> "rest"]

Init == /\ backend = "none" /\ entries = <<>> /\ tool = [t \in Tasks |-> Resting]
        /\ expected = [i \in Ids |-> 0] /\ spoiled = {} /\ ops = 0

CreateBackend(b) == /\ backend = "none" /\ backend' = b
                    /\ UNCHANGED <<entries, tool, expected, spoiled, ops>>

(* get: SQLite's row, Markdown's first section; 0 when there is none. *)
Found(rows, i) == LET hits == {k \in DOMAIN rows : rows[k].id = i}
                  IN IF hits = {} THEN 0 ELSE rows[CHOOSE k \in hits : \A m \in hits : k <= m].content
Get(i) == Found(entries, i)

Without(i) == [k \in {m \in DOMAIN entries : entries[m].id # i} |-> entries[k]]

(* A row or section behind all the others. *)
Appended(rows, e) ==
  LET last == CHOOSE n \in DOMAIN rows \union {0} : \A m \in DOMAIN rows : m <= n
  IN [k \in DOMAIN rows \union {last + 1} |-> IF k = last + 1 THEN e ELSE rows[k]]

(* The entries after store: INSERT OR REPLACE, or an appended section. *)
Stored(i, c) == Appended(IF backend = "sqlite" THEN Without(i) ELSE entries, [id |-> i, content |-> c])

(* execute: one of the three actions that write. *)
Execute(t, op, i) ==
  LET busy == {u \in Tasks \ {t} : tool[u] # Resting}
      meets == IF backend = "markdown" /\ busy # {} THEN Ids
               ELSE {tool[u].id : u \in busy} \intersect {i}
  IN /\ backend # "none" /\ tool[t] = Resting /\ ops < MaxOps /\ ops' = ops + 1
     /\ tool' = [tool EXCEPT ![t] = [at |-> "get", op |-> op, id |-> i, value |-> ops', text |-> <<>>]]
     /\ spoiled' = spoiled \union meets
     /\ UNCHANGED <<backend, entries, expected>>

Goto(t, step) == tool' = [tool EXCEPT ![t].at = step]
Rest(t) == tool' = [tool EXCEPT ![t] = Resting]

(* What each handler does with the answer of get. *)
StepAfterGet(op, found) == CASE op = "remember" -> IF found THEN "rest" ELSE "store"
                             [] op = "forget"   -> IF found THEN "delete" ELSE "rest"
                             [] op = "update"   -> IF found THEN "delete" ELSE "rest"

Look(t) ==
  LET step == StepAfterGet(tool[t].op, Get(tool[t].id) # 0)
  IN /\ tool[t].at = "get"
     /\ IF step = "rest" THEN Rest(t) ELSE Goto(t, step)
     /\ UNCHANGED <<backend, entries, expected, spoiled, ops>>

(* get fails: remember and forget go on, update returns the error. *)
LookFails(t) ==
  /\ tool[t].at = "get" /\ spoiled' = spoiled \union {tool[t].id}
  /\ \/ tool[t].op = "remember" /\ Goto(t, "store")
     \/ tool[t].op = "forget" /\ Goto(t, "delete")
     \/ tool[t].op = "update" /\ Rest(t)
  /\ UNCHANGED <<backend, entries, expected, ops>>

(* delete and store of SQLite; Markdown first reads the file. *)
Change(t) ==
  LET new == IF tool[t].at = "delete" THEN Without(tool[t].id) ELSE Stored(tool[t].id, tool[t].value)
  IN /\ tool[t].at \in {"delete", "store"}
     /\ tool' = [tool EXCEPT ![t].at = IF @ = "delete" THEN "deleting" ELSE "storing", ![t].text = new]
     /\ UNCHANGED <<backend, entries, expected, spoiled, ops>>

(* The change takes effect.  Markdown writes what it made of the text it   *)
(* read; SQLite applies the statement to the rows as they are.  After an   *)
(* update's delete comes its store, else success is reported.              *)
Applied(t) ==
  LET i == tool[t].id
      new == IF backend = "markdown" THEN tool[t].text
             ELSE IF tool[t].at = "deleting" THEN Without(i) ELSE Stored(i, tool[t].value)
  IN /\ tool[t].at \in {"deleting", "storing"}
     /\ entries' = new
     /\ IF tool[t].at = "deleting" /\ tool[t].op = "update"
        THEN Goto(t, "store") /\ UNCHANGED expected
        ELSE /\ Rest(t)
             /\ expected' = [expected EXCEPT ![i] = IF tool[t].op = "forget" THEN 0 ELSE tool[t].value]
     /\ UNCHANGED <<backend, spoiled, ops>>

(* The statement or the file access fails; the error is reported.  After   *)
(* an update's delete the entry is gone.                                   *)
ChangeFails(t) ==
  /\ tool[t].at \in {"deleting", "storing"}
  /\ spoiled' = spoiled \union {tool[t].id} /\ Rest(t)
  /\ UNCHANGED <<backend, entries, expected, ops>>

Next == \/ \E b \in {"sqlite", "markdown"} : CreateBackend(b)
        \/ \E t \in Tasks :
             \/ Look(t) \/ LookFails(t) \/ Change(t) \/ Applied(t) \/ ChangeFails(t)
             \/ \E op \in {"remember", "update", "forget"}, i \in Ids : Execute(t, op, i)

Spec == Init /\ [][Next]_memoryVars

-----------------------------------------------------------------------------
(* handle_recall by key: the scope asked for, then the others in order. *)

RecallOrder(scope, k) == IF Scopes[k] = scope THEN 0 ELSE k

Recall(scope, name) ==
  LET hits == {k \in DOMAIN Scopes : Get(<<Scopes[k], name>>) # 0}
      first == CHOOSE k \in hits : \A m \in hits : RecallOrder(scope, k) <= RecallOrder(scope, m)
  IN IF hits = {} THEN 0 ELSE Get(<<Scopes[first], name>>)

TypeOK == /\ backend \in {"none", "sqlite", "markdown"} /\ ops \in 0..MaxOps
          /\ spoiled \subseteq Ids /\ \A k \in DOMAIN entries : entries[k].id \in Ids

(* Knowledge is what the agent was told it is: for a key that no two       *)
(* operations touched at a time and no call failed on, the backend holds   *)
(* what the last reported change left, whichever backend it is.  With      *)
(* overlaps Markdown loses entries of other keys as well.                  *)
KnowledgeAsReported ==
  \A i \in Ids \ spoiled :
    (\A t \in Tasks : tool[t] = Resting \/ tool[t].id # i) => Get(i) = expected[i]

(* A recall by key gives the entry of the scope asked for when there is    *)
(* one, even if another scope has the same key.                            *)
RecallPrefersScope ==
  \A i \in Ids \ spoiled :
    (expected[i] # 0 /\ \A t \in Tasks : tool[t] = Resting) => Recall(i[1], i[2]) = expected[i]

-----------------------------------------------------------------------------
(* What holds between any two steps.                                       *)
Rows(rows) ==
  /\ DOMAIN rows \subseteq Nat \ {0} /\ rows = [k \in DOMAIN rows |-> rows[k]]
  /\ \A k \in DOMAIN rows : rows[k] \in [id : Ids, content : Nat \ {0}]
  /\ \E n \in DOMAIN rows \union {0} : \A m \in DOMAIN rows : m <= n

Operation(u) ==
  /\ u = [at |-> u.at, op |-> u.op, id |-> u.id, value |-> u.value, text |-> u.text]
  /\ u.at \in {"get", "delete", "deleting", "store", "storing"}
  /\ u.op \in {"remember", "update", "forget"} /\ u.id \in Ids /\ u.value \in Nat \ {0} /\ Rows(u.text)
  /\ u.at \in {"delete", "deleting"} => u.op # "remember"
  /\ u.at \in {"store", "storing"} => u.op # "forget"

MemoryTypes ==
  /\ backend \in {"none", "sqlite", "markdown"} /\ ops \in 0..MaxOps /\ spoiled \subseteq Ids
  /\ Rows(entries) /\ expected \in [Ids -> Nat]
  /\ tool = [t \in Tasks |-> tool[t]] /\ \A t \in Tasks : tool[t] = Resting \/ Operation(tool[t])
  /\ backend = "none" => \A t \in Tasks : tool[t] = Resting

(* Operations that overlap are known to: on one key, or on the one file.   *)
OverlapsKnown ==
  \A t, u \in Tasks : (t # u /\ tool[t] # Resting /\ tool[u] # Resting) =>
    /\ tool[t].id = tool[u].id => tool[t].id \in spoiled
    /\ backend = "markdown" => spoiled = Ids

(* The text to be written is what becomes of the entries as they are.      *)
TextCurrent ==
  \A t \in Tasks : (backend = "markdown" /\ spoiled # Ids) =>
    /\ tool[t].at = "deleting" => tool[t].text = Without(tool[t].id)
    /\ tool[t].at = "storing" => tool[t].text = Stored(tool[t].id, tool[t].value)

(* Nothing is stored where an entry is.                                    *)
StoresInGap ==
  \A t \in Tasks : (tool[t] # Resting /\ tool[t].id \notin spoiled) =>
    /\ tool[t].at \in {"store", "storing"} => Get(tool[t].id) = 0
    /\ tool[t].at = "get" => Get(tool[t].id) = expected[tool[t].id]

MemoryInv == MemoryTypes /\ OverlapsKnown /\ TextCurrent /\ StoresInGap /\ KnowledgeAsReported
=============================================================================
