---------------------------- MODULE SqliteMemory ----------------------------
(***************************************************************************)
(* The SQLite backend (skyclaw-memory, sqlite.rs).  A call takes a         *)
(* connection of the pool and sends one statement to it; a store that      *)
(* meets a locked database waits and sends it again.  A timeout stands     *)
(* around the whole call.  It drops the call, not the statement: what the  *)
(* connection's thread has begun it still ends.                            *)
(***************************************************************************)
EXTENDS Integers, FiniteSets, TLAPS

CONSTANTS Tasks,
          Ids,
          Connections,  \* max_connections of the pool
          MaxRetries,
          MaxCalls

VARIABLES rows,         \* id |-> content, 0 when there is no row
          task,         \* task |-> the call it is in
          conn,         \* connection |-> the statement it was given
          result,       \* task |-> what its last call returned
          made          \* calls so far, the content of the next store

sqliteVars == <<rows, task, conn, result, made>>

Idle == [at |-> "idle"]
Free == [by |-> "none"]

Init == /\ rows = [i \in Ids |-> 0] /\ made = 0
        /\ task = [t \in Tasks |-> Idle] /\ conn = [c \in Connections |-> Free]
        /\ result = [t \in Tasks |-> [kind |-> "none"]]

(* The call of t whose statement connection c has, if it still waits. *)
Waits(t, c) == task[t].at = "sent" /\ conn[c] # Free /\ conn[c].by = t /\ conn[c].call = task[t].call
Abandoned(c) == conn[c] # Free /\ \A t \in Tasks : ~Waits(t, c)

Return(t, r) == /\ task' = [task EXCEPT ![t] = Idle] /\ result' = [result EXCEPT ![t] = r]

(* store, delete, get; search stands for the queries over several rows. *)
Begin(t, op, i) ==
  /\ task[t] = Idle /\ made < MaxCalls /\ made' = made + 1
  /\ task' = [task EXCEPT ![t] = [at |-> "acquire", op |-> op, id |-> i, call |-> made', attempt |-> 1]]
  /\ UNCHANGED <<rows, conn, result>>

(* execute or fetch: a free connection, any one, gets the statement. *)
Send(t) ==
  LET free == {c \in Connections : conn[c] = Free}
      c == CHOOSE c \in free : TRUE
  IN /\ task[t].at = "acquire" /\ free # {}
     /\ conn' = [conn EXCEPT ![c] = [by |-> t, call |-> task[t].call, op |-> task[t].op,
                                     id |-> task[t].id, answer |-> [kind |-> "none"]]]
     /\ task' = [task EXCEPT ![t].at = "sent"]
     /\ UNCHANGED <<rows, result, made>>

Running(c) == conn[c] # Free /\ conn[c].answer.kind = "none"

(* The rows a query gives back; a change gives none. *)
Found(s) == CASE s.op = "get"    -> {<<i, rows[i]>> : i \in {j \in {s.id} : rows[j] # 0}}
              [] s.op = "search" -> {<<i, rows[i]>> : i \in {j \in Ids : rows[j] # 0}}
              [] OTHER -> {}

(* The statement is executed: one row replaced, removed, or rows read. *)
Run(c) ==
  LET s == conn[c]
  IN /\ Running(c)
     /\ rows' = CASE s.op = "store" -> [rows EXCEPT ![s.id] = s.call]
                  [] s.op = "delete" -> [rows EXCEPT ![s.id] = 0]
                  [] OTHER -> rows
     /\ conn' = [conn EXCEPT ![c].answer = [kind |-> "ok", saw |-> Found(s)]]
     /\ UNCHANGED <<task, result, made>>

(* The database is locked by another connection or process, or the         *)
(* statement fails for another reason; the rows stay.                      *)
Refuse(c, why) ==
  /\ Running(c) /\ conn' = [conn EXCEPT ![c].answer = [kind |-> why]]
  /\ UNCHANGED <<rows, task, result, made>>

(* Only a store meets the answer "busy" with another attempt. *)
Retries(t, why) == why = "busy" /\ task[t].op = "store" /\ task[t].attempt < MaxRetries

Answered(t, c) ==
  LET why == conn[c].answer.kind
  IN /\ Waits(t, c) /\ why # "none" /\ conn' = [conn EXCEPT ![c] = Free]
     /\ IF why = "ok" THEN Return(t, conn[c].answer)
        ELSE IF Retries(t, why)
        THEN task' = [task EXCEPT ![t].at = "backoff"] /\ UNCHANGED result
        ELSE Return(t, [kind |-> "err"])
     /\ UNCHANGED <<rows, made>>

(* RETRY_DELAY is over. *)
Again(t) ==
  /\ task[t].at = "backoff"
  /\ task' = [task EXCEPT ![t].at = "acquire", ![t].attempt = @ + 1]
  /\ UNCHANGED <<rows, conn, result, made>>

(* Mutant of TimeOut: the timeout is around one attempt and is retried. *)
TimeOutRetried(t) ==
  /\ task[t] # Idle
  /\ IF task[t].op = "store" /\ task[t].attempt < MaxRetries
     THEN /\ task' = [task EXCEPT ![t].at = "acquire", ![t].attempt = @ + 1, ![t].call = @]
          /\ UNCHANGED result
     ELSE Return(t, [kind |-> "err"])
  /\ UNCHANGED <<rows, conn, made>>

(* DB_TIMEOUT is over. *)
TimeOut(t) == task[t] # Idle /\ Return(t, [kind |-> "err"]) /\ UNCHANGED <<rows, conn, made>>

(* A connection whose call was dropped goes back to the pool when its      *)
(* statement has ended.                                                    *)
GiveBack(c) ==
  /\ Abandoned(c) /\ conn[c].answer.kind # "none" /\ conn' = [conn EXCEPT ![c] = Free]
  /\ UNCHANGED <<rows, task, result, made>>

Next == \/ \E t \in Tasks :
             \/ Send(t) \/ Again(t) \/ TimeOut(t)
             \/ \E c \in Connections : Answered(t, c)
             \/ \E op \in {"store", "delete", "get", "search"}, i \in Ids : Begin(t, op, i)
        \/ \E c \in Connections : Run(c) \/ GiveBack(c) \/ \E why \in {"busy", "error"} : Refuse(c, why)

Spec == Init /\ [][Next]_sqliteVars

-----------------------------------------------------------------------------
(* The call as the trait's user sees it: it has had its effect once its    *)
(* statement was executed.                                                 *)
CallOf(t) ==
  LET ran == {c \in Connections : Waits(t, c) /\ conn[c].answer.kind = "ok"}
      c == CHOOSE c \in ran : TRUE
  IN IF task[t] = Idle THEN [op |-> "idle"]
     ELSE [op |-> task[t].op, id |-> task[t].id, value |-> task[t].call,
           done |-> ran # {}, saw |-> IF ran = {} THEN {} ELSE conn[c].answer.saw]

(* Statements nobody waits for and that are not yet executed. *)
Stray == {[op |-> conn[c].op, id |-> conn[c].id, value |-> conn[c].call] :
            c \in {d \in Connections : Abandoned(d) /\ Running(d) /\ conn[d].op \in {"store", "delete"}}}

Store == INSTANCE MemoryStore WITH
           Values <- 1..MaxCalls, entry <- rows, call <- [t \in Tasks |-> CallOf(t)],
           returned <- result, stray <- Stray

TypeOK == /\ made \in 0..MaxCalls /\ \A i \in Ids : rows[i] \in 0..MaxCalls
          /\ \A t \in Tasks : task[t].at \in {"idle", "acquire", "sent", "backoff"}
          /\ \A t \in Tasks : task[t] # Idle => task[t].attempt \in 1..MaxRetries

(* The backend keeps the promise of the Memory trait: with several tasks,  *)
(* a locked database, retries of store and calls that time out, every      *)
(* change has its effect once and before its Ok, and what a dropped call   *)
(* still does is done at most once.                                        *)
ImplementsStore == Store!Spec
-----------------------------------------------------------------------------
(***************************************************************************)
(* Proof that the backend keeps the promise, for any tasks, rows and       *)
(* connections and any number of retries.                                  *)
(***************************************************************************)
Ops == {"store", "delete", "get", "search"}
Busy == [at : {"acquire", "sent", "backoff"}, op : Ops, id : Ids, call : 1..MaxCalls,
         attempt : Nat]
Answers == [kind : {"none", "busy", "error"}]
             \union [kind : {"ok"}, saw : SUBSET (Ids \X (0..MaxCalls))]
Statements == [by : Tasks, call : 1..MaxCalls, op : Ops, id : Ids, answer : Answers]

Types ==
  /\ made \in 0..MaxCalls
  /\ rows \in [Ids -> 0..MaxCalls]
  /\ task \in [Tasks -> {Idle} \union Busy]
  /\ conn \in [Connections -> {Free} \union Statements]
  /\ result \in [Tasks -> {[kind |-> "err"]} \union Answers]

(* The number of a call belongs to one task and at most one statement: the *)
(* one that task waits for.  So an abandoned statement, whose caller may   *)
(* long be in another call, is never taken for that call's.                *)
Numbered ==
  /\ \A t \in Tasks : task[t] # Idle => task[t].call <= made
  /\ \A c \in Connections : conn[c] # Free => conn[c].call <= made
  /\ \A t, u \in Tasks :
       task[t] # Idle /\ task[u] # Idle /\ task[t].call = task[u].call => t = u
  /\ \A c, d \in Connections :
       conn[c] # Free /\ conn[d] # Free /\ conn[c].call = conn[d].call => c = d
  /\ \A t \in Tasks, c \in Connections :
       task[t] # Idle /\ conn[c] # Free /\ conn[c].call = task[t].call =>
         /\ task[t].at = "sent" /\ conn[c].by = t
         /\ conn[c].op = task[t].op /\ conn[c].id = task[t].id

StoreInv == Types /\ Numbered

(* A call is not idle, a statement not free.                               *)
LEMMA BusyIsNot ==
  /\ \A b \in Busy : b # Idle /\ b.at # "idle"
  /\ \A s \in Statements : s # Free
<1>1. ASSUME NEW b \in Busy PROVE b # Idle /\ b.at # "idle"
  BY DEF Busy, Idle
<1>2. ASSUME NEW s \in Statements PROVE s # Free
  <2>1. DOMAIN s = {"by", "call", "op", "id", "answer"} /\ DOMAIN Free = {"by"}
    BY DEF Statements, Free
  <2>2. "call" \in DOMAIN s /\ "call" \notin DOMAIN Free
    BY <2>1
  <2>. QED
    BY <2>2
<1>. QED
  BY <1>1, <1>2
(* The call as its user sees it: not begun, without effect so far, or with *)
(* the effect and the answer of the one statement sent for it.             *)
CallCases(t) ==
  /\ task[t] = Idle => CallOf(t) = [op |-> "idle"]
  /\ task[t] # Idle /\ (\A c \in Connections : Waits(t, c) => conn[c].answer.kind # "ok") =>
       CallOf(t) = [op |-> task[t].op, id |-> task[t].id, value |-> task[t].call,
                    done |-> FALSE, saw |-> {}]
  /\ \A c \in Connections :
       task[t] # Idle /\ Waits(t, c) /\ conn[c].answer.kind = "ok" =>
         CallOf(t) = [op |-> task[t].op, id |-> task[t].id, value |-> task[t].call,
                      done |-> TRUE, saw |-> conn[c].answer.saw]

(* Every call is in one of these cases.                                    *)
LEMMA CallSeen == StoreInv => \A t \in Tasks : CallCases(t)
<1>. SUFFICES ASSUME StoreInv, NEW t \in Tasks PROVE CallCases(t)
  OBVIOUS
<1>. DEFINE ran == {c \in Connections : Waits(t, c) /\ conn[c].answer.kind = "ok"}
            e == CHOOSE c \in ran : TRUE
<1>1. ASSUME task[t] # Idle
      PROVE  CallOf(t) = [op |-> task[t].op, id |-> task[t].id, value |-> task[t].call,
                          done |-> ran # {},
                          saw |-> IF ran = {} THEN {} ELSE conn[e].answer.saw]
  BY <1>1 DEF CallOf
<1>2. task[t] = Idle => CallOf(t) = [op |-> "idle"]
  BY DEF CallOf
<1>3. (\A c \in Connections : Waits(t, c) => conn[c].answer.kind # "ok") => ran = {}
  OBVIOUS
<1>4. ASSUME NEW c \in Connections, task[t] # Idle, Waits(t, c), conn[c].answer.kind = "ok"
      PROVE  ran # {} /\ e = c
  <2>1. c \in ran
    BY <1>4
  <2>2. \A d \in ran : d = c
    BY <1>4 DEF StoreInv, Numbered, Waits
  <2>. QED
    BY <2>1, <2>2
<1>. HIDE DEF ran, e
<1>. QED
  BY <1>1, <1>2, <1>3, <1>4 DEF CallCases

(* In the next state too.                                                  *)
LEMMA CallSeenNext == (StoreInv => \A t \in Tasks : CallCases(t))'
BY CallSeen, PTL

(* Every step keeps the types and the numbers.                             *)
LEMMA NextStoreInv ==
  ASSUME MaxCalls \in Nat, StoreInv, [Next]_sqliteVars
  PROVE  StoreInv'
<1>0. /\ made \in 0..MaxCalls /\ rows \in [Ids -> 0..MaxCalls]
      /\ task \in [Tasks -> {Idle} \union Busy]
      /\ conn \in [Connections -> {Free} \union Statements]
      /\ result \in [Tasks -> {[kind |-> "err"]} \union Answers]
      /\ Numbered
  BY DEF StoreInv, Types
<1>a. /\ \A why \in {"none", "busy", "error"} : [kind |-> why] \in Answers
      /\ \A x \in SUBSET (Ids \X (0..MaxCalls)) : [kind |-> "ok", saw |-> x] \in Answers
  BY DEF Answers
<1>1. CASE UNCHANGED sqliteVars
  BY <1>0, <1>1 DEF sqliteVars, StoreInv, Types, Numbered
<1>2. ASSUME NEW t \in Tasks, NEW op \in Ops, NEW i \in Ids, Begin(t, op, i)
      PROVE  StoreInv'
  <2>. DEFINE b == [at |-> "acquire", op |-> op, id |-> i, call |-> made + 1, attempt |-> 1]
  <2>1. b \in Busy /\ made + 1 \in 0..MaxCalls
    BY <1>0, <1>2 DEF Begin, Busy
  <2>2. b.call = made + 1 /\ b # Idle
    BY <2>1, BusyIsNot
  <2>3. task' = [task EXCEPT ![t] = b] /\ made' = made + 1 /\ UNCHANGED <<rows, conn, result>>
    BY <1>2 DEF Begin
  <2>. HIDE DEF b
  <2>4. /\ task'[t] = b /\ \A u \in Tasks : u # t => task'[u] = task[u]
        /\ task' \in [Tasks -> {Idle} \union Busy]
    BY <1>0, <2>1, <2>3
  <2>5. Types'
    BY <1>0, <2>1, <2>3, <2>4 DEF Types
  <2>6. /\ \A u \in Tasks : task[u] # Idle => task[u].call <= made /\ task[u].call \in Nat
        /\ \A c \in Connections : conn[c] # Free => conn[c].call <= made /\ conn[c].call \in Nat
    BY <1>0 DEF Numbered, Busy, Statements
  <2>7. Numbered'
    BY <1>0, <2>2, <2>3, <2>4, <2>6 DEF Numbered
  <2>. QED
    BY <2>5, <2>7 DEF StoreInv
<1>3. ASSUME NEW t \in Tasks, Send(t) PROVE StoreInv'
  <2>1. PICK c \in Connections :
          /\ conn[c] = Free /\ task[t].at = "acquire"
          /\ conn' = [conn EXCEPT ![c] = [by |-> t, call |-> task[t].call, op |-> task[t].op,
                                          id |-> task[t].id, answer |-> [kind |-> "none"]]]
          /\ task' = [task EXCEPT ![t].at = "sent"]
          /\ UNCHANGED <<rows, result, made>>
    BY <1>3 DEF Send
  <2>2. task[t] \in Busy /\ task[t] # Idle
    BY <1>0, <2>1 DEF Idle
  <2>. DEFINE b == [task[t] EXCEPT !.at = "sent"]
              s == [by |-> t, call |-> task[t].call, op |-> task[t].op,
                    id |-> task[t].id, answer |-> [kind |-> "none"]]
  <2>3. b \in Busy /\ b.call = task[t].call /\ b.at = "sent" /\ b.op = task[t].op /\ b.id = task[t].id
    BY <2>2 DEF Busy
  <2>4. s \in Statements /\ s.call = task[t].call /\ s.by = t /\ s.op = task[t].op /\ s.id = task[t].id
    BY <1>a, <2>2 DEF Statements, Busy
  <2>5. /\ conn' = [conn EXCEPT ![c] = s] /\ task' = [task EXCEPT ![t] = b]
    BY <1>0, <2>1
  <2>. HIDE DEF b, s
  <2>6. /\ task'[t] = b /\ \A u \in Tasks : u # t => task'[u] = task[u]
        /\ conn'[c] = s /\ \A d \in Connections : d # c => conn'[d] = conn[d]
        /\ task' \in [Tasks -> {Idle} \union Busy]
        /\ conn' \in [Connections -> {Free} \union Statements]
    BY <1>0, <2>3, <2>4, <2>5
  <2>7. Types'
    BY <1>0, <2>1, <2>6 DEF Types
  <2>8. Numbered'
    BY <1>0, <2>1, <2>2, <2>3, <2>4, <2>6, BusyIsNot DEF Numbered
  <2>. QED
    BY <2>7, <2>8 DEF StoreInv
<1>4. ASSUME NEW t \in Tasks, task[t] # Idle, task'[t] = Idle,
             task' = [task EXCEPT ![t] = Idle],
             conn' = conn \/ \E c \in Connections : conn' = [conn EXCEPT ![c] = Free],
             result' \in [Tasks -> {[kind |-> "err"]} \union Answers],
             UNCHANGED <<rows, made>>
      PROVE  StoreInv'
  <2>1. /\ \A u \in Tasks : u # t => task'[u] = task[u]
        /\ \A d \in Connections : conn'[d] = conn[d] \/ conn'[d] = Free
        /\ task' \in [Tasks -> {Idle} \union Busy]
        /\ conn' \in [Connections -> {Free} \union Statements]
    BY <1>0, <1>4
  <2>2. Types'
    BY <1>0, <1>4, <2>1 DEF Types
  <2>3. Numbered'
    BY <1>0, <1>4, <2>1 DEF Numbered
  <2>. QED
    BY <2>2, <2>3 DEF StoreInv
<1>5. ASSUME NEW t \in Tasks, NEW c \in Connections, Answered(t, c) PROVE StoreInv'
  <2>1. /\ Waits(t, c) /\ conn' = [conn EXCEPT ![c] = Free] /\ UNCHANGED <<rows, made>>
        /\ conn[c] # Free
    BY <1>5 DEF Answered, Waits
  <2>2. task[t] # Idle /\ task[t] \in Busy /\ conn[c] \in Statements /\ conn[c].call = task[t].call
    BY <1>0, <2>1 DEF Waits, Idle
  <2>3. CASE \E r \in {[kind |-> "err"]} \union Answers : Return(t, r)
    <3>1. task' = [task EXCEPT ![t] = Idle] /\ task'[t] = Idle
      BY <1>0, <2>3 DEF Return
    <3>2. result' \in [Tasks -> {[kind |-> "err"]} \union Answers]
      BY <1>0, <2>3 DEF Return
    <3>. QED
      BY <1>4, <2>1, <2>2, <3>1, <3>2
  <2>4. CASE task' = [task EXCEPT ![t].at = "backoff"] /\ UNCHANGED result
    <3>. DEFINE b == [task[t] EXCEPT !.at = "backoff"]
    <3>1. b \in Busy /\ b.call = task[t].call
      BY <2>2 DEF Busy
    <3>2. task' = [task EXCEPT ![t] = b]
      BY <1>0, <2>4
    <3>. HIDE DEF b
    <3>3. /\ task'[t] = b /\ \A u \in Tasks : u # t => task'[u] = task[u]
          /\ conn'[c] = Free /\ \A d \in Connections : d # c => conn'[d] = conn[d]
          /\ task' \in [Tasks -> {Idle} \union Busy]
          /\ conn' \in [Connections -> {Free} \union Statements]
      BY <1>0, <2>1, <3>1, <3>2
    <3>4. Types'
      BY <1>0, <2>1, <2>4, <3>3 DEF Types
    <3>5. \A d \in Connections : conn'[d] # Free => conn'[d].call # task[t].call
      BY <1>0, <2>1, <2>2, <3>3 DEF Numbered
    <3>6. Numbered'
      BY <1>0, <2>1, <2>2, <3>1, <3>3, <3>5 DEF Numbered
    <3>. QED
      BY <3>4, <3>6 DEF StoreInv
  <2>5. conn[c].answer \in Answers
    BY <2>2 DEF Statements
  <2>. QED
    BY <1>5, <2>3, <2>4, <2>5 DEF Answered
<1>6. ASSUME NEW t \in Tasks, Again(t) PROVE StoreInv'
  <2>1. task[t] \in Busy /\ task[t] # Idle /\ task[t].at = "backoff" /\ UNCHANGED <<rows, conn, result, made>>
    BY <1>0, <1>6 DEF Again, Idle
  <2>. DEFINE n == task[t].attempt + 1
              b == [task[t] EXCEPT !.at = "acquire", !.attempt = n]
  <2>n. n \in Nat
    BY <2>1 DEF Busy
  <2>s. [task EXCEPT ![t].at = "acquire", ![t].attempt = @ + 1] = [task EXCEPT ![t] = b]
    BY <1>0
  <2>. HIDE DEF n
  <2>2. b \in Busy /\ b.call = task[t].call /\ b.op = task[t].op /\ b.id = task[t].id
    BY <2>1, <2>n DEF Busy
  <2>3. task' = [task EXCEPT ![t] = b]
    BY <1>6, <2>s DEF Again
  <2>. HIDE DEF b
  <2>4. /\ task'[t] = b /\ \A u \in Tasks : u # t => task'[u] = task[u]
        /\ task' \in [Tasks -> {Idle} \union Busy]
    BY <1>0, <2>2, <2>3
  <2>5. Types'
    BY <1>0, <2>1, <2>4 DEF Types
  <2>6. Numbered'
    BY <1>0, <2>1, <2>2, <2>4 DEF Numbered
  <2>. QED
    BY <2>5, <2>6 DEF StoreInv
<1>7. ASSUME NEW t \in Tasks, TimeOut(t) PROVE StoreInv'
  <2>1. /\ task[t] # Idle /\ task' = [task EXCEPT ![t] = Idle] /\ task'[t] = Idle
        /\ result' \in [Tasks -> {[kind |-> "err"]} \union Answers]
        /\ UNCHANGED <<rows, conn, made>>
    BY <1>0, <1>7 DEF TimeOut, Return
  <2>. QED
    BY <1>4, <2>1
<1>8. ASSUME NEW c \in Connections, Running(c), NEW a \in Answers,
             conn' = [conn EXCEPT ![c].answer = a],
             rows' \in [Ids -> 0..MaxCalls],
             UNCHANGED <<task, result, made>>
      PROVE  StoreInv'
  <2>1. conn[c] \in Statements /\ conn[c] # Free
    BY <1>0, <1>8 DEF Running
  <2>. DEFINE s == [conn[c] EXCEPT !.answer = a]
  <2>2. s \in Statements /\ s.call = conn[c].call /\ s.by = conn[c].by
        /\ s.op = conn[c].op /\ s.id = conn[c].id
    BY <2>1 DEF Statements
  <2>3. conn' = [conn EXCEPT ![c] = s]
    BY <1>0, <1>8
  <2>. HIDE DEF s
  <2>4. /\ conn'[c] = s /\ \A d \in Connections : d # c => conn'[d] = conn[d]
        /\ conn' \in [Connections -> {Free} \union Statements]
    BY <1>0, <2>2, <2>3
  <2>5. Types'
    BY <1>0, <1>8, <2>4 DEF Types
  <2>6. Numbered'
    BY <1>0, <1>8, <2>1, <2>2, <2>4 DEF Numbered
  <2>. QED
    BY <2>5, <2>6 DEF StoreInv
<1>9. ASSUME NEW c \in Connections, Run(c) PROVE StoreInv'
  <2>1. Running(c) /\ conn[c] \in Statements
    BY <1>0, <1>9 DEF Run, Running
  <2>2. conn[c].id \in Ids /\ conn[c].call \in 0..MaxCalls
    BY <2>1 DEF Statements
  <2>3. Found(conn[c]) \in SUBSET (Ids \X (0..MaxCalls))
    BY <1>0, <2>2 DEF Found
  <2>4. rows' \in [Ids -> 0..MaxCalls]
    BY <1>0, <1>9, <2>2 DEF Run
  <2>5. /\ conn' = [conn EXCEPT ![c].answer = [kind |-> "ok", saw |-> Found(conn[c])]]
        /\ UNCHANGED <<task, result, made>>
    BY <1>9 DEF Run
  <2>. QED
    BY <1>8, <1>a, <2>1, <2>3, <2>4, <2>5
<1>10. ASSUME NEW c \in Connections, NEW why \in {"busy", "error"}, Refuse(c, why) PROVE StoreInv'
  <2>1. /\ Running(c) /\ conn' = [conn EXCEPT ![c].answer = [kind |-> why]]
        /\ rows' \in [Ids -> 0..MaxCalls] /\ UNCHANGED <<task, result, made>>
    BY <1>0, <1>10 DEF Refuse
  <2>2. [kind |-> why] \in Answers
    BY <1>a
  <2>. QED
    BY <1>8, <2>1, <2>2
<1>11. ASSUME NEW c \in Connections, GiveBack(c) PROVE StoreInv'
  <2>1. conn' = [conn EXCEPT ![c] = Free] /\ UNCHANGED <<rows, task, result, made>>
    BY <1>11 DEF GiveBack
  <2>2. /\ \A d \in Connections : conn'[d] = conn[d] \/ conn'[d] = Free
        /\ conn' \in [Connections -> {Free} \union Statements]
    BY <1>0, <2>1
  <2>3. Types'
    BY <1>0, <2>1, <2>2 DEF Types
  <2>4. Numbered'
    BY <1>0, <2>1, <2>2 DEF Numbered
  <2>. QED
    BY <2>3, <2>4 DEF StoreInv
<1>. QED
  BY <1>1, <1>2, <1>3, <1>5, <1>6, <1>7, <1>9, <1>10, <1>11 DEF Next, Ops

(* A statement that nobody waits for and that will still change a row.     *)
Astray(c) == Abandoned(c) /\ Running(c) /\ conn[c].op \in {"store", "delete"}
StrayOf(c) == [op |-> conn[c].op, id |-> conn[c].id, value |-> conn[c].call]

(* The stray effects, statement by statement.                              *)
LEMMA StrayIs == Stray = {StrayOf(c) : c \in {d \in Connections : Astray(d)}}
BY DEF Stray, StrayOf, Astray

(* In the next state too.                                                  *)
LEMMA StrayIsNext == (Stray = {StrayOf(c) : c \in {d \in Connections : Astray(d)}})'
BY StrayIs, PTL

(* The same statements are astray.                                         *)
LEMMA SameStray ==
  ASSUME \A c \in Connections : Astray(c)' <=> Astray(c),
         \A c \in Connections : Astray(c) => StrayOf(c)' = StrayOf(c)
  PROVE  Stray' = Stray
BY StrayIs, StrayIsNext

(* One of them is gone: no other has its number.                           *)
LEMMA LessStray ==
  ASSUME StoreInv, NEW c \in Connections, Astray(c), ~Astray(c)',
         \A d \in Connections : d # c => (Astray(d)' <=> Astray(d)),
         \A d \in Connections : d # c => StrayOf(d)' = StrayOf(d)
  PROVE  Stray' = Stray \ {StrayOf(c)} /\ StrayOf(c) \in Stray
<1>1. \A d \in Connections : Astray(d) /\ d # c => StrayOf(d) # StrayOf(c)
  <2>1. ASSUME NEW d \in Connections, Astray(d), d # c PROVE StrayOf(d) # StrayOf(c)
    <3>1. conn[c] # Free /\ conn[d] # Free
      BY <2>1 DEF Astray, Abandoned
    <3>2. conn[c].call # conn[d].call
      BY <2>1, <3>1 DEF StoreInv, Numbered
    <3>3. StrayOf(c).value = conn[c].call /\ StrayOf(d).value = conn[d].call
      BY DEF StrayOf
    <3>. QED
      BY <3>2, <3>3
  <2>. QED
    BY <2>1
<1>. QED
  BY <1>1, StrayIs, StrayIsNext

(* One more.                                                               *)
LEMMA MoreStray ==
  ASSUME NEW c \in Connections, Astray(c)',
         \A d \in Connections : d # c => (Astray(d)' <=> Astray(d)),
         ~Astray(c), \A d \in Connections : StrayOf(d)' = StrayOf(d)
  PROVE  Stray' = Stray \union {StrayOf(c)}
BY StrayIs, StrayIsNext

(* A call whose statement has the same answer looks the same.              *)
LEMMA SameCall ==
  ASSUME StoreInv, StoreInv', NEW t \in Tasks, task[t] # Idle, task'[t] # Idle,
         task'[t].op = task[t].op, task'[t].id = task[t].id, task'[t].call = task[t].call,
         \A c \in Connections :
           (Waits(t, c) /\ conn[c].answer.kind = "ok")' <=> (Waits(t, c) /\ conn[c].answer.kind = "ok"),
         \A c \in Connections :
           Waits(t, c) /\ conn[c].answer.kind = "ok" => conn'[c].answer.saw = conn[c].answer.saw
  PROVE  CallOf(t)' = CallOf(t)
<1>1. CallCases(t)
  BY CallSeen
<1>2. CallCases(t)'
  BY CallSeenNext
<1>3. CASE \E c \in Connections : Waits(t, c) /\ conn[c].answer.kind = "ok"
  BY <1>1, <1>2, <1>3 DEF CallCases
<1>4. CASE \A c \in Connections : Waits(t, c) => conn[c].answer.kind # "ok"
  <2>1. \A c \in Connections : Waits(t, c)' => conn'[c].answer.kind # "ok"
    BY <1>4
  <2>2. CallOf(t) = [op |-> task[t].op, id |-> task[t].id, value |-> task[t].call,
                     done |-> FALSE, saw |-> {}]
    BY <1>1, <1>4 DEF CallCases
  <2>3. CallOf(t)' = [op |-> task'[t].op, id |-> task'[t].id, value |-> task'[t].call,
                      done |-> FALSE, saw |-> {}]
    BY <1>2, <2>1 DEF CallCases
  <2>. QED
    BY <2>2, <2>3
<1>. QED
  BY <1>3, <1>4

(* An idle task stays out of it.                                           *)
LEMMA SameIdle ==
  ASSUME NEW t \in Tasks, task[t] = Idle, task'[t] = Idle
  PROVE  CallOf(t)' = CallOf(t)
BY DEF CallOf

(* Nothing that the trait's user can see has changed.                      *)
LEMMA StoreStutters ==
  ASSUME rows' = rows, result' = result, Stray' = Stray, \A t \in Tasks : CallOf(t)' = CallOf(t)
  PROVE  UNCHANGED Store!storeVars
BY DEF Store!storeVars

(* A step of task t that leaves the connections alone.                     *)
LEMMA TaskFrame ==
  ASSUME StoreInv, StoreInv', NEW t \in Tasks, conn' = conn,
         \A u \in Tasks : u # t => task'[u] = task[u]
  PROVE  /\ \A u \in Tasks : u # t => CallOf(u)' = CallOf(u)
         /\ \A u \in Tasks, c \in Connections : u # t => (Waits(u, c)' <=> Waits(u, c))
         /\ \A c \in Connections : (Running(c)' <=> Running(c)) /\ StrayOf(c)' = StrayOf(c)
<1>1. \A u \in Tasks, c \in Connections : u # t => (Waits(u, c)' <=> Waits(u, c))
  BY DEF Waits
<1>2. ASSUME NEW u \in Tasks, u # t PROVE CallOf(u)' = CallOf(u)
  <2>1. CASE task[u] = Idle
    BY <1>2, <2>1, SameIdle
  <2>2. CASE task[u] # Idle
    BY <1>1, <1>2, <2>2, SameCall
  <2>. QED
    BY <2>1, <2>2
<1>. QED
  BY <1>1, <1>2 DEF Running, StrayOf

(* A step of the connection c that leaves the tasks alone.                 *)
LEMMA ConnFrame ==
  ASSUME StoreInv, StoreInv', NEW c \in Connections, task' = task,
         \A d \in Connections : d # c => conn'[d] = conn[d],
         \A t \in Tasks : ~(Waits(t, c) /\ conn[c].answer.kind = "ok"),
         \A t \in Tasks : ~(Waits(t, c) /\ conn[c].answer.kind = "ok")'
  PROVE  \A t \in Tasks : CallOf(t)' = CallOf(t)
<1>1. ASSUME NEW t \in Tasks PROVE CallOf(t)' = CallOf(t)
  <2>1. CASE task[t] = Idle
    BY <2>1, SameIdle
  <2>2. CASE task[t] # Idle
    <3>1. \A d \in Connections : d # c => (Waits(t, d)' <=> Waits(t, d))
      BY DEF Waits
    <3>2. \A d \in Connections :
            (Waits(t, d) /\ conn[d].answer.kind = "ok")' <=> (Waits(t, d) /\ conn[d].answer.kind = "ok")
      BY <3>1
    <3>. QED
      BY <2>2, <3>2, SameCall
  <2>. QED
    BY <2>1, <2>2
<1>. QED
  BY <1>1

(* Begin is the invocation.                                                *)
LEMMA BeginInvokes ==
  ASSUME MaxCalls \in Nat, StoreInv, StoreInv', NEW t \in Tasks, NEW op \in Ops, NEW i \in Ids,
         Begin(t, op, i)
  PROVE  Store!Next
<1>0. task \in [Tasks -> {Idle} \union Busy] /\ made \in 0..MaxCalls
  BY DEF StoreInv, Types
<1>. DEFINE b == [at |-> "acquire", op |-> op, id |-> i, call |-> made + 1, attempt |-> 1]
            k == [op |-> op, id |-> i, value |-> made + 1, done |-> FALSE, saw |-> {}]
<1>1. /\ task[t] = Idle /\ task' = [task EXCEPT ![t] = b] /\ made + 1 \in 1..MaxCalls
      /\ UNCHANGED <<rows, conn, result>>
  BY <1>0 DEF Begin
<1>2. task'[t] = b /\ \A u \in Tasks : u # t => task'[u] = task[u]
  BY <1>0, <1>1
<1>3. /\ \A u \in Tasks : u # t => CallOf(u)' = CallOf(u)
      /\ \A u \in Tasks, c \in Connections : u # t => (Waits(u, c)' <=> Waits(u, c))
      /\ \A c \in Connections : (Running(c)' <=> Running(c)) /\ StrayOf(c)' = StrayOf(c)
  BY <1>1, <1>2, TaskFrame
<1>4. \A c \in Connections : ~Waits(t, c) /\ ~Waits(t, c)'
  BY <1>1, <1>2 DEF Waits, Idle
<1>5. Stray' = Stray
  <2>1. \A c \in Connections : Astray(c)' <=> Astray(c)
    BY <1>1, <1>3, <1>4 DEF Astray, Abandoned
  <2>. QED
    BY <1>3, <2>1, SameStray
<1>6. CallOf(t) = [op |-> "idle"]
  BY <1>1 DEF CallOf
<1>7. CallOf(t)' = k
  <2>1. task'[t] # Idle
    BY <1>2 DEF Idle
  <2>. QED
    BY <1>2, <1>4, <2>1, CallSeenNext DEF CallCases
<1>8. k \in Store!Calls
  BY <1>1 DEF Store!Calls, Store!Reads, Store!Writes, Ops
<1>. HIDE DEF k, b
<1>9. Store!Invoke(t)
  BY <1>1, <1>3, <1>5, <1>6, <1>7, <1>8 DEF Store!Invoke, Store!Idle
<1>. QED
  BY <1>9 DEF Store!Next

(* Sending a statement is not seen.                                        *)
LEMMA SendHidden ==
  ASSUME StoreInv, StoreInv', NEW t \in Tasks, Send(t)
  PROVE  UNCHANGED Store!storeVars
<1>0. task \in [Tasks -> {Idle} \union Busy] /\ conn \in [Connections -> {Free} \union Statements]
  BY DEF StoreInv, Types
<1>1. PICK c \in Connections :
        /\ conn[c] = Free /\ task[t].at = "acquire"
        /\ conn' = [conn EXCEPT ![c] = [by |-> t, call |-> task[t].call, op |-> task[t].op,
                                        id |-> task[t].id, answer |-> [kind |-> "none"]]]
        /\ task' = [task EXCEPT ![t].at = "sent"]
        /\ UNCHANGED <<rows, result, made>>
  BY DEF Send
<1>2. task[t] \in Busy /\ task[t] # Idle
  BY <1>0, <1>1 DEF Idle
<1>3. /\ task'[t].op = task[t].op /\ task'[t].id = task[t].id /\ task'[t].call = task[t].call
      /\ task'[t].at = "sent" /\ \A u \in Tasks : u # t => task'[u] = task[u]
  BY <1>0, <1>1, <1>2 DEF Busy
<1>4. task'[t] # Idle
  BY <1>3 DEF Idle
<1>5. /\ conn'[c].by = t /\ conn'[c].call = task[t].call /\ conn'[c].answer.kind = "none"
      /\ \A d \in Connections : d # c => conn'[d] = conn[d]
  BY <1>0, <1>1
<1>6. conn'[c] # Free
  <2>1. conn'[c] = [by |-> t, call |-> task[t].call, op |-> task[t].op,
                    id |-> task[t].id, answer |-> [kind |-> "none"]]
    BY <1>0, <1>1
  <2>2. conn'[c] \in Statements
    BY <1>2, <2>1 DEF Statements, Busy, Answers
  <2>. QED
    BY <2>2, BusyIsNot
<1>7. Waits(t, c)'
  BY <1>3, <1>5, <1>6 DEF Waits
<1>8. \A u \in Tasks : ~Waits(u, c)
  BY <1>1 DEF Waits
<1>9. \A d \in Connections : ~Waits(t, d) /\ (d # c => ~Waits(t, d)')
  <2>1. \A d \in Connections : ~Waits(t, d)
    BY <1>1 DEF Waits
  <2>2. ASSUME NEW d \in Connections, d # c, Waits(t, d)' PROVE FALSE
    <3>1. conn[d] # Free /\ conn[d].call = task[t].call
      BY <1>3, <1>5, <2>2 DEF Waits
    <3>2. task[t].at = "sent"
      BY <1>2, <3>1 DEF StoreInv, Numbered
    <3>. QED
      BY <1>1, <3>2
  <2>. QED
    BY <2>1, <2>2
<1>10. \A u \in Tasks, d \in Connections : u # t /\ d # c => (Waits(u, d)' <=> Waits(u, d))
  BY <1>3, <1>5 DEF Waits
<1>11. ASSUME NEW u \in Tasks PROVE CallOf(u)' = CallOf(u)
  <2>1. CASE u = t
    BY <1>2, <1>3, <1>4, <1>5, <1>9, <2>1, SameCall
  <2>2. CASE u # t /\ task[u] = Idle
    BY <1>3, <2>2, SameIdle
  <2>3. CASE u # t /\ task[u] # Idle
    <3>1. \A d \in Connections :
            (Waits(u, d) /\ conn[d].answer.kind = "ok")' <=> (Waits(u, d) /\ conn[d].answer.kind = "ok")
      BY <1>5, <1>8, <1>10, <2>3
    <3>2. \A d \in Connections :
            Waits(u, d) /\ conn[d].answer.kind = "ok" => conn'[d].answer.saw = conn[d].answer.saw
      BY <1>5, <1>8
    <3>. QED
      BY <1>3, <2>3, <3>1, <3>2, SameCall
  <2>. QED
    BY <2>1, <2>2, <2>3
<1>12. Stray' = Stray
  <2>1. ~Astray(c) /\ ~Astray(c)'
    BY <1>1, <1>7 DEF Astray, Abandoned
  <2>2. \A d \in Connections : d # c => (Astray(d)' <=> Astray(d)) /\ StrayOf(d)' = StrayOf(d)
    BY <1>5, <1>9, <1>10 DEF Astray, Abandoned, Running, StrayOf
  <2>. QED
    BY <2>1, <2>2, SameStray
<1>. QED
  BY <1>1, <1>11, <1>12, StoreStutters

(* The end of the retry delay is not seen.                                 *)
LEMMA AgainHidden ==
  ASSUME StoreInv, StoreInv', NEW t \in Tasks, Again(t)
  PROVE  UNCHANGED Store!storeVars
<1>0. task \in [Tasks -> {Idle} \union Busy]
  BY DEF StoreInv, Types
<1>1. task[t] \in Busy /\ task[t] # Idle /\ task[t].at = "backoff" /\ UNCHANGED <<rows, conn, result>>
  BY <1>0 DEF Again, Idle
<1>2. /\ task'[t].op = task[t].op /\ task'[t].id = task[t].id /\ task'[t].call = task[t].call
      /\ task'[t].at = "acquire" /\ \A u \in Tasks : u # t => task'[u] = task[u]
  BY <1>0, <1>1 DEF Again, Busy
<1>3. task'[t] # Idle
  BY <1>2 DEF Idle
<1>4. \A c \in Connections : ~Waits(t, c) /\ ~Waits(t, c)'
  BY <1>1, <1>2 DEF Waits
<1>5. /\ \A u \in Tasks : u # t => CallOf(u)' = CallOf(u)
      /\ \A u \in Tasks, c \in Connections : u # t => (Waits(u, c)' <=> Waits(u, c))
      /\ \A c \in Connections : (Running(c)' <=> Running(c)) /\ StrayOf(c)' = StrayOf(c)
  BY <1>1, <1>2, TaskFrame
<1>6. CallOf(t)' = CallOf(t)
  BY <1>1, <1>2, <1>3, <1>4, SameCall
<1>7. Stray' = Stray
  <2>1. \A c \in Connections : Astray(c)' <=> Astray(c)
    BY <1>1, <1>4, <1>5 DEF Astray, Abandoned
  <2>. QED
    BY <1>5, <2>1, SameStray
<1>. QED
  BY <1>1, <1>5, <1>6, <1>7, StoreStutters

(* The timeout is an error whose effect may be astray.                     *)
LEMMA TimeOutErrs ==
  ASSUME StoreInv, StoreInv', NEW t \in Tasks, TimeOut(t)
  PROVE  Store!Next
<1>0. /\ task \in [Tasks -> {Idle} \union Busy] /\ conn \in [Connections -> {Free} \union Statements]
      /\ result \in [Tasks -> {[kind |-> "err"]} \union Answers]
  BY DEF StoreInv, Types
<1>1. /\ task[t] # Idle /\ task[t] \in Busy /\ task'[t] = Idle
      /\ \A u \in Tasks : u # t => task'[u] = task[u]
      /\ result' = [result EXCEPT ![t] = [kind |-> "err"]]
      /\ UNCHANGED <<rows, conn>>
  BY <1>0 DEF TimeOut, Return
<1>2. /\ \A u \in Tasks : u # t => CallOf(u)' = CallOf(u)
      /\ \A u \in Tasks, c \in Connections : u # t => (Waits(u, c)' <=> Waits(u, c))
      /\ \A c \in Connections : (Running(c)' <=> Running(c)) /\ StrayOf(c)' = StrayOf(c)
  BY <1>1, TaskFrame
<1>3. CallOf(t)' = [op |-> "idle"]
  BY <1>1 DEF CallOf
<1>4. \A c \in Connections : ~Waits(t, c)'
  BY <1>1 DEF Waits, Idle
<1>5. CallCases(t)
  BY CallSeen
<1>6. CallOf(t).op = task[t].op /\ CallOf(t).id = task[t].id /\ CallOf(t).value = task[t].call
      /\ task[t].op # "idle"
  <2>1. task[t].op # "idle"
    BY <1>1 DEF Busy, Ops
  <2>2. CASE \E c \in Connections : Waits(t, c) /\ conn[c].answer.kind = "ok"
    BY <1>1, <1>5, <2>1, <2>2 DEF CallCases
  <2>3. CASE \A c \in Connections : Waits(t, c) => conn[c].answer.kind # "ok"
    BY <1>1, <1>5, <2>1, <2>3 DEF CallCases
  <2>. QED
    BY <2>2, <2>3
<1>7. CASE \E c \in Connections : Waits(t, c) /\ Running(c) /\ conn[c].op \in {"store", "delete"}
  <2>1. PICK c \in Connections : Waits(t, c) /\ Running(c) /\ conn[c].op \in {"store", "delete"}
    BY <1>7
  <2>2. \A d \in Connections : Waits(t, d) => d = c
    BY <1>1, <2>1 DEF StoreInv, Numbered, Waits
  <2>3. conn[c].op = task[t].op /\ conn[c].id = task[t].id /\ conn[c].call = task[t].call
    BY <1>1, <2>1 DEF StoreInv, Numbered, Waits
  <2>4. \A u \in Tasks : u # t => ~Waits(u, c)
    <3>1. conn[c].by = t
      BY <2>1 DEF Waits
    <3>. QED
      BY <3>1 DEF Waits
  <2>5. Astray(c)' /\ ~Astray(c)
    BY <1>1, <1>2, <1>4, <2>1, <2>4 DEF Astray, Abandoned, Waits
  <2>6. \A d \in Connections : d # c => (Astray(d)' <=> Astray(d))
    BY <1>1, <1>2, <1>4, <2>2 DEF Astray, Abandoned
  <2>7. Stray' = Stray \union {StrayOf(c)}
    BY <1>2, <2>5, <2>6, MoreStray
  <2>8. ~CallOf(t).done
    <3>1. \A d \in Connections : Waits(t, d) => conn[d].answer.kind # "ok"
      BY <2>1, <2>2 DEF Running
    <3>2. CallOf(t) = [op |-> task[t].op, id |-> task[t].id, value |-> task[t].call,
                       done |-> FALSE, saw |-> {}]
      BY <1>1, <1>5, <3>1 DEF CallCases
    <3>. QED
      BY <3>2
  <2>9. StrayOf(c) = [op |-> CallOf(t).op, id |-> CallOf(t).id, value |-> CallOf(t).value]
    BY <1>6, <2>3 DEF StrayOf
  <2>10. CallOf(t).op \in {"store", "delete"}
    BY <1>6, <2>1, <2>3
  <2>11. CallOf(t) # [op |-> "idle"]
    BY <1>6
  <2>12. Store!ReturnErr(t)
    BY <1>1, <1>2, <1>3, <2>7, <2>8, <2>9, <2>10, <2>11 DEF Store!ReturnErr, Store!Idle, Store!Writes
  <2>. QED
    BY <2>12 DEF Store!Next
<1>8. CASE ~\E c \in Connections : Waits(t, c) /\ Running(c) /\ conn[c].op \in {"store", "delete"}
  <2>1. \A c \in Connections : Astray(c)' <=> Astray(c)
    BY <1>1, <1>2, <1>4, <1>8 DEF Astray, Abandoned
  <2>2. Stray' = Stray
    BY <1>2, <2>1, SameStray
  <2>3. CallOf(t) # [op |-> "idle"]
    BY <1>6
  <2>4. Store!ReturnErr(t)
    BY <1>1, <1>2, <1>3, <2>2, <2>3 DEF Store!ReturnErr, Store!Idle
  <2>. QED
    BY <2>4 DEF Store!Next
<1>. QED
  BY <1>7, <1>8

(* A call's record once its effect is seen.                                *)
LEMMA DoneRecord ==
  ASSUME NEW op, NEW id, NEW value, NEW found
  PROVE  [[op |-> op, id |-> id, value |-> value, done |-> FALSE, saw |-> {}]
            EXCEPT !.done = TRUE, !.saw = found]
           = [op |-> op, id |-> id, value |-> value, done |-> TRUE, saw |-> found]
<1>. DEFINE r == [op |-> op, id |-> id, value |-> value, done |-> FALSE, saw |-> {}]
            s == [r EXCEPT !.done = TRUE, !.saw = found]
            R == [op : {op}, id : {id}, value : {value}, done : BOOLEAN, saw : {{}, found}]
<1>1. r \in R
  OBVIOUS
<1>2. s.op = op /\ s.id = id /\ s.value = value /\ s.saw = found
  OBVIOUS
<1>3. s.done = TRUE
  OBVIOUS
<1>. HIDE DEF r
<1>4. s \in R
  BY <1>1
<1>. HIDE DEF s
<1>5. s = [op |-> s.op, id |-> s.id, value |-> s.value, done |-> s.done, saw |-> s.saw]
  BY <1>4
<1>. QED
  BY <1>2, <1>3, <1>5 DEF s, r

(* An answer that is taken: Ok after the effect, an error, or another      *)
(* attempt of a store that was not executed.                               *)
LEMMA AnsweredReturns ==
  ASSUME StoreInv, StoreInv', NEW t \in Tasks, NEW c \in Connections, Answered(t, c)
  PROVE  Store!Next \/ UNCHANGED Store!storeVars
<1>0. /\ task \in [Tasks -> {Idle} \union Busy] /\ conn \in [Connections -> {Free} \union Statements]
      /\ result \in [Tasks -> {[kind |-> "err"]} \union Answers]
  BY DEF StoreInv, Types
<1>1. /\ Waits(t, c) /\ conn[c].answer.kind # "none" /\ UNCHANGED <<rows, made>>
      /\ conn' = [conn EXCEPT ![c] = Free]
  BY DEF Answered
<1>2. task[t] # Idle /\ task[t] \in Busy /\ conn[c] # Free /\ conn[c] \in Statements
  BY <1>0, <1>1 DEF Waits, Idle
<1>3. conn'[c] = Free /\ \A d \in Connections : d # c => conn'[d] = conn[d]
  BY <1>0, <1>1
<1>4. \A d \in Connections : Waits(t, d) => d = c
  BY <1>1, <1>2 DEF StoreInv, Numbered, Waits
<1>5. \A u \in Tasks : u # t => ~Waits(u, c)
  BY <1>1 DEF Waits
<1>6. \A u \in Tasks : ~Waits(u, c)'
  BY <1>3 DEF Waits
<1>7. \A u \in Tasks : u # t => task'[u] = task[u]
  BY <1>0 DEF Answered, Return
<1>8. \A u \in Tasks, d \in Connections : u # t /\ d # c => (Waits(u, d)' <=> Waits(u, d))
  BY <1>3, <1>7 DEF Waits
<1>9. ASSUME NEW u \in Tasks, u # t PROVE CallOf(u)' = CallOf(u)
  <2>1. CASE task[u] = Idle
    BY <1>7, <1>9, <2>1, SameIdle
  <2>2. CASE task[u] # Idle
    <3>1. \A d \in Connections :
            (Waits(u, d) /\ conn[d].answer.kind = "ok")' <=> (Waits(u, d) /\ conn[d].answer.kind = "ok")
      BY <1>3, <1>5, <1>6, <1>8, <1>9
    <3>2. \A d \in Connections :
            Waits(u, d) /\ conn[d].answer.kind = "ok" => conn'[d].answer.saw = conn[d].answer.saw
      BY <1>3, <1>5, <1>9
    <3>. QED
      BY <1>7, <1>9, <2>2, <3>1, <3>2, SameCall
  <2>. QED
    BY <2>1, <2>2
<1>10. \A d \in Connections : ~Waits(t, d)'
  <2>1. ASSUME NEW d \in Connections, Waits(t, d)' PROVE FALSE
    <3>1. d # c /\ task'[t].at = "sent"
      BY <1>6, <2>1 DEF Waits
    <3>2. task'[t] # Idle
      BY <3>1 DEF Idle
    <3>3. task' = [task EXCEPT ![t].at = "backoff"]
      BY <1>0, <3>2 DEF Answered, Return
    <3>4. task'[t].at = "backoff"
      BY <1>0, <1>2, <3>3 DEF Busy
    <3>. QED
      BY <3>1, <3>4
  <2>. QED
    BY <2>1
<1>11. Stray' = Stray
  <2>1. ~Astray(c) /\ ~Astray(c)'
    BY <1>1, <1>3 DEF Astray, Abandoned
  <2>2. \A d \in Connections : d # c => (Astray(d)' <=> Astray(d)) /\ StrayOf(d)' = StrayOf(d)
    BY <1>3, <1>4, <1>8, <1>10 DEF Astray, Abandoned, Running, StrayOf
  <2>. QED
    BY <2>1, <2>2, SameStray
<1>12. CallCases(t)
  BY CallSeen
<1>13. task[t].op # "idle"
  BY <1>2 DEF Busy, Ops
<1>14. task'[t] = Idle => CallOf(t)' = [op |-> "idle"]
  BY DEF CallOf
<1>15. CASE conn[c].answer.kind = "ok"
  <2>1. CallOf(t) = [op |-> task[t].op, id |-> task[t].id, value |-> task[t].call,
                     done |-> TRUE, saw |-> conn[c].answer.saw]
    BY <1>1, <1>2, <1>12, <1>15 DEF CallCases
  <2>2. Return(t, conn[c].answer)
    BY <1>15 DEF Answered
  <2>3. task'[t] = Idle /\ result' = [result EXCEPT ![t] = conn[c].answer]
    BY <1>0, <2>2 DEF Return
  <2>4. conn[c].answer = [kind |-> "ok", saw |-> conn[c].answer.saw]
    <3>1. conn[c].answer \in Answers
      BY <1>2 DEF Statements
    <3>2. conn[c].answer \in [kind : {"ok"}, saw : SUBSET (Ids \X (0..MaxCalls))]
      BY <1>15, <3>1 DEF Answers
    <3>. QED
      BY <3>2
  <2>5. CallOf(t) # [op |-> "idle"] /\ CallOf(t).done /\ CallOf(t).saw = conn[c].answer.saw
    BY <1>13, <2>1
  <2>6. result' = [result EXCEPT ![t] = [kind |-> "ok", saw |-> CallOf(t).saw]]
    BY <2>3, <2>4, <2>5
  <2>7. Store!ReturnOk(t)
    BY <1>1, <1>9, <1>11, <1>14, <2>3, <2>5, <2>6 DEF Store!ReturnOk, Store!Idle
  <2>. QED
    BY <2>7 DEF Store!Next
<1>16. CASE conn[c].answer.kind # "ok"
  <2>1. CallOf(t) = [op |-> task[t].op, id |-> task[t].id, value |-> task[t].call,
                     done |-> FALSE, saw |-> {}]
    BY <1>2, <1>4, <1>12, <1>16 DEF CallCases
  <2>2. CASE Return(t, [kind |-> "err"])
    <3>1. task'[t] = Idle /\ result' = [result EXCEPT ![t] = [kind |-> "err"]]
      BY <1>0, <2>2 DEF Return
    <3>2. CallOf(t) # [op |-> "idle"]
      BY <1>13, <2>1
    <3>3. Store!ReturnErr(t)
      BY <1>1, <1>9, <1>11, <1>14, <3>1, <3>2 DEF Store!ReturnErr, Store!Idle
    <3>. QED
      BY <3>3 DEF Store!Next
  <2>3. CASE task' = [task EXCEPT ![t].at = "backoff"] /\ UNCHANGED result
    <3>1. /\ task'[t].op = task[t].op /\ task'[t].id = task[t].id /\ task'[t].call = task[t].call
          /\ task'[t].at = "backoff"
      BY <1>0, <1>2, <2>3 DEF Busy
    <3>2. task'[t] # Idle
      BY <3>1 DEF Idle
    <3>3. CallOf(t)' = CallOf(t)
      BY <1>2, <1>4, <1>10, <1>16, <3>1, <3>2, SameCall
    <3>. QED
      BY <1>1, <1>9, <1>11, <2>3, <3>3, StoreStutters
  <2>. QED
    BY <1>16, <2>2, <2>3 DEF Answered
<1>. QED
  BY <1>15, <1>16

(* A statement that is executed is the effect of the call that waits for   *)
(* it, or of one whose caller is gone.                                     *)
LEMMA RunTakesEffect ==
  ASSUME StoreInv, StoreInv', NEW c \in Connections, Run(c)
  PROVE  Store!Next \/ UNCHANGED Store!storeVars
<1>0. /\ task \in [Tasks -> {Idle} \union Busy] /\ conn \in [Connections -> {Free} \union Statements]
      /\ rows \in [Ids -> 0..MaxCalls]
  BY DEF StoreInv, Types
<1>1. /\ Running(c) /\ UNCHANGED <<task, result, made>>
      /\ conn' = [conn EXCEPT ![c].answer = [kind |-> "ok", saw |-> Found(conn[c])]]
  BY DEF Run
<1>2. conn[c] # Free /\ conn[c] \in Statements /\ conn[c].answer.kind = "none"
  BY <1>0, <1>1 DEF Running
<1>3. /\ conn'[c].by = conn[c].by /\ conn'[c].call = conn[c].call /\ conn'[c].op = conn[c].op
      /\ conn'[c].id = conn[c].id /\ conn'[c].answer = [kind |-> "ok", saw |-> Found(conn[c])]
      /\ conn'[c] \in Statements
      /\ \A d \in Connections : d # c => conn'[d] = conn[d]
  <2>1. conn'[c] = [conn[c] EXCEPT !.answer = [kind |-> "ok", saw |-> Found(conn[c])]]
        /\ \A d \in Connections : d # c => conn'[d] = conn[d]
    BY <1>0, <1>1
  <2>2. conn'[c] \in {Free} \union Statements
    BY DEF StoreInv, Types
  <2>3. /\ conn'[c].by = conn[c].by /\ conn'[c].call = conn[c].call /\ conn'[c].op = conn[c].op
        /\ conn'[c].id = conn[c].id /\ conn'[c].answer = [kind |-> "ok", saw |-> Found(conn[c])]
    BY <1>2, <2>1 DEF Statements
  <2>4. conn'[c] # Free
    <3>1. DOMAIN conn'[c] = DOMAIN conn[c]
      BY <2>1
    <3>2. "call" \in DOMAIN conn[c]
      BY <1>2 DEF Statements
    <3>3. "call" \notin DOMAIN Free
      BY DEF Free
    <3>. QED
      BY <3>1, <3>2, <3>3
  <2>. QED
    BY <2>1, <2>2, <2>3, <2>4
<1>4. conn'[c] # Free
  BY <1>3, BusyIsNot
<1>5. \A t \in Tasks, d \in Connections : Waits(t, d)' <=> Waits(t, d)
  BY <1>1, <1>2, <1>3, <1>4 DEF Waits
<1>6. \A d \in Connections : d # c => (Astray(d)' <=> Astray(d)) /\ StrayOf(d)' = StrayOf(d)
  BY <1>3, <1>5 DEF Astray, Abandoned, Running, StrayOf
<1>7. ~Astray(c)'
  <2>1. conn'[c].answer.kind = "ok"
    BY <1>3
  <2>. QED
    BY <2>1 DEF Astray, Running
<1>8. CASE \E t \in Tasks : Waits(t, c)
  <2>1. PICK t \in Tasks : Waits(t, c)
    BY <1>8
  <2>2. task[t] # Idle /\ task[t] \in Busy /\ task[t].at = "sent"
    BY <1>0, <2>1 DEF Waits, Idle
  <2>3. conn[c].op = task[t].op /\ conn[c].id = task[t].id /\ conn[c].call = task[t].call
    BY <2>1, <2>2 DEF StoreInv, Numbered, Waits
  <2>4. \A d \in Connections : Waits(t, d) => d = c
    BY <2>1, <2>2 DEF StoreInv, Numbered, Waits
  <2>5. CallOf(t) = [op |-> task[t].op, id |-> task[t].id, value |-> task[t].call,
                     done |-> FALSE, saw |-> {}]
    BY <1>2, <2>2, <2>4, CallSeen DEF CallCases
  <2>6. CallOf(t)' = [op |-> task[t].op, id |-> task[t].id, value |-> task[t].call,
                      done |-> TRUE, saw |-> Found(conn[c])]
    <3>1. Waits(t, c)' /\ task'[t] = task[t] /\ conn'[c].answer.kind = "ok"
          /\ conn'[c].answer.saw = Found(conn[c])
      BY <1>1, <1>3, <1>5, <2>1
    <3>2. CallCases(t)'
      BY CallSeenNext
    <3>. QED
      BY <2>2, <3>1, <3>2 DEF CallCases
  <2>7. \A u \in Tasks : u # t => ~Waits(u, c)
    BY <2>1 DEF Waits
  <2>8. ASSUME NEW u \in Tasks, u # t PROVE CallOf(u)' = CallOf(u)
    <3>1. CASE task[u] = Idle
      BY <1>1, <3>1, SameIdle
    <3>2. CASE task[u] # Idle
      <4>1. \A d \in Connections :
              (Waits(u, d) /\ conn[d].answer.kind = "ok")' <=> (Waits(u, d) /\ conn[d].answer.kind = "ok")
        BY <1>3, <1>5, <2>7, <2>8
      <4>2. \A d \in Connections :
              Waits(u, d) /\ conn[d].answer.kind = "ok" => conn'[d].answer.saw = conn[d].answer.saw
        BY <1>3, <2>7, <2>8
      <4>. QED
        BY <1>1, <3>2, <4>1, <4>2, SameCall
    <3>. QED
      BY <3>1, <3>2
  <2>9. Stray' = Stray
    <3>1. ~Astray(c)
      BY <2>1 DEF Astray, Abandoned
    <3>. QED
      BY <1>6, <1>7, <3>1, SameStray
  <2>10. task[t].op \in Ops /\ task[t].id \in Ids
    BY <2>2 DEF Busy
  <2>11. rows' = IF task[t].op \in {"store", "delete"}
                 THEN [rows EXCEPT ![task[t].id] = IF task[t].op = "store" THEN task[t].call ELSE 0]
                 ELSE rows
    BY <2>3, <2>10 DEF Run, Ops
  <2>12. Found(conn[c]) = IF task[t].op \in {"get", "search"}
           THEN {<<j, rows[j]>> : j \in {k \in Ids : rows[k] # 0 /\ (task[t].op = "get" => k = task[t].id)}}
           ELSE {}
    <3>1. CASE task[t].op = "get"
      <4>1. {j \in {task[t].id} : rows[j] # 0} = {k \in Ids : rows[k] # 0 /\ k = task[t].id}
        BY <2>10
      <4>2. Found(conn[c]) = {<<i, rows[i]>> : i \in {j \in {task[t].id} : rows[j] # 0}}
        BY <2>3, <3>1 DEF Found
      <4>. QED
        BY <3>1, <4>1, <4>2
    <3>2. CASE task[t].op = "search"
      <4>1. Found(conn[c]) = {<<i, rows[i]>> : i \in {j \in Ids : rows[j] # 0}}
        BY <2>3, <3>2 DEF Found
      <4>. QED
        BY <3>2, <4>1
    <3>3. CASE task[t].op \in {"store", "delete"}
      BY <2>3, <3>3 DEF Found
    <3>. QED
      BY <2>10, <3>1, <3>2, <3>3 DEF Ops
  <2>13. Store!Effect(t)
    <3>. DEFINE call == [u \in Tasks |-> CallOf(u)]
                k == CallOf(t)
    <3>1. k # [op |-> "idle"] /\ ~k.done /\ k.op = task[t].op /\ k.id = task[t].id /\ k.value = task[t].call
      BY <2>5, <2>10 DEF Ops
    <3>2. rows' = IF k.op \in Store!Writes THEN Store!Written(rows, k.op, k.id, k.value) ELSE rows
      BY <2>11, <3>1 DEF Store!Writes, Store!Written
    <3>3. Found(conn[c]) = IF k.op \in Store!Reads THEN Store!Seen(rows, k.op, k.id) ELSE {}
      BY <2>12, <3>1 DEF Store!Reads, Store!Seen
    <3>4. CallOf(t)' = [k EXCEPT !.done = TRUE, !.saw = Found(conn[c])]
      <4>. DEFINE found == Found(conn[c])
                  op == task[t].op
                  id == task[t].id
                  value == task[t].call
      <4>1. k = [op |-> op, id |-> id, value |-> value, done |-> FALSE, saw |-> {}]
        BY <2>5
      <4>2. CallOf(t)' = [op |-> op, id |-> id, value |-> value, done |-> TRUE, saw |-> found]
        BY <2>6
      <4>. HIDE DEF found, op, id, value, k
      <4>3. [[op |-> op, id |-> id, value |-> value, done |-> FALSE, saw |-> {}]
               EXCEPT !.done = TRUE, !.saw = found]
              = [op |-> op, id |-> id, value |-> value, done |-> TRUE, saw |-> found]
        BY DoneRecord
      <4>4. CallOf(t)' = [k EXCEPT !.done = TRUE, !.saw = found]
        BY <4>1, <4>2, <4>3
      <4>. QED
        BY <4>4 DEF found
    <3>. HIDE DEF k
    <3>5. [u \in Tasks |-> CallOf(u)'] =
            [call EXCEPT ![t].done = TRUE,
                         ![t].saw = IF k.op \in Store!Reads THEN Store!Seen(rows, k.op, k.id) ELSE {}]
      BY <2>8, <3>3, <3>4 DEF k
    <3>. QED
      BY <1>1, <2>9, <3>1, <3>2, <3>5 DEF Store!Effect, Store!Idle, k
  <2>. QED
    BY <2>13 DEF Store!Next
<1>9. CASE \A t \in Tasks : ~Waits(t, c)
  <2>1. \A t \in Tasks : CallOf(t)' = CallOf(t)
    BY <1>1, <1>3, <1>5, <1>9, ConnFrame
  <2>2. CASE conn[c].op \in {"store", "delete"}
    <3>1. Astray(c)
      BY <1>1, <1>2, <1>9, <2>2 DEF Astray, Abandoned
    <3>2. Stray' = Stray \ {StrayOf(c)} /\ StrayOf(c) \in Stray
      BY <1>6, <1>7, <3>1, LessStray
    <3>3. rows' = Store!Written(rows, StrayOf(c).op, StrayOf(c).id, StrayOf(c).value)
      BY <2>2 DEF Run, StrayOf, Store!Written
    <3>4. Store!StrayEnds(StrayOf(c))
      BY <1>1, <2>1, <3>2, <3>3 DEF Store!StrayEnds
    <3>. QED
      BY <3>2, <3>4 DEF Store!Next
  <2>3. CASE conn[c].op \notin {"store", "delete"}
    <3>1. rows' = rows
      BY <2>3 DEF Run
    <3>2. Stray' = Stray
      BY <1>6, <1>7, <2>3, SameStray DEF Astray
    <3>. QED
      BY <1>1, <2>1, <3>1, <3>2, StoreStutters
  <2>. QED
    BY <2>2, <2>3
<1>. QED
  BY <1>8, <1>9

(* A statement that is refused: its caller has not seen the answer yet;    *)
(* an abandoned change ends without effect.                                *)
LEMMA RefuseHidden ==
  ASSUME StoreInv, StoreInv', NEW c \in Connections, NEW why \in {"busy", "error"}, Refuse(c, why)
  PROVE  Store!Next \/ UNCHANGED Store!storeVars
<1>0. conn \in [Connections -> {Free} \union Statements]
  BY DEF StoreInv, Types
<1>1. /\ Running(c) /\ conn' = [conn EXCEPT ![c].answer = [kind |-> why]]
      /\ UNCHANGED <<rows, task, result, made>>
  BY DEF Refuse
<1>2. conn[c] # Free /\ conn[c] \in Statements /\ conn[c].answer.kind = "none"
  BY <1>0, <1>1 DEF Running
<1>3. conn'[c].answer.kind = why /\ \A d \in Connections : d # c => conn'[d] = conn[d]
  BY <1>0, <1>1, <1>2 DEF Statements
<1>4. why # "ok" /\ why # "none"
  OBVIOUS
<1>5. \A t \in Tasks : CallOf(t)' = CallOf(t)
  BY <1>1, <1>2, <1>3, <1>4, ConnFrame
<1>6. \A t \in Tasks, d \in Connections : d # c => (Waits(t, d)' <=> Waits(t, d))
  BY <1>1, <1>3 DEF Waits
<1>7. \A d \in Connections : d # c => (Astray(d)' <=> Astray(d)) /\ StrayOf(d)' = StrayOf(d)
  BY <1>3, <1>6 DEF Astray, Abandoned, Running, StrayOf
<1>8. ~Astray(c)'
  BY <1>3, <1>4 DEF Astray, Running
<1>9. CASE Astray(c)
  <2>1. Stray' = Stray \ {StrayOf(c)} /\ StrayOf(c) \in Stray
    BY <1>7, <1>8, <1>9, LessStray
  <2>2. Store!StrayEnds(StrayOf(c))
    BY <1>1, <1>5, <2>1 DEF Store!StrayEnds
  <2>. QED
    BY <2>1, <2>2 DEF Store!Next
<1>10. CASE ~Astray(c)
  <2>1. Stray' = Stray
    BY <1>7, <1>8, <1>10, SameStray
  <2>. QED
    BY <1>1, <1>5, <2>1, StoreStutters
<1>. QED
  BY <1>9, <1>10

(* A connection that goes back to the pool is not seen.                    *)
LEMMA GiveBackHidden ==
  ASSUME StoreInv, StoreInv', NEW c \in Connections, GiveBack(c)
  PROVE  UNCHANGED Store!storeVars
<1>0. conn \in [Connections -> {Free} \union Statements]
  BY DEF StoreInv, Types
<1>1. /\ Abandoned(c) /\ conn[c].answer.kind # "none" /\ conn' = [conn EXCEPT ![c] = Free]
      /\ UNCHANGED <<rows, task, result, made>>
  BY DEF GiveBack
<1>2. conn'[c] = Free /\ \A d \in Connections : d # c => conn'[d] = conn[d]
  BY <1>0, <1>1
<1>3. \A t \in Tasks : ~Waits(t, c) /\ ~Waits(t, c)'
  BY <1>1, <1>2 DEF Abandoned, Waits
<1>4. \A t \in Tasks : CallOf(t)' = CallOf(t)
  BY <1>1, <1>2, <1>3, ConnFrame
<1>5. \A t \in Tasks, d \in Connections : d # c => (Waits(t, d)' <=> Waits(t, d))
  BY <1>1, <1>2 DEF Waits
<1>6. \A d \in Connections : d # c => (Astray(d)' <=> Astray(d)) /\ StrayOf(d)' = StrayOf(d)
  BY <1>2, <1>5 DEF Astray, Abandoned, Running, StrayOf
<1>7. ~Astray(c) /\ ~Astray(c)'
  BY <1>1, <1>2 DEF Astray, Abandoned, Running
<1>8. Stray' = Stray
  BY <1>6, <1>7, SameStray
<1>. QED
  BY <1>1, <1>4, <1>8, StoreStutters

(* The empty database is the abstract store's.                             *)
LEMMA InitIsStore ==
  ASSUME MaxCalls \in Nat, Init
  PROVE  StoreInv /\ Store!Init
<1>1. Types
  BY DEF Init, Types, Answers
<1>2. /\ \A t \in Tasks : task[t] = Idle
      /\ \A c \in Connections : conn[c] = Free
  BY DEF Init
<1>3. Numbered
  BY <1>2 DEF Numbered
<1>4. Stray = {}
  BY <1>2 DEF Stray, Abandoned
<1>5. \A t \in Tasks : CallOf(t) = [op |-> "idle"]
  BY <1>2 DEF CallOf
<1>. QED
  BY <1>1, <1>3, <1>4, <1>5 DEF StoreInv, Init, Store!Init, Store!Idle

(* Every step of the backend is a step of the store, or is not seen.       *)
LEMMA StepIsStore ==
  ASSUME MaxCalls \in Nat, StoreInv, StoreInv', [Next]_sqliteVars
  PROVE  [Store!Next]_Store!storeVars
<1>1. CASE UNCHANGED sqliteVars
  <2>1. /\ rows' = rows /\ result' = result /\ task' = task /\ conn' = conn
    BY <1>1 DEF sqliteVars
  <2>2. \A t \in Tasks, c \in Connections : Waits(t, c)' <=> Waits(t, c)
    BY <2>1 DEF Waits
  <2>3. Stray' = Stray
    BY <2>1, <2>2, SameStray DEF Astray, Abandoned, Running, StrayOf
  <2>4. ASSUME NEW t \in Tasks PROVE CallOf(t)' = CallOf(t)
    BY <2>1, <2>2, SameIdle, SameCall
  <2>. QED
    BY <2>1, <2>3, <2>4, StoreStutters
<1>2. ASSUME NEW t \in Tasks, NEW op \in Ops, NEW i \in Ids, Begin(t, op, i)
      PROVE  Store!Next
  BY <1>2, BeginInvokes
<1>3. ASSUME NEW t \in Tasks, Send(t) \/ Again(t) PROVE UNCHANGED Store!storeVars
  BY <1>3, SendHidden, AgainHidden
<1>4. ASSUME NEW t \in Tasks, TimeOut(t) PROVE Store!Next
  BY <1>4, TimeOutErrs
<1>5. ASSUME NEW t \in Tasks, NEW c \in Connections, Answered(t, c)
      PROVE  Store!Next \/ UNCHANGED Store!storeVars
  BY <1>5, AnsweredReturns
<1>6. ASSUME NEW c \in Connections, Run(c) \/ GiveBack(c) \/ \E why \in {"busy", "error"} : Refuse(c, why)
      PROVE  Store!Next \/ UNCHANGED Store!storeVars
  BY <1>6, RunTakesEffect, GiveBackHidden, RefuseHidden
<1>. QED
  BY <1>1, <1>2, <1>3, <1>4, <1>5, <1>6 DEF Next, Ops

(* The backend keeps the promise of the Memory trait, however many tasks,  *)
(* connections, retries and timeouts there are: a change has its effect    *)
(* once and before its Ok, and a dropped call at most once more.           *)
THEOREM BackendKeepsPromise ==
  ASSUME MaxCalls \in Nat
  PROVE  Spec => ImplementsStore
<1>1. Init => StoreInv /\ Store!Init
  BY InitIsStore
<1>2. StoreInv /\ [Next]_sqliteVars => StoreInv'
  BY NextStoreInv
<1>3. StoreInv /\ StoreInv' /\ [Next]_sqliteVars => [Store!Next]_Store!storeVars
  BY StepIsStore
<1>. QED
  BY <1>1, <1>2, <1>3, PTL DEF Spec, ImplementsStore, Store!Spec
=============================================================================
