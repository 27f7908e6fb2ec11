------------------------------ MODULE LocalFiles ------------------------------
(***************************************************************************)
(* The local file store (skyclaw-filestore, local.rs).  Several callers    *)
(* store, read, delete and list files below one base directory; every call *)
(* is a few file system operations with others in between.  A storage path *)
(* is a sequence of components as the caller spells it.                    *)
(***************************************************************************)
EXTENDS Integers, Sequences, FiniteSets

CONSTANTS
  Clients,    \* callers of the store
  Paths,      \* storage paths, with components such as ".." and "/"
  Data,       \* contents
  MaxCalls    \* calls in a behaviour

VARIABLES
  files,      \* what each file holds; "" when it has just been created
  dirs,       \* the directories below the base, the base being <<>>
  client,     \* what each caller is doing
  calls,      \* calls so far
  stored      \* history: per file, what the last call to change it left there

localVars == <<files, dirs, client, calls, stored>>

Special == {"..", ".", "/"}

(* Only normal components are kept: spellings of one file collapse. *)
Resolve(path) ==
  LET kept == {i \in DOMAIN path : path[i] \notin Special}
      rank(i) == Cardinality({j \in kept : j <= i})
  IN [n \in 1..Cardinality(kept) |-> path[CHOOSE i \in kept : rank(i) = n]]

Places == {Resolve(p) : p \in Paths} \ {<<>>}
Parent(p) == SubSeq(p, 1, Len(p) - 1)
Above(p) == {SubSeq(p, 1, n) : n \in 0..Len(p)}
Folders == {<<>>} \cup UNION {Above(p) : p \in Places}

Nothing == "-"      \* history: no file
Unsure == "?"       \* history: calls overlapped on it

Idle == [at |-> "idle"]
Call(what, p, data) == [at |-> what, path |-> p, data |-> data, clean |-> TRUE, todo |-> <<>>,
                        found |-> <<>>, since |-> {}, until |-> {}]

TypeOK ==
  /\ DOMAIN files \subseteq Places /\ \A p \in DOMAIN files : files[p] \in Data \cup {""}
  /\ <<>> \in dirs /\ dirs \subseteq Folders
  /\ \A c \in Clients : client[c].at \in {"idle", "create", "write", "lost", "read", "answer",
                                          "remove", "list", "listed"}
  /\ calls \in 0..MaxCalls
  /\ stored \in [Places -> Data \cup {Nothing, Unsure}]

Init ==
  /\ files = [p \in {} |-> ""] /\ dirs = {<<>>}
  /\ client = [c \in Clients |-> Idle] /\ calls = 0
  /\ stored = [p \in Places |-> Nothing]

-----------------------------------------------------------------------------
Exists(p) == p \in DOMAIN files \/ p \in dirs

May(c) == client[c] = Idle /\ calls < MaxCalls

(* A change of p spoils the answers of the calls that are under way on p,  *)
(* and a listing has seen p come or go.                                    *)
Noticed(c, p, now) ==
  [d \in Clients |->
     IF d = c \/ client[d] = Idle THEN client[d]
     ELSE [client[d] EXCEPT !.clean = @ /\ client[d].path # p,
                            !.since = IF p \in now THEN @ ELSE @ \ {p},
                            !.until = @ \cup {p}]]

Others(c, p) == \E d \in Clients \ {c} :
                  client[d] # Idle /\ client[d].path = p /\ client[d].at \in {"create", "write", "lost", "remove"}

(* create_dir_all on the parent; a file in the way is an error. *)
Store(c, path, data) ==
  LET p == Resolve(path) IN
  /\ May(c)
  /\ calls' = calls + 1
  /\ IF p = <<>> \/ Above(Parent(p)) \cap DOMAIN files # {}
     THEN UNCHANGED <<dirs, client>>
     ELSE /\ dirs' = dirs \cup Above(Parent(p))
          /\ client' = [client EXCEPT ![c] = Call("create", p, data)]
  /\ UNCHANGED <<files, stored>>

(* Mutant of Create: a file that exists is left as it is. *)
CreateNew(c) ==
  LET p == client[c].path IN
  /\ client[c].at = "create"
  /\ IF Exists(p)
     THEN /\ client' = [client EXCEPT ![c] = Idle] /\ UNCHANGED files
          /\ stored' = [stored EXCEPT ![p] = IF Others(c, p) THEN Unsure ELSE client[c].data]
     ELSE /\ files' = [q \in DOMAIN files \cup {p} |-> IF q = p THEN "" ELSE files[q]]
          /\ client' = [Noticed(c, p, DOMAIN files) EXCEPT ![c] = [client[c] EXCEPT !.at = "write"]]
          /\ stored' = [stored EXCEPT ![p] = Unsure]
  /\ UNCHANGED <<dirs, calls>>

(* fs::write opens the file empty; a directory of that name is an error. *)
Create(c) ==
  LET p == client[c].path IN
  /\ client[c].at = "create"
  /\ IF p \in dirs
     THEN client' = [client EXCEPT ![c] = Idle] /\ UNCHANGED <<files, stored>>
     ELSE /\ files' = [q \in DOMAIN files \cup {p} |-> IF q = p THEN "" ELSE files[q]]
          /\ client' = [Noticed(c, p, DOMAIN files) EXCEPT ![c] = [client[c] EXCEPT !.at = "write"]]
          /\ stored' = [stored EXCEPT ![p] = Unsure]
  /\ UNCHANGED <<dirs, calls>>

Write(c) ==
  LET p == client[c].path IN
  /\ client[c].at = "write"
  /\ files' = [files EXCEPT ![p] = client[c].data]
  /\ client' = [Noticed(c, p, DOMAIN files) EXCEPT ![c] = Idle]
  /\ stored' = [stored EXCEPT ![p] = IF client[c].clean /\ ~Others(c, p) THEN client[c].data ELSE Unsure]
  /\ UNCHANGED <<dirs, calls>>

(* The data go to the file that was opened, although it has been removed. *)
WriteLost(c) ==
  /\ client[c].at = "lost"
  /\ client' = [client EXCEPT ![c] = Idle]
  /\ UNCHANGED <<files, dirs, calls, stored>>

-----------------------------------------------------------------------------
(* get and delete look whether the path exists and act in a later step.    *)
Look(c, what, path) ==
  LET p == Resolve(path) IN
  /\ May(c)
  /\ calls' = calls + 1
  /\ client' = [client EXCEPT ![c] =
       IF p # <<>> /\ Exists(p) THEN Call(what, p, "")
       ELSE IF p # <<>> /\ what = "read" THEN Call("answer", p, Nothing) ELSE Idle]
  /\ UNCHANGED <<files, dirs, stored>>

Get(c, path) == Look(c, "read", path)
Delete(c, path) == Look(c, "remove", path)

(* Reading a directory, or a file that has gone, is an error. *)
Read(c) ==
  LET p == client[c].path IN
  /\ client[c].at = "read"
  /\ client' = [client EXCEPT ![c] = IF p \in DOMAIN files
                                     THEN [@ EXCEPT !.at = "answer", !.data = files[p]] ELSE Idle]
  /\ UNCHANGED <<files, dirs, calls, stored>>

RemoveFile(c) ==
  LET p == client[c].path IN
  /\ client[c].at = "remove"
  /\ files' = [q \in DOMAIN files \ {p} |-> files[q]]
  /\ client' = [d \in Clients |->
       IF d = c THEN Idle
       ELSE IF client[d].at = "write" /\ client[d].path = p THEN [client[d] EXCEPT !.at = "lost"]
       ELSE Noticed(c, p, {})[d]]
  /\ stored' = IF p \in DOMAIN files
               THEN [stored EXCEPT ![p] = IF Others(c, p) THEN Unsure ELSE Nothing] ELSE stored
  /\ UNCHANGED <<dirs, calls>>

-----------------------------------------------------------------------------
(* The prefix names a directory or one file; the empty one is the base.    *)
Listing(p) == [at |-> "list", path |-> p, data |-> "", clean |-> TRUE, todo |-> <<p>>, found |-> <<>>,
               since |-> {q \in DOMAIN files : p \in Above(q)}, until |-> DOMAIN files]

List(c, path) ==
  LET p == Resolve(path) IN
  /\ May(c)
  /\ calls' = calls + 1
  /\ client' = [client EXCEPT ![c] =
       IF Exists(p) /\ (p # <<>> \/ path = <<>>) THEN Listing(p) ELSE Idle]
  /\ UNCHANGED <<files, dirs, stored>>

Children(d) == {q \in DOMAIN files \cup dirs : q # <<>> /\ Parent(q) = d}

(* One directory: its subdirectories are listed next, in the order the     *)
(* file system gives, as the recursion does; whatever is neither a file    *)
(* nor a directory by now is left out.                                     *)
Orders(S) == {f \in [1..Cardinality(S) -> S] : /\ \A x \in S : \E i \in DOMAIN f : f[i] = x
                                               /\ \A i, j \in DOMAIN f : f[i] = f[j] => i = j}

FilesAt(p) == (IF p \in dirs THEN Children(p) ELSE {p}) \cap DOMAIN files

Onward(u, order) ==
  [u EXCEPT !.todo = order \o Tail(@), !.found = Append(@, FilesAt(Head(u.todo)))]

ListRecursive(c) ==
  /\ client[c].at = "list" /\ client[c].todo # <<>>
  /\ \E order \in Orders(Children(Head(client[c].todo)) \cap dirs) :
       client' = [client EXCEPT ![c] = Onward(@, order)]
  /\ UNCHANGED <<files, dirs, calls, stored>>

Listed(c) ==
  /\ client[c].at = "list" /\ client[c].todo = <<>>
  /\ client' = [client EXCEPT ![c] = [@ EXCEPT !.at = "listed"]]
  /\ UNCHANGED <<files, dirs, calls, stored>>

Return(c) ==
  /\ client[c].at \in {"answer", "listed"}
  /\ client' = [client EXCEPT ![c] = Idle]
  /\ UNCHANGED <<files, dirs, calls, stored>>

Next == \E c \in Clients :
  \/ \E p \in Paths : \/ \E d \in Data : Store(c, p, d)
                      \/ Get(c, p) \/ Delete(c, p) \/ List(c, p)
  \/ Create(c) \/ Write(c) \/ WriteLost(c) \/ Read(c) \/ RemoveFile(c)
  \/ ListRecursive(c) \/ Listed(c) \/ Return(c)

Spec == Init /\ [][Next]_localVars

-----------------------------------------------------------------------------
(* get answers what the last call left in the file, under whichever        *)
(* spelling of the path it was stored or deleted, unless calls overlapped  *)
(* on that file.                                                           *)
GetCurrent ==
  \A c \in Clients : client[c].at = "answer" =>
    LET now == stored[client[c].path]
    IN ~client[c].clean \/ now = Unsure \/ client[c].data = now

(* A listing returns, each once, all the files below its prefix that were  *)
(* there throughout, and none that was never there while it ran, whatever  *)
(* other callers did between its steps.                                    *)
Found(u) == UNION {u.found[i] : i \in DOMAIN u.found}
Once(u) == \A i, j \in DOMAIN u.found : i # j => u.found[i] \cap u.found[j] = {}
ListComplete ==
  \A c \in Clients : client[c].at = "listed" =>
    client[c].since \subseteq Found(client[c]) /\ Found(client[c]) \subseteq client[c].until /\ Once(client[c])

-----------------------------------------------------------------------------
(* What holds between any two steps.                                       *)
Calls == [at : {"create", "write", "lost", "read", "answer", "remove", "list", "listed"},
          path : Places \cup {<<>>}, data : Data \cup {"", Nothing}, clean : BOOLEAN,
          todo : Seq(Folders), found : Seq(SUBSET Places), since : SUBSET Places, until : SUBSET Places]
LocalTypes ==
  /\ files \in [DOMAIN files -> Data \cup {""}] /\ DOMAIN files \subseteq Places
  /\ <<>> \in dirs /\ dirs \subseteq Folders /\ IsFiniteSet(dirs)
  /\ client \in [Clients -> {Idle} \cup Calls]
  /\ calls \in 0..MaxCalls
  /\ stored \in [Places -> Data \cup {Nothing, Unsure}]

(* Files and directories are a tree: nothing lies below a file.            *)
Tree == /\ DOMAIN files \cap dirs = {}
        /\ \A d \in dirs : Above(d) \subseteq dirs
        /\ \A q \in DOMAIN files : Above(Parent(q)) \subseteq dirs

(* The history knows what is in a file.                                    *)
Remembered == \A p \in Places :
  /\ stored[p] = Nothing => p \notin DOMAIN files
  /\ stored[p] \in Data => p \in DOMAIN files /\ files[p] = stored[p]

(* A directory yet to be read is above no other, nor above a file found;   *)
(* a file that was there throughout was found or lies below one of them.   *)
Walk(u) ==
  /\ u.since \subseteq DOMAIN files /\ DOMAIN files \subseteq u.until /\ Found(u) \subseteq u.until /\ Once(u)
  /\ \A q \in u.since : q \in Found(u) \/ \E i \in DOMAIN u.todo : u.todo[i] \in Above(q)
  /\ \A i, j \in DOMAIN u.todo : u.todo[i] \in Above(u.todo[j]) => i = j
  /\ \A i \in DOMAIN u.todo : \A q \in Found(u) : u.todo[i] \notin Above(q)

Course(u) ==
  /\ u.at \in {"create", "write", "lost", "read", "answer", "remove"} => u.path \in Places
  /\ u.at = "create" => u.data \in Data /\ Above(Parent(u.path)) \subseteq dirs
  /\ u.at = "write" => u.data \in Data /\ u.path \in DOMAIN files
  /\ u.at = "answer" => ~u.clean \/ stored[u.path] = Unsure \/ u.data = stored[u.path]
  /\ u.at = "list" => Walk(u)
  /\ u.at = "listed" => u.since \subseteq Found(u) /\ Found(u) \subseteq u.until /\ Once(u)

LocalInv == LocalTypes /\ Tree /\ Remembered /\ \A c \in Clients : Course(client[c])
=============================================================================
