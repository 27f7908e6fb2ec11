------------------------------- MODULE S3Files -------------------------------
(***************************************************************************)
(* The S3 file store (skyclaw-filestore, s3.rs): multipart uploads of      *)
(* streams and listings in pages, over a bucket that other callers change  *)
(* between the requests.  Every request may fail.  The bytes of a stream   *)
(* are numbered; a part is a run of them, and the buffer holds those from  *)
(* u.from to u.sent.                                                       *)
(***************************************************************************)
EXTENDS Integers, Sequences, FiniteSets

CONSTANTS
  Clients,    \* callers of the store
  Keys,       \* the keys in the order S3 lists them, as numbers from 1
  MinPart,    \* MIN_PART_SIZE
  Chunks,     \* sizes of the chunks of a stream
  Page,       \* objects in a page of a listing
  MaxStream,  \* the longest stream
  MaxCalls    \* calls in a behaviour

VARIABLES
  bucket,     \* the object under each key: its parts, and the bytes its writer had
  client,     \* what each caller is doing
  calls       \* calls so far

bucketVars == <<bucket, client, calls>>

Idle == [at |-> "idle"]
Upload(k) == [at |-> "created", key |-> k, sent |-> 0, from |-> 1, parts |-> <<>>]
Listing == [at |-> "page", token |-> 0, pages |-> <<>>, since |-> DOMAIN bucket, until |-> DOMAIN bucket]

Run(first, last) == [first |-> first, last |-> last]
Length(p) == p.last + 1 - p.first
Object(parts, n) == [parts |-> parts, size |-> n]

TypeOK ==
  /\ DOMAIN bucket \subseteq Keys
  /\ \A c \in Clients : client[c].at \in {"idle", "created", "sent", "refused", "page", "listed"}
  /\ calls \in 0..MaxCalls

Init == bucket = [k \in {} |-> Object(<<>>, 0)] /\ client = [c \in Clients |-> Idle] /\ calls = 0

May(c) == client[c] = Idle /\ calls < MaxCalls

Busy(c) == client[c].at \notin {"idle", "refused"}

(* The answer of S3 to any request of a caller may be an error: the call    *)
(* ends there, and an upload that was begun is not aborted.                *)
Fails(c) ==
  /\ Busy(c) /\ client[c].at # "listed"
  /\ client' = [client EXCEPT ![c] = Idle]
  /\ UNCHANGED <<bucket, calls>>

(* What a change of the bucket means to the listings that are under way. *)
Seen(now) ==
  [d \in Clients |-> IF client[d].at # "page" THEN client[d]
                     ELSE [client[d] EXCEPT !.since = @ \cap now, !.until = @ \cup now]]

Objects(k, b) == [j \in DOMAIN bucket \cup {k} |-> IF j = k THEN b ELSE bucket[j]]

Store(c, k, n) ==
  /\ May(c)
  /\ bucket' = Objects(k, Object(<<Run(1, n)>>, n)) /\ client' = Seen(DOMAIN bucket') /\ calls' = calls + 1

Delete(c, k) ==
  /\ May(c)
  /\ bucket' = [j \in DOMAIN bucket \ {k} |-> bucket[j]]
  /\ client' = Seen(DOMAIN bucket') /\ calls' = calls + 1

-----------------------------------------------------------------------------
StoreStream(c, k) ==
  /\ May(c)
  /\ client' = [client EXCEPT ![c] = Upload(k)] /\ calls' = calls + 1
  /\ UNCHANGED bucket

Buffer(u) == Run(u.from, u.sent)
Part(u) == Append(u.parts, Buffer(u))

(* A part is sent as soon as the buffer reaches the minimum. *)
Full(u) == Length(Buffer(u)) >= MinPart

Chunk(c, n) ==
  LET u == [client[c] EXCEPT !.sent = @ + n] IN
  /\ client[c].at = "created" /\ u.sent <= MaxStream
  /\ client' = [client EXCEPT ![c] =
       IF Full(u) THEN [u EXCEPT !.parts = Part(u), !.from = u.sent + 1] ELSE u]
  /\ UNCHANGED <<bucket, calls>>

(* The rest, or one empty part when there is none: S3 wants at least one. *)
Remaining(u) == Length(Buffer(u)) > 0 \/ u.parts = <<>>

EndOfStream(c) ==
  LET u == client[c] IN
  /\ u.at = "created"
  /\ client' = [client EXCEPT ![c] =
       [u EXCEPT !.at = "sent", !.parts = IF Remaining(u) THEN Part(u) ELSE @]]
  /\ UNCHANGED <<bucket, calls>>

(* S3 refuses an upload without parts or with a short part before the last. *)
Acceptable(parts) == parts # <<>> /\ \A i \in 1..Len(parts) - 1 : Length(parts[i]) >= MinPart

Complete(c) ==
  LET u == client[c] IN
  /\ u.at = "sent"
  /\ IF Acceptable(u.parts)
     THEN /\ bucket' = Objects(u.key, Object(u.parts, u.sent))
          /\ client' = [Seen(DOMAIN bucket') EXCEPT ![c] = Idle]
     ELSE client' = [client EXCEPT ![c] = [u EXCEPT !.at = "refused"]] /\ UNCHANGED bucket
  /\ UNCHANGED calls

-----------------------------------------------------------------------------
ListObjects(c) ==
  /\ May(c)
  /\ client' = [client EXCEPT ![c] = Listing] /\ calls' = calls + 1
  /\ UNCHANGED bucket

After(token) == {k \in DOMAIN bucket : k > token}
PageOf(token) == {k \in After(token) : Cardinality({j \in After(token) : j < k}) < Page}

(* The loop goes on with the continuation token while a page is truncated. *)
Truncated(page, token) == page # After(token)

Last(page, k) == k \in page /\ \A j \in page : j <= k

NextPage(c) ==
  LET u == client[c]
      page == PageOf(u.token)
      read == [u EXCEPT !.pages = Append(@, page)]
  IN
  /\ u.at = "page"
  /\ \/ /\ ~Truncated(page, u.token)
        /\ client' = [client EXCEPT ![c] = [read EXCEPT !.at = "listed"]]
     \/ /\ Truncated(page, u.token)
        /\ \E k \in Keys : Last(page, k) /\ client' = [client EXCEPT ![c] = [read EXCEPT !.token = k]]
  /\ UNCHANGED <<bucket, calls>>

Return(c) ==
  /\ client[c].at \in {"listed", "refused"}
  /\ client' = [client EXCEPT ![c] = Idle]
  /\ UNCHANGED <<bucket, calls>>

Next == \E c \in Clients :
  \/ \E k \in Keys : Delete(c, k) \/ StoreStream(c, k) \/ \E n \in Chunks : Store(c, k, n)
  \/ \E n \in Chunks : Chunk(c, n)
  \/ EndOfStream(c) \/ Complete(c) \/ Fails(c)
  \/ ListObjects(c) \/ NextPage(c) \/ Return(c)

Spec == Init /\ [][Next]_bucketVars

-----------------------------------------------------------------------------
(* An object in the bucket is a whole stream, from its first byte to its   *)
(* last and in order, although the upload went in parts and any request of *)
(* it may have failed; and S3 never refuses the parts the code has chosen. *)
Adjoin(parts) == \A i \in 1..Len(parts) - 1 : parts[i + 1].first = parts[i].last + 1
Whole(o) == /\ o.parts # <<>> /\ o.parts[1].first = 1 /\ Adjoin(o.parts)
            /\ o.parts[Len(o.parts)].last = o.size
ObjectsWhole ==
  /\ \A k \in DOMAIN bucket : Whole(bucket[k])
  /\ \A c \in Clients : client[c].at # "refused"

(* A listing of several pages returns, in order and each once, all the     *)
(* keys that were in the bucket throughout and no other but keys that were *)
(* there for some of the time.                                             *)
Listed(u) == UNION {u.pages[i] : i \in DOMAIN u.pages}
InOrder(u) == \A i, j \in DOMAIN u.pages : i < j => \A k \in u.pages[i], l \in u.pages[j] : k < l
PagesComplete ==
  \A c \in Clients : client[c].at = "listed" =>
    /\ client[c].since \subseteq Listed(client[c])
    /\ Listed(client[c]) \subseteq client[c].until
    /\ InOrder(client[c])

-----------------------------------------------------------------------------
(* What holds between any two steps.  The parts of an upload adjoin and    *)
(* end where the buffer begins, and each is long enough; once all are sent *)
(* they are the whole stream.  A listing has all the keys up to its token  *)
(* that were there throughout, and none beyond it.                         *)
Runs == [first : Nat, last : Nat]
Parts == Seq(Runs)
Uploads == [at : {"created", "sent"}, key : Keys, sent : Nat, from : Nat, parts : Parts]
Listings == [at : {"page", "listed"}, token : Nat, pages : Seq(SUBSET Keys), since : SUBSET Keys, until : SUBSET Keys]
BucketTypes ==
  /\ DOMAIN bucket \subseteq Keys /\ IsFiniteSet(DOMAIN bucket)
  /\ bucket \in [DOMAIN bucket -> [parts : Parts, size : Nat]]
  /\ client \in [Clients -> {Idle} \union Uploads \union Listings]
  /\ calls \in 0..MaxCalls

Sent(u) ==
  /\ u.from <= u.sent + 1 /\ Adjoin(u.parts)
  /\ IF u.parts = <<>> THEN u.from = 1
     ELSE u.parts[1].first = 1 /\ u.parts[Len(u.parts)].last + 1 = u.from
  /\ \A i \in DOMAIN u.parts : Length(u.parts[i]) >= MinPart

Turned(u) ==
  /\ \A k \in u.since : k <= u.token => k \in Listed(u)
  /\ \A k \in Listed(u) : k <= u.token
  /\ u.since \subseteq DOMAIN bucket /\ DOMAIN bucket \subseteq u.until
  /\ Listed(u) \subseteq u.until /\ InOrder(u)

Progress(u) ==
  /\ u.at = "created" => Sent(u)
  /\ u.at = "sent" => Acceptable(u.parts) /\ Whole(Object(u.parts, u.sent))
  /\ u.at = "page" => Turned(u)
  /\ u.at = "listed" => u.since \subseteq Listed(u) /\ Listed(u) \subseteq u.until /\ InOrder(u)

BucketInv ==
  /\ BucketTypes
  /\ \A k \in DOMAIN bucket : Whole(bucket[k])
  /\ \A c \in Clients : Progress(client[c])
=============================================================================
