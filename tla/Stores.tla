------------------------------- MODULE Stores --------------------------------
(***************************************************************************)
(* Where files, objects and memories are kept, side by side: the local     *)
(* file store, the S3 file store and the memory tool over its two          *)
(* backends.  They share no state, so any behaviour of the platform is a   *)
(* behaviour of each of them; what they promise is proved here, for any    *)
(* clients, paths, contents, keys, chunks, tasks and scopes.               *)
(***************************************************************************)
EXTENDS Integers, Sequences, FiniteSets, Functions, FiniteSetTheorems,
        SequenceTheorems, WellFoundedInduction, NaturalsInduction, TLAPS

CONSTANTS
  FileClients,     \* callers of the two file stores
  FilePaths, FileData, MaxFileCalls,
  ObjectKeys, MinPart, Chunks, ListPage, MaxStream, MaxObjectCalls,
  MemoryTasks, MemoryScopes, MemoryNames, MaxMemoryOps

VARIABLES files, dirs, client, calls, stored,
          bucket, s3Client, s3Calls,
          backend, entries, tool, expected, spoiled, ops

Local == INSTANCE LocalFiles WITH Clients <- FileClients, Paths <- FilePaths, Data <- FileData,
                                  MaxCalls <- MaxFileCalls
Bucket == INSTANCE S3Files WITH Clients <- FileClients, Keys <- ObjectKeys, Page <- ListPage,
                                MaxCalls <- MaxObjectCalls, client <- s3Client, calls <- s3Calls
Mem == INSTANCE MemoryTool WITH Tasks <- MemoryTasks, Scopes <- MemoryScopes, Names <- MemoryNames,
                                MaxOps <- MaxMemoryOps

(* The two marks of the history are no contents.                           *)
ASSUME LocalAssumption ==
  /\ FilePaths \subseteq Seq(STRING) /\ {"-", "?"} \cap FileData = {} /\ MaxFileCalls \in Nat

(* Streams come in chunks, and token 0 is before every key.                *)
ASSUME BucketAssumption ==
  /\ ObjectKeys \subseteq Nat \ {0} /\ Chunks \subseteq Nat /\ MinPart \in Nat
  /\ ListPage \in Nat /\ MaxStream \in Nat /\ MaxObjectCalls \in Nat

(* The scopes, in the order of the fallback.                               *)
ASSUME MemoryAssumption == MemoryScopes \in Seq({"global", "user", "chat"}) /\ MaxMemoryOps \in Nat

-----------------------------------------------------------------------------
(* Files, objects and memories. A get returns what was stored last, a      *)
(* listing misses nothing that was there throughout, a multipart upload    *)
(* shows the whole object or none of it, the memory tool knows what it has *)
(* reported, and recall prefers the scope it is asked for.                 *)
StoresCurrent ==
  /\ Local!TypeOK /\ Local!GetCurrent /\ Local!ListComplete
  /\ Bucket!TypeOK /\ Bucket!ObjectsWhole /\ Bucket!PagesComplete
  /\ Mem!TypeOK /\ Mem!KnowledgeAsReported /\ Mem!RecallPrefersScope

(* The library operators that the components use are those of this module. *)
LEMMA BucketOps ==
  \A S : Bucket!Cardinality(S) = Cardinality(S) /\ Bucket!IsFiniteSet(S) = IsFiniteSet(S)
BY DEF Bucket!Cardinality, Cardinality, Bucket!IsFiniteSet, IsFiniteSet

-----------------------------------------------------------------------------
(* S3: the parts of an upload, and the pages of a listing.                  *)

(* What a client is doing tells what its record holds.                     *)
LEMMA ClientIs ==
  ASSUME Bucket!BucketTypes, NEW c \in FileClients
  PROVE  /\ s3Client[c] \in {Bucket!Idle} \union Bucket!Uploads \union Bucket!Listings
         /\ s3Client[c].at \in {"idle", "created", "sent", "page", "listed"}
         /\ s3Client[c].at \in {"created", "sent"} => s3Client[c] \in Bucket!Uploads
         /\ s3Client[c].at \in {"page", "listed"} => s3Client[c] \in Bucket!Listings
         /\ s3Client[c].at = "idle" => s3Client[c] = Bucket!Idle
<1>1. s3Client[c] \in {Bucket!Idle} \union Bucket!Uploads \union Bucket!Listings
  BY DEF Bucket!BucketTypes
<1>. QED
  BY <1>1 DEF Bucket!Idle, Bucket!Uploads, Bucket!Listings

(* A step of one client that leaves the bucket as it is.                   *)
LEMMA ClientStep ==
  ASSUME Bucket!BucketInv, NEW c \in FileClients, bucket' = bucket, s3Calls' \in 0..MaxObjectCalls,
         NEW v \in {Bucket!Idle} \union Bucket!Uploads \union Bucket!Listings,
         Bucket!Progress(v), s3Client' = [s3Client EXCEPT ![c] = v]
  PROVE  Bucket!BucketInv'
<1>1. Bucket!BucketTypes'
  BY BucketOps DEF Bucket!BucketInv, Bucket!BucketTypes
<1>2. \A k \in DOMAIN bucket' : Bucket!Whole(bucket'[k])
  BY DEF Bucket!BucketInv
<1>3. ASSUME NEW d \in FileClients PROVE Bucket!Progress(s3Client[d])'
  <2>1. s3Client'[d] = v \/ s3Client'[d] = s3Client[d]
    BY DEF Bucket!BucketInv, Bucket!BucketTypes
  <2>2. Bucket!Progress(s3Client'[d])
    BY <2>1 DEF Bucket!BucketInv
  <2>. QED
    BY <2>2 DEF Bucket!Progress, Bucket!Sent, Bucket!Turned, Bucket!Listed, Bucket!InOrder, Bucket!Acceptable,
                Bucket!Whole, Bucket!Adjoin, Bucket!Object, Bucket!Length
<1>. QED
  BY <1>1, <1>2, <1>3 DEF Bucket!BucketInv

(* A change of the bucket, as the listings under way see it.               *)
LEMMA BucketChange ==
  ASSUME Bucket!BucketInv, s3Calls' \in 0..MaxObjectCalls,
         DOMAIN bucket' \subseteq ObjectKeys, IsFiniteSet(DOMAIN bucket'),
         bucket' \in [DOMAIN bucket' -> [parts : Bucket!Parts, size : Nat]],
         \A k \in DOMAIN bucket' : Bucket!Whole(bucket'[k]),
         s3Client' \in [FileClients -> {Bucket!Idle} \union Bucket!Uploads \union Bucket!Listings],
         \A d \in FileClients : s3Client'[d] = Bucket!Idle \/ s3Client'[d] = Bucket!Seen(DOMAIN bucket')[d]
  PROVE  Bucket!BucketInv'
<1>1. Bucket!BucketTypes'
  BY BucketOps DEF Bucket!BucketTypes
<1>2. ASSUME NEW d \in FileClients PROVE Bucket!Progress(s3Client[d])'
  <2>1. CASE s3Client'[d] = Bucket!Idle
    BY <2>1 DEF Bucket!Progress, Bucket!Idle
  <2>2. CASE s3Client'[d] = Bucket!Seen(DOMAIN bucket')[d] /\ s3Client[d].at # "page"
    <3>1. s3Client'[d] = s3Client[d]
      BY <2>2 DEF Bucket!Seen
    <3>2. Bucket!Progress(s3Client[d])
      BY DEF Bucket!BucketInv
    <3>. QED
      BY <3>1, <3>2, <2>2 DEF Bucket!Progress, Bucket!Sent, Bucket!Listed, Bucket!InOrder, Bucket!Acceptable,
                Bucket!Whole, Bucket!Adjoin, Bucket!Object, Bucket!Length
  <2>3. CASE s3Client'[d] = Bucket!Seen(DOMAIN bucket')[d] /\ s3Client[d].at = "page"
    <3>. DEFINE u == s3Client[d]
                w == s3Client'[d]
    <3>1. u \in Bucket!Listings
      BY ClientIs, <2>3 DEF Bucket!BucketInv
    <3>2. w = [u EXCEPT !.since = @ \cap DOMAIN bucket', !.until = @ \cup DOMAIN bucket']
      BY <2>3 DEF Bucket!Seen
    <3>3. /\ w.at = "page" /\ w.token = u.token /\ w.pages = u.pages
          /\ w.since = u.since \cap DOMAIN bucket' /\ w.until = u.until \cup DOMAIN bucket'
      BY <3>1, <3>2, <2>3 DEF Bucket!Listings
    <3>4. Bucket!Turned(u)
      BY <2>3 DEF Bucket!BucketInv, Bucket!Progress
    <3>5. Bucket!Listed(w) = Bucket!Listed(u) /\ (Bucket!InOrder(u) => Bucket!InOrder(w))
      BY <3>3 DEF Bucket!Listed, Bucket!InOrder
    <3>6. Bucket!Turned(s3Client[d])'
      BY <3>3, <3>4, <3>5 DEF Bucket!Turned
    <3>. QED
      BY <3>3, <3>6 DEF Bucket!Progress
  <2>. QED
    BY <2>1, <2>2, <2>3
<1>. QED
  BY <1>1, <1>2 DEF Bucket!BucketInv

(* One object more, or another one under its key.                          *)
LEMMA ObjectStored ==
  ASSUME Bucket!BucketInv, NEW k \in ObjectKeys, NEW o \in [parts : Bucket!Parts, size : Nat], Bucket!Whole(o),
         bucket' = Bucket!Objects(k, o)
  PROVE  /\ DOMAIN bucket' \subseteq ObjectKeys /\ IsFiniteSet(DOMAIN bucket')
         /\ bucket' \in [DOMAIN bucket' -> [parts : Bucket!Parts, size : Nat]]
         /\ \A j \in DOMAIN bucket' : Bucket!Whole(bucket'[j])
<1>1. DOMAIN bucket \subseteq ObjectKeys /\ IsFiniteSet(DOMAIN bucket)
  BY BucketOps DEF Bucket!BucketInv, Bucket!BucketTypes
<1>2. DOMAIN bucket' = DOMAIN bucket \cup {k}
  BY DEF Bucket!Objects
<1>3. IsFiniteSet(DOMAIN bucket')
  BY <1>1, <1>2, FS_AddElement
<1>4. \A j \in DOMAIN bucket' : bucket'[j] = IF j = k THEN o ELSE bucket[j]
  BY DEF Bucket!Objects
<1>5. \A j \in DOMAIN bucket : bucket[j] \in [parts : Bucket!Parts, size : Nat] /\ Bucket!Whole(bucket[j])
  BY DEF Bucket!BucketInv, Bucket!BucketTypes
<1>6. bucket' = [j \in DOMAIN bucket' |-> bucket'[j]]
  BY DEF Bucket!Objects
<1>. QED
  BY <1>1, <1>2, <1>3, <1>4, <1>5, <1>6

(* The clients after a change of the bucket.                               *)
LEMMA SeenTypes ==
  ASSUME Bucket!BucketInv, NEW now \in SUBSET ObjectKeys
  PROVE  Bucket!Seen(now) \in [FileClients -> {Bucket!Idle} \union Bucket!Uploads \union Bucket!Listings]
<1>. SUFFICES ASSUME NEW d \in FileClients
              PROVE  Bucket!Seen(now)[d] \in {Bucket!Idle} \union Bucket!Uploads \union Bucket!Listings
  BY DEF Bucket!Seen
<1>1. CASE s3Client[d].at # "page"
  BY <1>1, ClientIs DEF Bucket!Seen, Bucket!BucketInv
<1>2. CASE s3Client[d].at = "page"
  <2>1. s3Client[d] \in Bucket!Listings
    BY <1>2, ClientIs DEF Bucket!BucketInv
  <2>2. [s3Client[d] EXCEPT !.since = @ \cap now, !.until = @ \cup now] \in Bucket!Listings
    BY <2>1 DEF Bucket!Listings
  <2>. QED
    BY <1>2, <2>2 DEF Bucket!Seen
<1>. QED
  BY <1>1, <1>2

LEMMA StoreObjectStep ==
  ASSUME Bucket!BucketInv, NEW c \in FileClients, NEW k \in ObjectKeys, NEW n \in Chunks, Bucket!Store(c, k, n)
  PROVE  Bucket!BucketInv'
<1>. DEFINE o == Bucket!Object(<<Bucket!Run(1, n)>>, n)
<1>1. n \in Nat
  BY BucketAssumption
<1>2. o \in [parts : Bucket!Parts, size : Nat] /\ Bucket!Whole(o)
  BY <1>1 DEF Bucket!Object, Bucket!Run, Bucket!Runs, Bucket!Parts, Bucket!Whole, Bucket!Adjoin
<1>3. bucket' = Bucket!Objects(k, o) /\ s3Client' = Bucket!Seen(DOMAIN bucket')
  BY DEF Bucket!Store
<1>4. /\ DOMAIN bucket' \subseteq ObjectKeys /\ IsFiniteSet(DOMAIN bucket')
      /\ bucket' \in [DOMAIN bucket' -> [parts : Bucket!Parts, size : Nat]]
      /\ \A j \in DOMAIN bucket' : Bucket!Whole(bucket'[j])
  BY <1>2, <1>3, ObjectStored
<1>5. s3Calls' \in 0..MaxObjectCalls
  BY BucketAssumption DEF Bucket!Store, Bucket!May, Bucket!BucketInv, Bucket!BucketTypes
<1>6. s3Client' \in [FileClients -> {Bucket!Idle} \union Bucket!Uploads \union Bucket!Listings]
  BY <1>3, <1>4, SeenTypes
<1>. QED
  BY <1>3, <1>4, <1>5, <1>6, BucketChange

LEMMA DeleteObjectStep ==
  ASSUME Bucket!BucketInv, NEW c \in FileClients, NEW k \in ObjectKeys, Bucket!Delete(c, k)
  PROVE  Bucket!BucketInv'
<1>1. bucket' = [j \in DOMAIN bucket \ {k} |-> bucket[j]] /\ s3Client' = Bucket!Seen(DOMAIN bucket')
  BY DEF Bucket!Delete
<1>2. /\ DOMAIN bucket \subseteq ObjectKeys /\ IsFiniteSet(DOMAIN bucket)
      /\ \A j \in DOMAIN bucket : bucket[j] \in [parts : Bucket!Parts, size : Nat] /\ Bucket!Whole(bucket[j])
  BY BucketOps DEF Bucket!BucketInv, Bucket!BucketTypes
<1>3. DOMAIN bucket' = DOMAIN bucket \ {k} /\ \A j \in DOMAIN bucket' : bucket'[j] = bucket[j]
  BY <1>1
<1>4. IsFiniteSet(DOMAIN bucket')
  BY <1>2, <1>3, FS_Subset
<1>5. bucket' \in [DOMAIN bucket' -> [parts : Bucket!Parts, size : Nat]]
  BY <1>1, <1>2, <1>3
<1>6. s3Calls' \in 0..MaxObjectCalls
  BY BucketAssumption DEF Bucket!Delete, Bucket!May, Bucket!BucketInv, Bucket!BucketTypes
<1>7. s3Client' \in [FileClients -> {Bucket!Idle} \union Bucket!Uploads \union Bucket!Listings]
  BY <1>1, <1>2, <1>3, SeenTypes
<1>. QED
  BY <1>1, <1>2, <1>3, <1>4, <1>5, <1>6, <1>7, BucketChange

(* Calls that begin, fail or return.                                       *)
LEMMA BeginAndEnd ==
  ASSUME Bucket!BucketInv, NEW c \in FileClients
  PROVE  /\ \A k \in ObjectKeys : Bucket!StoreStream(c, k) => Bucket!BucketInv'
         /\ Bucket!ListObjects(c) \/ Bucket!Fails(c) \/ Bucket!Return(c) => Bucket!BucketInv'
<1>1. s3Calls \in 0..MaxObjectCalls /\ DOMAIN bucket \subseteq ObjectKeys
  BY DEF Bucket!BucketInv, Bucket!BucketTypes
<1>2. ASSUME NEW k \in ObjectKeys, Bucket!StoreStream(c, k) PROVE Bucket!BucketInv'
  <2>1. Bucket!Upload(k) \in Bucket!Uploads /\ Bucket!Progress(Bucket!Upload(k))
    BY DEF Bucket!Upload, Bucket!Uploads, Bucket!Parts, Bucket!Progress, Bucket!Sent, Bucket!Adjoin
  <2>2. /\ bucket' = bucket /\ s3Calls' \in 0..MaxObjectCalls
        /\ s3Client' = [s3Client EXCEPT ![c] = Bucket!Upload(k)]
    BY <1>1, <1>2, BucketAssumption DEF Bucket!StoreStream, Bucket!May
  <2>. QED
    BY <2>1, <2>2, ClientStep
<1>3. ASSUME Bucket!ListObjects(c) PROVE Bucket!BucketInv'
  <2>1. Bucket!Listing \in Bucket!Listings /\ Bucket!Progress(Bucket!Listing)
    <3>. DEFINE u == Bucket!Listing
    <3>1. /\ u.at = "page" /\ u.token = 0 /\ u.pages = <<>> /\ u.since = DOMAIN bucket /\ u.until = DOMAIN bucket
          /\ u \in Bucket!Listings
      BY <1>1 DEF Bucket!Listing, Bucket!Listings
    <3>. HIDE DEF u
    <3>2. Bucket!Listed(u) = {} /\ Bucket!InOrder(u)
      BY <3>1 DEF Bucket!Listed, Bucket!InOrder
    <3>3. \A k \in u.since : ~(k <= u.token)
      BY <1>1, <3>1, BucketAssumption
    <3>4. Bucket!Turned(u)
      BY <3>1, <3>2, <3>3 DEF Bucket!Turned
    <3>. QED
      BY <3>1, <3>4 DEF Bucket!Progress, u
  <2>2. /\ bucket' = bucket /\ s3Calls' \in 0..MaxObjectCalls
        /\ s3Client' = [s3Client EXCEPT ![c] = Bucket!Listing]
    BY <1>1, <1>3, BucketAssumption DEF Bucket!ListObjects, Bucket!May
  <2>. QED
    BY <2>1, <2>2, ClientStep
<1>4. ASSUME Bucket!Fails(c) \/ Bucket!Return(c) PROVE Bucket!BucketInv'
  <2>1. Bucket!Progress(Bucket!Idle)
    BY DEF Bucket!Idle, Bucket!Progress
  <2>2. bucket' = bucket /\ s3Calls' \in 0..MaxObjectCalls /\ s3Client' = [s3Client EXCEPT ![c] = Bucket!Idle]
    BY <1>1, <1>4 DEF Bucket!Fails, Bucket!Return
  <2>. QED
    BY <2>1, <2>2, ClientStep
<1>. QED
  BY <1>2, <1>3, <1>4

(* The buffer as one more part.                                            *)
LEMMA OneMorePart ==
  ASSUME NEW q \in Bucket!Parts, NEW r \in Bucket!Runs, Bucket!Adjoin(q),
         q = <<>> => r.first = 1, q # <<>> => q[1].first = 1 /\ q[Len(q)].last + 1 = r.first,
         NEW p \in Bucket!Parts, p = Append(q, r)
  PROVE  /\ p \in Bucket!Parts /\ Len(p) = Len(q) + 1 /\ p[Len(q) + 1] = r
         /\ \A i \in DOMAIN q : p[i] = q[i]
         /\ Bucket!Adjoin(p) /\ p[1].first = 1 /\ p # <<>>
<1>1. q \in Seq(Bucket!Runs) /\ Len(q) \in Nat /\ DOMAIN q = 1..Len(q)
  BY DEF Bucket!Parts
<1>2. /\ p \in Seq(Bucket!Runs) /\ Len(p) = Len(q) + 1
      /\ p[Len(q) + 1] = r /\ \A i \in 1..Len(q) : p[i] = q[i]
  BY <1>1
<1>3. Bucket!Adjoin(p)
  <2>. SUFFICES ASSUME NEW i \in 1..Len(p) - 1 PROVE p[i + 1].first = p[i].last + 1
    BY DEF Bucket!Adjoin
  <2>1. CASE i < Len(q)
    <3>1. p[i] = q[i] /\ p[i + 1] = q[i + 1] /\ i \in 1..Len(q) - 1
      BY <1>1, <1>2, <2>1
    <3>2. \A j \in 1..Len(q) - 1 : q[j + 1].first = q[j].last + 1
      BY DEF Bucket!Adjoin
    <3>. QED
      BY <3>1, <3>2
  <2>2. CASE i = Len(q)
    <3>1. q # <<>> /\ p[i] = q[Len(q)] /\ p[i + 1] = r
      BY <1>1, <1>2, <2>2
    <3>. QED
      BY <3>1
  <2>3. i < Len(q) \/ i = Len(q)
    <3>1. Len(p) = Len(q) + 1 /\ Len(q) \in Nat
      BY <1>1, <1>2
    <3>. HIDE DEF Len
    <3>. QED
      BY <3>1
  <2>. QED
    BY <2>1, <2>2, <2>3
<1>4. p[1].first = 1
  <2>1. CASE q = <<>>
    BY <1>2, <2>1
  <2>2. CASE q # <<>>
    <3>1. p[1] = q[1]
      BY <1>1, <1>2, <2>2
    <3>. QED
      BY <3>1, <2>2
  <2>. QED
    BY <2>1, <2>2
<1>5. p # <<>>
  BY <1>1, <1>2
<1>. QED
  BY <1>1, <1>2, <1>3, <1>4, <1>5 DEF Bucket!Parts

LEMMA PartAdded ==
  ASSUME NEW u \in Bucket!Uploads, Bucket!Sent(u)
  PROVE  /\ Bucket!Part(u) \in Bucket!Parts
         /\ Len(Bucket!Part(u)) = Len(u.parts) + 1 /\ Bucket!Part(u)[Len(u.parts) + 1] = Bucket!Run(u.from, u.sent)
         /\ \A i \in DOMAIN u.parts : Bucket!Part(u)[i] = u.parts[i]
         /\ Bucket!Adjoin(Bucket!Part(u)) /\ Bucket!Part(u)[1].first = 1 /\ Bucket!Part(u) # <<>>
<1>. DEFINE q == u.parts
            run == Bucket!Run(u.from, u.sent)
            p == Bucket!Part(u)
<1>1. q \in Bucket!Parts /\ u.from \in Nat /\ u.sent \in Nat
  BY DEF Bucket!Uploads
<1>2. p = Append(q, run) /\ run \in Bucket!Runs /\ run.first = u.from
  BY <1>1 DEF Bucket!Part, Bucket!Buffer, Bucket!Run, Bucket!Runs
<1>20. run.first = u.from
  BY DEF Bucket!Run
<1>3. /\ Bucket!Adjoin(q)
      /\ q = <<>> => run.first = 1
      /\ q # <<>> => q[1].first = 1 /\ q[Len(q)].last + 1 = run.first
  BY <1>2 DEF Bucket!Sent
<1>. HIDE DEF q, run, p
<1>4. /\ p \in Bucket!Parts /\ Len(p) = Len(q) + 1 /\ p[Len(q) + 1] = run
      /\ \A i \in DOMAIN q : p[i] = q[i]
      /\ Bucket!Adjoin(p) /\ p[1].first = 1 /\ p # <<>>
  <2>1. q \in Bucket!Parts /\ run \in Bucket!Runs /\ p = Append(q, run)
    BY <1>1, <1>2
  <2>2. p \in Bucket!Parts
    BY <2>1 DEF Bucket!Parts
  <2>3. Bucket!Adjoin(q)
    BY <1>3
  <2>4. q = <<>> => run.first = 1
    BY <1>3
  <2>5. q # <<>> => q[1].first = 1 /\ q[Len(q)].last + 1 = run.first
    BY <1>3
  <2>6. Len(p) = Len(q) + 1 /\ p[Len(q) + 1] = run
    BY <2>1, <2>2, <2>3, <2>4, <2>5, OneMorePart
  <2>7. \A i \in DOMAIN q : p[i] = q[i]
    BY <2>1, <2>2, <2>3, <2>4, <2>5, OneMorePart
  <2>8. Bucket!Adjoin(p)
    BY <2>1, <2>2, <2>3, <2>4, <2>5, OneMorePart
  <2>9. p[1].first = 1 /\ p # <<>>
    BY <2>1, <2>2, <2>3, <2>4, <2>5, OneMorePart
  <2>. QED
    BY <2>2, <2>6, <2>7, <2>8, <2>9
<1>. QED
  BY <1>4 DEF q, run, p

LEMMA ChunkStep ==
  ASSUME Bucket!BucketInv, NEW c \in FileClients, NEW n \in Chunks, Bucket!Chunk(c, n)
  PROVE  Bucket!BucketInv'
<1>. DEFINE u == [s3Client[c] EXCEPT !.sent = @ + n]
            p == Bucket!Part(u)
            v == IF Bucket!Full(u) THEN [u EXCEPT !.parts = p, !.from = u.sent + 1] ELSE u
<1>1. /\ s3Client[c].at = "created" /\ bucket' = bucket /\ s3Client' = [s3Client EXCEPT ![c] = v]
      /\ s3Calls' \in 0..MaxObjectCalls
  BY DEF Bucket!Chunk, Bucket!BucketInv, Bucket!BucketTypes
<1>2. s3Client[c] \in Bucket!Uploads /\ Bucket!Sent(s3Client[c]) /\ n \in Nat
  BY <1>1, ClientIs, BucketAssumption DEF Bucket!BucketInv, Bucket!Progress
<1>3. /\ u \in Bucket!Uploads /\ u.at = "created" /\ u.from = s3Client[c].from /\ u.parts = s3Client[c].parts
      /\ u.sent = s3Client[c].sent + n /\ u.sent \in Nat /\ u.from \in Nat /\ u.parts \in Bucket!Parts
  BY <1>1, <1>2 DEF Bucket!Uploads
<1>4. Bucket!Sent(u)
  BY <1>2, <1>3 DEF Bucket!Sent, Bucket!Uploads
<1>. HIDE DEF u
<1>5. CASE ~Bucket!Full(u)
  <2>1. v = u /\ Bucket!Progress(v)
    BY <1>3, <1>4, <1>5 DEF Bucket!Progress
  <2>. QED
    BY <2>1, <1>1, <1>3, ClientStep
<1>6. CASE Bucket!Full(u)
  <2>1. /\ p \in Bucket!Parts /\ Len(p) = Len(u.parts) + 1 /\ p[Len(u.parts) + 1] = Bucket!Run(u.from, u.sent)
        /\ \A i \in DOMAIN u.parts : p[i] = u.parts[i]
        /\ Bucket!Adjoin(p) /\ p[1].first = 1 /\ p # <<>>
    BY <1>3, <1>4, PartAdded
  <2>. HIDE DEF p
  <2>2. /\ v \in Bucket!Uploads /\ v.at = "created" /\ v.from = u.sent + 1 /\ v.sent = u.sent /\ v.parts = p
    <3>1. v = [u EXCEPT !.parts = p, !.from = u.sent + 1]
      BY <1>6
    <3>2. u.sent + 1 \in Nat /\ p \in Bucket!Parts
      BY <1>3, <2>1
    <3>. QED
      BY <3>1, <3>2, <1>3 DEF Bucket!Uploads
  <2>3. u.parts \in Seq(Bucket!Runs) /\ p \in Seq(Bucket!Runs)
    BY <1>3, <2>1 DEF Bucket!Parts
  <2>4. Bucket!Length(p[Len(p)]) >= MinPart
    BY <1>6, <2>1, <2>3 DEF Bucket!Full, Bucket!Buffer
  <2>5. \A i \in DOMAIN p : Bucket!Length(p[i]) >= MinPart
    <3>. SUFFICES ASSUME NEW i \in DOMAIN p PROVE Bucket!Length(p[i]) >= MinPart
      OBVIOUS
    <3>1. i \in DOMAIN u.parts \/ i = Len(p)
      BY <2>1, <2>3
    <3>2. \A j \in DOMAIN u.parts : Bucket!Length(u.parts[j]) >= MinPart
      BY <1>4 DEF Bucket!Sent
    <3>. QED
      BY <3>1, <3>2, <2>1, <2>4
  <2>6. p[Len(p)].last + 1 = v.from
    BY <2>1, <2>2, <2>3 DEF Bucket!Run
  <2>. HIDE DEF v
  <2>7. Bucket!Sent(v)
    BY <2>1, <2>2, <2>5, <2>6, <1>3 DEF Bucket!Sent
  <2>8. Bucket!Progress(v)
    BY <2>2, <2>7 DEF Bucket!Progress
  <2>. QED
    BY <1>1, <2>2, <2>8, ClientStep
<1>. QED
  BY <1>5, <1>6

LEMMA EndOfStreamStep ==
  ASSUME Bucket!BucketInv, NEW c \in FileClients, Bucket!EndOfStream(c)
  PROVE  Bucket!BucketInv'
<1>. DEFINE u == s3Client[c]
            p == Bucket!Part(u)
            q == IF Bucket!Remaining(u) THEN p ELSE u.parts
            v == [u EXCEPT !.at = "sent", !.parts = q]
<1>1. /\ u.at = "created" /\ bucket' = bucket /\ s3Client' = [s3Client EXCEPT ![c] = v]
      /\ s3Calls' \in 0..MaxObjectCalls
  BY DEF Bucket!EndOfStream, Bucket!BucketInv, Bucket!BucketTypes
<1>2. u \in Bucket!Uploads /\ Bucket!Sent(u)
  BY <1>1, ClientIs DEF Bucket!BucketInv, Bucket!Progress
<1>3. u.parts \in Seq(Bucket!Runs) /\ u.sent \in Nat /\ u.from \in Nat
  BY <1>2 DEF Bucket!Uploads, Bucket!Parts
<1>. HIDE DEF u
<1>4. q \in Bucket!Parts /\ Bucket!Acceptable(q) /\ Bucket!Whole(Bucket!Object(q, u.sent))
  <2>1. CASE Bucket!Remaining(u)
    <3>1. /\ p \in Bucket!Parts /\ Len(p) = Len(u.parts) + 1 /\ p[Len(u.parts) + 1] = Bucket!Run(u.from, u.sent)
          /\ \A i \in DOMAIN u.parts : p[i] = u.parts[i]
          /\ Bucket!Adjoin(p) /\ p[1].first = 1 /\ p # <<>>
      BY <1>2, PartAdded
    <3>. HIDE DEF p
    <3>2. \A i \in 1..Len(p) - 1 : i \in DOMAIN u.parts
      BY <1>3, <3>1
    <3>3. Bucket!Acceptable(p)
      BY <3>1, <3>2, <1>2 DEF Bucket!Acceptable, Bucket!Sent
    <3>4. p[Len(p)].last = u.sent
      BY <3>1, <1>3 DEF Bucket!Run
    <3>. QED
      BY <2>1, <3>1, <3>3, <3>4 DEF Bucket!Whole, Bucket!Object
  <2>2. CASE ~Bucket!Remaining(u)
    <3>1. u.parts # <<>> /\ u.from = u.sent + 1
      BY <2>2, <1>2, <1>3 DEF Bucket!Remaining, Bucket!Length, Bucket!Buffer, Bucket!Run, Bucket!Sent
    <3>2. u.parts[Len(u.parts)].last = u.sent /\ u.parts[1].first = 1 /\ Bucket!Adjoin(u.parts)
      <4>1. u.parts[Len(u.parts)].last \in Nat
        <5>1. \A s \in Seq(Bucket!Runs) : s # <<>> => s[Len(s)].last \in Nat
          <6>. SUFFICES ASSUME NEW s \in Seq(Bucket!Runs), s # <<>> PROVE s[Len(s)].last \in Nat
            OBVIOUS
          <6>1. Len(s) \in DOMAIN s
            OBVIOUS
          <6>2. s[Len(s)] \in Bucket!Runs
            BY <6>1
          <6>. QED
            BY <6>2 DEF Bucket!Runs
        <5>. QED
          BY <5>1, <1>3, <3>1
      <4>. QED
        BY <3>1, <4>1, <1>2, <1>3 DEF Bucket!Sent
    <3>3. Bucket!Acceptable(u.parts)
      BY <3>1, <1>2, <1>3 DEF Bucket!Acceptable, Bucket!Sent
    <3>. QED
      BY <2>2, <3>1, <3>2, <3>3, <1>3 DEF Bucket!Whole, Bucket!Object, Bucket!Parts
  <2>. QED
    BY <2>1, <2>2
<1>. HIDE DEF q
<1>5. v \in Bucket!Uploads /\ v.at = "sent" /\ v.sent = u.sent /\ v.parts = q
  BY <1>2, <1>4 DEF Bucket!Uploads
<1>. HIDE DEF v
<1>6. Bucket!Progress(v)
  BY <1>4, <1>5 DEF Bucket!Progress
<1>. QED
  BY <1>1, <1>5, <1>6, ClientStep

LEMMA CompleteStep ==
  ASSUME Bucket!BucketInv, NEW c \in FileClients, Bucket!Complete(c)
  PROVE  Bucket!BucketInv'
<1>. DEFINE u == s3Client[c]
            o == Bucket!Object(u.parts, u.sent)
<1>1. u.at = "sent" /\ s3Calls' \in 0..MaxObjectCalls
  BY DEF Bucket!Complete, Bucket!BucketInv, Bucket!BucketTypes
<1>2. u \in Bucket!Uploads /\ Bucket!Acceptable(u.parts) /\ Bucket!Whole(o)
  BY <1>1, ClientIs DEF Bucket!BucketInv, Bucket!Progress
<1>3. u.key \in ObjectKeys /\ o \in [parts : Bucket!Parts, size : Nat]
  BY <1>2 DEF Bucket!Uploads, Bucket!Object
<1>4. bucket' = Bucket!Objects(u.key, o) /\ s3Client' = [Bucket!Seen(DOMAIN bucket') EXCEPT ![c] = Bucket!Idle]
  BY <1>2 DEF Bucket!Complete
<1>5. /\ DOMAIN bucket' \subseteq ObjectKeys /\ IsFiniteSet(DOMAIN bucket')
      /\ bucket' \in [DOMAIN bucket' -> [parts : Bucket!Parts, size : Nat]]
      /\ \A j \in DOMAIN bucket' : Bucket!Whole(bucket'[j])
  BY <1>2, <1>3, <1>4, ObjectStored
<1>6. Bucket!Seen(DOMAIN bucket') \in [FileClients -> {Bucket!Idle} \union Bucket!Uploads \union Bucket!Listings]
  BY <1>5, SeenTypes
<1>7. s3Client' \in [FileClients -> {Bucket!Idle} \union Bucket!Uploads \union Bucket!Listings]
  BY <1>4, <1>6
<1>8. \A d \in FileClients : s3Client'[d] = Bucket!Idle \/ s3Client'[d] = Bucket!Seen(DOMAIN bucket')[d]
  BY <1>4, <1>6
<1>. QED
  BY <1>1, <1>5, <1>7, <1>8, BucketChange

(* A page has all the keys after the token up to its last.                 *)
LEMMA PageIsPrefix ==
  ASSUME Bucket!BucketTypes, NEW t \in Nat, NEW k \in Bucket!PageOf(t), NEW j \in Bucket!After(t), j <= k
  PROVE  j \in Bucket!PageOf(t)
<1>. DEFINE A == Bucket!After(t)
            Below(x) == {i \in A : i < x}
<1>1. A \subseteq DOMAIN bucket /\ IsFiniteSet(DOMAIN bucket) /\ DOMAIN bucket \subseteq Nat
  BY BucketOps, BucketAssumption DEF Bucket!After, Bucket!BucketTypes
<1>2. IsFiniteSet(Below(k)) /\ IsFiniteSet(Below(j))
  BY <1>1, FS_Subset
<1>3. k \in A /\ Cardinality(Below(k)) < ListPage
  BY BucketOps DEF Bucket!PageOf
<1>4. Below(j) \subseteq Below(k)
  BY <1>1, <1>3
<1>5. Cardinality(Below(j)) <= Cardinality(Below(k))
  BY <1>2, <1>4, FS_Subset
<1>6. Cardinality(Below(j)) \in Nat /\ Cardinality(Below(k)) \in Nat
  BY <1>2, FS_CardinalityType
<1>7. Cardinality(Below(j)) < ListPage
  BY <1>3, <1>5, <1>6, BucketAssumption
<1>. QED
  BY <1>7, BucketOps DEF Bucket!PageOf

LEMMA NextPageStep ==
  ASSUME Bucket!BucketInv, NEW c \in FileClients, Bucket!NextPage(c)
  PROVE  Bucket!BucketInv'
<1>. DEFINE u == s3Client[c]
            page == Bucket!PageOf(u.token)
            read == [u EXCEPT !.pages = Append(@, page)]
<1>1. u.at = "page" /\ bucket' = bucket /\ s3Calls' \in 0..MaxObjectCalls
  BY DEF Bucket!NextPage, Bucket!BucketInv, Bucket!BucketTypes
<1>2. u \in Bucket!Listings /\ Bucket!Turned(u)
  BY <1>1, ClientIs DEF Bucket!BucketInv, Bucket!Progress
<1>3. u.token \in Nat /\ u.pages \in Seq(SUBSET ObjectKeys)
  BY <1>2 DEF Bucket!Listings
<1>4. /\ page \subseteq Bucket!After(u.token) /\ DOMAIN bucket \subseteq ObjectKeys
      /\ Bucket!After(u.token) = {k \in DOMAIN bucket : k > u.token}
  BY DEF Bucket!PageOf, Bucket!After, Bucket!BucketInv, Bucket!BucketTypes
<1>5. ObjectKeys \subseteq Nat
  BY BucketAssumption
<1>6. \A k \in page, j \in Bucket!After(u.token) : j <= k => j \in page
  BY <1>3, PageIsPrefix DEF Bucket!BucketInv
<1>7. page \in SUBSET ObjectKeys
  BY <1>4
<1>. HIDE DEF page, u
<1>8. /\ read \in Bucket!Listings /\ read.at = u.at /\ read.token = u.token /\ read.since = u.since
      /\ read.until = u.until /\ read.pages = Append(u.pages, page)
  <2>1. Append(u.pages, page) \in Seq(SUBSET ObjectKeys)
    BY <1>3, <1>7
  <2>. QED
    BY <1>2, <2>1 DEF Bucket!Listings
<1>9. /\ DOMAIN read.pages = 1..Len(u.pages) + 1 /\ read.pages[Len(u.pages) + 1] = page
      /\ \A i \in DOMAIN u.pages : read.pages[i] = u.pages[i]
      /\ DOMAIN u.pages = 1..Len(u.pages) /\ Len(u.pages) \in Nat
  BY <1>3, <1>7, <1>8
<1>. HIDE DEF read
<1>10. Bucket!Listed(read) = Bucket!Listed(u) \cup page
  BY <1>9 DEF Bucket!Listed
<1>11. Bucket!InOrder(read)
  <2>. SUFFICES ASSUME NEW i \in DOMAIN read.pages, NEW j \in DOMAIN read.pages, i < j,
                       NEW k \in read.pages[i], NEW l \in read.pages[j]
                PROVE  k < l
    BY DEF Bucket!InOrder
  <2>1. i \in DOMAIN u.pages /\ k \in u.pages[i]
    BY <1>9
  <2>2. CASE j \in DOMAIN u.pages
    BY <1>2, <1>9, <2>1, <2>2 DEF Bucket!Turned, Bucket!InOrder
  <2>3. CASE j = Len(u.pages) + 1
    <3>1. l \in page /\ l > u.token /\ l \in Nat
      BY <1>4, <1>5, <1>9, <2>3
    <3>2. k \in Bucket!Listed(u) /\ k <= u.token
      BY <2>1, <1>2 DEF Bucket!Listed, Bucket!Turned
    <3>3. k \in Nat
      <4>1. u.pages[i] \in SUBSET ObjectKeys
        BY <1>3, <2>1
      <4>. QED
        BY <4>1, <2>1, <1>5
    <3>. QED
      BY <3>1, <3>2, <3>3, <1>3
  <2>. QED
    BY <1>9, <2>2, <2>3
<1>12. Bucket!Listed(read) \subseteq u.until
  BY <1>2, <1>4, <1>10 DEF Bucket!Turned
<1>13. CASE /\ ~Bucket!Truncated(page, u.token)
            /\ s3Client' = [s3Client EXCEPT ![c] = [read EXCEPT !.at = "listed"]]
  <2>. DEFINE v == [read EXCEPT !.at = "listed"]
  <2>1. /\ v \in Bucket!Listings /\ v.at = "listed" /\ v.since = u.since /\ v.until = u.until
        /\ v.pages = read.pages
    BY <1>8 DEF Bucket!Listings
  <2>. HIDE DEF v
  <2>2. u.since \subseteq Bucket!Listed(read)
    <3>1. page = Bucket!After(u.token)
      BY <1>13 DEF Bucket!Truncated
    <3>. SUFFICES ASSUME NEW k \in u.since PROVE k \in Bucket!Listed(read)
      OBVIOUS
    <3>2. k \in DOMAIN bucket /\ k \in Nat /\ (k <= u.token => k \in Bucket!Listed(u))
      BY <1>2, <1>4, <1>5 DEF Bucket!Turned
    <3>. QED
      BY <3>1, <3>2, <1>3, <1>4, <1>10
  <2>3. Bucket!Listed(v) = Bucket!Listed(read) /\ Bucket!InOrder(v)
    BY <2>1, <1>11 DEF Bucket!Listed, Bucket!InOrder
  <2>4. Bucket!Progress(v)
    BY <2>1, <2>2, <2>3, <1>12 DEF Bucket!Progress
  <2>. QED
    BY <2>1, <2>4, <1>1, <1>13, ClientStep DEF v
<1>14. ASSUME NEW k \in ObjectKeys, Bucket!Last(page, k),
              s3Client' = [s3Client EXCEPT ![c] = [read EXCEPT !.token = k]]
       PROVE  Bucket!BucketInv'
  <2>. DEFINE v == [read EXCEPT !.token = k]
  <2>1. /\ v \in Bucket!Listings /\ v.at = "page" /\ v.since = u.since /\ v.until = u.until
        /\ v.pages = read.pages /\ v.token = k
    BY <1>1, <1>5, <1>8 DEF Bucket!Listings, u
  <2>. HIDE DEF v
  <2>2. k \in page /\ k \in Nat /\ k > u.token /\ \A j \in page : j <= k
    BY <1>4, <1>5, <1>14 DEF Bucket!Last
  <2>3. \A j \in u.since : j <= k => j \in Bucket!Listed(read)
    <3>. SUFFICES ASSUME NEW j \in u.since, j <= k PROVE j \in Bucket!Listed(read)
      OBVIOUS
    <3>1. j \in DOMAIN bucket /\ j \in Nat /\ (j <= u.token => j \in Bucket!Listed(u))
      BY <1>2, <1>4, <1>5 DEF Bucket!Turned
    <3>. QED
      BY <3>1, <2>2, <1>3, <1>4, <1>6, <1>10
  <2>4. \A j \in Bucket!Listed(read) : j <= k
    <3>. SUFFICES ASSUME NEW j \in Bucket!Listed(u) PROVE j <= k
      BY <2>2, <1>10
    <3>1. j \in Nat
      <4>1. PICK i \in DOMAIN u.pages : j \in u.pages[i]
        BY DEF Bucket!Listed
      <4>2. u.pages[i] \in SUBSET ObjectKeys
        BY <1>3
      <4>. QED
        BY <4>1, <4>2, <1>5
    <3>. QED
      BY <3>1, <2>2, <1>2, <1>3 DEF Bucket!Turned
  <2>5. Bucket!Listed(v) = Bucket!Listed(read) /\ Bucket!InOrder(v)
    BY <2>1, <1>11 DEF Bucket!Listed, Bucket!InOrder
  <2>6. Bucket!Turned(v)
    BY <2>1, <2>3, <2>4, <2>5, <1>2, <1>12 DEF Bucket!Turned
  <2>7. Bucket!Progress(v)
    BY <2>1, <2>6 DEF Bucket!Progress
  <2>. QED
    BY <2>1, <2>7, <1>1, <1>14, ClientStep DEF v
<1>. QED
  BY <1>13, <1>14 DEF Bucket!NextPage, u, page, read

LEMMA BucketInit == Bucket!Init => Bucket!BucketInv
<1>. SUFFICES ASSUME Bucket!Init PROVE Bucket!BucketInv
  OBVIOUS
<1>1. DOMAIN bucket = {} /\ IsFiniteSet({})
  BY FS_EmptySet DEF Bucket!Init
<1>2. Bucket!BucketTypes
  BY <1>1, BucketOps, BucketAssumption DEF Bucket!Init, Bucket!BucketTypes
<1>3. \A d \in FileClients : Bucket!Progress(s3Client[d])
  BY DEF Bucket!Init, Bucket!Progress, Bucket!Idle
<1>. QED
  BY <1>1, <1>2, <1>3 DEF Bucket!BucketInv

LEMMA BucketKeeps == Bucket!BucketInv /\ [Bucket!Next]_Bucket!bucketVars => Bucket!BucketInv'
<1>. SUFFICES ASSUME Bucket!BucketInv, [Bucket!Next]_Bucket!bucketVars PROVE Bucket!BucketInv'
  OBVIOUS
<1>1. CASE UNCHANGED Bucket!bucketVars
  BY <1>1 DEF Bucket!bucketVars, Bucket!BucketInv, Bucket!BucketTypes, Bucket!Progress, Bucket!Sent, Bucket!Turned,
              Bucket!Listed, Bucket!InOrder, Bucket!Acceptable, Bucket!Whole, Bucket!Adjoin, Bucket!Object, Bucket!Length
<1>. QED
  BY <1>1, StoreObjectStep, DeleteObjectStep, BeginAndEnd, ChunkStep, EndOfStreamStep, CompleteStep, NextPageStep
     DEF Bucket!Next

LEMMA BucketFollows == Bucket!BucketInv => Bucket!TypeOK /\ Bucket!ObjectsWhole /\ Bucket!PagesComplete
<1>. SUFFICES ASSUME Bucket!BucketInv PROVE Bucket!TypeOK /\ Bucket!ObjectsWhole /\ Bucket!PagesComplete
  OBVIOUS
<1>1. \A c \in FileClients : s3Client[c].at \in {"idle", "created", "sent", "page", "listed"}
  BY ClientIs DEF Bucket!BucketInv
<1>2. Bucket!TypeOK
  BY <1>1 DEF Bucket!TypeOK, Bucket!BucketInv, Bucket!BucketTypes
<1>3. Bucket!ObjectsWhole
  BY <1>1 DEF Bucket!ObjectsWhole, Bucket!BucketInv
<1>4. Bucket!PagesComplete
  BY DEF Bucket!PagesComplete, Bucket!BucketInv, Bucket!Progress
<1>. QED
  BY <1>2, <1>3, <1>4

(* Whatever requests fail in the middle of uploads and listings, and         *)
(* whatever other clients change between the pages: an object is a whole     *)
(* stream, and a listing has what was there throughout.                      *)
THEOREM ObjectsAreWhole == Bucket!Spec => [](Bucket!TypeOK /\ Bucket!ObjectsWhole /\ Bucket!PagesComplete)
BY BucketInit, BucketKeeps, BucketFollows, PTL DEF Bucket!Spec

-----------------------------------------------------------------------------
LEMMA LocalOps ==
  \A S : Local!Cardinality(S) = Cardinality(S) /\ Local!IsFiniteSet(S) = IsFiniteSet(S)
BY DEF Local!Cardinality, Cardinality, Local!IsFiniteSet, IsFiniteSet

-----------------------------------------------------------------------------
(* Paths as sequences of names; Above is the order of their prefixes.      *)
LEMMA AboveIs ==
  ASSUME NEW S, NEW b \in Seq(S)
  PROVE  /\ Local!Above(b) \subseteq Seq(S)
         /\ \A a \in Seq(S) : a \in Local!Above(b) <=> Len(a) <= Len(b) /\ \A i \in 1..Len(a) : a[i] = b[i]
<1>1. ASSUME NEW n \in 0..Len(b)
      PROVE  /\ SubSeq(b, 1, n) \in Seq(S) /\ Len(SubSeq(b, 1, n)) = n
             /\ \A i \in 1..n : SubSeq(b, 1, n)[i] = b[i]
  OBVIOUS
<1>2. Local!Above(b) \subseteq Seq(S)
  BY <1>1 DEF Local!Above
<1>3. ASSUME NEW a \in Seq(S), a \in Local!Above(b)
      PROVE  Len(a) <= Len(b) /\ \A i \in 1..Len(a) : a[i] = b[i]
  <2>1. PICK n \in 0..Len(b) : a = SubSeq(b, 1, n)
    BY <1>3 DEF Local!Above
  <2>. QED
    BY <1>1, <2>1
<1>4. ASSUME NEW a \in Seq(S), Len(a) <= Len(b), \A i \in 1..Len(a) : a[i] = b[i]
      PROVE  a \in Local!Above(b)
  <2>. DEFINE c == SubSeq(b, 1, Len(a))
  <2>1. Len(a) \in 0..Len(b)
    BY <1>4
  <2>2. c \in Seq(S) /\ Len(c) = Len(a) /\ \A i \in 1..Len(a) : c[i] = a[i]
    BY <1>1, <1>4, <2>1
  <2>. HIDE DEF c
  <2>3. c = a
    BY <2>2, SeqEqual
  <2>. QED
    BY <2>1, <2>3 DEF c, Local!Above
<1>. QED
  BY <1>2, <1>3, <1>4

LEMMA SameSeq ==
  ASSUME NEW S, NEW a \in Seq(S), NEW b \in Seq(S), Len(a) = Len(b), \A i \in 1..Len(a) : a[i] = b[i]
  PROVE  a = b
BY SeqEqual

LEMMA AboveOrder ==
  ASSUME NEW S, NEW a \in Seq(S), NEW b \in Seq(S), NEW c \in Seq(S)
  PROVE  /\ a \in Local!Above(a) /\ <<>> \in Local!Above(a)
         /\ a \in Local!Above(b) /\ b \in Local!Above(c) => a \in Local!Above(c)
         /\ a \in Local!Above(b) /\ Len(a) = Len(b) => a = b
         /\ a \in Local!Above(c) /\ b \in Local!Above(c) => a \in Local!Above(b) \/ b \in Local!Above(a)
<1>1. /\ \A x, y \in Seq(S) : x \in Local!Above(y) <=> Len(x) <= Len(y) /\ \A i \in 1..Len(x) : x[i] = y[i]
      /\ Len(a) \in Nat /\ Len(b) \in Nat /\ Len(c) \in Nat
  BY AboveIs
<1>2. a \in Local!Above(a)
  BY <1>1
<1>3. <<>> \in Local!Above(a)
  <2>1. <<>> \in Seq(S) /\ Len(<<>>) = 0
    OBVIOUS
  <2>2. Len(<<>>) <= Len(a) /\ \A i \in 1..Len(<<>>) : <<>>[i] = a[i]
    BY <1>1, <2>1
  <2>. QED
    BY <1>1, <2>1, <2>2
<1>4. a \in Local!Above(b) /\ b \in Local!Above(c) => a \in Local!Above(c)
  BY <1>1
<1>5. a \in Local!Above(b) /\ Len(a) = Len(b) => a = b
  BY <1>1, SameSeq
<1>6. a \in Local!Above(c) /\ b \in Local!Above(c) => a \in Local!Above(b) \/ b \in Local!Above(a)
  BY <1>1
<1>. QED
  BY <1>2, <1>3, <1>4, <1>5, <1>6

LEMMA ParentIs ==
  ASSUME NEW S, NEW b \in Seq(S), b # <<>>
  PROVE  /\ Local!Parent(b) \in Seq(S) /\ Len(Local!Parent(b)) = Len(b) - 1
         /\ Local!Parent(b) \in Local!Above(b)
         /\ \A a \in Seq(S) : a \in Local!Above(b) => a = b \/ a \in Local!Above(Local!Parent(b))
<1>. DEFINE p == Local!Parent(b)
<1>0. Len(b) \in Nat \ {0}
  BY EmptySeq
<1>1. p \in Seq(S) /\ Len(p) = Len(b) - 1 /\ \A i \in 1..Len(b) - 1 : p[i] = b[i]
  <2>1. \A n \in 0..Len(b) : /\ SubSeq(b, 1, n) \in Seq(S) /\ Len(SubSeq(b, 1, n)) = n
                            /\ \A i \in 1..n : SubSeq(b, 1, n)[i] = b[i]
    OBVIOUS
  <2>2. Len(b) - 1 \in 0..Len(b)
    BY <1>0
  <2>. QED
    BY <2>1, <2>2 DEF Local!Parent
<1>. HIDE DEF p
<1>2. \A x, y \in Seq(S) : x \in Local!Above(y) <=> Len(x) <= Len(y) /\ \A i \in 1..Len(x) : x[i] = y[i]
  BY AboveIs
<1>3. p \in Local!Above(b)
  BY <1>0, <1>1, <1>2
<1>4. ASSUME NEW a \in Seq(S), a \in Local!Above(b) PROVE a = b \/ a \in Local!Above(p)
  <2>1. Len(a) <= Len(b) /\ Len(a) \in Nat /\ \A i \in 1..Len(a) : a[i] = b[i]
    BY <1>2, <1>4
  <2>2. CASE Len(a) = Len(b)
    BY <2>1, <2>2, SameSeq
  <2>3. CASE Len(a) # Len(b)
    BY <1>0, <1>1, <1>2, <2>1, <2>3
  <2>. QED
    BY <2>2, <2>3
<1>. QED
  BY <1>1, <1>3, <1>4 DEF p

(* The path below a towards b.                                             *)
LEMMA ChildTowards ==
  ASSUME NEW S, NEW b \in Seq(S), NEW a \in Local!Above(b), a # b
  PROVE  \E r \in Seq(S) : r \in Local!Above(b) /\ r # <<>> /\ Local!Parent(r) = a
<1>. DEFINE r == SubSeq(b, 1, Len(a) + 1)
<1>1. a \in Seq(S) /\ Len(a) <= Len(b) /\ Len(a) \in Nat /\ \A i \in 1..Len(a) : a[i] = b[i]
  BY AboveIs
<1>2. Len(a) # Len(b)
  BY <1>1, SameSeq
<1>3. Len(a) + 1 \in 0..Len(b)
  BY <1>1, <1>2
<1>4. /\ r \in Seq(S) /\ Len(r) = Len(a) + 1 /\ r \in Local!Above(b)
      /\ \A i \in 1..Len(a) : r[i] = b[i]
  BY <1>1, <1>3 DEF Local!Above
<1>. HIDE DEF r
<1>5. r # <<>>
  BY <1>1, <1>4
<1>6. Local!Parent(r) \in Seq(S) /\ Len(Local!Parent(r)) = Len(a) /\ \A i \in 1..Len(a) : Local!Parent(r)[i] = a[i]
  BY <1>1, <1>4 DEF Local!Parent
<1>7. Local!Parent(r) = a
  BY <1>1, <1>6, SameSeq
<1>. QED
  BY <1>4, <1>5, <1>7

-----------------------------------------------------------------------------
(* The local file store.                                                   *)
PathNames == UNION {{Local!Resolve(p)[n] : n \in DOMAIN Local!Resolve(p)} : p \in FilePaths}

LEMMA ResolveIs ==
  ASSUME NEW path \in FilePaths
  PROVE  Local!Resolve(path) \in Seq(PathNames)
<1>. DEFINE kept == {i \in DOMAIN path : path[i] \notin Local!Special}
            N == Cardinality(kept)
            r == Local!Resolve(path)
<1>1. Len(path) \in Nat /\ kept \in SUBSET (1..Len(path))
  BY LocalAssumption
<1>2. N \in Nat
  <2>1. IsFiniteSet(1..Len(path))
    BY <1>1, FS_Interval
  <2>2. IsFiniteSet(kept)
    BY <1>1, <2>1, FS_Subset
  <2>. QED
    BY <2>2, FS_CardinalityType
<1>3. DOMAIN r = 1..N /\ r = [n \in 1..N |-> r[n]]
  BY LocalOps DEF Local!Resolve
<1>4. \A n \in 1..N : r[n] \in PathNames
  <2>. DEFINE Of(p) == {Local!Resolve(p)[n] : n \in DOMAIN Local!Resolve(p)}
  <2>1. \A n \in 1..N : r[n] \in Of(path)
    BY <1>3
  <2>. HIDE DEF Of
  <2>2. PathNames = UNION {Of(p) : p \in FilePaths}
    BY DEF PathNames, Of
  <2>. QED
    BY <2>1, <2>2
<1>. HIDE DEF N, r
<1>5. r \in [1..N -> PathNames]
  BY <1>3, <1>4
<1>6. r \in Seq(PathNames)
  BY <1>2, <1>5
<1>. QED
  BY <1>6 DEF r

LEMMA PathsAre ==
  /\ Local!Places \subseteq Seq(PathNames) /\ <<>> \notin Local!Places
  /\ Local!Folders \subseteq Seq(PathNames) /\ <<>> \in Local!Folders /\ Local!Places \subseteq Local!Folders
  /\ \A p \in FilePaths : Local!Resolve(p) \in Local!Places \cup {<<>>}
<1>1. Local!Places \subseteq Seq(PathNames) /\ <<>> \notin Local!Places
  BY ResolveIs DEF Local!Places
<1>2. \A p \in Local!Places : Local!Above(p) \subseteq Seq(PathNames) /\ p \in Local!Above(p)
  BY <1>1, AboveIs, AboveOrder
<1>3. <<>> \in Seq(PathNames)
  OBVIOUS
<1>4. Local!Folders \subseteq Seq(PathNames) /\ <<>> \in Local!Folders /\ Local!Places \subseteq Local!Folders
  BY <1>2, <1>3 DEF Local!Folders
<1>5. \A p \in FilePaths : Local!Resolve(p) \in Local!Places \cup {<<>>}
  BY DEF Local!Places
<1>. QED
  BY <1>1, <1>4, <1>5

LEMMA FoldersAbove ==
  ASSUME NEW p \in Local!Places
  PROVE  /\ Local!Parent(p) \in Seq(PathNames)
         /\ Local!Above(Local!Parent(p)) \subseteq Local!Folders \cap Local!Above(p)
         /\ p \notin Local!Above(Local!Parent(p)) /\ Local!Parent(p) \in Local!Above(Local!Parent(p))
         /\ IsFiniteSet(Local!Above(Local!Parent(p)))
         /\ \A a \in Local!Above(Local!Parent(p)) : Local!Above(a) \subseteq Local!Above(Local!Parent(p))
<1>. DEFINE b == Local!Parent(p)
            S == PathNames
<1>1. p \in Seq(S) /\ p # <<>> /\ Len(p) \in Nat
  BY PathsAre
<1>2. b \in Seq(S) /\ Len(b) = Len(p) - 1 /\ b \in Local!Above(p)
  BY <1>1, ParentIs
<1>. HIDE DEF b
<1>3. Local!Above(b) \subseteq Seq(S) /\ b \in Local!Above(b)
  BY <1>2, AboveIs, AboveOrder
<1>4. Local!Above(b) \subseteq Local!Above(p)
  BY <1>1, <1>2, <1>3, AboveOrder
<1>5. Local!Above(p) \subseteq Local!Folders
  BY DEF Local!Folders
<1>6. p \notin Local!Above(b)
  BY <1>1, <1>2, AboveIs
<1>7. IsFiniteSet(Local!Above(b))
  <2>. DEFINE f == [n \in 0..Len(b) |-> SubSeq(b, 1, n)]
  <2>1. f \in Surjection(0..Len(b), Local!Above(b))
    BY DEF Surjection, Local!Above
  <2>2. IsFiniteSet(0..Len(b))
    BY <1>1, <1>2, FS_Interval
  <2>. HIDE DEF f
  <2>. QED
    BY <2>1, <2>2, FS_Surjection
<1>8. ASSUME NEW a \in Local!Above(b) PROVE Local!Above(a) \subseteq Local!Above(b)
  <2>1. a \in Seq(S) /\ Local!Above(a) \subseteq Seq(S)
    BY <1>3, AboveIs
  <2>. QED
    BY <1>2, <2>1, <1>8, AboveOrder
<1>. QED
  BY <1>2, <1>3, <1>4, <1>5, <1>6, <1>7, <1>8 DEF b

Joins(j, s, t) ==
  /\ \A i \in DOMAIN j : \/ i \in 1..Len(s) /\ j[i] = s[i]
                         \/ \E k \in 1..Len(t) : i = k + Len(s) /\ j[i] = t[k]
  /\ \A i \in 1..Len(s) : i \in DOMAIN j /\ j[i] = s[i]
  /\ \A k \in 1..Len(t) : k + Len(s) \in DOMAIN j /\ j[k + Len(s)] = t[k]

LEMMA JoinIs ==
  ASSUME NEW S, NEW s \in Seq(S), NEW t \in Seq(S), NEW j, j = s \o t
  PROVE  j \in Seq(S) /\ Joins(j, s, t)
<1>. DEFINE m == Len(s)
            n == Len(t)
<1>1. m \in Nat /\ n \in Nat
  OBVIOUS
<1>2. j \in Seq(S) /\ Len(j) = m + n /\ \A i \in 1..m + n : j[i] = IF i <= m THEN s[i] ELSE t[i - m]
  BY ConcatProperties
<1>3. DOMAIN j = 1..m + n
  BY <1>2
<1>. HIDE DEF m, n
<1>4. \A i \in 1..m + n : i \in 1..m \/ (i - m \in 1..n /\ i = (i - m) + m /\ ~(i <= m))
  BY <1>1
<1>5. \A i \in 1..m + n : \/ i \in 1..m /\ j[i] = s[i]
                          \/ \E k \in 1..n : i = k + m /\ j[i] = t[k]
  BY <1>1, <1>2, <1>4
<1>6. \A i \in 1..m : i \in 1..m + n /\ j[i] = s[i]
  BY <1>1, <1>2
<1>7. \A k \in 1..n : k + m \in 1..m + n /\ ~(k + m <= m) /\ (k + m) - m = k
  BY <1>1
<1>8. \A k \in 1..n : k + m \in 1..m + n /\ j[k + m] = t[k]
  BY <1>2, <1>7
<1>. QED
  BY <1>2, <1>3, <1>5, <1>6, <1>8 DEF m, n, Joins

LEMMA OrdersAre ==
  ASSUME Local!LocalTypes, NEW p, NEW order \in Local!Orders(Local!Children(p) \cap dirs)
  PROVE  /\ order \in Seq(Local!Folders) /\ \A i \in 1..Len(order) : order[i] \in Local!Children(p) \cap dirs
         /\ \A x \in Local!Children(p) \cap dirs : \E i \in 1..Len(order) : order[i] = x
         /\ \A i, j \in 1..Len(order) : order[i] = order[j] => i = j
<1>. DEFINE C == Local!Children(p) \cap dirs
<1>1. IsFiniteSet(C) /\ C \subseteq Local!Folders
  BY LocalOps, FS_Subset DEF Local!LocalTypes
<1>2. Cardinality(C) \in Nat
  BY <1>1, FS_CardinalityType
<1>3. /\ order \in [1..Cardinality(C) -> C] /\ \A x \in C : \E i \in DOMAIN order : order[i] = x
      /\ \A i, j \in DOMAIN order : order[i] = order[j] => i = j
  BY LocalOps DEF Local!Orders
<1>. HIDE DEF C
<1>4. order \in Seq(C) /\ DOMAIN order = 1..Len(order) /\ \A i \in 1..Len(order) : order[i] \in C
  BY <1>2, <1>3
<1>5. order \in Seq(Local!Folders)
  BY <1>1, <1>4
<1>. QED
  BY <1>3, <1>4, <1>5 DEF C

(* A directory is read: its files are found, its subdirectories are to do. *)
LEMMA WalkOn ==
  ASSUME Local!LocalTypes, Local!Tree, NEW u \in Local!Calls, Local!Walk(u), u.todo # <<>>,
         NEW order \in Local!Orders(Local!Children(Head(u.todo)) \cap dirs), NEW w \in Local!Calls,
         w.todo = order \o Tail(u.todo), w.found = Append(u.found, Local!FilesAt(Head(u.todo))),
         w.since = u.since, w.until = u.until
  PROVE  Local!Walk(w)
<1>. DEFINE p == Head(u.todo)
            F == Local!FilesAt(p)
            C == Local!Children(p) \cap dirs
            S == PathNames
            old == Tail(u.todo)
<1>1. /\ u.todo \in Seq(Local!Folders) /\ u.found \in Seq(SUBSET Local!Places)
      /\ u.since \subseteq Local!Places /\ DOMAIN files \subseteq Local!Places /\ dirs \subseteq Local!Folders
      /\ Local!Folders \subseteq Seq(S) /\ Local!Places \subseteq Seq(S) /\ <<>> \notin Local!Places
  BY PathsAre DEF Local!Calls, Local!LocalTypes
<1>2. /\ p \in Seq(S) /\ p = u.todo[1] /\ Len(u.todo) \in Nat \ {0}
      /\ old \in Seq(Local!Folders) /\ Len(old) = Len(u.todo) - 1 /\ \A i \in 1..Len(old) : old[i] = u.todo[i + 1]
  BY <1>1, EmptySeq, HeadTailProperties
<1>3. C \subseteq Local!Folders /\ \A r \in C : r \in dirs /\ r # <<>> /\ Local!Parent(r) = p /\ r \in Seq(S)
  BY <1>1 DEF Local!Children
<1>4. /\ order \in Seq(Local!Folders) /\ \A i \in 1..Len(order) : order[i] \in C
      /\ \A x \in C : \E i \in 1..Len(order) : order[i] = x
      /\ \A i, j \in 1..Len(order) : order[i] = order[j] => i = j
  BY OrdersAre
<1>5. \A q \in DOMAIN files : q \notin dirs /\ Local!Above(Local!Parent(q)) \subseteq dirs
  BY DEF Local!Tree
<1>6. \A r \in dirs : Local!Above(r) \subseteq dirs
  BY DEF Local!Tree
<1>7. \A q \in F : q \in DOMAIN files /\ (q = p \/ (q # <<>> /\ Local!Parent(q) = p /\ p \in dirs))
  BY DEF Local!FilesAt, Local!Children
<1>8. p \notin dirs => C = {}
  <2>. SUFFICES ASSUME NEW r \in C PROVE p \in dirs
    OBVIOUS
  <2>1. p \in Local!Above(r)
    BY <1>3, ParentIs
  <2>. QED
    BY <1>3, <1>6, <2>1
<1>9. /\ \A q \in DOMAIN files : q = p => q \in F
      /\ \A q \in DOMAIN files : p \in dirs /\ Local!Parent(q) = p => q \in F
  BY <1>1, <1>5 DEF Local!FilesAt, Local!Children
<1>. HIDE DEF p, F, C, old
<1>10. \A x \in C \cup F : x \in Seq(S) /\ p \in Local!Above(x)
  BY <1>1, <1>2, <1>3, <1>7, ParentIs, AboveOrder
<1>11. /\ w.todo \in Seq(Local!Folders)
       /\ \A i \in DOMAIN w.todo : \/ i \in 1..Len(order) /\ w.todo[i] = order[i]
                                   \/ \E k \in 1..Len(old) : i = k + Len(order) /\ w.todo[i] = old[k]
       /\ \A i \in 1..Len(order) : i \in DOMAIN w.todo /\ w.todo[i] = order[i]
       /\ \A k \in 1..Len(old) : k + Len(order) \in DOMAIN w.todo /\ w.todo[k + Len(order)] = old[k]
  <2>1. w.todo = order \o old
    BY DEF old, p
  <2>2. old \in Seq(Local!Folders) /\ order \in Seq(Local!Folders)
    BY <1>2, <1>4
  <2>3. w.todo \in Seq(Local!Folders) /\ Joins(w.todo, order, old)
    BY <2>1, <2>2, JoinIs
  <2>. QED
    BY <2>3 DEF Joins
<1>12. ASSUME NEW i \in DOMAIN w.todo
       PROVE  \/ i \in 1..Len(order) /\ w.todo[i] = order[i] /\ w.todo[i] \in C
              \/ \E k \in 2..Len(u.todo) : w.todo[i] = u.todo[k] /\ i = k - 1 + Len(order)
  <2>1. CASE i \in 1..Len(order) /\ w.todo[i] = order[i]
    BY <1>4, <2>1
  <2>2. ASSUME NEW k \in 1..Len(old), i = k + Len(order), w.todo[i] = old[k]
        PROVE  \E m \in 2..Len(u.todo) : w.todo[i] = u.todo[m] /\ i = m - 1 + Len(order)
    <3>. DEFINE n == Len(u.todo)
                m == Len(old)
    <3>0. n \in Nat \ {0} /\ m = n - 1 /\ k \in 1..m
      BY <1>2
    <3>. HIDE DEF n, m
    <3>1. k + 1 \in 2..Len(u.todo) /\ (k + 1) - 1 = k
      BY <3>0 DEF n
    <3>2. w.todo[i] = u.todo[k + 1]
      BY <1>2, <2>2
    <3>. QED
      BY <2>2, <3>1, <3>2
  <2>. QED
    BY <1>11, <2>1, <2>2
<1>13. /\ Local!Found(w) = Local!Found(u) \cup F /\ w.found \in Seq(SUBSET Local!Places)
       /\ Len(w.found) = Len(u.found) + 1 /\ w.found[Len(u.found) + 1] = F
       /\ \A i \in 1..Len(u.found) : w.found[i] = u.found[i]
  <2>1. F \in SUBSET Local!Places
    BY <1>1, <1>7
  <2>2. /\ w.found \in Seq(SUBSET Local!Places) /\ Len(w.found) = Len(u.found) + 1
        /\ w.found[Len(u.found) + 1] = F /\ \A i \in 1..Len(u.found) : w.found[i] = u.found[i]
    BY <1>1, <2>1 DEF F, p
  <2>3. DOMAIN w.found = 1..Len(u.found) + 1 /\ DOMAIN u.found = 1..Len(u.found) /\ Len(u.found) \in Nat
    BY <1>1, <2>2
  <2>. QED
    BY <2>2, <2>3 DEF Local!Found
<1>14. /\ \A q \in u.since : q \in Local!Found(u) \/ \E i \in DOMAIN u.todo : u.todo[i] \in Local!Above(q)
       /\ \A i, j \in 1..Len(u.todo) : u.todo[i] \in Local!Above(u.todo[j]) => i = j
       /\ \A i \in 1..Len(u.todo) : \A q \in Local!Found(u) : u.todo[i] \notin Local!Above(q)
       /\ u.since \subseteq DOMAIN files /\ DOMAIN files \subseteq u.until
       /\ Local!Found(u) \subseteq u.until /\ Local!Once(u) /\ DOMAIN u.todo = 1..Len(u.todo)
  BY <1>1 DEF Local!Walk
<1>15. 1 \in 1..Len(u.todo) /\ \A k \in 2..Len(u.todo) : k \in 1..Len(u.todo) /\ k # 1 /\ u.todo[k] \in Seq(S)
  <2>1. 1 \in 1..Len(u.todo) /\ \A k \in 2..Len(u.todo) : k \in 1..Len(u.todo) /\ k # 1
    BY <1>2
  <2>2. \A k \in 1..Len(u.todo) : u.todo[k] \in Seq(S)
    BY <1>1
  <2>. QED
    BY <2>1, <2>2
<1>16. \A k \in 2..Len(u.todo) : \A x \in C \cup F : u.todo[k] \notin Local!Above(x) /\ x \notin Local!Above(u.todo[k])
  <2>. SUFFICES ASSUME NEW k \in 2..Len(u.todo), NEW x \in C \cup F
                PROVE  u.todo[k] \notin Local!Above(x) /\ x \notin Local!Above(u.todo[k])
    OBVIOUS
  <2>1. p \notin Local!Above(u.todo[k]) /\ u.todo[k] \notin Local!Above(p)
    BY <1>2, <1>14, <1>15
  <2>2. x \in Seq(S) /\ p \in Local!Above(x)
    BY <1>10
  <2>3. x \notin Local!Above(u.todo[k])
    BY <1>2, <1>15, <2>1, <2>2, AboveOrder
  <2>4. u.todo[k] \notin Local!Above(x)
    BY <1>2, <1>15, <2>1, <2>2, AboveOrder
  <2>. QED
    BY <2>3, <2>4
<1>17. \A x, y \in C \cup F : x \in C /\ x \in Local!Above(y) => x = y
  <2>. SUFFICES ASSUME NEW x \in C, NEW y \in C \cup F, x \in Local!Above(y) PROVE x = y
    OBVIOUS
  <2>1. y # p
    <3>1. y \in C => y # <<>> /\ Local!Parent(y) = p
      BY <1>3
    <3>2. y \in F /\ y = p => p \in DOMAIN files
      BY <1>7
    <3>3. p \in dirs
      BY <1>8
    <3>4. y \in C => Len(p) = Len(y) - 1 /\ Len(y) \in Nat
      BY <1>3, <1>10, ParentIs
    <3>. QED
      BY <1>5, <3>2, <3>3, <3>4
  <2>2. y # <<>> /\ Local!Parent(y) = p /\ x # <<>> /\ Local!Parent(x) = p
    BY <1>3, <1>7, <2>1
  <2>3. Len(x) = Len(y)
    <3>1. Len(p) = Len(x) - 1 /\ Len(p) = Len(y) - 1 /\ Len(x) \in Nat /\ Len(y) \in Nat
      BY <1>10, <2>2, ParentIs
    <3>. QED
      BY <3>1
  <2>. QED
    BY <1>10, <2>3, AboveOrder
<1>18. ASSUME NEW q \in w.since PROVE q \in Local!Found(w) \/ \E i \in DOMAIN w.todo : w.todo[i] \in Local!Above(q)
  <2>0. q \in DOMAIN files /\ q \in Seq(S) /\ q # <<>>
    BY <1>1, <1>14
  <2>1. CASE q \in Local!Found(u)
    BY <1>13, <2>1
  <2>2. ASSUME NEW k \in 2..Len(u.todo), u.todo[k] \in Local!Above(q)
        PROVE  \E i \in DOMAIN w.todo : w.todo[i] \in Local!Above(q)
    <3>1. k - 1 \in 1..Len(old) /\ (k - 1) + 1 = k
      BY <1>2
    <3>2. old[k - 1] = u.todo[k]
      BY <1>2, <3>1
    <3>3. (k - 1) + Len(order) \in DOMAIN w.todo /\ w.todo[(k - 1) + Len(order)] = u.todo[k]
      BY <1>11, <3>1, <3>2
    <3>. QED
      BY <2>2, <3>3
  <2>3. CASE p \in Local!Above(q)
    <3>1. CASE p = q
      BY <1>9, <1>13, <2>0, <3>1
    <3>2. CASE p # q
      <4>1. PICK r \in Seq(S) : r \in Local!Above(q) /\ r # <<>> /\ Local!Parent(r) = p
        BY <1>2, <2>0, <2>3, <3>2, ChildTowards
      <4>2. p \in dirs
        BY <1>2, <1>5, <2>0, <2>3, <3>2, ParentIs
      <4>3. CASE r = q
        BY <1>9, <1>13, <2>0, <4>1, <4>2, <4>3
      <4>4. CASE r # q
        <5>1. r \in dirs
          BY <1>5, <2>0, <4>1, <4>4, ParentIs
        <5>2. r \in C
          BY <4>1, <5>1 DEF C, Local!Children
        <5>3. PICK i \in 1..Len(order) : order[i] = r
          BY <1>4, <5>2
        <5>4. i \in DOMAIN w.todo /\ w.todo[i] = r
          BY <1>11, <5>3
        <5>. QED
          BY <4>1, <5>4
      <4>. QED
        BY <4>3, <4>4
    <3>. QED
      BY <3>1, <3>2
  <2>. QED
    <3>1. CASE \E i \in 1..Len(u.todo) : u.todo[i] \in Local!Above(q)
      <4>1. PICK i \in 1..Len(u.todo) : u.todo[i] \in Local!Above(q)
        BY <3>1
      <4>2. i = 1 \/ i \in 2..Len(u.todo)
        OBVIOUS
      <4>. QED
        BY <1>2, <2>2, <2>3, <4>1, <4>2
    <3>. QED
      BY <1>14, <2>1, <3>1
<1>19. ASSUME NEW i \in DOMAIN w.todo, NEW j \in DOMAIN w.todo, w.todo[i] \in Local!Above(w.todo[j]) PROVE i = j
  <2>1. CASE i \in 1..Len(order) /\ j \in 1..Len(order) /\ w.todo[i] \in C /\ w.todo[j] \in C
             /\ w.todo[i] = order[i] /\ w.todo[j] = order[j]
    BY <1>4, <1>17, <1>19, <2>1
  <2>2. ASSUME NEW k \in 2..Len(u.todo), w.todo[i] = u.todo[k], w.todo[j] \in C PROVE FALSE
    BY <1>16, <1>19, <2>2
  <2>3. ASSUME NEW k \in 2..Len(u.todo), w.todo[j] = u.todo[k], w.todo[i] \in C PROVE FALSE
    BY <1>16, <1>19, <2>3
  <2>4. ASSUME NEW k \in 2..Len(u.todo), NEW m \in 2..Len(u.todo), w.todo[i] = u.todo[k], w.todo[j] = u.todo[m],
               i = k - 1 + Len(order), j = m - 1 + Len(order)
        PROVE  i = j
    BY <1>14, <1>15, <1>19, <2>4
  <2>. QED
    BY <1>12, <2>1, <2>2, <2>3, <2>4
<1>20. ASSUME NEW i \in DOMAIN w.todo, NEW q \in Local!Found(w) PROVE w.todo[i] \notin Local!Above(q)
  <2>1. q \in Local!Found(u) => p \notin Local!Above(q) /\ q \in Seq(S)
    <3>1. Local!Found(u) \subseteq Local!Places
      BY <1>1 DEF Local!Found
    <3>. QED
      BY <1>1, <1>2, <1>14, <1>15, <3>1
  <2>2. ASSUME w.todo[i] \in C, w.todo[i] \in Local!Above(q) PROVE FALSE
    <3>1. CASE q \in Local!Found(u)
      <4>1. p \in Local!Above(w.todo[i]) /\ w.todo[i] \in Seq(S)
        BY <1>10, <2>2
      <4>2. q \in Seq(S) /\ p \notin Local!Above(q)
        BY <2>1, <3>1
      <4>3. \A x \in Seq(S) : p \in Local!Above(x) /\ x \in Local!Above(q) => p \in Local!Above(q)
        BY <1>2, <4>2, AboveOrder
      <4>. QED
        BY <2>2, <4>1, <4>2, <4>3
    <3>2. CASE q \in F
      <4>1. w.todo[i] = q
        BY <1>17, <2>2, <3>2
      <4>. QED
        BY <1>3, <1>5, <1>7, <2>2, <3>2, <4>1
    <3>. QED
      BY <1>13, <3>1, <3>2
  <2>3. ASSUME NEW k \in 2..Len(u.todo), w.todo[i] = u.todo[k] PROVE w.todo[i] \notin Local!Above(q)
    BY <1>13, <1>14, <1>15, <1>16, <2>3
  <2>. QED
    BY <1>12, <2>2, <2>3
<1>21. Local!Once(w)
  <2>1. F \cap Local!Found(u) = {}
    BY <1>2, <1>10, <1>14, <1>15
  <2>2. \A i \in 1..Len(u.found) : u.found[i] \subseteq Local!Found(u)
    BY <1>1 DEF Local!Found
  <2>3. \A i, j \in 1..Len(u.found) : i # j => u.found[i] \cap u.found[j] = {}
    <3>1. DOMAIN u.found = 1..Len(u.found)
      BY <1>1
    <3>. QED
      BY <1>14, <3>1 DEF Local!Once
  <2>4. Len(u.found) \in Nat /\ DOMAIN w.found = 1..Len(u.found) + 1
    BY <1>1, <1>13
  <2>5. \A i \in 1..Len(u.found) + 1 : i \in 1..Len(u.found) \/ i = Len(u.found) + 1
    BY <2>4
  <2>. QED
    BY <1>13, <2>1, <2>2, <2>3, <2>4, <2>5 DEF Local!Once
<1>22. Local!Found(w) \subseteq w.until
  BY <1>7, <1>13, <1>14
<1>. QED
  BY <1>14, <1>18, <1>19, <1>20, <1>21, <1>22 DEF Local!Walk

LEMMA CallIs ==
  ASSUME Local!LocalTypes, NEW c \in FileClients
  PROVE  /\ client[c] \in {Local!Idle} \cup Local!Calls
         /\ client[c].at # "idle" => client[c] \in Local!Calls /\ client[c] # Local!Idle
         /\ client[c] = Local!Idle => client[c].at = "idle"
<1>1. client[c] \in {Local!Idle} \cup Local!Calls
  BY DEF Local!LocalTypes
<1>2. Local!Idle.at = "idle"
  BY DEF Local!Idle
<1>. QED
  BY <1>1, <1>2

(* What a client does is not affected by directories that are created.     *)
LEMMA CourseStays ==
  ASSUME NEW d, client'[d] = client[d], files' = files, stored' = stored, dirs \subseteq dirs',
         Local!Course(client[d])
  PROVE  Local!Course(client[d])'
BY DEF Local!Course, Local!Walk, Local!Found, Local!Once

(* A step of one client that changes no file.                              *)
LEMMA ClientMoves ==
  ASSUME Local!LocalInv, NEW c \in FileClients, files' = files, stored' = stored, calls' \in 0..MaxFileCalls,
         dirs \subseteq dirs', dirs' \subseteq Local!Folders, IsFiniteSet(dirs'), Local!Tree',
         NEW v \in {Local!Idle} \cup Local!Calls, client' = [client EXCEPT ![c] = v],
         \/ Local!Course(v)
         \/ v.at = "create" /\ v.path \in Local!Places /\ v.data \in FileData
                            /\ Local!Above(Local!Parent(v.path)) \subseteq dirs'
  PROVE  Local!LocalInv'
<1>1. client \in [FileClients -> {Local!Idle} \cup Local!Calls]
  BY DEF Local!LocalInv, Local!LocalTypes
<1>2. client' \in [FileClients -> {Local!Idle} \cup Local!Calls]
  BY <1>1
<1>3. Local!LocalTypes'
  BY <1>2, LocalOps DEF Local!LocalInv, Local!LocalTypes
<1>4. Local!Remembered'
  BY DEF Local!LocalInv, Local!Remembered
<1>5. ASSUME NEW d \in FileClients PROVE Local!Course(client[d])'
  <2>1. CASE d # c
    <3>1. client'[d] = client[d] /\ Local!Course(client[d])
      BY <1>1, <2>1 DEF Local!LocalInv
    <3>. QED
      BY <3>1, CourseStays
  <2>2. CASE d = c
    <3>1. client'[d] = v
      BY <1>1, <2>2
    <3>. QED
      BY <3>1 DEF Local!Course, Local!Walk, Local!Found, Local!Once
  <2>. QED
    BY <2>1, <2>2
<1>. QED
  BY <1>3, <1>4, <1>5 DEF Local!LocalInv

LEMMA TreeStays ==
  ASSUME Local!LocalInv, files' = files, dirs' = dirs
  PROVE  Local!Tree' /\ dirs \subseteq dirs' /\ dirs' \subseteq Local!Folders /\ IsFiniteSet(dirs')
BY LocalOps DEF Local!LocalInv, Local!LocalTypes, Local!Tree

LEMMA IdleCourse == Local!Course(Local!Idle)
BY DEF Local!Course, Local!Idle

LEMMA CallTypes ==
  ASSUME NEW what \in {"create", "write", "lost", "read", "answer", "remove", "list", "listed"},
         NEW p \in Local!Places \cup {<<>>}, NEW x \in FileData \cup {"", Local!Nothing}
  PROVE  Local!Call(what, p, x) \in Local!Calls
<1>1. \A S : <<>> \in Seq(S)
  BY EmptySeq
<1>. QED
  BY <1>1 DEF Local!Call, Local!Calls

LEMMA MayCall ==
  ASSUME Local!LocalInv, NEW c \in FileClients, Local!May(c), calls' = calls + 1
  PROVE  calls' \in 0..MaxFileCalls /\ client[c] = Local!Idle
<1>1. calls \in 0..MaxFileCalls
  BY DEF Local!LocalInv, Local!LocalTypes
<1>. QED
  BY <1>1, LocalAssumption DEF Local!May

LEMMA ClientsAre ==
  ASSUME Local!LocalInv
  PROVE  DOMAIN client = FileClients /\ calls \in 0..MaxFileCalls /\ Local!LocalTypes /\ Local!Tree
BY DEF Local!LocalInv, Local!LocalTypes

LEMMA StoreFileStep ==
  ASSUME Local!LocalInv, NEW c \in FileClients, NEW path \in FilePaths, NEW data \in FileData,
         Local!Store(c, path, data)
  PROVE  Local!LocalInv'
<1>. DEFINE p == Local!Resolve(path)
            A == Local!Above(Local!Parent(p))
<1>1. /\ Local!LocalTypes /\ Local!Tree /\ client[c] = Local!Idle /\ calls' \in 0..MaxFileCalls
      /\ files' = files /\ stored' = stored
  BY MayCall, ClientsAre DEF Local!Store
<1>2. CASE p = <<>> \/ A \cap DOMAIN files # {}
  <2>1. dirs' = dirs /\ client' = client
    BY <1>2 DEF Local!Store
  <2>2. client' = [client EXCEPT ![c] = Local!Idle]
    BY <1>1, <2>1 DEF Local!LocalTypes
  <2>. QED
    BY <1>1, <2>1, <2>2, TreeStays, IdleCourse, ClientMoves
<1>3. CASE p # <<>> /\ A \cap DOMAIN files = {}
  <2>. DEFINE v == Local!Call("create", p, data)
  <2>1. p \in Local!Places
    BY <1>3, PathsAre
  <2>2. dirs' = dirs \cup A /\ client' = [client EXCEPT ![c] = v]
    BY <1>3 DEF Local!Store
  <2>3. v \in Local!Calls /\ v.at = "create" /\ v.path = p /\ v.data = data
    BY <2>1, CallTypes DEF Local!Call
  <2>. HIDE DEF p
  <2>4. /\ A \subseteq Local!Folders /\ IsFiniteSet(A) /\ \A a \in A : Local!Above(a) \subseteq A
    BY <2>1, FoldersAbove
  <2>. HIDE DEF A, v
  <2>5. dirs' \subseteq Local!Folders /\ IsFiniteSet(dirs') /\ dirs \subseteq dirs'
    <3>1. IsFiniteSet(dirs) /\ dirs \subseteq Local!Folders
      BY <1>1, LocalOps DEF Local!LocalTypes
    <3>. QED
      BY <2>2, <2>4, <3>1, FS_Union
  <2>6. Local!Tree'
    BY <1>1, <1>3, <2>2, <2>4 DEF Local!Tree
  <2>7. v.path \in Local!Places /\ v.data \in FileData /\ Local!Above(Local!Parent(v.path)) \subseteq dirs'
    BY <2>1, <2>2, <2>3 DEF A
  <2>. QED
    BY <1>1, <2>2, <2>3, <2>5, <2>6, <2>7, ClientMoves
<1>. QED
  BY <1>2, <1>3

LEMMA LookStep ==
  ASSUME Local!LocalInv, NEW c \in FileClients, NEW path \in FilePaths, NEW what \in {"read", "remove"},
         Local!Look(c, what, path)
  PROVE  Local!LocalInv'
<1>. DEFINE p == Local!Resolve(path)
<1>1. /\ calls' \in 0..MaxFileCalls /\ files' = files /\ stored' = stored /\ dirs' = dirs
  BY MayCall DEF Local!Look
<1>2. p \in Local!Places \cup {<<>>}
  BY PathsAre
<1>3. CASE p # <<>> /\ Local!Exists(p)
  <2>. DEFINE v == Local!Call(what, p, "")
  <2>1. client' = [client EXCEPT ![c] = v]
    BY <1>3 DEF Local!Look
  <2>2. v \in Local!Calls /\ v.at = what /\ v.path = p
    BY <1>2, CallTypes DEF Local!Call
  <2>. HIDE DEF v, p
  <2>3. Local!Course(v)
    BY <1>2, <1>3, <2>2 DEF Local!Course
  <2>. QED
    BY <1>1, <2>1, <2>2, <2>3, TreeStays, ClientMoves
<1>4. CASE p # <<>> /\ ~Local!Exists(p) /\ what = "read"
  <2>. DEFINE v == Local!Call("answer", p, Local!Nothing)
  <2>1. client' = [client EXCEPT ![c] = v]
    BY <1>4 DEF Local!Look
  <2>2. v \in Local!Calls /\ v.at = "answer" /\ v.path = p /\ v.data = Local!Nothing
    BY <1>2, CallTypes DEF Local!Call
  <2>. HIDE DEF v, p
  <2>3. p \in Local!Places /\ p \notin DOMAIN files
    BY <1>2, <1>4 DEF Local!Exists
  <2>4. stored[p] = Local!Nothing \/ stored[p] = Local!Unsure
    BY <2>3 DEF Local!LocalInv, Local!LocalTypes, Local!Remembered
  <2>5. Local!Course(v)
    BY <2>2, <2>3, <2>4 DEF Local!Course
  <2>. QED
    BY <1>1, <2>1, <2>2, <2>5, TreeStays, ClientMoves
<1>5. CASE p = <<>> \/ (~Local!Exists(p) /\ what # "read")
  <2>1. client' = [client EXCEPT ![c] = Local!Idle]
    BY <1>5 DEF Local!Look
  <2>. QED
    BY <1>1, <2>1, TreeStays, IdleCourse, ClientMoves
<1>. QED
  BY <1>3, <1>4, <1>5

LEMMA ReadStep ==
  ASSUME Local!LocalInv, NEW c \in FileClients, Local!Read(c)
  PROVE  Local!LocalInv'
<1>. DEFINE u == client[c]
            p == u.path
<1>1. /\ u.at = "read" /\ calls' \in 0..MaxFileCalls /\ files' = files /\ stored' = stored /\ dirs' = dirs
      /\ client' = [client EXCEPT ![c] = IF p \in DOMAIN files
                                         THEN [u EXCEPT !.at = "answer", !.data = files[p]] ELSE Local!Idle]
  BY DEF Local!LocalInv, Local!LocalTypes, Local!Read
<1>2. u \in Local!Calls /\ p \in Local!Places
  BY <1>1, CallIs DEF Local!LocalInv, Local!Course
<1>3. CASE p \in DOMAIN files
  <2>. DEFINE v == [u EXCEPT !.at = "answer", !.data = files[p]]
  <2>1. files[p] \in FileData \cup {""} /\ stored[p] \in FileData \cup {Local!Nothing, Local!Unsure}
    BY <1>2, <1>3 DEF Local!LocalInv, Local!LocalTypes
  <2>2. v \in Local!Calls /\ v.at = "answer" /\ v.path = p /\ v.data = files[p]
    BY <1>2, <2>1 DEF Local!Calls
  <2>. HIDE DEF v
  <2>3. stored[p] = Local!Unsure \/ files[p] = stored[p]
    BY <1>2, <1>3, <2>1 DEF Local!LocalInv, Local!Remembered
  <2>4. Local!Course(v)
    BY <1>2, <2>2, <2>3 DEF Local!Course
  <2>5. client' = [client EXCEPT ![c] = v]
    BY <1>1, <1>3 DEF v
  <2>. QED
    BY <1>1, <2>2, <2>4, <2>5, TreeStays, ClientMoves
<1>4. CASE p \notin DOMAIN files
  <2>1. client' = [client EXCEPT ![c] = Local!Idle]
    BY <1>1, <1>4
  <2>. QED
    BY <1>1, <2>1, TreeStays, IdleCourse, ClientMoves
<1>. QED
  BY <1>3, <1>4

LEMMA ListStep ==
  ASSUME Local!LocalInv, NEW c \in FileClients, NEW path \in FilePaths, Local!List(c, path)
  PROVE  Local!LocalInv'
<1>. DEFINE p == Local!Resolve(path)
            v == Local!Listing(p)
<1>1. /\ calls' \in 0..MaxFileCalls /\ files' = files /\ stored' = stored /\ dirs' = dirs
      /\ client' = [client EXCEPT ![c] = v] \/ client' = [client EXCEPT ![c] = Local!Idle]
  BY MayCall DEF Local!List
<1>2. p \in Local!Places \cup {<<>>} /\ p \in Local!Folders
  BY PathsAre
<1>3. DOMAIN files \subseteq Local!Places
  BY DEF Local!LocalInv, Local!LocalTypes
<1>4. /\ v.at = "list" /\ v.path = p /\ v.todo = <<p>> /\ v.found = <<>>
      /\ v.since = {q \in DOMAIN files : p \in Local!Above(q)} /\ v.until = DOMAIN files
  BY DEF Local!Listing
<1>5. v \in Local!Calls
  <2>1. <<p>> \in Seq(Local!Folders) /\ <<>> \in Seq(SUBSET Local!Places)
    BY <1>2
  <2>. HIDE DEF p
  <2>. QED
    BY <1>2, <1>3, <2>1 DEF Local!Listing, Local!Calls
<1>. HIDE DEF v, p
<1>6. Local!Walk(v)
  <2>1. Local!Found(v) = {} /\ Local!Once(v)
    BY <1>4 DEF Local!Found, Local!Once
  <2>2. DOMAIN v.todo = {1} /\ v.todo[1] = p
    BY <1>4
  <2>. QED
    BY <1>4, <2>1, <2>2 DEF Local!Walk
<1>7. Local!Course(v)
  BY <1>4, <1>6 DEF Local!Course
<1>. QED
  BY <1>1, <1>5, <1>7, TreeStays, IdleCourse, ClientMoves

LEMMA ListRecursiveStep ==
  ASSUME Local!LocalInv, NEW c \in FileClients, Local!ListRecursive(c)
  PROVE  Local!LocalInv'
<1>. DEFINE u == client[c]
            p == Head(u.todo)
<1>1. /\ u.at = "list" /\ u.todo # <<>> /\ calls' \in 0..MaxFileCalls
      /\ files' = files /\ stored' = stored /\ dirs' = dirs /\ Local!LocalTypes /\ Local!Tree
  BY ClientsAre DEF Local!ListRecursive
<1>2. PICK order \in Local!Orders(Local!Children(p) \cap dirs) :
        client' = [client EXCEPT ![c] = Local!Onward(u, order)]
  BY ClientsAre DEF Local!ListRecursive
<1>3. u \in Local!Calls /\ Local!Walk(u)
  BY <1>1, CallIs DEF Local!LocalInv, Local!Course
<1>. DEFINE t == order \o Tail(u.todo)
            f == Append(u.found, Local!FilesAt(p))
            w == Local!Onward(u, order)
<1>4. t \in Seq(Local!Folders)
  <2>1. order \in Seq(Local!Folders)
    BY <1>1, <1>2, OrdersAre
  <2>2. u.todo \in Seq(Local!Folders)
    BY <1>3 DEF Local!Calls
  <2>3. Tail(u.todo) \in Seq(Local!Folders)
    BY <1>1, <2>2, HeadTailProperties
  <2>. QED
    BY <2>1, <2>3
<1>5. f \in Seq(SUBSET Local!Places)
  <2>1. u.found \in Seq(SUBSET Local!Places) /\ DOMAIN files \subseteq Local!Places
    BY <1>1, <1>3 DEF Local!Calls, Local!LocalTypes
  <2>2. Local!FilesAt(p) \subseteq Local!Places
    BY <2>1 DEF Local!FilesAt
  <2>. QED
    BY <2>1, <2>2
<1>. HIDE DEF t, f, p
<1>6. /\ w \in Local!Calls /\ w.at = "list" /\ w.todo = t /\ w.found = f
      /\ w.since = u.since /\ w.until = u.until /\ client' = [client EXCEPT ![c] = w]
  BY <1>1, <1>2, <1>3, <1>4, <1>5 DEF Local!Onward, Local!Calls, t, f, p
<1>. HIDE DEF w
<1>7. Local!Walk(w)
  BY <1>1, <1>2, <1>3, <1>6, WalkOn DEF t, f, p
<1>8. Local!Course(w)
  BY <1>6, <1>7 DEF Local!Course
<1>. QED
  BY <1>1, <1>6, <1>8, TreeStays, ClientMoves

LEMMA ReturnsStep ==
  ASSUME Local!LocalInv, NEW c \in FileClients, Local!Listed(c) \/ Local!Return(c) \/ Local!WriteLost(c)
  PROVE  Local!LocalInv'
<1>1. calls' \in 0..MaxFileCalls /\ files' = files /\ stored' = stored /\ dirs' = dirs
  BY DEF Local!LocalInv, Local!LocalTypes, Local!Listed, Local!Return, Local!WriteLost
<1>2. CASE Local!Return(c) \/ Local!WriteLost(c)
  <2>1. client' = [client EXCEPT ![c] = Local!Idle]
    BY <1>2 DEF Local!Return, Local!WriteLost
  <2>. QED
    BY <1>1, <2>1, TreeStays, IdleCourse, ClientMoves
<1>3. CASE Local!Listed(c)
  <2>. DEFINE u == client[c]
              v == [u EXCEPT !.at = "listed"]
  <2>1. u.at = "list" /\ u.todo = <<>> /\ client' = [client EXCEPT ![c] = v]
    BY <1>3 DEF Local!Listed, Local!LocalInv, Local!LocalTypes
  <2>2. u \in Local!Calls /\ Local!Walk(u)
    BY <2>1, CallIs DEF Local!LocalInv, Local!Course
  <2>3. v \in Local!Calls /\ v.at = "listed" /\ v.found = u.found /\ v.since = u.since /\ v.until = u.until
    BY <2>2 DEF Local!Calls
  <2>. HIDE DEF v
  <2>4. Local!Course(v)
    BY <2>1, <2>2, <2>3 DEF Local!Course, Local!Walk, Local!Found, Local!Once
  <2>. QED
    BY <1>1, <2>1, <2>3, <2>4, TreeStays, ClientMoves
<1>. QED
  BY <1>2, <1>3

(* What a client does after another one has changed the file at p.         *)
LEMMA CourseNoticed ==
  ASSUME Local!LocalInv, NEW c \in FileClients, NEW p \in Local!Places, NEW now, NEW d \in FileClients, d # c,
         client'[d] = Local!Noticed(c, p, now)[d], dirs' = dirs,
         DOMAIN files \ {p} \subseteq DOMAIN files', DOMAIN files' \subseteq DOMAIN files \cup {p},
         p \in now => p \in DOMAIN files',
         client[d].at = "write" /\ client[d].path = p => p \in DOMAIN files',
         \A q \in Local!Places \ {p} : stored'[q] = stored[q]
  PROVE  client'[d] \in {Local!Idle} \cup Local!Calls /\ Local!Course(client[d])'
<1>. DEFINE u == client[d]
            w == client'[d]
<1>1. u \in {Local!Idle} \cup Local!Calls /\ Local!Course(u)
  BY CallIs DEF Local!LocalInv
<1>2. CASE u = Local!Idle
  <2>1. w = Local!Idle
    BY <1>2 DEF Local!Noticed
  <2>. QED
    BY <2>1 DEF Local!Course, Local!Idle
<1>3. CASE u # Local!Idle
  <2>1. u \in Local!Calls
    BY <1>1, <1>3
  <2>2. w = [u EXCEPT !.clean = @ /\ u.path # p, !.since = IF p \in now THEN @ ELSE @ \ {p}, !.until = @ \cup {p}]
    BY <1>3 DEF Local!Noticed
  <2>. HIDE DEF w
  <2>3. /\ w \in Local!Calls /\ w.at = u.at /\ w.path = u.path /\ w.data = u.data /\ w.todo = u.todo
        /\ w.found = u.found /\ w.clean = (u.clean /\ u.path # p)
        /\ w.since = (IF p \in now THEN u.since ELSE u.since \ {p}) /\ w.until = u.until \cup {p}
    BY <2>1, <2>2 DEF Local!Calls
  <2>4. w.at \in {"create", "write", "lost", "read", "answer", "remove"} => w.path \in Local!Places
    BY <1>1, <2>3 DEF Local!Course
  <2>5. w.at = "create" => w.data \in FileData /\ Local!Above(Local!Parent(w.path)) \subseteq dirs'
    BY <1>1, <2>3 DEF Local!Course
  <2>6. w.at = "write" => w.data \in FileData /\ w.path \in DOMAIN files'
    BY <1>1, <2>3 DEF Local!Course
  <2>7. w.at = "answer" => ~w.clean \/ stored'[w.path] = Local!Unsure \/ w.data = stored'[w.path]
    BY <1>1, <2>3 DEF Local!Course
  <2>8. Local!Found(w) = Local!Found(u) /\ (Local!Once(u) => Local!Once(w))
    BY <2>3 DEF Local!Found, Local!Once
  <2>9. w.at = "list" => Local!Walk(client[d])'
    BY <1>1, <2>3, <2>8 DEF Local!Course, Local!Walk, w
  <2>10. w.at = "listed" => w.since \subseteq Local!Found(w) /\ Local!Found(w) \subseteq w.until /\ Local!Once(w)
    BY <1>1, <2>3, <2>8 DEF Local!Course
  <2>11. Local!Course(client[d])'
    BY <2>4, <2>5, <2>6, <2>7, <2>9, <2>10 DEF Local!Course, w
  <2>. QED
    BY <2>3, <2>11 DEF w
<1>. QED
  BY <1>2, <1>3

LEMMA CreateFileStep ==
  ASSUME Local!LocalInv, NEW c \in FileClients, Local!Create(c)
  PROVE  Local!LocalInv'
<1>. DEFINE u == client[c]
            p == u.path
<1>1. u.at = "create" /\ dirs' = dirs /\ calls' = calls
  BY DEF Local!Create
<1>2. u \in Local!Calls /\ p \in Local!Places /\ u.data \in FileData /\ Local!Above(Local!Parent(p)) \subseteq dirs
  BY <1>1, CallIs DEF Local!LocalInv, Local!Course
<1>3. CASE p \in dirs
  <2>1. client' = [client EXCEPT ![c] = Local!Idle] /\ files' = files /\ stored' = stored /\ calls' \in 0..MaxFileCalls
    BY <1>1, <1>3, ClientsAre DEF Local!Create
  <2>. QED
    BY <1>1, <2>1, TreeStays, IdleCourse, ClientMoves
<1>4. CASE p \notin dirs
  <2>. DEFINE v == [u EXCEPT !.at = "write"]
  <2>1. /\ files' = [q \in DOMAIN files \cup {p} |-> IF q = p THEN "" ELSE files[q]]
        /\ client' = [Local!Noticed(c, p, DOMAIN files) EXCEPT ![c] = v]
        /\ stored' = [stored EXCEPT ![p] = Local!Unsure]
    BY <1>4 DEF Local!Create
  <2>2. DOMAIN files' = DOMAIN files \cup {p} /\ \A q \in DOMAIN files' : files'[q] = IF q = p THEN "" ELSE files[q]
    BY <2>1
  <2>3. v \in Local!Calls /\ v.at = "write" /\ v.path = p /\ v.data = u.data
    BY <1>2 DEF Local!Calls
  <2>. HIDE DEF v
  <2>4. client'[c] = v /\ \A d \in FileClients \ {c} : client'[d] = Local!Noticed(c, p, DOMAIN files)[d]
    BY <2>1 DEF Local!Noticed
  <2>5. Local!Course(client[c])'
    <3>1. client'[c].at = "write" /\ client'[c].path = p /\ client'[c].data = u.data
      BY <2>3, <2>4
    <3>. QED
      BY <1>2, <2>2, <3>1 DEF Local!Course
  <2>6. /\ files \in [DOMAIN files -> FileData \cup {""}] /\ DOMAIN files \subseteq Local!Places
        /\ <<>> \in dirs /\ dirs \subseteq Local!Folders /\ IsFiniteSet(dirs) /\ calls \in 0..MaxFileCalls
        /\ stored \in [Local!Places -> FileData \cup {Local!Nothing, Local!Unsure}]
    BY LocalOps DEF Local!LocalInv, Local!LocalTypes
  <2>7. stored' \in [Local!Places -> FileData \cup {Local!Nothing, Local!Unsure}]
        /\ stored'[p] = Local!Unsure /\ \A q \in Local!Places \ {p} : stored'[q] = stored[q]
    BY <1>2, <2>1, <2>6
  <2>8. ASSUME NEW d \in FileClients, d # c
        PROVE  client'[d] \in {Local!Idle} \cup Local!Calls /\ Local!Course(client[d])'
    <3>1. client'[d] = Local!Noticed(c, p, DOMAIN files)[d]
      BY <2>4, <2>8
    <3>2. DOMAIN files \ {p} \subseteq DOMAIN files' /\ DOMAIN files' \subseteq DOMAIN files \cup {p} /\ p \in DOMAIN files'
      BY <2>2
    <3>. QED
      BY <1>1, <1>2, <2>7, <2>8, <3>1, <3>2, CourseNoticed
  <2>9. client' \in [FileClients -> {Local!Idle} \cup Local!Calls]
    <3>1. client' = [d \in FileClients |-> client'[d]]
      BY <2>1 DEF Local!Noticed
    <3>. QED
      BY <2>3, <2>4, <2>8, <3>1
  <2>10. files' \in [DOMAIN files' -> FileData \cup {""}] /\ DOMAIN files' \subseteq Local!Places
    BY <1>2, <2>1, <2>2, <2>6
  <2>11. Local!LocalTypes'
    BY <1>1, <2>6, <2>7, <2>9, <2>10, LocalOps DEF Local!LocalTypes
  <2>12. Local!Tree'
    BY <1>1, <1>2, <1>4, <2>2 DEF Local!LocalInv, Local!Tree
  <2>13. Local!Remembered'
    <3>. SUFFICES ASSUME NEW q \in Local!Places
                  PROVE  /\ stored'[q] = Local!Nothing => q \notin DOMAIN files'
                         /\ stored'[q] \in FileData => q \in DOMAIN files' /\ files'[q] = stored'[q]
      BY DEF Local!Remembered
    <3>1. CASE q = p
      BY <2>7, <3>1, LocalAssumption DEF Local!Nothing, Local!Unsure
    <3>2. CASE q # p
      BY <2>2, <2>7, <3>2 DEF Local!LocalInv, Local!Remembered
    <3>. QED
      BY <3>1, <3>2
  <2>. QED
    BY <2>5, <2>8, <2>11, <2>12, <2>13 DEF Local!LocalInv
<1>. QED
  BY <1>3, <1>4

LEMMA WriteFileStep ==
  ASSUME Local!LocalInv, NEW c \in FileClients, Local!Write(c)
  PROVE  Local!LocalInv'
<1>. DEFINE u == client[c]
            p == u.path
<1>1. u.at = "write" /\ dirs' = dirs /\ calls' = calls
  BY DEF Local!Write
<1>2. u \in Local!Calls /\ p \in Local!Places /\ u.data \in FileData /\ p \in DOMAIN files
  BY <1>1, CallIs DEF Local!LocalInv, Local!Course
<1>3. /\ files' = [files EXCEPT ![p] = u.data]
      /\ client' = [Local!Noticed(c, p, DOMAIN files) EXCEPT ![c] = Local!Idle]
      /\ \E x \in {u.data, Local!Unsure} : stored' = [stored EXCEPT ![p] = x]
  BY DEF Local!Write
<1>4. /\ files \in [DOMAIN files -> FileData \cup {""}] /\ DOMAIN files \subseteq Local!Places
      /\ <<>> \in dirs /\ dirs \subseteq Local!Folders /\ IsFiniteSet(dirs) /\ calls \in 0..MaxFileCalls
      /\ stored \in [Local!Places -> FileData \cup {Local!Nothing, Local!Unsure}]
  BY LocalOps DEF Local!LocalInv, Local!LocalTypes
<1>5. DOMAIN files' = DOMAIN files /\ files'[p] = u.data /\ \A q \in DOMAIN files \ {p} : files'[q] = files[q]
  BY <1>2, <1>3
<1>6. client'[c] = Local!Idle /\ \A d \in FileClients \ {c} : client'[d] = Local!Noticed(c, p, DOMAIN files)[d]
  BY <1>3 DEF Local!Noticed
<1>7. /\ stored' \in [Local!Places -> FileData \cup {Local!Nothing, Local!Unsure}]
      /\ stored'[p] \in {u.data, Local!Unsure} /\ \A q \in Local!Places \ {p} : stored'[q] = stored[q]
  BY <1>2, <1>3, <1>4
<1>8. ASSUME NEW d \in FileClients, d # c
      PROVE  client'[d] \in {Local!Idle} \cup Local!Calls /\ Local!Course(client[d])'
  <2>1. client'[d] = Local!Noticed(c, p, DOMAIN files)[d]
    BY <1>6, <1>8
  <2>2. DOMAIN files \ {p} \subseteq DOMAIN files' /\ DOMAIN files' \subseteq DOMAIN files \cup {p} /\ p \in DOMAIN files'
    BY <1>2, <1>5
  <2>. QED
    BY <1>1, <1>2, <1>7, <1>8, <2>1, <2>2, CourseNoticed
<1>9. client' \in [FileClients -> {Local!Idle} \cup Local!Calls]
  <2>1. client' = [d \in FileClients |-> client'[d]]
    BY <1>3 DEF Local!Noticed
  <2>. QED
    BY <1>6, <1>8, <2>1
<1>10. Local!Course(client[c])'
  BY <1>6 DEF Local!Course, Local!Idle
<1>11. files' \in [DOMAIN files' -> FileData \cup {""}] /\ DOMAIN files' \subseteq Local!Places
  BY <1>2, <1>3, <1>4, <1>5
<1>12. Local!LocalTypes'
  BY <1>1, <1>4, <1>7, <1>9, <1>11, LocalOps DEF Local!LocalTypes
<1>13. Local!Tree'
  BY <1>1, <1>5 DEF Local!LocalInv, Local!Tree
<1>14. Local!Remembered'
  <2>. SUFFICES ASSUME NEW q \in Local!Places
                PROVE  /\ stored'[q] = Local!Nothing => q \notin DOMAIN files'
                       /\ stored'[q] \in FileData => q \in DOMAIN files' /\ files'[q] = stored'[q]
    BY DEF Local!Remembered
  <2>1. CASE q = p
    BY <1>2, <1>5, <1>7, <2>1, LocalAssumption DEF Local!Nothing, Local!Unsure
  <2>2. CASE q # p
    BY <1>5, <1>7, <2>2 DEF Local!LocalInv, Local!Remembered
  <2>. QED
    BY <2>1, <2>2
<1>. QED
  BY <1>8, <1>10, <1>12, <1>13, <1>14 DEF Local!LocalInv

LEMMA RemoveFileStep ==
  ASSUME Local!LocalInv, NEW c \in FileClients, Local!RemoveFile(c)
  PROVE  Local!LocalInv'
<1>. DEFINE u == client[c]
            p == u.path
<1>1. u.at = "remove" /\ dirs' = dirs /\ calls' = calls
  BY DEF Local!RemoveFile
<1>2. u \in Local!Calls /\ p \in Local!Places
  BY <1>1, CallIs DEF Local!LocalInv, Local!Course
<1>3. /\ files' = [q \in DOMAIN files \ {p} |-> files[q]]
      /\ client' = [d \in FileClients |->
           IF d = c THEN Local!Idle
           ELSE IF client[d].at = "write" /\ client[d].path = p THEN [client[d] EXCEPT !.at = "lost"]
           ELSE Local!Noticed(c, p, {})[d]]
      /\ \/ p \in DOMAIN files /\ \E x \in {Local!Nothing, Local!Unsure} : stored' = [stored EXCEPT ![p] = x]
         \/ p \notin DOMAIN files /\ stored' = stored
  BY DEF Local!RemoveFile
<1>4. /\ files \in [DOMAIN files -> FileData \cup {""}] /\ DOMAIN files \subseteq Local!Places
      /\ <<>> \in dirs /\ dirs \subseteq Local!Folders /\ IsFiniteSet(dirs) /\ calls \in 0..MaxFileCalls
      /\ stored \in [Local!Places -> FileData \cup {Local!Nothing, Local!Unsure}]
  BY LocalOps DEF Local!LocalInv, Local!LocalTypes
<1>5. DOMAIN files' = DOMAIN files \ {p} /\ \A q \in DOMAIN files' : files'[q] = files[q]
  BY <1>3
<1>6. /\ client'[c] = Local!Idle
      /\ \A d \in FileClients \ {c} :
           IF client[d].at = "write" /\ client[d].path = p THEN client'[d] = [client[d] EXCEPT !.at = "lost"]
           ELSE client'[d] = Local!Noticed(c, p, {})[d]
  BY <1>3
<1>7. /\ stored' \in [Local!Places -> FileData \cup {Local!Nothing, Local!Unsure}]
      /\ \A q \in Local!Places \ {p} : stored'[q] = stored[q]
      /\ stored'[p] \in {Local!Nothing, Local!Unsure} \/ (p \notin DOMAIN files /\ stored'[p] = stored[p])
  BY <1>2, <1>3, <1>4
<1>8. ASSUME NEW d \in FileClients, d # c
      PROVE  client'[d] \in {Local!Idle} \cup Local!Calls /\ Local!Course(client[d])'
  <2>1. CASE client[d].at = "write" /\ client[d].path = p
    <3>1. client[d] \in Local!Calls
      BY <2>1, CallIs DEF Local!LocalInv
    <3>2. client'[d] = [client[d] EXCEPT !.at = "lost"]
      BY <1>6, <1>8, <2>1
    <3>3. client'[d] \in Local!Calls /\ client'[d].at = "lost" /\ client'[d].path = p
      BY <2>1, <3>1, <3>2 DEF Local!Calls
    <3>. QED
      BY <1>2, <3>3 DEF Local!Course
  <2>2. CASE ~(client[d].at = "write" /\ client[d].path = p)
    <3>1. client'[d] = Local!Noticed(c, p, {})[d]
      BY <1>6, <1>8, <2>2
    <3>2. DOMAIN files \ {p} \subseteq DOMAIN files' /\ DOMAIN files' \subseteq DOMAIN files \cup {p} /\ p \notin {}
      BY <1>5
    <3>. QED
      BY <1>1, <1>2, <1>7, <1>8, <2>2, <3>1, <3>2, CourseNoticed
  <2>. QED
    BY <2>1, <2>2
<1>9. client' \in [FileClients -> {Local!Idle} \cup Local!Calls]
  <2>1. client' = [d \in FileClients |-> client'[d]]
    BY <1>3
  <2>. QED
    BY <1>6, <1>8, <2>1
<1>10. Local!Course(client[c])'
  BY <1>6 DEF Local!Course, Local!Idle
<1>11. files' \in [DOMAIN files' -> FileData \cup {""}] /\ DOMAIN files' \subseteq Local!Places
  BY <1>3, <1>4, <1>5
<1>12. Local!LocalTypes'
  BY <1>1, <1>4, <1>7, <1>9, <1>11, LocalOps DEF Local!LocalTypes
<1>13. Local!Tree'
  BY <1>1, <1>5 DEF Local!LocalInv, Local!Tree
<1>14. Local!Remembered'
  <2>. SUFFICES ASSUME NEW q \in Local!Places
                PROVE  /\ stored'[q] = Local!Nothing => q \notin DOMAIN files'
                       /\ stored'[q] \in FileData => q \in DOMAIN files' /\ files'[q] = stored'[q]
    BY DEF Local!Remembered
  <2>1. CASE q = p
    BY <1>2, <1>5, <1>7, <2>1, LocalAssumption DEF Local!Nothing, Local!Unsure, Local!LocalInv, Local!Remembered
  <2>2. CASE q # p
    BY <1>5, <1>7, <2>2 DEF Local!LocalInv, Local!Remembered
  <2>. QED
    BY <2>1, <2>2
<1>. QED
  BY <1>8, <1>10, <1>12, <1>13, <1>14 DEF Local!LocalInv

LEMMA InitLocal == Local!Init => Local!LocalInv
<1>. SUFFICES ASSUME Local!Init PROVE Local!LocalInv
  OBVIOUS
<1>1. DOMAIN files = {} /\ files = [p \in {} |-> ""] /\ dirs = {<<>>}
  BY DEF Local!Init
<1>2. Local!LocalTypes
  <2>1. IsFiniteSet(dirs) /\ dirs \subseteq Local!Folders
    BY <1>1, FS_Singleton, PathsAre
  <2>. QED
    BY <1>1, <2>1, LocalOps, LocalAssumption DEF Local!Init, Local!LocalTypes
<1>3. Local!Above(<<>>) = {<<>>}
  <2>1. \A S : <<>> \in Seq(S)
    BY EmptySeq
  <2>2. Local!Above(<<>>) \subseteq Seq({}) /\ <<>> \in Local!Above(<<>>)
    BY <2>1, AboveIs, AboveOrder
  <2>3. \A a \in Seq({}) : a = <<>>
    <3>. SUFFICES ASSUME NEW a \in Seq({}), a # <<>> PROVE FALSE
      OBVIOUS
    <3>. QED
      BY EmptySeq, HeadTailProperties
  <2>. QED
    BY <2>2, <2>3
<1>4. Local!Tree
  BY <1>1, <1>3 DEF Local!Tree
<1>5. Local!Remembered
  BY <1>1, LocalAssumption DEF Local!Init, Local!Remembered, Local!Nothing
<1>6. \A c \in FileClients : Local!Course(client[c])
  BY IdleCourse DEF Local!Init
<1>. QED
  BY <1>2, <1>4, <1>5, <1>6 DEF Local!LocalInv

LEMMA LocalInvariant == Local!Spec => []Local!LocalInv
<1>1. ASSUME Local!LocalInv, Local!Next PROVE Local!LocalInv'
  <2>1. ASSUME NEW c \in FileClients, NEW p \in FilePaths, NEW x \in FileData, Local!Store(c, p, x) PROVE Local!LocalInv'
    BY <1>1, <2>1, StoreFileStep
  <2>2. ASSUME NEW c \in FileClients, NEW p \in FilePaths, Local!Get(c, p) \/ Local!Delete(c, p) PROVE Local!LocalInv'
    BY <1>1, <2>2, LookStep DEF Local!Get, Local!Delete
  <2>3. ASSUME NEW c \in FileClients, NEW p \in FilePaths, Local!List(c, p) PROVE Local!LocalInv'
    BY <1>1, <2>3, ListStep
  <2>4. ASSUME NEW c \in FileClients, Local!Create(c) \/ Local!Write(c) \/ Local!RemoveFile(c) PROVE Local!LocalInv'
    BY <1>1, <2>4, CreateFileStep, WriteFileStep, RemoveFileStep
  <2>5. ASSUME NEW c \in FileClients, Local!Read(c) \/ Local!ListRecursive(c) PROVE Local!LocalInv'
    BY <1>1, <2>5, ReadStep, ListRecursiveStep
  <2>6. ASSUME NEW c \in FileClients, Local!Listed(c) \/ Local!Return(c) \/ Local!WriteLost(c) PROVE Local!LocalInv'
    BY <1>1, <2>6, ReturnsStep
  <2>. QED
    BY <1>1, <2>1, <2>2, <2>3, <2>4, <2>5, <2>6 DEF Local!Next
<1>2. ASSUME Local!LocalInv, UNCHANGED Local!localVars PROVE Local!LocalInv'
  <2>1. files' = files /\ dirs' = dirs /\ client' = client /\ calls' = calls /\ stored' = stored
    BY <1>2 DEF Local!localVars
  <2>2. Local!LocalTypes' /\ Local!Tree' /\ Local!Remembered'
    BY <1>2, <2>1 DEF Local!LocalInv, Local!LocalTypes, Local!Tree, Local!Remembered
  <2>3. ASSUME NEW d \in FileClients PROVE Local!Course(client[d])'
    BY <1>2, <2>1, CourseStays DEF Local!LocalInv
  <2>. QED
    BY <2>2, <2>3 DEF Local!LocalInv
<1>. QED
  BY InitLocal, <1>1, <1>2, PTL DEF Local!Spec

(* A get answers what is there, and a listing misses nothing.              *)
THEOREM FilesAreCurrent == Local!Spec => [](Local!TypeOK /\ Local!GetCurrent /\ Local!ListComplete)
<1>. SUFFICES ASSUME Local!LocalInv PROVE Local!TypeOK /\ Local!GetCurrent /\ Local!ListComplete
  BY LocalInvariant, PTL
<1>1. ASSUME NEW c \in FileClients
      PROVE  client[c].at \in {"idle", "create", "write", "lost", "read", "answer", "remove", "list", "listed"}
  BY CallIs DEF Local!LocalInv, Local!Idle, Local!Calls
<1>2. Local!TypeOK
  BY <1>1 DEF Local!LocalInv, Local!LocalTypes, Local!TypeOK
<1>3. Local!GetCurrent
  BY DEF Local!LocalInv, Local!Course, Local!GetCurrent
<1>4. Local!ListComplete
  BY DEF Local!LocalInv, Local!Course, Local!ListComplete
<1>. QED
  BY <1>2, <1>3, <1>4

-----------------------------------------------------------------------------
(* A set of numbers that is not empty has a least one.                     *)
LEMMA LeastOf ==
  ASSUME NEW S \in SUBSET Nat, S # {}
  PROVE  \E x \in S : \A y \in S : x <= y
<1>. DEFINE R == OpToRel(<, Nat)
<1>1. IsWellFoundedOn(R, Nat)
  BY NatLessThanWellFounded, Zenon
<1>. HIDE DEF R
<1>2. PICK x \in S : \A y \in S : ~(<<y, x>> \in R)
  BY <1>1, WFMin
<1>3. \A y \in S : ~(y < x)
  BY <1>2, Zenon DEF R, OpToRel
<1>. QED
  BY <1>2, <1>3

-----------------------------------------------------------------------------
(* The memory tool: what get finds after a row goes or comes.              *)
LEMMA FoundFirst ==
  ASSUME NEW rows, Mem!Rows(rows), NEW i, NEW k \in DOMAIN rows, rows[k].id = i,
         \A m \in DOMAIN rows : rows[m].id = i => k <= m
  PROVE  Mem!Found(rows, i) = rows[k].content /\ Mem!Found(rows, i) # 0
<1>. DEFINE hits == {m \in DOMAIN rows : rows[m].id = i}
            first == CHOOSE n \in hits : \A m \in hits : n <= m
<1>1. k \in hits /\ hits \subseteq Nat /\ \A m \in hits : k <= m
  BY DEF Mem!Rows
<1>. HIDE DEF hits
<1>2. first \in hits /\ \A m \in hits : first <= m
  BY <1>1
<1>3. first = k
  BY <1>1, <1>2
<1>. HIDE DEF first
<1>4. Mem!Found(rows, i) = rows[first].content
  BY <1>1 DEF Mem!Found, hits, first
<1>5. rows[k].content \in Nat \ {0}
  BY DEF Mem!Rows
<1>. QED
  BY <1>3, <1>4, <1>5

LEMMA FoundNone ==
  ASSUME NEW rows, NEW i, \A m \in DOMAIN rows : rows[m].id # i
  PROVE  Mem!Found(rows, i) = 0
BY DEF Mem!Found

LEMMA FirstHit ==
  ASSUME NEW rows, Mem!Rows(rows), NEW i, NEW m \in DOMAIN rows, rows[m].id = i
  PROVE  \E k \in DOMAIN rows : rows[k].id = i /\ \A n \in DOMAIN rows : rows[n].id = i => k <= n
<1>. DEFINE hits == {n \in DOMAIN rows : rows[n].id = i}
<1>1. hits \in SUBSET Nat /\ hits # {}
  BY DEF Mem!Rows
<1>2. \E k \in hits : \A n \in hits : k <= n
  BY <1>1, LeastOf
<1>. QED
  BY <1>2

LEMMA WithoutRows ==
  ASSUME Mem!Rows(entries), NEW i
  PROVE  /\ Mem!Rows(Mem!Without(i)) /\ Mem!Found(Mem!Without(i), i) = 0
         /\ \A j : j # i => Mem!Found(Mem!Without(i), j) = Mem!Found(entries, j)
<1>. DEFINE w == Mem!Without(i)
            D == {m \in DOMAIN entries : entries[m].id # i}
<1>1. w = [k \in D |-> entries[k]] /\ DOMAIN w = D /\ \A k \in D : w[k] = entries[k]
  BY DEF Mem!Without
<1>2. D \subseteq DOMAIN entries /\ DOMAIN entries \subseteq Nat \ {0} /\ \A k \in D : entries[k].id # i
  BY DEF Mem!Rows
<1>3. \A m \in DOMAIN entries : m \in D <=> entries[m].id # i
  OBVIOUS
<1>4. \E n \in D \union {0} : \A m \in D : m <= n
  <2>. DEFINE bounds == {n \in Nat : \A m \in D : m <= n}
  <2>1. bounds \in SUBSET Nat /\ bounds # {}
    BY <1>2 DEF Mem!Rows
  <2>2. PICK n \in bounds : \A b \in bounds : n <= b
    BY <2>1, LeastOf
  <2>3. n \in Nat /\ \A m \in D : m <= n
    BY <2>2
  <2>4. CASE n \in D \union {0}
    BY <2>3, <2>4
  <2>5. CASE n \notin D \union {0}
    <3>. HIDE DEF D
    <3>1. n - 1 \in Nat /\ \A m \in D : m <= n - 1
      BY <1>2, <2>3, <2>5
    <3>2. n - 1 \in bounds
      BY <3>1
    <3>. QED
      BY <2>2, <2>3, <3>2
  <2>. QED
    BY <2>4, <2>5
<1>. HIDE DEF w, D
<1>5. Mem!Rows(w)
  <2>1. DOMAIN w \subseteq Nat \ {0} /\ w = [k \in DOMAIN w |-> w[k]]
    BY <1>1, <1>2
  <2>2. \A k \in DOMAIN w : w[k] \in [id : Mem!Ids, content : Nat \ {0}]
    BY <1>1, <1>2 DEF Mem!Rows
  <2>. QED
    BY <1>1, <1>4, <2>1, <2>2 DEF Mem!Rows
<1>6. Mem!Found(w, i) = 0
  BY <1>1, <1>2, FoundNone
<1>7. ASSUME NEW j, j # i PROVE Mem!Found(w, j) = Mem!Found(entries, j)
  <2>1. CASE \A m \in DOMAIN entries : entries[m].id # j
    <3>1. Mem!Found(entries, j) = 0
      BY <2>1, FoundNone
    <3>2. \A m \in DOMAIN w : w[m].id # j
      BY <1>1, <1>2, <2>1
    <3>. QED
      BY <3>1, <3>2, FoundNone
  <2>2. CASE \E m \in DOMAIN entries : entries[m].id = j
    <3>1. PICK k \in DOMAIN entries : entries[k].id = j /\ \A n \in DOMAIN entries : entries[n].id = j => k <= n
      BY <2>2, FirstHit
    <3>2. Mem!Found(entries, j) = entries[k].content
      BY <3>1, FoundFirst
    <3>3. k \in DOMAIN w /\ w[k] = entries[k]
      BY <1>1, <1>3, <1>7, <3>1
    <3>4. w[k].id = j /\ \A n \in DOMAIN w : w[n].id = j => k <= n
      BY <1>1, <1>2, <3>1, <3>3
    <3>5. Mem!Found(w, j) = w[k].content
      BY <1>5, <3>3, <3>4, FoundFirst
    <3>. QED
      BY <3>2, <3>3, <3>5
  <2>. QED
    BY <2>1, <2>2
<1>. QED
  BY <1>5, <1>6, <1>7 DEF w

LEMMA AppendedRows ==
  ASSUME NEW rows, Mem!Rows(rows), NEW e \in [id : Mem!Ids, content : Nat \ {0}]
  PROVE  /\ Mem!Rows(Mem!Appended(rows, e))
         /\ Mem!Found(rows, e.id) = 0 => Mem!Found(Mem!Appended(rows, e), e.id) = e.content
         /\ \A j : j # e.id => Mem!Found(Mem!Appended(rows, e), j) = Mem!Found(rows, j)
<1>. DEFINE last == CHOOSE n \in DOMAIN rows \union {0} : \A m \in DOMAIN rows : m <= n
            w == Mem!Appended(rows, e)
            D == DOMAIN rows
<1>1. D \subseteq Nat \ {0} /\ \E n \in D \union {0} : \A m \in D : m <= n
  BY DEF Mem!Rows
<1>2. last \in D \union {0} /\ \A m \in D : m <= last
  BY <1>1
<1>. HIDE DEF last
<1>3. last \in Nat /\ last + 1 \in Nat \ {0} /\ last + 1 \notin D
  BY <1>1, <1>2
<1>4. w = [k \in D \union {last + 1} |-> IF k = last + 1 THEN e ELSE rows[k]]
  BY DEF Mem!Appended, last
<1>5. DOMAIN w = D \union {last + 1} /\ w[last + 1] = e /\ \A k \in D : w[k] = rows[k]
  BY <1>3, <1>4
<1>6. w = [k \in DOMAIN w |-> w[k]]
  BY <1>4
<1>. HIDE DEF w
<1>7. Mem!Rows(w)
  <2>1. DOMAIN w \subseteq Nat \ {0}
    BY <1>1, <1>3, <1>5
  <2>2. ASSUME NEW k \in DOMAIN w PROVE w[k] \in [id : Mem!Ids, content : Nat \ {0}]
    <3>1. k = last + 1 \/ k \in D
      BY <1>5
    <3>2. \A m \in D : rows[m] \in [id : Mem!Ids, content : Nat \ {0}]
      BY DEF Mem!Rows
    <3>. QED
      BY <1>5, <3>1, <3>2
  <2>3. last + 1 \in DOMAIN w \union {0} /\ \A m \in DOMAIN w : m <= last + 1
    BY <1>1, <1>2, <1>3, <1>5
  <2>. QED
    BY <1>6, <2>1, <2>2, <2>3 DEF Mem!Rows
<1>8. ASSUME Mem!Found(rows, e.id) = 0 PROVE Mem!Found(w, e.id) = e.content
  <2>1. \A m \in D : rows[m].id # e.id
    <3>. SUFFICES ASSUME NEW m \in D, rows[m].id = e.id PROVE FALSE
      OBVIOUS
    <3>1. PICK k \in D : rows[k].id = e.id /\ \A n \in D : rows[n].id = e.id => k <= n
      BY FirstHit
    <3>2. Mem!Found(rows, e.id) # 0
      BY <3>1, FoundFirst
    <3>. QED
      BY <1>8, <3>2
  <2>2. \A m \in DOMAIN w : w[m].id = e.id => last + 1 <= m
    BY <1>3, <1>5, <2>1
  <2>3. last + 1 \in DOMAIN w /\ w[last + 1].id = e.id
    BY <1>5
  <2>4. Mem!Found(w, e.id) = w[last + 1].content
    BY <1>7, <2>2, <2>3, FoundFirst
  <2>. QED
    BY <1>5, <2>4
<1>9. ASSUME NEW j, j # e.id PROVE Mem!Found(w, j) = Mem!Found(rows, j)
  <2>1. CASE \A m \in D : rows[m].id # j
    <3>1. Mem!Found(rows, j) = 0
      BY <2>1, FoundNone
    <3>2. \A m \in DOMAIN w : w[m].id # j
      BY <1>5, <1>9, <2>1
    <3>. QED
      BY <3>1, <3>2, FoundNone
  <2>2. CASE \E m \in D : rows[m].id = j
    <3>1. PICK k \in D : rows[k].id = j /\ \A n \in D : rows[n].id = j => k <= n
      BY <2>2, FirstHit
    <3>2. Mem!Found(rows, j) = rows[k].content
      BY <3>1, FoundFirst
    <3>3. k \in DOMAIN w /\ w[k] = rows[k]
      BY <1>5
    <3>4. w[k].id = j /\ \A n \in DOMAIN w : w[n].id = j => k <= n
      BY <1>5, <1>9, <3>1, <3>3
    <3>5. Mem!Found(w, j) = w[k].content
      BY <1>7, <3>3, <3>4, FoundFirst
    <3>. QED
      BY <3>2, <3>3, <3>5
  <2>. QED
    BY <2>1, <2>2
<1>. QED
  BY <1>7, <1>8, <1>9 DEF w

LEMMA StoredRows ==
  ASSUME Mem!Rows(entries), NEW i \in Mem!Ids, NEW v \in Nat \ {0}
  PROVE  /\ Mem!Rows(Mem!Stored(i, v))
         /\ backend = "sqlite" \/ Mem!Found(entries, i) = 0 => Mem!Found(Mem!Stored(i, v), i) = v
         /\ \A j : j # i => Mem!Found(Mem!Stored(i, v), j) = Mem!Found(entries, j)
<1>. DEFINE e == [id |-> i, content |-> v]
<1>1. e \in [id : Mem!Ids, content : Nat \ {0}] /\ e.id = i /\ e.content = v
  OBVIOUS
<1>. HIDE DEF e
<1>2. CASE backend = "sqlite"
  <2>. DEFINE w == Mem!Without(i)
  <2>1. /\ Mem!Rows(w) /\ Mem!Found(w, i) = 0
        /\ \A j : j # i => Mem!Found(w, j) = Mem!Found(entries, j)
    BY WithoutRows
  <2>2. Mem!Stored(i, v) = Mem!Appended(w, e)
    BY <1>2 DEF Mem!Stored, e
  <2>. HIDE DEF w
  <2>3. Mem!Rows(Mem!Appended(w, e))
    BY <1>1, <2>1, AppendedRows
  <2>4. Mem!Found(Mem!Appended(w, e), i) = v
    BY <1>1, <2>1, AppendedRows
  <2>5. \A j : j # i => Mem!Found(Mem!Appended(w, e), j) = Mem!Found(w, j)
    BY <1>1, <2>1, AppendedRows
  <2>. QED
    BY <2>1, <2>2, <2>3, <2>4, <2>5
<1>3. CASE backend # "sqlite"
  <2>1. Mem!Stored(i, v) = Mem!Appended(entries, e)
    BY <1>3 DEF Mem!Stored, e
  <2>2. Mem!Rows(Mem!Appended(entries, e))
    BY <1>1, AppendedRows
  <2>3. Mem!Found(entries, i) = 0 => Mem!Found(Mem!Appended(entries, e), i) = v
    BY <1>1, AppendedRows
  <2>4. \A j : j # i => Mem!Found(Mem!Appended(entries, e), j) = Mem!Found(entries, j)
    BY <1>1, AppendedRows
  <2>. QED
    BY <1>3, <2>1, <2>2, <2>3, <2>4
<1>. QED
  BY <1>2, <1>3

(* A step of one task that changes neither the entries nor what is         *)
(* expected of them.                                                       *)
LEMMA QuietStep ==
  ASSUME Mem!MemoryInv, NEW t \in MemoryTasks, tool[t] # Mem!Resting, NEW v, v = Mem!Resting \/ Mem!Operation(v),
         tool' = [tool EXCEPT ![t] = v], UNCHANGED <<backend, entries, expected, ops>>,
         spoiled' \subseteq Mem!Ids, spoiled \subseteq spoiled',
         v = Mem!Resting => tool[t].id \in spoiled' \/ Mem!Get(tool[t].id) = expected[tool[t].id],
         v # Mem!Resting =>
           /\ v.id = tool[t].id
           /\ (backend = "markdown" /\ spoiled' # Mem!Ids) =>
                /\ v.at = "deleting" => v.text = Mem!Without(v.id)
                /\ v.at = "storing" => v.text = Mem!Stored(v.id, v.value)
           /\ v.id \notin spoiled' =>
                /\ v.at \in {"store", "storing"} => Mem!Get(v.id) = 0
                /\ v.at = "get" => Mem!Get(v.id) = expected[v.id]
  PROVE  Mem!MemoryInv'
<1>1. /\ Mem!MemoryTypes /\ Mem!OverlapsKnown /\ Mem!TextCurrent /\ Mem!StoresInGap /\ Mem!KnowledgeAsReported
      /\ backend' = backend /\ entries' = entries /\ expected' = expected /\ ops' = ops
  BY DEF Mem!MemoryInv
<1>2. tool'[t] = v /\ \A u \in MemoryTasks \ {t} : tool'[u] = tool[u]
  BY <1>1 DEF Mem!MemoryTypes
<1>3. \A i \in Mem!Ids : Mem!Get(i)' = Mem!Get(i)
  BY <1>1 DEF Mem!Get, Mem!Found
<1>4. /\ \A i : Mem!Without(i)' = Mem!Without(i)
      /\ \A i, c : Mem!Stored(i, c)' = Mem!Stored(i, c)
  BY <1>1 DEF Mem!Without, Mem!Stored, Mem!Appended
<1>5. Mem!MemoryTypes'
  <2>1. tool' = [u \in MemoryTasks |-> tool'[u]]
    BY <1>1 DEF Mem!MemoryTypes
  <2>2. \A u \in MemoryTasks : tool'[u] = Mem!Resting \/ Mem!Operation(tool'[u])
    BY <1>1, <1>2 DEF Mem!MemoryTypes
  <2>3. backend # "none"
    BY <1>1 DEF Mem!MemoryTypes
  <2>. QED
    BY <1>1, <2>1, <2>2, <2>3 DEF Mem!MemoryTypes
<1>6. Mem!OverlapsKnown'
  <2>. SUFFICES ASSUME NEW p \in MemoryTasks, NEW u \in MemoryTasks, p # u,
                       tool'[p] # Mem!Resting, tool'[u] # Mem!Resting
                PROVE  /\ tool'[p].id = tool'[u].id => tool'[p].id \in spoiled'
                       /\ backend' = "markdown" => spoiled' = Mem!Ids
    BY DEF Mem!OverlapsKnown
  <2>1. tool[p] # Mem!Resting /\ tool[u] # Mem!Resting /\ tool'[p].id = tool[p].id /\ tool'[u].id = tool[u].id
    BY <1>2
  <2>. QED
    BY <1>1, <2>1 DEF Mem!OverlapsKnown
<1>7. Mem!TextCurrent'
  <2>. SUFFICES ASSUME NEW u \in MemoryTasks, backend = "markdown", spoiled' # Mem!Ids
                PROVE  /\ tool'[u].at = "deleting" => tool'[u].text = Mem!Without(tool'[u].id)
                       /\ tool'[u].at = "storing" => tool'[u].text = Mem!Stored(tool'[u].id, tool'[u].value)
    BY <1>1, <1>4 DEF Mem!TextCurrent
  <2>1. CASE u # t
    <3>1. spoiled # Mem!Ids
      BY <1>1 DEF Mem!MemoryTypes
    <3>. QED
      BY <1>1, <1>2, <2>1, <3>1 DEF Mem!TextCurrent
  <2>2. CASE u = t /\ v = Mem!Resting
    BY <1>2, <2>2 DEF Mem!Resting
  <2>3. CASE u = t /\ v # Mem!Resting
    BY <1>2, <2>3
  <2>. QED
    BY <2>1, <2>2, <2>3
<1>8. Mem!StoresInGap'
  <2>. SUFFICES ASSUME NEW u \in MemoryTasks, tool'[u] # Mem!Resting, tool'[u].id \notin spoiled'
                PROVE  /\ tool'[u].at \in {"store", "storing"} => Mem!Found(entries, tool'[u].id) = 0
                       /\ tool'[u].at = "get" => Mem!Found(entries, tool'[u].id) = expected[tool'[u].id]
    BY <1>1 DEF Mem!StoresInGap, Mem!Get
  <2>1. tool'[u].id \in Mem!Ids
    BY <1>5 DEF Mem!MemoryTypes, Mem!Operation
  <2>. QED
    BY <1>1, <1>2, <2>1 DEF Mem!StoresInGap, Mem!Get
<1>9. Mem!KnowledgeAsReported'
  <2>. SUFFICES ASSUME NEW i \in Mem!Ids, i \notin spoiled',
                       \A u \in MemoryTasks : tool'[u] = Mem!Resting \/ tool'[u].id # i
                PROVE  Mem!Get(i)' = expected[i]
    BY <1>1 DEF Mem!KnowledgeAsReported
  <2>1. CASE tool[t].id = i
    BY <1>2, <1>3, <2>1
  <2>2. CASE tool[t].id # i
    <3>1. \A u \in MemoryTasks : tool[u] = Mem!Resting \/ tool[u].id # i
      BY <1>2, <2>2
    <3>. QED
      BY <1>1, <1>3, <3>1 DEF Mem!KnowledgeAsReported
  <2>. QED
    BY <2>1, <2>2
<1>. QED
  BY <1>5, <1>6, <1>7, <1>8, <1>9 DEF Mem!MemoryInv

(* What a task in a call holds.                                            *)
LEMMA TaskIs ==
  ASSUME Mem!MemoryTypes, NEW t \in MemoryTasks, tool[t].at \in {"get", "delete", "deleting", "store", "storing"}
  PROVE  tool[t] # Mem!Resting /\ Mem!Operation(tool[t]) /\ tool[t].id \in Mem!Ids
BY DEF Mem!MemoryTypes, Mem!Resting, Mem!Operation

At(u, step, text) == [u EXCEPT !.at = step, !.text = text]

LEMMA Advanced ==
  ASSUME NEW u, Mem!Operation(u), NEW step \in {"delete", "deleting", "store", "storing"},
         step \in {"delete", "deleting"} => u.op # "remember", step \in {"store", "storing"} => u.op # "forget",
         NEW text, Mem!Rows(text)
  PROVE  /\ Mem!Operation(At(u, step, text)) /\ At(u, step, text) # Mem!Resting
         /\ At(u, step, text).at = step /\ At(u, step, text).id = u.id
         /\ At(u, step, text).value = u.value /\ At(u, step, text).text = text
<1>. DEFINE v == At(u, step, text)
<1>1. PICK p, o, i, c, x : u = [at |-> p, op |-> o, id |-> i, value |-> c, text |-> x]
  BY DEF Mem!Operation
<1>2. v = [at |-> step, op |-> u.op, id |-> u.id, value |-> u.value, text |-> text]
  <2>1. v = [at |-> step, op |-> o, id |-> i, value |-> c, text |-> text]
    <3>. DEFINE w == [u EXCEPT !.at = step]
    <3>1. w = [at |-> step, op |-> o, id |-> i, value |-> c, text |-> x]
      BY <1>1
    <3>2. v = [w EXCEPT !.text = text]
      BY DEF At
    <3>. HIDE DEF w, v
    <3>. QED
      BY <3>1, <3>2
  <2>. QED
    BY <1>1, <2>1
<1>. HIDE DEF v
<1>3. v.at = step /\ v.op = u.op /\ v.id = u.id /\ v.value = u.value /\ v.text = text
  BY <1>2
<1>4. Mem!Operation(v)
  BY <1>2, <1>3 DEF Mem!Operation
<1>5. v # Mem!Resting
  BY <1>3 DEF Mem!Resting
<1>. QED
  BY <1>3, <1>4, <1>5 DEF v

LEMMA LookKeeps ==
  ASSUME Mem!MemoryInv, NEW t \in MemoryTasks, Mem!Look(t)
  PROVE  Mem!MemoryInv'
<1>. DEFINE u == tool[t]
            step == Mem!StepAfterGet(u.op, Mem!Get(u.id) # 0)
<1>1. /\ u.at = "get" /\ UNCHANGED <<backend, entries, expected, ops>> /\ spoiled' = spoiled
      /\ IF step = "rest" THEN Mem!Rest(t) ELSE Mem!Goto(t, step)
  BY DEF Mem!Look
<1>2. u # Mem!Resting /\ Mem!Operation(u) /\ u.id \in Mem!Ids /\ u.op \in {"remember", "update", "forget"}
  BY <1>1, TaskIs DEF Mem!MemoryInv, Mem!Operation
<1>3. spoiled' \subseteq Mem!Ids /\ spoiled \subseteq spoiled'
  BY <1>1 DEF Mem!MemoryInv, Mem!MemoryTypes
<1>4. u.id \in spoiled \/ Mem!Get(u.id) = expected[u.id]
  BY <1>1, <1>2 DEF Mem!MemoryInv, Mem!StoresInGap
<1>5. /\ step \in {"rest", "store", "delete"}
      /\ step = "store" => u.op = "remember" /\ Mem!Get(u.id) = 0
      /\ step = "delete" => u.op # "remember"
  BY <1>2 DEF Mem!StepAfterGet
<1>. HIDE DEF step
<1>6. CASE step = "rest"
  <2>1. tool' = [tool EXCEPT ![t] = Mem!Resting]
    BY <1>1, <1>6 DEF Mem!Rest
  <2>. QED
    BY <1>1, <1>2, <1>3, <1>4, <2>1, QuietStep
<1>7. CASE step # "rest"
  <2>. DEFINE v == [u EXCEPT !.at = step]
  <2>1. tool' = [tool EXCEPT ![t] = v]
    BY <1>1, <1>7 DEF Mem!Goto
  <2>2. v = At(u, step, u.text) /\ Mem!Rows(u.text)
    BY <1>2 DEF Mem!Operation, At
  <2>3. step \in {"delete", "deleting", "store", "storing"} /\ (step \in {"delete", "deleting"} => u.op # "remember")
         /\ (step \in {"store", "storing"} => u.op # "forget")
    BY <1>5, <1>7
  <2>. HIDE DEF v, u
  <2>4. Mem!Operation(v) /\ v # Mem!Resting /\ v.at = step /\ v.id = u.id
    BY <1>2, <2>2, <2>3, Advanced
  <2>. QED
    BY <1>1, <1>2, <1>3, <1>5, <1>7, <2>1, <2>3, <2>4, QuietStep DEF u
<1>. QED
  BY <1>6, <1>7

LEMMA LookFailsKeeps ==
  ASSUME Mem!MemoryInv, NEW t \in MemoryTasks, Mem!LookFails(t)
  PROVE  Mem!MemoryInv'
<1>. DEFINE u == tool[t]
<1>1. /\ u.at = "get" /\ UNCHANGED <<backend, entries, expected, ops>> /\ spoiled' = spoiled \union {u.id}
      /\ \/ u.op = "remember" /\ Mem!Goto(t, "store")
         \/ u.op = "forget" /\ Mem!Goto(t, "delete")
         \/ u.op = "update" /\ Mem!Rest(t)
  BY DEF Mem!LookFails
<1>2. u # Mem!Resting /\ Mem!Operation(u) /\ u.id \in Mem!Ids
  BY <1>1, TaskIs DEF Mem!MemoryInv
<1>3. spoiled' \subseteq Mem!Ids /\ spoiled \subseteq spoiled' /\ u.id \in spoiled'
  BY <1>1, <1>2 DEF Mem!MemoryInv, Mem!MemoryTypes
<1>4. CASE Mem!Rest(t)
  <2>1. tool' = [tool EXCEPT ![t] = Mem!Resting]
    BY <1>4 DEF Mem!Rest
  <2>. QED
    BY <1>1, <1>2, <1>3, <2>1, QuietStep
<1>5. ASSUME NEW step \in {"store", "delete"}, Mem!Goto(t, step),
             step = "store" => u.op = "remember", step = "delete" => u.op = "forget"
      PROVE  Mem!MemoryInv'
  <2>. DEFINE v == [u EXCEPT !.at = step]
  <2>1. tool' = [tool EXCEPT ![t] = v]
    BY <1>5 DEF Mem!Goto
  <2>2. v = At(u, step, u.text) /\ Mem!Rows(u.text)
    BY <1>2 DEF Mem!Operation, At
  <2>3. step \in {"delete", "deleting", "store", "storing"} /\ (step \in {"delete", "deleting"} => u.op # "remember")
         /\ (step \in {"store", "storing"} => u.op # "forget")
    BY <1>5
  <2>. HIDE DEF v, u
  <2>4. Mem!Operation(v) /\ v # Mem!Resting /\ v.at = step /\ v.id = u.id
    BY <1>2, <2>2, <2>3, Advanced
  <2>. QED
    BY <1>1, <1>2, <1>3, <1>5, <2>1, <2>4, QuietStep DEF u
<1>. QED
  BY <1>1, <1>4, <1>5

LEMMA ChangeKeeps ==
  ASSUME Mem!MemoryInv, NEW t \in MemoryTasks, Mem!Change(t)
  PROVE  Mem!MemoryInv'
<1>. DEFINE u == tool[t]
            new == IF u.at = "delete" THEN Mem!Without(u.id) ELSE Mem!Stored(u.id, u.value)
            step == IF u.at = "delete" THEN "deleting" ELSE "storing"
            v == [u EXCEPT !.at = step, !.text = new]
<1>1. /\ u.at \in {"delete", "store"} /\ UNCHANGED <<backend, entries, expected, ops>> /\ spoiled' = spoiled
      /\ tool' = [tool EXCEPT ![t].at = IF @ = "delete" THEN "deleting" ELSE "storing", ![t].text = new]
  BY DEF Mem!Change
<1>2. u # Mem!Resting /\ Mem!Operation(u) /\ u.id \in Mem!Ids /\ u.value \in Nat \ {0}
  BY <1>1, TaskIs DEF Mem!MemoryInv, Mem!Operation
<1>3. spoiled' \subseteq Mem!Ids /\ spoiled \subseteq spoiled'
  BY <1>1 DEF Mem!MemoryInv, Mem!MemoryTypes
<1>4. Mem!Rows(entries)
  BY DEF Mem!MemoryInv, Mem!MemoryTypes
<1>5. Mem!Rows(new)
  BY <1>2, <1>4, WithoutRows, StoredRows
<1>6. tool' = [tool EXCEPT ![t] = v]
  BY <1>1 DEF Mem!MemoryInv, Mem!MemoryTypes
<1>7. /\ step \in {"deleting", "storing"} /\ (step = "deleting" <=> u.at = "delete")
      /\ step = "deleting" => new = Mem!Without(u.id) /\ u.op # "remember"
      /\ step = "storing" => new = Mem!Stored(u.id, u.value) /\ u.op # "forget"
  BY <1>1, <1>2 DEF Mem!Operation
<1>8. u.id \notin spoiled' /\ step = "storing" => Mem!Get(u.id) = 0
  BY <1>1, <1>2, <1>7 DEF Mem!MemoryInv, Mem!StoresInGap
<1>9. v = At(u, step, new)
  BY DEF At
<1>13. step \in {"delete", "deleting", "store", "storing"} /\ (step \in {"delete", "deleting"} => u.op # "remember")
      /\ (step \in {"store", "storing"} => u.op # "forget")
  BY <1>7
<1>. HIDE DEF v, step, new, u
<1>10. /\ Mem!Operation(v) /\ v # Mem!Resting
       /\ v.at = step /\ v.id = u.id /\ v.value = u.value /\ v.text = new
  BY <1>2, <1>5, <1>9, <1>13, Advanced
<1>11. /\ v.at = "deleting" => v.text = Mem!Without(v.id)
       /\ v.at = "storing" => v.text = Mem!Stored(v.id, v.value)
  BY <1>7, <1>10
<1>12. v.id \notin spoiled' => /\ v.at \in {"store", "storing"} => Mem!Get(v.id) = 0
                               /\ v.at = "get" => Mem!Get(v.id) = expected[v.id]
  BY <1>7, <1>8, <1>10
<1>. QED
  BY <1>1, <1>2, <1>3, <1>6, <1>10, <1>11, <1>12, QuietStep DEF u

LEMMA ChangeFailsKeeps ==
  ASSUME Mem!MemoryInv, NEW t \in MemoryTasks, Mem!ChangeFails(t)
  PROVE  Mem!MemoryInv'
<1>1. /\ tool[t].at \in {"deleting", "storing"} /\ UNCHANGED <<backend, entries, expected, ops>>
      /\ spoiled' = spoiled \union {tool[t].id} /\ tool' = [tool EXCEPT ![t] = Mem!Resting]
  BY DEF Mem!ChangeFails, Mem!Rest
<1>2. tool[t] # Mem!Resting /\ tool[t].id \in Mem!Ids
  BY <1>1, TaskIs DEF Mem!MemoryInv
<1>3. spoiled' \subseteq Mem!Ids /\ spoiled \subseteq spoiled' /\ tool[t].id \in spoiled'
  BY <1>1, <1>2 DEF Mem!MemoryInv, Mem!MemoryTypes
<1>. QED
  BY <1>1, <1>2, <1>3, QuietStep

LEMMA AppliedKeeps ==
  ASSUME Mem!MemoryInv, NEW t \in MemoryTasks, Mem!Applied(t)
  PROVE  Mem!MemoryInv'
<1>. DEFINE u == tool[t]
            i == u.id
            again == u.at = "deleting" /\ u.op = "update"
            v == IF again THEN At(u, "store", u.text) ELSE Mem!Resting
<1>1. /\ Mem!MemoryTypes /\ Mem!OverlapsKnown /\ Mem!TextCurrent /\ Mem!StoresInGap /\ Mem!KnowledgeAsReported
      /\ u.at \in {"deleting", "storing"} /\ backend' = backend /\ ops' = ops /\ spoiled' = spoiled
  BY DEF Mem!MemoryInv, Mem!Applied
<1>2. u # Mem!Resting /\ Mem!Operation(u) /\ i \in Mem!Ids
  BY <1>1, TaskIs
<1>3. /\ u.value \in Nat \ {0} /\ Mem!Rows(u.text) /\ u.op \in {"remember", "update", "forget"}
      /\ u.at = "deleting" => u.op # "remember"
      /\ u.at = "storing" => u.op # "forget"
  BY <1>2 DEF Mem!Operation
<1>4. tool' = [tool EXCEPT ![t] = v]
  BY <1>1 DEF Mem!Applied, Mem!Goto, Mem!Rest, Mem!MemoryTypes, At
<1>5. tool'[t] = v /\ \A p \in MemoryTasks \ {t} : tool'[p] = tool[p]
  BY <1>1, <1>4 DEF Mem!MemoryTypes
<1>6. again => Mem!Operation(v) /\ v # Mem!Resting /\ v.at = "store" /\ v.id = i
  <2>. SUFFICES ASSUME again PROVE Mem!Operation(v) /\ v # Mem!Resting /\ v.at = "store" /\ v.id = i
    OBVIOUS
  <2>1. /\ "store" \in {"delete", "deleting", "store", "storing"}
        /\ "store" \in {"delete", "deleting"} => u.op # "remember"
        /\ "store" \in {"store", "storing"} => u.op # "forget"
    OBVIOUS
  <2>. HIDE DEF u
  <2>2. /\ Mem!Operation(At(u, "store", u.text)) /\ At(u, "store", u.text) # Mem!Resting
        /\ At(u, "store", u.text).at = "store" /\ At(u, "store", u.text).id = u.id
    BY <1>2, <1>3, <2>1, Advanced
  <2>. QED
    BY <2>2
<1>7. /\ u.at = "deleting" => entries' = IF backend = "markdown" THEN u.text ELSE Mem!Without(i)
      /\ u.at = "storing" => entries' = IF backend = "markdown" THEN u.text ELSE Mem!Stored(i, u.value)
      /\ expected' = IF again THEN expected
                     ELSE [expected EXCEPT ![i] = IF u.op = "forget" THEN 0 ELSE u.value]
  BY <1>1 DEF Mem!Applied
<1>. HIDE DEF v
<1>8. Mem!Rows(entries) /\ expected \in [Mem!Ids -> Nat] /\ spoiled \subseteq Mem!Ids
  BY <1>1 DEF Mem!MemoryTypes
<1>9. Mem!Rows(entries')
  <2>1. Mem!Rows(Mem!Without(i)) /\ Mem!Rows(Mem!Stored(i, u.value))
    BY <1>2, <1>3, <1>8, WithoutRows, StoredRows
  <2>. QED
    BY <1>1, <1>3, <1>7, <2>1
<1>10. ASSUME spoiled # Mem!Ids
       PROVE  /\ u.at = "deleting" => entries' = Mem!Without(i)
              /\ u.at = "storing" => entries' = Mem!Stored(i, u.value)
  BY <1>1, <1>7, <1>10 DEF Mem!TextCurrent
<1>11. ASSUME NEW j \in Mem!Ids, j \notin spoiled, j # i
       PROVE  Mem!Found(entries', j) = Mem!Found(entries, j)
  <2>1. Mem!Found(Mem!Without(i), j) = Mem!Found(entries, j)
    BY <1>8, <1>11, WithoutRows
  <2>2. Mem!Found(Mem!Stored(i, u.value), j) = Mem!Found(entries, j)
    BY <1>2, <1>3, <1>8, <1>11, StoredRows
  <2>. QED
    BY <1>1, <1>10, <1>11, <2>1, <2>2
<1>12. ASSUME i \notin spoiled
       PROVE  /\ u.at = "deleting" => Mem!Found(entries', i) = 0
              /\ u.at = "storing" => Mem!Found(entries', i) = u.value
  <2>1. Mem!Found(Mem!Without(i), i) = 0
    BY <1>8, WithoutRows
  <2>2. u.at = "storing" => Mem!Found(entries, i) = 0
    BY <1>2, <1>12, <1>1 DEF Mem!StoresInGap, Mem!Get
  <2>3. u.at = "storing" => Mem!Found(Mem!Stored(i, u.value), i) = u.value
    BY <1>2, <1>3, <1>8, <2>2, StoredRows
  <2>. QED
    BY <1>2, <1>10, <1>12, <2>1, <2>3
<1>13. expected' \in [Mem!Ids -> Nat] /\ \A j \in Mem!Ids \ {i} : expected'[j] = expected[j]
  BY <1>3, <1>7, <1>8
<1>14. Mem!MemoryTypes'
  <2>1. tool' = [p \in MemoryTasks |-> tool'[p]]
    BY <1>1, <1>4 DEF Mem!MemoryTypes
  <2>2. \A p \in MemoryTasks : tool'[p] = Mem!Resting \/ Mem!Operation(tool'[p])
    BY <1>1, <1>5, <1>6 DEF Mem!MemoryTypes, v
  <2>3. backend # "none"
    BY <1>1, <1>2 DEF Mem!MemoryTypes
  <2>. QED
    BY <1>1, <1>9, <1>13, <2>1, <2>2, <2>3 DEF Mem!MemoryTypes
<1>15. Mem!OverlapsKnown'
  <2>. SUFFICES ASSUME NEW p \in MemoryTasks, NEW q \in MemoryTasks, p # q,
                       tool'[p] # Mem!Resting, tool'[q] # Mem!Resting
                PROVE  /\ tool'[p].id = tool'[q].id => tool'[p].id \in spoiled'
                       /\ backend' = "markdown" => spoiled' = Mem!Ids
    BY DEF Mem!OverlapsKnown
  <2>1. tool[p] # Mem!Resting /\ tool[q] # Mem!Resting /\ tool'[p].id = tool[p].id /\ tool'[q].id = tool[q].id
    BY <1>2, <1>5, <1>6 DEF v
  <2>. QED
    BY <1>1, <2>1 DEF Mem!OverlapsKnown
<1>16. Mem!TextCurrent'
  <2>. SUFFICES ASSUME NEW p \in MemoryTasks, backend = "markdown", spoiled # Mem!Ids
                PROVE  tool'[p].at \notin {"deleting", "storing"}
    BY <1>1 DEF Mem!TextCurrent
  <2>1. CASE p = t
    BY <1>5, <1>6, <2>1 DEF v, Mem!Resting
  <2>2. CASE p # t
    <3>1. tool[p] = Mem!Resting
      BY <1>1, <1>2, <2>2 DEF Mem!OverlapsKnown
    <3>. QED
      BY <1>5, <2>2, <3>1 DEF Mem!Resting
  <2>. QED
    BY <2>1, <2>2
<1>17. Mem!StoresInGap'
  <2>. SUFFICES ASSUME NEW p \in MemoryTasks, tool'[p] # Mem!Resting, tool'[p].id \notin spoiled
                PROVE  /\ tool'[p].at \in {"store", "storing"} => Mem!Found(entries', tool'[p].id) = 0
                       /\ tool'[p].at = "get" => Mem!Found(entries', tool'[p].id) = expected'[tool'[p].id]
    BY <1>1 DEF Mem!StoresInGap, Mem!Get
  <2>1. CASE p = t
    BY <1>5, <1>6, <1>12, <2>1 DEF v
  <2>2. CASE p # t
    <3>1. tool'[p] = tool[p] /\ tool[p].id \in Mem!Ids
      BY <1>1, <1>5, <2>2 DEF Mem!MemoryTypes, Mem!Operation
    <3>2. tool[p].id # i
      BY <1>1, <1>2, <2>2, <3>1 DEF Mem!OverlapsKnown
    <3>3. Mem!Found(entries', tool[p].id) = Mem!Get(tool[p].id) /\ expected'[tool[p].id] = expected[tool[p].id]
      BY <1>11, <1>13, <3>1, <3>2 DEF Mem!Get
    <3>. QED
      BY <1>1, <3>1, <3>3 DEF Mem!StoresInGap
  <2>. QED
    BY <2>1, <2>2
<1>18. Mem!KnowledgeAsReported'
  <2>. SUFFICES ASSUME NEW j \in Mem!Ids, j \notin spoiled,
                       \A p \in MemoryTasks : tool'[p] = Mem!Resting \/ tool'[p].id # j
                PROVE  Mem!Found(entries', j) = expected'[j]
    BY <1>1 DEF Mem!KnowledgeAsReported, Mem!Get
  <2>1. CASE j # i
    <3>1. \A p \in MemoryTasks : tool[p] = Mem!Resting \/ tool[p].id # j
      BY <1>5, <2>1
    <3>2. Mem!Found(entries, j) = expected[j]
      BY <1>1, <3>1 DEF Mem!KnowledgeAsReported, Mem!Get
    <3>. QED
      BY <1>11, <1>13, <2>1, <3>2
  <2>2. CASE j = i
    <3>1. ~again
      BY <1>5, <1>6, <2>2
    <3>2. expected'[i] = IF u.op = "forget" THEN 0 ELSE u.value
      BY <1>2, <1>7, <1>8, <3>1
    <3>. QED
      BY <1>1, <1>3, <1>12, <2>2, <3>1, <3>2
  <2>. QED
    BY <2>1, <2>2
<1>. QED
  BY <1>14, <1>15, <1>16, <1>17, <1>18 DEF Mem!MemoryInv

LEMMA ExecuteKeeps ==
  ASSUME Mem!MemoryInv, NEW t \in MemoryTasks, NEW op \in {"remember", "update", "forget"}, NEW i \in Mem!Ids,
         Mem!Execute(t, op, i)
  PROVE  Mem!MemoryInv'
<1>. DEFINE v == [at |-> "get", op |-> op, id |-> i, value |-> ops', text |-> <<>>]
            busy == {p \in MemoryTasks \ {t} : tool[p] # Mem!Resting}
            meets == IF backend = "markdown" /\ busy # {} THEN Mem!Ids
                     ELSE {tool[p].id : p \in busy} \intersect {i}
<1>1. /\ Mem!MemoryTypes /\ Mem!OverlapsKnown /\ Mem!TextCurrent /\ Mem!StoresInGap /\ Mem!KnowledgeAsReported
      /\ backend' = backend /\ entries' = entries /\ expected' = expected
      /\ backend # "none" /\ tool[t] = Mem!Resting /\ ops < MaxMemoryOps /\ ops' = ops + 1
  BY DEF Mem!MemoryInv, Mem!Execute
<1>2. tool' = [tool EXCEPT ![t] = v] /\ spoiled' = spoiled \union meets
  BY DEF Mem!Execute
<1>3. tool'[t] = v /\ \A p \in MemoryTasks \ {t} : tool'[p] = tool[p]
  BY <1>1, <1>2 DEF Mem!MemoryTypes
<1>4. ops' \in 0..MaxMemoryOps /\ ops' \in Nat \ {0}
  BY <1>1, MemoryAssumption DEF Mem!MemoryTypes
<1>5. Mem!Rows(<<>>)
  BY DEF Mem!Rows
<1>6. v.at = "get" /\ v.id = i /\ v # Mem!Resting /\ Mem!Operation(v)
  BY <1>4, <1>5 DEF Mem!Operation, Mem!Resting
<1>7. /\ spoiled \subseteq spoiled' /\ spoiled' \subseteq Mem!Ids
      /\ \A p \in busy : (tool[p].id = i => i \in spoiled') /\ (backend = "markdown" => spoiled' = Mem!Ids)
  BY <1>1, <1>2 DEF Mem!MemoryTypes
<1>8. \A p \in MemoryTasks : p \in busy <=> p # t /\ tool[p] # Mem!Resting
  OBVIOUS
<1>. HIDE DEF v, busy, meets
<1>9. /\ \A j \in Mem!Ids : Mem!Get(j)' = Mem!Get(j)
      /\ \A j : Mem!Without(j)' = Mem!Without(j)
      /\ \A j, c : Mem!Stored(j, c)' = Mem!Stored(j, c)
  BY <1>1 DEF Mem!Get, Mem!Found, Mem!Without, Mem!Stored, Mem!Appended
<1>10. Mem!MemoryTypes'
  <2>1. tool' = [p \in MemoryTasks |-> tool'[p]]
    BY <1>1, <1>2 DEF Mem!MemoryTypes
  <2>2. \A p \in MemoryTasks : tool'[p] = Mem!Resting \/ Mem!Operation(tool'[p])
    BY <1>1, <1>3, <1>6 DEF Mem!MemoryTypes
  <2>. QED
    BY <1>1, <1>4, <1>7, <2>1, <2>2 DEF Mem!MemoryTypes
<1>11. Mem!OverlapsKnown'
  <2>. SUFFICES ASSUME NEW p \in MemoryTasks, NEW q \in MemoryTasks, p # q,
                       tool'[p] # Mem!Resting, tool'[q] # Mem!Resting
                PROVE  /\ tool'[p].id = tool'[q].id => tool'[p].id \in spoiled'
                       /\ backend = "markdown" => spoiled' = Mem!Ids
    BY <1>1 DEF Mem!OverlapsKnown
  <2>1. CASE p = t
    BY <1>3, <1>6, <1>7, <1>8, <2>1
  <2>2. CASE q = t
    BY <1>3, <1>6, <1>7, <1>8, <2>2
  <2>3. CASE p # t /\ q # t
    BY <1>1, <1>3, <1>7, <2>3 DEF Mem!OverlapsKnown
  <2>. QED
    BY <2>1, <2>2, <2>3
<1>12. Mem!TextCurrent'
  <2>. SUFFICES ASSUME NEW p \in MemoryTasks, backend = "markdown", spoiled' # Mem!Ids
                PROVE  /\ tool'[p].at = "deleting" => tool'[p].text = Mem!Without(tool'[p].id)
                       /\ tool'[p].at = "storing" => tool'[p].text = Mem!Stored(tool'[p].id, tool'[p].value)
    BY <1>1, <1>9 DEF Mem!TextCurrent
  <2>1. spoiled # Mem!Ids
    BY <1>7
  <2>. QED
    BY <1>1, <1>3, <1>6, <2>1 DEF Mem!TextCurrent
<1>13. \A p \in MemoryTasks : tool[p] = Mem!Resting \/ tool[p].id # i \/ i \in spoiled'
  BY <1>1, <1>7, <1>8
<1>14. Mem!StoresInGap'
  <2>. SUFFICES ASSUME NEW p \in MemoryTasks, tool'[p] # Mem!Resting, tool'[p].id \notin spoiled'
                PROVE  /\ tool'[p].at \in {"store", "storing"} => Mem!Found(entries, tool'[p].id) = 0
                       /\ tool'[p].at = "get" => Mem!Found(entries, tool'[p].id) = expected[tool'[p].id]
    BY <1>1 DEF Mem!StoresInGap, Mem!Get
  <2>1. CASE p = t
    <3>1. i \notin spoiled' /\ i \notin spoiled
      BY <1>3, <1>6, <1>7, <2>1
    <3>2. Mem!Found(entries, i) = expected[i]
      BY <1>1, <1>13, <3>1 DEF Mem!KnowledgeAsReported, Mem!Get
    <3>. QED
      BY <1>3, <1>6, <2>1, <3>2
  <2>2. CASE p # t
    BY <1>1, <1>3, <1>7, <2>2 DEF Mem!StoresInGap, Mem!Get
  <2>. QED
    BY <2>1, <2>2
<1>15. Mem!KnowledgeAsReported'
  <2>. SUFFICES ASSUME NEW j \in Mem!Ids, j \notin spoiled',
                       \A p \in MemoryTasks : tool'[p] = Mem!Resting \/ tool'[p].id # j
                PROVE  Mem!Get(j)' = expected[j]
    BY <1>1 DEF Mem!KnowledgeAsReported
  <2>1. \A p \in MemoryTasks : tool[p] = Mem!Resting \/ tool[p].id # j
    BY <1>1, <1>3
  <2>. QED
    BY <1>1, <1>7, <1>9, <2>1 DEF Mem!KnowledgeAsReported
<1>. QED
  BY <1>10, <1>11, <1>12, <1>14, <1>15 DEF Mem!MemoryInv

LEMMA CreateBackendKeeps ==
  ASSUME Mem!MemoryInv, NEW b \in {"sqlite", "markdown"}, Mem!CreateBackend(b)
  PROVE  Mem!MemoryInv'
<1>1. /\ Mem!MemoryTypes /\ Mem!KnowledgeAsReported /\ backend = "none" /\ backend' = b
      /\ UNCHANGED <<entries, tool, expected, spoiled, ops>>
  BY DEF Mem!MemoryInv, Mem!CreateBackend
<1>2. \A t \in MemoryTasks : tool[t] = Mem!Resting /\ tool'[t] = Mem!Resting
  BY <1>1 DEF Mem!MemoryTypes
<1>3. Mem!MemoryTypes'
  BY <1>1, <1>2 DEF Mem!MemoryTypes
<1>4. Mem!OverlapsKnown' /\ Mem!StoresInGap'
  BY <1>2 DEF Mem!OverlapsKnown, Mem!StoresInGap
<1>5. Mem!TextCurrent'
  BY <1>2 DEF Mem!TextCurrent, Mem!Resting
<1>6. Mem!KnowledgeAsReported'
  BY <1>1, <1>2 DEF Mem!KnowledgeAsReported, Mem!Get, Mem!Found
<1>. QED
  BY <1>3, <1>4, <1>5, <1>6 DEF Mem!MemoryInv

LEMMA InitMemory == Mem!Init => Mem!MemoryInv
<1>. SUFFICES ASSUME Mem!Init PROVE Mem!MemoryInv
  OBVIOUS
<1>1. Mem!Rows(entries) /\ \A i : Mem!Get(i) = 0
  BY DEF Mem!Init, Mem!Rows, Mem!Get, Mem!Found
<1>2. \A t \in MemoryTasks : tool[t] = Mem!Resting
  BY DEF Mem!Init
<1>3. Mem!MemoryTypes
  BY <1>1, <1>2, MemoryAssumption DEF Mem!Init, Mem!MemoryTypes
<1>4. Mem!OverlapsKnown /\ Mem!StoresInGap
  BY <1>2 DEF Mem!OverlapsKnown, Mem!StoresInGap
<1>5. Mem!TextCurrent
  BY <1>2 DEF Mem!TextCurrent, Mem!Resting
<1>6. Mem!KnowledgeAsReported
  BY <1>1 DEF Mem!KnowledgeAsReported, Mem!Init
<1>. QED
  BY <1>3, <1>4, <1>5, <1>6 DEF Mem!MemoryInv

LEMMA MemoryInvariant == Mem!Spec => []Mem!MemoryInv
<1>1. ASSUME Mem!MemoryInv, Mem!Next PROVE Mem!MemoryInv'
  <2>1. ASSUME NEW b \in {"sqlite", "markdown"}, Mem!CreateBackend(b) PROVE Mem!MemoryInv'
    BY <1>1, <2>1, CreateBackendKeeps
  <2>2. ASSUME NEW t \in MemoryTasks, Mem!Look(t) \/ Mem!LookFails(t) \/ Mem!Change(t) PROVE Mem!MemoryInv'
    BY <1>1, <2>2, LookKeeps, LookFailsKeeps, ChangeKeeps
  <2>3. ASSUME NEW t \in MemoryTasks, Mem!Applied(t) \/ Mem!ChangeFails(t) PROVE Mem!MemoryInv'
    BY <1>1, <2>3, AppliedKeeps, ChangeFailsKeeps
  <2>4. ASSUME NEW t \in MemoryTasks, NEW op \in {"remember", "update", "forget"}, NEW i \in Mem!Ids,
               Mem!Execute(t, op, i)
        PROVE  Mem!MemoryInv'
    BY <1>1, <2>4, ExecuteKeeps
  <2>. QED
    BY <1>1, <2>1, <2>2, <2>3, <2>4 DEF Mem!Next
<1>2. ASSUME Mem!MemoryInv, UNCHANGED Mem!memoryVars PROVE Mem!MemoryInv'
  <2>1. UNCHANGED <<backend, entries, tool, expected, spoiled, ops>>
    BY <1>2 DEF Mem!memoryVars
  <2>2. Mem!MemoryTypes'
    BY <1>2, <2>1 DEF Mem!MemoryInv, Mem!MemoryTypes
  <2>3. Mem!OverlapsKnown'
    BY <1>2, <2>1 DEF Mem!MemoryInv, Mem!OverlapsKnown
  <2>4. Mem!TextCurrent'
    <3>1. /\ \A i : Mem!Without(i)' = Mem!Without(i)
          /\ \A i, c : Mem!Stored(i, c)' = Mem!Stored(i, c)
      BY <2>1 DEF Mem!Without, Mem!Stored, Mem!Appended
    <3>. QED
      BY <1>2, <2>1, <3>1 DEF Mem!MemoryInv, Mem!TextCurrent
  <2>5. Mem!StoresInGap'
    BY <1>2, <2>1 DEF Mem!MemoryInv, Mem!StoresInGap, Mem!Get
  <2>6. Mem!KnowledgeAsReported'
    BY <1>2, <2>1 DEF Mem!MemoryInv, Mem!KnowledgeAsReported, Mem!Get
  <2>. QED
    BY <2>2, <2>3, <2>4, <2>5, <2>6 DEF Mem!MemoryInv
<1>. QED
  BY InitMemory, <1>1, <1>2, PTL DEF Mem!Spec

(* What the tool reports and what a recall finds is what the memory holds. *)
THEOREM KnowledgeIsKept ==
  Mem!Spec => [](Mem!TypeOK /\ Mem!KnowledgeAsReported /\ Mem!RecallPrefersScope)
<1>. SUFFICES ASSUME Mem!MemoryInv PROVE Mem!TypeOK /\ Mem!KnowledgeAsReported /\ Mem!RecallPrefersScope
  BY MemoryInvariant, PTL
<1>1. Mem!TypeOK /\ Mem!KnowledgeAsReported
  BY DEF Mem!MemoryInv, Mem!MemoryTypes, Mem!Rows, Mem!TypeOK
<1>2. ASSUME NEW i \in Mem!Ids, i \notin spoiled, expected[i] # 0, \A t \in MemoryTasks : tool[t] = Mem!Resting
      PROVE  Mem!Recall(i[1], i[2]) = expected[i]
  <2>. DEFINE hits == {k \in DOMAIN MemoryScopes : Mem!Get(<<MemoryScopes[k], i[2]>>) # 0}
              first == CHOOSE k \in hits : \A m \in hits : Mem!RecallOrder(i[1], k) <= Mem!RecallOrder(i[1], m)
  <2>1. PICK k \in DOMAIN MemoryScopes : i = <<MemoryScopes[k], i[2]>> /\ i[1] = MemoryScopes[k]
    BY DEF Mem!Ids
  <2>2. Mem!Get(i) = expected[i]
    BY <1>2 DEF Mem!MemoryInv, Mem!KnowledgeAsReported
  <2>3. DOMAIN MemoryScopes \subseteq Nat \ {0}
    BY MemoryAssumption
  <2>4. k \in hits /\ hits \subseteq Nat \ {0}
    BY <1>2, <2>1, <2>2, <2>3
  <2>5. Mem!Recall(i[1], i[2]) = Mem!Get(<<MemoryScopes[first], i[2]>>)
    BY <2>4 DEF Mem!Recall
  <2>. HIDE DEF hits
  <2>6. \A m \in hits : Mem!RecallOrder(i[1], k) <= Mem!RecallOrder(i[1], m)
    BY <2>1, <2>4 DEF Mem!RecallOrder
  <2>7. first \in hits /\ \A m \in hits : Mem!RecallOrder(i[1], first) <= Mem!RecallOrder(i[1], m)
    BY <2>4, <2>6
  <2>. HIDE DEF first
  <2>8. MemoryScopes[first] = i[1]
    <3>1. Mem!RecallOrder(i[1], k) = 0 /\ Mem!RecallOrder(i[1], first) <= Mem!RecallOrder(i[1], k)
      BY <2>1, <2>4, <2>7 DEF Mem!RecallOrder
    <3>2. first \in Nat \ {0} /\ (MemoryScopes[first] # i[1] => Mem!RecallOrder(i[1], first) = first)
      BY <2>4, <2>7 DEF Mem!RecallOrder
    <3>. QED
      BY <3>1, <3>2
  <2>. QED
    BY <2>1, <2>2, <2>5, <2>8
<1>. QED
  BY <1>1, <1>2 DEF Mem!RecallPrefersScope

-----------------------------------------------------------------------------
(* Whatever calls overlap, fail in the middle or are cut off, the stores   *)
(* and the memory tool keep what StoresCurrent says.                       *)
THEOREM StoresAreCurrent == Local!Spec /\ Bucket!Spec /\ Mem!Spec => []StoresCurrent
BY FilesAreCurrent, ObjectsAreWhole, KnowledgeIsKept, PTL DEF StoresCurrent
=============================================================================
