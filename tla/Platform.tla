------------------------------ MODULE Platform ------------------------------
(***************************************************************************)
(* The parts of the platform that guard keys, logins, limits, messages and *)
(* shared processes, side by side: the session manager and the login flows *)
(* of the gateway, the allowlists of the channels, the credentials file    *)
(* and hot reload, the tenants, the Docker orchestrator, the browser, the  *)
(* keys of a provider, the polling of Slack, the heartbeat and the vault.  *)
(* They share no state, so any behaviour of the platform is a behaviour of *)
(* each of them; what they promise is proved here.                         *)
(***************************************************************************)
EXTENDS Integers, Sequences, FiniteSets, Functions,
        FiniteSetTheorems, NaturalsInduction, TLAPS

CONSTANTS SessionTasks, SessionKeys, MaxSessions, MaxHistory, MaxTurns,
          Workers, Cli, Pasted, Placeholders, Bad, OfferedModels, KnownModels,
          KeyFiles, ConfigKeys, MaxHandlers, MaxLinks,
          LoginUsers, LoginProviders, LoginChannels, LoginCallers, MaxFlows,
          Tenant, DefaultTenant, TenantUsers, TenantCallers, MaxDay, MaxTenantCalls,
          BrowserCallers, Sites, SessionNames, Sanitize, IdleTimeout, MaxLaunch, MaxNow,
          VaultTasks, VaultKeys, SecretValues, MaxVaultCalls,
          DockerCallers, InstanceNames, Family, MaxInstances, MaxJobs,
          ChatUsers, ChatHandlers, AllowConfig, MaxMessages, MaxCrashes,
          KeyCallers, ProviderKeys, RefusedKeys, MaxKeyCalls,
          Conversations, Page, MaxPosts, MaxRounds,
          Day, Windows, Capacity, MaxRuns

VARIABLES sessions, accessOrder, at, clone, sessionTurns, removals,
          keysFile, agent, handlerAt, token, links, begun, config, accepted, saved, opened, raced,
          users, oauth, flows, request, exchanged,
          day, rate, tenantCaller, granted, crossed,
          browser, page, cdp, lastUsed, now, lock, alive, browserCaller, watchdog, cookies,
          cookieFiles, launched,
          keyFile, file, cache, process, vaultTask, answer, vaultCalls, behind,
          containers, names, instances, job, jobs, leaked, scaledAway,
          list, admin, allowFile, handler, lastSave, arrived, crashes,
          keyIndex, inFlight, alone, streak, called,
          posts, slackNow, latestTs, poller, inbound, overflow, rounds,
          minute, window, okFile, checklist, queue, open, running, metrics, sentAt

Sess == INSTANCE Sessions WITH Tasks <- SessionTasks, Keys <- SessionKeys, turns <- sessionTurns
Cred == INSTANCE Credentials WITH Models <- OfferedModels, Known <- KnownModels, Files <- KeyFiles,
                                  ConfigCreds <- ConfigKeys, file <- keysFile, at <- handlerAt
Ident == INSTANCE Identity WITH Users <- LoginUsers, Providers <- LoginProviders,
                                Channels <- LoginChannels, Callers <- LoginCallers
Ten == INSTANCE Tenants WITH Default <- DefaultTenant, Users <- TenantUsers, Callers <- TenantCallers,
                             MaxCalls <- MaxTenantCalls, caller <- tenantCaller
Chrome == INSTANCE Browser WITH Callers <- BrowserCallers, Names <- SessionNames,
                                sessions <- cookieFiles, caller <- browserCaller
Vlt == INSTANCE Vault WITH Tasks <- VaultTasks, Keys <- VaultKeys, Values <- SecretValues,
                           MaxCalls <- MaxVaultCalls, task <- vaultTask, made <- vaultCalls
Orch == INSTANCE Orchestrator WITH Callers <- DockerCallers, Names <- InstanceNames
Allow == INSTANCE Allowlist WITH Users <- ChatUsers, Handlers <- ChatHandlers, Config <- AllowConfig,
                                 stored <- allowFile
Rot == INSTANCE KeyRotation WITH Callers <- KeyCallers, Keys <- ProviderKeys,
                                 Refused <- RefusedKeys, MaxCalls <- MaxKeyCalls
Slack == INSTANCE SlackPolling WITH now <- slackNow
Beat == INSTANCE HeartbeatRunner

-----------------------------------------------------------------------------
(* There is room for a session.                                              *)
SessAssume == /\ IsFiniteSet(SessionTasks) /\ MaxSessions \in Nat \ {0} /\ MaxHistory \in Nat
ASSUME SessAssumption == SessAssume

(* Known providers have a default model; the files a process may start with  *)
(* are what save_credentials leaves behind, so no entry is without a key     *)
(* that can be used.                                                         *)
CredAssume ==
  /\ DOMAIN KnownModels \subseteq STRING
  /\ \A n \in DOMAIN KnownModels : KnownModels[n] \in Seq(STRING) /\ KnownModels[n] # <<>>
  /\ Pasted \subseteq Cred!Cred /\ OfferedModels \subseteq STRING
  /\ KeyFiles \subseteq {<<>>} \union Cred!Contents /\ \A f \in KeyFiles : Cred!Usable(f)
  /\ ConfigKeys \subseteq {Cred!None} \union [name : STRING, key : STRING, model : STRING]
  /\ MaxHandlers \in Nat
ASSUME CredAssumption == CredAssume

(* The map of tenants has one entry per id.                                  *)
TenAssume ==
  /\ DOMAIN Tenant \subseteq Nat
  /\ \A i \in DOMAIN Tenant : Tenant[i].limit \in Nat
  /\ \A i, j \in DOMAIN Tenant : Tenant[i].id = Tenant[j].id => i = j
  /\ IsFiniteSet(TenantCallers) /\ MaxTenantCalls \in Nat /\ MaxDay \in Nat \ {0}
ASSUME TenAssumption == TenAssume

ASSUME BrowserAssumption ==
  MaxLaunch \in Nat /\ MaxNow \in Nat \ {0} /\ IdleTimeout \in Nat /\ "free" \notin BrowserCallers

(* The configured list names users; the three words stand for no admin, no   *)
(* file and a file that does not parse.                                      *)
AllowAssume == AllowConfig \in Seq(ChatUsers) /\ {"nobody", "no file", "torn"} \cap ChatUsers = {}
ASSUME AllowAssumption == AllowAssume

(* Somebody provisions.                                                      *)
DockerAssume == IsFiniteSet(DockerCallers) /\ DockerCallers # {} /\ MaxInstances \in Nat
ASSUME DockerAssumption == DockerAssume

(* create_provider refuses a configuration without a key.                    *)
RotationAssume == /\ IsFiniteSet(KeyCallers) /\ MaxKeyCalls \in Nat
                  /\ ProviderKeys \in Seq(STRING) \ {<<>>}
ASSUME RotationAssumption == RotationAssume

SlackAssume == Conversations \in Seq(STRING) /\ Page \in Nat /\ MaxPosts \in Nat /\ MaxRounds \in Nat
ASSUME SlackAssumption == SlackAssume

(* A window that is set has two times of the day.                            *)
BeatAssume == /\ Day \in Nat \ {0} /\ Windows \subseteq {<<>>} \union ((0..(Day - 1)) \X (0..(Day - 1)))
              /\ Capacity \in Nat /\ MaxRuns \in Nat
ASSUME BeatAssumption == BeatAssume

ASSUME VaultAssumption == MaxVaultCalls \in Nat /\ "error" \notin SecretValues

-----------------------------------------------------------------------------
(* State of the gateway. The session manager, with its map and its order     *)
(* under two locks, stays within its limit of sessions but for those that    *)
(* calls in progress put back, and lists every session it may evict unless a *)
(* removal raced; of two callbacks of one login only the first is exchanged, *)
(* and a user never gets the token of another one; the owner of a bot is     *)
(* kept and the allowlist file follows the list.                             *)
GatewayKeeps ==
  /\ Allow!TypeOK /\ Allow!OwnerKept /\ Allow!FileFollowsList
  /\ Sess!TypeOK /\ Sess!SessionsBounded /\ Sess!EverySessionListed
  /\ Ident!TypeOK /\ Ident!OneExchange /\ Ident!TokenOfOwnLogin

(* Keys and hot reload. The agent runs only with keys that were tried or     *)
(* configured, a setup link takes one blob, a saved key stays saved unless   *)
(* another writer overlapped or it was removed, and the agent is offline     *)
(* only while no usable key is known, however workers and terminal           *)
(* interleave their reads and writes of the file.                            *)
CredentialsSafe ==
  Cred!TypeOK /\ Cred!OnlyTriedKeys /\ Cred!OneBlobPerLink /\ Cred!SavedStays /\ Cred!OnlineWhenUsable

(* Limits that several callers share. Check and use are apart, so the        *)
(* orchestrator exceeds its limit by the provisions under way at most; it    *)
(* loses track of no container it could start and scales down others than    *)
(* the instance it was asked for; a tenant gets its daily calls and no more; *)
(* all chats share one browser; and the requests that share the keys of a    *)
(* provider rotate to one that works.                                        *)
LimitsKept ==
  /\ Orch!TypeOK /\ Orch!InstancesBounded /\ Orch!NoContainerLost /\ Orch!PrimarySpared
  /\ Ten!TypeOK /\ Ten!DailyLimitKept
  /\ Chrome!TypeOK /\ Chrome!OneBrowser /\ Chrome!SlotsAgree
  /\ Rot!TypeOK /\ Rot!RotationFinds

(* Messages in. Slack polling forwards each message once, in order, and      *)
(* passes none over although requests fail in the middle of a round;         *)
(* heartbeats go out in the active hours only and every tick is accounted    *)
(* for.                                                                      *)
ChannelsDeliver ==
  /\ Slack!TypeOK /\ Slack!ForwardedOnceInOrder /\ Slack!NonePassedOver
  /\ Beat!TypeOK /\ Beat!SentInHours /\ Beat!TicksAccounted

(* Secrets. What the vault reported as stored can be read again after        *)
(* restarts, and its file agrees with the cache once no flush is under way   *)
(* or has failed.                                                            *)
SecretsKept == Vlt!TypeOK /\ Vlt!SecretsReadable /\ Vlt!VaultFileCurrent

(* Steps against a caller. The watchdog closes the browser only when it has  *)
(* seen it idle for the whole time limit, and a tenant is refused only when  *)
(* the calls of the day are really used up.                                  *)
ActsOnlyWhenDue == Chrome!IdleBrowserOnly /\ Ten!RefusedOnlyWhenUsedUp

(* The library operators that the components use are those of this module.   *)
LEMMA SessOps ==
  /\ \A S : Sess!Cardinality(S) = Cardinality(S) /\ Sess!IsFiniteSet(S) = IsFiniteSet(S)
  /\ \A s : Sess!Range(s) = Range(s)
BY DEF Sess!Cardinality, Cardinality, Sess!IsFiniteSet, IsFiniteSet, Sess!Range, Range

LEMMA CredOps ==
  /\ \A S : Cred!Cardinality(S) = Cardinality(S) /\ Cred!IsFiniteSet(S) = IsFiniteSet(S)
  /\ \A s : Cred!Range(s) = Range(s)
BY DEF Cred!Cardinality, Cardinality, Cred!IsFiniteSet, IsFiniteSet, Cred!Range, Range

LEMMA TenOps == \A S : Ten!Cardinality(S) = Cardinality(S)
BY DEF Ten!Cardinality, Cardinality

LEMMA ChromeOps == \A S : Chrome!Cardinality(S) = Cardinality(S)
BY DEF Chrome!Cardinality, Cardinality

LEMMA AllowOps ==
  /\ \A S : Allow!Cardinality(S) = Cardinality(S)
  /\ \A s : Allow!Range(s) = Range(s)
BY DEF Allow!Cardinality, Cardinality, Allow!Range, Range

LEMMA OrchOps == \A S : Orch!Cardinality(S) = Cardinality(S)
BY DEF Orch!Cardinality, Cardinality

LEMMA RotOps == \A S : Rot!Cardinality(S) = Cardinality(S)
BY DEF Rot!Cardinality, Cardinality

LEMMA VltOps == \A f, S : Vlt!Restrict(f, S) = Restrict(f, S)
BY DEF Vlt!Restrict, Restrict

-----------------------------------------------------------------------------
(* Sets of numbers, counts and sequences.                                  *)

LEMMA ImageSize ==
  ASSUME NEW S, IsFiniteSet(S), NEW f
  PROVE  IsFiniteSet({f[x] : x \in S}) /\ Cardinality({f[x] : x \in S}) <= Cardinality(S)
<1>. DEFINE T == {f[x] : x \in S}
            g == [x \in S |-> f[x]]
<1>1. g \in Surjection(S, T)
  BY DEF Surjection
<1>. HIDE DEF T, g
<1>2. IsFiniteSet(T) /\ Cardinality(T) <= Cardinality(S)
  BY <1>1, FS_Surjection
<1>. QED
  BY <1>2 DEF T

LEMMA SubsetSize ==
  ASSUME NEW S, NEW T, IsFiniteSet(T), S \subseteq T
  PROVE  /\ IsFiniteSet(S) /\ Cardinality(S) \in Nat /\ Cardinality(T) \in Nat
         /\ Cardinality(S) <= Cardinality(T)
BY FS_Subset, FS_CardinalityType

LEMMA UnionSize ==
  ASSUME NEW S, NEW T, IsFiniteSet(S), IsFiniteSet(T)
  PROVE  /\ IsFiniteSet(S \cup T)
         /\ Cardinality(S \cup T) <= Cardinality(S) + Cardinality(T)
<1>1. Cardinality(S \cap T) \in Nat /\ Cardinality(S) \in Nat /\ Cardinality(T) \in Nat
      /\ Cardinality(S \cup T) \in Nat
  BY FS_Intersection, FS_CardinalityType, FS_Union
<1>2. Cardinality(S \cup T) = Cardinality(S) + Cardinality(T) - Cardinality(S \cap T)
  BY FS_Union
<1>3. IsFiniteSet(S \cup T)
  BY FS_Union
<1>. QED
  BY <1>1, <1>2, <1>3

LEMMA AddSize ==
  ASSUME NEW S, NEW x, IsFiniteSet(S)
  PROVE  /\ IsFiniteSet(S \union {x}) /\ Cardinality(S \union {x}) \in Nat
         /\ Cardinality(S \union {x}) <= Cardinality(S) + 1
<1>1. IsFiniteSet({x}) /\ Cardinality({x}) = 1
  BY FS_Singleton
<1>2. /\ IsFiniteSet(S \union {x})
      /\ Cardinality(S \union {x}) <= Cardinality(S) + Cardinality({x})
  BY <1>1, UnionSize
<1>. QED
  BY <1>1, <1>2, FS_CardinalityType

LEMMA DropSize ==
  ASSUME NEW S, NEW x, IsFiniteSet(S)
  PROVE  /\ IsFiniteSet(S \ {x})
         /\ x \in S => Cardinality(S \ {x}) = Cardinality(S) - 1
<1>1. IsFiniteSet(S \ {x})
  BY FS_RemoveElement
<1>2. x \in S => Cardinality(S \ {x}) = Cardinality(S) - 1
  BY FS_RemoveElement
<1>. QED
  BY <1>1, <1>2

LEMMA LeastIn ==
  ASSUME NEW S \in SUBSET Nat, S # {}
  PROVE  \E x \in S : \A y \in S : x <= y
<1>. DEFINE R == OpToRel(<, Nat)
<1>1. IsWellFoundedOn(R, Nat)
  BY NatLessThanWellFounded, Zenon
<1>. HIDE DEF R
<1>2. PICK x \in S : \A y \in S : ~(<<y, x>> \in R)
  BY <1>1, WFMin
<1>3. \A y \in S : ~(y < x)
  BY <1>2, Zenon DEF R, OpToRel
<1>. QED
  BY <1>2, <1>3

(* How often x occurs in s, and once more after it is appended.            *)
Occurs(s, x) == Cardinality({i \in DOMAIN s : s[i] = x})

LEMMA OccurrencesAppend ==
  ASSUME NEW S, NEW s \in Seq(S), NEW e \in S, NEW x
  PROVE  /\ Occurs(s, x) \in Nat
         /\ Occurs(Append(s, e), x) = Occurs(s, x) + (IF e = x THEN 1 ELSE 0)
<1>. DEFINE old == {i \in DOMAIN s : s[i] = x}
            n == Len(s) + 1
            new == {i \in DOMAIN Append(s, e) : Append(s, e)[i] = x}
<1>1. Len(s) \in Nat /\ old \subseteq 1..Len(s) /\ n \notin old
  OBVIOUS
<1>2. IsFiniteSet(1..Len(s))
  BY <1>1, FS_Interval
<1>3. /\ DOMAIN Append(s, e) = 1..n /\ Append(s, e)[n] = e
      /\ \A i \in 1..Len(s) : Append(s, e)[i] = s[i]
  OBVIOUS
<1>4. new = IF e = x THEN old \union {n} ELSE old
  <2>1. 1..n = (1..Len(s)) \union {n}
    BY <1>1
  <2>. QED
    BY <1>1, <1>3, <2>1
<1>. HIDE DEF old, new, n
<1>5. IsFiniteSet(old)
  BY <1>1, <1>2, FS_Subset
<1>6. Cardinality(old) \in Nat
  BY <1>5, FS_CardinalityType
<1>7. Cardinality(old \union {n}) = Cardinality(old) + 1
  BY <1>1, <1>5, FS_AddElement
<1>8. Cardinality(new) = Cardinality(old) + (IF e = x THEN 1 ELSE 0)
  BY <1>4, <1>6, <1>7
<1>. QED
  BY <1>6, <1>8 DEF old, new, Occurs

LEMMA NextMultiple ==
  ASSUME NEW a \in Nat, NEW b \in Nat
  PROVE  a * b \in Nat /\ a * (b + 1) = a * b + a /\ a * (1 + b) = a * b + a
OBVIOUS

LEMMA AppendSet ==
  ASSUME NEW S, NEW s \in Seq(S), NEW x \in S
  PROVE  /\ Append(s, x) \in Seq(S) /\ Range(Append(s, x)) = Range(s) \union {x}
         /\ DOMAIN Append(s, x) = DOMAIN s \union {Len(s) + 1} /\ Append(s, x)[Len(s) + 1] = x
         /\ \A i \in DOMAIN s : Append(s, x)[i] = s[i]
BY DEF Range

LEMMA PickElems ==
  ASSUME NEW S, NEW s \in Seq(S), NEW kept, kept \subseteq DOMAIN s
  PROVE  Cred!Pick(s, kept) \in Seq(S) /\ Range(Cred!Pick(s, kept)) = {s[i] : i \in kept}
<1>. DEFINE upTo(i) == {j \in kept : j <= i}
            rank(i) == Cardinality(upTo(i))
            N == Cardinality(kept)
            r == [i \in kept |-> rank(i)]
            w == [n \in 1..N |-> s[CHOOSE i \in kept : rank(i) = n]]
<1>1. kept \subseteq 1..Len(s) /\ Len(s) \in Nat
  OBVIOUS
<1>2. IsFiniteSet(kept) /\ N \in Nat
  <2>1. IsFiniteSet(1..Len(s))
    BY <1>1, FS_Interval
  <2>. QED
    BY <1>1, <2>1, SubsetSize
<1>3. \A i \in kept : /\ IsFiniteSet(upTo(i)) /\ rank(i) \in 1..N /\ i \in Nat
  <2>. SUFFICES ASSUME NEW i \in kept
                PROVE  IsFiniteSet(upTo(i)) /\ rank(i) \in 1..N /\ i \in Nat
    OBVIOUS
  <2>0. i \in Nat
    BY <1>1
  <2>1. upTo(i) \subseteq kept /\ i \in upTo(i)
    BY <2>0
  <2>. HIDE DEF upTo
  <2>2. IsFiniteSet(upTo(i)) /\ rank(i) \in Nat /\ rank(i) <= N
    BY <2>1, <1>2, SubsetSize
  <2>3. rank(i) # 0
    BY <2>1, <2>2, FS_EmptySet
  <2>. QED
    BY <2>0, <2>2, <2>3, <1>2
<1>4. \A i, j \in kept : i < j => rank(i) < rank(j)
  <2>. SUFFICES ASSUME NEW i \in kept, NEW j \in kept, i < j PROVE rank(i) < rank(j)
    OBVIOUS
  <2>1. upTo(i) \subseteq upTo(j) /\ j \in upTo(j) /\ j \notin upTo(i)
    BY <1>3
  <2>. HIDE DEF upTo
  <2>2. /\ IsFiniteSet(upTo(j)) /\ upTo(i) # upTo(j)
        /\ rank(i) \in Nat /\ rank(j) \in Nat
    BY <2>1, <1>3
  <2>. QED
    BY <2>1, <2>2, FS_Subset
<1>. HIDE DEF upTo
<1>5. \A i, j \in kept : rank(i) = rank(j) => i = j
  <2>1. \A i, j \in kept : i = j \/ i < j \/ j < i
    BY <1>3
  <2>. QED
    BY <2>1, <1>3, <1>4
<1>6. \A n \in 1..N : \E i \in kept : rank(i) = n
  <2>1. r \in Injection(kept, 1..N)
    BY <1>3, <1>5 DEF Injection, IsInjective
  <2>2. IsFiniteSet(1..N) /\ Cardinality(1..N) = N
    BY <1>2, FS_Interval
  <2>3. r \in Surjection(kept, 1..N)
    <3>. HIDE DEF r
    <3>. QED
      BY <2>1, <2>2, FS_Injection
  <2>. QED
    BY <2>3 DEF Surjection
<1>7. \A n \in 1..N : (CHOOSE i \in kept : rank(i) = n) \in kept
                      /\ rank(CHOOSE i \in kept : rank(i) = n) = n
  BY <1>6
<1>8. \A i \in kept : i \in DOMAIN s /\ s[i] \in S
  OBVIOUS
<1>9. w \in Seq(S) /\ DOMAIN w = 1..N /\ \A n \in 1..N : \E i \in kept : w[n] = s[i] /\ rank(i) = n
  <2>1. DOMAIN w = 1..N
    OBVIOUS
  <2>2. \A n \in 1..N : \E i \in kept : w[n] = s[i] /\ rank(i) = n
    BY <1>7
  <2>. HIDE DEF w, N, rank
  <2>3. \A n \in 1..N : w[n] \in S
    BY <2>2, <1>8
  <2>4. w = [n \in 1..N |-> w[n]]
    BY <2>1 DEF w
  <2>5. w \in [1..N -> S]
    BY <2>3, <2>4
  <2>6. w \in Seq(S)
    BY <2>5, <1>2 
  <2>. QED
    BY <2>1, <2>2, <2>6
<1>10. \A i \in kept : w[rank(i)] = s[i]
  <2>. SUFFICES ASSUME NEW i \in kept PROVE w[rank(i)] = s[i]
    OBVIOUS
  <2>1. PICK k \in kept : w[rank(i)] = s[k] /\ rank(k) = rank(i)
    BY <1>3, <1>9
  <2>. QED
    BY <2>1, <1>5
<1>11. Cred!Pick(s, kept) = w
  BY DEF Cred!Pick, upTo, Cred!Cardinality, Cardinality
<1>12. ASSUME NEW y
       PROVE  y \in Range(w) <=> y \in {s[i] : i \in kept}
  <2>. HIDE DEF w, rank
  <2>1. ASSUME y \in Range(w) PROVE y \in {s[i] : i \in kept}
    <3>1. PICK n \in DOMAIN w : w[n] = y
      BY <2>1 DEF Range
    <3>. QED
      BY <3>1, <1>9
  <2>2. ASSUME NEW i \in kept, y = s[i] PROVE y \in Range(w)
    BY <2>2, <1>3, <1>9, <1>10 DEF Range
  <2>. QED
    BY <2>1, <2>2
<1>. QED
  BY <1>9, <1>11, <1>12

-----------------------------------------------------------------------------
(* SessionManager.                                                         *)

LEMMA WithoutElems ==
  ASSUME NEW S, NEW s \in Seq(S), NEW x
  PROVE  Sess!Without(s, x) \in Seq(S) /\ Range(Sess!Without(s, x)) = Range(s) \ {x}
<1>. DEFINE kept == {i \in DOMAIN s : s[i] # x}
<1>1. Sess!Without(s, x) = Cred!Pick(s, kept)
  BY DEF Sess!Without, Cred!Pick, Sess!Cardinality, Cred!Cardinality
<1>2. kept \subseteq DOMAIN s /\ {s[i] : i \in kept} = Range(s) \ {x}
  BY DEF Range
<1>. HIDE DEF kept
<1>. QED
  BY <1>1, <1>2, PickElems

LEMMA LackElems ==
  ASSUME NEW S, NEW s \in Seq(S), NEW x
  PROVE  Allow!Without(s, x) \in Seq(S) /\ Range(Allow!Without(s, x)) = Range(s) \ {x}
<1>. DEFINE kept == {i \in DOMAIN s : s[i] # x}
<1>1. Allow!Without(s, x) = Cred!Pick(s, kept)
  BY DEF Allow!Without, Cred!Pick, Allow!Cardinality, Cred!Cardinality
<1>2. kept \subseteq DOMAIN s /\ {s[i] : i \in kept} = Range(s) \ {x}
  BY DEF Range
<1>. HIDE DEF kept
<1>. QED
  BY <1>1, <1>2, PickElems

(* An eviction makes room or takes every listed session.                   *)
LEMMA EvictedRoom ==
  ASSUME Sess!SessionTypes
  PROVE  /\ Sess!Evicted \in 0..Len(accessOrder)
         /\ \/ Cardinality(DOMAIN sessions \ {accessOrder[i] : i \in 1..Sess!Evicted}) < MaxSessions
            \/ Sess!Evicted = Len(accessOrder)
<1>. DEFINE left(n) == Cardinality(DOMAIN sessions \ {accessOrder[i] : i \in 1..n})
            enough == {n \in 0..Len(accessOrder) : left(n) < MaxSessions}
            least == CHOOSE n \in enough : \A m \in enough : n <= m
<1>1. Sess!Evicted = IF enough = {} THEN Len(accessOrder) ELSE least
  BY DEF Sess!Evicted, Sess!Cardinality, Cardinality
<1>2. Len(accessOrder) \in Nat /\ enough \subseteq 0..Len(accessOrder) /\ enough \subseteq Nat
  BY DEF Sess!SessionTypes
<1>3. CASE enough = {}
  BY <1>1, <1>2, <1>3
<1>4. CASE enough # {}
  <2>. HIDE DEF enough
  <2>1. \E n \in enough : \A m \in enough : n <= m
    BY <1>2, <1>4, LeastIn
  <2>2. least \in enough
    BY <2>1
  <2>3. Sess!Evicted \in enough
    BY <2>2, <1>1, <1>4
  <2>4. Sess!Evicted \in 0..Len(accessOrder) /\ left(Sess!Evicted) < MaxSessions
    BY <2>3 DEF enough
  <2>. QED
    BY <2>4
<1>. QED
  BY <1>3, <1>4

(* The counts that the bounds are about exist.                             *)
LEMMA CountsFinite ==
  ASSUME SessAssume, Sess!SessionTypes
  PROVE  /\ IsFiniteSet(Sess!Stray) /\ Cardinality(Sess!Stray) \in Nat
         /\ IsFiniteSet(Sess!Unlisters) /\ Cardinality(Sess!Unlisters) \in Nat
         /\ IsFiniteSet(Sess!Known) /\ Cardinality(Sess!Known) \in Nat
         /\ Cardinality(SessionTasks) \in Nat
<1>1. IsFiniteSet(DOMAIN sessions) /\ IsFiniteSet(SessionTasks)
  BY SessOps DEF SessAssume, Sess!SessionTypes
<1>2. IsFiniteSet(Sess!Stray) /\ IsFiniteSet(Sess!Unlisters)
  <2>1. Sess!Stray \subseteq DOMAIN sessions /\ Sess!Unlisters \subseteq SessionTasks
    BY DEF Sess!Stray, Sess!Unlisters
  <2>. QED
    BY <2>1, <1>1, SubsetSize
<1>3. IsFiniteSet(Sess!Held)
  <2>. DEFINE H == {x \in SessionTasks : clone[x] # <<>>}
              f == [t \in H |-> at[t].key]
  <2>1. IsFiniteSet(H)
    <3>1. H \subseteq SessionTasks
      OBVIOUS
    <3>. HIDE DEF H
    <3>. QED
      BY <3>1, <1>1, SubsetSize
  <2>2. Sess!Held = {f[t] : t \in H}
    BY DEF Sess!Held
  <2>. HIDE DEF H, f
  <2>. QED
    BY <2>1, <2>2, ImageSize
<1>4. IsFiniteSet(Sess!Known)
  BY <1>1, <1>3, UnionSize DEF Sess!Known
<1>. QED
  BY <1>1, <1>2, <1>4, FS_CardinalityType

LEMMA InitSessions ==
  ASSUME SessAssume, Sess!Init PROVE Sess!SessionsInv
<1>1. DOMAIN sessions = {} /\ IsFiniteSet({}) /\ Cardinality({}) = 0
  BY FS_EmptySet DEF Sess!Init
<1>2. Sess!SessionTypes
  BY SessOps, <1>1 DEF Sess!Init, Sess!Idle, Sess!SessionTypes
<1>3. Sess!Stray = {} /\ Sess!Unlisters = {} /\ Sess!Known = {}
  BY <1>1 DEF Sess!Init, Sess!Idle, Sess!Stray, Sess!Unlisters, Sess!Known, Sess!Held
<1>4. Cardinality(SessionTasks) \in Nat
  BY FS_CardinalityType DEF SessAssume
<1>. QED
  BY SessOps, <1>1, <1>2, <1>3, <1>4 DEF Sess!SessionsInv, Sess!StrayBound, Sess!KnownBound, Sess!Init, SessAssume

(* A step that makes no stray and no sessions known keeps both bounds.     *)
LEMMA BoundsKept ==
  ASSUME SessAssume, Sess!SessionsInv, Sess!SessionTypes',
         Sess!Stray' \subseteq Sess!Stray, Sess!Unlisters' \subseteq Sess!Unlisters,
         Sess!Known' \subseteq Sess!Known, removals' = removals
  PROVE  Sess!SessionsInv'
<1>1. /\ IsFiniteSet(Sess!Stray) /\ IsFiniteSet(Sess!Unlisters) /\ IsFiniteSet(Sess!Known)
      /\ Cardinality(SessionTasks) \in Nat
  BY CountsFinite DEF Sess!SessionsInv
<1>2. Cardinality(Sess!Stray') <= Cardinality(Sess!Stray) /\ Cardinality(Sess!Stray') \in Nat /\ Cardinality(Sess!Stray) \in Nat
  BY <1>1, SubsetSize
<1>3. Cardinality(Sess!Unlisters') <= Cardinality(Sess!Unlisters)
      /\ Cardinality(Sess!Unlisters') \in Nat /\ Cardinality(Sess!Unlisters) \in Nat
  BY <1>1, SubsetSize
<1>4. Cardinality(Sess!Known') <= Cardinality(Sess!Known) /\ Cardinality(Sess!Known') \in Nat /\ Cardinality(Sess!Known) \in Nat
  BY <1>1, SubsetSize
<1>5. removals \in Nat /\ MaxSessions \in Nat
  BY DEF SessAssume, Sess!SessionsInv, Sess!SessionTypes
<1>6. Cardinality(Sess!Stray') + Cardinality(Sess!Unlisters') <= removals
  BY SessOps, <1>2, <1>3, <1>5 DEF Sess!SessionsInv, Sess!StrayBound
<1>7. Cardinality(Sess!Known') <= MaxSessions + (Cardinality(SessionTasks) - 1) + removals
  BY SessOps, <1>1, <1>4, <1>5 DEF Sess!SessionsInv, Sess!KnownBound
<1>. QED
  BY SessOps, <1>6, <1>7 DEF Sess!SessionsInv, Sess!StrayBound, Sess!KnownBound

LEMMA GetStep ==
  ASSUME SessAssume, Sess!SessionsInv, NEW t \in SessionTasks, NEW k \in SessionKeys, Sess!Get(t, k)
  PROVE  Sess!SessionsInv'
<1>1. Sess!SessionTypes
  BY DEF Sess!SessionsInv
<1>2. /\ at \in [SessionTasks -> [pc : {"idle", "create", "push", "touch", "unlist"}, key : SessionKeys \union {"none"}]]
      /\ clone \in [SessionTasks -> Seq(Seq(SessionTasks))]
  BY <1>1 DEF Sess!SessionTypes
<1>3. at[t].pc = "idle" /\ clone[t] = <<>> /\ UNCHANGED <<sessions, accessOrder, removals>>
  BY DEF Sess!Get
<1>4. CASE k \in DOMAIN sessions
  <2>1. /\ at' = [at EXCEPT ![t] = [pc |-> "touch", key |-> k]]
        /\ clone' = [clone EXCEPT ![t] = <<sessions[k]>>]
    BY <1>4 DEF Sess!Get, Sess!At, Sess!Hold
  <2>2. <<sessions[k]>> \in Seq(Seq(SessionTasks))
    BY <1>1, <1>4 DEF Sess!SessionTypes
  <2>3. Sess!SessionTypes'
    BY <1>1, <1>2, <1>3, <2>1, <2>2 DEF Sess!SessionTypes
  <2>4. Sess!Stray' \subseteq Sess!Stray
    BY <1>2, <1>3, <2>1 DEF Sess!Stray, Sess!Pending
  <2>5. Sess!Unlisters' \subseteq Sess!Unlisters
    BY <1>2, <1>3, <2>1 DEF Sess!Unlisters
  <2>6. Sess!Known' \subseteq Sess!Known
    BY <1>2, <1>3, <1>4, <2>1 DEF Sess!Known, Sess!Held
  <2>. QED
    BY <2>3, <2>4, <2>5, <2>6, <1>3, BoundsKept
<1>5. CASE k \notin DOMAIN sessions
  <2>1. /\ at' = [at EXCEPT ![t] = [pc |-> "create", key |-> k]] /\ clone' = clone
    BY <1>5 DEF Sess!Get, Sess!At
  <2>3. Sess!SessionTypes'
    BY <1>1, <1>2, <1>3, <2>1 DEF Sess!SessionTypes
  <2>4. Sess!Stray' \subseteq Sess!Stray
    BY <1>2, <1>3, <2>1 DEF Sess!Stray, Sess!Pending
  <2>5. Sess!Unlisters' \subseteq Sess!Unlisters
    BY <1>2, <1>3, <2>1 DEF Sess!Unlisters
  <2>6. Sess!Known' \subseteq Sess!Known
    BY <1>2, <1>3, <2>1 DEF Sess!Known, Sess!Held
  <2>. QED
    BY <2>3, <2>4, <2>5, <2>6, <1>3, BoundsKept
<1>. QED
  BY <1>4, <1>5

(* The order of use after a task has put a key at its end.                 *)
LEMMA PushStep ==
  ASSUME SessAssume, Sess!SessionsInv, NEW t \in SessionTasks, Sess!Push(t) \/ Sess!Touch(t)
  PROVE  Sess!SessionsInv'
<1>1. Sess!SessionTypes
  BY DEF Sess!SessionsInv
<1>2. /\ at \in [SessionTasks -> [pc : {"idle", "create", "push", "touch", "unlist"}, key : SessionKeys \union {"none"}]]
      /\ clone \in [SessionTasks -> Seq(Seq(SessionTasks))] /\ accessOrder \in Seq(SessionKeys)
  BY <1>1 DEF Sess!SessionTypes
<1>3. /\ at[t].pc \in {"push", "touch"} /\ at' = [at EXCEPT ![t] = [pc |-> "idle", key |-> at[t].key]]
      /\ UNCHANGED <<sessions, clone, removals>>
  BY DEF Sess!Push, Sess!Touch, Sess!At
<1>4. at[t].key \in SessionKeys
  BY <1>1, <1>3 DEF Sess!SessionTypes
<1>5. accessOrder' \in Seq(SessionKeys) /\ Range(accessOrder') = Range(accessOrder) \union {at[t].key}
  <2>1. PICK s : /\ s \in Seq(SessionKeys) /\ Range(s) \union {at[t].key} = Range(accessOrder) \union {at[t].key}
                 /\ accessOrder' = Append(s, at[t].key)
    <3>1. CASE Sess!Push(t)
      BY <3>1, <1>2 DEF Sess!Push
    <3>2. CASE Sess!Touch(t)
      <4>1. /\ Sess!Without(accessOrder, at[t].key) \in Seq(SessionKeys)
            /\ Range(Sess!Without(accessOrder, at[t].key)) = Range(accessOrder) \ {at[t].key}
        BY <1>2, WithoutElems
      <4>. QED
        BY <3>2, <4>1 DEF Sess!Touch, Sess!Unlist
    <3>. QED
      BY <3>1, <3>2
  <2>2. accessOrder' \in Seq(SessionKeys) /\ Len(accessOrder') = Len(s) + 1
        /\ \A i \in 1..Len(s) : accessOrder'[i] = s[i]
    BY <2>1, <1>4
  <2>3. accessOrder'[Len(s) + 1] = at[t].key
    BY <2>1, <1>4
  <2>4. Range(accessOrder') = Range(s) \union {at[t].key}
    BY <2>1, <2>2, <2>3 DEF Range
  <2>. QED
    BY <2>1, <2>2, <2>4
<1>6. Sess!SessionTypes'
  BY <1>1, <1>2, <1>3, <1>4, <1>5 DEF Sess!SessionTypes
<1>7. Sess!Stray' \subseteq Sess!Stray
  BY SessOps, <1>2, <1>3, <1>5 DEF Sess!Stray, Sess!Pending
<1>8. Sess!Unlisters' \subseteq Sess!Unlisters
  BY <1>2, <1>3 DEF Sess!Unlisters
<1>9. Sess!Known' \subseteq Sess!Known
  BY <1>2, <1>3 DEF Sess!Known, Sess!Held
<1>. QED
  BY <1>3, <1>6, <1>7, <1>8, <1>9, BoundsKept

LEMMA UpdateStep ==
  ASSUME SessAssume, Sess!SessionsInv, NEW t \in SessionTasks, Sess!Update(t)
  PROVE  Sess!SessionsInv'
<1>1. Sess!SessionTypes
  BY DEF Sess!SessionsInv
<1>2. /\ at \in [SessionTasks -> [pc : {"idle", "create", "push", "touch", "unlist"}, key : SessionKeys \union {"none"}]]
      /\ clone \in [SessionTasks -> Seq(Seq(SessionTasks))] /\ accessOrder \in Seq(SessionKeys)
  BY <1>1 DEF Sess!SessionTypes
<1>. DEFINE k == at[t].key
            h == Append(clone[t][1], t)
<1>3. /\ at[t].pc = "idle" /\ clone[t] # <<>>
      /\ sessions' = [x \in DOMAIN sessions \union {k} |-> IF x = k THEN Sess!Cut(h) ELSE sessions[x]]
      /\ clone' = [clone EXCEPT ![t] = <<>>]
      /\ at' = [at EXCEPT ![t] = [pc |-> "touch", key |-> k]]
      /\ UNCHANGED <<accessOrder, removals>>
  BY DEF Sess!Update, Sess!At
<1>4. k \in SessionKeys
  BY <1>1, <1>3 DEF Sess!SessionTypes
<1>5. Sess!Cut(h) \in Seq(SessionTasks) /\ Len(Sess!Cut(h)) <= MaxHistory
  <2>1. clone[t][1] \in Seq(SessionTasks)
    BY <1>2, <1>3
  <2>2. h \in Seq(SessionTasks) /\ Len(h) \in Nat
    BY <2>1
  <2>. HIDE DEF h
  <2>3. MaxHistory \in Nat
    BY DEF SessAssume
  <2>. QED
    BY <2>2, <2>3 DEF Sess!Cut
<1>6. DOMAIN sessions' = DOMAIN sessions \union {k}
  BY <1>3
<1>7. IsFiniteSet(DOMAIN sessions')
  <2>1. IsFiniteSet(DOMAIN sessions)
    BY SessOps, <1>1 DEF Sess!SessionTypes
  <2>2. IsFiniteSet(DOMAIN sessions \union {k})
    BY <2>1, AddSize
  <2>. QED
    BY <2>2, <1>6
<1>. HIDE DEF h
<1>8. Sess!SessionTypes'
  <2>1. \A x \in DOMAIN sessions' : sessions'[x] \in Seq(SessionTasks) /\ Len(sessions'[x]) <= MaxHistory
    BY <1>1, <1>3, <1>5, <1>6 DEF Sess!SessionTypes
  <2>2. /\ at' \in [SessionTasks -> [pc : {"idle", "create", "push", "touch", "unlist"}, key : SessionKeys \union {"none"}]]
        /\ \A u \in SessionTasks : /\ (at'[u].pc # "idle" \/ clone'[u] # <<>>) => at'[u].key \in SessionKeys
                          /\ at'[u].pc \in {"create", "unlist"} => clone'[u] = <<>>
    BY <1>1, <1>2, <1>3, <1>4 DEF Sess!SessionTypes
  <2>3. clone' \in [SessionTasks -> Seq(Seq(SessionTasks))]
    BY <1>2, <1>3
  <2>. QED
    BY SessOps, <1>1, <1>3, <1>4, <1>6, <1>7, <2>1, <2>2, <2>3 DEF Sess!SessionTypes
<1>9. Sess!Stray' \subseteq Sess!Stray
  <2>1. k \in Sess!Pending' /\ Sess!Pending \subseteq Sess!Pending'
    BY <1>2, <1>3 DEF Sess!Pending
  <2>. QED
    BY <1>3, <1>6, <2>1 DEF Sess!Stray
<1>10. Sess!Unlisters' \subseteq Sess!Unlisters
  BY <1>2, <1>3 DEF Sess!Unlisters
<1>11. Sess!Known' \subseteq Sess!Known
  BY <1>2, <1>3, <1>6 DEF Sess!Known, Sess!Held
<1>. QED
  BY <1>3, <1>8, <1>9, <1>10, <1>11, BoundsKept

(* A removal takes its session from the map first: it is one stray more at *)
(* most once the order has lost the key too.                               *)
LEMMA RemoveStep ==
  ASSUME SessAssume, Sess!SessionsInv, NEW t \in SessionTasks, NEW k \in SessionKeys, Sess!RemoveSession(t, k)
  PROVE  Sess!SessionsInv'
<1>1. Sess!SessionTypes
  BY DEF Sess!SessionsInv
<1>2. /\ at \in [SessionTasks -> [pc : {"idle", "create", "push", "touch", "unlist"}, key : SessionKeys \union {"none"}]]
      /\ clone \in [SessionTasks -> Seq(Seq(SessionTasks))] /\ accessOrder \in Seq(SessionKeys)
  BY <1>1 DEF Sess!SessionTypes
<1>3. /\ at[t].pc = "idle" /\ clone[t] = <<>> /\ removals' = removals + 1
      /\ sessions' = [x \in DOMAIN sessions \ {k} |-> sessions[x]]
      /\ at' = [at EXCEPT ![t] = [pc |-> "unlist", key |-> k]]
      /\ UNCHANGED <<accessOrder, clone>>
  BY DEF Sess!RemoveSession, Sess!At
<1>4. DOMAIN sessions' = DOMAIN sessions \ {k}
  BY <1>3
<1>5. IsFiniteSet(DOMAIN sessions')
  <2>1. IsFiniteSet(DOMAIN sessions)
    BY SessOps, <1>1 DEF Sess!SessionTypes
  <2>2. IsFiniteSet(DOMAIN sessions \ {k})
    BY <2>1, DropSize
  <2>. QED
    BY <2>2, <1>4
<1>6. Sess!SessionTypes'
  <2>1. \A x \in DOMAIN sessions' : sessions'[x] \in Seq(SessionTasks) /\ Len(sessions'[x]) <= MaxHistory
    BY <1>1, <1>3, <1>4 DEF Sess!SessionTypes
  <2>. QED
    BY SessOps, <1>1, <1>2, <1>3, <1>4, <1>5, <2>1 DEF Sess!SessionTypes
<1>7. Sess!Stray' \subseteq Sess!Stray
  BY <1>2, <1>3, <1>4 DEF Sess!Stray, Sess!Pending
<1>8. Sess!Unlisters' = Sess!Unlisters \union {t}
  BY <1>2, <1>3 DEF Sess!Unlisters
<1>9. Sess!Known' \subseteq Sess!Known
  BY <1>2, <1>3, <1>4 DEF Sess!Known, Sess!Held
<1>10. /\ IsFiniteSet(Sess!Stray) /\ Cardinality(Sess!Stray) \in Nat
       /\ IsFiniteSet(Sess!Unlisters) /\ Cardinality(Sess!Unlisters) \in Nat
       /\ IsFiniteSet(Sess!Known) /\ Cardinality(Sess!Known) \in Nat /\ Cardinality(SessionTasks) \in Nat
  BY <1>1, CountsFinite
<1>11. /\ Cardinality(Sess!Stray') \in Nat /\ Cardinality(Sess!Stray') <= Cardinality(Sess!Stray)
       /\ Cardinality(Sess!Known') \in Nat /\ Cardinality(Sess!Known') <= Cardinality(Sess!Known)
  BY <1>7, <1>9, <1>10, SubsetSize
<1>12. Cardinality(Sess!Unlisters') \in Nat /\ Cardinality(Sess!Unlisters') <= Cardinality(Sess!Unlisters) + 1
  BY <1>8, <1>10, AddSize
<1>13. removals \in Nat /\ MaxSessions \in Nat
  BY <1>1 DEF SessAssume, Sess!SessionTypes
<1>14. Cardinality(Sess!Stray') + Cardinality(Sess!Unlisters') <= removals'
  BY SessOps, <1>3, <1>10, <1>11, <1>12, <1>13 DEF Sess!SessionsInv, Sess!StrayBound
<1>15. Cardinality(Sess!Known') <= MaxSessions + (Cardinality(SessionTasks) - 1) + removals'
  BY SessOps, <1>3, <1>10, <1>11, <1>13 DEF Sess!SessionsInv, Sess!KnownBound
<1>. QED
  BY SessOps, <1>6, <1>14, <1>15 DEF Sess!SessionsInv, Sess!StrayBound, Sess!KnownBound

LEMMA RemoveOrderStep ==
  ASSUME SessAssume, Sess!SessionsInv, NEW t \in SessionTasks, Sess!RemoveOrder(t)
  PROVE  Sess!SessionsInv'
<1>1. Sess!SessionTypes
  BY DEF Sess!SessionsInv
<1>2. /\ at \in [SessionTasks -> [pc : {"idle", "create", "push", "touch", "unlist"}, key : SessionKeys \union {"none"}]]
      /\ clone \in [SessionTasks -> Seq(Seq(SessionTasks))] /\ accessOrder \in Seq(SessionKeys)
  BY <1>1 DEF Sess!SessionTypes
<1>. DEFINE k == at[t].key
<1>3. /\ at[t].pc = "unlist" /\ accessOrder' = Sess!Without(accessOrder, k)
      /\ at' = [at EXCEPT ![t] = [pc |-> "idle", key |-> k]]
      /\ UNCHANGED <<sessions, clone, removals>>
  BY DEF Sess!RemoveOrder, Sess!At, Sess!Unlist
<1>4. accessOrder' \in Seq(SessionKeys) /\ Range(accessOrder') = Range(accessOrder) \ {k}
  BY <1>2, <1>3, WithoutElems
<1>5. clone[t] = <<>> /\ k \in SessionKeys
  BY <1>1, <1>3 DEF Sess!SessionTypes
<1>6. Sess!SessionTypes'
  BY <1>1, <1>2, <1>3, <1>4, <1>5 DEF Sess!SessionTypes
<1>7. Sess!Stray' \subseteq Sess!Stray \union {k}
  BY SessOps, <1>2, <1>3, <1>4 DEF Sess!Stray, Sess!Pending
<1>8. Sess!Unlisters' = Sess!Unlisters \ {t} /\ t \in Sess!Unlisters
  BY <1>2, <1>3 DEF Sess!Unlisters
<1>9. Sess!Known' \subseteq Sess!Known
  BY <1>2, <1>3, <1>5 DEF Sess!Known, Sess!Held
<1>10. /\ IsFiniteSet(Sess!Stray) /\ Cardinality(Sess!Stray) \in Nat
       /\ IsFiniteSet(Sess!Unlisters) /\ Cardinality(Sess!Unlisters) \in Nat
       /\ IsFiniteSet(Sess!Known) /\ Cardinality(Sess!Known) \in Nat /\ Cardinality(SessionTasks) \in Nat
  BY <1>1, CountsFinite
<1>11. Cardinality(Sess!Stray') \in Nat /\ Cardinality(Sess!Stray') <= Cardinality(Sess!Stray) + 1
  <2>1. IsFiniteSet(Sess!Stray \union {k}) /\ Cardinality(Sess!Stray \union {k}) \in Nat
        /\ Cardinality(Sess!Stray \union {k}) <= Cardinality(Sess!Stray) + 1
    BY <1>10, AddSize
  <2>2. Cardinality(Sess!Stray') \in Nat /\ Cardinality(Sess!Stray') <= Cardinality(Sess!Stray \union {k})
    BY <1>7, <2>1, SubsetSize
  <2>. QED
    BY <2>1, <2>2, <1>10
<1>12. Cardinality(Sess!Unlisters') = Cardinality(Sess!Unlisters) - 1
  BY <1>8, <1>10, DropSize
<1>13. Cardinality(Sess!Known') \in Nat /\ Cardinality(Sess!Known') <= Cardinality(Sess!Known)
  BY <1>9, <1>10, SubsetSize
<1>14. removals \in Nat /\ MaxSessions \in Nat
  BY <1>1 DEF SessAssume, Sess!SessionTypes
<1>15. Cardinality(Sess!Stray') + Cardinality(Sess!Unlisters') <= removals'
  BY SessOps, <1>3, <1>10, <1>11, <1>12, <1>14 DEF Sess!SessionsInv, Sess!StrayBound
<1>16. Cardinality(Sess!Known') <= MaxSessions + (Cardinality(SessionTasks) - 1) + removals'
  BY SessOps, <1>3, <1>10, <1>13, <1>14 DEF Sess!SessionsInv, Sess!KnownBound
<1>. QED
  BY SessOps, <1>6, <1>15, <1>16 DEF Sess!SessionsInv, Sess!StrayBound, Sess!KnownBound

(* A creation keeps what the order still lists or what nothing lists; when *)
(* an eviction could not make room only strays and sessions in the hands   *)
(* of other tasks are left.                                                *)
LEMMA CreateStep ==
  ASSUME SessAssume, Sess!SessionsInv, NEW t \in SessionTasks, Sess!Create(t)
  PROVE  Sess!SessionsInv'
<1>1. Sess!SessionTypes
  BY DEF Sess!SessionsInv
<1>2. /\ at \in [SessionTasks -> [pc : {"idle", "create", "push", "touch", "unlist"}, key : SessionKeys \union {"none"}]]
      /\ clone \in [SessionTasks -> Seq(Seq(SessionTasks))] /\ accessOrder \in Seq(SessionKeys)
  BY <1>1 DEF Sess!SessionTypes
<1>. DEFINE k == at[t].key
            front == {accessOrder[i] : i \in 1..Sess!Evicted}
            keep == DOMAIN sessions \ front
<1>3. at[t].pc = "create" /\ removals' = removals /\ k \in SessionKeys /\ clone[t] = <<>>
  BY <1>1 DEF Sess!Create, Sess!SessionTypes
<1>4. CASE k \in DOMAIN sessions
  <2>1. /\ at' = [at EXCEPT ![t] = [pc |-> "touch", key |-> k]]
        /\ clone' = [clone EXCEPT ![t] = <<sessions[k]>>]
        /\ UNCHANGED <<sessions, accessOrder>>
    BY <1>4 DEF Sess!Create, Sess!At, Sess!Hold
  <2>2. <<sessions[k]>> \in Seq(Seq(SessionTasks))
    BY <1>1, <1>4 DEF Sess!SessionTypes
  <2>3. Sess!SessionTypes'
    BY <1>1, <1>2, <1>3, <2>1, <2>2 DEF Sess!SessionTypes
  <2>4. Sess!Stray' \subseteq Sess!Stray
    BY <1>2, <1>3, <2>1 DEF Sess!Stray, Sess!Pending
  <2>5. Sess!Unlisters' \subseteq Sess!Unlisters
    BY <1>2, <1>3, <2>1 DEF Sess!Unlisters
  <2>6. Sess!Known' \subseteq Sess!Known
    BY <1>2, <1>3, <1>4, <2>1 DEF Sess!Known, Sess!Held
  <2>. QED
    BY <2>3, <2>4, <2>5, <2>6, <1>3, BoundsKept
<1>5. CASE k \notin DOMAIN sessions
  <2>1. /\ sessions' = [x \in keep \union {k} |-> IF x = k THEN <<>> ELSE sessions[x]]
        /\ accessOrder' = SubSeq(accessOrder, Sess!Evicted + 1, Len(accessOrder))
        /\ at' = [at EXCEPT ![t] = [pc |-> "push", key |-> k]]
        /\ clone' = [clone EXCEPT ![t] = << <<>> >>]
    BY <1>5 DEF Sess!Create, Sess!At, Sess!Hold
  <2>2. /\ Sess!Evicted \in 0..Len(accessOrder)
        /\ Cardinality(keep) < MaxSessions \/ Sess!Evicted = Len(accessOrder)
    BY <1>1, EvictedRoom
  <2>3. accessOrder' \in Seq(SessionKeys) /\ Range(accessOrder) = front \union Range(accessOrder')
    <3>1. Len(accessOrder) \in Nat /\ \A i \in 1..Len(accessOrder) : accessOrder[i] \in SessionKeys
      BY <1>2
    <3>2. accessOrder' \in Seq(SessionKeys) /\ Len(accessOrder') = Len(accessOrder) - Sess!Evicted
      BY <1>2, <2>1, <2>2, <3>1
    <3>3. \A i \in 1..(Len(accessOrder) - Sess!Evicted) : accessOrder'[i] = accessOrder[Sess!Evicted + i]
      BY <1>2, <2>1, <2>2, <3>1
    <3>4. Range(accessOrder') = {accessOrder'[i] : i \in 1..(Len(accessOrder) - Sess!Evicted)}
      BY <3>2 DEF Range
    <3>5. Range(accessOrder) = {accessOrder[i] : i \in 1..Len(accessOrder)}
      <4>1. DOMAIN accessOrder = 1..Len(accessOrder)
        BY <1>2
      <4>. QED
        BY <4>1, Zenon DEF Range
    <3>6. ASSUME NEW x \in Range(accessOrder) PROVE x \in front \union Range(accessOrder')
      <4>1. PICK i \in 1..Len(accessOrder) : x = accessOrder[i]
        BY <3>5, <3>6
      <4>2. CASE i <= Sess!Evicted
        BY <2>2, <4>1, <4>2
      <4>3. CASE i > Sess!Evicted
        <5>1. i - Sess!Evicted \in 1..(Len(accessOrder) - Sess!Evicted) /\ Sess!Evicted + (i - Sess!Evicted) = i
          BY <2>2, <3>1, <4>3
        <5>2. accessOrder'[i - Sess!Evicted] = x
          BY <3>3, <4>1, <5>1
        <5>. QED
          BY <3>4, <5>1, <5>2
      <4>. QED
        BY <2>2, <3>1, <4>2, <4>3
    <3>7. front \subseteq Range(accessOrder)
      BY <2>2, <3>1, <3>5
    <3>8. Range(accessOrder') \subseteq Range(accessOrder)
      <4>. SUFFICES ASSUME NEW i \in 1..(Len(accessOrder) - Sess!Evicted)
                    PROVE  accessOrder'[i] \in Range(accessOrder)
        BY <3>4
      <4>1. Sess!Evicted + i \in 1..Len(accessOrder)
        BY <2>2, <3>1
      <4>. QED
        BY <3>3, <3>5, <4>1
    <3>. QED
      BY <3>2, <3>6, <3>7, <3>8
  <2>4. DOMAIN sessions' = keep \union {k}
    BY <2>1
  <2>. HIDE DEF front
  <2>5. IsFiniteSet(DOMAIN sessions) /\ keep \subseteq DOMAIN sessions
    BY SessOps, <1>1 DEF Sess!SessionTypes
  <2>6. IsFiniteSet(keep) /\ Cardinality(keep) \in Nat
    BY <2>5, SubsetSize
  <2>7. Sess!SessionTypes'
    <3>1. IsFiniteSet(keep \union {k})
      BY <2>6, AddSize
    <3>2. \A x \in keep : sessions[x] \in Seq(SessionTasks) /\ Len(sessions[x]) <= MaxHistory /\ x \in SessionKeys
      BY <1>1, <2>5 DEF Sess!SessionTypes
    <3>3. <<>> \in Seq(SessionTasks) /\ Len(<<>>) <= MaxHistory
      BY DEF SessAssume
    <3>4. \A x \in DOMAIN sessions' : sessions'[x] \in Seq(SessionTasks) /\ Len(sessions'[x]) <= MaxHistory
      BY <2>1, <2>4, <3>2, <3>3
    <3>5. << <<>> >> \in Seq(Seq(SessionTasks))
      OBVIOUS
    <3>6. /\ at' \in [SessionTasks -> [pc : {"idle", "create", "push", "touch", "unlist"}, key : SessionKeys \union {"none"}]]
          /\ clone' \in [SessionTasks -> Seq(Seq(SessionTasks))]
      BY <1>2, <1>3, <2>1, <3>5
    <3>7. \A u \in SessionTasks : /\ (at'[u].pc # "idle" \/ clone'[u] # <<>>) => at'[u].key \in SessionKeys
                                  /\ at'[u].pc \in {"create", "unlist"} => clone'[u] = <<>>
      BY <1>1, <1>2, <1>3, <2>1 DEF Sess!SessionTypes
    <3>8. DOMAIN sessions' \subseteq SessionKeys
      BY <2>4, <3>2, <1>3
    <3>. QED
      BY SessOps, <1>1, <1>3, <2>3, <2>4, <3>1, <3>4, <3>6, <3>7, <3>8 DEF Sess!SessionTypes
  <2>8. Sess!Pending' = Sess!Pending \union {k}
    BY <1>2, <1>3, <2>1 DEF Sess!Pending
  <2>9. Sess!Stray' \subseteq Sess!Stray
    BY SessOps, <2>3, <2>4, <2>8 DEF Sess!Stray
  <2>10. Sess!Unlisters' \subseteq Sess!Unlisters
    BY <1>2, <1>3, <2>1 DEF Sess!Unlisters
  <2>. DEFINE others == {at[u].key : u \in SessionTasks \ {t}}
  <2>11. IsFiniteSet(others) /\ Cardinality(others) <= Cardinality(SessionTasks) - 1
         /\ Cardinality(others) \in Nat /\ Cardinality(SessionTasks) \in Nat
    <3>. DEFINE rest == SessionTasks \ {t}
                key == [u \in rest |-> at[u].key]
    <3>1. IsFiniteSet(rest) /\ Cardinality(rest) = Cardinality(SessionTasks) - 1
      BY DropSize DEF SessAssume
    <3>2. others = {key[u] : u \in rest}
      OBVIOUS
    <3>. HIDE DEF rest, key, others
    <3>3. IsFiniteSet({key[u] : u \in rest}) /\ Cardinality({key[u] : u \in rest}) <= Cardinality(rest)
      BY <3>1, ImageSize
    <3>. QED
      BY <3>1, <3>2, <3>3, FS_CardinalityType DEF SessAssume
  <2>12. Sess!Held' \subseteq others \union {k}
    BY <1>2, <2>1 DEF Sess!Held
  <2>13. Sess!Pending \subseteq others
    BY <1>2, <1>3 DEF Sess!Pending
  <2>. HIDE DEF others, keep
  <2>14. Cardinality(Sess!Known') <= MaxSessions + (Cardinality(SessionTasks) - 1) + removals
         /\ Cardinality(Sess!Known') \in Nat
    <3>1. removals \in Nat /\ MaxSessions \in Nat \ {0}
      BY <1>1 DEF SessAssume, Sess!SessionTypes
    <3>2. /\ IsFiniteSet(others \union {k}) /\ Cardinality(others \union {k}) \in Nat
          /\ Cardinality(others \union {k}) <= Cardinality(others) + 1
      BY <2>11, AddSize
    <3>3. CASE Cardinality(keep) < MaxSessions
      <4>1. Sess!Known' \subseteq keep \union (others \union {k})
        BY <2>4, <2>12 DEF Sess!Known
      <4>2. /\ IsFiniteSet(keep \union (others \union {k}))
            /\ Cardinality(keep \union (others \union {k})) <= Cardinality(keep) + Cardinality(others \union {k})
        BY <2>6, <3>2, UnionSize
      <4>3. /\ Cardinality(Sess!Known') <= Cardinality(keep \union (others \union {k}))
            /\ Cardinality(Sess!Known') \in Nat
            /\ Cardinality(keep \union (others \union {k})) \in Nat
        BY <4>1, <4>2, SubsetSize
      <4>. QED
        BY <2>6, <2>11, <3>1, <3>2, <3>3, <4>2, <4>3
    <3>4. CASE Sess!Evicted = Len(accessOrder)
      <4>1. keep \subseteq Sess!Stray \union others
        <5>1. Range(accessOrder) = front
          <6>1. Range(accessOrder) = {accessOrder[i] : i \in 1..Len(accessOrder)}
            <7>1. DOMAIN accessOrder = 1..Len(accessOrder)
              BY <1>2
            <7>. QED
              BY <7>1, Zenon DEF Range
          <6>. QED
            BY <6>1, <3>4 DEF front
        <5>. QED
          BY SessOps, <5>1, <2>13 DEF keep, Sess!Stray
      <4>2. Sess!Known' \subseteq Sess!Stray \union (others \union {k})
        BY <2>4, <2>12, <4>1 DEF Sess!Known
      <4>3. IsFiniteSet(Sess!Stray) /\ Cardinality(Sess!Stray) \in Nat /\ Cardinality(Sess!Stray) <= removals
        BY SessOps, <1>1, <3>1, CountsFinite DEF Sess!SessionsInv, Sess!StrayBound
      <4>4. /\ IsFiniteSet(Sess!Stray \union (others \union {k}))
            /\ Cardinality(Sess!Stray \union (others \union {k})) <= Cardinality(Sess!Stray) + Cardinality(others \union {k})
        BY <4>3, <3>2, UnionSize
      <4>5. /\ Cardinality(Sess!Known') <= Cardinality(Sess!Stray \union (others \union {k}))
            /\ Cardinality(Sess!Known') \in Nat
            /\ Cardinality(Sess!Stray \union (others \union {k})) \in Nat
        BY <4>2, <4>4, SubsetSize
      <4>. QED
        BY <2>11, <3>1, <3>2, <4>3, <4>4, <4>5
    <3>. QED
      BY <2>2, <3>3, <3>4
  <2>15. Sess!StrayBound'
    <3>1. /\ IsFiniteSet(Sess!Stray) /\ Cardinality(Sess!Stray) \in Nat
          /\ IsFiniteSet(Sess!Unlisters) /\ Cardinality(Sess!Unlisters) \in Nat
      BY <1>1, CountsFinite
    <3>2. /\ Cardinality(Sess!Stray') <= Cardinality(Sess!Stray) /\ Cardinality(Sess!Stray') \in Nat
          /\ Cardinality(Sess!Unlisters') <= Cardinality(Sess!Unlisters) /\ Cardinality(Sess!Unlisters') \in Nat
      BY <2>9, <2>10, <3>1, SubsetSize
    <3>3. removals \in Nat
      BY <1>1 DEF Sess!SessionTypes
    <3>. QED
      BY SessOps, <1>3, <3>1, <3>2, <3>3 DEF Sess!SessionsInv, Sess!StrayBound
  <2>16. Sess!KnownBound'
    BY SessOps, <1>3, <2>14 DEF Sess!KnownBound
  <2>. QED
    BY <2>7, <2>15, <2>16 DEF Sess!SessionsInv
<1>. QED
  BY <1>4, <1>5

LEMMA SessionsInvariant ==
  ASSUME SessAssume
  PROVE  Sess!Spec => []Sess!SessionsInv
<1>1. Sess!SessionsInv /\ [Sess!Next]_Sess!sessionVars => Sess!SessionsInv'
  <2>. SUFFICES ASSUME Sess!SessionsInv, [Sess!Next]_Sess!sessionVars PROVE Sess!SessionsInv'
    OBVIOUS
  <2>1. CASE Sess!Next
    <3>. PICK t \in SessionTasks : \/ \E k \in SessionKeys : Sess!Get(t, k) \/ Sess!RemoveSession(t, k)
                                   \/ Sess!Create(t) \/ Sess!Push(t) \/ Sess!Touch(t) \/ Sess!Update(t) \/ Sess!RemoveOrder(t)
      BY <2>1 DEF Sess!Next
    <3>. QED
      BY GetStep, RemoveStep, CreateStep, PushStep, UpdateStep, RemoveOrderStep
  <2>2. CASE UNCHANGED Sess!sessionVars
    BY <2>2 DEF Sess!sessionVars, Sess!SessionsInv, Sess!SessionTypes, Sess!StrayBound, Sess!KnownBound, Sess!Stray, Sess!Pending,
                Sess!Unlisters, Sess!Known, Sess!Held
  <2>. QED
    BY <2>1, <2>2
<1>2. Sess!Init => Sess!SessionsInv
  BY InitSessions
<1>. QED
  BY <1>1, <1>2, PTL DEF Sess!Spec

(* What the invariant means for the manager.                               *)
LEMMA SessionsFollow ==
  ASSUME SessAssume, Sess!SessionsInv
  PROVE  Sess!TypeOK /\ Sess!SessionsBounded /\ Sess!EverySessionListed
<1>1. Sess!SessionTypes
  BY DEF Sess!SessionsInv
<1>2. Sess!TypeOK
  BY <1>1 DEF Sess!SessionTypes, Sess!TypeOK
<1>3. Sess!SessionsBounded
  <2>1. DOMAIN sessions \subseteq Sess!Known
    BY DEF Sess!Known
  <2>2. IsFiniteSet(Sess!Known) /\ Cardinality(Sess!Known) \in Nat /\ Cardinality(SessionTasks) \in Nat
    BY <1>1, CountsFinite
  <2>3. Cardinality(DOMAIN sessions) <= Cardinality(Sess!Known) /\ Cardinality(DOMAIN sessions) \in Nat
    BY <2>1, <2>2, SubsetSize
  <2>4. removals \in Nat /\ MaxSessions \in Nat
    BY <1>1 DEF SessAssume, Sess!SessionTypes
  <2>. QED
    BY SessOps, <2>2, <2>3, <2>4 DEF Sess!SessionsInv, Sess!KnownBound, Sess!SessionsBounded
<1>4. Sess!EverySessionListed
  <2>. SUFFICES ASSUME removals = 0, \A t \in SessionTasks : at[t].pc = "idle"
                PROVE  DOMAIN sessions \subseteq Range(accessOrder)
    BY SessOps DEF Sess!EverySessionListed
  <2>1. /\ IsFiniteSet(Sess!Stray) /\ Cardinality(Sess!Stray) \in Nat /\ Cardinality(Sess!Unlisters) \in Nat
    BY <1>1, CountsFinite
  <2>2. Cardinality(Sess!Stray) = 0
    BY SessOps, <2>1 DEF Sess!SessionsInv, Sess!StrayBound
  <2>3. Sess!Stray = {}
    BY <2>1, <2>2, FS_EmptySet
  <2>4. Sess!Pending = {}
    BY DEF Sess!Pending
  <2>. QED
    BY SessOps, <2>3, <2>4 DEF Sess!Stray
<1>. QED
  BY <1>2, <1>3, <1>4

-----------------------------------------------------------------------------
(* OAuthIdentityManager.                                                   *)

LEMMA RequestCases ==
  ASSUME NEW r \in Ident!Requests
  PROVE  \/ r = Ident!Free
         \/ r.op = "exchange" /\ r \in [op : {"exchange"}, flow : Nat]
         \/ r.op = "refresh" /\ r \in [op : {"refresh"}, user : LoginUsers, provider : LoginProviders, with : Nat]
BY DEF Ident!Requests

LEMMA InitIdentity == Ident!Init => Ident!IdentityInv
<1>. SUFFICES ASSUME Ident!Init PROVE Ident!IdentityInv
  OBVIOUS
<1>1. Ident!IdentityTypes
  BY DEF Ident!Init, Ident!IdentityTypes, Ident!NoOauth, Ident!Requests
<1>2. Ident!TakenOnce
  BY DEF Ident!Init, Ident!TakenOnce, Ident!OneExchange
<1>3. Ident!Genuine
  BY DEF Ident!Init, Ident!Genuine, Ident!NoOauth, Ident!Free
<1>. QED
  BY <1>1, <1>2, <1>3 DEF Ident!IdentityInv

(* Logins are forever: flows and exchanges are only added to.              *)
LEMMA OwnLoginStays ==
  ASSUME NEW u, NEW p, NEW s, Ident!OwnLogin(u, p, s),
         \A i \in DOMAIN flows : i \in DOMAIN flows' /\ flows'[i].user = flows[i].user
                                   /\ flows'[i].provider = flows[i].provider,
         \A i \in DOMAIN exchanged : i \in DOMAIN exchanged' /\ exchanged'[i] = exchanged[i],
         users[u] # "none" => users'[u] # "none"
  PROVE  Ident!OwnLogin(u, p, s)'
BY DEF Ident!OwnLogin, Ident!Sent

LEMMA FlowStep ==
  ASSUME Ident!IdentityInv,
         \/ \E u \in LoginUsers, p \in LoginProviders : Ident!StartFlow(u, p)
         \/ \E s \in DOMAIN flows : Ident!ExpireFlow(s)
  PROVE  Ident!IdentityInv'
<1>1. /\ flows \in Seq(Ident!Flow) /\ exchanged \in Seq(Nat)
      /\ users \in [LoginUsers -> LoginChannels \union {"none"}]
  BY DEF Ident!IdentityInv, Ident!IdentityTypes
<1>2. UNCHANGED <<users, oauth, request, exchanged>>
  BY DEF Ident!StartFlow, Ident!ExpireFlow
<1>3. /\ flows' \in Seq(Ident!Flow)
      /\ \A i \in DOMAIN flows : /\ i \in DOMAIN flows' /\ flows'[i].user = flows[i].user
                                 /\ flows'[i].provider = flows[i].provider
                                 /\ flows[i].stage = "taken" => flows'[i].stage = "taken"
  <2>1. CASE \E u \in LoginUsers, p \in LoginProviders : Ident!StartFlow(u, p)
    <3>. PICK u \in LoginUsers, p \in LoginProviders : Ident!StartFlow(u, p)
      BY <2>1
    <3>1. [user |-> u, provider |-> p, stage |-> "pending"] \in Ident!Flow
      BY DEF Ident!Flow
    <3>. QED
      BY <1>1, <3>1 DEF Ident!StartFlow
  <2>2. CASE \E s \in DOMAIN flows : Ident!ExpireFlow(s)
    <3>. PICK s \in DOMAIN flows : Ident!ExpireFlow(s)
      BY <2>2
    <3>1. flows[s] \in Ident!Flow
      BY <1>1
    <3>2. [flows[s] EXCEPT !.stage = "stale"] \in Ident!Flow
      BY <3>1 DEF Ident!Flow
    <3>3. \A i \in DOMAIN flows : flows[i] \in Ident!Flow
      BY <1>1
    <3>. QED
      BY <1>1, <3>1, <3>2, <3>3 DEF Ident!ExpireFlow, Ident!Flow
  <2>. QED
    BY <2>1, <2>2
<1>4. Ident!IdentityTypes'
  BY <1>2, <1>3 DEF Ident!IdentityInv, Ident!IdentityTypes
<1>5. Ident!TakenOnce'
  BY <1>2, <1>3 DEF Ident!IdentityInv, Ident!TakenOnce, Ident!OneExchange
<1>6. Ident!Genuine'
  BY <1>2, <1>3, OwnLoginStays DEF Ident!IdentityInv, Ident!Genuine, Ident!Sent
<1>. QED
  BY <1>4, <1>5, <1>6 DEF Ident!IdentityInv

LEMMA RegisterStep ==
  ASSUME Ident!IdentityInv, NEW u \in LoginUsers, NEW ch \in LoginChannels, Ident!RegisterUser(u, ch)
  PROVE  Ident!IdentityInv'
<1>1. UNCHANGED <<oauth, flows, request, exchanged>>
  BY DEF Ident!RegisterUser
<1>2. \A v : users[v] # "none" => users'[v] # "none"
  BY DEF Ident!RegisterUser, Ident!IdentityInv, Ident!IdentityTypes
<1>3. Ident!IdentityTypes'
  BY DEF Ident!RegisterUser, Ident!IdentityInv, Ident!IdentityTypes
<1>4. Ident!TakenOnce'
  BY <1>1 DEF Ident!IdentityInv, Ident!TakenOnce, Ident!OneExchange
<1>5. Ident!Genuine'
  BY <1>1, <1>2, OwnLoginStays DEF Ident!IdentityInv, Ident!Genuine, Ident!Sent
<1>. QED
  BY <1>3, <1>4, <1>5 DEF Ident!IdentityInv

LEMMA CallbackStep ==
  ASSUME Ident!IdentityInv, NEW c \in LoginCallers, NEW s \in DOMAIN flows, Ident!Callback(c, s)
  PROVE  Ident!IdentityInv'
<1>1. /\ flows \in Seq(Ident!Flow) /\ exchanged \in Seq(Nat) /\ request \in [LoginCallers -> Ident!Requests]
      /\ s \in Nat
  BY DEF Ident!IdentityInv, Ident!IdentityTypes
<1>2. UNCHANGED <<users, oauth>>
  BY DEF Ident!Callback
<1>3. /\ flows' \in Seq(Ident!Flow) /\ DOMAIN flows' = DOMAIN flows
      /\ \A i \in DOMAIN flows : /\ flows'[i].user = flows[i].user
                                 /\ flows'[i].provider = flows[i].provider
                                 /\ flows[i].stage = "taken" \/ i = s => flows'[i].stage = "taken"
  <2>1. \A i \in DOMAIN flows : flows[i] \in Ident!Flow
    BY <1>1
  <2>2. [flows[s] EXCEPT !.stage = "taken"] \in Ident!Flow
    BY <2>1 DEF Ident!Flow
  <2>. QED
    BY <1>1, <2>1, <2>2 DEF Ident!Callback, Ident!TakeFlow, Ident!Flow
<1>4. /\ exchanged' \in Seq(Nat)
      /\ \A i \in DOMAIN exchanged : i \in DOMAIN exchanged' /\ exchanged'[i] = exchanged[i]
  <2>1. exchanged' = exchanged \/ exchanged' = Append(exchanged, s)
    BY DEF Ident!Callback
  <2>2. CASE exchanged' = exchanged
    BY <1>1, <2>2
  <2>3. CASE exchanged' = Append(exchanged, s)
    BY <1>1, <2>3
  <2>. QED
    BY <2>1, <2>2, <2>3
<1>5. request' \in [LoginCallers -> Ident!Requests]
  BY <1>1 DEF Ident!Callback, Ident!Requests
<1>6. Ident!IdentityTypes'
  BY <1>2, <1>3, <1>4, <1>5 DEF Ident!IdentityInv, Ident!IdentityTypes
<1>7. Ident!TakenOnce'
  <2>1. flows[s].stage # "taken"
    BY DEF Ident!Callback
  <2>2. \A i \in DOMAIN exchanged : exchanged[i] # s
    BY <2>1 DEF Ident!IdentityInv, Ident!TakenOnce
  <2>3. CASE exchanged' = exchanged
    BY <2>3, <1>3 DEF Ident!IdentityInv, Ident!TakenOnce, Ident!OneExchange
  <2>4. CASE exchanged' = Append(exchanged, s)
    <3>1. \A i \in DOMAIN exchanged' :
            \/ i \in DOMAIN exchanged /\ exchanged'[i] = exchanged[i]
            \/ i = Len(exchanged) + 1 /\ exchanged'[i] = s
      BY <2>4, <1>1
    <3>. QED
      BY <3>1, <2>2, <1>3 DEF Ident!IdentityInv, Ident!TakenOnce, Ident!OneExchange
  <2>. QED
    BY <2>3, <2>4 DEF Ident!Callback
<1>8. Ident!Genuine'
  <2>1. \A u, p, l : Ident!OwnLogin(u, p, l) => Ident!OwnLogin(u, p, l)'
    BY <1>2, <1>3, <1>4, OwnLoginStays
  <2>2. \A l : Ident!Sent(l) => Ident!Sent(l)'
    BY <1>4 DEF Ident!Sent
  <2>3. \A d \in LoginCallers : 
          \/ request'[d] = request[d]
          \/ request'[d] = [op |-> "exchange", flow |-> s] /\ Ident!Sent(s)'
    BY <1>1, <1>4 DEF Ident!Callback, Ident!Sent
  <2>4. \A d \in LoginCallers :
          (/\ request[d].op = "exchange" => Ident!Sent(request[d].flow)
           /\ request[d].op = "refresh" =>
                Ident!OwnLogin(request[d].user, request[d].provider, request[d].with))'
    <3>. SUFFICES ASSUME NEW d \in LoginCallers
                  PROVE  (/\ request[d].op = "exchange" => Ident!Sent(request[d].flow)
                          /\ request[d].op = "refresh" =>
                               Ident!OwnLogin(request[d].user, request[d].provider, request[d].with))'
      OBVIOUS
    <3>1. CASE request'[d] = request[d]
      BY <3>1, <2>1, <2>2 DEF Ident!IdentityInv, Ident!Genuine
    <3>2. CASE request'[d] = [op |-> "exchange", flow |-> s] /\ Ident!Sent(s)'
      BY <3>2
    <3>. QED
      BY <3>1, <3>2, <2>3
  <2>. QED
    BY <2>1, <2>4, <1>2 DEF Ident!IdentityInv, Ident!Genuine
<1>. QED
  BY <1>6, <1>7, <1>8 DEF Ident!IdentityInv

(* The answers of the provider and the reading of a token.                 *)
LEMMA AnswerStep ==
  ASSUME Ident!IdentityInv, NEW c \in LoginCallers,
         \/ \E b \in BOOLEAN : Ident!Exchanged(c, b)
         \/ \E u \in LoginUsers, p \in LoginProviders : Ident!Refresh(c, u, p)
         \/ Ident!Refreshed(c) \/ Ident!HttpError(c)
  PROVE  Ident!IdentityInv'
<1>1. UNCHANGED <<users, flows, exchanged>>
  BY DEF Ident!Exchanged, Ident!Refresh, Ident!Refreshed, Ident!HttpError
<1>2. /\ oauth \in [LoginUsers \X LoginProviders -> [flow : Nat, refresh : Nat]]
      /\ request \in [LoginCallers -> Ident!Requests]
      /\ flows \in Seq(Ident!Flow)
  BY DEF Ident!IdentityInv, Ident!IdentityTypes
<1>3. /\ \A u, p, s : Ident!OwnLogin(u, p, s)' <=> Ident!OwnLogin(u, p, s)
      /\ \A s : Ident!Sent(s)' <=> Ident!Sent(s)
  BY <1>1 DEF Ident!OwnLogin, Ident!Sent
<1>4. Ident!TakenOnce'
  BY <1>1 DEF Ident!IdentityInv, Ident!TakenOnce, Ident!OneExchange
<1>5. CASE UNCHANGED oauth /\ request' = [request EXCEPT ![c] = Ident!Free]
  <2>1. Ident!IdentityTypes'
    BY <1>1, <1>2, <1>5 DEF Ident!IdentityInv, Ident!IdentityTypes, Ident!Requests
  <2>2. Ident!Genuine'
    BY <1>2, <1>3, <1>5 DEF Ident!IdentityInv, Ident!Genuine, Ident!Free
  <2>. QED
    BY <2>1, <2>2, <1>4 DEF Ident!IdentityInv
<1>6. ASSUME NEW u \in LoginUsers, NEW p \in LoginProviders, Ident!Refresh(c, u, p)
      PROVE  Ident!IdentityInv'
  <2>1. /\ oauth' = oauth
        /\ request' = [request EXCEPT ![c] = [op |-> "refresh", user |-> u, provider |-> p,
                                              with |-> oauth[<<u, p>>].refresh]]
        /\ oauth[<<u, p>>].refresh # 0
    BY <1>6 DEF Ident!Refresh
  <2>2. <<u, p>> \in LoginUsers \X LoginProviders
    OBVIOUS
  <2>3. oauth[<<u, p>>].refresh \in Nat
    BY <2>2, <1>2
  <2>4. Ident!IdentityTypes'
    BY <1>1, <1>2, <2>1, <2>3 DEF Ident!IdentityInv, Ident!IdentityTypes, Ident!Requests
  <2>5. Ident!OwnLogin(u, p, oauth[<<u, p>>].refresh)
    BY <2>1 DEF Ident!IdentityInv, Ident!Genuine
  <2>6. Ident!Genuine'
    BY <1>2, <1>3, <2>1, <2>5 DEF Ident!IdentityInv, Ident!Genuine
  <2>. QED
    BY <2>4, <2>6, <1>4 DEF Ident!IdentityInv
<1>7. ASSUME NEW u \in LoginUsers, NEW p \in LoginProviders, NEW s \in Nat, NEW r \in Nat,
             Ident!OwnLogin(u, p, s), r \in {0, s},
             oauth' = [oauth EXCEPT ![<<u, p>>] = [flow |-> s, refresh |-> r]],
             request' = [request EXCEPT ![c] = Ident!Free]
      PROVE  Ident!IdentityInv'
  <2>1. Ident!IdentityTypes'
    BY <1>1, <1>2, <1>7 DEF Ident!IdentityInv, Ident!IdentityTypes, Ident!Requests
  <2>2. \A v \in LoginUsers, q \in LoginProviders :
          \/ oauth'[<<v, q>>] = oauth[<<v, q>>]
          \/ v = u /\ q = p /\ oauth'[<<v, q>>] = [flow |-> s, refresh |-> r]
    BY <1>2, <1>7
  <2>3. \A v \in LoginUsers, q \in LoginProviders :
          (/\ oauth[<<v, q>>].flow # 0 => Ident!OwnLogin(v, q, oauth[<<v, q>>].flow)
           /\ oauth[<<v, q>>].refresh # 0 => Ident!OwnLogin(v, q, oauth[<<v, q>>].refresh))'
    <3>. SUFFICES ASSUME NEW v \in LoginUsers, NEW q \in LoginProviders
                  PROVE  (/\ oauth[<<v, q>>].flow # 0 => Ident!OwnLogin(v, q, oauth[<<v, q>>].flow)
                          /\ oauth[<<v, q>>].refresh # 0 => Ident!OwnLogin(v, q, oauth[<<v, q>>].refresh))'
      OBVIOUS
    <3>1. CASE oauth'[<<v, q>>] = oauth[<<v, q>>]
      BY <3>1, <1>3 DEF Ident!IdentityInv, Ident!Genuine
    <3>2. CASE v = u /\ q = p /\ oauth'[<<v, q>>] = [flow |-> s, refresh |-> r]
      BY <3>2, <1>3, <1>7
    <3>. QED
      BY <3>1, <3>2, <2>2
  <2>4. Ident!Genuine'
    BY <1>2, <1>3, <1>7, <2>3 DEF Ident!IdentityInv, Ident!Genuine, Ident!Free
  <2>. QED
    BY <2>1, <2>4, <1>4 DEF Ident!IdentityInv
<1>8. ASSUME NEW b \in BOOLEAN, Ident!Exchanged(c, b)
      PROVE  Ident!IdentityInv'
  <2>1. request[c].op = "exchange" /\ request' = [request EXCEPT ![c] = Ident!Free]
    BY <1>8 DEF Ident!Exchanged
  <2>2. CASE users[flows[request[c].flow].user] = "none"
    BY <1>5, <1>8, <2>1, <2>2 DEF Ident!Exchanged, Ident!Owner
  <2>3. CASE users[flows[request[c].flow].user] # "none"
    <3>. DEFINE s == request[c].flow
                u == flows[s].user
                p == flows[s].provider
                r == IF b THEN s ELSE 0
    <3>1. oauth' = [oauth EXCEPT ![<<u, p>>] = [flow |-> s, refresh |-> r]]
      BY <1>8, <2>3 DEF Ident!Exchanged, Ident!Owner
    <3>2. Ident!Sent(s)
      BY <2>1 DEF Ident!IdentityInv, Ident!Genuine
    <3>3. s \in DOMAIN flows
      BY <3>2 DEF Ident!Sent, Ident!IdentityInv, Ident!TakenOnce
    <3>4. s \in Nat /\ u \in LoginUsers /\ p \in LoginProviders
      <4>1. flows[s] \in Ident!Flow /\ s \in Nat
        BY <3>3, <1>2
      <4>. QED
        BY <4>1 DEF Ident!Flow
    <3>5. Ident!OwnLogin(u, p, s)
      BY <3>2, <3>3, <2>3 DEF Ident!OwnLogin
    <3>6. r \in Nat /\ r \in {0, s}
      BY <3>4
    <3>. HIDE DEF s, u, p, r
    <3>. QED
      BY <3>1, <3>4, <3>5, <3>6, <2>1, <1>7
  <2>. QED
    BY <2>2, <2>3
<1>9. ASSUME Ident!Refreshed(c)
      PROVE  Ident!IdentityInv'
  <2>1. request[c].op = "refresh"
    BY <1>9 DEF Ident!Refreshed
  <2>2. request[c] \in [op : {"refresh"}, user : LoginUsers, provider : LoginProviders, with : Nat]
    BY <2>1, <1>2, RequestCases DEF Ident!Free
  <2>3. Ident!OwnLogin(request[c].user, request[c].provider, request[c].with)
    BY <2>1 DEF Ident!IdentityInv, Ident!Genuine
  <2>4. request[c].user \in LoginUsers /\ request[c].provider \in LoginProviders /\ request[c].with \in Nat
    BY <2>2
  <2>. QED
    BY <1>7, <1>9, <2>3, <2>4 DEF Ident!Refreshed
<1>. QED
  BY <1>5, <1>6, <1>8, <1>9 DEF Ident!HttpError

LEMMA IdentityInvariant == Ident!Spec => []Ident!IdentityInv
<1>1. Ident!IdentityInv /\ [Ident!Next]_Ident!identityVars => Ident!IdentityInv'
  <2>. SUFFICES ASSUME Ident!IdentityInv, [Ident!Next]_Ident!identityVars PROVE Ident!IdentityInv'
    OBVIOUS
  <2>1. CASE UNCHANGED Ident!identityVars
    BY <2>1 DEF Ident!identityVars, Ident!IdentityInv, Ident!IdentityTypes, Ident!TakenOnce, Ident!OneExchange, Ident!Genuine, Ident!Sent, Ident!OwnLogin
  <2>. QED
    BY <2>1, FlowStep, RegisterStep, CallbackStep, AnswerStep DEF Ident!Next
<1>. QED
  BY <1>1, InitIdentity, PTL DEF Ident!Spec

(* Whatever callbacks and refreshes overlap, the code of a login is sent     *)
(* once, and a token stems from a login its own user began.                  *)
THEOREM LoginsAreOwn == Ident!Spec => [](Ident!TypeOK /\ Ident!OneExchange /\ Ident!TokenOfOwnLogin)
<1>1. Ident!IdentityInv => Ident!TypeOK /\ Ident!OneExchange /\ Ident!TokenOfOwnLogin
  <2>. SUFFICES ASSUME Ident!IdentityInv PROVE Ident!TypeOK /\ Ident!OneExchange /\ Ident!TokenOfOwnLogin
    OBVIOUS
  <2>1. \A x \in LoginUsers \X LoginProviders : oauth[x].flow \in 0..Len(flows)
    <3>. SUFFICES ASSUME NEW u \in LoginUsers, NEW p \in LoginProviders
                  PROVE  oauth[<<u, p>>].flow \in 0..Len(flows)
      OBVIOUS
    <3>1. oauth[<<u, p>>].flow = 0 \/ oauth[<<u, p>>].flow \in DOMAIN flows
      BY DEF Ident!IdentityInv, Ident!Genuine, Ident!OwnLogin
    <3>. QED
      BY <3>1 DEF Ident!IdentityInv, Ident!IdentityTypes
  <2>2. Ident!TypeOK
    BY <2>1 DEF Ident!TypeOK, Ident!IdentityInv, Ident!IdentityTypes
  <2>3. Ident!TokenOfOwnLogin
    <3>1. ASSUME NEW u \in LoginUsers, NEW p \in LoginProviders, oauth[<<u, p>>].flow # 0
          PROVE  /\ flows[oauth[<<u, p>>].flow].user = u
                 /\ flows[oauth[<<u, p>>].flow].provider = p
                 /\ oauth[<<u, p>>].flow \in {exchanged[i] : i \in DOMAIN exchanged}
                 /\ Ident!Authenticate(u, users[u]) = "allowed"
      <4>1. Ident!OwnLogin(u, p, oauth[<<u, p>>].flow)
        BY <3>1 DEF Ident!IdentityInv, Ident!Genuine
      <4>2. Ident!Authenticate(u, users[u]) = "allowed"
        BY <4>1 DEF Ident!OwnLogin, Ident!Authenticate
      <4>. QED
        BY <4>1, <4>2 DEF Ident!OwnLogin, Ident!Sent
    <3>. QED
      BY <3>1 DEF Ident!TokenOfOwnLogin
  <2>. QED
    BY <2>2, <2>3 DEF Ident!IdentityInv, Ident!TakenOnce
<1>. QED
  BY <1>1, IdentityInvariant, PTL

-----------------------------------------------------------------------------
(* TenantManager.                                                          *)

LEMMA ResolveIn ==
  ASSUME TenAssume, NEW u
  PROVE  Ten!Resolve(u) \in Ten!Ids
<1>. DEFINE hits == {i \in DOMAIN Tenant : u \in Tenant[i].users}
<1>1. CASE hits = {}
  BY <1>1 DEF Ten!Resolve, Ten!Ids
<1>2. CASE hits # {}
  <2>1. hits \in SUBSET Nat /\ hits \subseteq DOMAIN Tenant
    BY DEF TenAssume
  <2>2. Ten!Resolve(u) = Tenant[CHOOSE i \in hits : \A j \in hits : i <= j].id
    BY <1>2 DEF Ten!Resolve
  <2>. HIDE DEF hits
  <2>3. \E i \in hits : \A j \in hits : i <= j
    BY <1>2, <2>1, LeastIn
  <2>4. (CHOOSE i \in hits : \A j \in hits : i <= j) \in hits
    BY <2>3
  <2>. QED
    BY <2>1, <2>2, <2>4 DEF Ten!Ids
<1>. QED
  BY <1>1, <1>2

(* The limit of a tenant, and of the one at position i.                    *)
LEMMA LimitIs ==
  ASSUME TenAssume
  PROVE  /\ \A t : Ten!DailyLimit(t) \in Nat
         /\ \A i \in DOMAIN Tenant : Ten!DailyLimit(Tenant[i].id) = Tenant[i].limit
<1>1. Cardinality(TenantCallers) \in Nat /\ MaxTenantCalls \in Nat
  BY FS_CardinalityType DEF TenAssume
<1>2. \A i \in DOMAIN Tenant : Ten!DailyLimit(Tenant[i].id) = Tenant[i].limit
  <2>. SUFFICES ASSUME NEW i \in DOMAIN Tenant PROVE Ten!DailyLimit(Tenant[i].id) = Tenant[i].limit
    OBVIOUS
  <2>. DEFINE k == CHOOSE k \in DOMAIN Tenant : Tenant[k].id = Tenant[i].id
  <2>1. k \in DOMAIN Tenant /\ Tenant[k].id = Tenant[i].id
    OBVIOUS
  <2>2. k = i
    BY <2>1 DEF TenAssume
  <2>3. Ten!DailyLimit(Tenant[i].id) = Tenant[k].limit
    BY DEF Ten!DailyLimit
  <2>. QED
    BY <2>2, <2>3
<1>3. \A t : Ten!DailyLimit(t) \in Nat
  <2>. SUFFICES ASSUME NEW t PROVE Ten!DailyLimit(t) \in Nat
    OBVIOUS
  <2>1. CASE \E i \in DOMAIN Tenant : Tenant[i].id = t
    BY <1>2, <2>1 DEF TenAssume
  <2>2. CASE ~\E i \in DOMAIN Tenant : Tenant[i].id = t
    BY TenOps, <1>1, <2>2 DEF Ten!DailyLimit
  <2>. QED
    BY <2>1, <2>2
<1>. QED
  BY <1>2, <1>3

LEMMA InitTenants ==
  ASSUME TenAssume, Ten!Init PROVE Ten!TenantInv
<1>1. Ten!TenantTypes
  BY DEF Ten!Init, Ten!TenantTypes, TenAssume
<1>2. Ten!CountsGrants
  BY DEF Ten!Init, Ten!CountsGrants
<1>3. ASSUME NEW t \in Ten!Ids, NEW d \in 1..day PROVE Ten!Uncounted(t, d)
  <2>1. {i \in DOMAIN granted : granted[i] = <<t, d>>} = {}
    BY DEF Ten!Init
  <2>2. Ten!Grants(t, d) = 0
    BY TenOps, <2>1, FS_EmptySet DEF Ten!Grants
  <2>. QED
    BY <2>2 DEF Ten!Init, Ten!Uncounted
<1>. QED
  BY <1>1, <1>2, <1>3 DEF Ten!TenantInv

LEMMA GrantsNat ==
  ASSUME Ten!TenantTypes, NEW t, NEW d PROVE Ten!Grants(t, d) \in Nat
<1>1. granted \in Seq(Ten!Ids \X (1..day))
  BY DEF Ten!TenantTypes
<1>. DEFINE old == {i \in DOMAIN granted : granted[i] = <<t, d>>}
<1>2. old \subseteq 1..Len(granted) /\ Len(granted) \in Nat
  BY <1>1
<1>. HIDE DEF old
<1>3. IsFiniteSet(old)
  <2>1. IsFiniteSet(1..Len(granted))
    BY <1>2, FS_Interval
  <2>. QED
    BY <1>2, <2>1, FS_Subset
<1>. QED
  BY TenOps, <1>3, FS_CardinalityType DEF Ten!Grants, old

LEMMA MidnightStep ==
  ASSUME TenAssume, Ten!TenantInv, Ten!Midnight
  PROVE  Ten!TenantInv'
<1>1. Ten!TenantTypes /\ day \in Nat /\ MaxDay \in Nat /\ day' = day + 1
      /\ UNCHANGED <<rate, tenantCaller, granted, crossed>>
  BY DEF Ten!TenantInv, Ten!TenantTypes, TenAssume, Ten!Midnight
<1>2. 1..day \subseteq 1..day'
  BY <1>1
<1>3. Ten!Ids' = Ten!Ids
  BY DEF Ten!Ids
<1>4. Ten!TenantTypes'
  <2>1. day' \in 1..MaxDay
    BY <1>1 DEF Ten!Midnight
  <2>2. \A t \in DOMAIN rate : t \in Ten!Ids /\ rate[t] \in [count : Nat, day : 1..day']
    BY <1>1, <1>2 DEF Ten!TenantTypes
  <2>3. tenantCaller \in [TenantCallers -> [tenant : Ten!Ids, today : 1..day'] \union {Ten!Waiting}]
    <3>1. [tenant : Ten!Ids, today : 1..day] \subseteq [tenant : Ten!Ids, today : 1..day']
      BY <1>2
    <3>. QED
      BY <1>1, <3>1 DEF Ten!TenantTypes
  <2>4. granted \in Seq(Ten!Ids \X (1..day'))
    <3>1. Ten!Ids \X (1..day) \subseteq Ten!Ids \X (1..day')
      BY <1>2
    <3>. QED
      BY <1>1, <3>1 DEF Ten!TenantTypes
  <2>. QED
    BY <1>1, <1>3, <2>1, <2>2, <2>3, <2>4 DEF Ten!TenantTypes
<1>5. Ten!CountsGrants'
  BY <1>1 DEF Ten!TenantInv, Ten!CountsGrants, Ten!Grants, Ten!DailyLimit
<1>6. ASSUME NEW t \in Ten!Ids, NEW d \in 1..day' PROVE Ten!Uncounted(t, d)'
  <2>1. Ten!Grants(t, d)' = Ten!Grants(t, d) /\ Ten!DailyLimit(t)' = Ten!DailyLimit(t)
    BY <1>1 DEF Ten!Grants, Ten!DailyLimit
  <2>2. Ten!DailyLimit(t) \in Nat /\ crossed \in Nat /\ Ten!DailyLimit(t) * crossed \in Nat
    BY <1>1, LimitIs, NextMultiple DEF Ten!TenantTypes
  <2>3. CASE d = day'
    <3>1. {i \in DOMAIN granted : granted[i] = <<t, d>>} = {}
      BY <1>1, <2>3 DEF Ten!TenantTypes
    <3>2. Ten!Grants(t, d) = 0
      BY TenOps, <3>1, FS_EmptySet DEF Ten!Grants
    <3>3. t \in DOMAIN rate => rate[t].day # d
      BY <1>1, <2>3 DEF Ten!TenantTypes
    <3>. QED
      BY <1>1, <2>1, <2>2, <2>3, <3>2, <3>3 DEF Ten!Uncounted
  <2>4. CASE d # day'
    <3>1. d \in 1..day
      BY <1>1, <2>4
    <3>2. Ten!Uncounted(t, d) /\ Ten!Grants(t, d) \in Nat
      BY <1>1, <3>1, GrantsNat DEF Ten!TenantInv
    <3>. QED
      BY <1>1, <2>1, <2>2, <2>4, <3>2 DEF Ten!Uncounted
  <2>. QED
    BY <2>3, <2>4
<1>. QED
  BY <1>3, <1>4, <1>5, <1>6 DEF Ten!TenantInv

LEMMA CallStep ==
  ASSUME TenAssume, Ten!TenantInv, NEW c \in TenantCallers, NEW u \in TenantUsers, Ten!Call(c, u)
  PROVE  Ten!TenantInv'
<1>1. Ten!TenantTypes /\ UNCHANGED <<day, rate, granted, crossed>>
      /\ tenantCaller' = [tenantCaller EXCEPT ![c] = [tenant |-> Ten!Resolve(u), today |-> day]]
  BY DEF Ten!TenantInv, Ten!Call
<1>2. [tenant |-> Ten!Resolve(u), today |-> day] \in [tenant : Ten!Ids, today : 1..day]
  BY <1>1, ResolveIn DEF Ten!TenantTypes
<1>3. Ten!TenantTypes'
  BY <1>1, <1>2 DEF Ten!TenantTypes, Ten!Ids, Ten!Waiting
<1>4. Ten!CountsGrants'
  BY <1>1 DEF Ten!TenantInv, Ten!CountsGrants, Ten!Grants, Ten!DailyLimit
<1>5. ASSUME NEW t \in Ten!Ids, NEW d \in 1..day PROVE Ten!Uncounted(t, d)'
  <2>1. Ten!Uncounted(t, d)
    BY <1>5 DEF Ten!TenantInv
  <2>2. Ten!Grants(t, d)' = Ten!Grants(t, d) /\ Ten!DailyLimit(t)' = Ten!DailyLimit(t)
    BY <1>1 DEF Ten!Grants, Ten!DailyLimit
  <2>. QED
    BY <1>1, <2>1, <2>2 DEF Ten!Uncounted
<1>6. Ten!Ids' = Ten!Ids /\ day' = day
  BY <1>1 DEF Ten!Ids
<1>. QED
  BY <1>3, <1>4, <1>5, <1>6 DEF Ten!TenantInv

(* The counter a call finds under the lock, rolled over to its day.        *)
LEMMA CounterFound ==
  ASSUME TenAssume, Ten!TenantInv, NEW c \in TenantCallers, tenantCaller[c] # Ten!Waiting,
         NEW t, NEW d, t = tenantCaller[c].tenant, d = tenantCaller[c].today
  PROVE  /\ t \in Ten!Ids /\ d \in 1..day /\ day \in Nat
         /\ Ten!Counter(t, d) \in [count : Nat, day : 1..day] /\ Ten!Counter(t, d).day = d
         /\ Ten!Counter(t, d).count <= Ten!DailyLimit(t) /\ Ten!Counter(t, d).count <= Ten!Grants(t, d)
         /\ Ten!Grants(t, d) <= Ten!DailyLimit(t) * (crossed + (IF d # day THEN 1 ELSE 0)) + Ten!Counter(t, d).count
         /\ crossed \in Nat
<1>. DEFINE old == IF t \in DOMAIN rate THEN rate[t] ELSE [count |-> 0, day |-> day]
            s == Ten!Rolled(old, d)
<1>0. Ten!Counter(t, d) = s
  BY DEF Ten!Counter
<1>1. Ten!TenantTypes /\ day \in Nat /\ day \in 1..day /\ crossed \in Nat
  BY DEF Ten!TenantInv, Ten!TenantTypes
<1>2. t \in Ten!Ids /\ d \in 1..day
  BY <1>1 DEF Ten!TenantTypes
<1>3. old \in [count : Nat, day : 1..day]
  BY <1>1 DEF Ten!TenantTypes
<1>4. [count |-> 0, day |-> d] \in [count : Nat, day : 1..day]
  BY <1>2
<1>5. s \in [count : Nat, day : 1..day] /\ s.day = d
  BY <1>3, <1>4 DEF Ten!Rolled
<1>6. /\ Ten!Grants(t, d) \in Nat /\ Ten!DailyLimit(t) \in Nat /\ Ten!DailyLimit(t) * crossed \in Nat
      /\ Ten!DailyLimit(t) * (crossed + 1) = Ten!DailyLimit(t) * crossed + Ten!DailyLimit(t)
  BY <1>1, GrantsNat, LimitIs, NextMultiple
<1>7. Ten!Uncounted(t, d)
  BY <1>2 DEF Ten!TenantInv
<1>8. CASE t \in DOMAIN rate /\ rate[t].day = d
  <2>1. s = rate[t]
    BY <1>8 DEF Ten!Rolled
  <2>2. s.count <= Ten!DailyLimit(t) /\ s.count <= Ten!Grants(t, d)
    BY <1>8, <2>1 DEF Ten!TenantInv, Ten!CountsGrants
  <2>3. Ten!Grants(t, d) <= Ten!DailyLimit(t) * crossed + s.count
    BY <1>7, <1>8, <2>1 DEF Ten!Uncounted
  <2>4. Ten!Grants(t, d) <= Ten!DailyLimit(t) * (crossed + (IF d # day THEN 1 ELSE 0)) + s.count
    <3>1. CASE d = day
      BY <1>1, <2>3, <3>1
    <3>2. CASE d # day
      <4>1. Ten!Grants(t, d) <= Ten!DailyLimit(t) * (crossed + 1) + s.count
        BY <1>5, <1>6, <2>3
      <4>. QED
        BY <3>2, <4>1
    <3>. QED
      BY <3>1, <3>2
  <2>. QED
    BY <1>0, <1>1, <1>2, <1>5, <2>2, <2>4
<1>9. CASE t \in DOMAIN rate /\ rate[t].day # d
  <2>1. s.count = 0
    BY <1>9 DEF Ten!Rolled
  <2>2. Ten!Grants(t, d) <= Ten!DailyLimit(t) * (crossed + (IF d # day THEN 1 ELSE 0))
    <3>1. CASE d = day
      BY <1>1, <1>6, <1>7, <1>9, <3>1 DEF Ten!Uncounted
    <3>2. CASE d # day
      <4>1. Ten!Grants(t, d) <= Ten!DailyLimit(t) * (crossed + 1)
        BY <1>6, <1>7, <1>9, <3>2 DEF Ten!Uncounted
      <4>. QED
        BY <3>2, <4>1
    <3>. QED
      BY <3>1, <3>2
  <2>. QED
    BY <1>0, <1>1, <1>2, <1>5, <1>6, <2>1, <2>2
<1>10. CASE t \notin DOMAIN rate
  <2>1. s.count = 0 /\ Ten!Grants(t, d) = 0
    BY <1>7, <1>10 DEF Ten!Rolled, Ten!Uncounted
  <2>2. Ten!DailyLimit(t) * (crossed + (IF d # day THEN 1 ELSE 0)) \in Nat
    <3>1. CASE d = day
      BY <1>1, <1>6, <3>1
    <3>2. CASE d # day
      BY <1>1, <1>6, <3>2
    <3>. QED
      BY <3>1, <3>2
  <2>. QED
    BY <1>0, <1>1, <1>2, <1>5, <1>6, <2>1, <2>2
<1>. QED
  BY <1>0, <1>8, <1>9, <1>10

LEMMA CountStep ==
  ASSUME TenAssume, Ten!TenantInv, NEW c \in TenantCallers, Ten!Count(c)
  PROVE  Ten!TenantInv'
<1>. SUFFICES ASSUME NEW t, NEW d, t = tenantCaller[c].tenant, d = tenantCaller[c].today
              PROVE  Ten!TenantInv'
  OBVIOUS
<1>. DEFINE s == Ten!Counter(t, d)
            ok == Ten!Within(s, t)
            new == IF ok THEN [s EXCEPT !.count = @ + 1] ELSE s
<1>1. /\ tenantCaller[c] # Ten!Waiting
      /\ rate' = [x \in DOMAIN rate \union {t} |-> IF x = t THEN new ELSE rate[x]]
      /\ granted' = IF ok THEN Append(granted, <<t, d>>) ELSE granted
      /\ crossed' = IF d # day THEN crossed + 1 ELSE crossed
      /\ tenantCaller' = [tenantCaller EXCEPT ![c] = Ten!Waiting]
      /\ day' = day
  BY DEF Ten!Count, Ten!Counter
<1>2. Ten!TenantTypes
  BY DEF Ten!TenantInv
<1>3. /\ t \in Ten!Ids /\ d \in 1..day /\ day \in Nat
      /\ s \in [count : Nat, day : 1..day]
      /\ s.day = d /\ s.count <= Ten!DailyLimit(t) /\ s.count <= Ten!Grants(t, d)
      /\ Ten!Grants(t, d) <= Ten!DailyLimit(t) * (crossed + (IF d # day THEN 1 ELSE 0)) + s.count
      /\ crossed \in Nat
  BY <1>1, CounterFound
<1>4. Ten!DailyLimit(t) \in Nat /\ Ten!Grants(t, d) \in Nat
  BY <1>2, LimitIs, GrantsNat
<1>5. ok <=> s.count < Ten!DailyLimit(t)
  BY DEF Ten!Within
<1>. HIDE DEF s, ok
<1>6. /\ new \in [count : Nat, day : 1..day] /\ new.day = d
      /\ new.count = s.count + (IF ok THEN 1 ELSE 0) /\ new.count <= Ten!DailyLimit(t)
  BY <1>3, <1>4, <1>5
<1>. HIDE DEF new
<1>7. \A x, e : /\ Ten!Grants(x, e) \in Nat
                /\ Ten!Grants(x, e)' = Ten!Grants(x, e) + (IF ok /\ x = t /\ e = d THEN 1 ELSE 0)
                /\ Ten!DailyLimit(x)' = Ten!DailyLimit(x) /\ Ten!DailyLimit(x) \in Nat
  <2>. SUFFICES ASSUME NEW x, NEW e
                PROVE  /\ Ten!Grants(x, e) \in Nat
                       /\ Ten!Grants(x, e)' = Ten!Grants(x, e) + (IF ok /\ x = t /\ e = d THEN 1 ELSE 0)
                       /\ Ten!DailyLimit(x)' = Ten!DailyLimit(x) /\ Ten!DailyLimit(x) \in Nat
    OBVIOUS
  <2>1. Ten!Grants(x, e) \in Nat /\ Ten!DailyLimit(x)' = Ten!DailyLimit(x) /\ Ten!DailyLimit(x) \in Nat
    BY <1>2, GrantsNat, LimitIs DEF Ten!DailyLimit
  <2>2. CASE ok
    <3>. DEFINE Pairs == Ten!Ids \X (1..day)
    <3>1. granted \in Seq(Pairs) /\ <<t, d>> \in Pairs
      BY <1>2, <1>3 DEF Ten!TenantTypes
    <3>. HIDE DEF Pairs
    <3>2. Occurs(Append(granted, <<t, d>>), <<x, e>>)
            = Occurs(granted, <<x, e>>) + (IF <<t, d>> = <<x, e>> THEN 1 ELSE 0)
      BY <3>1, OccurrencesAppend
    <3>3. (<<t, d>> = <<x, e>>) <=> (x = t /\ e = d)
      OBVIOUS
    <3>4. granted' = Append(granted, <<t, d>>)
      BY <1>1, <2>2
    <3>5. Ten!Grants(x, e)' = Ten!Grants(x, e) + (IF <<t, d>> = <<x, e>> THEN 1 ELSE 0)
      BY TenOps, <3>2, <3>4 DEF Ten!Grants, Occurs
    <3>. QED
      BY <2>1, <2>2, <3>3, <3>5
  <2>3. CASE ~ok
    <3>1. Ten!Grants(x, e)' = Ten!Grants(x, e)
      BY <1>1, <2>3 DEF Ten!Grants
    <3>. QED
      BY <2>1, <2>3, <3>1
  <2>. QED
    BY <2>2, <2>3
<1>8. Ten!TenantTypes'
  <2>1. granted' \in Seq(Ten!Ids \X (1..day))
    <3>1. <<t, d>> \in Ten!Ids \X (1..day)
      BY <1>3
    <3>. QED
      BY <1>1, <1>2, <3>1 DEF Ten!TenantTypes
  <2>2. \A x \in DOMAIN rate' : x \in Ten!Ids /\ rate'[x] \in [count : Nat, day : 1..day]
    BY <1>1, <1>2, <1>3, <1>6 DEF Ten!TenantTypes
  <2>3. tenantCaller' \in [TenantCallers -> [tenant : Ten!Ids, today : 1..day] \union {Ten!Waiting}]
    BY <1>1, <1>2 DEF Ten!TenantTypes
  <2>4. crossed' \in Nat
    BY <1>1, <1>3
  <2>5. Ten!Ids' = Ten!Ids
    BY DEF Ten!Ids
  <2>6. Ten!Waiting' = Ten!Waiting
    BY DEF Ten!Waiting
  <2>. QED
    BY <1>1, <1>2, <2>1, <2>2, <2>3, <2>4, <2>5, <2>6 DEF Ten!TenantTypes
<1>9. Ten!CountsGrants'
  <2>. SUFFICES ASSUME NEW x \in DOMAIN rate'
                PROVE  (rate[x].count <= Ten!DailyLimit(x) /\ rate[x].count <= Ten!Grants(x, rate[x].day))'
    BY DEF Ten!CountsGrants
  <2>1. CASE x = t
    <3>1. rate'[x] = new
      BY <1>1, <2>1
    <3>2. Ten!Grants(t, d)' = Ten!Grants(t, d) + (IF ok THEN 1 ELSE 0) /\ Ten!DailyLimit(t)' = Ten!DailyLimit(t)
      BY <1>7
    <3>3. new.count <= Ten!Grants(t, d) + (IF ok THEN 1 ELSE 0)
      BY <1>3, <1>4, <1>6
    <3>4. {i \in DOMAIN granted' : granted'[i] = <<x, rate'[x].day>>} = {i \in DOMAIN granted' : granted'[i] = <<t, d>>}
      BY <2>1, <3>1, <1>6
    <3>. QED
      BY <2>1, <3>1, <3>2, <3>3, <3>4, <1>6 DEF Ten!Grants
  <2>2. CASE x # t
    <3>1. x \in DOMAIN rate /\ rate'[x] = rate[x]
      BY <1>1, <2>2
    <3>2. PICK e : e = rate[x].day
      OBVIOUS
    <3>3. Ten!Grants(x, e)' = Ten!Grants(x, e) /\ Ten!DailyLimit(x)' = Ten!DailyLimit(x)
      BY <1>7, <2>2
    <3>4. rate[x].count <= Ten!DailyLimit(x) /\ rate[x].count <= Ten!Grants(x, e)
      BY <3>1, <3>2 DEF Ten!TenantInv, Ten!CountsGrants
    <3>5. rate'[x].day = e
      BY <3>1, <3>2
    <3>. QED
      BY <3>1, <3>3, <3>4, <3>5 DEF Ten!Grants
  <2>. QED
    BY <2>1, <2>2
<1>10. ASSUME NEW x \in Ten!Ids, NEW e \in 1..day PROVE Ten!Uncounted(x, e)'
  <2>1. Ten!Uncounted(x, e) /\ Ten!Grants(x, e) \in Nat /\ Ten!DailyLimit(x) \in Nat /\ Ten!DailyLimit(x)' = Ten!DailyLimit(x)
    BY <1>7 DEF Ten!TenantInv
  <2>2. /\ Ten!DailyLimit(x) * crossed \in Nat
        /\ Ten!DailyLimit(x) * (crossed + 1) = Ten!DailyLimit(x) * crossed + Ten!DailyLimit(x)
        /\ Ten!DailyLimit(x) * crossed' \in Nat
        /\ Ten!DailyLimit(x) * crossed <= Ten!DailyLimit(x) * crossed'
        /\ d # day => Ten!DailyLimit(x) * crossed' = Ten!DailyLimit(x) * crossed + Ten!DailyLimit(x)
    <3>1. /\ Ten!DailyLimit(x) * crossed \in Nat
          /\ Ten!DailyLimit(x) * (crossed + 1) = Ten!DailyLimit(x) * crossed + Ten!DailyLimit(x)
      BY <1>3, <2>1, NextMultiple
    <3>2. CASE d # day
      BY <1>1, <2>1, <3>1, <3>2
    <3>3. CASE d = day
      BY <1>1, <3>1, <3>3
    <3>. QED
      BY <3>1, <3>2, <3>3
  <2>3. CASE x # t
    <3>1. Ten!Grants(x, e)' = Ten!Grants(x, e)
      BY <1>7, <2>3
    <3>2. /\ (x \in DOMAIN rate') <=> (x \in DOMAIN rate)
          /\ x \in DOMAIN rate => rate'[x] = rate[x]
      BY <1>1, <2>3
    <3>3. x \in DOMAIN rate => rate[x].count \in Nat
      BY <1>2 DEF Ten!TenantTypes
    <3>4. CASE x \notin DOMAIN rate
      BY <2>1, <3>1, <3>2, <3>4 DEF Ten!Uncounted
    <3>5. CASE x \in DOMAIN rate /\ rate[x].day = e
      <4>1. Ten!Grants(x, e) <= Ten!DailyLimit(x) * crossed' + rate[x].count
        BY <2>1, <2>2, <3>3, <3>5 DEF Ten!Uncounted
      <4>. QED
        BY <2>1, <3>1, <3>2, <3>5, <4>1 DEF Ten!Uncounted
    <3>6. CASE x \in DOMAIN rate /\ rate[x].day # e /\ e = day
      <4>1. Ten!Grants(x, e) <= Ten!DailyLimit(x) * crossed'
        BY <2>1, <2>2, <3>6 DEF Ten!Uncounted
      <4>. QED
        BY <1>1, <2>1, <3>1, <3>2, <3>6, <4>1 DEF Ten!Uncounted
    <3>7. CASE x \in DOMAIN rate /\ rate[x].day # e /\ e # day
      <4>1. Ten!Grants(x, e) <= Ten!DailyLimit(x) * crossed' + Ten!DailyLimit(x)
        BY <2>1, <2>2, <3>7 DEF Ten!Uncounted
      <4>. QED
        BY <1>1, <2>1, <3>1, <3>2, <3>7, <4>1 DEF Ten!Uncounted
    <3>. QED
      BY <3>4, <3>5, <3>6, <3>7
  <2>4. CASE x = t /\ e = d
    <3>1. rate'[t] = new /\ t \in DOMAIN rate'
      BY <1>1
    <3>2. Ten!Grants(t, d)' = Ten!Grants(t, d) + (IF ok THEN 1 ELSE 0)
      BY <1>7
    <3>3. Ten!Grants(t, d) <= Ten!DailyLimit(t) * crossed' + s.count
      <4>1. crossed + (IF d # day THEN 1 ELSE 0) = crossed'
        BY <1>1, <1>3
      <4>. QED
        BY <1>3, <4>1
    <3>4. Ten!DailyLimit(t) * crossed' \in Nat /\ s.count \in Nat
      BY <2>2, <2>4, <1>3
    <3>5. Ten!Grants(t, d)' <= Ten!DailyLimit(t) * crossed' + new.count
      BY <1>4, <1>6, <3>2, <3>3, <3>4
    <3>. QED
      BY <1>6, <2>1, <2>4, <3>1, <3>5 DEF Ten!Uncounted
  <2>5. CASE x = t /\ e # d
    <3>1. rate'[t] = new /\ t \in DOMAIN rate' /\ new.day # e
      BY <1>1, <1>6, <2>5
    <3>2. Ten!Grants(t, e)' = Ten!Grants(t, e)
      BY <1>7, <2>5
    <3>3. t \in DOMAIN rate => rate[t].count \in Nat /\ rate[t].count <= Ten!DailyLimit(t)
      BY <1>2 DEF Ten!TenantInv, Ten!CountsGrants, Ten!TenantTypes
    <3>4. Ten!Grants(t, e) <= Ten!DailyLimit(t) * crossed + Ten!DailyLimit(t)
      <4>1. CASE t \notin DOMAIN rate
        BY <2>1, <2>2, <2>5, <4>1 DEF Ten!Uncounted
      <4>2. CASE t \in DOMAIN rate
        BY <2>1, <2>2, <2>5, <3>3, <4>2 DEF Ten!Uncounted
      <4>. QED
        BY <4>1, <4>2
    <3>5. Ten!Grants(t, e) <= Ten!DailyLimit(t) * crossed' + Ten!DailyLimit(t)
      BY <2>1, <2>2, <2>5, <3>4
    <3>6. e = day => Ten!Grants(t, e) <= Ten!DailyLimit(t) * crossed'
      <4>. SUFFICES ASSUME e = day PROVE Ten!Grants(t, e) <= Ten!DailyLimit(t) * crossed'
        OBVIOUS
      <4>1. d # day
        BY <2>5
      <4>. QED
        BY <2>2, <2>5, <3>4, <4>1
    <3>. QED
      BY <1>1, <2>1, <2>5, <3>1, <3>2, <3>5, <3>6 DEF Ten!Uncounted
  <2>. QED
    BY <2>3, <2>4, <2>5
<1>11. Ten!Ids' = Ten!Ids
  BY DEF Ten!Ids
<1>. QED
  BY <1>1, <1>8, <1>9, <1>10, <1>11 DEF Ten!TenantInv

LEMMA TenantInvariant ==
  ASSUME TenAssume
  PROVE  Ten!Spec => []Ten!TenantInv
<1>1. Ten!TenantInv /\ [Ten!Next]_Ten!tenantVars => Ten!TenantInv'
  <2>. SUFFICES ASSUME Ten!TenantInv, [Ten!Next]_Ten!tenantVars PROVE Ten!TenantInv'
    OBVIOUS
  <2>1. CASE Ten!Next
    <3>1. CASE Ten!Midnight
      BY <3>1, MidnightStep
    <3>2. ASSUME NEW c \in TenantCallers, Ten!Count(c) PROVE Ten!TenantInv'
      BY <3>2, CountStep
    <3>3. ASSUME NEW c \in TenantCallers, NEW u \in TenantUsers, Ten!Call(c, u) PROVE Ten!TenantInv'
      BY <3>3, CallStep
    <3>. QED
      BY <2>1, <3>1, <3>2, <3>3 DEF Ten!Next
  <2>2. CASE UNCHANGED Ten!tenantVars
    <3>1. UNCHANGED <<day, rate, tenantCaller, granted, crossed>>
      BY <2>2 DEF Ten!tenantVars
    <3>2. Ten!TenantTypes'
      BY <3>1 DEF Ten!TenantInv, Ten!TenantTypes, Ten!Ids, Ten!Waiting
    <3>3. Ten!CountsGrants'
      BY <3>1 DEF Ten!TenantInv, Ten!CountsGrants, Ten!Grants, Ten!DailyLimit
    <3>4. ASSUME NEW t \in Ten!Ids, NEW d \in 1..day PROVE Ten!Uncounted(t, d)'
      BY <3>1 DEF Ten!TenantInv, Ten!Uncounted, Ten!Grants, Ten!DailyLimit
    <3>. QED
      BY <3>1, <3>2, <3>3, <3>4 DEF Ten!TenantInv, Ten!Ids
  <2>. QED
    BY <2>1, <2>2
<1>2. Ten!Init => Ten!TenantInv
  BY InitTenants
<1>. QED
  BY <1>1, <1>2, PTL DEF Ten!Spec

LEMMA TenantsFollow ==
  ASSUME TenAssume, Ten!TenantInv
  PROVE  Ten!DailyLimitKept
<1>. SUFFICES ASSUME NEW i \in DOMAIN Tenant, NEW d \in 1..MaxDay
              PROVE  Ten!Grants(Tenant[i].id, d) <= Tenant[i].limit * (1 + crossed)
  BY DEF Ten!DailyLimitKept
<1>. DEFINE t == Tenant[i].id
<1>1. Ten!TenantTypes /\ t \in Ten!Ids /\ day \in Nat /\ crossed \in Nat /\ MaxDay \in Nat
  BY DEF Ten!TenantInv, Ten!TenantTypes, Ten!Ids, TenAssume
<1>2. Ten!DailyLimit(t) = Tenant[i].limit /\ Ten!DailyLimit(t) \in Nat
  BY LimitIs
<1>3. /\ Ten!DailyLimit(t) * crossed \in Nat
      /\ Ten!DailyLimit(t) * (1 + crossed) = Ten!DailyLimit(t) * crossed + Ten!DailyLimit(t)
  BY <1>1, <1>2, NextMultiple
<1>. HIDE DEF t
<1>4. Ten!Grants(t, d) \in Nat
  BY <1>1, GrantsNat
<1>5. Ten!Grants(t, d) <= Ten!DailyLimit(t) * (1 + crossed)
  <2>1. CASE d \in 1..day
    <3>1. Ten!Uncounted(t, d)
      BY <1>1, <2>1 DEF Ten!TenantInv
    <3>2. t \in DOMAIN rate => rate[t].count \in Nat /\ rate[t].count <= Ten!DailyLimit(t)
      BY <1>1 DEF Ten!TenantInv, Ten!CountsGrants, Ten!TenantTypes
    <3>. QED
      BY <1>2, <1>3, <1>4, <3>1, <3>2 DEF Ten!Uncounted
  <2>2. CASE d \notin 1..day
    <3>1. {k \in DOMAIN granted : granted[k] = <<t, d>>} = {}
      BY <1>1, <2>2 DEF Ten!TenantTypes
    <3>2. Ten!Grants(t, d) = 0
      BY TenOps, <3>1, FS_EmptySet DEF Ten!Grants
    <3>. QED
      BY <1>2, <1>3, <3>2
  <2>. QED
    BY <2>1, <2>2
<1>. QED
  BY <1>2, <1>5 DEF t

(* A tenant is refused only when the calls of the caller's own day are used  *)
(* up, whoever else counted or reset in between.                             *)
THEOREM RefusalsEarned ==
  ASSUME TenAssume
  PROVE  Ten!Spec => Ten!RefusedOnlyWhenUsedUp
<1>. DEFINE Due == \A c \in TenantCallers :
       (tenantCaller[c] # Ten!Waiting /\ tenantCaller'[c] = Ten!Waiting /\ granted' = granted) =>
         Ten!Grants(tenantCaller[c].tenant, tenantCaller[c].today) >= Ten!DailyLimit(tenantCaller[c].tenant)
<1>1. Ten!TenantInv /\ [Ten!Next]_Ten!tenantVars => [Due]_Ten!tenantVars
  <2>. SUFFICES ASSUME Ten!TenantInv, Ten!Next, NEW c \in TenantCallers, tenantCaller[c] # Ten!Waiting, tenantCaller'[c] = Ten!Waiting,
                       granted' = granted, NEW t, NEW d, t = tenantCaller[c].tenant, d = tenantCaller[c].today
                PROVE  Ten!Grants(t, d) >= Ten!DailyLimit(t)
    OBVIOUS
  <2>0. tenantCaller \in [TenantCallers -> [tenant : Ten!Ids, today : 1..day] \union {Ten!Waiting}]
    BY DEF Ten!TenantInv, Ten!TenantTypes
  <2>1. Ten!Count(c)
    <3>1. ~Ten!Midnight
      BY DEF Ten!Midnight
    <3>2. ASSUME NEW b \in TenantCallers, NEW u \in TenantUsers, Ten!Call(b, u) PROVE FALSE
      <4>1. tenantCaller' = [tenantCaller EXCEPT ![b] = [tenant |-> Ten!Resolve(u), today |-> day]]
        BY <3>2 DEF Ten!Call
      <4>2. b = c /\ tenantCaller'[c] = [tenant |-> Ten!Resolve(u), today |-> day]
        BY <2>0, <4>1
      <4>3. day \in 1..MaxDay
        BY DEF Ten!TenantInv, Ten!TenantTypes
      <4>4. day = 0
        BY <4>2 DEF Ten!Waiting
      <4>. QED
        BY <4>3, <4>4
    <3>3. PICK b \in TenantCallers : Ten!Count(b)
      BY <3>1, <3>2 DEF Ten!Next
    <3>4. tenantCaller' = [tenantCaller EXCEPT ![b] = Ten!Waiting]
      BY <3>3 DEF Ten!Count
    <3>5. b = c
      BY <2>0, <3>4
    <3>. QED
      BY <3>3, <3>5
  <2>. DEFINE s == Ten!Counter(t, d)
  <2>2. s.count <= Ten!Grants(t, d) /\ s.count \in Nat /\ s.count <= Ten!DailyLimit(t)
    <3>1. s \in [count : Nat, day : 1..day] /\ s.count <= Ten!Grants(t, d) /\ s.count <= Ten!DailyLimit(t)
      BY CounterFound
    <3>. QED
      BY <3>1
  <2>3. ~Ten!Within(s, t)
    <3>1. Ten!Within(s, t) => granted' = Append(granted, <<t, d>>)
      BY <2>1 DEF Ten!Count, Ten!Counter
    <3>2. Append(granted, <<t, d>>) # granted
      <4>1. granted \in Seq(Ten!Ids \X (1..day))
        BY DEF Ten!TenantInv, Ten!TenantTypes
      <4>2. t \in Ten!Ids /\ d \in 1..day
        BY CounterFound
      <4>3. Len(Append(granted, <<t, d>>)) = Len(granted) + 1 /\ Len(granted) \in Nat
        BY <4>1, <4>2
      <4>. QED
        BY <4>3
    <3>. QED
      BY <3>1, <3>2
  <2>4. Ten!Grants(t, d) \in Nat /\ Ten!DailyLimit(t) \in Nat
    BY GrantsNat, LimitIs DEF Ten!TenantInv
  <2>. HIDE DEF s
  <2>5. s.count >= Ten!DailyLimit(t)
    BY <2>2, <2>3, <2>4 DEF Ten!Within
  <2>6. Ten!Grants(t, d) >= Ten!DailyLimit(t)
    BY <2>2, <2>4, <2>5
  <2>. QED
    BY <2>6
<1>. QED
  BY <1>1, TenantInvariant, PTL DEF Ten!Spec, Ten!RefusedOnlyWhenUsedUp

-----------------------------------------------------------------------------
(* BrowserTool.                                                            *)

(* What overtaking does to the watchdog.                                   *)
LEMMA OvertakenEffect ==
  ASSUME watchdog \in Chrome!WatchdogStates, Chrome!Overtaken
  PROVE  watchdog' \in Chrome!WatchdogStates /\ Chrome!StillIdle'
<1>1. watchdog' = [watchdog EXCEPT !.late = watchdog.late \/ watchdog.at = "lock"]
  BY DEF Chrome!Overtaken
<1>. DEFINE l == watchdog.late \/ watchdog.at = "lock"
<1>2. l \in BOOLEAN
  OBVIOUS
<1>3. watchdog.at = "lock" => l
  OBVIOUS
<1>. HIDE DEF l
<1>4. watchdog' = [watchdog EXCEPT !.late = l]
  BY <1>1 DEF l
<1>5. watchdog' \in Chrome!WatchdogStates /\ watchdog'.at = watchdog.at /\ watchdog'.late = l
  BY <1>2, <1>4 DEF Chrome!WatchdogStates
<1>. QED
  BY <1>3, <1>5 DEF Chrome!StillIdle

(* A caller that moves outside the launch.                                 *)
LEMMA QuietMove ==
  ASSUME Chrome!BrowserInv, NEW c \in BrowserCallers, ~Chrome!Launching(c), NEW s \in Chrome!CallerStates,
         s.at \notin {"launch", "page"}, browserCaller' = [browserCaller EXCEPT ![c] = s],
         UNCHANGED <<browser, page, cdp, lock, alive>>
  PROVE  Chrome!LockHeld' /\ Chrome!Owned' /\ browserCaller' \in [BrowserCallers -> Chrome!CallerStates]
<1>0. browserCaller \in [BrowserCallers -> Chrome!CallerStates] /\ Chrome!LockHeld /\ Chrome!Owned
  BY DEF Chrome!BrowserInv, Chrome!TypeOK
<1>1. browserCaller'[c] = s /\ \A d \in BrowserCallers : d # c => browserCaller'[d] = browserCaller[d]
  BY <1>0
<1>2. \A d \in BrowserCallers : /\ Chrome!Launching(d)' <=> Chrome!Launching(d)
                                /\ Chrome!Launching(d) => browserCaller'[d] = browserCaller[d]
  BY <1>1 DEF Chrome!Launching
<1>3. Chrome!LockHeld'
  BY <1>0, <1>2 DEF Chrome!LockHeld
<1>4. Chrome!Owned'
  BY <1>0, <1>1, <1>2 DEF Chrome!Owned, Chrome!Launching
<1>5. browserCaller' \in [BrowserCallers -> Chrome!CallerStates]
  BY <1>0
<1>. QED
  BY <1>3, <1>4, <1>5

(* A step that leaves the callers and the lock alone; processes may die.   *)
LEMMA StillOwned ==
  ASSUME Chrome!BrowserInv, alive' \subseteq alive, UNCHANGED <<browser, page, cdp, lock, browserCaller>>
  PROVE  Chrome!LockHeld' /\ Chrome!Owned'
<1>0. Chrome!LockHeld /\ Chrome!Owned
  BY DEF Chrome!BrowserInv
<1>1. \A c \in BrowserCallers : Chrome!Launching(c)' <=> Chrome!Launching(c)
  BY DEF Chrome!Launching
<1>2. Chrome!LockHeld'
  BY <1>0, <1>1 DEF Chrome!LockHeld
<1>3. Chrome!Owned'
  BY <1>0, <1>1 DEF Chrome!Owned
<1>. QED
  BY <1>2, <1>3

(* With the lock free the browser is dropped, or there is none.            *)
LEMMA DroppedOwned ==
  ASSUME Chrome!BrowserInv, "free" \notin BrowserCallers, lock = "free", lock' = lock,
         \A c \in BrowserCallers : ~Chrome!Launching(c)',
         Chrome!Dropped \/ (browser = 0 /\ UNCHANGED <<browser, page, cdp, alive>>)
  PROVE  Chrome!LockHeld' /\ Chrome!Owned' /\ alive' \subseteq alive
<1>0. Chrome!LockHeld /\ Chrome!Owned
  BY DEF Chrome!BrowserInv
<1>1. browser' = 0 /\ page' = 0 /\ alive' \subseteq alive
  BY <1>0 DEF Chrome!Dropped, Chrome!Owned
<1>2. alive' \subseteq {0}
  BY <1>0 DEF Chrome!Dropped, Chrome!Owned
<1>3. Chrome!LockHeld'
  BY DEF Chrome!LockHeld
<1>4. Chrome!Owned'
  BY <1>1, <1>2 DEF Chrome!Owned, Chrome!Launching
<1>. QED
  BY <1>1, <1>3, <1>4

(* The start.                                                              *)
LEMMA InitBrowser ==
  ASSUME Chrome!Init, MaxLaunch \in Nat, MaxNow \in Nat \ {0}
  PROVE  Chrome!BrowserInv
<1>1. Chrome!Idle \in Chrome!CallerStates /\ Chrome!Asleep \in Chrome!WatchdogStates /\ Chrome!Idle.at = "idle" /\ Chrome!Asleep.at = "asleep"
  BY DEF Chrome!Idle, Chrome!Asleep, Chrome!CallerStates, Chrome!WatchdogStates, Chrome!Steps
<1>2. /\ browser = 0 /\ page = 0 /\ cdp = 0 /\ lastUsed = 0 /\ now = 1 /\ lock = "free"
      /\ alive = {} /\ browserCaller = [c \in BrowserCallers |-> Chrome!Idle] /\ watchdog = Chrome!Asleep /\ cookies = {}
      /\ cookieFiles = [f \in Chrome!Files |-> {Chrome!None}] /\ launched = 0
  BY DEF Chrome!Init
<1>3. Chrome!TypeOK
  BY <1>1, <1>2 DEF Chrome!TypeOK
<1>4. \A c \in BrowserCallers : ~Chrome!Launching(c)
  BY <1>1, <1>2 DEF Chrome!Launching
<1>5. Chrome!LockHeld /\ Chrome!Owned
  BY <1>2, <1>4 DEF Chrome!LockHeld, Chrome!Owned, Chrome!Launching
<1>6. Chrome!StillIdle
  BY <1>1, <1>2 DEF Chrome!StillIdle
<1>. QED
  BY <1>3, <1>5, <1>6 DEF Chrome!BrowserInv

(* The watchdog, the clock and a death.                                    *)
LEMMA WatchdogKeeps ==
  ASSUME Chrome!BrowserInv, MaxLaunch \in Nat, MaxNow \in Nat \ {0}, IdleTimeout \in Nat, "free" \notin BrowserCallers,
         Chrome!WatchdogWakes \/ Chrome!WatchdogCloses \/ Chrome!SignalShutdown \/ Chrome!BrowserDies \/ Chrome!TimePasses
  PROVE  Chrome!BrowserInv'
<1>0. Chrome!TypeOK /\ Chrome!LockHeld /\ Chrome!Owned /\ Chrome!StillIdle
  BY DEF Chrome!BrowserInv
<1>1. Chrome!Asleep \in Chrome!WatchdogStates /\ Chrome!Asleep.at = "asleep"
  BY DEF Chrome!Asleep, Chrome!WatchdogStates
<1>2. CASE Chrome!WatchdogWakes
  <2>1. /\ watchdog' = [at |-> "lock", read |-> lastUsed, late |-> lock # "free"]
        /\ Chrome!IsIdle(lastUsed)
        /\ UNCHANGED <<Chrome!slots, lastUsed, now, lock, alive, browserCaller, cookies, cookieFiles, launched>>
    BY <1>2 DEF Chrome!WatchdogWakes
  <2>2. [at |-> "lock", read |-> lastUsed, late |-> lock # "free"] \in Chrome!WatchdogStates
    BY <1>0 DEF Chrome!TypeOK, Chrome!WatchdogStates
  <2>3. Chrome!TypeOK'
    BY <1>0, <2>1, <2>2 DEF Chrome!TypeOK, Chrome!slots
  <2>4. Chrome!StillIdle'
    BY <2>1 DEF Chrome!StillIdle, Chrome!IsIdle
  <2>. QED
    BY <2>1, <2>3, <2>4, StillOwned DEF Chrome!BrowserInv, Chrome!slots
<1>3. CASE Chrome!WatchdogCloses
  <2>1. /\ lock = "free" /\ watchdog' = Chrome!Asleep /\ UNCHANGED <<now, lock, browserCaller, cookieFiles, launched>>
    BY <1>3 DEF Chrome!WatchdogCloses
  <2>2. (Chrome!Dropped /\ lastUsed' = 0)
        \/ (browser = 0 /\ UNCHANGED <<browser, page, cdp, alive, cookies, lastUsed>>)
    BY <1>3 DEF Chrome!WatchdogCloses, Chrome!slots
  <2>3. \A c \in BrowserCallers : ~Chrome!Launching(c)'
    BY <1>0, <2>1 DEF Chrome!LockHeld, Chrome!Launching
  <2>4. Chrome!LockHeld' /\ Chrome!Owned' /\ alive' \subseteq alive
    BY <2>1, <2>2, <2>3, DroppedOwned
  <2>5. Chrome!TypeOK'
    BY <1>0, <1>1, <2>1, <2>2, <2>4 DEF Chrome!TypeOK, Chrome!Dropped
  <2>6. Chrome!StillIdle'
    BY <1>1, <2>1 DEF Chrome!StillIdle
  <2>. QED
    BY <2>4, <2>5, <2>6 DEF Chrome!BrowserInv
<1>4. CASE Chrome!SignalShutdown
  <2>1. /\ watchdog' = [Chrome!Asleep EXCEPT !.at = "over"]
        /\ UNCHANGED <<Chrome!slots, lastUsed, now, lock, alive, browserCaller, cookies, cookieFiles, launched>>
    BY <1>4 DEF Chrome!SignalShutdown
  <2>2. watchdog' \in Chrome!WatchdogStates /\ watchdog'.at = "over"
    BY <1>1, <2>1 DEF Chrome!WatchdogStates
  <2>3. Chrome!TypeOK' /\ Chrome!StillIdle'
    BY <1>0, <2>1, <2>2 DEF Chrome!TypeOK, Chrome!slots, Chrome!StillIdle
  <2>. QED
    BY <2>1, <2>3, StillOwned DEF Chrome!BrowserInv, Chrome!slots
<1>5. CASE Chrome!BrowserDies
  <2>1. PICK b \in alive :
          /\ alive' = alive \ {b} /\ cookies' = IF b = browser THEN {} ELSE cookies
          /\ UNCHANGED <<Chrome!slots, lastUsed, now, lock, browserCaller, watchdog, cookieFiles, launched>>
    BY <1>5 DEF Chrome!BrowserDies
  <2>2. Chrome!TypeOK' /\ Chrome!StillIdle'
    BY <1>0, <2>1 DEF Chrome!TypeOK, Chrome!slots, Chrome!StillIdle
  <2>. QED
    BY <2>1, <2>2, StillOwned DEF Chrome!BrowserInv, Chrome!slots
<1>6. CASE Chrome!TimePasses
  <2>1. /\ now < MaxNow /\ now' = now + 1
        /\ UNCHANGED <<Chrome!slots, lastUsed, lock, alive, browserCaller, watchdog, cookies, cookieFiles, launched>>
    BY <1>6 DEF Chrome!TimePasses
  <2>2. now \in 1..MaxNow /\ lastUsed \in 0..MaxNow
    BY <1>0 DEF Chrome!TypeOK
  <2>3. now' \in 1..MaxNow
    BY <2>1, <2>2
  <2>4. Chrome!TypeOK'
    BY <1>0, <2>1, <2>3 DEF Chrome!TypeOK, Chrome!slots
  <2>5. now - lastUsed > IdleTimeout => now' - lastUsed' > IdleTimeout
    BY <2>1, <2>2
  <2>6. Chrome!StillIdle'
    BY <1>0, <2>1, <2>5 DEF Chrome!StillIdle
  <2>. QED
    BY <2>1, <2>4, <2>6, StillOwned DEF Chrome!BrowserInv, Chrome!slots
<1>. QED
  BY <1>2, <1>3, <1>4, <1>5, <1>6

(* Calls that hold no lock: they begin, stamp, and act on their page.      *)
LEMMA ToolCallKeeps ==
  ASSUME Chrome!BrowserInv, MaxLaunch \in Nat, MaxNow \in Nat \ {0}, NEW c \in BrowserCallers,
         \/ \E what \in {"ensure", "close"} : Chrome!Execute(c, what)
         \/ Chrome!Stamp(c) \/ Chrome!ActFails(c) \/ Chrome!Inspect(c)
         \/ \E s \in Sites : Chrome!Navigate(c, s) \/ Chrome!Interact(c, s)
         \/ \E n \in SessionNames : Chrome!SaveSession(c, n) \/ Chrome!RestoreSession(c, n)
  PROVE  Chrome!BrowserInv'
<1>0. Chrome!TypeOK /\ Chrome!StillIdle /\ browserCaller \in [BrowserCallers -> Chrome!CallerStates]
  BY DEF Chrome!BrowserInv, Chrome!TypeOK
<1>1. Chrome!Idle \in Chrome!CallerStates /\ Chrome!Idle.at = "idle"
  BY DEF Chrome!Idle, Chrome!CallerStates, Chrome!Steps
<1>2. \A p \in Chrome!Steps \ {"launch", "page"} : LET s == [browserCaller[c] EXCEPT !.at = p]
                                             IN s \in Chrome!CallerStates /\ s.at \notin {"launch", "page"}
  BY <1>0 DEF Chrome!CallerStates
<1>3. CASE \E what \in {"ensure", "close"} : Chrome!Execute(c, what)
  <2>1. PICK what \in {"ensure", "close"} : Chrome!Execute(c, what)
    BY <1>3
  <2>2. /\ ~Chrome!Launching(c) /\ browserCaller' = [browserCaller EXCEPT ![c] = [browserCaller[c] EXCEPT !.at = what]]
        /\ UNCHANGED <<browser, page, cdp, lastUsed, now, lock, alive, watchdog, cookies, cookieFiles, launched>>
    BY <1>0, <2>1 DEF Chrome!Execute, Chrome!Goto, Chrome!Launching, Chrome!slots
  <2>3. Chrome!LockHeld' /\ Chrome!Owned' /\ browserCaller' \in [BrowserCallers -> Chrome!CallerStates]
    BY <1>2, <2>2, QuietMove DEF Chrome!Steps
  <2>4. Chrome!TypeOK' /\ Chrome!StillIdle'
    BY <1>0, <2>2, <2>3 DEF Chrome!TypeOK, Chrome!StillIdle
  <2>. QED
    BY <2>3, <2>4 DEF Chrome!BrowserInv
<1>4. CASE Chrome!Stamp(c)
  <2>1. /\ ~Chrome!Launching(c) /\ browserCaller' = [browserCaller EXCEPT ![c] = [browserCaller[c] EXCEPT !.at = "act"]]
        /\ lastUsed' = now /\ Chrome!Overtaken
        /\ UNCHANGED <<browser, page, cdp, now, lock, alive, cookies, cookieFiles, launched>>
    BY <1>0, <1>4 DEF Chrome!Stamp, Chrome!Goto, Chrome!Launching, Chrome!slots
  <2>2. Chrome!LockHeld' /\ Chrome!Owned' /\ browserCaller' \in [BrowserCallers -> Chrome!CallerStates]
    BY <1>2, <2>1, QuietMove DEF Chrome!Steps
  <2>3. watchdog' \in Chrome!WatchdogStates /\ Chrome!StillIdle'
    BY <1>0, <2>1, OvertakenEffect DEF Chrome!TypeOK
  <2>4. Chrome!TypeOK'
    BY <1>0, <2>1, <2>2, <2>3 DEF Chrome!TypeOK
  <2>. QED
    BY <2>2, <2>3, <2>4 DEF Chrome!BrowserInv
<1>5. ASSUME Chrome!Acts(c), cookies' \subseteq Sites, cookieFiles' \in [Chrome!Files -> {{Chrome!None}} \cup SUBSET Sites]
      PROVE  Chrome!BrowserInv'
  <2>1. /\ ~Chrome!Launching(c) /\ browserCaller' = [browserCaller EXCEPT ![c] = Chrome!Idle]
        /\ UNCHANGED <<browser, page, cdp, lastUsed, now, lock, alive, watchdog, launched>>
    BY <1>5 DEF Chrome!Acts, Chrome!Launching, Chrome!slots
  <2>2. Chrome!LockHeld' /\ Chrome!Owned' /\ browserCaller' \in [BrowserCallers -> Chrome!CallerStates]
    BY <1>1, <2>1, QuietMove
  <2>3. Chrome!TypeOK' /\ Chrome!StillIdle'
    BY <1>0, <1>5, <2>1, <2>2 DEF Chrome!TypeOK, Chrome!StillIdle
  <2>. QED
    BY <2>2, <2>3 DEF Chrome!BrowserInv
<1>6. cookies \subseteq Sites /\ cookieFiles \in [Chrome!Files -> {{Chrome!None}} \cup SUBSET Sites]
  BY <1>0 DEF Chrome!TypeOK
<1>7. CASE Chrome!ActFails(c) \/ Chrome!Inspect(c)
  BY <1>5, <1>6, <1>7 DEF Chrome!ActFails, Chrome!Inspect
<1>8. ASSUME NEW s \in Sites, Chrome!Navigate(c, s) \/ Chrome!Interact(c, s) PROVE Chrome!BrowserInv'
  BY <1>5, <1>6, <1>8 DEF Chrome!Navigate, Chrome!Interact
<1>9. ASSUME NEW n \in SessionNames, Chrome!SaveSession(c, n) PROVE Chrome!BrowserInv'
  <2>1. Sanitize[n] \in Chrome!Files
    BY DEF Chrome!Files
  <2>2. cookieFiles' \in [Chrome!Files -> {{Chrome!None}} \cup SUBSET Sites] /\ cookies' = cookies /\ Chrome!Acts(c)
    BY <1>6, <1>9, <2>1 DEF Chrome!SaveSession
  <2>. QED
    BY <1>5, <1>6, <2>2
<1>10. ASSUME NEW n \in SessionNames, Chrome!RestoreSession(c, n) PROVE Chrome!BrowserInv'
  <2>1. Sanitize[n] \in Chrome!Files
    BY DEF Chrome!Files
  <2>2. cookieFiles[Sanitize[n]] \subseteq Sites
    BY <1>6, <1>10, <2>1 DEF Chrome!RestoreSession
  <2>3. cookieFiles' = cookieFiles /\ cookies' \subseteq Sites /\ Chrome!Acts(c)
    BY <1>6, <1>10, <2>2 DEF Chrome!RestoreSession
  <2>. QED
    BY <1>5, <1>6, <2>3
<1>. QED
  BY <1>3, <1>4, <1>7, <1>8, <1>9, <1>10

(* Finding, launching and closing the browser, under the lock.             *)
LEMMA LockedKeeps ==
  ASSUME Chrome!BrowserInv, MaxLaunch \in Nat, MaxNow \in Nat \ {0}, "free" \notin BrowserCallers, NEW c \in BrowserCallers,
         Chrome!EnsureBrowser(c) \/ Chrome!Launch(c) \/ Chrome!NewPage(c) \/ Chrome!LaunchFails(c) \/ Chrome!CloseBrowser(c)
  PROVE  Chrome!BrowserInv'
<1>0. Chrome!TypeOK /\ Chrome!LockHeld /\ Chrome!Owned /\ Chrome!StillIdle /\ browserCaller \in [BrowserCallers -> Chrome!CallerStates]
      /\ watchdog \in Chrome!WatchdogStates
  BY DEF Chrome!BrowserInv, Chrome!TypeOK
<1>1. Chrome!Idle \in Chrome!CallerStates /\ Chrome!Idle.at = "idle" /\ Chrome!Idle.page = 0
  BY DEF Chrome!Idle, Chrome!CallerStates, Chrome!Steps
<1>2. CASE Chrome!EnsureBrowser(c) /\ page # 0 /\ page \in alive
  <2>. DEFINE s == [at |-> "stamp", page |-> page]
  <2>1. /\ ~Chrome!Launching(c) /\ browserCaller' = [browserCaller EXCEPT ![c] = s] /\ Chrome!Overtaken
        /\ UNCHANGED <<browser, page, cdp, lock, alive, cookies, lastUsed, now, cookieFiles, launched>>
    BY <1>2 DEF Chrome!EnsureBrowser, Chrome!Acquire, Chrome!Launching, Chrome!slots
  <2>2. s \in Chrome!CallerStates /\ s.at \notin {"launch", "page"}
    BY <1>0 DEF Chrome!CallerStates, Chrome!Steps, Chrome!TypeOK
  <2>3. Chrome!LockHeld' /\ Chrome!Owned' /\ browserCaller' \in [BrowserCallers -> Chrome!CallerStates]
    BY <2>1, <2>2, QuietMove
  <2>4. watchdog' \in Chrome!WatchdogStates /\ Chrome!StillIdle'
    BY <1>0, <2>1, OvertakenEffect
  <2>5. Chrome!TypeOK'
    BY <1>0, <2>1, <2>3, <2>4 DEF Chrome!TypeOK
  <2>. QED
    BY <2>3, <2>4, <2>5 DEF Chrome!BrowserInv
<1>3. CASE Chrome!EnsureBrowser(c) /\ ~(page # 0 /\ page \in alive)
  <2>1. /\ lock = "free" /\ lock' = c /\ browserCaller' = [browserCaller EXCEPT ![c].at = "launch"]
        /\ (page # 0 /\ Chrome!Dropped) \/ (page = 0 /\ UNCHANGED <<browser, page, cdp, alive, cookies>>)
        /\ UNCHANGED <<watchdog, lastUsed, now, cookieFiles, launched>>
    BY <1>3 DEF Chrome!EnsureBrowser, Chrome!Acquire, Chrome!Goto, Chrome!slots
  <2>2. /\ browserCaller'[c].at = "launch" /\ browserCaller' \in [BrowserCallers -> Chrome!CallerStates]
        /\ \A d \in BrowserCallers : d # c => browserCaller'[d] = browserCaller[d]
    BY <1>0, <2>1 DEF Chrome!CallerStates, Chrome!Steps
  <2>3. browser = page /\ alive \subseteq {browser} /\ alive \subseteq 1..MaxLaunch
    BY <1>0, <2>1 DEF Chrome!Owned, Chrome!TypeOK
  <2>4. browser' = 0 /\ page' = 0 /\ cdp' \in {0, cdp} /\ cookies' \subseteq cookies
    BY <2>1, <2>3 DEF Chrome!Dropped
  <2>5. alive' = {}
    BY <2>1, <2>3 DEF Chrome!Dropped
  <2>6. \A d \in BrowserCallers : Chrome!Launching(d)' <=> d = c
    BY <1>0, <2>1, <2>2 DEF Chrome!LockHeld, Chrome!Launching
  <2>7. Chrome!LockHeld' /\ Chrome!Owned'
    <3>1. Chrome!LockHeld'
      BY <2>1, <2>6 DEF Chrome!LockHeld
    <3>2. \A d \in BrowserCallers : browserCaller'[d].at = "page" => FALSE
      BY <2>2, <2>6 DEF Chrome!Launching
    <3>3. Chrome!Owned'
      BY <2>1, <2>4, <2>5, <3>2 DEF Chrome!Owned
    <3>. QED
      BY <3>1, <3>3
  <2>8. Chrome!TypeOK'
    BY <1>0, <2>1, <2>2, <2>4, <2>5 DEF Chrome!TypeOK
  <2>9. Chrome!StillIdle'
    BY <1>0, <2>1 DEF Chrome!StillIdle
  <2>. QED
    BY <2>7, <2>8, <2>9 DEF Chrome!BrowserInv
<1>4. CASE Chrome!Launch(c)
  <2>. DEFINE s == [at |-> "page", page |-> launched + 1]
  <2>1. /\ browserCaller[c].at = "launch" /\ launched < MaxLaunch /\ launched' = launched + 1
        /\ alive' = alive \cup {launched + 1} /\ cdp' = launched + 1
        /\ browserCaller' = [browserCaller EXCEPT ![c] = s]
        /\ UNCHANGED <<browser, page, lastUsed, now, lock, watchdog, cookies, cookieFiles>>
    BY <1>4 DEF Chrome!Launch
  <2>2. launched + 1 \in 1..MaxLaunch
    BY <1>0, <2>1 DEF Chrome!TypeOK
  <2>3. s \in Chrome!CallerStates /\ s.at = "page" /\ s.page = launched + 1
    BY <2>2 DEF Chrome!CallerStates, Chrome!Steps
  <2>4. /\ browserCaller'[c] = s /\ browserCaller' \in [BrowserCallers -> Chrome!CallerStates]
        /\ \A d \in BrowserCallers : d # c => browserCaller'[d] = browserCaller[d]
    BY <1>0, <2>1, <2>3
  <2>5. lock = c /\ browser = 0 /\ page = 0 /\ alive = {}
    BY <1>0, <2>1 DEF Chrome!LockHeld, Chrome!Owned, Chrome!Launching
  <2>6. \A d \in BrowserCallers : Chrome!Launching(d)' <=> d = c
    BY <1>0, <2>3, <2>4, <2>5 DEF Chrome!LockHeld, Chrome!Launching
  <2>. HIDE DEF s
  <2>7. Chrome!LockHeld'
    BY <2>1, <2>5, <2>6 DEF Chrome!LockHeld
  <2>8. Chrome!Owned'
    <3>1. \A d \in BrowserCallers : browserCaller'[d].at \in {"launch", "page"} => d = c
      BY <2>6 DEF Chrome!Launching
    <3>. QED
      BY <2>1, <2>3, <2>4, <2>5, <3>1 DEF Chrome!Owned
  <2>9. Chrome!TypeOK'
    BY <1>0, <2>1, <2>2, <2>4 DEF Chrome!TypeOK
  <2>10. Chrome!StillIdle'
    BY <1>0, <2>1 DEF Chrome!StillIdle
  <2>. QED
    BY <2>7, <2>8, <2>9, <2>10 DEF Chrome!BrowserInv
<1>5. ASSUME Chrome!Launching(c), NEW s \in Chrome!CallerStates, s.at \notin {"launch", "page"},
             browserCaller' = [browserCaller EXCEPT ![c] = s], lock' = "free"
      PROVE  /\ browserCaller' \in [BrowserCallers -> Chrome!CallerStates]
             /\ \A d \in BrowserCallers : ~Chrome!Launching(d)'
             /\ Chrome!LockHeld'
  <2>1. /\ browserCaller' \in [BrowserCallers -> Chrome!CallerStates] /\ browserCaller'[c] = s
        /\ \A d \in BrowserCallers : d # c => browserCaller'[d] = browserCaller[d]
    BY <1>0, <1>5
  <2>2. \A d \in BrowserCallers : ~Chrome!Launching(d)'
    BY <1>0, <1>5, <2>1 DEF Chrome!LockHeld, Chrome!Launching
  <2>. QED
    BY <1>5, <2>1, <2>2 DEF Chrome!LockHeld
<1>6. CASE Chrome!NewPage(c)
  <2>. DEFINE s == [browserCaller[c] EXCEPT !.at = "stamp"]
  <2>1. /\ browserCaller[c].at = "page" /\ browser' = browserCaller[c].page /\ page' = browserCaller[c].page
        /\ lastUsed' = now /\ lock' = "free" /\ Chrome!Overtaken /\ browserCaller' = [browserCaller EXCEPT ![c] = s]
        /\ UNCHANGED <<cdp, now, alive, cookies, cookieFiles, launched>>
    BY <1>0, <1>6 DEF Chrome!NewPage, Chrome!Goto
  <2>2. s \in Chrome!CallerStates /\ s.at \notin {"launch", "page"}
    BY <1>0 DEF Chrome!CallerStates, Chrome!Steps
  <2>. HIDE DEF s
  <2>3. browserCaller' \in [BrowserCallers -> Chrome!CallerStates] /\ (\A d \in BrowserCallers : ~Chrome!Launching(d)') /\ Chrome!LockHeld'
    BY <1>5, <2>1, <2>2 DEF Chrome!Launching
  <2>4. alive \subseteq {browserCaller[c].page} /\ cdp = browserCaller[c].page
    BY <1>0, <2>1 DEF Chrome!Owned
  <2>5. Chrome!Owned'
    BY <2>1, <2>3, <2>4 DEF Chrome!Owned, Chrome!Launching
  <2>6. watchdog' \in Chrome!WatchdogStates /\ Chrome!StillIdle'
    BY <1>0, <2>1, OvertakenEffect
  <2>7. browserCaller[c].page \in 0..MaxLaunch
    BY <1>0 DEF Chrome!CallerStates
  <2>8. Chrome!TypeOK'
    BY <1>0, <2>1, <2>3, <2>6, <2>7 DEF Chrome!TypeOK
  <2>. QED
    BY <2>3, <2>5, <2>6, <2>8 DEF Chrome!BrowserInv
<1>7. CASE Chrome!LaunchFails(c)
  <2>1. /\ Chrome!Launching(c) /\ alive' = alive \ {browserCaller[c].page} /\ lock' = "free" /\ Chrome!Overtaken
        /\ browserCaller' = [browserCaller EXCEPT ![c] = Chrome!Idle]
        /\ UNCHANGED <<browser, page, cdp, lastUsed, now, cookies, cookieFiles, launched>>
    BY <1>7 DEF Chrome!LaunchFails, Chrome!Launching, Chrome!slots
  <2>2. browserCaller' \in [BrowserCallers -> Chrome!CallerStates] /\ (\A d \in BrowserCallers : ~Chrome!Launching(d)') /\ Chrome!LockHeld'
    BY <1>1, <1>5, <2>1
  <2>3. browser = 0 /\ page = 0 /\ alive' = {}
    BY <1>0, <2>1 DEF Chrome!Owned, Chrome!Launching
  <2>4. Chrome!Owned'
    BY <2>1, <2>2, <2>3 DEF Chrome!Owned, Chrome!Launching
  <2>5. watchdog' \in Chrome!WatchdogStates /\ Chrome!StillIdle'
    BY <1>0, <2>1, OvertakenEffect
  <2>6. Chrome!TypeOK'
    BY <1>0, <2>1, <2>2, <2>5 DEF Chrome!TypeOK
  <2>. QED
    BY <2>2, <2>4, <2>5, <2>6 DEF Chrome!BrowserInv
<1>8. CASE Chrome!CloseBrowser(c)
  <2>1. /\ browserCaller[c].at = "close" /\ lock = "free" /\ browserCaller' = [browserCaller EXCEPT ![c] = Chrome!Idle] /\ Chrome!Overtaken
        /\ UNCHANGED <<now, lock, cookieFiles, launched>>
        /\ (Chrome!Dropped /\ lastUsed' = 0)
           \/ (browser = 0 /\ UNCHANGED <<browser, page, cdp, alive, cookies, lastUsed>>)
    BY <1>8 DEF Chrome!CloseBrowser, Chrome!slots
  <2>2. /\ browserCaller' \in [BrowserCallers -> Chrome!CallerStates] /\ browserCaller'[c] = Chrome!Idle
        /\ \A d \in BrowserCallers : d # c => browserCaller'[d] = browserCaller[d]
    BY <1>0, <1>1, <2>1
  <2>3. \A d \in BrowserCallers : ~Chrome!Launching(d)'
    BY <1>0, <1>1, <2>1, <2>2 DEF Chrome!LockHeld, Chrome!Launching
  <2>4. Chrome!LockHeld' /\ Chrome!Owned' /\ alive' \subseteq alive
    BY <2>1, <2>3, DroppedOwned
  <2>5. watchdog' \in Chrome!WatchdogStates /\ Chrome!StillIdle'
    BY <1>0, <2>1, OvertakenEffect
  <2>6. Chrome!TypeOK'
    BY <1>0, <2>1, <2>2, <2>4, <2>5 DEF Chrome!TypeOK, Chrome!Dropped
  <2>. QED
    BY <2>4, <2>5, <2>6 DEF Chrome!BrowserInv
<1>. QED
  BY <1>2, <1>3, <1>4, <1>6, <1>7, <1>8

(* The inductive invariant.                                                *)
LEMMA BrowserInvariant ==
  ASSUME MaxLaunch \in Nat, MaxNow \in Nat \ {0}, IdleTimeout \in Nat, "free" \notin BrowserCallers
  PROVE  Chrome!Spec => []Chrome!BrowserInv
<1>1. Chrome!Init => Chrome!BrowserInv
  BY InitBrowser
<1>2. Chrome!BrowserInv /\ [Chrome!Next]_Chrome!browserVars => Chrome!BrowserInv'
  <2>. SUFFICES ASSUME Chrome!BrowserInv, [Chrome!Next]_Chrome!browserVars PROVE Chrome!BrowserInv'
    OBVIOUS
  <2>1. CASE UNCHANGED Chrome!browserVars
    <3>1. Chrome!TypeOK' /\ Chrome!StillIdle'
      BY <2>1 DEF Chrome!browserVars, Chrome!BrowserInv, Chrome!TypeOK, Chrome!StillIdle
    <3>. QED
      BY <2>1, <3>1, StillOwned DEF Chrome!browserVars, Chrome!BrowserInv
  <2>2. CASE Chrome!Next
    BY <2>2, WatchdogKeeps, ToolCallKeeps, LockedKeeps DEF Chrome!Next
  <2>. QED
    BY <2>1, <2>2
<1>. QED
  BY <1>1, <1>2, PTL DEF Chrome!Spec

(* However many chats use the tool, and whatever dies or is closed in      *)
(* between: one browser process at most, and nobody's is lost; outside the *)
(* lock the slots and the handle belong together.                          *)
THEOREM OneBrowserForAll ==
  ASSUME MaxLaunch \in Nat, MaxNow \in Nat \ {0}, IdleTimeout \in Nat, "free" \notin BrowserCallers
  PROVE  Chrome!Spec => [](Chrome!TypeOK /\ Chrome!OneBrowser /\ Chrome!SlotsAgree)
<1>1. Chrome!BrowserInv => Chrome!TypeOK /\ Chrome!OneBrowser /\ Chrome!SlotsAgree
  <2>. SUFFICES ASSUME Chrome!BrowserInv PROVE Chrome!OneBrowser /\ Chrome!SlotsAgree
    BY DEF Chrome!BrowserInv
  <2>0. Chrome!LockHeld /\ Chrome!Owned
    BY DEF Chrome!BrowserInv
  <2>1. \E b : /\ alive \subseteq {b}
               /\ b = browser \/ \E c \in BrowserCallers : lock = c /\ browserCaller[c].page = b
    BY <2>0 DEF Chrome!LockHeld, Chrome!Owned, Chrome!Launching
  <2>2. PICK b : /\ alive \subseteq {b}
                 /\ b = browser \/ \E c \in BrowserCallers : lock = c /\ browserCaller[c].page = b
    BY <2>1
  <2>3. IsFiniteSet({b}) /\ Cardinality({b}) = 1
    BY FS_Singleton
  <2>4. IsFiniteSet(alive) /\ Cardinality(alive) <= Cardinality({b})
    BY <2>2, <2>3, FS_Subset
  <2>5. Cardinality(alive) <= 1
    BY <2>3, <2>4
  <2>. QED
    BY ChromeOps, <2>0, <2>2, <2>5 DEF Chrome!OneBrowser, Chrome!SlotsAgree, Chrome!Owned
<1>. QED
  BY <1>1, BrowserInvariant, PTL

(* The watchdog closes only a browser that is still idle when it has the   *)
(* lock, unless a caller came in between.                                  *)
THEOREM ClosedOnlyWhenIdle ==
  ASSUME MaxLaunch \in Nat, MaxNow \in Nat \ {0}, IdleTimeout \in Nat, "free" \notin BrowserCallers
  PROVE  Chrome!Spec => Chrome!IdleBrowserOnly
<1>1. Chrome!BrowserInv /\ [Chrome!Next]_Chrome!browserVars =>
        [watchdog.at = "lock" /\ watchdog'.at = "asleep" /\ browser # 0 /\ ~watchdog.late =>
           now - lastUsed > IdleTimeout]_Chrome!browserVars
  BY DEF Chrome!BrowserInv, Chrome!StillIdle
<1>. QED
  BY <1>1, BrowserInvariant, PTL DEF Chrome!Spec, Chrome!IdleBrowserOnly

-----------------------------------------------------------------------------
(* LocalVault.                                                             *)

(* A task is idle, about to read the cache, or in a flush.                 *)
LEMMA TaskCases ==
  ASSUME Vlt!TypeOK, NEW t \in VaultTasks
  PROVE  /\ vaultTask[t] = Vlt!Idle \/ vaultTask[t] = Vlt!Snap \/ (Vlt!InFlush(t) /\ vaultTask[t] \in Vlt!Flushes)
         /\ vaultTask[t] = Vlt!Idle => ~Vlt!InFlush(t)
         /\ vaultTask[t] = Vlt!Snap => ~Vlt!InFlush(t)
         /\ Vlt!InFlush(t) => vaultTask[t].json \in Vlt!Secrets /\ vaultTask[t].emptied \in BOOLEAN
         /\ Vlt!Idle # Vlt!Snap
<1>1. vaultTask[t] \in {Vlt!Idle, Vlt!Snap} \cup Vlt!Flushes
  BY DEF Vlt!TypeOK
<1>2. Vlt!Idle.at = "idle" /\ Vlt!Snap.at = "snapshot"
  BY DEF Vlt!Idle, Vlt!Snap
<1>3. \A f \in Vlt!Flushes : f.at = "flush" /\ f.json \in Vlt!Secrets /\ f.emptied \in BOOLEAN
  BY DEF Vlt!Flushes
<1>4. Vlt!Idle # Vlt!Snap
  BY <1>2
<1>. QED
  BY <1>1, <1>2, <1>3, <1>4 DEF Vlt!InFlush

(* A secret is a value and a key.                                          *)
LEMMA SecretParts ==
  ASSUME NEW s \in Vlt!Secrets, NEW k \in DOMAIN s
  PROVE  s[k][2] \in 1..2 /\ s[k][1] \in SecretValues /\ k \in VaultKeys
BY DEF Vlt!Secrets

(* What a store makes of the secrets.                                      *)
LEMMA StoredSecrets ==
  ASSUME NEW s \in Vlt!Secrets, NEW k \in VaultKeys, NEW v \in SecretValues, NEW n \in 1..2, NEW r,
         r = [j \in DOMAIN s \cup {k} |-> IF j = k THEN <<v, n>> ELSE s[j]]
  PROVE  /\ r \in Vlt!Secrets
         /\ \A j \in DOMAIN r : (j = k /\ r[j] = <<v, n>>) \/ (j \in DOMAIN s /\ r[j] = s[j])
<1>0. PICK K \in SUBSET VaultKeys : s \in [K -> SecretValues \X (1..2)]
  BY DEF Vlt!Secrets
<1>1. r \in [K \cup {k} -> SecretValues \X (1..2)] /\ K \cup {k} \in SUBSET VaultKeys
  BY <1>0
<1>2. r \in Vlt!Secrets
  BY <1>1 DEF Vlt!Secrets
<1>. QED
  BY <1>0, <1>2

(* And a delete.                                                           *)
LEMMA RestrictedSecrets ==
  ASSUME NEW s \in Vlt!Secrets, NEW k, NEW r, r = [j \in DOMAIN s \ {k} |-> s[j]]
  PROVE  r \in Vlt!Secrets /\ \A j \in DOMAIN r : j \in DOMAIN s /\ r[j] = s[j]
<1>0. PICK K \in SUBSET VaultKeys : s \in [K -> SecretValues \X (1..2)]
  BY DEF Vlt!Secrets
<1>1. r = [j \in K \ {k} |-> s[j]]
  BY <1>0
<1>2. r \in [K \ {k} -> SecretValues \X (1..2)] /\ K \ {k} \in SUBSET VaultKeys
  BY <1>0, <1>1
<1>3. r \in Vlt!Secrets
  BY <1>2 DEF Vlt!Secrets
<1>. QED
  BY <1>0, <1>1, <1>3

(* A file holds secrets, or none.                                          *)
LEMMA ContentsSecrets ==
  /\ \A f \in {Vlt!Fresh, Vlt!Torn} \cup Vlt!Files : Vlt!Contents(f) \in Vlt!Secrets
  /\ Vlt!Contents(Vlt!Fresh) = Vlt!NoSecrets /\ Vlt!Contents(Vlt!Torn) = Vlt!NoSecrets
  /\ \A s \in Vlt!Secrets : Vlt!File(s) \in Vlt!Files /\ Vlt!Contents(Vlt!File(s)) = s
<1>1. Vlt!Fresh.state = "none" /\ Vlt!Torn.state = "torn"
  BY DEF Vlt!Fresh, Vlt!Torn
<1>2. Vlt!NoSecrets \in Vlt!Secrets
  <2>1. Vlt!NoSecrets \in [{} -> SecretValues \X (1..2)] /\ {} \in SUBSET VaultKeys
    BY DEF Vlt!NoSecrets
  <2>. QED
    BY <2>1 DEF Vlt!Secrets
<1>3. \A f \in Vlt!Files : f.state = "whole" /\ f.secrets \in Vlt!Secrets
  BY DEF Vlt!Files
<1>4. \A s \in Vlt!Secrets : Vlt!File(s) \in Vlt!Files /\ Vlt!Contents(Vlt!File(s)) = s
  BY DEF Vlt!File, Vlt!Files, Vlt!Contents
<1>. QED
  BY <1>1, <1>2, <1>3, <1>4 DEF Vlt!Contents

(* The vault starts without key, secrets and tasks.                        *)
LEMMA InitVaultInv ==
  ASSUME Vlt!Init, MaxVaultCalls \in Nat, "error" \notin SecretValues
  PROVE  Vlt!VaultInv
<1>1. Vlt!NoSecrets \in Vlt!Secrets /\ DOMAIN Vlt!NoSecrets = {} /\ Vlt!Contents(Vlt!Fresh) = Vlt!NoSecrets
  BY ContentsSecrets DEF Vlt!NoSecrets
<1>2. Vlt!TypeOK
  <2>0. vaultCalls = 0
    BY DEF Vlt!Init
  <2>1. vaultCalls \in 0..MaxVaultCalls
    BY <2>0
  <2>2. behind \in BOOLEAN
    BY DEF Vlt!Init
  <2>3. vaultTask \in [VaultTasks -> {Vlt!Idle, Vlt!Snap} \cup Vlt!Flushes]
    BY DEF Vlt!Init
  <2>. QED
    BY <1>1, <2>1, <2>2, <2>3 DEF Vlt!Init, Vlt!TypeOK
<1>3. \A t \in VaultTasks : vaultTask[t] = Vlt!Idle /\ ~Vlt!InFlush(t)
  BY <1>2, TaskCases DEF Vlt!Init
<1>4. Vlt!Readable(cache) /\ Vlt!Readable(Vlt!Contents(file))
  BY <1>1 DEF Vlt!Init, Vlt!Readable
<1>. QED
  BY <1>2, <1>3, <1>4 DEF Vlt!Init, Vlt!VaultInv, Vlt!Stages, Vlt!UnderKey, Vlt!Following

(* Opening the vault, and the end of its process.                          *)
LEMMA OpeningKeeps ==
  ASSUME Vlt!VaultInv, Vlt!WithDir \/ Vlt!EnsureKey \/ Vlt!Load \/ Vlt!Crash
  PROVE  Vlt!VaultInv'
<1>0. Vlt!TypeOK /\ Vlt!Stages /\ Vlt!UnderKey /\ Vlt!Following
  BY DEF Vlt!VaultInv
<1>1. \A t \in VaultTasks : vaultTask[t] = Vlt!Idle => ~Vlt!InFlush(t)
  BY <1>0, TaskCases
<1>2. /\ cache \in Vlt!Secrets /\ Vlt!Contents(file) \in Vlt!Secrets
      /\ Vlt!NoSecrets \in Vlt!Secrets /\ DOMAIN Vlt!NoSecrets = {} /\ Vlt!Contents(Vlt!Fresh) = Vlt!NoSecrets
  BY <1>0, ContentsSecrets DEF Vlt!TypeOK, Vlt!NoSecrets
<1>3. CASE Vlt!WithDir
  <2>1. Vlt!TypeOK' /\ Vlt!Stages'
    BY <1>0, <1>3 DEF Vlt!WithDir, Vlt!TypeOK, Vlt!Stages, Vlt!NeedsKey
  <2>2. Vlt!UnderKey' /\ Vlt!Following'
    BY <1>0, <1>3 DEF Vlt!WithDir, Vlt!UnderKey, Vlt!Following, Vlt!Readable, Vlt!InFlush
  <2>. QED
    BY <2>1, <2>2 DEF Vlt!VaultInv
<1>4. CASE Vlt!EnsureKey
  <2>1. /\ process \in {"making key", "writing key"} /\ process' # "open"
        /\ UNCHANGED <<file, cache, vaultTask, answer, vaultCalls, behind>>
        /\ keyFile \in {Vlt!NoKey, Vlt!ShortKey}
    BY <1>0, <1>4 DEF Vlt!EnsureKey, Vlt!Stages
  <2>2. Vlt!TypeOK' /\ Vlt!Stages'
    BY <1>0, <1>4 DEF Vlt!EnsureKey, Vlt!TypeOK, Vlt!Stages
  <2>3. \A s \in Vlt!Secrets : Vlt!Readable(s) => DOMAIN s = {}
    <3>1. ASSUME NEW s \in Vlt!Secrets, Vlt!Readable(s), NEW k \in DOMAIN s PROVE FALSE
      <4>1. s[k][2] = keyFile /\ s[k][2] \in 1..2
        BY <3>1, SecretParts DEF Vlt!Readable
      <4>2. keyFile \in 1..2
        BY <4>1
      <4>3. keyFile = 0 \/ keyFile = -1
        BY <2>1 DEF Vlt!NoKey, Vlt!ShortKey
      <4>. QED
        BY <4>2, <4>3
    <3>. QED
      BY <3>1
  <2>4. DOMAIN cache = {} /\ DOMAIN Vlt!Contents(file) = {}
    BY <1>0, <1>2, <2>3 DEF Vlt!UnderKey
  <2>5. Vlt!Readable(cache)' /\ Vlt!Readable(Vlt!Contents(file))'
    BY <2>1, <2>4 DEF Vlt!Readable
  <2>6. \A t \in VaultTasks : vaultTask[t] = Vlt!Idle
    BY <1>0, <2>1 DEF Vlt!Stages
  <2>7. Vlt!UnderKey'
    BY <1>0, <1>1, <2>1, <2>5, <2>6 DEF Vlt!UnderKey, Vlt!InFlush
  <2>8. Vlt!Following'
    BY <2>1 DEF Vlt!Following
  <2>. QED
    BY <2>2, <2>7, <2>8 DEF Vlt!VaultInv
<1>5. CASE Vlt!Load
  <2>1. /\ process = "loading" /\ cache' = Vlt!Contents(file) /\ process' \in {"failed", "open"}
        /\ UNCHANGED <<keyFile, file, vaultTask, answer, vaultCalls, behind>>
    BY <1>5 DEF Vlt!Load, Vlt!Contents
  <2>2. \A t \in VaultTasks : vaultTask[t] = Vlt!Idle
    BY <1>0, <2>1 DEF Vlt!Stages
  <2>3. Vlt!TypeOK' /\ Vlt!Stages'
    BY <1>0, <1>2, <2>1, <2>2 DEF Vlt!TypeOK, Vlt!Stages
  <2>4. Vlt!UnderKey'
    BY <1>0, <1>1, <2>1, <2>2 DEF Vlt!UnderKey, Vlt!InFlush, Vlt!Readable
  <2>5. Vlt!Following'
    BY <1>1, <2>1, <2>2 DEF Vlt!Following, Vlt!InFlush
  <2>. QED
    BY <2>3, <2>4, <2>5 DEF Vlt!VaultInv
<1>6. CASE Vlt!Crash
  <2>1. /\ process' = "down" /\ cache' = Vlt!NoSecrets /\ behind' = FALSE
        /\ vaultTask' = [t \in VaultTasks |-> Vlt!Idle] /\ UNCHANGED <<keyFile, file, answer, vaultCalls>>
    BY <1>6 DEF Vlt!Crash
  <2>2. Vlt!TypeOK' /\ Vlt!Stages'
    BY <1>0, <1>2, <2>1 DEF Vlt!TypeOK, Vlt!Stages
  <2>3. \A t \in VaultTasks : ~Vlt!InFlush(t)'
    BY <2>1 DEF Vlt!InFlush, Vlt!Idle
  <2>4. Vlt!UnderKey'
    BY <1>0, <1>2, <2>1, <2>3 DEF Vlt!UnderKey, Vlt!Readable
  <2>5. Vlt!Following'
    BY <2>1 DEF Vlt!Following
  <2>. QED
    BY <2>2, <2>4, <2>5 DEF Vlt!VaultInv
<1>. QED
  BY <1>3, <1>4, <1>5, <1>6

(* A call of the vault.  One that changes the cache will read it again.    *)
LEMMA VaultCallKeeps ==
  ASSUME Vlt!VaultInv, MaxVaultCalls \in Nat, "error" \notin SecretValues, NEW t \in VaultTasks, NEW k \in VaultKeys,
         Vlt!DeleteSecret(t, k) \/ Vlt!GetSecret(t, k) \/ \E v \in SecretValues : Vlt!StoreSecret(t, k, v)
  PROVE  Vlt!VaultInv'
<1>0. Vlt!TypeOK /\ Vlt!Stages /\ Vlt!UnderKey /\ Vlt!Following
  BY DEF Vlt!VaultInv
<1>1. /\ process = "open" /\ vaultTask[t] = Vlt!Idle /\ vaultCalls' \in 0..MaxVaultCalls
      /\ UNCHANGED <<keyFile, file, process, behind>>
  <2>1. Vlt!May(t) /\ vaultCalls' = vaultCalls + 1 /\ UNCHANGED <<keyFile, file, process, behind>>
    BY DEF Vlt!DeleteSecret, Vlt!GetSecret, Vlt!StoreSecret
  <2>2. vaultCalls \in 0..MaxVaultCalls
    BY <1>0 DEF Vlt!TypeOK
  <2>. QED
    BY <2>1, <2>2 DEF Vlt!May
<1>2. ~Vlt!InFlush(t)
  BY <1>0, <1>1, TaskCases
<1>3. ASSUME cache' \in Vlt!Secrets, Vlt!Readable(cache'), vaultTask' = [vaultTask EXCEPT ![t] = Vlt!Snap],
             UNCHANGED answer
      PROVE  Vlt!VaultInv'
  <2>1. vaultTask'[t] = Vlt!Snap /\ \A u \in VaultTasks : u # t => vaultTask'[u] = vaultTask[u]
    BY <1>0, <1>3 DEF Vlt!TypeOK
  <2>2. ~Vlt!InFlush(t)' /\ \A u \in VaultTasks : u # t => (Vlt!InFlush(u)' <=> Vlt!InFlush(u))
    BY <2>1 DEF Vlt!InFlush, Vlt!Snap
  <2>3. Vlt!TypeOK' /\ Vlt!Stages'
    BY <1>0, <1>1, <1>3 DEF Vlt!TypeOK, Vlt!Stages
  <2>4. Vlt!Readable(cache)' /\ Vlt!Readable(Vlt!Contents(file))'
    BY <1>0, <1>1, <1>3 DEF Vlt!Readable, Vlt!UnderKey
  <2>5. \A u \in VaultTasks : Vlt!InFlush(u)' => Vlt!Readable(vaultTask'[u].json)
    BY <1>0, <2>1, <2>2 DEF Vlt!UnderKey
  <2>6. Vlt!UnderKey'
    BY <1>0, <1>1, <1>3, <2>4, <2>5 DEF Vlt!UnderKey, Vlt!Readable
  <2>7. Vlt!Following'
    BY <1>0, <1>1, <2>1, <2>2 DEF Vlt!Following
  <2>. QED
    BY <2>3, <2>6, <2>7 DEF Vlt!VaultInv
<1>4. CASE Vlt!DeleteSecret(t, k)
  <2>1. cache' \in Vlt!Secrets /\ \A j \in DOMAIN cache' : j \in DOMAIN cache /\ cache'[j] = cache[j]
    <3>1. cache \in Vlt!Secrets /\ cache' = [j \in DOMAIN cache \ {k} |-> cache[j]]
      BY VltOps, <1>0, <1>4 DEF Vlt!DeleteSecret, Vlt!TypeOK, Restrict
    <3>. QED
      BY <3>1, RestrictedSecrets
  <2>2. Vlt!Readable(cache')
    BY <1>0, <2>1 DEF Vlt!Readable, Vlt!UnderKey
  <2>. QED
    BY <1>3, <1>4, <2>1, <2>2 DEF Vlt!DeleteSecret
<1>5. ASSUME UNCHANGED <<cache, vaultTask>>, answer' \in {"", "none"} \cup SecretValues PROVE Vlt!VaultInv'
  <2>1. Vlt!TypeOK' /\ Vlt!Stages'
    BY <1>0, <1>1, <1>5 DEF Vlt!TypeOK, Vlt!Stages
  <2>2. Vlt!UnderKey' /\ Vlt!Following'
    BY <1>0, <1>1, <1>5 DEF Vlt!UnderKey, Vlt!Following, Vlt!Readable, Vlt!InFlush
  <2>. QED
    BY <2>1, <2>2 DEF Vlt!VaultInv
<1>6. CASE Vlt!GetSecret(t, k)
  <2>1. UNCHANGED <<cache, vaultTask>>
    BY <1>6 DEF Vlt!GetSecret
  <2>2. CASE k \in DOMAIN cache
    <3>1. cache[k][2] = keyFile /\ cache[k][2] \in 1..2 /\ cache[k][1] \in SecretValues
      BY <1>0, <2>2, SecretParts DEF Vlt!UnderKey, Vlt!Readable, Vlt!TypeOK
    <3>2. Vlt!HasKey
      BY <3>1 DEF Vlt!HasKey, Vlt!NoKey, Vlt!ShortKey
    <3>3. answer' = cache[k][1]
      BY <1>6, <2>2, <3>1, <3>2 DEF Vlt!GetSecret, Vlt!Decrypt
    <3>. QED
      BY <1>5, <2>1, <3>1, <3>3
  <2>3. CASE k \notin DOMAIN cache
    BY <1>5, <1>6, <2>1, <2>3 DEF Vlt!GetSecret
  <2>. QED
    BY <2>2, <2>3
<1>7. ASSUME NEW v \in SecretValues, Vlt!StoreSecret(t, k, v) PROVE Vlt!VaultInv'
  <2>1. CASE ~Vlt!HasKey
    <3>1. answer \in {"", "none"} \cup SecretValues
      BY <1>0 DEF Vlt!TypeOK, Vlt!UnderKey
    <3>. QED
      BY <1>5, <1>7, <2>1, <3>1 DEF Vlt!StoreSecret
  <2>2. CASE Vlt!HasKey
    <3>1. keyFile \in 1..2
      BY <1>0, <2>2 DEF Vlt!HasKey, Vlt!TypeOK
    <3>2. /\ cache' \in Vlt!Secrets
          /\ \A j \in DOMAIN cache' : (j = k /\ cache'[j] = <<v, keyFile>>)
                                      \/ (j \in DOMAIN cache /\ cache'[j] = cache[j])
      <4>1. /\ cache \in Vlt!Secrets
            /\ cache' = [j \in DOMAIN cache \cup {k} |-> IF j = k THEN <<v, keyFile>> ELSE cache[j]]
        BY <1>0, <1>7, <2>2 DEF Vlt!StoreSecret, Vlt!TypeOK
      <4>. QED
        BY <3>1, <4>1, StoredSecrets
    <3>3. Vlt!Readable(cache')
      BY <1>0, <3>2 DEF Vlt!Readable, Vlt!UnderKey
    <3>. QED
      BY <1>3, <1>7, <2>2, <3>2, <3>3 DEF Vlt!StoreSecret
  <2>. QED
    BY <2>1, <2>2
<1>. QED
  BY <1>4, <1>6, <1>7

(* The steps of a flush.                                                   *)
LEMMA FlushKeeps ==
  ASSUME Vlt!VaultInv, NEW t \in VaultTasks,
         Vlt!Snapshot(t) \/ Vlt!Truncate(t) \/ Vlt!Write(t) \/ Vlt!WriteFails(t)
  PROVE  Vlt!VaultInv'
<1>0. Vlt!TypeOK /\ Vlt!Stages /\ Vlt!UnderKey /\ Vlt!Following
  BY DEF Vlt!VaultInv
<1>1. /\ vaultTask \in [VaultTasks -> {Vlt!Idle, Vlt!Snap} \cup Vlt!Flushes] /\ cache \in Vlt!Secrets
      /\ file \in {Vlt!Fresh, Vlt!Torn} \cup Vlt!Files /\ behind \in BOOLEAN
  BY <1>0 DEF Vlt!TypeOK
<1>2. vaultTask[t] # Vlt!Idle /\ process = "open" /\ UNCHANGED <<keyFile, cache, process, answer, vaultCalls>>
  <2>1. vaultTask[t].at \in {"snapshot", "flush"}
    BY DEF Vlt!Snapshot, Vlt!Truncate, Vlt!Write, Vlt!WriteFails, Vlt!InFlush
  <2>2. vaultTask[t] # Vlt!Idle
    BY <2>1 DEF Vlt!Idle
  <2>3. process = "open"
    BY <1>0, <2>2 DEF Vlt!Stages
  <2>. QED
    BY <2>2, <2>3 DEF Vlt!Snapshot, Vlt!Truncate, Vlt!Write, Vlt!WriteFails
<1>3. \A u \in VaultTasks : /\ vaultTask[u] \in {Vlt!Idle, Vlt!Snap} => ~Vlt!InFlush(u)
                            /\ Vlt!InFlush(u) => vaultTask[u] \in Vlt!Flushes
                            /\ vaultTask[u] \in {Vlt!Idle, Vlt!Snap} \/ Vlt!InFlush(u)
  BY <1>0, TaskCases
<1>4. \A u \in VaultTasks : u # t => vaultTask'[u] = vaultTask[u] /\ (Vlt!InFlush(u)' <=> Vlt!InFlush(u))
  BY <1>1 DEF Vlt!Snapshot, Vlt!Truncate, Vlt!Write, Vlt!WriteFails, Vlt!InFlush
<1>5. ASSUME vaultTask'[t] \in {Vlt!Idle, Vlt!Snap} \cup Vlt!Flushes, vaultTask' = [vaultTask EXCEPT ![t] = vaultTask'[t]],
             file' \in {Vlt!Fresh, Vlt!Torn} \cup Vlt!Files, behind' \in BOOLEAN,
             Vlt!Readable(Vlt!Contents(file')), Vlt!InFlush(t)' => Vlt!Readable(vaultTask'[t].json), Vlt!Following'
      PROVE  Vlt!VaultInv'
  <2>1. vaultTask' \in [VaultTasks -> {Vlt!Idle, Vlt!Snap} \cup Vlt!Flushes]
    BY <1>1, <1>5
  <2>2. Vlt!TypeOK'
    BY <1>0, <1>2, <1>5, <2>1 DEF Vlt!TypeOK
  <2>3. Vlt!Stages'
    BY <1>2 DEF Vlt!Stages
  <2>4. \A u \in VaultTasks : Vlt!InFlush(u)' => Vlt!Readable(vaultTask'[u].json)
    BY <1>0, <1>4, <1>5 DEF Vlt!UnderKey
  <2>5. Vlt!UnderKey'
    BY <1>0, <1>2, <1>5, <2>4 DEF Vlt!UnderKey, Vlt!Readable
  <2>. QED
    BY <1>5, <2>2, <2>3, <2>5 DEF Vlt!VaultInv
<1>6. CASE Vlt!Snapshot(t)
  <2>1. /\ vaultTask' = [vaultTask EXCEPT ![t] = Vlt!Flushing(cache, FALSE)] /\ UNCHANGED file
        /\ behind' = (behind \/ ~Vlt!Alone(t))
    BY <1>6 DEF Vlt!Snapshot
  <2>2. vaultTask'[t] = Vlt!Flushing(cache, FALSE)
    BY <1>1, <2>1
  <2>3. /\ Vlt!Flushing(cache, FALSE) \in Vlt!Flushes
        /\ vaultTask'[t].json = cache /\ ~vaultTask'[t].emptied /\ Vlt!InFlush(t)'
    BY <1>1, <2>2 DEF Vlt!Flushing, Vlt!Flushes, Vlt!InFlush
  <2>4. ~behind' => \A u \in VaultTasks : u # t => ~Vlt!InFlush(u)'
    BY <1>4, <2>1 DEF Vlt!Alone
  <2>5. Vlt!Following'
    BY <1>2, <2>3, <2>4 DEF Vlt!Following
  <2>6. behind' \in BOOLEAN
    BY <2>1
  <2>7. Vlt!Readable(Vlt!Contents(file')) /\ Vlt!Readable(vaultTask'[t].json)
    BY <1>0, <2>1, <2>3 DEF Vlt!UnderKey
  <2>. QED
    BY <1>1, <1>5, <2>1, <2>2, <2>3, <2>5, <2>6, <2>7
<1>7. CASE Vlt!Truncate(t)
  <2>1. /\ Vlt!InFlush(t) /\ file' = Vlt!Fresh /\ vaultTask' = [vaultTask EXCEPT ![t].emptied = TRUE]
        /\ UNCHANGED behind
    BY <1>7 DEF Vlt!Truncate
  <2>2. vaultTask[t] \in Vlt!Flushes
    BY <1>3, <2>1
  <2>3. vaultTask'[t] \in Vlt!Flushes /\ vaultTask'[t].json = vaultTask[t].json /\ Vlt!InFlush(t)'
    BY <1>1, <2>1, <2>2 DEF Vlt!Flushes, Vlt!InFlush
  <2>4. vaultTask' = [vaultTask EXCEPT ![t] = vaultTask'[t]]
    BY <1>1, <2>1
  <2>5. \A u \in VaultTasks : (vaultTask'[u] = Vlt!Snap <=> vaultTask[u] = Vlt!Snap) /\ (Vlt!InFlush(u)' <=> Vlt!InFlush(u))
                         /\ (Vlt!InFlush(u) => vaultTask'[u].json = vaultTask[u].json)
    <3>1. vaultTask[t] # Vlt!Snap /\ vaultTask'[t] # Vlt!Snap
      BY <2>1, <2>3 DEF Vlt!InFlush, Vlt!Snap
    <3>. QED
      BY <1>4, <2>1, <2>3, <3>1
  <2>6. Vlt!Following'
    <3>1. SUFFICES ASSUME ~behind' PROVE Vlt!Following'
      BY DEF Vlt!Following
    <3>2. \/ \E u \in VaultTasks : vaultTask'[u] = Vlt!Snap
          \/ \E u \in VaultTasks : Vlt!InFlush(u)' /\ vaultTask'[u].json = cache
      BY <1>0, <1>2, <1>3, <2>1, <2>5, <3>1 DEF Vlt!Following
    <3>. QED
      BY <1>0, <1>2, <2>1, <2>5, <3>1, <3>2 DEF Vlt!Following
  <2>7. Vlt!Readable(Vlt!Contents(file')) /\ Vlt!Readable(vaultTask'[t].json)
    <3>1. DOMAIN Vlt!Contents(file') = {}
      BY <2>1, ContentsSecrets DEF Vlt!NoSecrets
    <3>. QED
      BY <1>0, <2>1, <2>3, <3>1 DEF Vlt!UnderKey, Vlt!Readable
  <2>. QED
    BY <1>1, <1>5, <2>1, <2>3, <2>4, <2>6, <2>7
<1>8. CASE Vlt!Write(t)
  <2>1. /\ Vlt!InFlush(t) /\ vaultTask[t].emptied /\ file' = Vlt!Overlay(file, vaultTask[t].json)
        /\ vaultTask' = [vaultTask EXCEPT ![t] = Vlt!Idle]
        /\ behind' = (behind /\ ~(Vlt!Alone(t) /\ file' = Vlt!File(cache)))
    BY <1>8 DEF Vlt!Write
  <2>2. vaultTask[t].json \in Vlt!Secrets
    BY <1>3, <2>1 DEF Vlt!Flushes
  <2>3. vaultTask'[t] = Vlt!Idle /\ ~Vlt!InFlush(t)'
    BY <1>1, <2>1 DEF Vlt!InFlush, Vlt!Idle
  <2>4. file' = Vlt!Torn \/ file' = Vlt!File(vaultTask[t].json)
    BY <2>1 DEF Vlt!Overlay
  <2>5. file' \in {Vlt!Fresh, Vlt!Torn} \cup Vlt!Files /\ Vlt!Readable(Vlt!Contents(file'))
    <3>1. Vlt!Readable(vaultTask[t].json)
      BY <1>0, <2>1 DEF Vlt!UnderKey
    <3>2. DOMAIN Vlt!Contents(Vlt!Torn) = {}
      BY ContentsSecrets DEF Vlt!NoSecrets
    <3>. QED
      BY <2>2, <2>4, <3>1, <3>2, ContentsSecrets DEF Vlt!Readable
  <2>6. behind' \in BOOLEAN
    BY <2>1
  <2>7. Vlt!Following'
    <3>1. CASE ~behind
      <4>1. file = Vlt!Fresh /\ \A u \in VaultTasks : Vlt!InFlush(u) => u = t
        BY <1>0, <1>2, <2>1, <3>1 DEF Vlt!Following
      <4>2. file' = Vlt!File(vaultTask[t].json)
        BY <2>1, <4>1 DEF Vlt!Overlay, Vlt!Fresh, Vlt!Torn
      <4>3. \A u \in VaultTasks : ~Vlt!InFlush(u)'
        BY <1>4, <2>3, <4>1
      <4>4. CASE \E u \in VaultTasks : vaultTask[u] = Vlt!Snap
        <5>1. \E u \in VaultTasks : vaultTask'[u] = Vlt!Snap
          BY <1>3, <1>4, <2>1, <4>4
        <5>. QED
          BY <4>3, <5>1 DEF Vlt!Following
      <4>5. CASE \A u \in VaultTasks : vaultTask[u] # Vlt!Snap
        <5>1. vaultTask[t].json = cache
          BY <1>0, <1>2, <2>1, <3>1, <4>1, <4>5 DEF Vlt!Following
        <5>2. \A u \in VaultTasks : vaultTask'[u] = Vlt!Idle
          BY <1>3, <1>4, <2>3, <4>1, <4>5
        <5>3. Vlt!Contents(file') = cache
          BY <1>1, <4>2, <5>1, ContentsSecrets
        <5>. QED
          BY <1>2, <4>3, <5>2, <5>3 DEF Vlt!Following
      <4>. QED
        BY <4>4, <4>5
    <3>2. CASE behind /\ ~behind'
      <4>1. Vlt!Alone(t) /\ file' = Vlt!File(cache)
        BY <2>1, <3>2
      <4>2. \A u \in VaultTasks : ~Vlt!InFlush(u)'
        BY <1>4, <2>3, <4>1 DEF Vlt!Alone
      <4>3. Vlt!Contents(file') = cache
        BY <1>1, <4>1, ContentsSecrets
      <4>4. (\A u \in VaultTasks : vaultTask'[u] = Vlt!Idle) \/ \E u \in VaultTasks : vaultTask'[u] = Vlt!Snap
        BY <1>3, <1>4, <2>3, <4>2
      <4>. QED
        BY <1>2, <4>2, <4>3, <4>4 DEF Vlt!Following
    <3>3. CASE behind'
      BY <3>3 DEF Vlt!Following
    <3>. QED
      BY <3>1, <3>2, <3>3
  <2>. QED
    BY <1>5, <2>1, <2>3, <2>5, <2>6, <2>7
<1>9. CASE Vlt!WriteFails(t)
  <2>1. vaultTask' = [vaultTask EXCEPT ![t] = Vlt!Idle] /\ behind' = TRUE /\ UNCHANGED file
    BY <1>9 DEF Vlt!WriteFails
  <2>2. vaultTask'[t] = Vlt!Idle /\ ~Vlt!InFlush(t)'
    BY <1>1, <2>1 DEF Vlt!InFlush, Vlt!Idle
  <2>3. Vlt!Following'
    BY <2>1 DEF Vlt!Following
  <2>4. Vlt!Readable(Vlt!Contents(file'))
    BY <1>0, <2>1 DEF Vlt!UnderKey
  <2>. QED
    BY <1>1, <1>5, <2>1, <2>2, <2>3, <2>4
<1>. QED
  BY <1>6, <1>7, <1>8, <1>9

(* The inductive invariant of the vault.                                   *)
LEMMA VaultInvariant ==
  ASSUME MaxVaultCalls \in Nat, "error" \notin SecretValues
  PROVE  Vlt!Spec => []Vlt!VaultInv
<1>1. Vlt!Init => Vlt!VaultInv
  BY InitVaultInv
<1>2. Vlt!VaultInv /\ [Vlt!Next]_Vlt!vaultVars => Vlt!VaultInv'
  <2>. SUFFICES ASSUME Vlt!VaultInv, [Vlt!Next]_Vlt!vaultVars PROVE Vlt!VaultInv'
    OBVIOUS
  <2>1. CASE UNCHANGED Vlt!vaultVars
    BY <2>1 DEF Vlt!vaultVars, Vlt!VaultInv, Vlt!TypeOK, Vlt!Stages, Vlt!UnderKey, Vlt!Following, Vlt!Readable, Vlt!InFlush
  <2>2. CASE Vlt!Next
    BY <2>2, OpeningKeeps, VaultCallKeeps, FlushKeeps DEF Vlt!Next
  <2>. QED
    BY <2>1, <2>2
<1>. QED
  BY <1>1, <1>2, PTL DEF Vlt!Spec

(* What was stored can be decrypted with the key on disk, however often    *)
(* the process dies, also while the key is made.  "error" stands for the   *)
(* failure of get_secret and is nobody's plaintext.                        *)
THEOREM SecretsStayReadable ==
  ASSUME MaxVaultCalls \in Nat, "error" \notin SecretValues
  PROVE  Vlt!Spec => [](Vlt!TypeOK /\ Vlt!SecretsReadable)
<1>1. Vlt!VaultInv => Vlt!TypeOK /\ Vlt!SecretsReadable
  BY DEF Vlt!VaultInv, Vlt!UnderKey, Vlt!Readable, Vlt!Contents, Vlt!SecretsReadable
<1>. QED
  BY <1>1, VaultInvariant, PTL

(* A vault at rest finds on disk what it has in memory, unless flushes     *)
(* overlapped or failed since the last one that ran alone.                 *)
THEOREM FileIsCurrent ==
  ASSUME MaxVaultCalls \in Nat, "error" \notin SecretValues
  PROVE  Vlt!Spec => []Vlt!VaultFileCurrent
<1>1. Vlt!VaultInv => Vlt!VaultFileCurrent
  <2>. SUFFICES ASSUME Vlt!VaultInv, process = "open", ~behind, \A t \in VaultTasks : vaultTask[t] = Vlt!Idle
                PROVE  cache = Vlt!Contents(file)
    BY DEF Vlt!VaultFileCurrent, Vlt!Contents
  <2>1. \A t \in VaultTasks : ~Vlt!InFlush(t) /\ vaultTask[t] # Vlt!Snap
    BY TaskCases DEF Vlt!VaultInv
  <2>. QED
    BY <2>1 DEF Vlt!VaultInv, Vlt!Following
<1>. QED
  BY <1>1, VaultInvariant, PTL

-----------------------------------------------------------------------------
(* Credentials and hot reload.                                             *)

LEMMA KindsDiffer ==
  /\ \A f \in Cred!Contents : f # <<>>
  /\ \A w \in Cred!Conf : w # Cred!None
  /\ \A c \in [name : STRING, key : STRING, model : STRING] : c # Cred!None
<1>1. ASSUME NEW f \in Cred!Contents PROVE f # <<>>
  <2>1. "active" \in DOMAIN f
    BY DEF Cred!Contents
  <2>2. DOMAIN <<>> = {}
    OBVIOUS
  <2>. QED
    BY <2>1, <2>2
<1>2. ASSUME NEW w \in Cred!Conf PROVE w # Cred!None
  <2>1. "keys" \in DOMAIN w
    BY DEF Cred!Conf
  <2>2. "keys" \notin DOMAIN Cred!None
    BY DEF Cred!None
  <2>. QED
    BY <2>1, <2>2
<1>3. ASSUME NEW c \in [name : STRING, key : STRING, model : STRING] PROVE c # Cred!None
  <2>1. "key" \in DOMAIN c
    OBVIOUS
  <2>2. "key" \notin DOMAIN Cred!None
    BY DEF Cred!None
  <2>. QED
    BY <2>1, <2>2
<1>. QED
  BY <1>1, <1>2, <1>3

LEMMA ValidKeysIs ==
  ASSUME NEW keys \in Seq(STRING)
  PROVE  /\ Cred!ValidKeys(keys) \in Seq(STRING)
         /\ Range(Cred!ValidKeys(keys)) = {k \in Range(keys) : k \notin Placeholders}
         /\ (\E k \in Range(keys) : k \notin Placeholders) => Cred!ValidKeys(keys) # <<>>
<1>. DEFINE K == {i \in DOMAIN keys : keys[i] \notin Placeholders}
<1>1. Cred!Pick(keys, K) \in Seq(STRING) /\ Range(Cred!Pick(keys, K)) = {keys[i] : i \in K}
  <2>1. K \subseteq DOMAIN keys
    OBVIOUS
  <2>. HIDE DEF K
  <2>. QED
    BY <2>1, PickElems
<1>2. {keys[i] : i \in K} = {k \in Range(keys) : k \notin Placeholders}
  BY DEF Range
<1>3. Cred!ValidKeys(keys) = Cred!Pick(keys, K)
  BY DEF Cred!ValidKeys
<1>4. Range(<<>>) = {}
  BY DEF Range
<1>. QED
  BY <1>1, <1>2, <1>3, <1>4

(* The entry an index names, its keys among the keys of the file.            *)
LEMMA EntryIs ==
  ASSUME NEW f \in Cred!Contents, NEW i \in DOMAIN f.providers
  PROVE  /\ f.providers[i] \in Cred!Entries
         /\ f.providers[i].keys \in Seq(STRING)
         /\ f.providers[i].name \in STRING /\ f.providers[i].model \in STRING
         /\ f.providers[i].base \in Cred!Text
         /\ Range(f.providers[i].keys) \subseteq Cred!KeysIn(f)
<1>1. f.providers[i] \in Cred!Entries
  BY DEF Cred!Contents
<1>2. Range(f.providers[i].keys) \subseteq Cred!KeysIn(f)
  BY CredOps, KindsDiffer DEF Cred!KeysIn
<1>. QED
  BY <1>1, <1>2 DEF Cred!Entries

LEMMA FirstIs ==
  ASSUME NEW T, NEW s \in Seq(T), NEW S \in SUBSET DOMAIN s, S # {}
  PROVE  (CHOOSE i \in S : \A j \in S : i <= j) \in S
<1>1. S \in SUBSET Nat
  OBVIOUS
<1>. QED
  BY <1>1, LeastIn

LEMMA ActiveIs ==
  ASSUME NEW f \in Cred!Contents, Cred!Found(f) # {}
  PROVE  \E i \in DOMAIN f.providers : Cred!ActiveEntry(f) = f.providers[i]
<1>1. Cred!Found(f) \in SUBSET DOMAIN f.providers /\ f.providers \in Seq(Cred!Entries)
  BY DEF Cred!Found, Cred!Contents
<1>2. (CHOOSE i \in Cred!Found(f) : \A j \in Cred!Found(f) : i <= j) \in Cred!Found(f)
  BY <1>1, FirstIs
<1>. QED
  BY <1>1, <1>2 DEF Cred!ActiveEntry

(* The file yields a configuration exactly when it has an entry.             *)
LEMMA LoadActiveIs ==
  ASSUME NEW f \in {<<>>} \union Cred!Contents, Cred!Usable(f)
  PROVE  /\ Cred!LoadActive(f) = Cred!None <=> ~Cred!Filled(f)
         /\ Cred!Load(f) = <<>> <=> ~Cred!Filled(f)
         /\ Cred!Filled(f) => /\ f \in Cred!Contents
                              /\ Cred!LoadActive(f) \in Cred!Conf /\ Cred!LoadActive(f).keys # <<>>
                              /\ Range(Cred!LoadActive(f).keys) \subseteq Cred!KeysIn(f)
<1>1. Cred!Load(f) = <<>> <=> ~Cred!Filled(f)
  BY KindsDiffer DEF Cred!Load, Cred!Filled
<1>2. CASE ~Cred!Filled(f)
  BY <1>1, <1>2 DEF Cred!LoadActive
<1>3. CASE Cred!Filled(f)
  <2>1. f \in Cred!Contents
    BY <1>3 DEF Cred!Filled
  <2>2. f.providers \in Seq(Cred!Entries) /\ f.providers # <<>>
    BY <2>1, <1>3 DEF Cred!Filled, Cred!Contents
  <2>3. 1 \in DOMAIN f.providers
    BY <2>2
  <2>. DEFINE p == IF Cred!Found(f) = {} THEN f.providers[1] ELSE Cred!ActiveEntry(f)
  <2>4. PICK i \in DOMAIN f.providers : p = f.providers[i]
    BY <2>1, <2>3, ActiveIs
  <2>5. /\ p.keys \in Seq(STRING) /\ p.name \in STRING /\ p.model \in STRING /\ p.base \in Cred!Text
        /\ Range(p.keys) \subseteq Cred!KeysIn(f)
    BY <2>1, <2>4, EntryIs
  <2>6. \E k \in Range(p.keys) : k \notin Placeholders
    BY CredOps, <2>1, <2>4, KindsDiffer DEF Cred!Usable
  <2>7. /\ Cred!ValidKeys(p.keys) \in Seq(STRING) /\ Cred!ValidKeys(p.keys) # <<>>
        /\ Range(Cred!ValidKeys(p.keys)) \subseteq Cred!KeysIn(f)
    BY <2>5, <2>6, ValidKeysIs
  <2>8. Cred!LoadActive(f) = [name |-> p.name, keys |-> Cred!ValidKeys(p.keys), model |-> p.model, base |-> p.base]
    BY <1>1, <1>3, <2>7 DEF Cred!LoadActive
  <2>. HIDE DEF p
  <2>9. Cred!LoadActive(f) \in Cred!Conf
    BY <2>5, <2>7, <2>8 DEF Cred!Conf
  <2>. QED
    BY <1>1, <1>3, <2>1, <2>7, <2>8, <2>9, KindsDiffer
<1>. QED
  BY <1>2, <1>3

LEMMA CredsAre ==
  ASSUME NEW f \in Cred!Contents
  PROVE  /\ \A x : x \in Cred!CredsIn(f) <=>
               \E i \in DOMAIN f.providers : \E k \in Range(f.providers[i].keys) :
                  x = [name |-> f.providers[i].name, base |-> f.providers[i].base, key |-> k]
         /\ \A x : x \in Cred!KeysIn(f) <=>
               \E i \in DOMAIN f.providers : x \in Range(f.providers[i].keys)
         /\ Cred!Usable(f) <=> \A i \in DOMAIN f.providers : \E k \in Range(f.providers[i].keys) : k \notin Placeholders
<1>1. f # <<>>
  BY KindsDiffer
<1>2. Cred!KeysIn(f) = UNION {Range(f.providers[i].keys) : i \in DOMAIN f.providers}
  BY CredOps, <1>1 DEF Cred!KeysIn
<1>3. Cred!CredsIn(f) = UNION {{[name |-> f.providers[i].name, base |-> f.providers[i].base, key |-> k] :
                             k \in Range(f.providers[i].keys)} : i \in DOMAIN f.providers}
  BY CredOps, <1>1 DEF Cred!CredsIn
<1>4. \A x : x \in Cred!KeysIn(f) <=> \E i \in DOMAIN f.providers : x \in Range(f.providers[i].keys)
  BY <1>2, Zenon
<1>5. \A x : x \in Cred!CredsIn(f) <=>
               \E i \in DOMAIN f.providers : \E k \in Range(f.providers[i].keys) :
                  x = [name |-> f.providers[i].name, base |-> f.providers[i].base, key |-> k]
  <2>. DEFINE C(i) == {[name |-> f.providers[i].name, base |-> f.providers[i].base, key |-> k] :
                         k \in Range(f.providers[i].keys)}
  <2>1. \A x, i : x \in C(i) <=> \E k \in Range(f.providers[i].keys) :
                  x = [name |-> f.providers[i].name, base |-> f.providers[i].base, key |-> k]
    OBVIOUS
  <2>2. Cred!CredsIn(f) = UNION {C(i) : i \in DOMAIN f.providers}
    BY <1>3
  <2>. HIDE DEF C
  <2>3. \A x : x \in Cred!CredsIn(f) <=> \E i \in DOMAIN f.providers : x \in C(i)
    BY <2>2, Zenon
  <2>. QED
    BY <2>1, <2>3
<1>. QED
  BY CredOps, <1>1, <1>4, <1>5 DEF Cred!Usable

(* SetModel touches no key.                                                  *)
LEMMA SetModelIs ==
  ASSUME NEW f \in Cred!Contents, NEW name, NEW m \in STRING
  PROVE  /\ Cred!SetModel(f, name, m) \in Cred!Contents
         /\ Cred!CredsIn(Cred!SetModel(f, name, m)) = Cred!CredsIn(f) /\ Cred!KeysIn(Cred!SetModel(f, name, m)) = Cred!KeysIn(f)
         /\ Cred!Usable(f) => Cred!Usable(Cred!SetModel(f, name, m))
         /\ Cred!Filled(f) => Cred!Filled(Cred!SetModel(f, name, m))
<1>. DEFINE ps == f.providers
            qs == [i \in DOMAIN ps |-> IF ps[i].name = name THEN [ps[i] EXCEPT !.model = m] ELSE ps[i]]
            g == [active |-> f.active, providers |-> qs]
<1>1. ps \in Seq(Cred!Entries) /\ f.active \in Cred!Text
  BY DEF Cred!Contents
<1>2. Cred!SetModel(f, name, m) = g
  BY DEF Cred!SetModel
<1>3. \A i \in DOMAIN ps : /\ qs[i] \in Cred!Entries /\ qs[i].name = ps[i].name
                           /\ qs[i].base = ps[i].base /\ qs[i].keys = ps[i].keys
  <2>1. ASSUME NEW p \in Cred!Entries
        PROVE  LET q == [p EXCEPT !.model = m]
               IN q \in Cred!Entries /\ q.name = p.name /\ q.base = p.base /\ q.keys = p.keys
    BY DEF Cred!Entries
  <2>2. \A i \in DOMAIN ps : ps[i] \in Cred!Entries
    BY <1>1
  <2>3. \A i \in DOMAIN ps : qs[i] = ps[i] \/ qs[i] = [ps[i] EXCEPT !.model = m]
    OBVIOUS
  <2>. HIDE DEF qs, ps
  <2>. QED
    BY <2>1, <2>2, <2>3
<1>4. DOMAIN qs = DOMAIN ps /\ DOMAIN ps = 1..Len(ps) /\ Len(ps) \in Nat
  BY <1>1
<1>5. qs \in Seq(Cred!Entries) /\ (ps # <<>> => qs # <<>>)
  <2>1. qs \in [1..Len(ps) -> Cred!Entries]
    BY <1>3, <1>4
  <2>. HIDE DEF qs, ps
  <2>2. ps # <<>> => 1 \in DOMAIN ps
    BY <1>1
  <2>. QED
    BY <2>1, <2>2, <1>4
<1>. HIDE DEF qs, ps
<1>6. g \in Cred!Contents
  BY <1>1, <1>5 DEF Cred!Contents
<1>7. g.providers = qs
  OBVIOUS
<1>. HIDE DEF g
<1>8. Cred!CredsIn(g) = Cred!CredsIn(f) /\ Cred!KeysIn(g) = Cred!KeysIn(f)
  <2>1. \A x : x \in Cred!CredsIn(g) <=> x \in Cred!CredsIn(f)
    BY <1>3, <1>4, <1>6, <1>7, CredsAre DEF ps
  <2>2. \A x : x \in Cred!KeysIn(g) <=> x \in Cred!KeysIn(f)
    BY <1>3, <1>4, <1>6, <1>7, CredsAre DEF ps
  <2>. QED
    BY <2>1, <2>2
<1>9. Cred!Usable(f) => Cred!Usable(g)
  BY <1>3, <1>4, <1>6, <1>7, CredsAre DEF ps
<1>10. Cred!Filled(f) => Cred!Filled(g)
  BY <1>5, <1>6, <1>7, KindsDiffer DEF Cred!Filled, ps
<1>. QED
  BY <1>2, <1>6, <1>8, <1>9, <1>10

(* A removal takes the keys of one provider and no others.                   *)
LEMMA RemovedIs ==
  ASSUME NEW f \in Cred!Contents, NEW name
  PROVE  /\ Cred!Removed(f, name) \in Cred!Contents
         /\ Cred!KeysIn(Cred!Removed(f, name)) \subseteq Cred!KeysIn(f)
         /\ {c \in Cred!CredsIn(f) : c.name # name} \subseteq Cred!CredsIn(Cred!Removed(f, name))
         /\ Cred!Usable(f) => Cred!Usable(Cred!Removed(f, name))
<1>. DEFINE ps == f.providers
            K == {i \in DOMAIN ps : ps[i].name # name}
            qs == Cred!Pick(ps, K)
            g == Cred!Removed(f, name)
<1>1. ps \in Seq(Cred!Entries) /\ f.active \in Cred!Text
  BY DEF Cred!Contents
<1>2. qs \in Seq(Cred!Entries) /\ Range(qs) = {ps[i] : i \in K}
  <2>1. K \subseteq DOMAIN ps
    OBVIOUS
  <2>. HIDE DEF K, ps
  <2>. QED
    BY <2>1, <1>1, PickElems
<1>3. g = [active |-> IF f.active # name THEN f.active
                      ELSE IF qs = <<>> THEN "" ELSE qs[1].name, providers |-> qs]
  BY DEF Cred!Removed
<1>4. \A j \in DOMAIN qs : \E i \in DOMAIN ps : i \in K /\ qs[j] = ps[i]
  <2>. HIDE DEF qs, K, ps
  <2>1. \A j \in DOMAIN qs : qs[j] \in Range(qs)
    BY DEF Range
  <2>. QED
    BY <1>2, <2>1 DEF K
<1>5. \A i \in K : i \in DOMAIN ps /\ \E j \in DOMAIN qs : qs[j] = ps[i]
  <2>. HIDE DEF qs, ps
  <2>. QED
    BY <1>2 DEF Range
<1>. HIDE DEF qs, g
<1>6. g \in Cred!Contents /\ g.providers = qs
  <2>1. qs # <<>> => qs[1] \in Cred!Entries
    BY <1>2
  <2>2. qs # <<>> => qs[1].name \in STRING
    BY <2>1 DEF Cred!Entries
  <2>. QED
    <3>1. PICK x \in Cred!Text : g = [active |-> x, providers |-> qs]
      <4>1. CASE f.active # name
        <5>1. g = [active |-> f.active, providers |-> qs]
          BY <4>1, <1>3
        <5>. QED
          BY <5>1, <1>1
      <4>2. CASE f.active = name /\ qs = <<>>
        <5>1. g = [active |-> "", providers |-> qs]
          BY <4>2, <1>3
        <5>. QED
          BY <5>1 DEF Cred!Text
      <4>3. CASE f.active = name /\ qs # <<>>
        <5>1. g = [active |-> qs[1].name, providers |-> qs]
          BY <4>3, <1>3
        <5>. QED
          BY <5>1, <4>3, <2>2 DEF Cred!Text
      <4>. QED
        BY <4>1, <4>2, <4>3
    <3>. QED
      BY <3>1, <1>2 DEF Cred!Contents
<1>. HIDE DEF ps, K
<1>7. Cred!KeysIn(g) \subseteq Cred!KeysIn(f)
  BY <1>4, <1>6, CredsAre DEF ps
<1>8. ASSUME NEW c \in Cred!CredsIn(f), c.name # name PROVE c \in Cred!CredsIn(g)
  <2>1. PICK i \in DOMAIN ps : \E k \in Range(ps[i].keys) : c = [name |-> ps[i].name, base |-> ps[i].base, key |-> k]
    BY CredsAre DEF ps
  <2>2. i \in K
    BY <2>1, <1>8 DEF K
  <2>. QED
    BY <2>1, <2>2, <1>5, <1>6, CredsAre
<1>9. Cred!Usable(f) => Cred!Usable(g)
  BY <1>4, <1>6, CredsAre DEF ps
<1>. QED
  BY <1>6, <1>7, <1>8, <1>9 DEF g

(* Saving loses no key and adds the one that was tried.                      *)
LEMMA SaveIs ==
  ASSUME CredAssume, NEW f \in {<<>>} \union Cred!Contents, NEW c \in Cred!Cred
  PROVE  /\ Cred!Save(f, c) \in Cred!Contents /\ Cred!Filled(Cred!Save(f, c))
         /\ Cred!CredsIn(f) \union {c} \subseteq Cred!CredsIn(Cred!Save(f, c))
         /\ Cred!KeysIn(Cred!Save(f, c)) \subseteq Cred!KeysIn(f) \union {c.key}
         /\ (Cred!Usable(f) /\ c.key \notin Placeholders) => Cred!Usable(Cred!Save(f, c))
<1>. DEFINE old == IF Cred!Load(f) = <<>> THEN <<>> ELSE f.providers
            hits == {i \in DOMAIN old : old[i].name = c.name /\ old[i].base = c.base}
            first == CHOOSE i \in hits : \A j \in hits : i <= j
            Keys(p) == IF c.key \in Range(p.keys) THEN p.keys ELSE Append(p.keys, c.key)
            Joined(p) == [p EXCEPT !.keys = Keys(p), !.model = Cred!DefaultModel(c.name)]
            entry == [name |-> c.name, base |-> c.base, keys |-> <<c.key>>, model |-> Cred!DefaultModel(c.name)]
            new == IF hits = {} THEN Append(old, entry) ELSE [old EXCEPT ![first] = Joined(old[first])]
            g == Cred!Save(f, c)
<1>1. /\ c.name \in STRING /\ c.base \in Cred!Text /\ c.key \in STRING
      /\ Cred!DefaultModel(c.name) \in STRING
      /\ c = [name |-> c.name, base |-> c.base, key |-> c.key]
  BY DEF CredAssume, Cred!Cred, Cred!DefaultModel
<1>2. old \in Seq(Cred!Entries)
  <2>1. CASE f = <<>>
    BY <2>1 DEF Cred!Load
  <2>2. CASE f \in Cred!Contents
    BY <2>2 DEF Cred!Contents
  <2>. QED
    BY <2>1, <2>2
<1>3. g = [active |-> c.name, providers |-> new]
  BY DEF Cred!Save, Cred!Range, Range
<1>4. entry \in Cred!Entries /\ Range(entry.keys) = {c.key} /\ entry.name = c.name /\ entry.base = c.base
  <2>1. <<c.key>> \in Seq(STRING) /\ Range(<<c.key>>) = {c.key}
    BY <1>1 DEF Range
  <2>. QED
    BY <1>1, <2>1 DEF Cred!Entries
<1>5. ASSUME NEW p \in Cred!Entries
      PROVE  /\ Joined(p) \in Cred!Entries /\ Joined(p).name = p.name /\ Joined(p).base = p.base
             /\ Range(Joined(p).keys) = Range(p.keys) \union {c.key}
  <2>1. p.keys \in Seq(STRING)
    BY DEF Cred!Entries
  <2>2. Keys(p) \in Seq(STRING) /\ Range(Keys(p)) = Range(p.keys) \union {c.key}
    <3>1. CASE c.key \in Range(p.keys)
      BY <3>1, <2>1
    <3>2. CASE c.key \notin Range(p.keys)
      <4>1. Keys(p) = Append(p.keys, c.key)
        BY <3>2
      <4>2. /\ Append(p.keys, c.key) \in Seq(STRING)
            /\ Range(Append(p.keys, c.key)) = Range(p.keys) \union {c.key}
        BY <2>1, <1>1, AppendSet
      <4>. QED
        BY <4>1, <4>2
    <3>. QED
      BY <3>1, <3>2
  <2>. HIDE DEF Keys
  <2>. QED
    BY <2>2, <1>1 DEF Cred!Entries
<1>6. hits # {} => first \in hits
  <2>1. hits \in SUBSET DOMAIN old
    OBVIOUS
  <2>. HIDE DEF hits, old
  <2>. QED
    BY <2>1, <1>2, FirstIs
<1>7. \A i \in hits : i \in DOMAIN old /\ old[i].name = c.name /\ old[i].base = c.base
  OBVIOUS
<1>. HIDE DEF old, hits, first, entry, Joined, g

(* In both cases every old entry is still there, perhaps with the key too.   *)
<1>8. /\ new \in Seq(Cred!Entries) /\ new # <<>> /\ DOMAIN old \subseteq DOMAIN new
      /\ \E h \in DOMAIN new : new[h].name = c.name /\ new[h].base = c.base /\ c.key \in Range(new[h].keys)
      /\ \A i \in DOMAIN old : /\ new[i].name = old[i].name /\ new[i].base = old[i].base
                               /\ Range(old[i].keys) \subseteq Range(new[i].keys)
      /\ \A i \in DOMAIN new : \/ Range(new[i].keys) = {c.key}
                               \/ i \in DOMAIN old /\ Range(new[i].keys) \subseteq Range(old[i].keys) \union {c.key}
  <2>1. CASE hits = {}
    <3>1. new = Append(old, entry)
      BY <2>1
    <3>2. /\ new \in Seq(Cred!Entries)
          /\ DOMAIN new = DOMAIN old \union {Len(old) + 1} /\ new[Len(old) + 1] = entry
          /\ \A i \in DOMAIN old : new[i] = old[i]
      BY <3>1, <1>2, <1>4, AppendSet
    <3>. HIDE DEF new
    <3>3. new # <<>>
      <4>1. Len(old) + 1 \in DOMAIN new
        BY <3>2
      <4>. QED
        BY <4>1
    <3>. QED
      BY <3>2, <3>3, <1>4
  <2>2. CASE hits # {}
    <3>1. new = [old EXCEPT ![first] = Joined(old[first])] /\ first \in DOMAIN old
          /\ old[first].name = c.name /\ old[first].base = c.base
      BY <2>2, <1>6, <1>7
    <3>2. old[first] \in Cred!Entries
      BY <3>1, <1>2
    <3>3. DOMAIN new = DOMAIN old /\ new \in Seq(Cred!Entries)
      <4>1. Joined(old[first]) \in Cred!Entries
        BY <3>2, <1>5
      <4>. QED
        BY <3>1, <4>1, <1>2
    <3>4. new[first] = Joined(old[first]) /\ \A i \in DOMAIN old : i # first => new[i] = old[i]
      BY <3>1
    <3>. HIDE DEF new
    <3>5. new # <<>>
      BY <3>1, <3>3
    <3>6. /\ new[first].name = c.name /\ new[first].base = c.base
          /\ Range(new[first].keys) = Range(old[first].keys) \union {c.key}
      BY <3>1, <3>2, <3>4, <1>5
    <3>. QED
      BY <3>1, <3>3, <3>4, <3>5, <3>6
  <2>. QED
    BY <2>1, <2>2
<1>. HIDE DEF new
<1>9. g \in Cred!Contents /\ g.providers = new
  BY <1>1, <1>3, <1>8 DEF Cred!Contents, Cred!Text
<1>10. Cred!Filled(g)
  BY <1>8, <1>9, KindsDiffer DEF Cred!Filled
<1>11. c \in Cred!CredsIn(g)
  <2>1. PICK h \in DOMAIN new : new[h].name = c.name /\ new[h].base = c.base /\ c.key \in Range(new[h].keys)
    BY <1>8
  <2>. QED
    BY <2>1, <1>1, <1>9, CredsAre
<1>12. CASE f = <<>> \/ f.providers = <<>>
  <2>1. old = <<>>
    BY <1>12 DEF old, Cred!Load
  <2>2. Cred!CredsIn(f) = {}
    BY <1>12, CredsAre DEF Cred!CredsIn
  <2>3. \A i \in DOMAIN new : Range(new[i].keys) = {c.key}
    <3>1. DOMAIN old = {}
      BY <2>1
    <3>. QED
      BY <1>8, <3>1
  <2>4. Cred!KeysIn(g) \subseteq {c.key} /\ (c.key \notin Placeholders => Cred!Usable(g))
    BY <2>3, <1>9, CredsAre
  <2>. QED
    BY <2>2, <2>4, <1>9, <1>10, <1>11 DEF g
<1>13. CASE f # <<>> /\ f.providers # <<>>
  <2>1. old = f.providers /\ f \in Cred!Contents
    BY <1>13 DEF old, Cred!Load
  <2>2. Cred!CredsIn(f) \subseteq Cred!CredsIn(g)
    <3>. SUFFICES ASSUME NEW x \in Cred!CredsIn(f) PROVE x \in Cred!CredsIn(g)
      OBVIOUS
    <3>1. PICK i \in DOMAIN old : \E k \in Range(old[i].keys) : x = [name |-> old[i].name, base |-> old[i].base, key |-> k]
      BY <2>1, CredsAre
    <3>. QED
      BY <3>1, <1>8, <1>9, CredsAre
  <2>3. Cred!KeysIn(g) \subseteq Cred!KeysIn(f) \union {c.key}
    <3>. SUFFICES ASSUME NEW x \in Cred!KeysIn(g) PROVE x \in Cred!KeysIn(f) \/ x = c.key
      OBVIOUS
    <3>1. PICK i \in DOMAIN new : x \in Range(new[i].keys)
      BY <1>9, CredsAre
    <3>2. x = c.key \/ (i \in DOMAIN old /\ x \in Range(old[i].keys))
      BY <3>1, <1>8
    <3>. QED
      BY <3>2, <2>1, CredsAre
  <2>4. ASSUME Cred!Usable(f), c.key \notin Placeholders PROVE Cred!Usable(g)
    <3>1. ASSUME NEW i \in DOMAIN new PROVE \E k \in Range(new[i].keys) : k \notin Placeholders
      BY <2>1, <2>4, <1>8, CredsAre
    <3>. QED
      BY <3>1, <1>9, CredsAre
  <2>. QED
    BY <2>2, <2>3, <2>4, <1>9, <1>10, <1>11 DEF g
<1>. QED
  BY <1>12, <1>13

(* What a handler carries, by where it stands.                               *)
LEMMA StageIs ==
  ASSUME NEW r \in Cred!Stages
  PROVE  /\ r.pc = "idle" <=> r = Cred!Idle
         /\ r.pc = "validate" =>
              /\ r.job \in Cred!NewKey \union {"model", "reload"} /\ r.with \in Cred!Conf
              /\ r.job \in Cred!NewKey => r \in [pc : {"validate", "save"}, job : Cred!NewKey, cred : Cred!Cred, with : Cred!Conf]
              /\ r.job = "model" => r.copy \in Cred!Contents
              /\ r.job = "reload" => r \in [pc : {"validate", "revert"}, job : {"reload"}, mine : Cred!Conf, with : Cred!Conf]
         /\ r.pc = "save" => r \in [pc : {"validate", "save"}, job : Cred!NewKey, cred : Cred!Cred, with : Cred!Conf]
         /\ r.pc \in {"truncate", "fill"} =>
              \/ r \in [pc : {"truncate", "fill", "activate"}, job : Cred!NewKey, cred : Cred!Cred, with : Cred!Conf, copy : Cred!Contents]
              \/ r \in [pc : {"truncate", "fill"}, job : {"model", "remove", "revert"}, copy : Cred!Contents]
         /\ r.pc = "activate" =>
              r \in [pc : {"truncate", "fill", "activate"}, job : Cred!NewKey, cred : Cred!Cred, with : Cred!Conf, copy : Cred!Contents]
         /\ r.pc = "revert" => r.job = "reload" /\ r.mine \in Cred!Conf /\ r.with \in Cred!Conf
         /\ r.pc = "turn" => r.mine \in Cred!Conf
         /\ r.pc \in {"recheck", "offline"} => r \in [pc : {"recheck", "offline"}]
<1>1. CASE r = Cred!Idle
  BY <1>1 DEF Cred!Idle
<1>2. CASE r \in [pc : {"validate", "save"}, job : Cred!NewKey, cred : Cred!Cred, with : Cred!Conf]
  BY <1>2 DEF Cred!Idle, Cred!NewKey
<1>3. CASE r \in [pc : {"truncate", "fill", "activate"}, job : Cred!NewKey, cred : Cred!Cred, with : Cred!Conf, copy : Cred!Contents]
  BY <1>3 DEF Cred!Idle, Cred!NewKey
<1>4. CASE r \in [pc : {"validate"}, job : {"model"}, copy : Cred!Contents, with : Cred!Conf]
  BY <1>4 DEF Cred!Idle, Cred!NewKey
<1>5. CASE r \in [pc : {"validate", "revert"}, job : {"reload"}, mine : Cred!Conf, with : Cred!Conf]
  BY <1>5 DEF Cred!Idle, Cred!NewKey
<1>6. CASE r \in [pc : {"truncate", "fill"}, job : {"model", "remove", "revert"}, copy : Cred!Contents]
  BY <1>6 DEF Cred!Idle, Cred!NewKey
<1>7. CASE r \in [pc : {"recheck", "offline"}]
  BY <1>7 DEF Cred!Idle, Cred!NewKey
<1>8. CASE r \in [pc : {"turn"}, mine : Cred!Conf]
  BY <1>8 DEF Cred!Idle, Cred!NewKey
<1>. QED
  BY <1>1, <1>2, <1>3, <1>4, <1>5, <1>6, <1>7, <1>8 DEF Cred!Stages

LEMMA FitMore ==
  ASSUME NEW r, Cred!Fit(r), accepted \subseteq accepted'
  PROVE  Cred!Fit(r)'
BY DEF Cred!Fit, Cred!Tried, Cred!Proper

(* A handler's step keeps the invariant when what it carries next is fit,    *)
(* and, unless another handler is under way, in agreement with the file and  *)
(* the agents.                                                               *)
LEMMA HandlerStep ==
  ASSUME Cred!CredentialsInv, NEW a \in Cred!Actors, NEW r \in Cred!Stages,
         handlerAt' = [handlerAt EXCEPT ![a] = r],
         begun > 0, begun' \in Nat, begun' > 0, config' = config, raced' \in BOOLEAN,
         ~raced' => (~raced /\ \A b \in Cred!Actors : b # a => handlerAt[b] = Cred!Idle),
         accepted \subseteq accepted',
         keysFile' \in {<<>>} \union Cred!Contents, Cred!Usable(keysFile'), Cred!KeysIn(keysFile') \subseteq accepted',
         agent' \in [{"gateway", "cli"} -> {Cred!None} \union Cred!Conf],
         \A p \in {"gateway", "cli"} : agent'[p] # Cred!None =>
            agent'[p].keys # <<>> /\ Range(agent'[p].keys) \subseteq accepted',
         Cred!Fit(r)',
         token' \in [Cred!Actors -> [id : Nat, fresh : BOOLEAN]],
         links' \in Seq(Cred!Actors), opened' \in Seq(Nat \X Cred!Actors), Cred!TokensOwn',
         (~raced' /\ Cred!Holds(handlerAt[a]) /\ (config = Cred!None => Cred!Lit(handlerAt[a]))) =>
            Cred!Holds(r)' /\ (config = Cred!None => Cred!Lit(r)')
  PROVE  Cred!CredentialsInv'
<1>1. handlerAt \in [Cred!Actors -> Cred!Stages] /\ handlerAt' \in [Cred!Actors -> Cred!Stages] /\ handlerAt'[a] = r
      /\ \A b \in Cred!Actors : b # a => handlerAt'[b] = handlerAt[b]
  BY DEF Cred!CredentialsInv, Cred!CredentialTypes
<1>2. Cred!CredentialTypes'
  BY <1>1 DEF Cred!CredentialTypes
<1>3. Cred!KeysProper'
  <2>1. \A b \in Cred!Actors : b # a => Cred!Fit(handlerAt[b])
    BY DEF Cred!CredentialsInv, Cred!KeysProper
  <2>2. ASSUME NEW b \in Cred!Actors PROVE Cred!Fit(handlerAt[b])'
    <3>1. CASE b = a
      BY <3>1, <1>1 DEF Cred!Fit, Cred!Tried, Cred!Proper
    <3>2. CASE b # a
      <4>1. PICK q : q = handlerAt[b]
        OBVIOUS
      <4>2. Cred!Fit(q)
        BY <4>1, <3>2, <2>1
      <4>3. Cred!Fit(q)'
        BY <4>2, FitMore
      <4>4. handlerAt'[b] = q
        BY <4>1, <3>2, <1>1
      <4>. QED
        BY <4>3, <4>4 DEF Cred!Fit, Cred!Tried, Cred!Proper
    <3>. QED
      BY <3>1, <3>2
  <2>3. DOMAIN agent' = {"gateway", "cli"}
    OBVIOUS
  <2>. QED
    BY CredOps, <2>2, <2>3 DEF Cred!KeysProper, Cred!Tried, Cred!Proper
<1>4. Cred!Undisturbed'
  <2>. SUFFICES ASSUME ~raced'
                PROVE  /\ Cred!Alone'
                       /\ \A x \in Cred!Actors : (\A b \in Cred!Actors : handlerAt'[b] # Cred!Idle => b = x) =>
                            Cred!Holds(handlerAt[x])' /\ (begun' > 0 /\ config' = Cred!None => Cred!Lit(handlerAt[x])')
    BY DEF Cred!Undisturbed
  <2>1. ~raced /\ \A b \in Cred!Actors : b # a => handlerAt[b] = Cred!Idle /\ handlerAt'[b] = Cred!Idle
    BY <1>1
  <2>2. Cred!Alone'
    BY <2>1 DEF Cred!Alone
  <2>3. Cred!Holds(handlerAt[a]) /\ (config = Cred!None => Cred!Lit(handlerAt[a]))
    BY <2>1 DEF Cred!CredentialsInv, Cred!Undisturbed
  <2>4. Cred!Holds(r)' /\ (config = Cred!None => Cred!Lit(r)')
    BY <2>3
  <2>5. ASSUME NEW x \in Cred!Actors, \A b \in Cred!Actors : handlerAt'[b] # Cred!Idle => b = x
        PROVE  Cred!Holds(handlerAt[x])' /\ (begun' > 0 /\ config' = Cred!None => Cred!Lit(handlerAt[x])')
    <3>1. handlerAt'[x] = r
      BY <2>5, <2>1, <1>1
    <3>. QED
      BY <3>1, <2>4 DEF Cred!Holds, Cred!Lit
  <2>. QED
    BY <2>2, <2>5
<1>. QED
  BY <1>2, <1>3, <1>4 DEF Cred!CredentialsInv

(* The case that only the handler moves on.                                  *)
LEMMA HandlerMoves ==
  ASSUME Cred!CredentialsInv, NEW a \in Cred!Actors, NEW r \in Cred!Stages,
         handlerAt' = [handlerAt EXCEPT ![a] = r],
         \/ handlerAt[a] # Cred!Idle /\ UNCHANGED <<begun, raced>>
         \/ Cred!Begin(a),
         UNCHANGED <<keysFile, agent, token, links, config, accepted, saved, opened>>,
         Cred!Fit(r),
         (~raced' /\ Cred!Holds(handlerAt[a]) /\ (config = Cred!None => Cred!Lit(handlerAt[a]))) =>
            Cred!Holds(r) /\ (config = Cred!None => Cred!Lit(r)),
         CredAssume
  PROVE  Cred!CredentialsInv'
<1>1. Cred!CredentialTypes /\ Cred!KeysProper /\ Cred!TokensOwn /\ Cred!Undisturbed
  BY DEF Cred!CredentialsInv
<1>2. begun > 0 /\ begun' \in Nat /\ begun' > 0 /\ raced' \in BOOLEAN
  <2>1. begun \in Nat /\ (begun = 0 => handlerAt[a] = Cred!Idle) /\ raced \in BOOLEAN /\ MaxHandlers \in Nat
    BY <1>1 DEF Cred!CredentialTypes, CredAssume
  <2>2. CASE handlerAt[a] # Cred!Idle /\ UNCHANGED <<begun, raced>>
    BY <2>1, <2>2
  <2>3. CASE Cred!Begin(a)
    <3>1. begun \in 1..MaxHandlers /\ begun' = begun + 1
      BY <2>3 DEF Cred!Begin
    <3>2. raced' = (raced \/ \E b \in Cred!Actors : handlerAt[b] # Cred!Idle)
      BY <2>3 DEF Cred!Begin
    <3>3. raced' \in BOOLEAN
      BY <3>2, Zenon
    <3>. QED
      BY <2>1, <3>1, <3>3
  <2>. QED
    BY <2>2, <2>3
<1>3. ~raced' => (~raced /\ \A b \in Cred!Actors : b # a => handlerAt[b] = Cred!Idle)
  BY <1>1 DEF Cred!Undisturbed, Cred!Alone, Cred!Begin, Cred!CredentialTypes
<1>4. Cred!TokensOwn'
  BY <1>1 DEF Cred!TokensOwn
<1>5. Cred!Fit(r)' /\ (Cred!Holds(r) => Cred!Holds(r)') /\ (Cred!Lit(r) => Cred!Lit(r)')
  <2>1. Cred!Fit(r)'
    BY FitMore
  <2>2. Cred!Holds(r) => Cred!Holds(r)'
    BY DEF Cred!Holds
  <2>3. Cred!Lit(r) => Cred!Lit(r)'
    <3>1. (Cred!On' <=> Cred!On) /\ (Cred!Off' <=> Cred!Off) /\ (Cred!Filled(keysFile') <=> Cred!Filled(keysFile))
      BY DEF Cred!On, Cred!Off
    <3>. QED
      BY <3>1 DEF Cred!Lit
  <2>. QED
    BY <2>1, <2>2, <2>3
<1>6. /\ keysFile' \in {<<>>} \union Cred!Contents /\ Cred!Usable(keysFile') /\ Cred!KeysIn(keysFile') \subseteq accepted'
      /\ agent' \in [{"gateway", "cli"} -> {Cred!None} \union Cred!Conf]
      /\ \A p \in {"gateway", "cli"} : agent'[p] # Cred!None =>
            agent'[p].keys # <<>> /\ Range(agent'[p].keys) \subseteq accepted'
  BY CredOps, <1>1 DEF Cred!CredentialTypes, Cred!KeysProper, Cred!Tried, Cred!Proper
<1>7. /\ token' \in [Cred!Actors -> [id : Nat, fresh : BOOLEAN]]
      /\ links' \in Seq(Cred!Actors) /\ opened' \in Seq(Nat \X Cred!Actors)
  BY <1>1 DEF Cred!CredentialTypes
<1>. QED
  BY <1>2, <1>3, <1>4, <1>5, <1>6, <1>7, HandlerStep

(* The facts of the invariant about one handler, and about the file.         *)
LEMMA HandlerIs ==
  ASSUME Cred!CredentialsInv, NEW a \in Cred!Actors
  PROVE  /\ handlerAt[a] \in Cred!Stages /\ Cred!Fit(handlerAt[a])
         /\ keysFile \in {<<>>} \union Cred!Contents /\ Cred!Usable(keysFile) /\ Cred!KeysIn(keysFile) \subseteq accepted
         /\ agent \in [{"gateway", "cli"} -> {Cred!None} \union Cred!Conf]
         /\ \A p \in {"gateway", "cli"} : agent[p] # Cred!None =>
               agent[p].keys # <<>> /\ Range(agent[p].keys) \subseteq accepted
         /\ Cred!Process(a) \in {"gateway", "cli"}
BY CredOps DEF Cred!CredentialsInv, Cred!CredentialTypes, Cred!KeysProper, Cred!Tried, Cred!Proper, Cred!Process

LEMMA IdleFits == Cred!Idle \in Cred!Stages /\ Cred!Fit(Cred!Idle)
BY DEF Cred!Stages, Cred!Idle, Cred!Fit

(* A new credential is under test, or nothing at all.                        *)
LEMMA CheckIs ==
  ASSUME CredAssume, NEW a \in Cred!Actors, NEW why \in Cred!NewKey, NEW c \in Pasted, Cred!Check(a, why, c)
  PROVE  \E r \in Cred!Stages : /\ handlerAt' = [handlerAt EXCEPT ![a] = r] /\ Cred!Fit(r)
                                /\ Cred!Holds(Cred!Idle) => Cred!Holds(r)
                                /\ Cred!Lit(Cred!Idle) => Cred!Lit(r)
<1>1. c \in Cred!Cred /\ c.name \in DOMAIN KnownModels
  BY DEF CredAssume, Cred!Cred
<1>2. c.name \in STRING /\ c.key \in STRING /\ c.base \in Cred!Text /\ Cred!DefaultModel(c.name) \in STRING
  BY <1>1 DEF CredAssume, Cred!Cred, Cred!DefaultModel
<1>3. CASE c.key \in Placeholders
  BY <1>3, IdleFits DEF Cred!Check, Cred!End, Cred!Go
<1>4. CASE c.key \notin Placeholders
  <2>. DEFINE w == [name |-> c.name, keys |-> <<c.key>>, model |-> Cred!DefaultModel(c.name), base |-> c.base]
              r == [pc |-> "validate", job |-> why, cred |-> c, with |-> w]
  <2>1. w \in Cred!Conf /\ w.keys = <<c.key>>
    BY <1>2 DEF Cred!Conf
  <2>2. Range(<<c.key>>) = {c.key} /\ <<c.key>> # <<>>
    BY DEF Range
  <2>3. handlerAt' = [handlerAt EXCEPT ![a] = r]
    BY <1>4 DEF Cred!Check, Cred!Go
  <2>. HIDE DEF w
  <2>4. r \in Cred!Stages
    BY <1>1, <2>1 DEF Cred!Stages
  <2>5. r.pc = "validate" /\ r.job = why /\ r.cred = c /\ r.with = w
    OBVIOUS
  <2>. HIDE DEF r
  <2>6. Cred!Fit(r)
    BY CredOps, <2>1, <2>2, <2>5, <1>4 DEF Cred!Fit, Cred!NewKey
  <2>7. Cred!Holds(Cred!Idle) => Cred!Holds(r)
    BY <2>5 DEF Cred!Holds, Cred!Idle, Cred!NewKey
  <2>8. Cred!Lit(Cred!Idle) => Cred!Lit(r)
    BY <2>5 DEF Cred!Lit, Cred!Idle, Cred!NewKey
  <2>. QED
    BY <2>3, <2>4, <2>6, <2>7, <2>8
<1>. QED
  BY <1>3, <1>4

LEMMA PasteStep ==
  ASSUME CredAssume, Cred!CredentialsInv, NEW a \in Cred!Actors, NEW c \in Pasted, Cred!Paste(a, c)
  PROVE  Cred!CredentialsInv'
<1>1. /\ Cred!Begin(a) /\ handlerAt[a] = Cred!Idle
      /\ UNCHANGED <<keysFile, agent, token, links, config, accepted, saved, opened>>
  BY DEF Cred!Paste, Cred!Begin
<1>2. \E r \in Cred!Stages : /\ handlerAt' = [handlerAt EXCEPT ![a] = r] /\ Cred!Fit(r)
                             /\ Cred!Holds(Cred!Idle) => Cred!Holds(r)
                             /\ Cred!Lit(Cred!Idle) => Cred!Lit(r)
  <2>. DEFINE first == {i \in DOMAIN Cred!Load(keysFile).providers : keysFile.providers[i].name = c.name}
              old == IF Cred!Load(keysFile) = <<>> \/ first = {} THEN <<>>
                     ELSE keysFile.providers[CHOOSE i \in first : \A j \in first : i <= j].keys
              K == {i \in DOMAIN old : old[i] # c.key}
              all == <<c.key>> \o Cred!Pick(old, K)
              w == [name |-> c.name, keys |-> all, model |-> Cred!DefaultModel(c.name), base |-> c.base]
              r == [pc |-> "validate", job |-> "onboard", cred |-> c, with |-> w]
  <2>1. CASE Cred!Check(a, "single", c) \/ Cred!Check(a, "paste", c)
    BY <2>1, CheckIs DEF Cred!NewKey
  <2>2. CASE c.key \in Placeholders /\ Cred!End(a)
    BY <2>2, IdleFits DEF Cred!End, Cred!Go
  <2>3. CASE c.key \notin Placeholders /\ Cred!Go(a, r)
    <3>1. c \in Cred!Cred /\ c.name \in DOMAIN KnownModels
      BY DEF CredAssume, Cred!Cred
    <3>2. c.name \in STRING /\ c.key \in STRING /\ c.base \in Cred!Text /\ Cred!DefaultModel(c.name) \in STRING
      BY <3>1 DEF CredAssume, Cred!Cred, Cred!DefaultModel
    <3>3. old \in Seq(STRING) /\ Range(old) \subseteq accepted
      <4>1. CASE Cred!Load(keysFile) = <<>> \/ first = {}
        <5>1. old = <<>>
          BY <4>1
        <5>. HIDE DEF old
        <5>2. <<>> \in Seq(STRING) /\ Range(<<>>) = {}
          BY DEF Range
        <5>. QED
          BY <5>1, <5>2
      <4>2. CASE ~(Cred!Load(keysFile) = <<>> \/ first = {})
        <5>1. keysFile \in Cred!Contents /\ Cred!Load(keysFile) = keysFile /\ Cred!KeysIn(keysFile) \subseteq accepted
          BY <4>2, HandlerIs DEF Cred!Load
        <5>2. first \in SUBSET DOMAIN keysFile.providers /\ keysFile.providers \in Seq(Cred!Entries) /\ first # {}
          BY <5>1, <4>2 DEF Cred!Contents
        <5>. DEFINE i0 == CHOOSE i \in first : \A j \in first : i <= j
        <5>3. old = keysFile.providers[i0].keys
          BY <4>2
        <5>. HIDE DEF first
        <5>4. i0 \in first
          BY <5>2, FirstIs
        <5>. HIDE DEF i0
        <5>. QED
          BY <5>1, <5>2, <5>3, <5>4, EntryIs
      <4>. QED
        BY <4>1, <4>2
    <3>. HIDE DEF old
    <3>4. Cred!Pick(old, K) \in Seq(STRING) /\ Range(Cred!Pick(old, K)) \subseteq accepted
      <4>1. K \subseteq DOMAIN old
        OBVIOUS
      <4>2. \A i \in DOMAIN old : old[i] \in Range(old)
        BY DEF Range
      <4>. HIDE DEF K
      <4>3. Cred!Pick(old, K) \in Seq(STRING) /\ Range(Cred!Pick(old, K)) = {old[i] : i \in K}
        BY <4>1, <3>3, PickElems
      <4>. QED
        BY <4>1, <4>2, <4>3, <3>3
    <3>5. all \in Seq(STRING) /\ all # <<>> /\ Range(all) \subseteq accepted \union {c.key}
      <4>1. PICK p : p = Cred!Pick(old, K)
        OBVIOUS
      <4>2. p \in Seq(STRING) /\ Range(p) \subseteq accepted /\ all = <<c.key>> \o p
        BY <4>1, <3>4
      <4>. HIDE DEF all
      <4>3. /\ all \in Seq(STRING) /\ Len(all) = 1 + Len(p) /\ Len(p) \in Nat
            /\ all[1] = c.key /\ \A i \in 1..Len(p) : all[i + 1] = p[i]
        BY <4>2, <3>2
      <4>4. \A i \in DOMAIN all : i = 1 \/ (i - 1 \in 1..Len(p) /\ i = (i - 1) + 1)
        BY <4>3
      <4>5. \A i \in DOMAIN all : all[i] = c.key \/ all[i] \in Range(p)
        BY <4>2, <4>3, <4>4 DEF Range
      <4>. QED
        BY <4>2, <4>3, <4>5 DEF Range
    <3>. HIDE DEF all
    <3>6. w \in Cred!Conf /\ w.keys = all
      BY <3>2, <3>5 DEF Cred!Conf
    <3>7. handlerAt' = [handlerAt EXCEPT ![a] = r]
      BY <2>3 DEF Cred!Go
    <3>. HIDE DEF w
    <3>8. r \in Cred!Stages
      BY <3>1, <3>6 DEF Cred!Stages, Cred!NewKey
    <3>9. r.pc = "validate" /\ r.job = "onboard" /\ r.cred = c /\ r.with = w
      OBVIOUS
    <3>. HIDE DEF r
    <3>10. Cred!Fit(r)
      BY CredOps, <3>5, <3>6, <3>9, <2>3 DEF Cred!Fit, Cred!NewKey
    <3>11. Cred!Holds(Cred!Idle) => Cred!Holds(r)
      BY <3>9 DEF Cred!Holds, Cred!Idle, Cred!NewKey
    <3>12. Cred!Lit(Cred!Idle) => Cred!Lit(r)
      BY <3>9 DEF Cred!Lit, Cred!Idle, Cred!NewKey
    <3>. QED
      BY <3>7, <3>8, <3>10, <3>11, <3>12
  <2>. QED
    <3>. HIDE DEF r
    <3>. QED
      BY <2>1, <2>2, <2>3 DEF Cred!Paste, r
<1>3. PICK r \in Cred!Stages : /\ handlerAt' = [handlerAt EXCEPT ![a] = r] /\ Cred!Fit(r)
                               /\ Cred!Holds(Cred!Idle) => Cred!Holds(r)
                               /\ Cred!Lit(Cred!Idle) => Cred!Lit(r)
  BY <1>2
<1>. QED
  BY <1>1, <1>3, HandlerMoves

LEMMA SwitchModelStep ==
  ASSUME CredAssume, Cred!CredentialsInv, NEW a \in Cred!Actors, NEW m \in OfferedModels, Cred!SwitchModel(a, m)
  PROVE  Cred!CredentialsInv'
<1>1. /\ Cred!Begin(a) /\ handlerAt[a] = Cred!Idle
      /\ UNCHANGED <<keysFile, agent, token, links, config, accepted, saved, opened>>
  BY DEF Cred!SwitchModel, Cred!Begin
<1>. DEFINE g == Cred!SetModel(keysFile, keysFile.active, m)
            r == [pc |-> "truncate", job |-> "model", copy |-> g]
<1>2. CASE Cred!End(a)
  BY <1>1, <1>2, IdleFits, HandlerMoves DEF Cred!End, Cred!Go
<1>3. CASE Cred!Load(keysFile) # <<>> /\ Cred!Go(a, r)
  <2>1. keysFile \in Cred!Contents /\ Cred!Usable(keysFile) /\ Cred!KeysIn(keysFile) \subseteq accepted /\ Cred!Filled(keysFile) /\ m \in STRING
    BY <1>3, HandlerIs, LoadActiveIs DEF CredAssume
  <2>2. /\ g \in Cred!Contents /\ Cred!CredsIn(g) = Cred!CredsIn(keysFile) /\ Cred!KeysIn(g) = Cred!KeysIn(keysFile)
        /\ Cred!Usable(g) /\ Cred!Filled(g)
    BY <2>1, SetModelIs
  <2>3. handlerAt' = [handlerAt EXCEPT ![a] = r]
    BY <1>3 DEF Cred!Go
  <2>. HIDE DEF g
  <2>4. r \in Cred!Stages
    BY <2>2 DEF Cred!Stages
  <2>5. r.pc = "truncate" /\ r.job = "model" /\ r.copy = g
    OBVIOUS
  <2>. HIDE DEF r
  <2>6. Cred!Fit(r)
    BY <2>1, <2>2, <2>5 DEF Cred!Fit, Cred!NewKey, Cred!Tried
  <2>7. Cred!Holds(Cred!Idle) => Cred!Holds(r)
    BY <2>2, <2>5 DEF Cred!Holds, Cred!Idle, Cred!NewKey
  <2>8. Cred!Lit(Cred!Idle) => Cred!Lit(r)
    BY <2>1, <2>2, <2>5 DEF Cred!Lit, Cred!Idle
  <2>. QED
    BY <1>1, <2>3, <2>4, <2>6, <2>7, <2>8, HandlerMoves
<1>. QED
  <2>. HIDE DEF r
  <2>. QED
    BY <1>2, <1>3 DEF Cred!SwitchModel, r

LEMMA TurnStep ==
  ASSUME CredAssume, Cred!CredentialsInv, NEW a \in Cred!Actors, Cred!Turn(a)
  PROVE  Cred!CredentialsInv'
<1>. DEFINE r == [pc |-> "turn", mine |-> agent["gateway"]]
<1>1. /\ Cred!Begin(a) /\ handlerAt[a] = Cred!Idle /\ handlerAt' = [handlerAt EXCEPT ![a] = r]
      /\ UNCHANGED <<keysFile, agent, token, links, config, accepted, saved, opened>>
      /\ agent["gateway"] # Cred!None
  BY DEF Cred!Turn, Cred!Begin, Cred!Go
<1>2. agent["gateway"] \in Cred!Conf
  BY <1>1, HandlerIs
<1>3. r \in Cred!Stages /\ r.pc = "turn"
  BY <1>2 DEF Cred!Stages
<1>. HIDE DEF r
<1>4. Cred!Fit(r) /\ (Cred!Holds(Cred!Idle) => Cred!Holds(r)) /\ (Cred!Lit(Cred!Idle) => Cred!Lit(r))
  BY <1>3 DEF Cred!Fit, Cred!Holds, Cred!Lit, Cred!Idle
<1>. QED
  BY <1>1, <1>3, <1>4, HandlerMoves

LEMMA RecheckStep ==
  ASSUME CredAssume, Cred!CredentialsInv, NEW a \in Cred!Actors, Cred!Recheck(a)
  PROVE  Cred!CredentialsInv'
<1>1. /\ handlerAt[a].pc = "recheck" /\ handlerAt[a] # Cred!Idle
      /\ UNCHANGED <<keysFile, agent, token, links, begun, config, accepted, saved, opened, raced>>
  BY DEF Cred!Recheck, Cred!Idle
<1>. DEFINE p == Cred!ActiveEntry(keysFile)
            w == [name |-> p.name, keys |-> Cred!ValidKeys(p.keys), model |-> p.model, base |-> p.base]
            r == [pc |-> "validate", job |-> "model", copy |-> keysFile, with |-> w]
<1>2. (Cred!Holds(handlerAt[a]) => Cred!Holds(Cred!Idle)) /\ (Cred!Lit(handlerAt[a]) => Cred!Lit(Cred!Idle))
  BY <1>1 DEF Cred!Holds, Cred!Lit, Cred!Idle
<1>3. CASE Cred!End(a)
  BY <1>1, <1>2, <1>3, IdleFits, HandlerMoves DEF Cred!End, Cred!Go
<1>4. CASE Cred!Load(keysFile) # <<>> /\ Cred!Found(keysFile) # {} /\ Cred!Go(a, r)
  <2>1. keysFile \in Cred!Contents /\ Cred!Usable(keysFile) /\ Cred!KeysIn(keysFile) \subseteq accepted /\ Cred!Filled(keysFile)
    BY <1>4, HandlerIs, LoadActiveIs
  <2>2. PICK i \in DOMAIN keysFile.providers : p = keysFile.providers[i]
    BY <2>1, <1>4, ActiveIs
  <2>3. /\ p.keys \in Seq(STRING) /\ p.name \in STRING /\ p.model \in STRING /\ p.base \in Cred!Text
        /\ Range(p.keys) \subseteq Cred!KeysIn(keysFile)
    BY <2>1, <2>2, EntryIs
  <2>4. Cred!ValidKeys(p.keys) \in Seq(STRING) /\ Range(Cred!ValidKeys(p.keys)) \subseteq accepted
    BY <2>1, <2>3, ValidKeysIs
  <2>5. handlerAt' = [handlerAt EXCEPT ![a] = r]
    BY <1>4 DEF Cred!Go
  <2>. HIDE DEF p
  <2>6. w \in Cred!Conf /\ w.keys = Cred!ValidKeys(p.keys)
    BY <2>3, <2>4 DEF Cred!Conf
  <2>. HIDE DEF w
  <2>7. r \in Cred!Stages
    BY <2>1, <2>6 DEF Cred!Stages
  <2>8. r.pc = "validate" /\ r.job = "model" /\ r.copy = keysFile /\ r.with = w
    OBVIOUS
  <2>. HIDE DEF r
  <2>9. Cred!Fit(r)
    BY CredOps, <2>1, <2>4, <2>6, <2>8 DEF Cred!Fit, Cred!NewKey, Cred!Tried
  <2>10. Cred!Holds(handlerAt[a]) => Cred!Holds(r)
    BY <2>8, <1>1 DEF Cred!Holds, Cred!NewKey
  <2>11. Cred!Lit(handlerAt[a]) => Cred!Lit(r)
    BY <2>1, <2>8, <1>1 DEF Cred!Lit
  <2>. QED
    BY <1>1, <2>5, <2>7, <2>9, <2>10, <2>11, HandlerMoves
<1>. QED
  <2>. HIDE DEF r
  <2>. QED
    BY <1>3, <1>4 DEF Cred!Recheck, r

LEMMA HotReloadStep ==
  ASSUME CredAssume, Cred!CredentialsInv, NEW a \in Cred!Actors, Cred!HotReload(a)
  PROVE  Cred!CredentialsInv'
<1>1. /\ handlerAt[a].pc = "turn" /\ handlerAt[a] # Cred!Idle
      /\ UNCHANGED <<keysFile, agent, token, links, begun, config, accepted, saved, opened, raced>>
  BY DEF Cred!HotReload, Cred!Idle
<1>. DEFINE new == Cred!LoadActive(keysFile)
            r == [pc |-> "validate", job |-> "reload", mine |-> handlerAt[a].mine, with |-> new]
<1>2. (Cred!Holds(handlerAt[a]) => Cred!Holds(Cred!Idle)) /\ (Cred!Lit(handlerAt[a]) => Cred!Lit(Cred!Idle))
  BY <1>1 DEF Cred!Holds, Cred!Lit, Cred!Idle
<1>3. CASE Cred!End(a)
  BY <1>1, <1>2, <1>3, IdleFits, HandlerMoves DEF Cred!End, Cred!Go
<1>4. CASE new # Cred!None /\ Cred!Go(a, r)
  <2>1. Cred!Filled(keysFile) /\ new \in Cred!Conf /\ new.keys # <<>> /\ Range(new.keys) \subseteq accepted
    BY <1>4, HandlerIs, LoadActiveIs
  <2>2. handlerAt[a].mine \in Cred!Conf
    BY <1>1, HandlerIs, StageIs
  <2>3. handlerAt' = [handlerAt EXCEPT ![a] = r]
    BY <1>4 DEF Cred!Go
  <2>. HIDE DEF new
  <2>4. r \in Cred!Stages
    BY <2>1, <2>2 DEF Cred!Stages
  <2>5. r.pc = "validate" /\ r.job = "reload" /\ r.with = new
    OBVIOUS
  <2>. HIDE DEF r
  <2>6. Cred!Fit(r)
    BY CredOps, <2>1, <2>5 DEF Cred!Fit, Cred!NewKey, Cred!Proper
  <2>7. Cred!Holds(handlerAt[a]) => Cred!Holds(r)
    BY <2>5, <1>1 DEF Cred!Holds, Cred!NewKey
  <2>8. Cred!Lit(handlerAt[a]) => Cred!Lit(r)
    BY <2>1, <2>5, <1>1 DEF Cred!Lit
  <2>. QED
    BY <1>1, <2>3, <2>4, <2>6, <2>7, <2>8, HandlerMoves
<1>. QED
  <2>. HIDE DEF r
  <2>. QED
    BY <1>3, <1>4 DEF Cred!HotReload, r

LEMMA RevertStep ==
  ASSUME CredAssume, Cred!CredentialsInv, NEW a \in Cred!Actors, Cred!Revert(a)
  PROVE  Cred!CredentialsInv'
<1>1. /\ handlerAt[a].pc = "revert" /\ handlerAt[a] # Cred!Idle
      /\ UNCHANGED <<keysFile, agent, token, links, begun, config, accepted, saved, opened, raced>>
  BY DEF Cred!Revert, Cred!Idle
<1>. DEFINE g == Cred!SetModel(keysFile, handlerAt[a].with.name, handlerAt[a].mine.model)
            r == [pc |-> "truncate", job |-> "revert", copy |-> g]
<1>2. (Cred!Holds(handlerAt[a]) => Cred!Holds(Cred!Idle)) /\ (Cred!Lit(handlerAt[a]) => Cred!Lit(Cred!Idle))
  BY <1>1 DEF Cred!Holds, Cred!Lit, Cred!Idle
<1>3. CASE Cred!End(a)
  BY <1>1, <1>2, <1>3, IdleFits, HandlerMoves DEF Cred!End, Cred!Go
<1>4. CASE Cred!Load(keysFile) # <<>> /\ Cred!Go(a, r)
  <2>1. keysFile \in Cred!Contents /\ Cred!Usable(keysFile) /\ Cred!KeysIn(keysFile) \subseteq accepted /\ Cred!Filled(keysFile)
    BY <1>4, HandlerIs, LoadActiveIs
  <2>2. handlerAt[a].mine.model \in STRING
    <3>1. handlerAt[a].mine \in Cred!Conf
      BY <1>1, HandlerIs, StageIs
    <3>. QED
      BY <3>1 DEF Cred!Conf
  <2>3. /\ g \in Cred!Contents /\ Cred!CredsIn(g) = Cred!CredsIn(keysFile) /\ Cred!KeysIn(g) = Cred!KeysIn(keysFile)
        /\ Cred!Usable(g) /\ Cred!Filled(g)
    BY <2>1, <2>2, SetModelIs
  <2>4. handlerAt' = [handlerAt EXCEPT ![a] = r]
    BY <1>4 DEF Cred!Go
  <2>. HIDE DEF g
  <2>5. r \in Cred!Stages
    BY <2>3 DEF Cred!Stages
  <2>6. r.pc = "truncate" /\ r.job = "revert" /\ r.copy = g
    OBVIOUS
  <2>. HIDE DEF r
  <2>7. Cred!Fit(r)
    BY <2>1, <2>3, <2>6 DEF Cred!Fit, Cred!NewKey, Cred!Tried
  <2>8. Cred!Holds(handlerAt[a]) => Cred!Holds(r)
    BY <2>3, <2>6, <1>1 DEF Cred!Holds, Cred!NewKey
  <2>9. Cred!Lit(handlerAt[a]) => Cred!Lit(r)
    BY <2>1, <2>3, <2>6, <1>1 DEF Cred!Lit
  <2>. QED
    BY <1>1, <2>4, <2>5, <2>7, <2>8, <2>9, HandlerMoves
<1>. QED
  <2>. HIDE DEF r
  <2>. QED
    BY <1>3, <1>4 DEF Cred!Revert, r

LEMMA SaveReadStep ==
  ASSUME CredAssume, Cred!CredentialsInv, NEW a \in Cred!Actors, Cred!SaveRead(a)
  PROVE  Cred!CredentialsInv'
<1>1. /\ handlerAt[a].pc = "save" /\ handlerAt[a] # Cred!Idle
      /\ UNCHANGED <<keysFile, agent, token, links, begun, config, accepted, saved, opened, raced>>
  BY DEF Cred!SaveRead, Cred!Idle
<1>. DEFINE q == handlerAt[a]
            g == Cred!Save(keysFile, q.cred)
            r == [pc |-> "truncate", job |-> q.job, cred |-> q.cred, with |-> q.with, copy |-> g]
<1>2. q.job \in Cred!NewKey /\ q.cred \in Cred!Cred /\ q.with \in Cred!Conf
  BY <1>1, HandlerIs, StageIs
<1>3. /\ q.cred.key \in accepted \ Placeholders /\ Cred!Proper(q.with)
      /\ keysFile \in {<<>>} \union Cred!Contents /\ Cred!Usable(keysFile) /\ Cred!KeysIn(keysFile) \subseteq accepted
  BY <1>1, <1>2, HandlerIs DEF Cred!Fit
<1>4. /\ g \in Cred!Contents /\ Cred!Filled(g) /\ Cred!Usable(g) /\ Cred!KeysIn(g) \subseteq accepted
      /\ Cred!CredsIn(keysFile) \union {q.cred} \subseteq Cred!CredsIn(g)
  BY <1>2, <1>3, SaveIs
<1>5. handlerAt' = [handlerAt EXCEPT ![a] = r]
  BY DEF Cred!SaveRead, Cred!Go
<1>. HIDE DEF g
<1>6. r \in Cred!Stages
  BY <1>2, <1>4 DEF Cred!Stages
<1>7. r.pc = "truncate" /\ r.job = q.job /\ r.cred = q.cred /\ r.with = q.with /\ r.copy = g
  OBVIOUS
<1>. HIDE DEF r
<1>8. Cred!Fit(r)
  BY <1>2, <1>3, <1>4, <1>7 DEF Cred!Fit, Cred!NewKey, Cred!Tried
<1>9. Cred!Holds(handlerAt[a]) => Cred!Holds(r)
  BY <1>4, <1>7, <1>1 DEF Cred!Holds
<1>10. Cred!Lit(handlerAt[a]) => Cred!Lit(r)
  BY <1>2, <1>4, <1>7, <1>1 DEF Cred!Lit, Cred!NewKey
<1>. QED
  BY <1>1, <1>5, <1>6, <1>8, <1>9, <1>10, HandlerMoves

(* The case of a handler under way.                                          *)
LEMMA HandlerActs ==
  ASSUME Cred!CredentialsInv, NEW a \in Cred!Actors, NEW r \in Cred!Stages,
         handlerAt' = [handlerAt EXCEPT ![a] = r], handlerAt[a] # Cred!Idle,
         UNCHANGED <<token, links, begun, config, opened, raced>>,
         accepted \subseteq accepted',
         keysFile' \in {<<>>} \union Cred!Contents, Cred!Usable(keysFile'), Cred!KeysIn(keysFile') \subseteq accepted',
         agent' \in [{"gateway", "cli"} -> {Cred!None} \union Cred!Conf],
         \A p \in {"gateway", "cli"} : agent'[p] # Cred!None =>
            agent'[p].keys # <<>> /\ Range(agent'[p].keys) \subseteq accepted',
         Cred!Fit(r)', Cred!Holds(handlerAt[a]) => Cred!Holds(r)', Cred!Lit(handlerAt[a]) => Cred!Lit(r)'
  PROVE  Cred!CredentialsInv'
<1>1. Cred!CredentialTypes /\ Cred!KeysProper /\ Cred!TokensOwn /\ Cred!Undisturbed
  BY DEF Cred!CredentialsInv
<1>2. begun > 0 /\ begun' \in Nat /\ begun' > 0 /\ raced' \in BOOLEAN
  BY <1>1 DEF Cred!CredentialTypes
<1>3. ~raced' => (~raced /\ \A b \in Cred!Actors : b # a => handlerAt[b] = Cred!Idle)
  BY <1>1 DEF Cred!Undisturbed, Cred!Alone
<1>4. Cred!TokensOwn'
  BY <1>1 DEF Cred!TokensOwn
<1>5. /\ token' \in [Cred!Actors -> [id : Nat, fresh : BOOLEAN]]
      /\ links' \in Seq(Cred!Actors) /\ opened' \in Seq(Nat \X Cred!Actors)
  BY <1>1 DEF Cred!CredentialTypes
<1>. QED
  BY <1>2, <1>3, <1>4, <1>5, HandlerStep

LEMMA TruncateStep ==
  ASSUME CredAssume, Cred!CredentialsInv, NEW a \in Cred!Actors, Cred!Truncate(a)
  PROVE  Cred!CredentialsInv'
<1>1. /\ handlerAt[a].pc = "truncate" /\ handlerAt[a] # Cred!Idle /\ keysFile' = <<>>
      /\ UNCHANGED <<agent, token, links, begun, config, accepted, saved, opened, raced>>
  BY DEF Cred!Truncate, Cred!Idle
<1>3. PICK q : q = handlerAt[a]
  OBVIOUS
<1>. DEFINE r == [q EXCEPT !.pc = "fill"]
<1>2. handlerAt' = [handlerAt EXCEPT ![a] = r]
  BY <1>3 DEF Cred!Truncate, Cred!Go
<1>4. q \in Cred!Stages /\ Cred!Fit(q) /\ q.pc = "truncate" /\ r = [q EXCEPT !.pc = "fill"]
  BY <1>1, <1>3, HandlerIs
<1>. HIDE DEF r
<1>5. /\ r \in Cred!Stages /\ r.pc = "fill" /\ r.job = q.job /\ r.copy = q.copy
      /\ q.job \in Cred!NewKey => r.cred = q.cred /\ r.with = q.with
  <2>1. CASE q \in [pc : {"truncate", "fill", "activate"}, job : Cred!NewKey, cred : Cred!Cred, with : Cred!Conf, copy : Cred!Contents]
    <3>1. /\ r.pc = "fill" /\ r.job = q.job /\ r.copy = q.copy /\ r.cred = q.cred /\ r.with = q.with
          /\ r \in [pc : {"truncate", "fill", "activate"}, job : Cred!NewKey, cred : Cred!Cred, with : Cred!Conf, copy : Cred!Contents]
      BY <2>1, <1>4
    <3>. QED
      BY <3>1 DEF Cred!Stages
  <2>2. CASE q \in [pc : {"truncate", "fill"}, job : {"model", "remove", "revert"}, copy : Cred!Contents]
    <3>1. /\ r.pc = "fill" /\ r.job = q.job /\ r.copy = q.copy
          /\ r \in [pc : {"truncate", "fill"}, job : {"model", "remove", "revert"}, copy : Cred!Contents]
      BY <2>2, <1>4
    <3>. QED
      BY <3>1, <2>2 DEF Cred!Stages, Cred!NewKey
  <2>. QED
    BY <2>1, <2>2, <1>4, StageIs
<1>6. Cred!Fit(r)'
  BY <1>1, <1>4, <1>5 DEF Cred!Fit, Cred!Tried, Cred!Proper
<1>7. Cred!Holds(q) => Cred!Holds(r)'
  BY <1>1, <1>4, <1>5 DEF Cred!Holds
<1>8. Cred!Lit(q) => Cred!Lit(r)'
  <2>1. (Cred!On' <=> Cred!On) /\ (Cred!Off' <=> Cred!Off) /\ ~Cred!Filled(keysFile')
    BY <1>1 DEF Cred!On, Cred!Off, Cred!Filled
  <2>. QED
    BY <2>1, <1>4, <1>5 DEF Cred!Lit
<1>9. /\ keysFile' \in {<<>>} \union Cred!Contents /\ Cred!Usable(keysFile') /\ Cred!KeysIn(keysFile') = {}
  BY <1>1 DEF Cred!Usable, Cred!KeysIn
<1>10. /\ agent' \in [{"gateway", "cli"} -> {Cred!None} \union Cred!Conf]
       /\ \A p \in {"gateway", "cli"} : agent'[p] # Cred!None =>
            agent'[p].keys # <<>> /\ Range(agent'[p].keys) \subseteq accepted'
  BY <1>1, HandlerIs
<1>. QED
  BY <1>1, <1>2, <1>3, <1>5, <1>6, <1>7, <1>8, <1>9, <1>10, HandlerActs

LEMMA FillStep ==
  ASSUME CredAssume, Cred!CredentialsInv, NEW a \in Cred!Actors, Cred!Fill(a)
  PROVE  Cred!CredentialsInv'
<1>1. /\ handlerAt[a].pc = "fill" /\ handlerAt[a] # Cred!Idle /\ keysFile' = handlerAt[a].copy
      /\ UNCHANGED <<agent, token, links, begun, config, accepted, opened, raced>>
  BY DEF Cred!Fill, Cred!Idle
<1>2. PICK q : q = handlerAt[a]
  OBVIOUS
<1>3. /\ q \in Cred!Stages /\ q.pc = "fill" /\ Cred!Fit(q)
      /\ saved' = saved \union IF q.job \in {"paste", "single", "onboard"} THEN {q.cred} ELSE {}
  BY <1>1, <1>2, HandlerIs DEF Cred!Fill
<1>4. q.job \in Cred!NewKey \union {"model", "remove", "revert"} /\ q.copy \in Cred!Contents
  BY <1>3, StageIs
<1>5. /\ saved' = IF q.job \in Cred!NewKey THEN saved \union {q.cred} ELSE saved
  BY <1>3 DEF Cred!NewKey
<1>. DEFINE Good(r) == /\ r \in Cred!Stages /\ handlerAt' = [handlerAt EXCEPT ![a] = r]
                       /\ r.pc = CASE q.job \in {"paste", "single"} -> "activate"
                                   [] q.job = "model" -> "recheck" [] q.job = "remove" -> "offline"
                                   [] OTHER -> "idle"
                       /\ q.job \in {"paste", "single"} => r.job = q.job /\ r.cred = q.cred /\ r.with = q.with
<1>6. PICK r : Good(r)
  <2>1. CASE q.job \in {"paste", "single"}
    <3>. DEFINE r == [q EXCEPT !.pc = "activate"]
    <3>1. handlerAt' = [handlerAt EXCEPT ![a] = r]
      BY <2>1, <1>2 DEF Cred!Fill, Cred!Go
    <3>2. q \in [pc : {"truncate", "fill", "activate"}, job : Cred!NewKey, cred : Cred!Cred, with : Cred!Conf, copy : Cred!Contents]
      BY <2>1, <1>3, StageIs
    <3>3. /\ r.pc = "activate" /\ r.job = q.job /\ r.cred = q.cred /\ r.with = q.with
          /\ r \in [pc : {"truncate", "fill", "activate"}, job : Cred!NewKey, cred : Cred!Cred, with : Cred!Conf, copy : Cred!Contents]
      BY <3>2
    <3>. HIDE DEF r
    <3>4. r \in Cred!Stages
      BY <3>3 DEF Cred!Stages
    <3>5. Good(r)
      BY <2>1, <3>1, <3>3, <3>4
    <3>. HIDE DEF Good
    <3>. QED
      BY <3>5
  <2>2. CASE q.job = "model"
    <3>1. handlerAt' = [handlerAt EXCEPT ![a] = [pc |-> "recheck"]]
      BY <2>2, <1>2 DEF Cred!Fill, Cred!Go
    <3>2. [pc |-> "recheck"] \in Cred!Stages
      BY DEF Cred!Stages
    <3>3. Good([pc |-> "recheck"])
      BY <3>1, <3>2, <2>2
    <3>. HIDE DEF Good
    <3>. QED
      BY <3>3
  <2>3. CASE q.job = "remove"
    <3>1. handlerAt' = [handlerAt EXCEPT ![a] = [pc |-> "offline"]]
      BY <2>3, <1>2 DEF Cred!Fill, Cred!Go
    <3>2. [pc |-> "offline"] \in Cred!Stages
      BY DEF Cred!Stages
    <3>3. Good([pc |-> "offline"])
      BY <3>1, <3>2, <2>3
    <3>. HIDE DEF Good
    <3>. QED
      BY <3>3
  <2>4. CASE q.job \notin {"paste", "single", "model", "remove"}
    <3>1. handlerAt' = [handlerAt EXCEPT ![a] = Cred!Idle]
      BY <2>4, <1>2 DEF Cred!Fill, Cred!Go, Cred!End
    <3>2. Good(Cred!Idle)
      BY <3>1, <2>4, IdleFits DEF Cred!Idle
    <3>. HIDE DEF Good
    <3>. QED
      BY <3>2
  <2>. QED
    BY <2>1, <2>2, <2>3, <2>4
<1>7. /\ r.pc \in {"activate", "recheck", "offline", "idle"}
      /\ r.pc = "activate" <=> q.job \in {"paste", "single"}
      /\ r.pc = "recheck" <=> q.job = "model"
      /\ r.pc = "offline" <=> q.job = "remove"
      /\ r.pc = "activate" => r.job = q.job /\ r.cred = q.cred /\ r.with = q.with
      /\ r \in Cred!Stages /\ handlerAt' = [handlerAt EXCEPT ![a] = r]
  BY <1>4, <1>6
<1>. HIDE DEF Good
<1>8. /\ Cred!Usable(q.copy) /\ Cred!KeysIn(q.copy) \subseteq accepted
      /\ q.job \in Cred!NewKey => q.cred.key \in accepted \ Placeholders /\ Cred!Proper(q.with)
  BY <1>3 DEF Cred!Fit, Cred!Tried
<1>9. Cred!Fit(r)'
  BY <1>1, <1>7, <1>8 DEF Cred!Fit, Cred!Proper, Cred!NewKey
<1>10. Cred!Holds(q) => Cred!Holds(r)'
  BY <1>1, <1>2, <1>3, <1>5, <1>7 DEF Cred!Holds, Cred!NewKey
<1>11. Cred!Lit(q) => Cred!Lit(r)'
  <2>1. (Cred!On' <=> Cred!On) /\ (Cred!Off' <=> Cred!Off) /\ (Cred!Filled(keysFile') <=> Cred!Filled(q.copy))
    BY <1>1, <1>2 DEF Cred!On, Cred!Off
  <2>. QED
    BY <2>1, <1>3, <1>4, <1>7 DEF Cred!Lit, Cred!NewKey
<1>12. /\ keysFile' \in {<<>>} \union Cred!Contents /\ Cred!Usable(keysFile') /\ Cred!KeysIn(keysFile') \subseteq accepted'
  BY <1>1, <1>2, <1>4, <1>8
<1>13. /\ agent' \in [{"gateway", "cli"} -> {Cred!None} \union Cred!Conf]
       /\ \A p \in {"gateway", "cli"} : agent'[p] # Cred!None =>
            agent'[p].keys # <<>> /\ Range(agent'[p].keys) \subseteq accepted'
  BY <1>1, HandlerIs
<1>. QED
  BY <1>1, <1>2, <1>7, <1>9, <1>10, <1>11, <1>12, <1>13, HandlerActs

LEMMA OfflineStep ==
  ASSUME CredAssume, Cred!CredentialsInv, NEW a \in Cred!Actors, Cred!Offline(a)
  PROVE  Cred!CredentialsInv'
<1>1. /\ handlerAt[a].pc = "offline" /\ handlerAt[a] # Cred!Idle /\ handlerAt' = [handlerAt EXCEPT ![a] = Cred!Idle]
      /\ agent' = IF Cred!LoadActive(keysFile) = Cred!None THEN [agent EXCEPT ![Cred!Process(a)] = Cred!None] ELSE agent
      /\ UNCHANGED <<keysFile, token, links, begun, config, accepted, saved, opened, raced>>
  BY DEF Cred!Offline, Cred!Idle, Cred!End, Cred!Go
<1>2. /\ keysFile' \in {<<>>} \union Cred!Contents /\ Cred!Usable(keysFile') /\ Cred!KeysIn(keysFile') \subseteq accepted'
  BY <1>1, HandlerIs
<1>3. /\ agent' \in [{"gateway", "cli"} -> {Cred!None} \union Cred!Conf]
      /\ \A p \in {"gateway", "cli"} : agent'[p] # Cred!None =>
            agent'[p].keys # <<>> /\ Range(agent'[p].keys) \subseteq accepted'
      /\ Cred!LoadActive(keysFile) = Cred!None => agent'[Cred!Process(a)] = Cred!None /\ Cred!Process(a) \in DOMAIN agent'
  BY <1>1, HandlerIs
<1>4. Cred!LoadActive(keysFile) = Cred!None <=> ~Cred!Filled(keysFile)
  BY HandlerIs, LoadActiveIs
<1>5. Cred!Fit(Cred!Idle)' /\ (Cred!Holds(handlerAt[a]) => Cred!Holds(Cred!Idle)')
  BY <1>1 DEF Cred!Fit, Cred!Idle, Cred!Holds
<1>6. Cred!Lit(handlerAt[a]) => Cred!Lit(Cred!Idle)'
  <2>1. ~Cred!Filled(keysFile') => Cred!Off'
    BY <1>1, <1>3, <1>4 DEF Cred!Off
  <2>2. Cred!Filled(keysFile') => (Cred!On' <=> Cred!On)
    BY <1>1, <1>4 DEF Cred!On
  <2>3. Cred!Lit(handlerAt[a]) /\ Cred!Filled(keysFile) => Cred!On
    BY <1>1 DEF Cred!Lit
  <2>. QED
    BY <1>1, <2>1, <2>2, <2>3 DEF Cred!Lit, Cred!Idle
<1>. QED
  BY <1>1, <1>2, <1>3, <1>5, <1>6, IdleFits, HandlerActs

LEMMA ActivateStep ==
  ASSUME CredAssume, Cred!CredentialsInv, NEW a \in Cred!Actors, Cred!Activate(a)
  PROVE  Cred!CredentialsInv'
<1>1. /\ handlerAt[a].pc = "activate" /\ handlerAt[a] # Cred!Idle /\ handlerAt' = [handlerAt EXCEPT ![a] = Cred!Idle]
      /\ UNCHANGED <<keysFile, token, links, begun, config, accepted, saved, opened, raced>>
  BY DEF Cred!Activate, Cred!Idle, Cred!End, Cred!Go
<1>2. /\ keysFile' \in {<<>>} \union Cred!Contents /\ Cred!Usable(keysFile') /\ Cred!KeysIn(keysFile') \subseteq accepted'
  BY <1>1, HandlerIs
<1>3. handlerAt[a].with \in Cred!Conf /\ handlerAt[a].with.keys # <<>> /\ Range(handlerAt[a].with.keys) \subseteq accepted
  <2>1. handlerAt[a].job \in Cred!NewKey /\ handlerAt[a].with \in Cred!Conf /\ Cred!Fit(handlerAt[a])
    BY <1>1, HandlerIs, StageIs
  <2>. QED
    BY CredOps, <1>1, <2>1 DEF Cred!Fit, Cred!Proper
<1>4. \/ agent' = agent /\ Cred!LoadActive(keysFile) = Cred!None
      \/ \E p \in {"gateway", "cli"}, w \in Cred!Conf :
           /\ agent' = [agent EXCEPT ![p] = w] /\ w.keys # <<>> /\ Range(w.keys) \subseteq accepted
  <2>1. CASE handlerAt[a].job = "single"
    BY <2>1, <1>3, HandlerIs DEF Cred!Activate, Cred!Online
  <2>2. CASE handlerAt[a].job # "single" /\ Cred!LoadActive(keysFile) = Cred!None
    BY <2>2 DEF Cred!Activate
  <2>3. CASE handlerAt[a].job # "single" /\ Cred!LoadActive(keysFile) # Cred!None
    <3>1. agent' = [agent EXCEPT !["gateway"] = Cred!LoadActive(keysFile)]
      BY <2>3 DEF Cred!Activate
    <3>2. /\ Cred!LoadActive(keysFile) \in Cred!Conf /\ Cred!LoadActive(keysFile).keys # <<>>
          /\ Range(Cred!LoadActive(keysFile).keys) \subseteq accepted
      BY <2>3, HandlerIs, LoadActiveIs
    <3>. QED
      BY <3>1, <3>2
  <2>. QED
    BY <2>1, <2>2, <2>3
<1>5. /\ agent' \in [{"gateway", "cli"} -> {Cred!None} \union Cred!Conf]
      /\ \A p \in {"gateway", "cli"} : agent'[p] # Cred!None =>
            agent'[p].keys # <<>> /\ Range(agent'[p].keys) \subseteq accepted'
      /\ Cred!LoadActive(keysFile) # Cred!None => Cred!On'
  <2>1. CASE agent' = agent /\ Cred!LoadActive(keysFile) = Cred!None
    BY <1>1, <2>1, HandlerIs
  <2>2. CASE \E p \in {"gateway", "cli"}, w \in Cred!Conf :
           /\ agent' = [agent EXCEPT ![p] = w] /\ w.keys # <<>> /\ Range(w.keys) \subseteq accepted
    <3>1. PICK p \in {"gateway", "cli"}, w \in Cred!Conf :
           /\ agent' = [agent EXCEPT ![p] = w] /\ w.keys # <<>> /\ Range(w.keys) \subseteq accepted
      BY <2>2
    <3>2. agent' \in [{"gateway", "cli"} -> {Cred!None} \union Cred!Conf] /\ agent'[p] = w
      BY <3>1, HandlerIs
    <3>3. Cred!On'
      BY <3>2, KindsDiffer DEF Cred!On
    <3>. QED
      BY <1>1, <3>1, <3>2, <3>3, HandlerIs
  <2>. QED
    BY <1>4, <2>1, <2>2
<1>6. Cred!Fit(Cred!Idle)' /\ (Cred!Holds(handlerAt[a]) => Cred!Holds(Cred!Idle)')
  BY <1>1 DEF Cred!Fit, Cred!Idle, Cred!Holds
<1>7. Cred!Lit(handlerAt[a]) => Cred!Lit(Cred!Idle)'
  <2>1. Cred!Lit(handlerAt[a]) => Cred!Filled(keysFile)
    BY <1>1 DEF Cred!Lit
  <2>2. Cred!Filled(keysFile) => Cred!On'
    BY <1>5, HandlerIs, LoadActiveIs
  <2>. QED
    BY <1>1, <2>1, <2>2 DEF Cred!Lit, Cred!Idle
<1>. QED
  BY <1>1, <1>2, <1>5, <1>6, <1>7, IdleFits, HandlerActs

(* A configuration goes online with the keys that were accepted.             *)
LEMMA OnlineIs ==
  ASSUME Cred!CredentialsInv, NEW a \in Cred!Actors, Cred!Online(a), handlerAt[a].with \in Cred!Conf,
         accepted \subseteq accepted', handlerAt[a].with.keys # <<>>,
         Range(handlerAt[a].with.keys) \subseteq accepted'
  PROVE  /\ agent' \in [{"gateway", "cli"} -> {Cred!None} \union Cred!Conf]
         /\ \A p \in {"gateway", "cli"} : agent'[p] # Cred!None =>
               agent'[p].keys # <<>> /\ Range(agent'[p].keys) \subseteq accepted'
         /\ Cred!On'
<1>1. agent' = [agent EXCEPT ![Cred!Process(a)] = handlerAt[a].with]
  BY DEF Cred!Online
<1>2. /\ agent' \in [{"gateway", "cli"} -> {Cred!None} \union Cred!Conf] /\ agent'[Cred!Process(a)] = handlerAt[a].with
      /\ \A p \in {"gateway", "cli"} : p # Cred!Process(a) => agent'[p] = agent[p]
  BY <1>1, HandlerIs
<1>3. Cred!On'
  BY <1>2, HandlerIs, KindsDiffer DEF Cred!On
<1>. QED
  BY <1>2, <1>3, HandlerIs

LEMMA ValidateStep ==
  ASSUME CredAssume, Cred!CredentialsInv, NEW a \in Cred!Actors,
         NEW outcome \in Cred!Answers(handlerAt[a].with), Cred!Validate(a, outcome)
  PROVE  Cred!CredentialsInv'
<1>1. /\ handlerAt[a].pc = "validate" /\ handlerAt[a] # Cred!Idle
      /\ UNCHANGED <<keysFile, token, links, begun, config, saved, opened, raced>>
  BY DEF Cred!Validate, Cred!Idle
<1>2. PICK q : q = handlerAt[a]
  OBVIOUS
<1>3. /\ q \in Cred!Stages /\ q.pc = "validate" /\ Cred!Fit(q) /\ q.with \in Cred!Conf
      /\ q.job \in Cred!NewKey \union {"model", "reload"}
  BY <1>1, <1>2, HandlerIs, StageIs
<1>. DEFINE ok == outcome \in {"ok", "other"}
            reload == q.job \in {"model", "reload"}
<1>4. ok => q.with.keys # <<>> /\ outcome # "rejected"
  BY <1>2 DEF Cred!Answers
<1>5. accepted \subseteq accepted'
  BY DEF Cred!Validate
<1>6. /\ keysFile' \in {<<>>} \union Cred!Contents /\ Cred!Usable(keysFile') /\ Cred!KeysIn(keysFile') \subseteq accepted'
  BY <1>1, <1>5, HandlerIs
<1>7. UNCHANGED agent =>
        /\ agent' \in [{"gateway", "cli"} -> {Cred!None} \union Cred!Conf]
        /\ \A p \in {"gateway", "cli"} : agent'[p] # Cred!None =>
              agent'[p].keys # <<>> /\ Range(agent'[p].keys) \subseteq accepted'
        /\ (Cred!On' <=> Cred!On) /\ (Cred!Off' <=> Cred!Off)
  BY <1>5, HandlerIs DEF Cred!On, Cred!Off
<1>8. (Cred!Filled(keysFile') <=> Cred!Filled(keysFile)) /\ Cred!CredsIn(keysFile') = Cred!CredsIn(keysFile)
  BY <1>1
<1>9. Cred!Fit(Cred!Idle)' /\ (Cred!Holds(q) => Cred!Holds(Cred!Idle)')
  BY <1>1, <1>3 DEF Cred!Fit, Cred!Idle, Cred!Holds
<1>10. CASE ok /\ reload
  <2>1. Cred!Online(a) /\ handlerAt' = [handlerAt EXCEPT ![a] = Cred!Idle]
    BY <1>2, <1>10 DEF Cred!Validate, Cred!Validated, Cred!End, Cred!Go
  <2>2. Range(q.with.keys) \subseteq accepted'
    BY CredOps, <1>3, <1>5, <1>10 DEF Cred!Fit, Cred!Proper
  <2>3. /\ agent' \in [{"gateway", "cli"} -> {Cred!None} \union Cred!Conf] /\ Cred!On'
        /\ \A p \in {"gateway", "cli"} : agent'[p] # Cred!None =>
              agent'[p].keys # <<>> /\ Range(agent'[p].keys) \subseteq accepted'
    BY <1>2, <1>3, <1>4, <1>5, <1>10, <2>1, <2>2, OnlineIs
  <2>4. Cred!Lit(q) => Cred!Lit(Cred!Idle)'
    <3>1. Cred!Lit(q) => Cred!Filled(keysFile)
      BY <1>3, <1>10 DEF Cred!Lit
    <3>. QED
      BY <3>1, <2>3, <1>8 DEF Cred!Lit, Cred!Idle
  <2>. QED
    BY <1>1, <1>2, <1>5, <1>6, <1>9, <2>1, <2>3, <2>4, IdleFits, HandlerActs
<1>11. CASE ok /\ ~reload
  <2>. DEFINE r == [q EXCEPT !.pc = "save"]
  <2>1. /\ handlerAt' = [handlerAt EXCEPT ![a] = r] /\ accepted' = accepted \union {q.cred.key}
        /\ IF q.job = "onboard" THEN Cred!Online(a) ELSE UNCHANGED agent
    BY <1>2, <1>4, <1>11 DEF Cred!Validate, Cred!Validated, Cred!Go
  <2>2. q \in [pc : {"validate", "save"}, job : Cred!NewKey, cred : Cred!Cred, with : Cred!Conf]
    BY <1>3, <1>11, StageIs
  <2>3. /\ r.pc = "save" /\ r.job = q.job /\ r.cred = q.cred /\ r.with = q.with
        /\ r \in [pc : {"validate", "save"}, job : Cred!NewKey, cred : Cred!Cred, with : Cred!Conf]
    BY <2>2
  <2>. HIDE DEF r
  <2>4. r \in Cred!Stages
    BY <2>3 DEF Cred!Stages
  <2>5. q.cred.key \notin Placeholders /\ q.with.keys # <<>> /\ Range(q.with.keys) \subseteq accepted'
    BY CredOps, <1>3, <2>1, <2>2 DEF Cred!Fit
  <2>6. Cred!Fit(r)' /\ (Cred!Holds(q) => Cred!Holds(r)')
    BY <1>1, <1>3, <2>1, <2>3, <2>5 DEF Cred!Fit, Cred!Proper, Cred!Holds, Cred!NewKey
  <2>7. /\ agent' \in [{"gateway", "cli"} -> {Cred!None} \union Cred!Conf]
        /\ \A p \in {"gateway", "cli"} : agent'[p] # Cred!None =>
              agent'[p].keys # <<>> /\ Range(agent'[p].keys) \subseteq accepted'
        /\ q.job = "onboard" => Cred!On'
        /\ q.job # "onboard" => (Cred!On' <=> Cred!On) /\ (Cred!Off' <=> Cred!Off)
    BY <1>2, <1>3, <1>5, <1>7, <2>1, <2>5, OnlineIs
  <2>8. Cred!Lit(q) => Cred!Lit(r)'
    BY <1>3, <1>8, <2>2, <2>3, <2>7 DEF Cred!Lit, Cred!NewKey
  <2>. QED
    BY <1>1, <1>2, <1>5, <1>6, <2>1, <2>4, <2>6, <2>7, <2>8, HandlerActs
<1>12. CASE ~ok
  <2>1. UNCHANGED <<accepted, agent>>
    BY <1>12 DEF Cred!Validate, Cred!Validated
  <2>2. CASE q.job = "reload"
    <3>. DEFINE r == [q EXCEPT !.pc = "revert"]
    <3>1. handlerAt' = [handlerAt EXCEPT ![a] = r]
      BY <1>2, <1>12, <2>2 DEF Cred!Validate, Cred!Validated, Cred!Go
    <3>2. q \in [pc : {"validate", "revert"}, job : {"reload"}, mine : Cred!Conf, with : Cred!Conf]
      BY <1>3, <2>2, StageIs
    <3>3. /\ r.pc = "revert" /\ r.job = q.job
          /\ r \in [pc : {"validate", "revert"}, job : {"reload"}, mine : Cred!Conf, with : Cred!Conf]
      BY <3>2
    <3>. HIDE DEF r
    <3>4. r \in Cred!Stages
      BY <3>3 DEF Cred!Stages
    <3>5. Cred!Fit(r)' /\ (Cred!Holds(q) => Cred!Holds(r)')
      BY <1>1, <1>3, <2>2, <3>3 DEF Cred!Fit, Cred!Holds, Cred!NewKey
    <3>6. Cred!Lit(q) => Cred!Lit(r)'
      BY <1>3, <1>7, <1>8, <2>1, <2>2, <3>3 DEF Cred!Lit
    <3>. QED
      BY <1>1, <1>2, <1>5, <1>6, <1>7, <2>1, <3>1, <3>4, <3>5, <3>6, HandlerActs
  <2>3. CASE q.job = "model" /\ agent["gateway"] # Cred!None
    <3>1. PICK m : m = agent["gateway"].model
      OBVIOUS
    <3>. DEFINE g == Cred!SetModel(q.copy, q.copy.active, m)
                r == [pc |-> "truncate", job |-> "revert", copy |-> g]
    <3>2. handlerAt' = [handlerAt EXCEPT ![a] = r]
      BY <1>2, <1>12, <2>3, <3>1 DEF Cred!Validate, Cred!Validated, Cred!Go
    <3>3. q.copy \in Cred!Contents /\ Cred!Usable(q.copy) /\ Cred!KeysIn(q.copy) \subseteq accepted /\ m \in STRING
      <4>1. q.copy \in Cred!Contents /\ Cred!Usable(q.copy) /\ Cred!KeysIn(q.copy) \subseteq accepted
        BY <1>3, <2>3, StageIs DEF Cred!Fit, Cred!Tried
      <4>2. agent["gateway"] \in Cred!Conf
        BY <2>3, HandlerIs
      <4>. QED
        BY <4>1, <4>2, <3>1 DEF Cred!Conf
    <3>4. /\ g \in Cred!Contents /\ Cred!CredsIn(g) = Cred!CredsIn(q.copy) /\ Cred!KeysIn(g) \subseteq accepted /\ Cred!Usable(g)
          /\ Cred!Filled(q.copy) => Cred!Filled(g)
      BY <3>3, SetModelIs
    <3>. HIDE DEF g
    <3>5. r \in Cred!Stages
      BY <3>4 DEF Cred!Stages
    <3>6. r.pc = "truncate" /\ r.job = "revert" /\ r.copy = g
      OBVIOUS
    <3>. HIDE DEF r
    <3>7. Cred!Fit(r)' /\ (Cred!Holds(q) => Cred!Holds(r)')
      BY <1>1, <1>3, <2>1, <2>3, <3>4, <3>6 DEF Cred!Fit, Cred!Holds, Cred!NewKey, Cred!Tried
    <3>8. Cred!Lit(q) => Cred!Lit(r)'
      BY <1>3, <1>7, <1>8, <2>1, <2>3, <3>4, <3>6 DEF Cred!Lit
    <3>. QED
      BY <1>1, <1>2, <1>5, <1>6, <1>7, <2>1, <3>2, <3>5, <3>7, <3>8, HandlerActs
  <2>4. CASE q.job # "reload" /\ ~(q.job = "model" /\ agent["gateway"] # Cred!None)
    <3>1. handlerAt' = [handlerAt EXCEPT ![a] = Cred!Idle]
      BY <1>2, <1>12, <2>4 DEF Cred!Validate, Cred!Validated, Cred!Go, Cred!End
    <3>2. Cred!Lit(q) => Cred!Lit(Cred!Idle)'
      BY <1>3, <1>7, <1>8, <2>1 DEF Cred!Lit, Cred!Idle
    <3>. QED
      BY <1>1, <1>2, <1>5, <1>6, <1>7, <1>9, <2>1, <3>1, <3>2, IdleFits, HandlerActs
  <2>. QED
    BY <2>2, <2>3, <2>4
<1>. QED
  BY <1>10, <1>11, <1>12

LEMMA BeginIs ==
  ASSUME CredAssume, Cred!CredentialsInv, NEW a \in Cred!Actors, Cred!Begin(a)
  PROVE  /\ begun > 0 /\ begun' \in Nat /\ begun' > 0 /\ raced' \in BOOLEAN /\ handlerAt[a] = Cred!Idle
         /\ ~raced' => (~raced /\ \A b \in Cred!Actors : b # a => handlerAt[b] = Cred!Idle)
<1>1. /\ begun \in 1..MaxHandlers /\ begun' = begun + 1 /\ handlerAt[a] = Cred!Idle
      /\ raced' = (raced \/ \E b \in Cred!Actors : handlerAt[b] # Cred!Idle)
  BY DEF Cred!Begin
<1>2. begun \in Nat /\ MaxHandlers \in Nat
  BY DEF Cred!CredentialsInv, Cred!CredentialTypes, CredAssume
<1>3. raced' \in BOOLEAN /\ (~raced' => (~raced /\ \A b \in Cred!Actors : b # a => handlerAt[b] = Cred!Idle))
  BY <1>1, Zenon
<1>. QED
  BY <1>1, <1>2, <1>3

LEMMA RemoveKeyStep ==
  ASSUME CredAssume, Cred!CredentialsInv, NEW a \in Cred!Actors, NEW name, Cred!RemoveKey(a, name)
  PROVE  Cred!CredentialsInv'
<1>1. /\ Cred!Begin(a) /\ handlerAt[a] = Cred!Idle
      /\ UNCHANGED <<keysFile, agent, token, links, config, accepted, opened>>
  BY DEF Cred!RemoveKey, Cred!Begin
<1>2. PICK g : g = Cred!Removed(keysFile, name)
  OBVIOUS
<1>. DEFINE r == [pc |-> "truncate", job |-> "remove", copy |-> g]
            o == [pc |-> "offline"]
<1>3. CASE Cred!Go(a, o) /\ UNCHANGED saved
  <2>1. o \in Cred!Stages /\ Cred!Fit(o) /\ (Cred!Holds(Cred!Idle) => Cred!Holds(o)) /\ (Cred!Lit(Cred!Idle) => Cred!Lit(o))
    BY DEF Cred!Stages, Cred!Fit, Cred!Holds, Cred!Lit, Cred!Idle
  <2>2. handlerAt' = [handlerAt EXCEPT ![a] = o]
    BY <1>3 DEF Cred!Go
  <2>. HIDE DEF o
  <2>. QED
    BY <1>1, <1>3, <2>1, <2>2, HandlerMoves
<1>4. CASE Cred!Load(keysFile) # <<>> /\ Cred!Go(a, r) /\ saved' = {c \in saved : c.name # name}
  <2>1. keysFile \in Cred!Contents /\ Cred!Usable(keysFile) /\ Cred!KeysIn(keysFile) \subseteq accepted /\ Cred!Filled(keysFile)
    BY <1>4, HandlerIs, LoadActiveIs
  <2>2. /\ g \in Cred!Contents /\ Cred!KeysIn(g) \subseteq accepted /\ Cred!Usable(g)
        /\ {c \in Cred!CredsIn(keysFile) : c.name # name} \subseteq Cred!CredsIn(g)
    BY <2>1, <1>2, RemovedIs
  <2>3. handlerAt' = [handlerAt EXCEPT ![a] = r]
    BY <1>4 DEF Cred!Go
  <2>4. r \in Cred!Stages
    BY <2>2 DEF Cred!Stages
  <2>5. r.pc = "truncate" /\ r.job = "remove" /\ r.copy = g
    OBVIOUS
  <2>. HIDE DEF r
  <2>6. Cred!Fit(r)'
    BY <1>1, <2>2, <2>5 DEF Cred!Fit, Cred!NewKey, Cred!Tried
  <2>7. Cred!Holds(Cred!Idle) => Cred!Holds(r)'
    <3>1. saved \subseteq Cred!CredsIn(keysFile) => saved' \subseteq Cred!CredsIn(g) /\ saved' \subseteq Cred!CredsIn(keysFile')
      BY <1>1, <1>4, <2>2
    <3>. QED
      BY <3>1, <2>5 DEF Cred!Holds, Cred!Idle, Cred!NewKey
  <2>8. Cred!Lit(Cred!Idle) => Cred!Lit(r)'
    <3>1. (Cred!On' <=> Cred!On) /\ (Cred!Off' <=> Cred!Off) /\ (Cred!Filled(keysFile') <=> Cred!Filled(keysFile))
      BY <1>1 DEF Cred!On, Cred!Off
    <3>. QED
      BY <2>1, <2>5, <3>1 DEF Cred!Lit, Cred!Idle
  <2>9. Cred!TokensOwn'
    BY <1>1 DEF Cred!CredentialsInv, Cred!TokensOwn
  <2>10. /\ keysFile' \in {<<>>} \union Cred!Contents /\ Cred!Usable(keysFile') /\ Cred!KeysIn(keysFile') \subseteq accepted'
         /\ agent' \in [{"gateway", "cli"} -> {Cred!None} \union Cred!Conf]
         /\ \A p \in {"gateway", "cli"} : agent'[p] # Cred!None =>
               agent'[p].keys # <<>> /\ Range(agent'[p].keys) \subseteq accepted'
    BY <1>1, HandlerIs
  <2>11. /\ token' \in [Cred!Actors -> [id : Nat, fresh : BOOLEAN]]
         /\ links' \in Seq(Cred!Actors) /\ opened' \in Seq(Nat \X Cred!Actors)
    BY <1>1 DEF Cred!CredentialsInv, Cred!CredentialTypes
  <2>. QED
    BY <1>1, <2>3, <2>4, <2>6, <2>7, <2>8, <2>9, <2>10, <2>11, BeginIs, HandlerStep
<1>. QED
  <2>. HIDE DEF r, o
  <2>. QED
    BY <1>2, <1>3, <1>4 DEF Cred!RemoveKey, r, o

(* The tokens of a chat: a new link, an expiry, a blob.                      *)
LEMMA TokensLink ==
  ASSUME Cred!CredentialsInv, NEW a \in Cred!Actors, links' = Append(links, a), opened' = opened,
         token' = [token EXCEPT ![a] = [id |-> Len(links) + 1, fresh |-> TRUE]]
  PROVE  /\ Cred!TokensOwn' /\ token' \in [Cred!Actors -> [id : Nat, fresh : BOOLEAN]]
         /\ links' \in Seq(Cred!Actors)
<1>1. /\ token \in [Cred!Actors -> [id : Nat, fresh : BOOLEAN]]
      /\ links \in Seq(Cred!Actors) /\ opened \in Seq(Nat \X Cred!Actors) /\ Cred!TokensOwn
  BY DEF Cred!CredentialsInv, Cred!CredentialTypes
<1>2. /\ links' \in Seq(Cred!Actors) /\ DOMAIN links' = DOMAIN links \union {Len(links) + 1}
      /\ links'[Len(links) + 1] = a /\ \A i \in DOMAIN links : links'[i] = links[i]
      /\ Len(links) + 1 \notin DOMAIN links /\ Len(links) + 1 \in Nat /\ Len(links) + 1 # 0
  BY <1>1, AppendSet
<1>3. /\ token' \in [Cred!Actors -> [id : Nat, fresh : BOOLEAN]]
      /\ token'[a].id = Len(links) + 1
      /\ \A b \in Cred!Actors : b # a => token'[b] = token[b]
  BY <1>1, <1>2
<1>4. /\ \A i \in DOMAIN opened : opened[i][1] \in DOMAIN links /\ links[opened[i][1]] = opened[i][2]
      /\ \A i, j \in DOMAIN opened : opened[i][1] = opened[j][1] => i = j
  BY <1>1 DEF Cred!TokensOwn
<1>5. ASSUME NEW b \in Cred!Actors
      PROVE  /\ token'[b].id # 0 =>
                /\ token'[b].id \in DOMAIN links' /\ links'[token'[b].id] = b
                /\ \A i \in DOMAIN opened : opened[i][1] # token'[b].id
             /\ token'[b].fresh => token'[b].id # 0
  <2>1. CASE b = a
    BY <2>1, <1>2, <1>3, <1>4
  <2>2. CASE b # a
    BY <2>2, <1>1, <1>2, <1>3 DEF Cred!TokensOwn
  <2>. QED
    BY <2>1, <2>2
<1>6. Cred!TokensOwn'
  BY <1>2, <1>4, <1>5 DEF Cred!TokensOwn
<1>. QED
  BY <1>2, <1>3, <1>6

LEMMA TokensExpire ==
  ASSUME Cred!CredentialsInv, NEW a \in Cred!Actors, UNCHANGED <<links, opened>>,
         token' = [token EXCEPT ![a].fresh = FALSE] \/ token' = [token EXCEPT ![a] = Cred!NoToken]
  PROVE  /\ Cred!TokensOwn' /\ token' \in [Cred!Actors -> [id : Nat, fresh : BOOLEAN]]
<1>1. /\ token \in [Cred!Actors -> [id : Nat, fresh : BOOLEAN]] /\ Cred!TokensOwn
  BY DEF Cred!CredentialsInv, Cred!CredentialTypes
<1>2. /\ token' \in [Cred!Actors -> [id : Nat, fresh : BOOLEAN]]
      /\ token'[a].fresh = FALSE /\ (token'[a].id = token[a].id \/ token'[a].id = 0)
      /\ \A b \in Cred!Actors : b # a => token'[b] = token[b]
  <2>1. CASE token' = [token EXCEPT ![a].fresh = FALSE]
    BY <2>1, <1>1
  <2>2. CASE token' = [token EXCEPT ![a] = Cred!NoToken]
    BY <2>2, <1>1 DEF Cred!NoToken
  <2>. QED
    BY <2>1, <2>2
<1>3. ASSUME NEW b \in Cred!Actors
      PROVE  /\ token'[b].id # 0 =>
                /\ token'[b].id \in DOMAIN links /\ links[token'[b].id] = b
                /\ \A i \in DOMAIN opened : opened[i][1] # token'[b].id
             /\ token'[b].fresh => token'[b].id # 0
  <2>1. CASE b = a
    BY <2>1, <1>1, <1>2 DEF Cred!TokensOwn
  <2>2. CASE b # a
    BY <2>2, <1>1, <1>2 DEF Cred!TokensOwn
  <2>. QED
    BY <2>1, <2>2
<1>4. Cred!TokensOwn'
  BY <1>1, <1>3 DEF Cred!TokensOwn
<1>. QED
  BY <1>2, <1>4

LEMMA TokensBlob ==
  ASSUME Cred!CredentialsInv, NEW a \in Cred!Actors, NEW id, links' = links, Cred!Consume(a),
         token[a].fresh, token[a].id = id, opened' = Append(opened, <<id, a>>)
  PROVE  /\ Cred!TokensOwn' /\ token' \in [Cred!Actors -> [id : Nat, fresh : BOOLEAN]]
         /\ opened' \in Seq(Nat \X Cred!Actors)
<1>1. /\ token \in [Cred!Actors -> [id : Nat, fresh : BOOLEAN]]
      /\ opened \in Seq(Nat \X Cred!Actors) /\ Cred!TokensOwn
  BY DEF Cred!CredentialsInv, Cred!CredentialTypes
<1>2. /\ token' \in [Cred!Actors -> [id : Nat, fresh : BOOLEAN]]
      /\ token'[a].id = 0 /\ token'[a].fresh = FALSE
      /\ \A b \in Cred!Actors : b # a => token'[b] = token[b]
  BY <1>1 DEF Cred!Consume, Cred!NoToken
<1>3. /\ id \in Nat /\ id # 0 /\ id \in DOMAIN links /\ links[id] = a
      /\ \A i \in DOMAIN opened : opened[i][1] # id
  BY <1>1 DEF Cred!TokensOwn
<1>. DEFINE N == Len(opened) + 1
<1>4. /\ opened' \in Seq(Nat \X Cred!Actors)
      /\ DOMAIN opened' = DOMAIN opened \union {N} /\ opened'[N] = <<id, a>>
      /\ \A i \in DOMAIN opened : opened'[i] = opened[i]
  <2>1. <<id, a>> \in Nat \X Cred!Actors
    BY <1>3
  <2>. QED
    BY <2>1, <1>1, AppendSet
<1>. HIDE DEF N
<1>5. /\ \A i \in DOMAIN opened : opened'[i][1] = opened[i][1] /\ opened'[i][2] = opened[i][2]
      /\ opened'[N][1] = id /\ opened'[N][2] = a
  BY <1>4
<1>6. ASSUME NEW b \in Cred!Actors
      PROVE  /\ token'[b].id # 0 =>
                /\ token'[b].id \in DOMAIN links /\ links[token'[b].id] = b
                /\ \A i \in DOMAIN opened' : opened'[i][1] # token'[b].id
             /\ token'[b].fresh => token'[b].id # 0
  <2>1. CASE b = a
    BY <2>1, <1>2
  <2>2. CASE b # a
    <3>1. /\ token'[b] = token[b] /\ (token[b].fresh => token[b].id # 0)
          /\ token[b].id # 0 => /\ token[b].id \in DOMAIN links /\ links[token[b].id] = b
                                /\ \A i \in DOMAIN opened : opened[i][1] # token[b].id
      BY <2>2, <1>1, <1>2 DEF Cred!TokensOwn
    <3>2. token[b].id # 0 => token[b].id # id
      BY <2>2, <3>1, <1>3
    <3>3. token[b].id # 0 => \A i \in DOMAIN opened' : opened'[i][1] # token[b].id
      BY <3>1, <3>2, <1>4, <1>5
    <3>. QED
      BY <3>1, <3>3
  <2>. QED
    BY <2>1, <2>2
<1>7. \A i \in DOMAIN opened' : opened'[i][1] \in DOMAIN links /\ links[opened'[i][1]] = opened'[i][2]
  BY <1>1, <1>3, <1>4, <1>5 DEF Cred!TokensOwn
<1>8. \A i, j \in DOMAIN opened' : opened'[i][1] = opened'[j][1] => i = j
  BY <1>1, <1>3, <1>4, <1>5 DEF Cred!TokensOwn
<1>9. Cred!TokensOwn'
  BY <1>6, <1>7, <1>8 DEF Cred!TokensOwn
<1>. QED
  BY <1>2, <1>4, <1>9

(* A step that touches tokens and links only.                                *)
LEMMA TokenStep ==
  ASSUME Cred!CredentialsInv, Cred!TokensOwn', token' \in [Cred!Actors -> [id : Nat, fresh : BOOLEAN]],
         links' \in Seq(Cred!Actors), opened' \in Seq(Nat \X Cred!Actors),
         UNCHANGED <<keysFile, agent, handlerAt, begun, config, accepted, saved, raced>>
  PROVE  Cred!CredentialsInv'
<1>1. Cred!CredentialTypes'
  BY DEF Cred!CredentialsInv, Cred!CredentialTypes
<1>2. Cred!KeysProper'
  BY DEF Cred!CredentialsInv, Cred!KeysProper, Cred!Tried, Cred!Proper, Cred!Fit
<1>3. Cred!Undisturbed'
  BY DEF Cred!CredentialsInv, Cred!Undisturbed, Cred!Alone, Cred!Holds, Cred!Lit, Cred!On, Cred!Off
<1>. QED
  BY <1>1, <1>2, <1>3 DEF Cred!CredentialsInv

LEMMA LinkStep ==
  ASSUME Cred!CredentialsInv, NEW a \in Cred!Actors, Cred!Link(a)
  PROVE  Cred!CredentialsInv'
<1>1. opened \in Seq(Nat \X Cred!Actors)
  BY DEF Cred!CredentialsInv, Cred!CredentialTypes
<1>. QED
  BY <1>1, TokensLink, TokenStep DEF Cred!Link

LEMMA ExpireStep ==
  ASSUME Cred!CredentialsInv, NEW a \in Cred!Actors, Cred!Expire(a)
  PROVE  Cred!CredentialsInv'
<1>1. opened \in Seq(Nat \X Cred!Actors) /\ links \in Seq(Cred!Actors)
  BY DEF Cred!CredentialsInv, Cred!CredentialTypes
<1>. QED
  BY <1>1, TokensExpire, TokenStep DEF Cred!Expire

LEMMA BlobStep ==
  ASSUME CredAssume, Cred!CredentialsInv, NEW a \in Cred!Actors, NEW c \in Pasted, NEW id, Cred!Blob(a, id, c)
  PROVE  Cred!CredentialsInv'
<1>1. /\ Cred!Begin(a) /\ handlerAt[a] = Cred!Idle /\ Cred!Consume(a)
      /\ UNCHANGED <<keysFile, agent, links, config, accepted, saved>>
  BY DEF Cred!Blob, Cred!Begin
<1>2. /\ links' \in Seq(Cred!Actors) /\ opened \in Seq(Nat \X Cred!Actors) /\ handlerAt \in [Cred!Actors -> Cred!Stages]
  BY <1>1 DEF Cred!CredentialsInv, Cred!CredentialTypes
<1>3. /\ Cred!TokensOwn' /\ token' \in [Cred!Actors -> [id : Nat, fresh : BOOLEAN]]
      /\ opened' \in Seq(Nat \X Cred!Actors)
  <2>1. CASE token[a].fresh /\ token[a].id = id
    BY <2>1, <1>1, TokensBlob DEF Cred!Blob
  <2>2. CASE ~(token[a].fresh /\ token[a].id = id)
    BY <2>2, <1>1, <1>2, TokensExpire DEF Cred!Blob, Cred!Consume
  <2>. QED
    BY <2>1, <2>2
<1>4. \E r \in Cred!Stages : /\ handlerAt' = [handlerAt EXCEPT ![a] = r] /\ Cred!Fit(r)
                             /\ Cred!Holds(Cred!Idle) => Cred!Holds(r)
                             /\ Cred!Lit(Cred!Idle) => Cred!Lit(r)
  <2>1. CASE token[a].fresh /\ token[a].id = id
    BY <2>1, CheckIs DEF Cred!Blob, Cred!NewKey
  <2>2. CASE ~(token[a].fresh /\ token[a].id = id)
    <3>1. handlerAt' = [handlerAt EXCEPT ![a] = Cred!Idle]
      BY <2>2, <1>1, <1>2 DEF Cred!Blob
    <3>. QED
      BY <3>1, IdleFits
  <2>. QED
    BY <2>1, <2>2
<1>5. PICK r \in Cred!Stages : /\ handlerAt' = [handlerAt EXCEPT ![a] = r] /\ Cred!Fit(r)
                               /\ Cred!Holds(Cred!Idle) => Cred!Holds(r)
                               /\ Cred!Lit(Cred!Idle) => Cred!Lit(r)
  BY <1>4
<1>6. Cred!Fit(r)' /\ (Cred!Holds(Cred!Idle) => Cred!Holds(r)') /\ (Cred!Lit(Cred!Idle) => Cred!Lit(r)')
  <2>1. Cred!Fit(r)'
    BY <1>1, <1>5, FitMore
  <2>2. Cred!Holds(r) => Cred!Holds(r)'
    BY <1>1 DEF Cred!Holds
  <2>3. Cred!Lit(r) => Cred!Lit(r)'
    <3>1. (Cred!On' <=> Cred!On) /\ (Cred!Off' <=> Cred!Off) /\ (Cred!Filled(keysFile') <=> Cred!Filled(keysFile))
      BY <1>1 DEF Cred!On, Cred!Off
    <3>. QED
      BY <3>1 DEF Cred!Lit
  <2>. QED
    BY <1>5, <2>1, <2>2, <2>3
<1>7. /\ keysFile' \in {<<>>} \union Cred!Contents /\ Cred!Usable(keysFile') /\ Cred!KeysIn(keysFile') \subseteq accepted'
      /\ agent' \in [{"gateway", "cli"} -> {Cred!None} \union Cred!Conf]
      /\ \A p \in {"gateway", "cli"} : agent'[p] # Cred!None =>
            agent'[p].keys # <<>> /\ Range(agent'[p].keys) \subseteq accepted'
  BY <1>1, HandlerIs
<1>. QED
  BY <1>1, <1>2, <1>3, <1>5, <1>6, <1>7, BeginIs, HandlerStep

(* At the start the agents use what the files name.                          *)
LEMMA BootStep ==
  ASSUME CredAssume, Cred!CredentialsInv, NEW f \in KeyFiles, NEW c \in ConfigKeys, Cred!Boot(f, c)
  PROVE  Cred!CredentialsInv'
<1>1. /\ begun = 0 /\ begun' = 1 /\ config' = c /\ keysFile' = f
      /\ accepted' = Cred!KeysIn(f) \union (IF c = Cred!None THEN {} ELSE {c.key})
      /\ saved' = Cred!CredsIn(f) /\ UNCHANGED <<handlerAt, token, links, opened, raced>>
  BY DEF Cred!Boot
<1>2. \A a \in Cred!Actors : handlerAt'[a] = Cred!Idle
  BY <1>1 DEF Cred!CredentialsInv, Cred!CredentialTypes
<1>3. f \in {<<>>} \union Cred!Contents /\ Cred!Usable(f)
  BY DEF CredAssume
<1>4. /\ Cred!LoadActive(f) = Cred!None <=> ~Cred!Filled(f)
      /\ Cred!Filled(f) => /\ Cred!LoadActive(f) \in Cred!Conf /\ Cred!LoadActive(f).keys # <<>>
                           /\ Range(Cred!LoadActive(f).keys) \subseteq accepted'
  BY <1>1, <1>3, LoadActiveIs
<1>5. PICK w : /\ agent' = [p \in {"gateway", "cli"} |-> w]
               /\ w = Cred!None \/ (w \in Cred!Conf /\ w.keys # <<>> /\ Range(w.keys) \subseteq accepted')
               /\ c = Cred!None => w = Cred!LoadActive(f)
  <2>. DEFINE loaded == Cred!LoadActive(f)
              wc == [name |-> c.name, model |-> c.model,
                     keys |-> IF loaded = Cred!None THEN <<c.key>> ELSE loaded.keys,
                     base |-> IF loaded = Cred!None THEN "none" ELSE loaded.base]
  <2>0. DOMAIN agent = {"gateway", "cli"}
    BY DEF Cred!CredentialsInv, Cred!CredentialTypes
  <2>1. CASE c = Cred!None
    <3>1. agent' = [p \in {"gateway", "cli"} |-> Cred!LoadActive(f)]
      BY <2>0, <2>1 DEF Cred!Boot
    <3>. QED
      BY <3>1, <1>4
  <2>2. CASE c # Cred!None /\ c.key \in Placeholders
    <3>1. agent' = [p \in {"gateway", "cli"} |-> Cred!None]
      BY <2>0, <2>2 DEF Cred!Boot
    <3>. QED
      BY <3>1, <2>2
  <2>3. CASE c # Cred!None /\ c.key \notin Placeholders
    <3>1. agent' = [p \in {"gateway", "cli"} |-> wc]
      BY <2>0, <2>3 DEF Cred!Boot
    <3>2. c.name \in STRING /\ c.model \in STRING /\ c.key \in STRING /\ c.key \in accepted'
      BY <2>3, <1>1 DEF CredAssume
    <3>3. wc \in Cred!Conf /\ wc.keys # <<>> /\ Range(wc.keys) \subseteq accepted'
      <4>1. CASE loaded = Cred!None
        <5>1. wc = [name |-> c.name, model |-> c.model, keys |-> <<c.key>>, base |-> "none"]
          BY <4>1
        <5>2. <<c.key>> \in Seq(STRING) /\ <<c.key>> # <<>> /\ Range(<<c.key>>) = {c.key}
          BY <3>2 DEF Range
        <5>. HIDE DEF loaded, wc
        <5>3. wc \in Cred!Conf
          BY <5>1, <5>2, <3>2 DEF Cred!Conf, Cred!Text
        <5>. QED
          BY <5>1, <5>2, <5>3, <3>2
      <4>2. CASE loaded # Cred!None
        <5>1. wc = [name |-> c.name, model |-> c.model, keys |-> loaded.keys, base |-> loaded.base]
          BY <4>2
        <5>2. /\ loaded.keys \in Seq(STRING) /\ loaded.keys # <<>> /\ loaded.base \in Cred!Text
              /\ Range(loaded.keys) \subseteq accepted'
          BY <4>2, <1>4 DEF Cred!Conf
        <5>. HIDE DEF loaded, wc
        <5>3. wc \in Cred!Conf
          BY <5>1, <5>2, <3>2 DEF Cred!Conf
        <5>. QED
          BY <5>1, <5>2, <5>3
      <4>. QED
        BY <4>1, <4>2
    <3>. HIDE DEF wc
    <3>. QED
      BY <3>1, <3>3, <2>3
  <2>. QED
    BY <2>1, <2>2, <2>3
<1>6. Cred!CredentialTypes'
  BY <1>1, <1>3, <1>5 DEF Cred!CredentialsInv, Cred!CredentialTypes
<1>7. Cred!KeysProper'
  <2>1. \A a \in Cred!Actors : Cred!Fit(handlerAt[a])'
    BY <1>2 DEF Cred!Fit, Cred!Idle
  <2>2. Cred!Tried(keysFile)' /\ Cred!Usable(keysFile')
    BY <1>1, <1>3 DEF Cred!Tried
  <2>3. \A p \in DOMAIN agent' : agent'[p] # Cred!None => Cred!Proper(agent[p])'
    BY CredOps, <1>5 DEF Cred!Proper
  <2>. QED
    BY <2>1, <2>2, <2>3 DEF Cred!KeysProper
<1>8. Cred!TokensOwn'
  BY <1>1 DEF Cred!CredentialsInv, Cred!TokensOwn
<1>9. Cred!Undisturbed'
  <2>1. Cred!Alone'
    BY <1>2 DEF Cred!Alone
  <2>2. ASSUME NEW a \in Cred!Actors PROVE Cred!Holds(handlerAt[a])'
    BY <1>1, <1>2 DEF Cred!Holds, Cred!Idle
  <2>3. ASSUME NEW a \in Cred!Actors, config' = Cred!None PROVE Cred!Lit(handlerAt[a])'
    <3>1. Cred!Filled(keysFile') => Cred!On'
      BY <2>3, <1>1, <1>4, <1>5, KindsDiffer DEF Cred!On
    <3>2. ~Cred!Filled(keysFile') => Cred!Off'
      BY <2>3, <1>1, <1>4, <1>5 DEF Cred!Off
    <3>. QED
      BY <3>1, <3>2, <1>2 DEF Cred!Lit, Cred!Idle
  <2>. QED
    BY <2>1, <2>2, <2>3 DEF Cred!Undisturbed
<1>. QED
  BY <1>6, <1>7, <1>8, <1>9 DEF Cred!CredentialsInv

LEMMA InitCredentials ==
  ASSUME Cred!Init PROVE Cred!CredentialsInv
<1>1. Cred!CredentialTypes
  <2>1. Cred!Idle \in Cred!Stages /\ Cred!NoToken \in [id : Nat, fresh : BOOLEAN]
    BY DEF Cred!Stages, Cred!NoToken
  <2>2. handlerAt \in [Cred!Actors -> Cred!Stages] /\ token \in [Cred!Actors -> [id : Nat, fresh : BOOLEAN]]
        /\ \A a \in Cred!Actors : handlerAt[a] = Cred!Idle
    BY <2>1 DEF Cred!Init
  <2>3. links \in Seq(Cred!Actors) /\ opened \in Seq(Nat \X Cred!Actors)
    BY DEF Cred!Init
  <2>4. agent \in [{"gateway", "cli"} -> {Cred!None} \union Cred!Conf]
    BY DEF Cred!Init
  <2>. QED
    BY <2>2, <2>3, <2>4 DEF Cred!Init, Cred!CredentialTypes
<1>2. Cred!KeysProper
  BY DEF Cred!Init, Cred!KeysProper, Cred!Usable, Cred!Tried, Cred!KeysIn, Cred!Fit, Cred!Idle
<1>3. Cred!TokensOwn
  BY DEF Cred!Init, Cred!TokensOwn, Cred!NoToken
<1>4. Cred!Undisturbed
  BY DEF Cred!Init, Cred!Undisturbed, Cred!Alone, Cred!Holds, Cred!Idle
<1>. QED
  BY <1>1, <1>2, <1>3, <1>4 DEF Cred!CredentialsInv

LEMMA CredentialsInvariant ==
  ASSUME CredAssume PROVE Cred!Spec => []Cred!CredentialsInv
<1>1. Cred!Init => Cred!CredentialsInv
  BY InitCredentials
<1>2. Cred!CredentialsInv /\ [Cred!Next]_Cred!credentialVars => Cred!CredentialsInv'
  <2>. SUFFICES ASSUME Cred!CredentialsInv, [Cred!Next]_Cred!credentialVars PROVE Cred!CredentialsInv'
    OBVIOUS
  <2>1. CASE UNCHANGED Cred!credentialVars
    <3>1. Cred!TokensOwn' /\ UNCHANGED <<keysFile, agent, handlerAt, begun, config, accepted, saved, raced>>
      BY <2>1 DEF Cred!credentialVars, Cred!CredentialsInv, Cred!TokensOwn
    <3>2. /\ token' \in [Cred!Actors -> [id : Nat, fresh : BOOLEAN]]
          /\ links' \in Seq(Cred!Actors) /\ opened' \in Seq(Nat \X Cred!Actors)
      BY <2>1 DEF Cred!credentialVars, Cred!CredentialsInv, Cred!CredentialTypes
    <3>. QED
      BY <3>1, <3>2, TokenStep
  <2>2. ASSUME NEW f \in KeyFiles, NEW c \in ConfigKeys, Cred!Boot(f, c) PROVE Cred!CredentialsInv'
    BY <2>2, BootStep
  <2>3. ASSUME NEW a \in Cred!Actors, Cred!Receive(a) PROVE Cred!CredentialsInv'
    BY <2>3, LinkStep, TurnStep, PasteStep, BlobStep, SwitchModelStep, RemoveKeyStep DEF Cred!Receive
  <2>4. ASSUME NEW a \in Cred!Actors,
               \/ Cred!Expire(a) \/ Cred!Recheck(a) \/ Cred!Offline(a) \/ Cred!HotReload(a) \/ Cred!Revert(a)
               \/ Cred!SaveRead(a) \/ Cred!Truncate(a) \/ Cred!Fill(a) \/ Cred!Activate(a)
        PROVE  Cred!CredentialsInv'
    BY <2>4, ExpireStep, RecheckStep, OfflineStep, HotReloadStep, RevertStep, SaveReadStep,
       TruncateStep, FillStep, ActivateStep
  <2>5. ASSUME NEW a \in Cred!Actors, NEW outcome \in Cred!Answers(handlerAt[a].with), Cred!Validate(a, outcome)
        PROVE  Cred!CredentialsInv'
    BY <2>5, ValidateStep
  <2>. QED
    BY <2>1, <2>2, <2>3, <2>4, <2>5 DEF Cred!Next
<1>. QED
  BY <1>1, <1>2, PTL DEF Cred!Spec

LEMMA CredentialsFollow ==
  ASSUME Cred!CredentialsInv
  PROVE  Cred!TypeOK /\ Cred!OnlyTriedKeys /\ Cred!OneBlobPerLink /\ Cred!SavedStays /\ Cred!OnlineWhenUsable
<1>1. Cred!CredentialTypes /\ Cred!KeysProper /\ Cred!TokensOwn /\ Cred!Undisturbed
  BY DEF Cred!CredentialsInv
<1>2. Cred!TypeOK
  <2>1. \A a \in Cred!Actors : token[a].id \in 0..Len(links)
    <3>. SUFFICES ASSUME NEW a \in Cred!Actors PROVE token[a].id \in 0..Len(links)
      OBVIOUS
    <3>1. token[a].id \in Nat /\ DOMAIN links = 1..Len(links) /\ Len(links) \in Nat
      BY <1>1 DEF Cred!CredentialTypes
    <3>2. token[a].id # 0 => token[a].id \in DOMAIN links
      BY <1>1 DEF Cred!TokensOwn
    <3>. QED
      BY <3>1, <3>2
  <2>2. \A p \in DOMAIN agent : agent[p] = Cred!None \/ agent[p].keys # <<>>
    BY <1>1 DEF Cred!KeysProper, Cred!Proper
  <2>. QED
    BY <1>1, <2>1, <2>2 DEF Cred!TypeOK, Cred!CredentialTypes
<1>3. Cred!OnlyTriedKeys
  BY <1>1 DEF Cred!KeysProper, Cred!Proper, Cred!Tried, Cred!OnlyTriedKeys
<1>4. Cred!OneBlobPerLink
  BY <1>1 DEF Cred!TokensOwn, Cred!OneBlobPerLink
<1>5. Cli \in Cred!Actors
  BY DEF Cred!Actors
<1>6. ASSUME ~raced, \A a \in Cred!Actors : handlerAt[a] = Cred!Idle
      PROVE  /\ Cred!Holds(Cred!Idle) /\ (begun > 0 /\ config = Cred!None => Cred!Lit(Cred!Idle))
  BY <1>1, <1>5, <1>6 DEF Cred!Undisturbed
<1>7. Cred!SavedStays
  BY <1>6 DEF Cred!SavedStays, Cred!Holds, Cred!Idle
<1>8. Cred!OnlineWhenUsable
  <2>. SUFFICES ASSUME begun > 0, config = Cred!None, ~raced, \A a \in Cred!Actors : handlerAt[a] = Cred!Idle,
                       agent["cli"] = agent["gateway"]
                PROVE  agent["gateway"] = Cred!None <=> Cred!LoadActive(keysFile) = Cred!None
    BY DEF Cred!OnlineWhenUsable
  <2>1. Cred!Lit(Cred!Idle)
    BY <1>6
  <2>2. (Cred!Filled(keysFile) => Cred!On) /\ (~Cred!Filled(keysFile) => Cred!Off)
    BY <2>1 DEF Cred!Lit, Cred!Idle
  <2>3. (Cred!On => agent["gateway"] # Cred!None) /\ (Cred!Off => agent["gateway"] = Cred!None)
    BY <1>1 DEF Cred!On, Cred!Off, Cred!CredentialTypes
  <2>4. Cred!LoadActive(keysFile) = Cred!None <=> ~Cred!Filled(keysFile)
    BY <1>1, LoadActiveIs DEF Cred!CredentialTypes, Cred!KeysProper
  <2>. QED
    BY <2>2, <2>3, <2>4
<1>. QED
  BY <1>2, <1>3, <1>4, <1>7, <1>8

-----------------------------------------------------------------------------
(* DockerOrchestrator.                                                     *)

(* What an operation is follows from its name.                               *)
LEMMA JobShape ==
  ASSUME NEW I, NEW r \in Orch!JobOf(I)
  PROVE  /\ r.op = "create" => r.name \in InstanceNames
         /\ r.op \in {"start", "track"} => r \in Orch!MakeJob(I)
         /\ r.op = "status" => r \in Orch!SeeJob(I)
         /\ r.op = "scale" => r \in Orch!ScaleJob(I)
         /\ r.op \in {"stop", "remove", "untrack"} => r \in Orch!EndJob(I)
<1>1. CASE r = Orch!NoJob
  BY <1>1 DEF Orch!NoJob
<1>2. CASE r \in [op : {"create"}, name : InstanceNames]
  BY <1>2
<1>3. CASE r \in Orch!MakeJob(I)
  BY <1>3 DEF Orch!MakeJob
<1>4. CASE r \in Orch!SeeJob(I)
  BY <1>4 DEF Orch!SeeJob
<1>5. CASE r \in Orch!ScaleJob(I)
  BY <1>5 DEF Orch!ScaleJob
<1>6. CASE r \in Orch!EndJob(I)
  BY <1>6 DEF Orch!EndJob
<1>. QED
  BY <1>1, <1>2, <1>3, <1>4, <1>5, <1>6 DEF Orch!JobOf

(* More ids leave every operation well formed.                               *)
LEMMA JobGrows ==
  ASSUME NEW I, NEW J, I \subseteq J
  PROVE  /\ Orch!ScaleJob(I) \subseteq Orch!ScaleJob(J) /\ Orch!JobOf(I) \subseteq Orch!JobOf(J)
<1>1. Orch!ScaleJob(I) \subseteq Orch!ScaleJob(J)
  BY DEF Orch!ScaleJob
<1>2. Orch!MakeJob(I) \subseteq Orch!MakeJob(J)
  BY DEF Orch!MakeJob
<1>3. Orch!SeeJob(I) \subseteq Orch!SeeJob(J)
  BY DEF Orch!SeeJob
<1>4. Orch!EndJob(I) \subseteq Orch!EndJob(J)
  BY <1>1 DEF Orch!EndJob
<1>. QED
  BY <1>1, <1>2, <1>3, <1>4 DEF Orch!JobOf

LEMMA NoJobIs == \A I : Orch!NoJob \in Orch!JobOf(I) /\ Orch!NoJob.op = "none"
BY DEF Orch!JobOf, Orch!NoJob

LEMMA DockerFacts ==
  ASSUME Orch!DockerInv
  PROVE  /\ Len(names) \in Nat /\ Orch!Ids = 1..Len(names)
         /\ IsFiniteSet(Orch!Ids) /\ IsFiniteSet(Orch!Tracked) /\ IsFiniteSet(Orch!Provisioning)
         /\ Cardinality(Orch!Tracked) \in Nat /\ Cardinality(Orch!Provisioning) \in Nat
         /\ Cardinality(DockerCallers) \in Nat
<1>1. Len(names) \in Nat /\ Orch!Ids = 1..Len(names) /\ Orch!Tracked \subseteq Orch!Ids
  BY DEF Orch!DockerInv, Orch!DockerTypes, Orch!Ids, Orch!TypeOK
<1>2. IsFiniteSet(Orch!Ids)
  BY <1>1, FS_Interval
<1>3. IsFiniteSet(Orch!Tracked)
  BY <1>1, <1>2, FS_Subset
<1>4. Orch!Provisioning \subseteq DockerCallers
  BY DEF Orch!Provisioning
<1>5. IsFiniteSet(Orch!Provisioning)
  BY <1>4, FS_Subset, DockerAssumption DEF DockerAssume
<1>. QED
  BY <1>1, <1>2, <1>3, <1>5, FS_CardinalityType, DockerAssumption DEF DockerAssume

(* The provisions under way after one caller has gone on.                    *)
LEMMA PlacesAfter ==
  ASSUME Orch!DockerInv, NEW c \in DockerCallers, NEW r, job' = [job EXCEPT ![c] = r]
  PROVE  /\ IsFiniteSet(Orch!Provisioning') /\ Cardinality(Orch!Provisioning') \in Nat
         /\ Cardinality(Orch!Provisioning') <= Cardinality(DockerCallers)
         /\ r.op \notin {"create", "start", "track"} => Cardinality(Orch!Provisioning') <= Cardinality(Orch!Provisioning)
         /\ c \in Orch!Provisioning => Cardinality(Orch!Provisioning') <= Cardinality(Orch!Provisioning)
         /\ c \in Orch!Provisioning /\ r.op \notin {"create", "start", "track"} =>
              Cardinality(Orch!Provisioning') = Cardinality(Orch!Provisioning) - 1
<1>1. job \in [DockerCallers -> Orch!JobOf(Orch!Ids)]
  BY DEF Orch!DockerInv, Orch!DockerTypes
<1>2. job'[c] = r /\ \A d \in DockerCallers : d # c => job'[d] = job[d]
  BY <1>1
<1>3. Orch!Provisioning' = {d \in DockerCallers : job'[d].op \in {"create", "start", "track"}}
  BY DEF Orch!Provisioning
<1>4. /\ r.op \in {"create", "start", "track"} => Orch!Provisioning' = Orch!Provisioning \cup {c}
      /\ r.op \notin {"create", "start", "track"} => Orch!Provisioning' = Orch!Provisioning \ {c}
  BY <1>2, <1>3 DEF Orch!Provisioning
<1>5. IsFiniteSet(Orch!Provisioning) /\ Cardinality(Orch!Provisioning) \in Nat /\ IsFiniteSet(DockerCallers)
  BY DockerFacts, DockerAssumption DEF DockerAssume
<1>6. Orch!Provisioning' \subseteq DockerCallers
  BY <1>3
<1>7. IsFiniteSet(Orch!Provisioning') /\ Cardinality(Orch!Provisioning') <= Cardinality(DockerCallers)
  BY <1>5, <1>6, FS_Subset
<1>8. Cardinality(Orch!Provisioning') \in Nat
  BY <1>7, FS_CardinalityType
<1>9. /\ IsFiniteSet(Orch!Provisioning \ {c})
      /\ Cardinality(Orch!Provisioning \ {c}) = IF c \in Orch!Provisioning THEN Cardinality(Orch!Provisioning) - 1 ELSE Cardinality(Orch!Provisioning)
  BY <1>5, FS_RemoveElement
<1>10. c \in Orch!Provisioning => Orch!Provisioning \cup {c} = Orch!Provisioning
  OBVIOUS
<1>11. CASE r.op \in {"create", "start", "track"}
  BY <1>4, <1>5, <1>7, <1>8, <1>10, <1>11
<1>12. CASE r.op \notin {"create", "start", "track"}
  BY <1>4, <1>5, <1>7, <1>8, <1>9, <1>12
<1>. QED
  BY <1>11, <1>12

(* A step of one caller that tracks nothing new: it keeps what it has made   *)
(* in its hands or leaves it among the refused, and takes a place only when  *)
(* there is room.                                                            *)
LEMMA OwnStep ==
  ASSUME Orch!DockerInv, NEW c \in DockerCallers, NEW r \in Orch!JobOf(Orch!Ids), job' = [job EXCEPT ![c] = r],
         UNCHANGED <<names, instances>>,
         DOMAIN containers' \subseteq DOMAIN containers,
         \A i \in DOMAIN containers' : containers'[i] \in Orch!Statuses,
         leaked \subseteq leaked',
         r.op = "untrack" => r.id \notin DOMAIN containers',
         job[c].op \in {"start", "track"} =>
           job[c].id \in leaked' \/ (r.op \in {"start", "track"} /\ r.id = job[c].id),
         r.op \notin {"create", "start", "track"} \/ c \in Orch!Provisioning \/ Orch!Room,
         Orch!PrimarySpared'
  PROVE  Orch!DockerInv'
<1>1. /\ names \in Seq(InstanceNames) /\ job \in [DockerCallers -> Orch!JobOf(Orch!Ids)] /\ Orch!TypeOK /\ Orch!Gone /\ Orch!PlacesKept /\ Orch!NoContainerLost
  BY DEF Orch!DockerInv, Orch!DockerTypes
<1>2. job'[c] = r /\ (\A d \in DockerCallers : d # c => job'[d] = job[d]) /\ job' \in [DockerCallers -> Orch!JobOf(Orch!Ids)]
  BY <1>1
<1>3. Orch!Ids' = Orch!Ids /\ Orch!Tracked' = Orch!Tracked
  BY DEF Orch!Ids, Orch!Tracked
<1>4. Orch!DockerTypes'
  BY <1>1, <1>2, <1>3 DEF Orch!DockerTypes, Orch!TypeOK, Orch!Statuses
<1>5. Orch!Gone'
  BY <1>1, <1>2 DEF Orch!Gone
<1>6. Orch!NoContainerLost'
  <2>. SUFFICES ASSUME NEW i \in DOMAIN containers'
                PROVE  \/ i \in Orch!Tracked' \/ i \in leaked'
                       \/ \E d \in DockerCallers : job'[d].op \in {"start", "track"} /\ job'[d].id = i
    BY DEF Orch!NoContainerLost
  <2>1. \/ i \in Orch!Tracked \/ i \in leaked
        \/ \E d \in DockerCallers : job[d].op \in {"start", "track"} /\ job[d].id = i
    BY <1>1 DEF Orch!NoContainerLost
  <2>2. CASE \E d \in DockerCallers : job[d].op \in {"start", "track"} /\ job[d].id = i
    <3>1. PICK d \in DockerCallers : job[d].op \in {"start", "track"} /\ job[d].id = i
      BY <2>2
    <3>2. CASE d = c
      BY <3>1, <3>2, <1>2
    <3>3. CASE d # c
      BY <3>1, <3>3, <1>2
    <3>. QED
      BY <3>2, <3>3
  <2>. QED
    BY <2>1, <2>2, <1>3
<1>7. Orch!PlacesKept'
  <2>1. /\ Cardinality(Orch!Tracked) \in Nat /\ Cardinality(Orch!Provisioning) \in Nat /\ Cardinality(DockerCallers) \in Nat
        /\ MaxInstances \in Nat
    BY DockerFacts, DockerAssumption DEF DockerAssume
  <2>2. Cardinality(Orch!Tracked) + Cardinality(Orch!Provisioning) <= MaxInstances + Cardinality(DockerCallers) - 1
    BY OrchOps, <1>1 DEF Orch!PlacesKept
  <2>3. Cardinality(Orch!Tracked') = Cardinality(Orch!Tracked)
    BY <1>3
  <2>4. Cardinality(Orch!Provisioning') \in Nat /\ Cardinality(Orch!Provisioning') <= Cardinality(DockerCallers)
    BY PlacesAfter
  <2>5. CASE r.op \notin {"create", "start", "track"} \/ c \in Orch!Provisioning
    <3>1. Cardinality(Orch!Provisioning') <= Cardinality(Orch!Provisioning)
      BY <2>5, PlacesAfter
    <3>. QED
      BY OrchOps, <3>1, <2>1, <2>2, <2>3, <2>4 DEF Orch!PlacesKept
  <2>6. CASE Orch!Room
    <3>1. Cardinality(Orch!Tracked) < MaxInstances
      BY OrchOps, <2>6 DEF Orch!Room
    <3>. QED
      BY OrchOps, <3>1, <2>1, <2>3, <2>4 DEF Orch!PlacesKept
  <2>. QED
    BY <2>5, <2>6
<1>. QED
  BY <1>4, <1>5, <1>6, <1>7 DEF Orch!DockerInv

LEMMA ContainerStep ==
  ASSUME Orch!DockerInv, NEW c \in DockerCallers, Orch!CreateContainer(c)
  PROVE  Orch!DockerInv'
<1>1. /\ names \in Seq(InstanceNames) /\ job \in [DockerCallers -> Orch!JobOf(Orch!Ids)] /\ Orch!TypeOK /\ Orch!Gone /\ Orch!PlacesKept
      /\ Orch!NoContainerLost /\ Orch!PrimarySpared
  BY DEF Orch!DockerInv, Orch!DockerTypes
<1>2. PICK n \in Nat : n = Len(names) /\ Orch!Ids = 1..n
  BY DockerFacts
<1>. DEFINE r == [op |-> "start", id |-> n + 1]
<1>3. /\ names' = Append(names, job[c].name) /\ containers' = Orch!Set(containers, n + 1, "created")
      /\ job' = [job EXCEPT ![c] = r] /\ job[c].op = "create"
      /\ UNCHANGED <<instances, leaked, scaledAway>>
  BY <1>2 DEF Orch!CreateContainer, Orch!Do
<1>4. job[c].name \in InstanceNames
  BY <1>1, <1>3, JobShape
<1>5. names' \in Seq(InstanceNames) /\ Orch!Ids' = 1..(n + 1)
  BY <1>1, <1>2, <1>3, <1>4 DEF Orch!Ids
<1>6. Orch!Ids \subseteq Orch!Ids' /\ n + 1 \in Orch!Ids' /\ n + 1 \notin Orch!Ids
  BY <1>2, <1>5
<1>7. r \in Orch!JobOf(Orch!Ids') /\ r.op = "start" /\ r.id = n + 1
  BY <1>6 DEF Orch!JobOf, Orch!MakeJob
<1>. HIDE DEF r
<1>8. job' \in [DockerCallers -> Orch!JobOf(Orch!Ids')]
  BY <1>1, <1>3, <1>6, <1>7, JobGrows
<1>9. job'[c] = r /\ \A d \in DockerCallers : d # c => job'[d] = job[d]
  BY <1>1, <1>3
<1>10. /\ DOMAIN containers' = DOMAIN containers \cup {n + 1}
       /\ \A i \in DOMAIN containers' : containers'[i] \in Orch!Statuses
  BY <1>1, <1>3 DEF Orch!Set, Orch!TypeOK, Orch!Statuses
<1>11. Orch!Tracked' = Orch!Tracked /\ Orch!Tracked \subseteq Orch!Ids /\ DOMAIN containers \subseteq Orch!Ids
  BY <1>1, <1>3 DEF Orch!Tracked, Orch!TypeOK
<1>12. Orch!DockerTypes'
  BY <1>5, <1>6, <1>8, <1>10, <1>11 DEF Orch!DockerTypes, Orch!TypeOK, Orch!Statuses
<1>13. Orch!Gone'
  <2>. SUFFICES ASSUME NEW d \in DockerCallers, job'[d].op = "untrack" PROVE job'[d].id \notin DOMAIN containers'
    BY DEF Orch!Gone
  <2>1. d # c /\ job'[d] = job[d]
    BY <1>7, <1>9
  <2>2. job[d].op = "untrack" /\ job[d] \in Orch!JobOf(Orch!Ids)
    BY <2>1, <1>1
  <2>3. job[d] \in Orch!EndJob(Orch!Ids)
    BY <2>2, JobShape
  <2>4. job[d].id \in Orch!Ids
    BY <2>3 DEF Orch!EndJob
  <2>. QED
    BY <2>1, <2>2, <2>4, <1>1, <1>6, <1>10 DEF Orch!Gone
<1>14. Orch!NoContainerLost'
  <2>. SUFFICES ASSUME NEW i \in DOMAIN containers'
                PROVE  \/ i \in Orch!Tracked' \/ i \in leaked'
                       \/ \E d \in DockerCallers : job'[d].op \in {"start", "track"} /\ job'[d].id = i
    BY DEF Orch!NoContainerLost
  <2>1. CASE i = n + 1
    BY <2>1, <1>7, <1>9
  <2>2. CASE i \in DOMAIN containers
    <3>1. \/ i \in Orch!Tracked \/ i \in leaked
          \/ \E d \in DockerCallers : job[d].op \in {"start", "track"} /\ job[d].id = i
      BY <2>2, <1>1 DEF Orch!NoContainerLost
    <3>2. \A d \in DockerCallers : job[d].op \in {"start", "track"} => job'[d] = job[d]
      BY <1>3, <1>9
    <3>. QED
      BY <3>1, <3>2, <1>3, <1>11
  <2>. QED
    BY <2>1, <2>2, <1>10
<1>15. Orch!PlacesKept'
  <2>1. c \in Orch!Provisioning
    BY <1>3 DEF Orch!Provisioning
  <2>2. Cardinality(Orch!Provisioning') <= Cardinality(Orch!Provisioning) /\ Cardinality(Orch!Provisioning') \in Nat
    BY <2>1, <1>3, PlacesAfter
  <2>3. Cardinality(Orch!Tracked') = Cardinality(Orch!Tracked)
    BY <1>11
  <2>. QED
    BY OrchOps, <2>2, <2>3, <1>1, DockerFacts, DockerAssumption DEF Orch!PlacesKept, DockerAssume
<1>16. Orch!PrimarySpared'
  BY <1>1, <1>3 DEF Orch!PrimarySpared
<1>. QED
  BY <1>12, <1>13, <1>14, <1>15, <1>16 DEF Orch!DockerInv

(* A caller begins an operation.                                             *)
LEMMA BeginSteps ==
  ASSUME Orch!DockerInv, NEW c \in DockerCallers,
         \/ \E n \in InstanceNames : Orch!Provision(c, n)
         \/ \E id \in Orch!Handed : Orch!Destroy(c, id) \/ Orch!Inspect(c, id) \/ \E k \in 1..MaxJobs : Orch!Scale(c, id, k)
  PROVE  Orch!DockerInv'
<1>1. /\ job \in [DockerCallers -> Orch!JobOf(Orch!Ids)] /\ Orch!TypeOK /\ Orch!PrimarySpared
  BY DEF Orch!DockerInv, Orch!DockerTypes
<1>2. \A i \in DOMAIN containers : containers[i] \in Orch!Statuses
  BY <1>1 DEF Orch!TypeOK, Orch!Statuses
<1>3. Orch!Handed \subseteq Orch!Ids /\ Orch!Tracked \subseteq Orch!Ids
  BY <1>1 DEF Orch!Handed, Orch!TypeOK
<1>4. ASSUME NEW n \in InstanceNames, Orch!Provision(c, n) PROVE Orch!DockerInv'
  <2>. DEFINE r == [op |-> "create", name |-> n]
  <2>1. r \in Orch!JobOf(Orch!Ids) /\ r.op = "create"
    BY DEF Orch!JobOf
  <2>2. /\ job' = [job EXCEPT ![c] = r] /\ job[c].op = "none" /\ Orch!Room
        /\ UNCHANGED <<containers, names, instances, leaked, scaledAway>>
    BY <1>4, NoJobIs DEF Orch!Provision, Orch!Begin, Orch!Do
  <2>. HIDE DEF r
  <2>3. Orch!PrimarySpared'
    BY <1>1, <2>2 DEF Orch!PrimarySpared
  <2>. QED
    BY <2>1, <2>2, <2>3, <1>2, OwnStep
<1>5. ASSUME NEW id \in Orch!Handed, Orch!Destroy(c, id) PROVE Orch!DockerInv'
  <2>. DEFINE r == [op |-> "stop", id |-> id, then |-> Orch!NoJob]
  <2>1. r \in Orch!JobOf(Orch!Ids) /\ r.op = "stop"
    <3>1. r \in Orch!EndJob(Orch!Ids) /\ r.op = "stop"
      BY <1>3 DEF Orch!EndJob
    <3>. QED
      BY <3>1 DEF Orch!JobOf
  <2>2. /\ job' = [job EXCEPT ![c] = r] /\ job[c].op = "none"
        /\ UNCHANGED <<containers, names, instances, leaked, scaledAway>>
    BY <1>5, NoJobIs DEF Orch!Destroy, Orch!Begin, Orch!Do
  <2>. HIDE DEF r
  <2>3. Orch!PrimarySpared'
    BY <1>1, <2>2 DEF Orch!PrimarySpared
  <2>. QED
    BY <2>1, <2>2, <2>3, <1>2, OwnStep
<1>6. ASSUME NEW id \in Orch!Handed, Orch!Inspect(c, id) PROVE Orch!DockerInv'
  <2>. DEFINE r == [op |-> "status", id |-> id, seen |-> containers[id]]
  <2>1. r \in Orch!JobOf(Orch!Ids) /\ r.op = "status"
    <3>1. r \in Orch!SeeJob(Orch!Ids) /\ r.op = "status"
      BY <1>2, <1>3, <1>6 DEF Orch!SeeJob, Orch!Inspect
    <3>. QED
      BY <3>1 DEF Orch!JobOf
  <2>2. /\ job' = [job EXCEPT ![c] = r] /\ job[c].op = "none"
        /\ UNCHANGED <<containers, names, instances, leaked, scaledAway>>
    BY <1>6, NoJobIs DEF Orch!Inspect, Orch!Begin, Orch!Do
  <2>. HIDE DEF r
  <2>3. Orch!PrimarySpared'
    BY <1>1, <2>2 DEF Orch!PrimarySpared
  <2>. QED
    BY <2>1, <2>2, <2>3, <1>2, OwnStep
<1>7. ASSUME NEW id \in Orch!Handed, NEW k \in 1..MaxJobs, Orch!Scale(c, id, k) PROVE Orch!DockerInv'
  <2>. DEFINE current == {i \in Orch!Tracked : names[i] \in Family[names[id]]}
              r == [op |-> "scale", id |-> id, left |-> current, need |-> Cardinality(current) - k]
  <2>1. r \in Orch!JobOf(Orch!Ids) /\ r.op = "scale"
    <3>1. IsFiniteSet(Orch!Tracked) /\ current \subseteq Orch!Tracked
      BY DockerFacts
    <3>2. IsFiniteSet(current)
      BY <3>1, FS_Subset
    <3>3. Cardinality(current) \in Nat /\ current \subseteq Orch!Ids
      BY <3>1, <3>2, FS_CardinalityType, <1>3
    <3>. HIDE DEF current
    <3>4. r \in Orch!ScaleJob(Orch!Ids) /\ r.op = "scale"
      BY <3>3, <1>3 DEF Orch!ScaleJob
    <3>. QED
      BY <3>4 DEF Orch!JobOf
  <2>2. /\ job' = [job EXCEPT ![c] = r] /\ job[c].op = "none"
        /\ UNCHANGED <<containers, names, instances, leaked, scaledAway>>
    BY OrchOps, <1>7, NoJobIs DEF Orch!Scale, Orch!Begin, Orch!Do
  <2>. HIDE DEF r
  <2>3. Orch!PrimarySpared'
    BY <1>1, <2>2 DEF Orch!PrimarySpared
  <2>. QED
    BY <2>1, <2>2, <2>3, <1>2, OwnStep
<1>. QED
  BY <1>4, <1>5, <1>6, <1>7

(* A caller goes on with the container it is making.                         *)
LEMMA StartSteps ==
  ASSUME Orch!DockerInv, NEW c \in DockerCallers, Orch!StartContainer(c) \/ Orch!StartFails(c)
  PROVE  Orch!DockerInv'
<1>1. /\ job \in [DockerCallers -> Orch!JobOf(Orch!Ids)] /\ Orch!TypeOK /\ Orch!PrimarySpared
  BY DEF Orch!DockerInv, Orch!DockerTypes
<1>2. \A i \in DOMAIN containers : containers[i] \in Orch!Statuses
  BY <1>1 DEF Orch!TypeOK, Orch!Statuses
<1>3. job[c].op = "start"
  BY DEF Orch!StartContainer, Orch!StartFails
<1>4. job[c] \in Orch!MakeJob(Orch!Ids) /\ c \in Orch!Provisioning
  BY <1>1, <1>3, JobShape DEF Orch!Provisioning
<1>5. job[c].id \in Orch!Ids
  BY <1>4 DEF Orch!MakeJob
<1>6. Orch!PrimarySpared'
  BY <1>1 DEF Orch!PrimarySpared, Orch!StartContainer, Orch!StartFails
<1>7. CASE Orch!StartContainer(c)
  <2>. DEFINE r == [op |-> "track", id |-> job[c].id]
  <2>1. r \in Orch!JobOf(Orch!Ids) /\ r.op = "track" /\ r.id = job[c].id
    BY <1>5 DEF Orch!JobOf, Orch!MakeJob
  <2>2. /\ job' = [job EXCEPT ![c] = r]
        /\ containers' = [containers EXCEPT ![job[c].id] = "running"]
        /\ UNCHANGED <<names, instances, leaked, scaledAway>>
    BY <1>7 DEF Orch!StartContainer, Orch!Do
  <2>. HIDE DEF r
  <2>3. DOMAIN containers' \subseteq DOMAIN containers
    BY <2>2
  <2>4. \A i \in DOMAIN containers' : containers'[i] \in Orch!Statuses
    BY <1>2, <2>2 DEF Orch!Statuses
  <2>. QED
    BY <2>1, <2>2, <2>3, <2>4, <1>3, <1>4, <1>6, OwnStep
<1>8. CASE Orch!StartFails(c)
  <2>1. /\ job' = [job EXCEPT ![c] = Orch!NoJob] /\ leaked' = leaked \union {job[c].id}
        /\ UNCHANGED <<containers, names, instances, scaledAway>>
    BY <1>8 DEF Orch!StartFails, Orch!Do
  <2>. QED
    BY <2>1, <1>2, <1>3, <1>6, NoJobIs, OwnStep
<1>. QED
  BY <1>7, <1>8

LEMMA NewNeed ==
  ASSUME NEW o, NEW i, NEW l, NEW n, NEW m
  PROVE  [[op |-> o, id |-> i, left |-> l, need |-> n] EXCEPT !.need = m] = [op |-> o, id |-> i, left |-> l, need |-> m]
OBVIOUS

(* A caller goes on with what it takes away.                                 *)
LEMMA EndSteps ==
  ASSUME Orch!DockerInv, NEW c \in DockerCallers,
         Orch!PickVictim(c) \/ Orch!StopContainer(c) \/ Orch!RemoveContainer(c) \/ Orch!CallFails(c)
  PROVE  Orch!DockerInv'
<1>1. /\ job \in [DockerCallers -> Orch!JobOf(Orch!Ids)] /\ Orch!TypeOK /\ Orch!PrimarySpared /\ job[c] \in Orch!JobOf(Orch!Ids)
  BY DEF Orch!DockerInv, Orch!DockerTypes
<1>2. \A i \in DOMAIN containers : containers[i] \in Orch!Statuses
  BY <1>1 DEF Orch!TypeOK, Orch!Statuses
<1>3. CASE Orch!CallFails(c)
  <2>1. /\ job' = [job EXCEPT ![c] = Orch!NoJob] /\ job[c].op \notin {"start", "track"}
        /\ UNCHANGED <<containers, names, instances, leaked, scaledAway>>
    BY <1>3 DEF Orch!CallFails, Orch!Do
  <2>2. Orch!PrimarySpared'
    BY <1>1, <2>1 DEF Orch!PrimarySpared
  <2>. QED
    BY <2>1, <2>2, <1>2, NoJobIs, OwnStep
<1>4. ASSUME Orch!StopContainer(c) \/ Orch!RemoveContainer(c) PROVE Orch!DockerInv'
  <2>1. job[c].op \in {"stop", "remove"}
    BY <1>4 DEF Orch!StopContainer, Orch!RemoveContainer
  <2>2. job[c] \in Orch!EndJob(Orch!Ids)
    BY <2>1, <1>1, JobShape
  <2>3. PICK r : /\ r \in Orch!EndJob(Orch!Ids) /\ r.id = job[c].id /\ job' = [job EXCEPT ![c] = r]
                 /\ r.op = IF job[c].op = "stop" THEN "remove" ELSE "untrack"
    <3>1. CASE Orch!StopContainer(c)
      <4>1. [job[c] EXCEPT !.op = "remove"] \in Orch!EndJob(Orch!Ids)
        BY <2>2 DEF Orch!EndJob
      <4>2. /\ [job[c] EXCEPT !.op = "remove"].id = job[c].id
            /\ [job[c] EXCEPT !.op = "remove"].op = "remove"
        BY <2>2 DEF Orch!EndJob
      <4>. QED
        BY <3>1, <4>1, <4>2 DEF Orch!StopContainer, Orch!Do
    <3>2. CASE Orch!RemoveContainer(c)
      <4>1. [job[c] EXCEPT !.op = "untrack"] \in Orch!EndJob(Orch!Ids)
        BY <2>2 DEF Orch!EndJob
      <4>2. /\ [job[c] EXCEPT !.op = "untrack"].id = job[c].id
            /\ [job[c] EXCEPT !.op = "untrack"].op = "untrack"
        BY <2>2 DEF Orch!EndJob
      <4>. QED
        BY <3>2, <4>1, <4>2 DEF Orch!RemoveContainer, Orch!Do
    <3>. QED
      BY <1>4, <3>1, <3>2
  <2>4. UNCHANGED <<names, instances, leaked, scaledAway>>
    BY <1>4 DEF Orch!StopContainer, Orch!RemoveContainer
  <2>5. /\ DOMAIN containers' \subseteq DOMAIN containers
        /\ \A i \in DOMAIN containers' : containers'[i] \in Orch!Statuses
        /\ r.op = "untrack" => job[c].id \notin DOMAIN containers'
    <3>1. CASE Orch!StopContainer(c)
      <4>1. containers' = [containers EXCEPT ![job[c].id] = "exited"] /\ job[c].op = "stop"
        BY <3>1 DEF Orch!StopContainer
      <4>. QED
        BY <4>1, <1>2, <2>3 DEF Orch!Statuses
    <3>2. CASE Orch!RemoveContainer(c)
      <4>1. containers' = Orch!Without(containers, job[c].id)
        BY <3>2 DEF Orch!RemoveContainer
      <4>. QED
        BY <4>1, <1>2 DEF Orch!Without
    <3>. QED
      BY <1>4, <3>1, <3>2
  <2>6. Orch!PrimarySpared'
    BY <1>1, <2>4 DEF Orch!PrimarySpared
  <2>7. r \in Orch!JobOf(Orch!Ids)
    BY <2>3 DEF Orch!JobOf
  <2>8. r.op \in {"remove", "untrack"}
    BY <2>3
  <2>9. r.id = job[c].id /\ job' = [job EXCEPT ![c] = r]
    BY <2>3
  <2>. QED
    BY <2>1, <2>4, <2>5, <2>6, <2>7, <2>8, <2>9, OwnStep
<1>5. CASE Orch!PickVictim(c)
  <2>1. job[c].op = "scale" /\ UNCHANGED <<containers, names, instances, leaked>>
    BY <1>5 DEF Orch!PickVictim
  <2>2. job[c] \in Orch!ScaleJob(Orch!Ids)
    BY <2>1, <1>1, JobShape
  <2>3. CASE Orch!Do(c, Orch!NoJob) /\ UNCHANGED scaledAway
    <3>1. Orch!PrimarySpared'
      BY <1>1, <2>3 DEF Orch!PrimarySpared
    <3>. QED
      BY <2>1, <2>3, <3>1, <1>2, NoJobIs, OwnStep DEF Orch!Do
  <2>4. CASE \E v \in Orch!Victims(job[c]) :
               /\ Orch!Do(c, [op |-> "stop", id |-> v,
                         then |-> [job[c] EXCEPT !.left = @ \ {v}, !.need = @ - 1]])
               /\ scaledAway' = scaledAway \union {<<job[c].id, v>>}
    <3>1. PICK v \in Orch!Victims(job[c]) :
               /\ Orch!Do(c, [op |-> "stop", id |-> v,
                         then |-> [job[c] EXCEPT !.left = @ \ {v}, !.need = @ - 1]])
               /\ scaledAway' = scaledAway \union {<<job[c].id, v>>}
      BY <2>4
    <3>. DEFINE th == [job[c] EXCEPT !.left = @ \ {v}, !.need = @ - 1]
                r == [op |-> "stop", id |-> v, then |-> th]
    <3>2. v # job[c].id /\ v \in Orch!Ids
      BY <2>2 DEF Orch!Victims, Orch!ScaleJob
    <3>3. th \in Orch!ScaleJob(Orch!Ids)
      <4>1. PICK i \in Orch!Ids, l \in SUBSET Orch!Ids, n \in Int :
              job[c] = [op |-> "scale", id |-> i, left |-> l, need |-> n]
        BY <2>2 DEF Orch!ScaleJob
      <4>2. ASSUME NEW q, q = [op |-> "scale", id |-> i, left |-> l, need |-> n]
            PROVE  [q EXCEPT !.left = @ \ {v}, !.need = @ - 1] \in Orch!ScaleJob(Orch!Ids)
        <5>1. [q EXCEPT !.left = @ \ {v}, !.need = @ - 1] =
                [op |-> "scale", id |-> i, left |-> l \ {v}, need |-> n - 1]
          <6>1. [q EXCEPT !.left = q.left \ {v}] = [op |-> "scale", id |-> i, left |-> l \ {v}, need |-> n]
            BY <4>2
          <6>2. [q EXCEPT !.left = @ \ {v}, !.need = @ - 1] = [[q EXCEPT !.left = q.left \ {v}] EXCEPT !.need = n - 1]
            BY <4>2
          <6>3. [[op |-> "scale", id |-> i, left |-> l \ {v}, need |-> n] EXCEPT !.need = n - 1] =
                  [op |-> "scale", id |-> i, left |-> l \ {v}, need |-> n - 1]
            BY NewNeed
          <6>. QED
            BY <6>1, <6>2, <6>3
        <5>2. [op |-> "scale", id |-> i, left |-> l \ {v}, need |-> n - 1] \in Orch!ScaleJob(Orch!Ids)
          BY DEF Orch!ScaleJob
        <5>. QED
          BY <5>1, <5>2
      <4>. QED
        BY <4>1, <4>2
    <3>. HIDE DEF th
    <3>4. r \in Orch!EndJob(Orch!Ids) /\ r.op = "stop"
      BY <3>2, <3>3 DEF Orch!EndJob
    <3>5. job' = [job EXCEPT ![c] = r]
      BY <3>1 DEF Orch!Do, th
    <3>. HIDE DEF r
    <3>6. Orch!PrimarySpared'
      <4>. SUFFICES ASSUME NEW p \in scaledAway' PROVE p[1] # p[2]
        BY DEF Orch!PrimarySpared
      <4>1. CASE p \in scaledAway
        BY <4>1, <1>1 DEF Orch!PrimarySpared
      <4>2. CASE p = <<job[c].id, v>>
        BY <4>2, <3>2
      <4>. QED
        BY <4>1, <4>2, <3>1
    <3>7. r \in Orch!JobOf(Orch!Ids)
      BY <3>4 DEF Orch!JobOf
    <3>. QED
      BY <2>1, <3>4, <3>5, <3>6, <3>7, <1>2, OwnStep
  <2>. QED
    BY <1>5, <2>3, <2>4 DEF Orch!PickVictim
<1>. QED
  BY <1>3, <1>4, <1>5

(* A container is written into the map: the place its caller held is taken. *)
LEMMA TrackStep ==
  ASSUME Orch!DockerInv, NEW c \in DockerCallers, Orch!Track(c)
  PROVE  Orch!DockerInv'
<1>1. /\ names \in Seq(InstanceNames) /\ job \in [DockerCallers -> Orch!JobOf(Orch!Ids)] /\ Orch!TypeOK /\ Orch!Gone /\ Orch!PlacesKept
      /\ Orch!NoContainerLost /\ Orch!PrimarySpared
  BY DEF Orch!DockerInv, Orch!DockerTypes
<1>2. /\ job[c].op = "track" /\ instances' = Orch!Set(instances, job[c].id, "running")
      /\ job' = [job EXCEPT ![c] = Orch!NoJob]
      /\ UNCHANGED <<containers, names, leaked, scaledAway>>
  BY DEF Orch!Track, Orch!Do
<1>3. job'[c] = Orch!NoJob /\ (\A d \in DockerCallers : d # c => job'[d] = job[d])
  BY <1>1, <1>2
<1>4. job[c] \in Orch!MakeJob(Orch!Ids) /\ c \in Orch!Provisioning
  BY <1>1, <1>2, JobShape DEF Orch!Provisioning
<1>5. job[c].id \in Orch!Ids /\ Orch!Ids' = Orch!Ids /\ Orch!Tracked' = Orch!Tracked \cup {job[c].id}
  BY <1>2, <1>4 DEF Orch!MakeJob, Orch!Ids, Orch!Tracked, Orch!Set
<1>6. job' \in [DockerCallers -> Orch!JobOf(Orch!Ids')]
  BY <1>1, <1>2, <1>5, NoJobIs
<1>7. Orch!DockerTypes'
  BY <1>1, <1>2, <1>5, <1>6 DEF Orch!DockerTypes, Orch!TypeOK
<1>8. Orch!Gone'
  BY <1>1, <1>2, <1>3, NoJobIs DEF Orch!Gone
<1>9. Orch!NoContainerLost'
  <2>. SUFFICES ASSUME NEW i \in DOMAIN containers'
                PROVE  \/ i \in Orch!Tracked' \/ i \in leaked'
                       \/ \E d \in DockerCallers : job'[d].op \in {"start", "track"} /\ job'[d].id = i
    BY DEF Orch!NoContainerLost
  <2>1. \/ i \in Orch!Tracked \/ i \in leaked
        \/ \E d \in DockerCallers : job[d].op \in {"start", "track"} /\ job[d].id = i
    BY <1>1, <1>2 DEF Orch!NoContainerLost
  <2>2. \A d \in DockerCallers : job[d].op \in {"start", "track"} /\ job[d].id # job[c].id => job'[d] = job[d]
    BY <1>3
  <2>. QED
    BY <2>1, <2>2, <1>2, <1>5
<1>10. Orch!PlacesKept'
  <2>1. /\ Cardinality(Orch!Tracked) \in Nat /\ Cardinality(Orch!Provisioning) \in Nat /\ Cardinality(DockerCallers) \in Nat
        /\ MaxInstances \in Nat /\ IsFiniteSet(Orch!Tracked)
    BY DockerFacts, DockerAssumption DEF DockerAssume
  <2>2. Cardinality(Orch!Provisioning') = Cardinality(Orch!Provisioning) - 1
    BY <1>2, <1>4, NoJobIs, PlacesAfter
  <2>3. Cardinality(Orch!Tracked') <= Cardinality(Orch!Tracked) + 1 /\ Cardinality(Orch!Tracked') \in Nat
    <3>1. /\ IsFiniteSet(Orch!Tracked \cup {job[c].id})
          /\ Cardinality(Orch!Tracked \cup {job[c].id}) =
               IF job[c].id \in Orch!Tracked THEN Cardinality(Orch!Tracked) ELSE Cardinality(Orch!Tracked) + 1
      BY <2>1, FS_AddElement
    <3>. QED
      BY <3>1, <2>1, <1>5
  <2>. QED
    BY OrchOps, <1>1, <2>1, <2>2, <2>3 DEF Orch!PlacesKept
<1>11. Orch!PrimarySpared'
  BY <1>1, <1>2 DEF Orch!PrimarySpared
<1>. QED
  BY <1>7, <1>8, <1>9, <1>10, <1>11 DEF Orch!DockerInv

(* An instance is taken out of the map once its container is gone.          *)
LEMMA UntrackStep ==
  ASSUME Orch!DockerInv, NEW c \in DockerCallers, Orch!Untrack(c)
  PROVE  Orch!DockerInv'
<1>1. /\ names \in Seq(InstanceNames) /\ job \in [DockerCallers -> Orch!JobOf(Orch!Ids)] /\ Orch!TypeOK /\ Orch!Gone /\ Orch!PlacesKept
      /\ Orch!NoContainerLost /\ Orch!PrimarySpared
  BY DEF Orch!DockerInv, Orch!DockerTypes
<1>2. /\ job[c].op = "untrack" /\ instances' = Orch!Without(instances, job[c].id)
      /\ job' = [job EXCEPT ![c] = job[c].then]
      /\ UNCHANGED <<containers, names, leaked, scaledAway>>
  BY DEF Orch!Untrack, Orch!Do
<1>3. job[c] \in Orch!EndJob(Orch!Ids)
  BY <1>1, <1>2, JobShape
<1>4. job[c].then \in {Orch!NoJob} \union Orch!ScaleJob(Orch!Ids)
  BY <1>3 DEF Orch!EndJob
<1>5. job[c].then \in Orch!JobOf(Orch!Ids) /\ job[c].then.op \in {"none", "scale"}
  BY <1>4 DEF Orch!JobOf, Orch!ScaleJob, Orch!NoJob
<1>6. job'[c] = job[c].then /\ (\A d \in DockerCallers : d # c => job'[d] = job[d])
  BY <1>1, <1>2
<1>7. Orch!Ids' = Orch!Ids /\ Orch!Tracked' = Orch!Tracked \ {job[c].id}
  BY <1>2 DEF Orch!Ids, Orch!Tracked, Orch!Without
<1>8. Orch!DockerTypes'
  BY <1>1, <1>2, <1>5, <1>7 DEF Orch!DockerTypes, Orch!TypeOK
<1>9. Orch!Gone'
  BY <1>1, <1>2, <1>5, <1>6 DEF Orch!Gone
<1>10. Orch!NoContainerLost'
  <2>. SUFFICES ASSUME NEW i \in DOMAIN containers'
                PROVE  \/ i \in Orch!Tracked' \/ i \in leaked'
                       \/ \E d \in DockerCallers : job'[d].op \in {"start", "track"} /\ job'[d].id = i
    BY DEF Orch!NoContainerLost
  <2>1. \/ i \in Orch!Tracked \/ i \in leaked
        \/ \E d \in DockerCallers : job[d].op \in {"start", "track"} /\ job[d].id = i
    BY <1>1, <1>2 DEF Orch!NoContainerLost
  <2>2. \A d \in DockerCallers : job[d].op \in {"start", "track"} => job'[d] = job[d]
    BY <1>2, <1>6
  <2>3. i # job[c].id
    BY <1>1, <1>2 DEF Orch!Gone
  <2>. QED
    BY <2>1, <2>2, <2>3, <1>2, <1>7
<1>11. Orch!PlacesKept'
  <2>1. /\ Cardinality(Orch!Tracked) \in Nat /\ Cardinality(Orch!Provisioning) \in Nat /\ Cardinality(DockerCallers) \in Nat
        /\ MaxInstances \in Nat /\ IsFiniteSet(Orch!Tracked)
    BY DockerFacts, DockerAssumption DEF DockerAssume
  <2>2. Cardinality(Orch!Provisioning') <= Cardinality(Orch!Provisioning) /\ Cardinality(Orch!Provisioning') \in Nat
    BY <1>2, <1>5, PlacesAfter
  <2>3. IsFiniteSet(Orch!Tracked') /\ Cardinality(Orch!Tracked') <= Cardinality(Orch!Tracked)
    BY <2>1, <1>7, FS_Subset
  <2>4. Cardinality(Orch!Tracked') \in Nat
    BY <2>3, FS_CardinalityType
  <2>. QED
    BY OrchOps, <1>1, <2>1, <2>2, <2>3, <2>4 DEF Orch!PlacesKept
<1>12. Orch!PrimarySpared'
  BY <1>1, <1>2 DEF Orch!PrimarySpared
<1>. QED
  BY <1>8, <1>9, <1>10, <1>11, <1>12 DEF Orch!DockerInv

(* The status of an instance is written, or nothing changes.                 *)
LEMMA QuietSteps ==
  ASSUME Orch!DockerInv,
         \/ \E c \in DockerCallers : Orch!UpdateStatus(c)
         \/ \E id \in DOMAIN containers : Orch!Exit(id)
         \/ UNCHANGED Orch!dockerVars
  PROVE  Orch!DockerInv'
<1>1. /\ names \in Seq(InstanceNames) /\ job \in [DockerCallers -> Orch!JobOf(Orch!Ids)] /\ Orch!TypeOK /\ Orch!Gone /\ Orch!PlacesKept
      /\ Orch!NoContainerLost /\ Orch!PrimarySpared
  BY DEF Orch!DockerInv, Orch!DockerTypes
<1>2. ASSUME NEW c \in DockerCallers, Orch!UpdateStatus(c) PROVE Orch!DockerInv'
  <2>1. /\ job[c].op = "status" /\ job' = [job EXCEPT ![c] = Orch!NoJob] /\ DOMAIN instances' = DOMAIN instances
        /\ UNCHANGED <<containers, names, leaked, scaledAway>>
    BY <1>2 DEF Orch!UpdateStatus, Orch!Do
  <2>2. job'[c] = Orch!NoJob /\ (\A d \in DockerCallers : d # c => job'[d] = job[d])
    BY <1>1, <2>1
  <2>3. Orch!Ids' = Orch!Ids /\ Orch!Tracked' = Orch!Tracked
    BY <2>1 DEF Orch!Ids, Orch!Tracked
  <2>4. Orch!DockerTypes'
    BY <1>1, <2>1, <2>3, NoJobIs DEF Orch!DockerTypes, Orch!TypeOK
  <2>5. Orch!Gone'
    BY <1>1, <2>1, <2>2, NoJobIs DEF Orch!Gone
  <2>6. Orch!NoContainerLost'
    <3>. SUFFICES ASSUME NEW i \in DOMAIN containers'
                  PROVE  \/ i \in Orch!Tracked' \/ i \in leaked'
                         \/ \E d \in DockerCallers : job'[d].op \in {"start", "track"} /\ job'[d].id = i
      BY DEF Orch!NoContainerLost
    <3>1. \/ i \in Orch!Tracked \/ i \in leaked
          \/ \E d \in DockerCallers : job[d].op \in {"start", "track"} /\ job[d].id = i
      BY <1>1, <2>1 DEF Orch!NoContainerLost
    <3>2. \A d \in DockerCallers : job[d].op \in {"start", "track"} => job'[d] = job[d]
      BY <2>1, <2>2
    <3>. QED
      BY <3>1, <3>2, <2>1, <2>3
  <2>7. Orch!PlacesKept'
    <3>1. Cardinality(Orch!Provisioning') <= Cardinality(Orch!Provisioning) /\ Cardinality(Orch!Provisioning') \in Nat
      BY <2>1, NoJobIs, PlacesAfter
    <3>2. Cardinality(Orch!Tracked') = Cardinality(Orch!Tracked)
      BY <2>3
    <3>. QED
      BY OrchOps, <1>1, <3>1, <3>2, DockerFacts, DockerAssumption DEF Orch!PlacesKept, DockerAssume
  <2>8. Orch!PrimarySpared'
    BY <1>1, <2>1 DEF Orch!PrimarySpared
  <2>. QED
    BY <2>4, <2>5, <2>6, <2>7, <2>8 DEF Orch!DockerInv
<1>3. ASSUME /\ DOMAIN containers' = DOMAIN containers
             /\ \A i \in DOMAIN containers' : containers'[i] \in Orch!Statuses
             /\ UNCHANGED <<names, instances, job, leaked, scaledAway>>
      PROVE  Orch!DockerInv'
  <2>1. Orch!Ids' = Orch!Ids /\ Orch!Tracked' = Orch!Tracked /\ Orch!Provisioning' = Orch!Provisioning
    BY <1>3 DEF Orch!Ids, Orch!Tracked, Orch!Provisioning
  <2>2. Orch!DockerTypes'
    BY <1>1, <1>3, <2>1 DEF Orch!DockerTypes, Orch!TypeOK, Orch!Statuses
  <2>3. Orch!Gone' /\ Orch!NoContainerLost' /\ Orch!PrimarySpared'
    BY <1>1, <1>3, <2>1 DEF Orch!Gone, Orch!NoContainerLost, Orch!PrimarySpared
  <2>4. Orch!PlacesKept'
    BY <1>1, <2>1 DEF Orch!PlacesKept
  <2>. QED
    BY <2>2, <2>3, <2>4 DEF Orch!DockerInv
<1>4. \A i \in DOMAIN containers : containers[i] \in Orch!Statuses
  BY <1>1 DEF Orch!TypeOK, Orch!Statuses
<1>5. ASSUME NEW id \in DOMAIN containers, Orch!Exit(id) PROVE Orch!DockerInv'
  <2>1. /\ containers' = [containers EXCEPT ![id] = "exited"]
        /\ UNCHANGED <<names, instances, job, leaked, scaledAway>>
    BY <1>5 DEF Orch!Exit
  <2>2. DOMAIN containers' = DOMAIN containers /\ \A i \in DOMAIN containers' : containers'[i] \in Orch!Statuses
    BY <1>4, <2>1 DEF Orch!Statuses
  <2>. QED
    BY <2>1, <2>2, <1>3
<1>6. CASE UNCHANGED Orch!dockerVars
  BY <1>3, <1>4, <1>6 DEF Orch!dockerVars
<1>. QED
  BY <1>2, <1>5, <1>6

LEMMA DockerInit == Orch!Init => Orch!DockerInv
<1>. SUFFICES ASSUME Orch!Init PROVE Orch!DockerInv
  OBVIOUS
<1>1. names = <<>> /\ DOMAIN names = {} /\ DOMAIN containers = {} /\ DOMAIN instances = {}
  BY DEF Orch!Init
<1>2. names \in Seq(InstanceNames) /\ Orch!Tracked = {} /\ Orch!Ids = {}
  BY <1>1 DEF Orch!Tracked, Orch!Ids
<1>3. job \in [DockerCallers -> Orch!JobOf(Orch!Ids)] /\ \A c \in DockerCallers : job[c].op = "none"
  BY NoJobIs DEF Orch!Init
<1>4. Orch!Provisioning = {}
  BY <1>3 DEF Orch!Provisioning
<1>5. Orch!PlacesKept
  <2>1. Cardinality(Orch!Tracked) = 0 /\ Cardinality(Orch!Provisioning) = 0
    BY <1>2, <1>4, FS_EmptySet
  <2>2. Cardinality(DockerCallers) \in Nat /\ Cardinality(DockerCallers) # 0
    BY FS_CardinalityType, FS_EmptySet, DockerAssumption DEF DockerAssume
  <2>. QED
    BY OrchOps, <2>1, <2>2, DockerAssumption DEF Orch!PlacesKept, DockerAssume
<1>. QED
  BY <1>1, <1>2, <1>3, <1>5 DEF Orch!DockerInv, Orch!DockerTypes, Orch!TypeOK, Orch!Gone, Orch!NoContainerLost, Orch!PrimarySpared, Orch!Init

LEMMA DockerKeeps == Orch!DockerInv /\ [Orch!Next]_Orch!dockerVars => Orch!DockerInv'
<1>. SUFFICES ASSUME Orch!DockerInv, [Orch!Next]_Orch!dockerVars PROVE Orch!DockerInv'
  OBVIOUS
<1>1. ASSUME NEW c \in DockerCallers,
             \/ Orch!CreateContainer(c) \/ Orch!StartContainer(c) \/ Orch!StartFails(c) \/ Orch!Track(c)
             \/ Orch!PickVictim(c) \/ Orch!StopContainer(c) \/ Orch!RemoveContainer(c)
             \/ Orch!CallFails(c) \/ Orch!Untrack(c)
      PROVE  Orch!DockerInv'
  BY <1>1, ContainerStep, StartSteps, TrackStep, EndSteps, UntrackStep
<1>2. ASSUME NEW c \in DockerCallers,
             \/ \E n \in InstanceNames : Orch!Provision(c, n)
             \/ \E id \in Orch!Handed : Orch!Destroy(c, id) \/ Orch!Inspect(c, id) \/ \E k \in 1..MaxJobs : Orch!Scale(c, id, k)
      PROVE  Orch!DockerInv'
  BY <1>2, BeginSteps
<1>. QED
  BY <1>1, <1>2, QuietSteps DEF Orch!Next

LEMMA DockerImplies == Orch!DockerInv => Orch!TypeOK /\ Orch!InstancesBounded /\ Orch!NoContainerLost /\ Orch!PrimarySpared
<1>. SUFFICES ASSUME Orch!DockerInv PROVE Orch!TypeOK /\ Orch!InstancesBounded /\ Orch!NoContainerLost /\ Orch!PrimarySpared
  OBVIOUS
<1>1. Orch!InstancesBounded
  <2>1. Orch!PlacesKept
    BY DEF Orch!DockerInv
  <2>. QED
    BY OrchOps, <2>1, DockerFacts, DockerAssumption DEF Orch!PlacesKept, Orch!InstancesBounded, DockerAssume
<1>. QED
  BY <1>1 DEF Orch!DockerInv, Orch!DockerTypes

-----------------------------------------------------------------------------
(* The allowlists of the channels.                                         *)

(* What a handler is in follows from where it is.                          *)
LEMMA HandlerShape ==
  ASSUME NEW r \in {Allow!Free} \union Allow!InCheck \union Allow!ToSnap \union Allow!ToWrite
  PROVE  /\ r.at \in {"first", "check", "forward", "command"} => r \in Allow!InCheck
         /\ r.at = "snap" => r \in Allow!ToSnap
         /\ r.at \in {"truncate", "write"} => r \in Allow!ToWrite
         /\ r \in {Allow!Free} \union Allow!InCheck => r.at \notin Allow!Persisting
<1>1. CASE r = Allow!Free
  BY <1>1 DEF Allow!Free, Allow!Persisting
<1>2. CASE r \in Allow!InCheck
  BY <1>2 DEF Allow!InCheck, Allow!Persisting, Allow!Free
<1>3. CASE r \in Allow!ToSnap
  BY <1>3 DEF Allow!ToSnap, Allow!InCheck, Allow!Free
<1>4. CASE r \in Allow!ToWrite
  BY <1>4 DEF Allow!ToWrite, Allow!InCheck, Allow!Free
<1>. QED
  BY <1>1, <1>2, <1>3, <1>4

(* No file that does not load looks like one that does.                    *)
LEMMA FilesDiffer ==
  ASSUME Allow!AllowTypes
  PROVE  /\ Allow!Loads => allowFile \in Allow!Saved
         /\ \A s \in Allow!Saved : s \notin {Allow!NoFile, Allow!Torn}
<1>1. \A s \in Allow!Saved : s.admin \in ChatUsers
  BY DEF Allow!Saved
<1>2. Allow!NoFile.admin = "no file" /\ Allow!Torn.admin = "torn"
  BY DEF Allow!NoFile, Allow!Torn
<1>. QED
  BY <1>1, <1>2, AllowAssumption DEF Allow!AllowTypes, Allow!Loads, AllowAssume

(* One handler moves and list, admin and file stay.                        *)
LEMMA OneMoves ==
  ASSUME Allow!AllowInv, NEW h \in ChatHandlers, NEW r \in {Allow!Free} \union Allow!InCheck \union Allow!ToSnap \union Allow!ToWrite,
         handler' = [handler EXCEPT ![h] = r], UNCHANGED <<list, admin, allowFile>>,
         lastSave' \in {"fresh", "stale", "failed"},
         r.at \in Allow!Persisting => list # <<>>,
         r.at \in {"truncate", "write"} => Allow!Named(r.snap),
         handler[h].at \in Allow!Persisting => r.at \in Allow!Persisting \/ lastSave' = "failed",
         lastSave' = lastSave \/ lastSave' = "failed"
  PROVE  Allow!AllowInv'
<1>1. Allow!AllowTypes /\ Allow!OwnerKept /\ Allow!SnapshotsNamed /\ Allow!FileFollowsList
  BY DEF Allow!AllowInv
<1>2. handler'[h] = r /\ (\A g \in ChatHandlers : g # h => handler'[g] = handler[g]) /\ h \in DOMAIN handler
  BY <1>1 DEF Allow!AllowTypes
<1>3. Allow!AllowTypes'
  BY <1>1 DEF Allow!AllowTypes
<1>4. Allow!OwnerKept'
  BY <1>1 DEF Allow!OwnerKept, Allow!Loads
<1>5. Allow!SnapshotsNamed'
  <2>. SUFFICES ASSUME NEW g \in ChatHandlers
                PROVE  /\ handler'[g].at \in Allow!Persisting => list # <<>>
                       /\ handler'[g].at \in {"truncate", "write"} => Allow!Named(handler'[g].snap)
    BY DEF Allow!SnapshotsNamed, Allow!Named
  <2>1. CASE g = h
    BY <2>1, <1>2
  <2>2. CASE g # h
    BY <2>2, <1>1, <1>2 DEF Allow!SnapshotsNamed
  <2>. QED
    BY <2>1, <2>2
<1>6. Allow!FileFollowsList'
  <2>. SUFFICES ASSUME Allow!Loads, lastSave' = "fresh", \A g \in ChatHandlers : handler'[g].at \notin Allow!Persisting
                PROVE  allowFile.users = list
    BY DEF Allow!FileFollowsList, Allow!Loads
  <2>1. \A g \in ChatHandlers : handler[g].at \notin Allow!Persisting
    BY <1>2
  <2>. QED
    BY <2>1, <1>1 DEF Allow!FileFollowsList
<1>. QED
  BY <1>3, <1>4, <1>5, <1>6 DEF Allow!AllowInv

(* The steps of a handler that change neither list nor file.               *)
LEMMA QuietHandler ==
  ASSUME Allow!AllowInv, NEW h \in ChatHandlers,
         \/ \E u \in ChatUsers, t \in Allow!Texts : Allow!Arrive(h, u, t)
         \/ Allow!Check(h) \/ Allow!Forward(h) \/ Allow!Snapshot(h)
         \/ Allow!FirstUser(h) /\ list # <<>>
         \/ Allow!Command(h) /\ list' = list
  PROVE  Allow!AllowInv'
<1>1. Allow!AllowTypes /\ Allow!OwnerKept /\ Allow!SnapshotsNamed
  BY DEF Allow!AllowInv
<1>2. handler[h] \in {Allow!Free} \union Allow!InCheck \union Allow!ToSnap \union Allow!ToWrite
  BY <1>1 DEF Allow!AllowTypes
<1>3. Allow!Free \notin Allow!InCheck \union Allow!ToSnap \union Allow!ToWrite /\ Allow!Free.at = "free"
  BY DEF Allow!Free, Allow!InCheck, Allow!ToSnap, Allow!ToWrite
<1>4. ASSUME NEW r \in {Allow!Free} \union Allow!InCheck, handler' = [handler EXCEPT ![h] = r],
             UNCHANGED <<list, admin, allowFile, lastSave>>, handler[h].at \notin Allow!Persisting
      PROVE  Allow!AllowInv'
  <2>1. r.at \notin Allow!Persisting /\ {"truncate", "write"} \subseteq Allow!Persisting
    BY HandlerShape DEF Allow!Persisting
  <2>2. lastSave' \in {"fresh", "stale", "failed"}
    BY <1>1, <1>4 DEF Allow!AllowTypes
  <2>. QED
    BY <1>4, <2>1, <2>2, OneMoves
<1>5. \A s \in {"first", "check", "forward", "command"} : \A r \in Allow!InCheck : [r EXCEPT !.at = s] \in Allow!InCheck
  BY DEF Allow!InCheck
<1>6. ASSUME NEW u \in ChatUsers, NEW t \in Allow!Texts, Allow!Arrive(h, u, t) PROVE Allow!AllowInv'
  <2>. DEFINE r == [at |-> "first", user |-> u, text |-> t]
  <2>1. r \in Allow!InCheck
    BY DEF Allow!InCheck
  <2>2. /\ handler' = [handler EXCEPT ![h] = r] /\ handler[h] = Allow!Free
        /\ UNCHANGED <<list, admin, allowFile, lastSave>>
    BY <1>6 DEF Allow!Arrive
  <2>. HIDE DEF r
  <2>. QED
    BY <2>1, <2>2, <1>3, <1>4 DEF Allow!Persisting
<1>7. ASSUME NEW s \in {"first", "check", "forward", "command"}, Allow!Goto(h, s), handler[h].at \in {"first", "check"},
             UNCHANGED <<list, admin, allowFile, lastSave>>
      PROVE  Allow!AllowInv'
  <2>1. handler[h] \in Allow!InCheck
    BY <1>2, <1>7, HandlerShape
  <2>2. handler' = [handler EXCEPT ![h] = [handler[h] EXCEPT !.at = s]]
    BY <1>1, <1>7 DEF Allow!Goto, Allow!AllowTypes
  <2>. QED
    BY <2>1, <2>2, <1>4, <1>5, <1>7 DEF Allow!Persisting
<1>8. ASSUME Allow!Done(h), handler[h].at \notin Allow!Persisting, UNCHANGED <<list, admin, allowFile, lastSave>>
      PROVE  Allow!AllowInv'
  BY <1>4, <1>8 DEF Allow!Done
<1>9. CASE Allow!Check(h)
  BY <1>7, <1>8, <1>9 DEF Allow!Check, Allow!Persisting
<1>10. CASE Allow!Forward(h)
  BY <1>8, <1>10 DEF Allow!Forward, Allow!Persisting
<1>11. CASE Allow!FirstUser(h) /\ list # <<>>
  BY <1>7, <1>11 DEF Allow!FirstUser
<1>12. CASE Allow!Command(h) /\ list' = list
  BY <1>8, <1>12 DEF Allow!Command, Allow!Persisting
<1>13. CASE Allow!Snapshot(h)
  <2>. DEFINE s == [admin |-> admin, users |-> list]
              r == [at |-> "truncate", then |-> handler[h].then, snap |-> s]
  <2>1. handler[h].at = "snap" /\ handler' = [handler EXCEPT ![h] = r] /\ UNCHANGED <<list, admin, allowFile, lastSave>>
    BY <1>1, <1>13 DEF Allow!Snapshot, Allow!AllowTypes
  <2>2. handler[h] \in Allow!ToSnap
    BY <2>1, <1>2, HandlerShape
  <2>3. handler[h].then \in {Allow!Free} \union Allow!InCheck
    BY <2>2 DEF Allow!ToSnap
  <2>4. list # <<>>
    BY <2>1, <1>1 DEF Allow!SnapshotsNamed, Allow!Persisting
  <2>5. admin \in ChatUsers /\ admin \in Range(list)
    BY AllowOps, <2>4, <1>1 DEF Allow!OwnerKept, Allow!AllowTypes
  <2>6. s \in Allow!Saved /\ Allow!Named(s)
    BY AllowOps, <2>5, <1>1 DEF Allow!Saved, Allow!Named, Allow!AllowTypes
  <2>. HIDE DEF s
  <2>7. r \in Allow!ToWrite /\ r.at = "truncate" /\ r.snap = s
    BY <2>3, <2>6 DEF Allow!ToWrite
  <2>8. lastSave' \in {"fresh", "stale", "failed"} /\ "truncate" \in Allow!Persisting
    BY <1>1, <2>1 DEF Allow!AllowTypes, Allow!Persisting
  <2>. HIDE DEF r
  <2>. QED
    BY <2>1, <2>4, <2>6, <2>7, <2>8, OneMoves
<1>. QED
  BY <1>6, <1>9, <1>10, <1>11, <1>12, <1>13

(* The first user ever to write: nobody was admin, nothing was on disk and *)
(* nobody was saving.                                                      *)
LEMMA FirstStep ==
  ASSUME Allow!AllowInv, NEW h \in ChatHandlers, Allow!FirstUser(h), list = <<>>
  PROVE  Allow!AllowInv'
<1>1. Allow!AllowTypes /\ Allow!OwnerKept /\ Allow!SnapshotsNamed
  BY DEF Allow!AllowInv
<1>. DEFINE r == [at |-> "snap", then |-> [handler[h] EXCEPT !.at = "check"]]
            u == handler[h].user
<1>2. /\ handler[h].at = "first" /\ list' = <<u>> /\ admin' = u /\ handler' = [handler EXCEPT ![h] = r]
      /\ UNCHANGED <<allowFile, lastSave>>
  BY <1>1 DEF Allow!FirstUser, Allow!AllowTypes
<1>3. handler[h] \in Allow!InCheck
  BY <1>1, <1>2, HandlerShape DEF Allow!AllowTypes
<1>4. u \in ChatUsers /\ [handler[h] EXCEPT !.at = "check"] \in Allow!InCheck
  BY <1>3 DEF Allow!InCheck
<1>5. r \in Allow!ToSnap /\ r.at = "snap"
  BY <1>4 DEF Allow!ToSnap
<1>. HIDE DEF r, u
<1>6. handler'[h] = r /\ (\A g \in ChatHandlers : g # h => handler'[g] = handler[g])
  BY <1>1, <1>2 DEF Allow!AllowTypes
<1>7. Allow!AllowTypes'
  BY <1>1, <1>2, <1>4, <1>5 DEF Allow!AllowTypes
<1>8. admin = "nobody" /\ ~Allow!Loads
  <2>1. admin = "nobody"
    BY <1>1 DEF Allow!OwnerKept
  <2>2. Allow!Loads => allowFile.admin \in ChatUsers
    BY <1>1, FilesDiffer DEF Allow!Saved
  <2>. QED
    BY <2>1, <2>2, <1>1, AllowAssumption DEF Allow!OwnerKept, AllowAssume
<1>9. ~Allow!Loads'
  BY <1>2, <1>8 DEF Allow!Loads
<1>10. admin' # "nobody" /\ list' # <<>> /\ admin' \in Range(list')
  <2>1. DOMAIN list' = {1} /\ list'[1] = u
    BY <1>2
  <2>2. u \in Range(list') /\ list' # <<>>
    BY <2>1 DEF Range
  <2>. QED
    BY <2>2, <1>2, <1>4, AllowAssumption DEF AllowAssume
<1>11. Allow!OwnerKept' /\ Allow!FileFollowsList'
  BY AllowOps, <1>9, <1>10 DEF Allow!OwnerKept, Allow!FileFollowsList
<1>12. Allow!SnapshotsNamed'
  <2>1. \A g \in ChatHandlers : g # h => handler'[g].at \notin Allow!Persisting
    BY <1>1, <1>6 DEF Allow!SnapshotsNamed
  <2>. QED
    BY <2>1, <1>5, <1>6, <1>10 DEF Allow!SnapshotsNamed, Allow!Persisting
<1>. QED
  BY <1>7, <1>11, <1>12 DEF Allow!AllowInv

(* /allow and /revoke leave the admin where he is, and a save follows.     *)
LEMMA CommandStep ==
  ASSUME Allow!AllowInv, NEW h \in ChatHandlers, Allow!Command(h), list' # list
  PROVE  Allow!AllowInv'
<1>1. Allow!AllowTypes /\ Allow!OwnerKept /\ Allow!SnapshotsNamed
  BY DEF Allow!AllowInv
<1>. DEFINE r == [at |-> "snap", then |-> Allow!Free]
            u == handler[h].user
            t == handler[h].text
<1>2. /\ handler[h].at = "command" /\ list' = Allow!After(u, t) /\ admin = u
      /\ handler' = [handler EXCEPT ![h] = r] /\ UNCHANGED <<admin, allowFile, lastSave>>
  BY DEF Allow!Command, Allow!Changed
<1>3. handler[h] \in Allow!InCheck
  BY <1>1, <1>2, HandlerShape DEF Allow!AllowTypes
<1>4. u \in ChatUsers /\ t \in Allow!Texts
  BY <1>3 DEF Allow!InCheck
<1>5. r \in Allow!ToSnap /\ r.at = "snap"
  BY DEF Allow!ToSnap
<1>. HIDE DEF r, u, t
<1>6. u # "nobody" /\ u \in Range(list) /\ list \in Seq(ChatUsers)
  BY AllowOps, <1>1, <1>2, <1>4, AllowAssumption DEF Allow!OwnerKept, Allow!AllowTypes, AllowAssume
<1>7. list' \in Seq(ChatUsers) /\ u \in Range(list')
  <2>1. CASE t[1] = "allow" /\ t[2] \notin Range(list)
    <3>1. list' = Append(list, t[2])
      BY <2>1, <1>2 DEF Allow!After
    <3>2. t[2] \in ChatUsers
      BY <2>1, <1>4 DEF Allow!Texts
    <3>. QED
      BY <3>1, <3>2, <1>6 DEF Range
  <2>2. CASE t[1] # "allow" /\ Allow!Revocable(u, t[2])
    <3>1. list' = Allow!Without(list, t[2]) /\ t[2] # u
      BY <2>2, <1>2 DEF Allow!After, Allow!Revocable
    <3>. QED
      BY <3>1, <1>6, LackElems
  <2>3. CASE list' = list
    BY <2>3, <1>6
  <2>. QED
    BY AllowOps, <2>1, <2>2, <2>3, <1>2 DEF Allow!After
<1>8. list' # <<>>
  BY <1>7 DEF Range
<1>9. handler'[h] = r /\ (\A g \in ChatHandlers : g # h => handler'[g] = handler[g])
  BY <1>1, <1>2 DEF Allow!AllowTypes
<1>10. Allow!AllowTypes'
  BY <1>1, <1>2, <1>5, <1>7 DEF Allow!AllowTypes
<1>11. Allow!OwnerKept'
  BY AllowOps, <1>1, <1>2, <1>6, <1>7, <1>8 DEF Allow!OwnerKept, Allow!Loads
<1>12. Allow!SnapshotsNamed'
  <2>. SUFFICES ASSUME NEW g \in ChatHandlers
                PROVE  /\ handler'[g].at \in Allow!Persisting => list' # <<>>
                       /\ handler'[g].at \in {"truncate", "write"} => Allow!Named(handler'[g].snap)
    BY <1>2 DEF Allow!SnapshotsNamed, Allow!Named
  <2>1. CASE g = h
    BY <2>1, <1>5, <1>8, <1>9
  <2>2. CASE g # h
    BY <2>2, <1>1, <1>8, <1>9 DEF Allow!SnapshotsNamed
  <2>. QED
    BY <2>1, <2>2
<1>13. Allow!FileFollowsList'
  <2>1. handler'[h].at \in Allow!Persisting
    BY <1>5, <1>9 DEF Allow!Persisting
  <2>. QED
    BY <2>1 DEF Allow!FileFollowsList
<1>. QED
  BY <1>10, <1>11, <1>12, <1>13 DEF Allow!AllowInv

(* A save, in its two steps.                                               *)
LEMMA SaveSteps ==
  ASSUME Allow!AllowInv, NEW h \in ChatHandlers, Allow!Truncate(h) \/ Allow!Write(h)
  PROVE  Allow!AllowInv'
<1>1. Allow!AllowTypes /\ Allow!OwnerKept /\ Allow!SnapshotsNamed
  BY DEF Allow!AllowInv
<1>2. handler[h].at \in {"truncate", "write"}
  BY DEF Allow!Truncate, Allow!Write
<1>3. handler[h] \in Allow!ToWrite
  BY <1>1, <1>2, HandlerShape DEF Allow!AllowTypes
<1>4. handler[h].then \in {Allow!Free} \union Allow!InCheck /\ handler[h].snap \in Allow!Saved
  BY <1>3 DEF Allow!ToWrite
<1>5. handler[h].then.at \notin Allow!Persisting /\ {"truncate", "write"} \subseteq Allow!Persisting
  BY <1>4, HandlerShape DEF Allow!Persisting
<1>6. CASE Allow!Truncate(h) /\ Allow!AfterSave(h) /\ lastSave' = "failed" /\ UNCHANGED allowFile
  <2>1. handler' = [handler EXCEPT ![h] = handler[h].then] /\ UNCHANGED <<list, admin, allowFile>>
    BY <1>1, <1>6 DEF Allow!Truncate, Allow!AfterSave, Allow!AllowTypes
  <2>. QED
    BY <2>1, <1>4, <1>5, <1>6, OneMoves
<1>7. CASE Allow!Truncate(h) /\ allowFile' = Allow!Torn /\ Allow!Goto(h, "write") /\ UNCHANGED lastSave
  <2>. DEFINE r == [handler[h] EXCEPT !.at = "write"]
  <2>1. r \in Allow!ToWrite /\ r.at = "write" /\ r.snap = handler[h].snap
    BY <1>3 DEF Allow!ToWrite
  <2>2. handler' = [handler EXCEPT ![h] = r] /\ UNCHANGED <<list, admin>>
    BY <1>1, <1>7 DEF Allow!Truncate, Allow!Goto, Allow!AllowTypes
  <2>. HIDE DEF r
  <2>3. handler'[h] = r /\ (\A g \in ChatHandlers : g # h => handler'[g] = handler[g])
    BY <1>1, <2>2 DEF Allow!AllowTypes
  <2>4. Allow!AllowTypes'
    BY <1>1, <1>7, <2>1, <2>2 DEF Allow!AllowTypes
  <2>5. ~Allow!Loads'
    BY <1>7 DEF Allow!Loads
  <2>6. Allow!OwnerKept' /\ Allow!FileFollowsList'
    BY <1>1, <2>2, <2>5 DEF Allow!OwnerKept, Allow!FileFollowsList
  <2>7. Allow!Named(handler[h].snap) /\ list # <<>>
    BY <1>1, <1>2, <1>5 DEF Allow!SnapshotsNamed
  <2>8. Allow!SnapshotsNamed'
    <3>. SUFFICES ASSUME NEW g \in ChatHandlers
                  PROVE  /\ handler'[g].at \in Allow!Persisting => list # <<>>
                         /\ handler'[g].at \in {"truncate", "write"} => Allow!Named(handler'[g].snap)
      BY <2>2 DEF Allow!SnapshotsNamed, Allow!Named
    <3>1. CASE g = h
      BY <3>1, <2>1, <2>3, <2>7
    <3>2. CASE g # h
      BY <3>2, <1>1, <2>3 DEF Allow!SnapshotsNamed
    <3>. QED
      BY <3>1, <3>2
  <2>. QED
    BY <2>4, <2>6, <2>8 DEF Allow!AllowInv
<1>8. CASE Allow!Write(h)
  <2>1. /\ handler' = [handler EXCEPT ![h] = handler[h].then] /\ UNCHANGED <<list, admin>>
        /\ allowFile' = handler[h].snap
        /\ lastSave' = IF handler[h].snap.users = list THEN "fresh" ELSE "stale"
    BY <1>1, <1>8 DEF Allow!Write, Allow!AfterSave, Allow!AllowTypes
  <2>2. handler'[h] = handler[h].then /\ (\A g \in ChatHandlers : g # h => handler'[g] = handler[g])
    BY <1>1, <2>1 DEF Allow!AllowTypes
  <2>3. Allow!AllowTypes'
    BY <1>1, <1>4, <2>1 DEF Allow!AllowTypes
  <2>4. Allow!Named(handler[h].snap)
    BY <1>1, <1>2 DEF Allow!SnapshotsNamed
  <2>5. Allow!OwnerKept'
    BY <1>1, <2>1, <2>4 DEF Allow!OwnerKept, Allow!Named
  <2>6. Allow!FileFollowsList'
    BY <2>1 DEF Allow!FileFollowsList
  <2>7. Allow!SnapshotsNamed'
    <3>. SUFFICES ASSUME NEW g \in ChatHandlers
                  PROVE  /\ handler'[g].at \in Allow!Persisting => list # <<>>
                         /\ handler'[g].at \in {"truncate", "write"} => Allow!Named(handler'[g].snap)
      BY <2>1 DEF Allow!SnapshotsNamed, Allow!Named
    <3>1. CASE g = h
      BY <3>1, <2>2, <1>5
    <3>2. CASE g # h
      BY <3>2, <1>1, <2>2 DEF Allow!SnapshotsNamed
    <3>. QED
      BY <3>1, <3>2
  <2>. QED
    BY <2>3, <2>5, <2>6, <2>7 DEF Allow!AllowInv
<1>. QED
  BY <1>6, <1>7, <1>8 DEF Allow!Truncate

(* A start: the file, else the configured list.                            *)
LEMMA StartKeeps ==
  ASSUME Allow!AllowTypes, handler' = [g \in ChatHandlers |-> Allow!Free], lastSave' = "fresh", UNCHANGED allowFile,
         list' = Allow!LoadedList, admin' = Allow!LoadedAdmin, Allow!Loads => allowFile.admin \in Range(allowFile.users)
  PROVE  Allow!AllowInv'
<1>1. Allow!Free.at = "free" /\ Allow!Loads' = Allow!Loads
  BY DEF Allow!Free, Allow!Loads
<1>2. list' \in Seq(ChatUsers) /\ admin' \in ChatUsers \union {"nobody"}
      /\ (admin' = "nobody" <=> list' = <<>>) /\ (admin' # "nobody" => admin' \in Range(list'))
  <2>1. CASE Allow!Loads
    <3>1. list' = allowFile.users /\ admin' = allowFile.admin /\ allowFile \in Allow!Saved
      BY <2>1, FilesDiffer DEF Allow!LoadedList, Allow!LoadedAdmin
    <3>2. admin' \in ChatUsers /\ list' \in Seq(ChatUsers) /\ admin' \in Range(list')
      BY <2>1, <3>1 DEF Allow!Saved
    <3>3. list' # <<>>
      BY <3>2 DEF Range
    <3>. QED
      BY <3>2, <3>3, AllowAssumption DEF AllowAssume
  <2>2. CASE ~Allow!Loads /\ AllowConfig = <<>>
    BY <2>2 DEF Allow!LoadedList, Allow!LoadedAdmin
  <2>3. CASE ~Allow!Loads /\ AllowConfig # <<>>
    <3>1. list' = AllowConfig /\ admin' = AllowConfig[1] /\ AllowConfig \in Seq(ChatUsers)
      BY <2>3, AllowAssumption DEF Allow!LoadedList, Allow!LoadedAdmin, AllowAssume
    <3>2. 1 \in DOMAIN AllowConfig /\ AllowConfig[1] \in ChatUsers
      BY <3>1, <2>3
    <3>. QED
      BY <3>1, <3>2, <2>3, AllowAssumption DEF AllowAssume, Range
  <2>. QED
    BY <2>1, <2>2, <2>3
<1>3. Allow!AllowTypes'
  BY <1>2 DEF Allow!AllowTypes
<1>4. Allow!Loads => allowFile.admin = admin' /\ allowFile.users = list'
  BY DEF Allow!LoadedList, Allow!LoadedAdmin
<1>5. Allow!OwnerKept' /\ Allow!FileFollowsList'
  BY AllowOps, <1>1, <1>2, <1>4 DEF Allow!OwnerKept, Allow!FileFollowsList
<1>6. Allow!SnapshotsNamed'
  BY <1>1 DEF Allow!SnapshotsNamed, Allow!Persisting
<1>. QED
  BY <1>3, <1>5, <1>6 DEF Allow!AllowInv

LEMMA AllowInit == Allow!Init => Allow!AllowInv
<1>. SUFFICES ASSUME Allow!Init PROVE Allow!AllowInv
  OBVIOUS
<1>1. Allow!Free.at = "free" /\ ~Allow!Loads
  BY DEF Allow!Free, Allow!Loads, Allow!Init
<1>2. list \in Seq(ChatUsers) /\ admin \in ChatUsers \union {"nobody"}
      /\ (admin = "nobody" <=> list = <<>>) /\ (admin # "nobody" => admin \in Range(list))
  <2>1. CASE AllowConfig = <<>>
    BY <2>1 DEF Allow!Init
  <2>2. CASE AllowConfig # <<>>
    <3>1. list = AllowConfig /\ admin = AllowConfig[1] /\ AllowConfig \in Seq(ChatUsers)
      BY <2>2, AllowAssumption DEF Allow!Init, AllowAssume
    <3>2. 1 \in DOMAIN AllowConfig /\ AllowConfig[1] \in ChatUsers
      BY <3>1, <2>2
    <3>. QED
      BY <3>1, <3>2, <2>2, AllowAssumption DEF AllowAssume, Range
  <2>. QED
    BY <2>1, <2>2
<1>3. Allow!AllowTypes
  BY <1>2 DEF Allow!AllowTypes, Allow!Init
<1>4. Allow!OwnerKept /\ Allow!FileFollowsList
  BY AllowOps, <1>1, <1>2 DEF Allow!OwnerKept, Allow!FileFollowsList
<1>5. Allow!SnapshotsNamed
  BY <1>1 DEF Allow!SnapshotsNamed, Allow!Persisting, Allow!Init
<1>. QED
  BY <1>3, <1>4, <1>5 DEF Allow!AllowInv

LEMMA AllowKeeps == Allow!AllowInv /\ [Allow!Next]_Allow!allowVars => Allow!AllowInv'
<1>. SUFFICES ASSUME Allow!AllowInv, [Allow!Next]_Allow!allowVars PROVE Allow!AllowInv'
  OBVIOUS
<1>1. CASE UNCHANGED Allow!allowVars
  BY <1>1 DEF Allow!allowVars, Allow!AllowInv, Allow!AllowTypes, Allow!OwnerKept, Allow!SnapshotsNamed, Allow!FileFollowsList, Allow!Loads, Allow!Named
<1>2. CASE Allow!Crash
  <2>1. Allow!AllowTypes /\ Allow!OwnerKept
    BY DEF Allow!AllowInv
  <2>2. Allow!Loads => allowFile.admin \in Range(allowFile.users)
    BY AllowOps, <2>1 DEF Allow!OwnerKept
  <2>. QED
    BY <1>2, <2>1, <2>2, StartKeeps DEF Allow!Crash
<1>3. ASSUME NEW h \in ChatHandlers, Allow!FirstUser(h) PROVE Allow!AllowInv'
  BY <1>3, FirstStep, QuietHandler
<1>4. ASSUME NEW h \in ChatHandlers, Allow!Command(h) PROVE Allow!AllowInv'
  BY <1>4, CommandStep, QuietHandler
<1>5. ASSUME NEW h \in ChatHandlers,
             \/ Allow!Check(h) \/ Allow!Forward(h) \/ Allow!Snapshot(h)
             \/ \E u \in ChatUsers, t \in Allow!Texts : Allow!Arrive(h, u, t)
      PROVE  Allow!AllowInv'
  BY <1>5, QuietHandler
<1>6. ASSUME NEW h \in ChatHandlers, Allow!Truncate(h) \/ Allow!Write(h) PROVE Allow!AllowInv'
  BY <1>6, SaveSteps
<1>. QED
  BY <1>1, <1>2, <1>3, <1>4, <1>5, <1>6 DEF Allow!Next

LEMMA AllowFollows == Allow!AllowInv => Allow!TypeOK /\ Allow!OwnerKept /\ Allow!FileFollowsList
<1>. SUFFICES ASSUME Allow!AllowInv PROVE Allow!TypeOK /\ Allow!OwnerKept /\ Allow!FileFollowsList
  OBVIOUS
<1>1. Range(list) \subseteq ChatUsers
  BY DEF Allow!AllowInv, Allow!AllowTypes, Range
<1>. QED
  BY AllowOps, <1>1 DEF Allow!AllowInv, Allow!AllowTypes, Allow!TypeOK

(* Handlers, saves and crashes in any order: the admin stays on the list and *)
(* in every file that loads, and the last save that was neither refused nor  *)
(* overtaken has the list as it is.                                          *)
THEOREM OwnerStays == Allow!Spec => [](Allow!TypeOK /\ Allow!OwnerKept /\ Allow!FileFollowsList)
BY AllowInit, AllowKeeps, AllowFollows, PTL DEF Allow!Spec

-----------------------------------------------------------------------------
(* Keys of a provider: the round of the index over the keys.               *)

(* Division with remainder.                                                *)
LEMMA DivMod ==
  ASSUME NEW d \in Nat \ {0}, NEW x \in Int
  PROVE  x \div d \in Int /\ x % d \in 0..(d - 1) /\ x = d * (x \div d) + (x % d)
OBVIOUS

LEMMA OneRemainder ==
  ASSUME NEW d \in Nat \ {0}, NEW q \in Int, NEW p \in Int, NEW r \in 0..(d - 1), NEW s \in 0..(d - 1),
         d * q + r = d * p + s
  PROVE  r = s
<1>1. ASSUME NEW e \in Int, e >= 1 PROVE d * e >= d
  BY <1>1
<1>2. CASE q - p >= 1
  <2>1. d * (q - p) = s - r
    OBVIOUS
  <2>. QED
    BY <2>1, <1>1, <1>2
<1>3. CASE p - q >= 1
  <2>1. d * (p - q) = r - s
    OBVIOUS
  <2>. QED
    BY <2>1, <1>1, <1>3
<1>4. CASE p = q
  BY <1>4
<1>. QED
  BY <1>2, <1>3, <1>4

LEMMA RoundAgain ==
  ASSUME NEW d \in Nat \ {0}, NEW x \in Int
  PROVE  (x + d) % d = x % d
<1>1. x + d = d * ((x \div d) + 1) + (x % d)
  BY DivMod
<1>2. x + d = d * ((x + d) \div d) + ((x + d) % d)
  BY DivMod
<1>3. /\ (x \div d) + 1 \in Int /\ (x + d) \div d \in Int
      /\ x % d \in 0..(d - 1) /\ (x + d) % d \in 0..(d - 1)
  BY DivMod
<1>. QED
  BY <1>1, <1>2, <1>3, OneRemainder

LEMMA WithinRound ==
  ASSUME NEW d \in Nat \ {0}, NEW x \in Int, NEW k \in Int, (x % d) + k \in 0..(d - 1)
  PROVE  (x + k) % d = (x % d) + k
OBVIOUS

(* d numbers in a row have all remainders.                                 *)
LEMMA AllRemainders ==
  ASSUME NEW d \in Nat \ {0}, NEW a \in Int, NEW r \in 0..(d - 1)
  PROVE  \E j \in a..(a + d - 1) : j % d = r
<1>1. a % d \in 0..(d - 1) /\ (a + d) % d = a % d
  BY DivMod, RoundAgain
<1>2. CASE r >= a % d
  <2>1. (a + (r - (a % d))) % d = r
    BY <1>1, <1>2, WithinRound
  <2>2. a + (r - (a % d)) \in a..(a + d - 1)
    BY <1>1, <1>2
  <2>. QED
    BY <2>1, <2>2
<1>3. CASE r < a % d
  <2>1. ((a + d) + (r - (a % d))) % d = r
    <3>1. a + d \in Int /\ r - (a % d) \in Int /\ ((a + d) % d) + (r - (a % d)) = r
      BY <1>1
    <3>. QED
      BY <3>1, WithinRound
  <2>2. (a + d) + (r - (a % d)) \in a..(a + d - 1)
    BY <1>1, <1>3
  <2>. QED
    BY <2>1, <2>2
<1>. QED
  BY <1>1, <1>2, <1>3

LEMMA CurrentIn == \A i \in Int : Rot!CurrentKey(i) \in 1..Len(ProviderKeys)
<1>. TAKE i \in Int
<1>1. Len(ProviderKeys) \in Nat \ {0}
  BY RotationAssumption DEF RotationAssume
<1>2. i % Len(ProviderKeys) \in 0..(Len(ProviderKeys) - 1)
  <2>. DEFINE d == Len(ProviderKeys)
  <2>1. d \in Nat \ {0}
    BY <1>1
  <2>. HIDE DEF d
  <2>2. i % d \in 0..(d - 1)
    BY <2>1, DivMod
  <2>. QED
    BY <2>2 DEF d
<1>. QED
  BY <1>1, <1>2 DEF Rot!CurrentKey

LEMMA RequestKeeps ==
  ASSUME Rot!RotationInv, NEW c \in KeyCallers, Rot!Request(c)
  PROVE  Rot!RotationInv'
<1>1. Rot!RotationTypes /\ Rot!AloneIsCurrent /\ Rot!StreakRefused
  BY DEF Rot!RotationInv
<1>2. /\ inFlight[c] = 0 /\ called < MaxKeyCalls /\ called' = called + 1
      /\ inFlight' = [inFlight EXCEPT ![c] = Rot!CurrentKey(keyIndex)]
      /\ UNCHANGED <<keyIndex, streak>>
  BY DEF Rot!Request
<1>3. keyIndex \in Nat /\ Rot!CurrentKey(keyIndex) \in 1..Len(ProviderKeys) /\ Len(ProviderKeys) \in Nat
  BY <1>1, CurrentIn, RotationAssumption DEF Rot!RotationTypes, RotationAssume
<1>4. /\ inFlight' \in [KeyCallers -> 0..Len(ProviderKeys)] /\ inFlight'[c] = Rot!CurrentKey(keyIndex)
      /\ \A d \in KeyCallers : d # c => inFlight'[d] = inFlight[d]
  BY <1>1, <1>2, <1>3 DEF Rot!RotationTypes
<1>5. Rot!Waiting' = Rot!Waiting \cup {c} /\ c \notin Rot!Waiting
  BY <1>2, <1>3, <1>4 DEF Rot!Waiting
<1>6. /\ alone' \in [KeyCallers -> BOOLEAN] /\ (alone'[c] <=> Rot!Waiting = {})
      /\ \A d \in Rot!Waiting : ~alone'[d]
  <2>1. {d \in KeyCallers \ {c} : inFlight[d] # 0} = Rot!Waiting
    BY <1>5 DEF Rot!Waiting
  <2>2. alone' = [d \in KeyCallers |-> IF d = c THEN Rot!Waiting = {} ELSE IF d \in Rot!Waiting THEN FALSE ELSE alone[d]]
    BY <2>1, Zenon DEF Rot!Request
  <2>3. \A d \in KeyCallers : alone[d] \in BOOLEAN
    BY <1>1 DEF Rot!RotationTypes
  <2>4. \A d \in KeyCallers : alone'[d] \in BOOLEAN
    BY <2>2, <2>3
  <2>5. alone' \in [KeyCallers -> BOOLEAN]
    BY <2>2, <2>4
  <2>6. Rot!Waiting \subseteq KeyCallers
    BY DEF Rot!Waiting
  <2>. QED
    BY <2>2, <2>5, <2>6, <1>5
<1>7. Cardinality(Rot!Waiting') = Cardinality(Rot!Waiting) + 1 /\ Cardinality(Rot!Waiting) \in Nat
  <2>1. IsFiniteSet(Rot!Waiting)
    BY FS_Subset, RotationAssumption DEF Rot!Waiting, RotationAssume
  <2>. QED
    BY <2>1, <1>5, FS_AddElement, FS_CardinalityType
<1>8. Rot!RotationTypes'
  BY RotOps, <1>1, <1>2, <1>4, <1>6, <1>7, RotationAssumption DEF Rot!RotationTypes, RotationAssume
<1>9. Rot!AloneIsCurrent'
  <2>. SUFFICES ASSUME NEW d \in Rot!Waiting', alone'[d]
                PROVE  inFlight'[d] = Rot!CurrentKey(keyIndex) /\ Rot!Waiting' = {d}
    BY <1>2 DEF Rot!AloneIsCurrent, Rot!CurrentKey
  <2>1. d = c
    BY <1>5, <1>6
  <2>. QED
    BY <2>1, <1>4, <1>5, <1>6
<1>10. Rot!StreakRefused'
  BY <1>1, <1>2 DEF Rot!StreakRefused, Rot!CurrentKey
<1>. QED
  BY <1>8, <1>9, <1>10 DEF Rot!RotationInv

LEMMA AnswerKeeps ==
  ASSUME Rot!RotationInv, NEW c \in KeyCallers, NEW refused \in BOOLEAN, Rot!Answer(c, refused)
  PROVE  Rot!RotationInv'
<1>1. Rot!RotationTypes /\ Rot!AloneIsCurrent /\ Rot!StreakRefused
  BY DEF Rot!RotationInv
<1>2. /\ inFlight[c] # 0 /\ inFlight' = [inFlight EXCEPT ![c] = 0]
      /\ (refused <=> ProviderKeys[inFlight[c]] \in RefusedKeys)
      /\ keyIndex' = (IF refused THEN keyIndex + 1 ELSE keyIndex)
      /\ streak' = (IF refused /\ alone[c] THEN streak + 1 ELSE 0)
      /\ UNCHANGED <<alone, called>>
  BY Zenon DEF Rot!Answer
<1>3. keyIndex \in Nat /\ streak \in 0..keyIndex /\ Len(ProviderKeys) \in Nat
  BY <1>1, RotationAssumption DEF Rot!RotationTypes, RotationAssume
<1>4. /\ inFlight' \in [KeyCallers -> 0..Len(ProviderKeys)] /\ inFlight'[c] = 0
      /\ \A d \in KeyCallers : d # c => inFlight'[d] = inFlight[d]
  BY <1>1, <1>2, <1>3 DEF Rot!RotationTypes
<1>5. Rot!Waiting' = Rot!Waiting \ {c} /\ c \in Rot!Waiting
  BY <1>2, <1>4 DEF Rot!Waiting
<1>6. /\ Cardinality(Rot!Waiting') = Cardinality(Rot!Waiting) - 1
      /\ Cardinality(Rot!Waiting) \in Nat /\ Cardinality(Rot!Waiting') \in Nat
  <2>1. IsFiniteSet(Rot!Waiting)
    BY FS_Subset, RotationAssumption DEF Rot!Waiting, RotationAssume
  <2>. QED
    BY <2>1, <1>5, FS_RemoveElement, FS_CardinalityType
<1>7. Rot!RotationTypes'
  <2>1. keyIndex' \in Nat /\ streak' \in 0..keyIndex' /\ keyIndex' <= keyIndex + 1
    BY <1>2, <1>3
  <2>2. alone' \in [KeyCallers -> BOOLEAN] /\ called' \in 0..MaxKeyCalls /\ called' = called
    BY <1>1, <1>2 DEF Rot!RotationTypes
  <2>3. keyIndex + Cardinality(Rot!Waiting) <= called /\ called \in Int
    BY RotOps, <1>1, RotationAssumption DEF Rot!RotationTypes, RotationAssume
  <2>. QED
    BY RotOps, <2>1, <2>2, <2>3, <1>3, <1>4, <1>6 DEF Rot!RotationTypes
<1>8. Rot!AloneIsCurrent'
  <2>. SUFFICES ASSUME NEW d \in Rot!Waiting', alone'[d]
                PROVE  FALSE
    BY DEF Rot!AloneIsCurrent
  <2>1. d # c /\ d \in Rot!Waiting /\ alone[d]
    BY <1>2, <1>5
  <2>. QED
    BY <2>1, <1>1, <1>5 DEF Rot!AloneIsCurrent
<1>9. Rot!StreakRefused'
  <2>. SUFFICES ASSUME NEW j \in (keyIndex' - streak')..(keyIndex' - 1)
                PROVE  ProviderKeys[Rot!CurrentKey(j)] \in RefusedKeys
    BY DEF Rot!StreakRefused, Rot!CurrentKey
  <2>1. refused /\ alone[c] /\ keyIndex' = keyIndex + 1 /\ streak' = streak + 1
    BY <1>2, <1>3
  <2>2. inFlight[c] = Rot!CurrentKey(keyIndex)
    BY <2>1, <1>1, <1>5 DEF Rot!AloneIsCurrent
  <2>3. CASE j = keyIndex
    BY <2>1, <2>2, <2>3, <1>2
  <2>4. CASE j # keyIndex
    <3>1. j \in (keyIndex - streak)..(keyIndex - 1)
      BY <2>1, <2>4, <1>3
    <3>. QED
      BY <3>1, <1>1 DEF Rot!StreakRefused
  <2>. QED
    BY <2>3, <2>4
<1>. QED
  BY <1>7, <1>8, <1>9 DEF Rot!RotationInv

LEMMA RotationInit == Rot!Init => Rot!RotationInv
<1>. SUFFICES ASSUME Rot!Init PROVE Rot!RotationInv
  OBVIOUS
<1>1. Rot!Waiting = {}
  BY DEF Rot!Init, Rot!Waiting
<1>2. Cardinality(Rot!Waiting) = 0
  BY <1>1, FS_EmptySet
<1>3. Len(ProviderKeys) \in Nat /\ MaxKeyCalls \in Nat
  BY RotationAssumption DEF RotationAssume
<1>4. Rot!RotationTypes
  BY RotOps, <1>2, <1>3 DEF Rot!RotationTypes, Rot!Init
<1>. QED
  BY <1>1, <1>4 DEF Rot!RotationInv, Rot!AloneIsCurrent, Rot!StreakRefused, Rot!Init

LEMMA RotationKeeps == Rot!RotationInv /\ [Rot!Next]_Rot!rotationVars => Rot!RotationInv'
<1>. SUFFICES ASSUME Rot!RotationInv, [Rot!Next]_Rot!rotationVars PROVE Rot!RotationInv'
  OBVIOUS
<1>1. CASE UNCHANGED Rot!rotationVars
  BY <1>1 DEF Rot!rotationVars, Rot!RotationInv, Rot!RotationTypes, Rot!AloneIsCurrent, Rot!StreakRefused, Rot!Waiting, Rot!CurrentKey
<1>2. ASSUME NEW c \in KeyCallers, Rot!Request(c) PROVE Rot!RotationInv'
  BY <1>2, RequestKeeps
<1>3. ASSUME NEW c \in KeyCallers, Rot!Answer(c, TRUE) PROVE Rot!RotationInv'
  BY <1>3, AnswerKeeps
<1>4. ASSUME NEW c \in KeyCallers, Rot!Answer(c, FALSE) PROVE Rot!RotationInv'
  BY <1>4, AnswerKeeps
<1>. QED
  BY <1>1, <1>2, <1>3, <1>4 DEF Rot!Next

LEMMA RotationFollows == Rot!RotationInv => Rot!TypeOK /\ Rot!RotationFinds
<1>. SUFFICES ASSUME Rot!RotationInv PROVE Rot!TypeOK /\ Rot!RotationFinds
  OBVIOUS
<1>1. Rot!RotationTypes /\ Rot!StreakRefused
  BY DEF Rot!RotationInv
<1>2. Len(ProviderKeys) \in Nat \ {0} /\ DOMAIN ProviderKeys = 1..Len(ProviderKeys) /\ MaxKeyCalls \in Nat
  BY RotationAssumption DEF RotationAssume
<1>3. Cardinality(Rot!Waiting) \in Nat
  <2>1. IsFiniteSet(Rot!Waiting)
    BY FS_Subset, RotationAssumption DEF Rot!Waiting, RotationAssume
  <2>. QED
    BY <2>1, FS_CardinalityType
<1>4. keyIndex \in Nat /\ streak \in 0..keyIndex /\ called \in 0..MaxKeyCalls
      /\ keyIndex + Cardinality(Rot!Waiting) <= called
  BY RotOps, <1>1 DEF Rot!RotationTypes
<1>5. Rot!TypeOK
  BY <1>2, <1>3, <1>4 DEF Rot!TypeOK
<1>6. ASSUME NEW i \in DOMAIN ProviderKeys, ProviderKeys[i] \notin RefusedKeys, streak >= Len(ProviderKeys) PROVE FALSE
  <2>1. i - 1 \in 0..(Len(ProviderKeys) - 1) /\ keyIndex - streak \in Int
    BY <1>2, <1>4
  <2>2. PICK j \in (keyIndex - streak)..((keyIndex - streak) + Len(ProviderKeys) - 1) : j % Len(ProviderKeys) = i - 1
    BY <2>1, <1>2, AllRemainders
  <2>3. j \in (keyIndex - streak)..(keyIndex - 1)
    BY <1>2, <1>4, <1>6
  <2>4. Rot!CurrentKey(j) = i
    BY <2>2, <1>2 DEF Rot!CurrentKey
  <2>. QED
    BY <2>3, <2>4, <1>1, <1>6 DEF Rot!StreakRefused
<1>7. Rot!RotationFinds
  BY <1>2, <1>4, <1>6 DEF Rot!RotationFinds
<1>. QED
  BY <1>5, <1>7

(* Requests that do not overlap meet fewer refusals in a row than there are  *)
(* keys, if one of the keys works.                                           *)
THEOREM RotationWorks == Rot!Spec => [](Rot!TypeOK /\ Rot!RotationFinds)
BY RotationInit, RotationKeeps, RotationFollows, PTL DEF Rot!Spec

-----------------------------------------------------------------------------
(* Heartbeats: the hours on the clock, and the counts of the ticks.         *)

(* A time within the hours lies on the way round the clock.                *)
LEMMA WayRound ==
  ASSUME NEW s \in 0..(Day - 1), NEW e \in 0..(Day - 1), NEW m \in 0..(Day - 1), Day \in Nat \ {0},
         IF s <= e THEN m >= s /\ m < e ELSE m >= s \/ m < e
  PROVE  \E d \in 0..(((e - s) % Day) - 1) : (s + d) % Day = m
<1>1. \A x \in 0..(Day - 1) : x % Day = x /\ (x + Day) % Day = x
  <2>. SUFFICES ASSUME NEW x \in 0..(Day - 1) PROVE x % Day = x /\ (x + Day) % Day = x
    OBVIOUS
  <2>1. x % Day = x
    BY WithinRound, DivMod
  <2>. QED
    BY <2>1, RoundAgain
<1>2. CASE s <= e
  <2>1. (e - s) % Day = e - s /\ m % Day = m
    BY <1>1, <1>2
  <2>2. m - s \in 0..((e - s) - 1) /\ s + (m - s) = m
    BY <1>2
  <2>. QED
    BY <2>1, <2>2
<1>3. CASE ~(s <= e)
  <2>1. (e - s) % Day = (e - s) + Day
    <3>1. (e - s) + Day \in 0..(Day - 1)
      BY <1>3
    <3>2. ((e - s) + Day) % Day = (e - s) + Day
      BY <3>1, <1>1
    <3>3. ((e - s) + Day) % Day = (e - s) % Day
      <4>1. e - s \in Int
        OBVIOUS
      <4>. QED
        BY <4>1, RoundAgain
    <3>. QED
      BY <3>2, <3>3
  <2>2. CASE m >= s
    <3>1. m - s \in 0..(((e - s) + Day) - 1) /\ (s + (m - s)) % Day = m
      BY <1>1, <1>3, <2>2
    <3>. QED
      BY <2>1, <3>1
  <2>3. CASE m < s
    <3>1. (m - s) + Day \in 0..(((e - s) + Day) - 1) /\ s + ((m - s) + Day) = m + Day
      BY <1>3, <2>3
    <3>2. (s + ((m - s) + Day)) % Day = m
      BY <3>1, <1>1
    <3>. QED
      BY <2>1, <3>1, <3>2
  <2>. QED
    BY <2>2, <2>3
<1>. QED
  BY <1>2, <1>3

LEMMA BeatInit == Beat!Init => Beat!BeatInv
<1>. SUFFICES ASSUME Beat!Init PROVE Beat!BeatInv
  OBVIOUS
<1>1. metrics = [n \in Beat!Counters |-> 0] /\ "total" \in Beat!Counters
  BY DEF Beat!Init, Beat!Counters
<1>2. metrics \in [Beat!Counters -> Nat] /\ \A n \in Beat!Counters : metrics[n] = 0
  BY <1>1
<1>3. Beat!BeatTypes
  BY <1>1, <1>2, BeatAssumption DEF Beat!Init, Beat!BeatTypes, BeatAssume
<1>4. Beat!TicksAccounted
  BY <1>2 DEF Beat!Init, Beat!TicksAccounted, Beat!Counters
<1>. QED
  BY <1>3, <1>4 DEF Beat!BeatInv, Beat!SentWithin, Beat!Init

(* A tick adds one to the total, to at most one of its reasons and to at   *)
(* most one of the two about health.                                       *)
LEMMA TickCounts ==
  ASSUME Beat!BeatInv, Beat!Ticking, NEW counts \in SUBSET Beat!Counters, "total" \in counts, Beat!Bump(counts)
  PROVE  /\ metrics' \in [Beat!Counters -> Nat] /\ metrics'["total"] = metrics["total"] + 1
         /\ metrics'["total"] <= MaxRuns
         /\ \A n \in Beat!Counters : metrics'[n] <= metrics'["total"]
         /\ \A n \in counts : metrics'[n] = metrics[n] + 1
         /\ \A n \in Beat!Counters \ counts : metrics'[n] = metrics[n]
<1>1. /\ metrics \in [Beat!Counters -> Nat] /\ metrics["total"] <= MaxRuns /\ MaxRuns \in Nat
      /\ \A n \in Beat!Counters : metrics[n] <= metrics["total"]
  BY BeatAssumption DEF Beat!BeatInv, Beat!BeatTypes, BeatAssume
<1>2. metrics' = [n \in Beat!Counters |-> IF n \in counts THEN metrics[n] + 1 ELSE metrics[n]]
  BY DEF Beat!Bump
<1>3. \A n \in Beat!Counters : metrics[n] \in Nat
  BY <1>1
<1>4. metrics' \in [Beat!Counters -> Nat]
  BY <1>2, <1>3
<1>5. \A n \in counts : metrics'[n] = metrics[n] + 1
  BY <1>2
<1>6. \A n \in Beat!Counters \ counts : metrics'[n] = metrics[n]
  BY <1>2
<1>7. \A n \in Beat!Counters : metrics'[n] <= metrics[n] + 1
  BY <1>3, <1>5, <1>6
<1>. QED
  BY <1>1, <1>3, <1>4, <1>5, <1>6, <1>7 DEF Beat!Ticking

(* A tick that ends for one reason.                                        *)
LEMMA TickKeeps ==
  ASSUME Beat!BeatInv, Beat!Ticking,
         NEW why \in {"sent", "noChecklist", "ok", "hours", "full"},
         NEW health \in SUBSET {"degraded", "unhealthy"},
         Beat!Bump({"total", why} \union health),
         queue' \in Seq(BOOLEAN), Len(queue') <= Capacity,
         UNCHANGED <<minute, window, running>>,
         \A m \in sentAt' : m \in sentAt \/ (m = minute /\ Beat!IsWithin(window, minute))
  PROVE  Beat!BeatInv'
<1>. DEFINE counts == {"total", why} \union health
<1>1. counts \in SUBSET Beat!Counters /\ "total" \in counts /\ Beat!Bump(counts)
  BY DEF Beat!Counters
<1>2. \A n \in {"sent", "noChecklist", "ok", "hours", "full"} : n \in counts <=> n = why
  OBVIOUS
<1>. HIDE DEF counts
<1>3. /\ metrics' \in [Beat!Counters -> Nat] /\ metrics'["total"] = metrics["total"] + 1
      /\ metrics'["total"] <= MaxRuns
      /\ \A n \in Beat!Counters : metrics'[n] <= metrics'["total"]
      /\ \A n \in counts : metrics'[n] = metrics[n] + 1
      /\ \A n \in Beat!Counters \ counts : metrics'[n] = metrics[n]
  BY <1>1, TickCounts
<1>4. Beat!BeatTypes'
  BY <1>3 DEF Beat!BeatInv, Beat!BeatTypes
<1>5. Beat!SentWithin'
  BY DEF Beat!BeatInv, Beat!BeatTypes, Beat!SentWithin, Beat!Ticking, Beat!IsWithin
<1>6. Beat!TicksAccounted'
  <2>1. running = "yes" /\ running' = "yes"
    BY DEF Beat!Ticking
  <2>2. metrics["total"] = metrics["sent"] + metrics["noChecklist"] + metrics["ok"] + metrics["hours"] + metrics["full"]
    BY <2>1 DEF Beat!BeatInv, Beat!BeatTypes, Beat!TicksAccounted, Beat!Counters
  <2>3. \A n \in {"sent", "noChecklist", "ok", "hours", "full"} :
          metrics[n] \in Nat /\ metrics'[n] = (IF n = why THEN metrics[n] + 1 ELSE metrics[n])
    BY <1>2, <1>3 DEF Beat!BeatInv, Beat!BeatTypes, Beat!Counters
  <2>4. metrics'["total"] = metrics'["sent"] + metrics'["noChecklist"] + metrics'["ok"] + metrics'["hours"] + metrics'["full"]
    <3>1. metrics'["total"] = metrics["total"] + 1
      BY <1>3
    <3>2. /\ metrics["sent"] \in Nat /\ metrics'["sent"] = (IF "sent" = why THEN metrics["sent"] + 1 ELSE metrics["sent"])
          /\ metrics["noChecklist"] \in Nat /\ metrics'["noChecklist"] = (IF "noChecklist" = why THEN metrics["noChecklist"] + 1 ELSE metrics["noChecklist"])
          /\ metrics["ok"] \in Nat /\ metrics'["ok"] = (IF "ok" = why THEN metrics["ok"] + 1 ELSE metrics["ok"])
          /\ metrics["hours"] \in Nat /\ metrics'["hours"] = (IF "hours" = why THEN metrics["hours"] + 1 ELSE metrics["hours"])
          /\ metrics["full"] \in Nat /\ metrics'["full"] = (IF "full" = why THEN metrics["full"] + 1 ELSE metrics["full"])
      BY <2>3
    <3>3. CASE why = "sent"
      <4>1. metrics'["sent"] = metrics["sent"] + 1 /\ metrics'["noChecklist"] = metrics["noChecklist"] /\ metrics'["ok"] = metrics["ok"] /\ metrics'["hours"] = metrics["hours"] /\ metrics'["full"] = metrics["full"]
        BY <3>2, <3>3
      <4>. QED
        BY <4>1, <3>1, <3>2, <2>2
    <3>4. CASE why = "noChecklist"
      <4>1. metrics'["sent"] = metrics["sent"] /\ metrics'["noChecklist"] = metrics["noChecklist"] + 1 /\ metrics'["ok"] = metrics["ok"] /\ metrics'["hours"] = metrics["hours"] /\ metrics'["full"] = metrics["full"]
        BY <3>2, <3>4
      <4>. QED
        BY <4>1, <3>1, <3>2, <2>2
    <3>5. CASE why = "ok"
      <4>1. metrics'["sent"] = metrics["sent"] /\ metrics'["noChecklist"] = metrics["noChecklist"] /\ metrics'["ok"] = metrics["ok"] + 1 /\ metrics'["hours"] = metrics["hours"] /\ metrics'["full"] = metrics["full"]
        BY <3>2, <3>5
      <4>. QED
        BY <4>1, <3>1, <3>2, <2>2
    <3>6. CASE why = "hours"
      <4>1. metrics'["sent"] = metrics["sent"] /\ metrics'["noChecklist"] = metrics["noChecklist"] /\ metrics'["ok"] = metrics["ok"] /\ metrics'["hours"] = metrics["hours"] + 1 /\ metrics'["full"] = metrics["full"]
        BY <3>2, <3>6
      <4>. QED
        BY <4>1, <3>1, <3>2, <2>2
    <3>7. CASE why = "full"
      <4>1. metrics'["sent"] = metrics["sent"] /\ metrics'["noChecklist"] = metrics["noChecklist"] /\ metrics'["ok"] = metrics["ok"] /\ metrics'["hours"] = metrics["hours"] /\ metrics'["full"] = metrics["full"] + 1
        BY <3>2, <3>7
      <4>. QED
        BY <4>1, <3>1, <3>2, <2>2
    <3>. QED
      BY <3>3, <3>4, <3>5, <3>6, <3>7
  <2>5. metrics'["total"] \in Nat
    BY <1>3 DEF Beat!Counters
  <2>. QED
    BY <2>1, <2>4, <2>5 DEF Beat!TicksAccounted
<1>. QED
  BY <1>4, <1>5, <1>6 DEF Beat!BeatInv

LEMMA TrySendKeeps ==
  ASSUME Beat!BeatInv, NEW health \in {"healthy", "degraded", "unhealthy"}, Beat!TrySend(health)
  PROVE  Beat!BeatInv'
<1>. PICK h \in SUBSET {"degraded", "unhealthy"} : h = Beat!HealthCount(health)
  BY DEF Beat!HealthCount
<1>1. Beat!Ticking /\ Beat!IsWithin(window, minute) /\ UNCHANGED <<minute, window>>
  BY DEF Beat!TrySend, Beat!Due
<1>2. queue \in Seq(BOOLEAN) /\ Len(queue) <= Capacity /\ Capacity \in Nat /\ Len(queue) \in Nat
  BY BeatAssumption DEF Beat!BeatInv, Beat!BeatTypes, BeatAssume
<1>3. CASE ~open
  <2>1. running' = "ended" /\ Beat!Bump({"total"} \union h) /\ UNCHANGED <<queue, sentAt>>
    BY <1>3 DEF Beat!TrySend
  <2>2. {"total"} \union h \in SUBSET Beat!Counters
    BY DEF Beat!Counters
  <2>3. /\ metrics' \in [Beat!Counters -> Nat] /\ metrics'["total"] = metrics["total"] + 1
        /\ metrics'["total"] <= MaxRuns
        /\ \A n \in Beat!Counters : metrics'[n] <= metrics'["total"]
        /\ \A n \in Beat!Counters \ ({"total"} \union h) : metrics'[n] = metrics[n]
    BY <1>1, <2>1, <2>2, TickCounts
  <2>4. Beat!BeatTypes'
    BY <1>1, <2>1, <2>3 DEF Beat!BeatInv, Beat!BeatTypes
  <2>5. Beat!SentWithin'
    BY <1>1, <2>1 DEF Beat!BeatInv, Beat!SentWithin, Beat!IsWithin
  <2>6. Beat!TicksAccounted'
    <3>1. \A n \in {"sent", "noChecklist", "ok", "hours", "full"} : metrics[n] \in Nat /\ metrics'[n] = metrics[n]
      BY <2>3 DEF Beat!BeatInv, Beat!BeatTypes, Beat!Counters
    <3>2. metrics["total"] = metrics["sent"] + metrics["noChecklist"] + metrics["ok"] + metrics["hours"] + metrics["full"]
      BY <1>1, <3>1 DEF Beat!BeatInv, Beat!TicksAccounted, Beat!Ticking
    <3>. QED
      BY <2>1, <2>3, <3>1, <3>2 DEF Beat!TicksAccounted
  <2>. QED
    BY <2>4, <2>5, <2>6 DEF Beat!BeatInv
<1>4. CASE open /\ Len(queue) < Capacity
  <2>1. /\ queue' = Append(queue, TRUE) /\ sentAt' = sentAt \union {minute}
        /\ Beat!Bump({"total", "sent"} \union h) /\ UNCHANGED running
    BY <1>4 DEF Beat!TrySend
  <2>2. queue' \in Seq(BOOLEAN) /\ Len(queue') <= Capacity
    BY <1>2, <1>4, <2>1
  <2>. QED
    BY <1>1, <2>1, <2>2, TickKeeps
<1>5. CASE open /\ ~(Len(queue) < Capacity)
  <2>1. Beat!Bump({"total", "full"} \union h) /\ UNCHANGED <<queue, sentAt, running>>
    BY <1>5 DEF Beat!TrySend
  <2>. QED
    BY <1>1, <1>2, <2>1, TickKeeps
<1>. QED
  BY <1>3, <1>4, <1>5

LEMMA SkipKeeps ==
  ASSUME Beat!BeatInv, Beat!Ticking, NEW why \in {"noChecklist", "ok", "hours"}, Beat!Bump({"total", why}),
         UNCHANGED <<minute, window, queue, running, sentAt>>
  PROVE  Beat!BeatInv'
<1>1. queue' \in Seq(BOOLEAN) /\ Len(queue') <= Capacity
  BY DEF Beat!BeatInv, Beat!BeatTypes
<1>2. {"total", why} = {"total", why} \union {}
  OBVIOUS
<1>3. Beat!Bump({"total", why} \union {})
  BY <1>2
<1>. QED
  BY <1>1, <1>3, TickKeeps

(* Steps that are not ticks leave the counters and the sends alone.        *)
LEMMA OtherBeats ==
  ASSUME Beat!BeatInv, UNCHANGED <<metrics, sentAt, running, window>>, minute' \in 0..(Day - 1),
         queue' \in Seq(BOOLEAN), Len(queue') <= Capacity
  PROVE  Beat!BeatInv'
<1>1. Beat!BeatTypes'
  BY DEF Beat!BeatInv, Beat!BeatTypes
<1>2. Beat!SentWithin'
  BY DEF Beat!BeatInv, Beat!SentWithin, Beat!IsWithin
<1>. QED
  BY <1>1, <1>2 DEF Beat!BeatInv, Beat!TicksAccounted

LEMMA BeatKeeps == Beat!BeatInv /\ [Beat!Next]_Beat!heartbeatVars => Beat!BeatInv'
<1>. SUFFICES ASSUME Beat!BeatInv, [Beat!Next]_Beat!heartbeatVars PROVE Beat!BeatInv'
  OBVIOUS
<1>1. /\ minute \in 0..(Day - 1) /\ queue \in Seq(BOOLEAN) /\ Len(queue) <= Capacity
      /\ Capacity \in Nat /\ Day \in Nat \ {0} /\ Len(queue) \in Nat
  BY BeatAssumption DEF Beat!BeatInv, Beat!BeatTypes, BeatAssume
<1>2. CASE UNCHANGED Beat!heartbeatVars
  BY <1>1, <1>2, OtherBeats DEF Beat!heartbeatVars
<1>3. ASSUME NEW w \in Windows, Beat!Run(w) PROVE Beat!BeatInv'
  <2>1. Beat!BeatTypes'
    BY <1>3 DEF Beat!Run, Beat!BeatInv, Beat!BeatTypes
  <2>2. Beat!SentWithin'
    BY <1>3 DEF Beat!Run, Beat!BeatInv, Beat!SentWithin
  <2>3. Beat!TicksAccounted'
    BY <1>3 DEF Beat!Run, Beat!BeatInv, Beat!TicksAccounted
  <2>. QED
    BY <2>1, <2>2, <2>3 DEF Beat!BeatInv
<1>4. CASE Beat!OutsideHours
  BY <1>4, SkipKeeps DEF Beat!OutsideHours
<1>5. CASE Beat!Suppressed
  BY <1>5, SkipKeeps DEF Beat!Suppressed
<1>6. CASE Beat!NoChecklist
  BY <1>6, SkipKeeps DEF Beat!NoChecklist, Beat!Due
<1>7. ASSUME NEW h \in {"healthy", "degraded", "unhealthy"}, Beat!TrySend(h) PROVE Beat!BeatInv'
  BY <1>7, TrySendKeeps
<1>8. CASE Beat!Pass
  <2>1. minute' \in 0..(Day - 1)
    BY <1>1, <1>8, DivMod DEF Beat!Pass
  <2>. QED
    BY <1>1, <1>8, <2>1, OtherBeats DEF Beat!Pass
<1>9. CASE Beat!AgentWrites
  BY <1>1, <1>9, OtherBeats DEF Beat!AgentWrites
<1>10. CASE Beat!UserSends
  BY <1>1, <1>10, OtherBeats DEF Beat!UserSends
<1>11. CASE Beat!Drain
  <2>1. queue' \in Seq(BOOLEAN) /\ Len(queue') <= Capacity
    BY <1>1, <1>11 DEF Beat!Drain
  <2>. QED
    BY <1>1, <1>11, <2>1, OtherBeats DEF Beat!Drain
<1>12. CASE Beat!Close
  BY <1>1, <1>12, OtherBeats DEF Beat!Close
<1>. QED
  BY <1>2, <1>3, <1>4, <1>5, <1>6, <1>7, <1>8, <1>9, <1>10, <1>11, <1>12 DEF Beat!Next

LEMMA BeatFollows == Beat!BeatInv => Beat!TypeOK /\ Beat!SentInHours /\ Beat!TicksAccounted
<1>. SUFFICES ASSUME Beat!BeatInv PROVE Beat!TypeOK /\ Beat!SentInHours
  BY DEF Beat!BeatInv
<1>1. Beat!TypeOK
  <2>1. \A n \in Beat!Counters : metrics[n] \in 0..MaxRuns
    BY BeatAssumption DEF Beat!BeatInv, Beat!BeatTypes, BeatAssume, Beat!Counters
  <2>. QED
    BY <2>1 DEF Beat!BeatInv, Beat!BeatTypes, Beat!TypeOK
<1>2. ASSUME NEW m \in sentAt, window # <<>>
      PROVE  \E d \in 0..(((window[2] - window[1]) % Day) - 1) : (window[1] + d) % Day = m
  <2>1. window \in (0..(Day - 1)) \X (0..(Day - 1)) /\ Day \in Nat \ {0}
    BY <1>2, BeatAssumption DEF Beat!BeatInv, Beat!BeatTypes, BeatAssume
  <2>2. m \in 0..(Day - 1) /\ Beat!IsWithin(window, m)
    BY <1>2 DEF Beat!BeatInv, Beat!SentWithin
  <2>3. window[1] \in 0..(Day - 1) /\ window[2] \in 0..(Day - 1)
    BY <2>1
  <2>4. IF window[1] <= window[2] THEN m >= window[1] /\ m < window[2] ELSE m >= window[1] \/ m < window[2]
    BY <1>2, <2>2 DEF Beat!IsWithin
  <2>. QED
    BY <2>1, <2>2, <2>3, <2>4, WayRound
<1>. QED
  BY <1>1, <1>2 DEF Beat!SentInHours

(* Heartbeats go out in the active hours alone, and every tick is sent or    *)
(* skipped for one reason.                                                   *)
THEOREM BeatsInHours == Beat!Spec => [](Beat!TypeOK /\ Beat!SentInHours /\ Beat!TicksAccounted)
BY BeatInit, BeatKeeps, BeatFollows, PTL DEF Beat!Spec

-----------------------------------------------------------------------------
(* Slack: what the poller is past, and what the answer it works on holds.   *)

(* The next conversation is one of them.                                   *)
LEMMA NextConversation ==
  ASSUME NEW i \in Nat
  PROVE  /\ Slack!AfterConversation(i) \in [at : {"idle", "fetch"}, i : Nat, next : Nat \ {0}, last : Nat]
         /\ Slack!AfterConversation(i).at \in {"idle", "fetch"}
         /\ Slack!AfterConversation(i).at = "fetch" => Slack!AfterConversation(i).i \in DOMAIN Conversations
<1>1. Conversations \in Seq(STRING) /\ Len(Conversations) \in Nat /\ DOMAIN Conversations = 1..Len(Conversations)
  BY SlackAssumption DEF SlackAssume
<1>2. CASE i < Len(Conversations)
  BY <1>1, <1>2 DEF Slack!AfterConversation, Slack!Fetching
<1>3. CASE ~(i < Len(Conversations))
  BY <1>1, <1>3 DEF Slack!AfterConversation, Slack!Idle
<1>. QED
  BY <1>2, <1>3

LEMMA SlackInit == Slack!Init => Slack!SlackInv
<1>. SUFFICES ASSUME Slack!Init PROVE Slack!SlackInv
  OBVIOUS
<1>1. Slack!SlackTypes
  BY SlackAssumption DEF Slack!Init, Slack!SlackTypes, SlackAssume, Slack!Idle
<1>2. Slack!Ascending
  BY DEF Slack!Init, Slack!Ascending
<1>3. Slack!PastForwarded
  BY DEF Slack!Init, Slack!PastForwarded
<1>4. Slack!AnswerIsNew /\ Slack!ForwardedOnceInOrder
  BY DEF Slack!Init, Slack!AnswerIsNew, Slack!ForwardedOnceInOrder, Slack!Idle
<1>5. Slack!NonePassedOver
  BY DEF Slack!Init, Slack!NonePassedOver
<1>. QED
  BY <1>1, <1>2, <1>3, <1>4, <1>5 DEF Slack!SlackInv

(* A message that is posted is newer than all there are.                   *)
LEMMA PostKeeps ==
  ASSUME Slack!SlackInv, NEW c \in Slack!Channels, NEW k \in Slack!Kinds, Slack!Post(c, k)
  PROVE  Slack!SlackInv'
<1>1. /\ Slack!SlackTypes /\ Slack!Ascending /\ Slack!PastForwarded /\ Slack!AnswerIsNew
      /\ Slack!ForwardedOnceInOrder /\ Slack!NonePassedOver
  BY DEF Slack!SlackInv
<1>. DEFINE m == [ts |-> slackNow + 1, kind |-> k]
<1>2. /\ slackNow < MaxPosts /\ slackNow' = slackNow + 1 /\ slackNow \in Nat
      /\ posts' = [posts EXCEPT ![c] = Append(posts[c], m)]
      /\ UNCHANGED <<latestTs, poller, inbound, overflow, rounds>>
  BY <1>1, SlackAssumption DEF Slack!Post, Slack!SlackTypes, SlackAssume
<1>3. m \in Slack!Message /\ m.ts = slackNow + 1
  BY <1>2 DEF Slack!Message
<1>. HIDE DEF m
<1>4. /\ posts' \in [Slack!Channels -> Seq(Slack!Message)]
      /\ \A d \in Slack!Channels : d # c => posts'[d] = posts[d]
      /\ posts'[c] = Append(posts[c], m) /\ posts[c] \in Seq(Slack!Message)
  BY <1>1, <1>2, <1>3 DEF Slack!SlackTypes
<1>5. /\ Len(posts'[c]) = Len(posts[c]) + 1 /\ Len(posts[c]) \in Nat
      /\ posts'[c][Len(posts[c]) + 1] = m
      /\ \A i \in 1..Len(posts[c]) : posts'[c][i] = posts[c][i]
      /\ DOMAIN posts'[c] = 1..(Len(posts[c]) + 1) /\ DOMAIN posts[c] = 1..Len(posts[c])
  BY <1>3, <1>4
<1>6. Slack!SlackTypes'
  BY <1>1, <1>2, <1>4, SlackAssumption DEF Slack!SlackTypes, SlackAssume
<1>7. Slack!Ascending'
  <2>. SUFFICES ASSUME NEW d \in Slack!Channels, NEW i \in DOMAIN posts'[d]
                PROVE  /\ posts'[d][i].ts \in 1..slackNow'
                       /\ \A l \in DOMAIN posts'[d] : i < l => posts'[d][i].ts < posts'[d][l].ts
    BY DEF Slack!Ascending
  <2>1. CASE d # c
    BY <2>1, <1>1, <1>2, <1>4 DEF Slack!Ascending
  <2>2. CASE d = c /\ i = Len(posts[c]) + 1
    BY <2>2, <1>2, <1>3, <1>5
  <2>3. CASE d = c /\ i \in 1..Len(posts[c])
    <3>1. posts[c][i].ts \in 1..slackNow /\ \A l \in 1..Len(posts[c]) : i < l => posts[c][i].ts < posts[c][l].ts
      BY <2>3, <1>1, <1>5 DEF Slack!Ascending
    <3>2. ASSUME NEW l \in DOMAIN posts'[c], i < l PROVE posts'[c][i].ts < posts'[c][l].ts
      <4>1. CASE l = Len(posts[c]) + 1
        BY <4>1, <3>1, <2>3, <1>2, <1>3, <1>5
      <4>2. CASE l \in 1..Len(posts[c])
        BY <4>2, <3>1, <3>2, <2>3, <1>5
      <4>. QED
        BY <4>1, <4>2, <1>5
    <3>. QED
      BY <3>1, <3>2, <2>3, <1>2, <1>5
  <2>. QED
    BY <2>1, <2>2, <2>3, <1>5
<1>8. Slack!PastForwarded'
  BY <1>1, <1>2 DEF Slack!PastForwarded
<1>9. Slack!AnswerIsNew'
  <2>. SUFFICES ASSUME poller.at = "work", NEW d, d = Conversations[poller.i]
                PROVE  /\ poller.next <= poller.last + 1 /\ poller.last <= Len(posts'[d])
                       /\ \A j \in poller.next..poller.last : posts'[d][j].ts > latestTs[d]
                       /\ d \notin overflow => \A j \in 1..(poller.next - 1) : posts'[d][j].ts <= latestTs[d]
    BY <1>2 DEF Slack!AnswerIsNew
  <2>1. /\ poller.next <= poller.last + 1 /\ poller.last <= Len(posts[d])
        /\ \A j \in poller.next..poller.last : posts[d][j].ts > latestTs[d]
        /\ d \notin overflow => \A j \in 1..(poller.next - 1) : posts[d][j].ts <= latestTs[d]
    BY <1>1 DEF Slack!AnswerIsNew
  <2>2. CASE d # c
    <3>1. d \in Slack!Channels
      BY <1>1 DEF Slack!SlackTypes, Slack!Channels
    <3>. QED
      BY <2>1, <2>2, <3>1, <1>4
  <2>3. CASE d = c
    <3>1. poller.next \in Nat \ {0} /\ poller.last \in Nat 
      BY <1>1 DEF Slack!SlackTypes
    <3>2. \A j \in poller.next..poller.last : j \in 1..Len(posts[c])
      BY <2>1, <2>3, <3>1, <1>5
    <3>3. \A j \in 1..(poller.next - 1) : j \in 1..Len(posts[c])
      BY <2>1, <2>3, <3>1, <1>5
    <3>4. poller.last <= Len(posts'[c])
      BY <2>1, <2>3, <3>1, <1>5
    <3>. QED
      BY <2>1, <2>3, <3>2, <3>3, <3>4, <1>5
  <2>. QED
    BY <2>2, <2>3
<1>10. Slack!ForwardedOnceInOrder'
  BY <1>1, <1>2 DEF Slack!ForwardedOnceInOrder
<1>11. Slack!NonePassedOver'
  <2>. SUFFICES ASSUME NEW d \in Slack!Channels \ overflow, NEW i \in DOMAIN posts'[d],
                       posts'[d][i].kind = "forward", posts'[d][i].ts <= latestTs[d]
                PROVE  <<d, posts'[d][i].ts>> \in Slack!Forwarded
    BY <1>2 DEF Slack!NonePassedOver, Slack!Forwarded
  <2>1. CASE d # c
    BY <2>1, <1>1, <1>4 DEF Slack!NonePassedOver
  <2>2. CASE d = c /\ i = Len(posts[c]) + 1
    BY <2>2, <1>1, <1>2, <1>3, <1>5 DEF Slack!PastForwarded
  <2>3. CASE d = c /\ i \in 1..Len(posts[c])
    BY <2>3, <1>1, <1>5 DEF Slack!NonePassedOver
  <2>. QED
    BY <2>1, <2>2, <2>3, <1>5
<1>. QED
  BY <1>6, <1>7, <1>8, <1>9, <1>10, <1>11 DEF Slack!SlackInv

(* Steps that leave the messages alone keep what is said of them alone.    *)
LEMMA OthersKeep ==
  ASSUME Slack!SlackInv, UNCHANGED <<posts, slackNow, latestTs, inbound>>, Slack!SlackTypes', Slack!AnswerIsNew',
         overflow \subseteq overflow'
  PROVE  Slack!SlackInv'
<1>1. Slack!Ascending' /\ Slack!PastForwarded' /\ Slack!ForwardedOnceInOrder'
  BY DEF Slack!SlackInv, Slack!Ascending, Slack!PastForwarded, Slack!ForwardedOnceInOrder
<1>2. Slack!NonePassedOver'
  BY DEF Slack!SlackInv, Slack!NonePassedOver, Slack!Forwarded
<1>. QED
  BY <1>1, <1>2 DEF Slack!SlackInv

LEMMA MoveKeeps ==
  ASSUME Slack!SlackInv, UNCHANGED <<posts, slackNow, latestTs, inbound, overflow>>, rounds' \in 0..MaxRounds,
         NEW i \in Nat, poller' = Slack!AfterConversation(i)
  PROVE  Slack!SlackInv'
<1>1. Slack!SlackTypes'
  <2>. DEFINE a == Slack!AfterConversation(i)
  <2>1. a \in [at : {"idle", "fetch"}, i : Nat, next : Nat \ {0}, last : Nat] /\ a.at \in {"idle", "fetch"}
        /\ (a.at = "fetch" => a.i \in DOMAIN Conversations) /\ poller' = a
    BY NextConversation
  <2>. HIDE DEF a
  <2>. QED
    BY <2>1 DEF Slack!SlackInv, Slack!SlackTypes
<1>2. Slack!AnswerIsNew'
  BY NextConversation DEF Slack!AnswerIsNew
<1>. QED
  BY <1>1, <1>2, OthersKeep

LEMMA StopKeeps ==
  ASSUME Slack!SlackInv, Slack!Stop
  PROVE  Slack!SlackInv'
<1>1. Slack!SlackTypes'
  BY DEF Slack!SlackInv, Slack!SlackTypes, Slack!Stop
<1>2. Slack!AnswerIsNew'
  BY DEF Slack!SlackInv, Slack!SlackTypes, Slack!AnswerIsNew, Slack!Stop
<1>. QED
  BY <1>1, <1>2, OthersKeep DEF Slack!Stop

(* An answer has what is newer than what the poller is past, or a part.    *)
LEMMA FetchKeeps ==
  ASSUME Slack!SlackInv, Slack!FetchHistory
  PROVE  Slack!SlackInv'
<1>. PICK c : c = Conversations[poller.i]
  OBVIOUS
<1>1. Slack!SlackTypes
  BY DEF Slack!SlackInv
<1>2. /\ poller.at = "fetch" /\ c \in Slack!Channels /\ poller.i \in DOMAIN Conversations
      /\ poller.i \in Nat
      /\ UNCHANGED <<posts, slackNow, latestTs, inbound, rounds>>
  BY <1>1 DEF Slack!FetchHistory, Slack!SlackTypes, Slack!Channels
<1>3. CASE poller' = Slack!AfterConversation(poller.i) /\ UNCHANGED overflow
  BY <1>1, <1>2, <1>3, MoveKeeps DEF Slack!SlackTypes
<1>4. ASSUME NEW seen \in 0..Len(posts[c]), Slack!AllSeen(c, seen),
             poller' = [at |-> "work", i |-> poller.i,
                        next |-> Slack!Larger(seen, Len(posts[c]) - Page) + 1, last |-> Len(posts[c])],
             overflow' = IF Len(posts[c]) - seen > Page THEN overflow \union {c} ELSE overflow
      PROVE  Slack!SlackInv'
  <2>1. posts[c] \in Seq(Slack!Message) /\ Len(posts[c]) \in Nat /\ DOMAIN posts[c] = 1..Len(posts[c]) /\ Page \in Nat
    BY <1>1, <1>2, SlackAssumption DEF Slack!SlackTypes, SlackAssume
  <2>. DEFINE n == Slack!Larger(seen, Len(posts[c]) - Page)
  <2>2. n \in Nat /\ n >= seen /\ n <= Len(posts[c]) /\ (Len(posts[c]) - seen <= Page => n = seen)
    BY <2>1 DEF Slack!Larger
  <2>. HIDE DEF n
  <2>3. poller' = [at |-> "work", i |-> poller.i, next |-> n + 1, last |-> Len(posts[c])]
    BY <1>4 DEF n
  <2>4. overflow \subseteq overflow' /\ overflow' \subseteq Slack!Channels
    BY <1>1, <1>2, <1>4 DEF Slack!SlackTypes
  <2>5. Slack!SlackTypes'
    BY <1>1, <1>2, <2>1, <2>2, <2>3, <2>4 DEF Slack!SlackTypes
  <2>6. \A k \in 1..Len(posts[c]) : (posts[c][k].ts > latestTs[c]) <=> (k > seen)
    BY <1>4, <2>1 DEF Slack!AllSeen, Slack!IsNew, Slack!Oldest
  <2>7. \A k \in 1..Len(posts[c]) : posts[c][k].ts \in Nat
    <3>1. Slack!Ascending /\ slackNow \in Nat
      BY <1>1, SlackAssumption DEF Slack!SlackInv, Slack!SlackTypes, SlackAssume
    <3>2. \A k \in 1..Len(posts[c]) : posts[c][k].ts \in 1..slackNow
      BY <3>1, <1>2, <2>1 DEF Slack!Ascending
    <3>. QED
      BY <3>1, <3>2
  <2>8. latestTs[c] \in Nat
    BY <1>1, <1>2 DEF Slack!SlackTypes
  <2>9. Slack!AnswerIsNew'
    <3>1. poller'.at = "work" /\ poller'.i = poller.i /\ poller'.next = n + 1 /\ poller'.last = Len(posts[c])
      BY <2>3
    <3>2. c \notin overflow' => n = seen
      BY <1>4, <2>1, <2>2
    <3>3. /\ n + 1 <= Len(posts[c]) + 1
          /\ \A k \in (n + 1)..Len(posts[c]) : posts[c][k].ts > latestTs[c]
      BY <2>1, <2>2, <2>6
    <3>4. c \notin overflow' => \A k \in 1..((n + 1) - 1) : posts[c][k].ts <= latestTs[c]
      BY <2>1, <2>2, <2>6, <2>7, <2>8, <3>2
    <3>. QED
      BY <1>2, <2>1, <3>1, <3>3, <3>4 DEF Slack!AnswerIsNew
  <2>. QED
    BY <1>2, <2>4, <2>5, <2>9, OthersKeep
<1>. QED
  BY <1>3, <1>4 DEF Slack!FetchHistory

(* The message is newer than all that was done before it.                  *)
LEMMA WorkKeeps ==
  ASSUME Slack!SlackInv, Slack!Work
  PROVE  Slack!SlackInv'
<1>. PICK c : c = Conversations[poller.i]
  OBVIOUS
<1>. PICK n : n = poller.next
  OBVIOUS
<1>. PICK t : t = posts[c][n].ts
  OBVIOUS
<1>1. /\ Slack!SlackTypes /\ Slack!Ascending /\ Slack!PastForwarded /\ Slack!AnswerIsNew
      /\ Slack!ForwardedOnceInOrder /\ Slack!NonePassedOver
  BY DEF Slack!SlackInv
<1>2. /\ poller.at = "work" /\ n <= poller.last
      /\ inbound' = (IF posts[c][n].kind = "forward" THEN Append(inbound, <<c, t>>) ELSE inbound)
      /\ latestTs' = [latestTs EXCEPT ![c] = Slack!Larger(@, t)]
      /\ poller' = [poller EXCEPT !.next = n + 1]
      /\ UNCHANGED <<posts, slackNow, overflow, rounds>>
  BY DEF Slack!Work, Slack!UpdateLatest
<1>3. c \in Slack!Channels /\ poller.i \in DOMAIN Conversations
  BY <1>1, <1>2 DEF Slack!SlackTypes, Slack!Channels
<1>4. n \in Nat \ {0} /\ poller.last \in Nat /\ slackNow \in Nat /\ latestTs[c] \in Nat
  BY <1>1, <1>3, SlackAssumption DEF Slack!SlackTypes, SlackAssume
<1>5. posts[c] \in Seq(Slack!Message) /\ DOMAIN posts[c] = 1..Len(posts[c]) /\ Len(posts[c]) \in Nat
  BY <1>1, <1>3 DEF Slack!SlackTypes
<1>6. /\ poller.last <= Len(posts[c])
      /\ \A k \in n..poller.last : posts[c][k].ts > latestTs[c]
      /\ c \notin overflow => \A k \in 1..(n - 1) : posts[c][k].ts <= latestTs[c]
  BY <1>1, <1>2 DEF Slack!AnswerIsNew
<1>7. n \in DOMAIN posts[c] /\ t \in 1..slackNow /\ t > latestTs[c]
      /\ \A l \in DOMAIN posts[c] : n < l => t < posts[c][l].ts
  <2>1. n \in 1..Len(posts[c]) /\ n \in n..poller.last
    BY <1>2, <1>4, <1>5, <1>6
  <2>2. t \in 1..slackNow /\ \A l \in DOMAIN posts[c] : n < l => t < posts[c][l].ts
    BY <2>1, <1>1, <1>3, <1>5 DEF Slack!Ascending
  <2>. QED
    BY <2>1, <2>2, <1>5, <1>6
<1>8. /\ latestTs'[c] = t /\ latestTs' \in [Slack!Channels -> Nat]
      /\ \A d \in Slack!Channels : d # c => latestTs'[d] = latestTs[d]
  BY <1>1, <1>2, <1>3, <1>4, <1>7 DEF Slack!SlackTypes, Slack!Larger
<1>9. /\ inbound' \in Seq(Slack!Channels \X Nat) /\ inbound \in Seq(Slack!Channels \X Nat)
      /\ poller' \in [at : {"idle", "fetch", "work", "stopped"}, i : Nat, next : Nat \ {0}, last : Nat]
      /\ poller'.at = "work" /\ poller'.i = poller.i /\ poller'.next = n + 1 /\ poller'.last = poller.last
  <2>1. <<c, t>> \in Slack!Channels \X Nat
    BY <1>3, <1>4, <1>7
  <2>2. inbound' \in Seq(Slack!Channels \X Nat) /\ inbound \in Seq(Slack!Channels \X Nat)
    BY <2>1, <1>1, <1>2 DEF Slack!SlackTypes
  <2>3. poller \in [at : {"idle", "fetch", "work", "stopped"}, i : Nat, next : Nat \ {0}, last : Nat]
        /\ n + 1 \in Nat \ {0}
    BY <1>1, <1>4 DEF Slack!SlackTypes
  <2>4. poller' = [at |-> poller.at, i |-> poller.i, next |-> n + 1, last |-> poller.last]
    BY <2>3, <1>2
  <2>. QED
    BY <2>2, <2>3, <2>4, <1>2
<1>10. Slack!SlackTypes'
  BY <1>1, <1>2, <1>3, <1>8, <1>9 DEF Slack!SlackTypes
<1>11. Slack!Ascending'
  BY <1>1, <1>2 DEF Slack!Ascending
<1>. DEFINE L == Len(inbound)
<1>12. L \in Nat /\ DOMAIN inbound = 1..L /\ \A i \in 1..L : inbound[i] \in Slack!Channels \X Nat
  BY <1>9
<1>. HIDE DEF L
<1>13. \A i \in DOMAIN inbound' : \/ i \in 1..L /\ inbound'[i] = inbound[i]
                                  \/ i = L + 1 /\ inbound'[i] = <<c, t>> /\ DOMAIN inbound' = 1..(L + 1)
  BY <1>2, <1>9, <1>12 DEF L
<1>14. \A i \in 1..L : /\ inbound[i][1] \in Slack!Channels /\ inbound[i][2] \in Nat
                       /\ inbound[i][2] <= latestTs[inbound[i][1]]
                       /\ inbound[i][2] <= latestTs'[inbound[i][1]]
  <2>. SUFFICES ASSUME NEW i \in 1..L
                PROVE  /\ inbound[i][1] \in Slack!Channels /\ inbound[i][2] \in Nat
                       /\ inbound[i][2] <= latestTs[inbound[i][1]]
                       /\ inbound[i][2] <= latestTs'[inbound[i][1]]
    OBVIOUS
  <2>1. inbound[i][1] \in Slack!Channels /\ inbound[i][2] \in Nat /\ inbound[i][2] <= latestTs[inbound[i][1]]
    BY <1>1, <1>12 DEF Slack!PastForwarded
  <2>. QED
    BY <2>1, <1>4, <1>7, <1>8
<1>15. Slack!PastForwarded'
  <2>1. \A d \in Slack!Channels : latestTs'[d] \in 0..slackNow
    BY <1>1, <1>4, <1>7, <1>8 DEF Slack!PastForwarded
  <2>2. ASSUME NEW i \in DOMAIN inbound' PROVE inbound'[i][2] <= latestTs'[inbound'[i][1]]
    BY <1>7, <1>8, <1>13, <1>14
  <2>. QED
    BY <2>1, <2>2, <1>2 DEF Slack!PastForwarded
<1>16. Slack!AnswerIsNew'
  <2>1. (n + 1) <= poller.last + 1 /\ \A k \in (n + 1)..poller.last : posts[c][k].ts > t
    <3>1. ASSUME NEW k \in (n + 1)..poller.last PROVE k \in DOMAIN posts[c] /\ n < k
      BY <1>4, <1>5, <1>6
    <3>2. ASSUME NEW k \in (n + 1)..poller.last PROVE t < posts[c][k].ts
      BY <3>1, <1>7
    <3>3. \A k \in (n + 1)..poller.last : posts[c][k].ts \in Nat
      BY <3>1, <1>1, <1>3, <1>4 DEF Slack!Ascending
    <3>. QED
      BY <3>2, <3>3, <1>2, <1>4, <1>7
  <2>2. ASSUME c \notin overflow, NEW k \in 1..((n + 1) - 1) PROVE posts[c][k].ts <= t
    <3>1. posts[c][k].ts <= t \/ k \in 1..(n - 1)
      BY <1>4, <1>7
    <3>2. k \in 1..(n - 1) => posts[c][k].ts <= latestTs[c] /\ posts[c][k].ts \in Nat
      <4>1. k \in 1..(n - 1) => k \in DOMAIN posts[c]
        BY <1>4, <1>5, <1>7
      <4>. QED
        BY <4>1, <2>2, <1>1, <1>3, <1>4, <1>6 DEF Slack!Ascending
    <3>. QED
      BY <3>1, <3>2, <1>4, <1>7
  <2>. QED
    BY <2>1, <2>2, <1>2, <1>6, <1>8, <1>9 DEF Slack!AnswerIsNew
<1>17. Slack!ForwardedOnceInOrder'
  <2>. SUFFICES ASSUME NEW i \in DOMAIN inbound', NEW j \in DOMAIN inbound', i < j, inbound'[i][1] = inbound'[j][1]
                PROVE  inbound'[i][2] < inbound'[j][2]
    BY DEF Slack!ForwardedOnceInOrder
  <2>1. i \in 1..L /\ inbound'[i] = inbound[i]
    BY <1>12, <1>13
  <2>2. CASE j \in 1..L /\ inbound'[j] = inbound[j]
    BY <2>1, <2>2, <1>1, <1>12 DEF Slack!ForwardedOnceInOrder
  <2>3. CASE j = L + 1 /\ inbound'[j] = <<c, t>>
    <3>1. inbound[i][1] = c
      BY <2>1, <2>3
    <3>. QED
      BY <2>1, <2>3, <3>1, <1>4, <1>7, <1>14
  <2>. QED
    BY <2>2, <2>3, <1>13
<1>18. Slack!NonePassedOver'
  <2>1. Slack!Forwarded \subseteq Slack!Forwarded' /\ (posts[c][n].kind = "forward" => <<c, t>> \in Slack!Forwarded')
    <3>1. CASE posts[c][n].kind = "forward"
      <4>1. inbound' = Append(inbound, <<c, t>>)
        BY <3>1, <1>2
      <4>2. DOMAIN inbound' = 1..(L + 1) /\ inbound'[L + 1] = <<c, t>> /\ \A i \in 1..L : inbound'[i] = inbound[i]
        BY <4>1, <1>9 DEF L
      <4>. QED
        BY <4>2, <1>12 DEF Slack!Forwarded
    <3>2. CASE posts[c][n].kind # "forward"
      BY <3>2, <1>2 DEF Slack!Forwarded
    <3>. QED
      BY <3>1, <3>2
  <2>. SUFFICES ASSUME NEW d \in Slack!Channels \ overflow, NEW i \in DOMAIN posts[d],
                       posts[d][i].kind = "forward", posts[d][i].ts <= latestTs'[d]
                PROVE  <<d, posts[d][i].ts>> \in Slack!Forwarded'
    BY <1>2 DEF Slack!NonePassedOver
  <2>2. CASE d # c \/ posts[d][i].ts <= latestTs[d]
    BY <2>1, <2>2, <1>1, <1>8 DEF Slack!NonePassedOver
  <2>3. CASE d = c /\ i = n
    BY <2>1, <2>3
  <2>4. CASE d = c /\ i > n
    <3>1. t < posts[c][i].ts /\ posts[c][i].ts <= t /\ posts[c][i].ts \in 1..slackNow
      BY <2>4, <1>1, <1>3, <1>7, <1>8 DEF Slack!Ascending
    <3>. QED
      BY <3>1, <1>4, <1>7
  <2>5. CASE d = c /\ i < n
    <3>1. i \in 1..(n - 1)
      BY <2>5, <1>4, <1>5
    <3>2. posts[d][i].ts <= latestTs[d]
      BY <2>5, <3>1, <1>6
    <3>. QED
      BY <3>2, <2>2
  <2>. QED
    BY <2>2, <2>3, <2>4, <2>5, <1>4, <1>5
<1>. QED
  BY <1>10, <1>11, <1>15, <1>16, <1>17, <1>18 DEF Slack!SlackInv

LEMMA SlackKeeps == Slack!SlackInv /\ [Slack!Next]_Slack!slackVars => Slack!SlackInv'
<1>. SUFFICES ASSUME Slack!SlackInv, [Slack!Next]_Slack!slackVars PROVE Slack!SlackInv'
  OBVIOUS
<1>1. CASE UNCHANGED Slack!slackVars
  <2>1. Slack!SlackTypes' /\ Slack!AnswerIsNew' /\ UNCHANGED <<posts, slackNow, latestTs, inbound, overflow>>
    BY <1>1 DEF Slack!slackVars, Slack!SlackInv, Slack!SlackTypes, Slack!AnswerIsNew
  <2>. QED
    BY <2>1, OthersKeep
<1>2. ASSUME NEW c \in Slack!Channels, NEW k \in Slack!Kinds, Slack!Post(c, k) PROVE Slack!SlackInv'
  BY <1>2, PostKeeps
<1>3. CASE Slack!StartRound
  <2>1. rounds' \in 0..MaxRounds
    BY <1>3, SlackAssumption DEF Slack!StartRound, Slack!SlackInv, Slack!SlackTypes, SlackAssume
  <2>. QED
    BY <1>3, <2>1, MoveKeeps DEF Slack!StartRound
<1>4. CASE Slack!EndBatch
  BY <1>4, MoveKeeps DEF Slack!EndBatch, Slack!SlackInv, Slack!SlackTypes
<1>. QED
  BY <1>1, <1>2, <1>3, <1>4, FetchKeeps, WorkKeeps, StopKeeps DEF Slack!Next

LEMMA SlackFollows == Slack!SlackInv => Slack!TypeOK /\ Slack!ForwardedOnceInOrder /\ Slack!NonePassedOver
BY DEF Slack!SlackInv, Slack!SlackTypes, Slack!PastForwarded, Slack!TypeOK

(* Each message is forwarded once, in order, and none is passed over that an *)
(* answer could hold.                                                        *)
THEOREM SlackDelivers == Slack!Spec => [](Slack!TypeOK /\ Slack!ForwardedOnceInOrder /\ Slack!NonePassedOver)
BY SlackInit, SlackKeeps, SlackFollows, PTL DEF Slack!Spec

-----------------------------------------------------------------------------
(* Whatever tasks interleave between the two locks of the session manager    *)
(* and whatever callbacks race, the gateway keeps what GatewayKeeps says.    *)
THEOREM GatewayIsKept == Sess!Spec /\ Ident!Spec /\ Allow!Spec => []GatewayKeeps
<1>1. Sess!Spec => []Sess!SessionsInv
  BY SessionsInvariant, SessAssumption
<1>2. Sess!SessionsInv => Sess!TypeOK /\ Sess!SessionsBounded /\ Sess!EverySessionListed
  BY SessionsFollow, SessAssumption
<1>. QED
  BY <1>1, <1>2, LoginsAreOwn, OwnerStays, PTL DEF GatewayKeeps

(* Whatever handlers of workers and terminal overlap, the credentials keep   *)
(* what CredentialsSafe says.                                                *)
THEOREM CredentialsAreSafe == Cred!Spec => []CredentialsSafe
<1>1. Cred!Spec => []Cred!CredentialsInv
  BY CredentialsInvariant, CredAssumption
<1>2. Cred!CredentialsInv => CredentialsSafe
  BY CredentialsFollow, CredAssumption DEF CredentialsSafe
<1>. QED
  BY <1>1, <1>2, PTL

(* No tenant gets more calls on a day than its limit, but for the series     *)
(* that calls crossing midnight let through.                                 *)
THEOREM TenantsStayWithinLimit == Ten!Spec => [](Ten!TypeOK /\ Ten!DailyLimitKept)
<1>1. Ten!Spec => []Ten!TenantInv
  BY TenantInvariant, TenAssumption
<1>2. Ten!TenantInv => Ten!TypeOK /\ Ten!DailyLimitKept
  BY TenantsFollow, TenAssumption DEF Ten!TenantInv, Ten!TenantTypes, Ten!TypeOK
<1>. QED
  BY <1>1, <1>2, PTL

(* Whatever calls to the Docker daemon fail in the middle, whatever is       *)
(* destroyed or scaled at the same time: no container is forgotten, and the  *)
(* cap is passed by one container per further caller at most.                *)
THEOREM ContainersAreKept ==
  Orch!Spec => [](Orch!TypeOK /\ Orch!InstancesBounded /\ Orch!NoContainerLost /\ Orch!PrimarySpared)
BY DockerInit, DockerKeeps, DockerImplies, PTL DEF Orch!Spec

(* The limits that callers share hold for any number of callers, instances,  *)
(* tenants and launches.                                                     *)
THEOREM LimitsAreKept == Orch!Spec /\ Ten!Spec /\ Chrome!Spec /\ Rot!Spec => []LimitsKept
<1>1. Chrome!Spec => [](Chrome!TypeOK /\ Chrome!OneBrowser /\ Chrome!SlotsAgree)
  BY OneBrowserForAll, BrowserAssumption
<1>. QED
  BY <1>1, ContainersAreKept, TenantsStayWithinLimit, RotationWorks, PTL DEF LimitsKept

(* The channels keep their promise for any conversations, page size, active  *)
(* hours and failures of requests.                                           *)
THEOREM MessagesAreDelivered == Slack!Spec /\ Beat!Spec => []ChannelsDeliver
BY SlackDelivers, BeatsInHours, PTL DEF ChannelsDeliver

(* The vault keeps its secrets through restarts and overlapping flushes.     *)
THEOREM SecretsAreKept == Vlt!Spec => []SecretsKept
<1>1. Vlt!Spec => [](Vlt!TypeOK /\ Vlt!SecretsReadable)
  BY SecretsStayReadable, VaultAssumption
<1>2. Vlt!Spec => []Vlt!VaultFileCurrent
  BY FileIsCurrent, VaultAssumption
<1>. QED
  BY <1>1, <1>2, PTL DEF SecretsKept

(* Neither watchdog nor tenant manager acts against a caller before time.    *)
THEOREM StepsAreDue == Chrome!Spec /\ Ten!Spec => ActsOnlyWhenDue
<1>1. Chrome!Spec => Chrome!IdleBrowserOnly
  BY ClosedOnlyWhenIdle, BrowserAssumption
<1>2. Ten!Spec => Ten!RefusedOnlyWhenUsedUp
  BY RefusalsEarned, TenAssumption
<1>. QED
  BY <1>1, <1>2 DEF ActsOnlyWhenDue
=============================================================================
