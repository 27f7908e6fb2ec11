------------------------------- MODULE Tenants -------------------------------
(***************************************************************************)
(* TenantManager (skyclaw-core, tenant_impl.rs): which tenant a user       *)
(* belongs to and the daily limit of API calls.  The day is read before    *)
(* the lock on the counters is taken, so a call may count for yesterday.   *)
(***************************************************************************)
EXTENDS Integers, Sequences, FiniteSets

CONSTANTS Tenant,      \* the tenants in the order of the map: [id, users, limit]
          Default,     \* default_tenant
          Users,       \* <<channel, user>> pairs
          Callers, MaxDay, MaxCalls

VARIABLES day,         \* the wall clock's day
          rate,        \* tenant |-> [count, day], for tenants seen
          caller,      \* caller |-> the call it is in
          granted,     \* <<tenant, day>> of every call let through (history)
          crossed      \* calls that took the lock on a later day (history)

tenantVars == <<day, rate, caller, granted, crossed>>

(* resolve_tenant: the first tenant that lists the user, or the default. *)
Resolve(u) == LET hits == {i \in DOMAIN Tenant : u \in Tenant[i].users}
              IN IF hits = {} THEN Default
                 ELSE Tenant[CHOOSE i \in hits : \A j \in hits : i <= j].id

(* daily_limit: tenants without a configuration have none. *)
DailyLimit(t) == IF \E i \in DOMAIN Tenant : Tenant[i].id = t
                 THEN Tenant[CHOOSE i \in DOMAIN Tenant : Tenant[i].id = t].limit
                 ELSE MaxCalls + Cardinality(Callers)

Waiting == [tenant |-> "none", today |-> 0]

Init == /\ day = 1 /\ rate = <<>> /\ granted = <<>> /\ crossed = 0
        /\ caller = [c \in Callers |-> Waiting]

Midnight == /\ day < MaxDay /\ day' = day + 1
            /\ UNCHANGED <<rate, caller, granted, crossed>>

(* check_rate_limit reads the limit and the day. *)
Call(c, u) == /\ caller[c] = Waiting /\ Len(granted) < MaxCalls
              /\ caller' = [caller EXCEPT ![c] = [tenant |-> Resolve(u), today |-> day]]
              /\ UNCHANGED <<day, rate, granted, crossed>>

(* The counter starts again when its day is not the caller's. *)
Rolled(s, today) == IF s.day # today THEN [count |-> 0, day |-> today] ELSE s

Within(s, t) == s.count < DailyLimit(t)

(* The rest, under the write lock; a new counter starts with today's date. *)
Count(c) ==
  LET t == caller[c].tenant
      old == IF t \in DOMAIN rate THEN rate[t] ELSE [count |-> 0, day |-> day]
      s == Rolled(old, caller[c].today)
      ok == Within(s, t)
      new == IF ok THEN [s EXCEPT !.count = @ + 1] ELSE s
  IN /\ caller[c] # Waiting
     /\ rate' = [x \in DOMAIN rate \union {t} |-> IF x = t THEN new ELSE rate[x]]
     /\ granted' = IF ok THEN Append(granted, <<t, caller[c].today>>) ELSE granted
     /\ crossed' = IF caller[c].today # day THEN crossed + 1 ELSE crossed
     /\ caller' = [caller EXCEPT ![c] = Waiting]
     /\ UNCHANGED day

Next == \/ Midnight
        \/ \E c \in Callers : Count(c) \/ \E u \in Users : Call(c, u)

Spec == Init /\ [][Next]_tenantVars

-----------------------------------------------------------------------------
Ids == {Tenant[i].id : i \in DOMAIN Tenant} \union {Default}

TypeOK == /\ day \in 1..MaxDay /\ crossed \in Nat
          /\ \A t \in DOMAIN rate : t \in Ids /\ rate[t] \in [count : Nat, day : 1..day]

Grants(t, d) == Cardinality({i \in DOMAIN granted : granted[i] = <<t, d>>})

(* No tenant gets more calls on a day than its limit, except that a call   *)
(* that crosses midnight on its way to the lock sets the counter back and  *)
(* so lets at most one more series of calls through.                       *)
DailyLimitKept == \A i \in DOMAIN Tenant, d \in 1..MaxDay :
                    Grants(Tenant[i].id, d) <= Tenant[i].limit * (1 + crossed)

(* A tenant that used up yesterday's calls has today's: a refusal means    *)
(* that the limit was used up on the caller's own day.                     *)
RefusedOnlyWhenUsedUp ==
  [][\A c \in Callers :
       (caller[c] # Waiting /\ caller'[c] = Waiting /\ granted' = granted) =>
         Grants(caller[c].tenant, caller[c].today) >= DailyLimit(caller[c].tenant)]_tenantVars
-----------------------------------------------------------------------------
(* What holds between any two steps.                                         *)
TenantTypes ==
  /\ day \in 1..MaxDay /\ crossed \in Nat
  /\ \A t \in DOMAIN rate : t \in Ids /\ rate[t] \in [count : Nat, day : 1..day]
  /\ caller \in [Callers -> [tenant : Ids, today : 1..day] \union {Waiting}]
  /\ granted \in Seq(Ids \X (1..day))

(* The counter of a tenant counts calls that were let through on its day,    *)
(* no more than the limit.                                                   *)
CountsGrants == \A t \in DOMAIN rate : /\ rate[t].count <= DailyLimit(t)
                                       /\ rate[t].count <= Grants(t, rate[t].day)

(* The counter a call of tenant t on day d finds under the lock.             *)
Counter(t, d) == Rolled(IF t \in DOMAIN rate THEN rate[t] ELSE [count |-> 0, day |-> day], d)

(* The calls let through that the counter of a tenant no longer counts: on   *)
(* the counter's day one limit for each call that came late, on the present  *)
(* day too, and one more limit on the days before.                           *)
Uncounted(t, d) ==
  IF t \notin DOMAIN rate THEN Grants(t, d) = 0
  ELSE IF rate[t].day = d THEN Grants(t, d) <= DailyLimit(t) * crossed + rate[t].count
  ELSE IF d = day THEN Grants(t, d) <= DailyLimit(t) * crossed
  ELSE Grants(t, d) <= DailyLimit(t) * crossed + DailyLimit(t)

TenantInv == /\ TenantTypes /\ CountsGrants
             /\ \A t \in Ids, d \in 1..day : Uncounted(t, d)
=============================================================================
