------------------------------ MODULE Identity ------------------------------
(***************************************************************************)
(* OAuthIdentityManager of the gateway (identity.rs): users, pending OAuth *)
(* flows and stored tokens, each map behind its lock.  A flow is removed   *)
(* by the callback that names it, then exchanged over HTTP with no lock    *)
(* held; a refresh reads the token, asks the provider and stores the       *)
(* answer.  Callbacks come twice, late, or from somebody else's browser.   *)
(***************************************************************************)
EXTENDS Integers, Sequences, FiniteSets

CONSTANTS Users, Providers, Channels,
          Callers,    \* requests in flight at a time
          MaxFlows    \* bound on flows started

VARIABLES users,      \* user |-> its channel, "none" before register_user
          oauth,      \* user, provider |-> stored token
          flows,      \* every flow started: [user, provider, stage]
          request,    \* caller |-> the request it is in
          exchanged   \* flows sent to a token endpoint, in order (history)

identityVars == <<users, oauth, flows, request, exchanged>>

NoOauth == [flow |-> 0, refresh |-> 0]
Free == [op |-> "none"]

Init == /\ users = [u \in Users |-> "none"]
        /\ oauth = [x \in Users \X Providers |-> NoOauth]
        /\ flows = <<>>
        /\ request = [c \in Callers |-> Free]
        /\ exchanged = <<>>

RegisterUser(u, ch) == /\ users[u] = "none"
                       /\ users' = [users EXCEPT ![u] = ch]
                       /\ UNCHANGED <<oauth, flows, request, exchanged>>

(* authenticate: unknown users need a setup, a foreign channel is refused. *)
Authenticate(u, ch) == IF users[u] = "none" THEN "needs_setup"
                       ELSE IF users[u] = ch THEN "allowed" ELSE "denied"

(* start_oauth_flow; the index of a flow is its state parameter. *)
StartFlow(u, p) == /\ Len(flows) < MaxFlows
                   /\ flows' = Append(flows, [user |-> u, provider |-> p, stage |-> "pending"])
                   /\ UNCHANGED <<users, oauth, request, exchanged>>

(* Ten minutes pass. *)
ExpireFlow(s) == /\ flows[s].stage = "pending"
                 /\ flows' = [flows EXCEPT ![s].stage = "stale"]
                 /\ UNCHANGED <<users, oauth, request, exchanged>>

(* The callback removes the flow it names, expired or not. *)
TakeFlow(s) == flows' = [flows EXCEPT ![s].stage = "taken"]

(* complete_oauth_flow up to the request to the token endpoint. *)
Callback(c, s) ==
  /\ request[c] = Free /\ flows[s].stage \in {"pending", "stale"}
  /\ TakeFlow(s)
  /\ IF flows[s].stage = "stale" THEN UNCHANGED <<request, exchanged>>
     ELSE /\ request' = [request EXCEPT ![c] = [op |-> "exchange", flow |-> s]]
          /\ exchanged' = Append(exchanged, s)
  /\ UNCHANGED <<users, oauth>>

(* The user the flow was started for. *)
Owner(s) == flows[s].user

(* The answer is stored on the flow's user, if that user is registered. *)
Exchanged(c, refreshable) ==
  LET s == request[c].flow
      u == Owner(s)
  IN /\ request[c].op = "exchange"
     /\ oauth' = IF users[u] = "none" THEN oauth
                 ELSE [oauth EXCEPT ![<<u, flows[s].provider>>] =
                         [flow |-> s, refresh |-> IF refreshable THEN s ELSE 0]]
     /\ request' = [request EXCEPT ![c] = Free]
     /\ UNCHANGED <<users, flows, exchanged>>

(* refresh_token reads the stored refresh token under the lock. *)
Refresh(c, u, p) ==
  /\ request[c] = Free /\ users[u] # "none" /\ oauth[<<u, p>>].refresh # 0
  /\ request' = [request EXCEPT ![c] = [op |-> "refresh", user |-> u, provider |-> p,
                                        with |-> oauth[<<u, p>>].refresh]]
  /\ UNCHANGED <<users, oauth, flows, exchanged>>

(* The answer replaces the token; without a new refresh token the old one  *)
(* stays, also when a newer login has been stored meanwhile.               *)
Refreshed(c) ==
  LET r == request[c]
  IN /\ r.op = "refresh"
     /\ oauth' = [oauth EXCEPT ![<<r.user, r.provider>>] = [flow |-> r.with, refresh |-> r.with]]
     /\ request' = [request EXCEPT ![c] = Free]
     /\ UNCHANGED <<users, flows, exchanged>>

(* The endpoint cannot be reached, refuses, or answers nonsense. *)
HttpError(c) == /\ request[c] # Free
                /\ request' = [request EXCEPT ![c] = Free]
                /\ UNCHANGED <<users, oauth, flows, exchanged>>

Next == \/ \E u \in Users, ch \in Channels : RegisterUser(u, ch)
        \/ \E u \in Users, p \in Providers : StartFlow(u, p)
        \/ \E s \in DOMAIN flows : ExpireFlow(s)
        \/ \E c \in Callers :
             \/ \E s \in DOMAIN flows : Callback(c, s)
             \/ \E b \in BOOLEAN : Exchanged(c, b)
             \/ \E u \in Users, p \in Providers : Refresh(c, u, p)
             \/ Refreshed(c) \/ HttpError(c)

Spec == Init /\ [][Next]_identityVars

-----------------------------------------------------------------------------
TypeOK == /\ users \in [Users -> Channels \union {"none"}]
          /\ \A x \in DOMAIN oauth : oauth[x].flow \in 0..Len(flows)

(* Two callbacks with one state parameter, however they race, lead to one  *)
(* exchange: the code of a login is sent once.                             *)
OneExchange == \A i, j \in DOMAIN exchanged : exchanged[i] = exchanged[j] => i = j

(* A stored token stems from a login its own user started with that        *)
(* provider and whose callback came before the flow expired.               *)
TokenOfOwnLogin ==
  \A u \in Users, p \in Providers :
    LET s == oauth[<<u, p>>].flow
    IN s # 0 => /\ flows[s].user = u /\ flows[s].provider = p
                /\ s \in {exchanged[i] : i \in DOMAIN exchanged}
                /\ Authenticate(u, users[u]) = "allowed"

-----------------------------------------------------------------------------
Flow == [user : Users, provider : Providers, stage : {"pending", "stale", "taken"}]
Requests == {Free} \union [op : {"exchange"}, flow : Nat]
              \union [op : {"refresh"}, user : Users, provider : Providers, with : Nat]
IdentityTypes ==
  /\ users \in [Users -> Channels \union {"none"}]
  /\ oauth \in [Users \X Providers -> [flow : Nat, refresh : Nat]]
  /\ flows \in Seq(Flow)
  /\ request \in [Callers -> Requests]
  /\ exchanged \in Seq(Nat)

(* Login s was started by user u with provider p, and its code was sent.   *)
Sent(s) == \E i \in DOMAIN exchanged : exchanged[i] = s
OwnLogin(u, p, s) == /\ s \in DOMAIN flows /\ flows[s].user = u /\ flows[s].provider = p
                     /\ Sent(s) /\ users[u] # "none"

(* What was exchanged was taken from the map, once.                        *)
TakenOnce ==
  /\ \A i \in DOMAIN exchanged : exchanged[i] \in DOMAIN flows /\ flows[exchanged[i]].stage = "taken"
  /\ OneExchange

(* Every token, stored or on its way, is one of its user's own login.      *)
Genuine ==
  /\ \A u \in Users, p \in Providers :
       /\ oauth[<<u, p>>].flow # 0 => OwnLogin(u, p, oauth[<<u, p>>].flow)
       /\ oauth[<<u, p>>].refresh # 0 => OwnLogin(u, p, oauth[<<u, p>>].refresh)
  /\ \A c \in Callers :
       /\ request[c].op = "exchange" => Sent(request[c].flow)
       /\ request[c].op = "refresh" => OwnLogin(request[c].user, request[c].provider, request[c].with)

IdentityInv == IdentityTypes /\ TakenOnce /\ Genuine
=============================================================================
