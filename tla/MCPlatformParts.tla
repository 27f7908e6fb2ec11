--------------------------- MODULE MCPlatformParts ----------------------------
(*****************************************************************************)
(* The parts of the platform around the agent: those of Platform and Stores, *)
(* with the constants the configuration gives them, and replies, requests    *)
(* and the rest, each one a small instance of its module.                    *)
(* They share no state, so a behaviour is about one of them: the component   *)
(* named by active moves, the others stay in their initial states.           *)
(*****************************************************************************)
EXTENDS Platform, Stores

VARIABLES
  active,      \* the component this behaviour is about
  text, rest, chunks, sent, attempt, phase, posted,
  dialect, block, said, asked, streamAnswer, wire, buffer, streamCalls, out, ended,
  messages, nextId,
  creds, message, reported, reply, censored, known,
  agents, turn, log, display, paidCalls, turns, choice, shown

(* Entries of a credentials file, pasted keys, the files at the start and    *)
(* the other constants of Platform.                                          *)
Entry(n, b, ks, m) == [name |-> n, base |-> b, keys |-> ks, model |-> m]
Paste(n, b, k) == [name |-> n, base |-> b, key |-> k]
TwoPastes == {Paste("p", "none", "k1"), Paste("q", "none", "bad")}
TwoProviders == [p |-> <<"pm", "pn">>, q |-> <<"qm">>]
StartFiles == {<<>>, [active |-> "p", providers |-> <<
                 Entry("p", "none", <<"k0">>, "pm"), Entry("p", "u", <<"k2">>, "pn"),
                 Entry("q", "none", <<"k3", "xx">>, "qm")>>]}
StartConfigs == {[name |-> "none"], [name |-> "q", key |-> "k4", model |-> "qm"]}
TwoTenants == <<[id |-> "a", users |-> {"u"}, limit |-> 1],
                [id |-> "b", users |-> {"u", "v"}, limit |-> 2]>>
OneSpelling == [n \in SessionNames |-> "a_b"]
WebFamily == [n \in InstanceNames |-> IF n = "web" THEN InstanceNames ELSE {n}]
NobodyYet == <<>>
ThreeKeys == <<"k1", "k2", "k3">>
TwoConversations == <<"c", "d">>
SomeWindows == {<<>>, <<2, 1>>, <<1, 2>>, <<1, 1>>}

Match(v, ps) == [value |-> v, patterns |-> ps]
Findings == {Match("x", {"openai", "env"}), Match("x", {"anthropic", "openai"}),
             Match("y", {"token", "env"}), Match("y", {"env"}), Match("z", {})}
SavedKeys == {<<<<"a", "b">>, <<"a", "b", "a">>>>, <<<<"b">>, <<"b", "a">>, <<"a", "a">>>>}

Spellings == {<<>>, <<"a">>, <<"..", "a">>, <<"d", "b">>, <<"d">>}
TwoScopes == <<"global", "user">>
ModelNames == {{"gpt-4", "gpt-4o", "gpt-4o-mini"}, {"grok", "grok-4", "grok-4-1", "fast"}}

Rep == INSTANCE Replies WITH
    MaxLen <- 4, Attempts <- 2, MaxText <- 6
Stream == INSTANCE ProviderStream WITH
    MaxText <- 1, MaxCalls <- 2, MaxParts <- 2, answer <- streamAnswer,
    calls <- streamCalls
Body == INSTANCE RequestBody WITH
    MaxMessages <- 4, MaxParts <- 2
Filter == INSTANCE SecretFilter WITH
    Symbols <- {"a", "b", "c"}, KeySets <- SavedKeys, MinKey <- 2,
    MaxReply <- 5, Found <- Findings, MaxFound <- 3, sent <- censored
Use == INSTANCE Usage WITH
    Chats <- {"c", "d"}, Models <- ModelNames, Limit <- 15, Outputs <- {1},
    MaxAgents <- 2, MaxTurns <- 2, MaxCalls <- 3, calls <- paidCalls
SessVars == <<sessions, accessOrder, at, clone, sessionTurns, removals>>
CredVars == <<keysFile, agent, handlerAt, token, links, begun, config, accepted, saved, opened, raced>>
IdentVars == <<users, oauth, flows, request, exchanged>>
OrchVars == <<containers, names, instances, job, jobs, leaked, scaledAway>>
TenVars == <<day, rate, tenantCaller, granted, crossed>>
BeatVars == <<minute, window, okFile, checklist, queue, open, running, metrics, sentAt>>
AllowVars == <<list, admin, allowFile, handler, lastSave, arrived, crashes>>
SlackVars == <<posts, slackNow, latestTs, poller, inbound, overflow, rounds>>
RepVars == <<text, rest, chunks, sent, attempt, phase, posted>>
StreamVars == <<dialect, block, said, asked, streamAnswer, wire, buffer, streamCalls, out, ended>>
RotVars == <<keyIndex, inFlight, alone, streak, called>>
BodyVars == <<messages, nextId>>
MemVars == <<backend, entries, tool, expected, spoiled, ops>>
VltVars == <<keyFile, file, cache, process, vaultTask, answer, vaultCalls, behind>>
FilterVars == <<creds, message, reported, reply, censored, known>>
LocalVars == <<files, dirs, client, calls, stored>>
BucketVars == <<bucket, s3Client, s3Calls>>
UseVars == <<agents, turn, log, display, paidCalls, turns, choice, shown>>
ChromeVars == <<browser, page, cdp, lastUsed, now, lock, alive, browserCaller, watchdog, cookies, cookieFiles, launched>>

Init == /\ active \in {"Sess", "Cred", "Ident", "Orch", "Ten", "Beat", "Allow", "Slack", "Rep", "Stream", "Rot", "Body", "Mem", "Vlt", "Filter", "Local", "Bucket", "Use", "Chrome"}
        /\ Sess!Init
        /\ Cred!Init
        /\ Ident!Init
        /\ Orch!Init
        /\ Ten!Init
        /\ Beat!Init
        /\ Allow!Init
        /\ Slack!Init
        /\ Rep!Init
        /\ Stream!Init
        /\ Rot!Init
        /\ Body!Init
        /\ Mem!Init
        /\ Vlt!Init
        /\ Filter!Init
        /\ Local!Init
        /\ Bucket!Init
        /\ Use!Init
        /\ Chrome!Init


SessStep == /\ active = "Sess" /\ Sess!Next
  /\ UNCHANGED <<active, CredVars, IdentVars, OrchVars, TenVars, BeatVars,
                AllowVars, SlackVars, RepVars, StreamVars, RotVars, BodyVars,
                MemVars, VltVars, FilterVars, LocalVars, BucketVars, UseVars,
                ChromeVars>>
CredStep == /\ active = "Cred" /\ Cred!Next
  /\ UNCHANGED <<active, SessVars, IdentVars, OrchVars, TenVars, BeatVars,
                AllowVars, SlackVars, RepVars, StreamVars, RotVars, BodyVars,
                MemVars, VltVars, FilterVars, LocalVars, BucketVars, UseVars,
                ChromeVars>>
IdentStep == /\ active = "Ident" /\ Ident!Next
  /\ UNCHANGED <<active, SessVars, CredVars, OrchVars, TenVars, BeatVars,
                AllowVars, SlackVars, RepVars, StreamVars, RotVars, BodyVars,
                MemVars, VltVars, FilterVars, LocalVars, BucketVars, UseVars,
                ChromeVars>>
OrchStep == /\ active = "Orch" /\ Orch!Next
  /\ UNCHANGED <<active, SessVars, CredVars, IdentVars, TenVars, BeatVars,
                AllowVars, SlackVars, RepVars, StreamVars, RotVars, BodyVars,
                MemVars, VltVars, FilterVars, LocalVars, BucketVars, UseVars,
                ChromeVars>>
TenStep == /\ active = "Ten" /\ Ten!Next
  /\ UNCHANGED <<active, SessVars, CredVars, IdentVars, OrchVars, BeatVars,
                AllowVars, SlackVars, RepVars, StreamVars, RotVars, BodyVars,
                MemVars, VltVars, FilterVars, LocalVars, BucketVars, UseVars,
                ChromeVars>>
BeatStep == /\ active = "Beat" /\ Beat!Next
  /\ UNCHANGED <<active, SessVars, CredVars, IdentVars, OrchVars, TenVars,
                AllowVars, SlackVars, RepVars, StreamVars, RotVars, BodyVars,
                MemVars, VltVars, FilterVars, LocalVars, BucketVars, UseVars,
                ChromeVars>>
AllowStep == /\ active = "Allow" /\ Allow!Next
  /\ UNCHANGED <<active, SessVars, CredVars, IdentVars, OrchVars, TenVars,
                BeatVars, SlackVars, RepVars, StreamVars, RotVars, BodyVars,
                MemVars, VltVars, FilterVars, LocalVars, BucketVars, UseVars,
                ChromeVars>>
SlackStep == /\ active = "Slack" /\ Slack!Next
  /\ UNCHANGED <<active, SessVars, CredVars, IdentVars, OrchVars, TenVars,
                BeatVars, AllowVars, RepVars, StreamVars, RotVars, BodyVars,
                MemVars, VltVars, FilterVars, LocalVars, BucketVars, UseVars,
                ChromeVars>>
RepStep == /\ active = "Rep" /\ Rep!Next
  /\ UNCHANGED <<active, SessVars, CredVars, IdentVars, OrchVars, TenVars,
                BeatVars, AllowVars, SlackVars, StreamVars, RotVars,
                BodyVars, MemVars, VltVars, FilterVars, LocalVars,
                BucketVars, UseVars, ChromeVars>>
StreamStep == /\ active = "Stream" /\ Stream!Next
  /\ UNCHANGED <<active, SessVars, CredVars, IdentVars, OrchVars, TenVars,
                BeatVars, AllowVars, SlackVars, RepVars, RotVars, BodyVars,
                MemVars, VltVars, FilterVars, LocalVars, BucketVars, UseVars,
                ChromeVars>>
RotStep == /\ active = "Rot" /\ Rot!Next
  /\ UNCHANGED <<active, SessVars, CredVars, IdentVars, OrchVars, TenVars,
                BeatVars, AllowVars, SlackVars, RepVars, StreamVars,
                BodyVars, MemVars, VltVars, FilterVars, LocalVars,
                BucketVars, UseVars, ChromeVars>>
BodyStep == /\ active = "Body" /\ Body!Next
  /\ UNCHANGED <<active, SessVars, CredVars, IdentVars, OrchVars, TenVars,
                BeatVars, AllowVars, SlackVars, RepVars, StreamVars, RotVars,
                MemVars, VltVars, FilterVars, LocalVars, BucketVars, UseVars,
                ChromeVars>>
MemStep == /\ active = "Mem" /\ Mem!Next
  /\ UNCHANGED <<active, SessVars, CredVars, IdentVars, OrchVars, TenVars,
                BeatVars, AllowVars, SlackVars, RepVars, StreamVars, RotVars,
                BodyVars, VltVars, FilterVars, LocalVars, BucketVars,
                UseVars, ChromeVars>>
VltStep == /\ active = "Vlt" /\ Vlt!Next
  /\ UNCHANGED <<active, SessVars, CredVars, IdentVars, OrchVars, TenVars,
                BeatVars, AllowVars, SlackVars, RepVars, StreamVars, RotVars,
                BodyVars, MemVars, FilterVars, LocalVars, BucketVars,
                UseVars, ChromeVars>>
FilterStep == /\ active = "Filter" /\ Filter!Next
  /\ UNCHANGED <<active, SessVars, CredVars, IdentVars, OrchVars, TenVars,
                BeatVars, AllowVars, SlackVars, RepVars, StreamVars, RotVars,
                BodyVars, MemVars, VltVars, LocalVars, BucketVars, UseVars,
                ChromeVars>>
LocalStep == /\ active = "Local" /\ Local!Next
  /\ UNCHANGED <<active, SessVars, CredVars, IdentVars, OrchVars, TenVars,
                BeatVars, AllowVars, SlackVars, RepVars, StreamVars, RotVars,
                BodyVars, MemVars, VltVars, FilterVars, BucketVars, UseVars,
                ChromeVars>>
BucketStep == /\ active = "Bucket" /\ Bucket!Next
  /\ UNCHANGED <<active, SessVars, CredVars, IdentVars, OrchVars, TenVars,
                BeatVars, AllowVars, SlackVars, RepVars, StreamVars, RotVars,
                BodyVars, MemVars, VltVars, FilterVars, LocalVars, UseVars,
                ChromeVars>>
UseStep == /\ active = "Use" /\ Use!Next
  /\ UNCHANGED <<active, SessVars, CredVars, IdentVars, OrchVars, TenVars,
                BeatVars, AllowVars, SlackVars, RepVars, StreamVars, RotVars,
                BodyVars, MemVars, VltVars, FilterVars, LocalVars,
                BucketVars, ChromeVars>>
ChromeStep == /\ active = "Chrome" /\ Chrome!Next
  /\ UNCHANGED <<active, SessVars, CredVars, IdentVars, OrchVars, TenVars,
                BeatVars, AllowVars, SlackVars, RepVars, StreamVars, RotVars,
                BodyVars, MemVars, VltVars, FilterVars, LocalVars,
                BucketVars, UseVars>>

Next == \/ SessStep
        \/ CredStep
        \/ IdentStep
        \/ OrchStep
        \/ TenStep
        \/ BeatStep
        \/ AllowStep
        \/ SlackStep
        \/ RepStep
        \/ StreamStep
        \/ RotStep
        \/ BodyStep
        \/ MemStep
        \/ VltStep
        \/ FilterStep
        \/ LocalStep
        \/ BucketStep
        \/ UseStep
        \/ ChromeStep

suiteVars == <<active, SessVars, CredVars, IdentVars, OrchVars, TenVars, BeatVars, AllowVars, SlackVars, RepVars, StreamVars, RotVars, BodyVars, MemVars, VltVars, FilterVars, LocalVars, BucketVars, UseVars, ChromeVars>>

Spec == Init /\ [][Next]_suiteVars

-----------------------------------------------------------------------------
(* Promises of the components, joined by what they are about.  The comment   *)
(* of each conjunct, in its own module, names the cases it excludes; what    *)
(* Platform and Stores promise is stated and proved there.                   *)

(* What the provider is asked, what it answers and what the user gets. In a  *)
(* request every tool call is followed by its result; a stream is delivered  *)
(* completely and tool calls are put together whole from fragments in any    *)
(* portions; the budget is overshot by one answer of each chat at most and   *)
(* every logged turn was booked at the price of its model; a reply that is   *)
(* reported as sent has arrived whole and contains no saved key, and a       *)
(* credential in a message is reported once however many patterns match it.  *)
AnswersFaithful ==
  /\ active = "Body" => Body!TypeOK /\ Body!WirePaired
  /\ active = "Stream" => /\ Stream!TypeOK
                          /\ Stream!StreamComplete
                          /\ Stream!CallsWhole
  /\ active = "Use" => /\ Use!TypeOK
                       /\ Use!LogWithinSpending
                       /\ Use!OvershootBounded
                       /\ Use!DisplayFollowsChoice
                       /\ Use!PricedSpecifically
  /\ active = "Rep" => Rep!TypeOK /\ Rep!ArrivesWhole /\ Rep!SplitEnds
  /\ active = "Filter" => /\ Filter!TypeOK
                          /\ Filter!RepliesCensored
                          /\ Filter!ReportedOnce
=============================================================================
