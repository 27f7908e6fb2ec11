---------------------------- MODULE SlackPolling ----------------------------
(***************************************************************************)
(* poll_slack_messages (skyclaw-channels, slack.rs): one task asks for the *)
(* conversations, then for the new messages of each, oldest first, and     *)
(* remembers per conversation the newest timestamp it has dealt with.      *)
(* Messages are posted while it works; any request may fail.               *)
(***************************************************************************)
EXTENDS Integers, Sequences

CONSTANTS Conversations,   \* in the order of conversations.list
          Page,            \* messages of one answer (100)
          MaxPosts, MaxRounds

(* A message is from a bot, without a user, ours, of a stranger, empty, or *)
(* one to forward.                                                         *)
Kinds == {"skip", "forward"}

VARIABLES posts,           \* conversation |-> its messages [ts, kind], oldest first
          now,             \* the last timestamp given out
          latestTs,        \* latest_ts; 0 stands for startup_ts
          poller,          \* where the task is: the conversation i, and its messages
                           \* from next to last of the answer that are still to do
          inbound,         \* what went to the gateway: <<conversation, ts>>
          overflow,        \* conversations whose answer was cut (history)
          rounds

slackVars == <<posts, now, latestTs, poller, inbound, overflow, rounds>>

Channels == {Conversations[i] : i \in DOMAIN Conversations}
Forwarded == {inbound[i] : i \in DOMAIN inbound}

Idle == [at |-> "idle", i |-> 0, next |-> 1, last |-> 0]
Fetching(i) == [at |-> "fetch", i |-> i, next |-> 1, last |-> 0]

Init == /\ posts = [c \in Channels |-> <<>>] /\ now = 0
        /\ latestTs = [c \in Channels |-> 0]
        /\ poller = Idle /\ inbound = <<>> /\ overflow = {} /\ rounds = 0

(* A user or a bot writes; timestamps grow over all conversations. *)
Post(c, k) ==
  /\ now < MaxPosts /\ now' = now + 1
  /\ posts' = [posts EXCEPT ![c] = Append(@, [ts |-> now', kind |-> k])]
  /\ UNCHANGED <<latestTs, poller, inbound, overflow, rounds>>

AfterConversation(i) == IF i < Len(Conversations) THEN Fetching(i + 1) ELSE Idle

(* fetch_bot_conversations; on an error the task sleeps and starts again,  *)
(* which changes nothing.                                                  *)
StartRound ==
  /\ poller.at = "idle" /\ rounds < MaxRounds
  /\ rounds' = rounds + 1
  /\ poller' = AfterConversation(0)
  /\ UNCHANGED <<posts, now, latestTs, inbound, overflow>>

(* Mutant of Oldest: one timestamp for all conversations. *)
OldestShared(c) == CHOOSE t \in {latestTs[d] : d \in Channels} : \A d \in Channels : latestTs[d] <= t
Oldest(c) == latestTs[c]

(* inclusive=false *)
IsNew(m, oldest) == m.ts > oldest

(* fetch_conversation_history: the newest Page messages after oldest, so   *)
(* those from the last ones of the conversation that are not seen; the     *)
(* answer is newest first and is reversed.                                 *)
Larger(m, n) == IF m < n THEN n ELSE m
AllSeen(c, seen) == \A k \in DOMAIN posts[c] : IsNew(posts[c][k], Oldest(c)) = (k > seen)

FetchHistory ==
  LET c == Conversations[poller.i]
      last == Len(posts[c])
  IN /\ poller.at = "fetch"
     /\ \/ \E seen \in 0..last :
             /\ AllSeen(c, seen)
             /\ poller' = [at |-> "work", i |-> poller.i,
                           next |-> Larger(seen, last - Page) + 1, last |-> last]
             /\ overflow' = IF last - seen > Page THEN overflow \union {c} ELSE overflow
        \/ poller' = AfterConversation(poller.i) /\ UNCHANGED overflow   \* request failed
     /\ UNCHANGED <<posts, now, latestTs, inbound, rounds>>

(* update_latest_ts *)
UpdateLatest(c, ts) == latestTs' = [latestTs EXCEPT ![c] = Larger(@, ts)]

(* One message of the answer: skipped or sent, and remembered. *)
Work ==
  LET c == Conversations[poller.i]
      m == posts[c][poller.next]
  IN /\ poller.at = "work" /\ poller.next <= poller.last
     /\ inbound' = IF m.kind = "forward" THEN Append(inbound, <<c, m.ts>>) ELSE inbound
     /\ UpdateLatest(c, m.ts)
     /\ poller' = [poller EXCEPT !.next = @ + 1]
     /\ UNCHANGED <<posts, now, overflow, rounds>>

EndBatch == /\ poller.at = "work" /\ poller.next > poller.last
            /\ poller' = AfterConversation(poller.i)
            /\ UNCHANGED <<posts, now, latestTs, inbound, overflow, rounds>>

(* The shutdown flag seen between conversations, or a closed receiver. *)
Stop == /\ \/ poller.at \in {"idle", "fetch"}
           \/ /\ poller.at = "work" /\ poller.next <= poller.last
              /\ posts[Conversations[poller.i]][poller.next].kind = "forward"
        /\ poller' = [poller EXCEPT !.at = "stopped"]
        /\ UNCHANGED <<posts, now, latestTs, inbound, overflow, rounds>>

Next == \/ \E c \in Channels, k \in Kinds : Post(c, k)
        \/ StartRound \/ FetchHistory \/ Work \/ EndBatch \/ Stop

Spec == Init /\ [][Next]_slackVars

-----------------------------------------------------------------------------
TypeOK == /\ now \in 0..MaxPosts /\ rounds \in 0..MaxRounds
          /\ \A c \in Channels : latestTs[c] \in 0..now
          /\ overflow \subseteq Channels

(* The agent sees every message of a conversation at most once and in the  *)
(* order of its timestamps, whatever was posted or failed in between.      *)
ForwardedOnceInOrder ==
  \A i, j \in DOMAIN inbound :
    (i < j /\ inbound[i][1] = inbound[j][1]) => inbound[i][2] < inbound[j][2]

(* Nothing is passed over: a message the poller is past has been forwarded *)
(* unless an answer for its conversation was cut at the page size (more    *)
(* than Page new messages lose the older ones).                            *)
NonePassedOver ==
  \A c \in Channels \ overflow : \A i \in DOMAIN posts[c] :
    (posts[c][i].kind = "forward" /\ posts[c][i].ts <= latestTs[c])
      => <<c, posts[c][i].ts>> \in Forwarded

-----------------------------------------------------------------------------
(* What holds between any two steps: the messages of a conversation are in *)
(* the order of their timestamps; what was forwarded is not newer than     *)
(* what the poller is past; and of an answer the messages still to do are  *)
(* new, while those before it are not, unless it was cut.                  *)
Message == [ts : Nat, kind : Kinds]

SlackTypes ==
  /\ now \in 0..MaxPosts /\ rounds \in 0..MaxRounds
  /\ posts \in [Channels -> Seq(Message)]
  /\ latestTs \in [Channels -> Nat]
  /\ poller \in [at : {"idle", "fetch", "work", "stopped"}, i : Nat, next : Nat \ {0}, last : Nat]
  /\ poller.at \in {"fetch", "work"} => poller.i \in DOMAIN Conversations
  /\ inbound \in Seq(Channels \X Nat)
  /\ overflow \subseteq Channels

Ascending == \A c \in Channels : \A k \in DOMAIN posts[c] :
  /\ posts[c][k].ts \in 1..now
  /\ \A l \in DOMAIN posts[c] : k < l => posts[c][k].ts < posts[c][l].ts

PastForwarded == /\ \A c \in Channels : latestTs[c] \in 0..now
                 /\ \A i \in DOMAIN inbound : inbound[i][2] <= latestTs[inbound[i][1]]

AnswerIsNew == poller.at = "work" =>
  LET c == Conversations[poller.i]
  IN /\ poller.next <= poller.last + 1 /\ poller.last <= Len(posts[c])
     /\ \A k \in poller.next..poller.last : posts[c][k].ts > latestTs[c]
     /\ c \notin overflow => \A k \in 1..(poller.next - 1) : posts[c][k].ts <= latestTs[c]

SlackInv == /\ SlackTypes /\ Ascending /\ PastForwarded /\ AnswerIsNew
            /\ ForwardedOnceInOrder /\ NonePassedOver
=============================================================================
