-------------------------------- MODULE Usage --------------------------------
(***************************************************************************)
(* What a turn costs and where that is kept: the price of the model        *)
(* (budget.rs), the spending of an agent, the usage log and the display    *)
(* preference of a chat (sqlite_usage.rs, usage_audit.rs), and the end of  *)
(* a turn in the worker of main.rs.  An agent is built anew when           *)
(* credentials change; a running turn keeps the agent it started with.     *)
(***************************************************************************)
EXTENDS Integers, Sequences, SequencesExt, FiniteSets

CONSTANTS
  Chats,
  Models,     \* model names, each as the set of known words it contains
  Limit,      \* max_spend of an agent, 0 for none
  Outputs,    \* output tokens an answer can have, in millions
  MaxAgents,  \* agents in a behaviour
  MaxTurns,   \* turns in a behaviour
  MaxCalls    \* provider calls in a behaviour

VARIABLES
  agents,     \* per agent built: its model and what it has spent
  turn,       \* per chat: the turn its worker runs
  log,        \* the usage_log table
  display,    \* the usage_display table
  calls,      \* provider calls so far
  turns,      \* turns so far
  choice,     \* history: what the chat was last told about its display
  shown       \* history: the chat of a usage message sent just now, or none

usageVars == <<agents, turn, log, display, calls, turns, choice, shown>>

-----------------------------------------------------------------------------
(* get_pricing: the first row whose words are all in the name decides.     *)
(* A row lists the words it implies too, so "gpt-4o-mini" brings "gpt-4o". *)
(* Prices per million tokens are in twentieths of a dollar.                *)

Row(has, lacks, in, out) == [has |-> has, lacks |-> lacks, in |-> in, out |-> out]

Pricing == <<
  Row({"opus", "4-5"}, {}, 100, 500),
  Row({"opus"}, {}, 100, 500),
  Row({"sonnet", "4-5"}, {}, 60, 300),
  Row({"sonnet"}, {}, 60, 300),
  Row({"haiku", "4-5"}, {}, 20, 100),
  Row({"haiku", "3-5"}, {}, 16, 80),
  Row({"haiku"}, {}, 20, 100),
  Row({"gpt-5", "gpt-5.2"}, {}, 35, 280),
  Row({"gpt-5"}, {"gpt-5.2"}, 25, 200),
  Row({"gpt-4", "gpt-4o", "gpt-4o-mini"}, {}, 3, 12),
  Row({"gpt-4", "gpt-4o"}, {}, 50, 200),
  Row({"gpt-4"}, {}, 50, 200),
  Row({"o3"}, {}, 40, 160),
  Row({"o4-mini"}, {}, 22, 88),
  Row({"gemini", "2.5-pro"}, {}, 25, 200),
  Row({"gemini", "2.5-flash"}, {}, 6, 50),
  Row({"gemini", "2.0-flash"}, {}, 2, 8),
  Row({"gemini"}, {}, 6, 50),
  Row({"grok", "grok-4", "fast"}, {}, 4, 10),
  Row({"grok", "grok-4", "grok-4-1"}, {"fast"}, 60, 300),
  Row({"grok", "grok-4"}, {}, 60, 300),
  Row({"grok", "grok-3", "fast"}, {}, 4, 10),
  Row({"grok", "grok-3"}, {}, 60, 300),
  Row({"grok"}, {}, 60, 300),
  Row({"minimax"}, {}, 6, 24),
  Row({"llama"}, {}, 0, 0),
  Row({}, {}, 60, 300)>>

Matches(r, model) == r.has \subseteq model /\ r.lacks \cap model = {}

GetPricing(model) == SelectSeq(Pricing, LAMBDA r : Matches(r, model))[1]

CalculateCost(in, out, price) == in * price.in + out * price.out

-----------------------------------------------------------------------------
Agent(model) == [model |-> model, spent |-> 0]
NoTurn == [at |-> "idle", agent |-> 1, calls |-> 0, cost |-> 0]

TypeOK ==
  /\ agents \in Seq([model : Models, spent : Nat]) /\ Len(agents) \in 0..MaxAgents
  /\ turn \in [Chats -> [at : {"idle", "running", "calling", "record", "display"}, agent : 1..MaxAgents,
                         calls : 0..MaxCalls, cost : Nat]]
  /\ log \in Seq([chat : Chats, calls : 0..MaxCalls, cost : Nat])
  /\ display \in [Chats -> {"absent", "on", "off"}]
  /\ calls \in 0..MaxCalls /\ turns \in 0..MaxTurns
  /\ choice \in [Chats -> {"on", "off"}] /\ shown \in Chats \cup {""}

Init ==
  /\ agents = <<>>
  /\ turn = [c \in Chats |-> NoTurn]
  /\ log = <<>> /\ display = [c \in Chats |-> "absent"]
  /\ calls = 0 /\ turns = 0 /\ choice = [c \in Chats |-> "on"] /\ shown = ""

(* The first agent or, at a hot reload, a new one; its tracker starts at zero. *)
Rebuild(m) ==
  /\ Len(agents) < MaxAgents
  /\ agents' = Append(agents, Agent(m)) /\ shown' = ""
  /\ UNCHANGED <<turn, log, display, calls, turns, choice>>

BeginTurn(c) ==
  /\ turn[c].at = "idle" /\ turns < MaxTurns /\ agents # <<>>
  /\ turn' = [turn EXCEPT ![c] = [NoTurn EXCEPT !.at = "running", !.agent = Len(agents)]]
  /\ turns' = turns + 1 /\ shown' = ""
  /\ UNCHANGED <<agents, log, display, calls, choice>>

CheckBudget(a) == Limit = 0 \/ agents[a].spent < Limit

Request(c) ==
  /\ turn[c].at = "running" /\ calls < MaxCalls /\ CheckBudget(turn[c].agent)
  /\ turn' = [turn EXCEPT ![c].at = "calling"]
  /\ calls' = calls + 1 /\ shown' = ""
  /\ UNCHANGED <<agents, log, display, turns, choice>>

(* A call that answers is paid for at once, by its agent and in its turn. *)
Answer(c, out) ==
  LET a == turn[c].agent
      cost == CalculateCost(1, out, GetPricing(agents[a].model))
  IN
  /\ turn[c].at = "calling"
  /\ agents' = [agents EXCEPT ![a].spent = @ + cost]
  /\ turn' = [turn EXCEPT ![c].at = "running", ![c].calls = @ + 1, ![c].cost = @ + cost]
  /\ shown' = ""
  /\ UNCHANGED <<log, display, calls, turns, choice>>

(* A turn that ends in an error or a panic is not recorded. *)
TurnFails(c) ==
  /\ turn[c].at \in {"running", "calling"}
  /\ turn' = [turn EXCEPT ![c].at = "idle"] /\ shown' = ""
  /\ UNCHANGED <<agents, log, display, calls, turns, choice>>

(* Any other turn is: finished, interrupted, or refused by budget or breaker. *)
TurnEnds(c) ==
  /\ turn[c].at = "running"
  /\ turn' = [turn EXCEPT ![c].at = "record"] /\ shown' = ""
  /\ UNCHANGED <<agents, log, display, calls, turns, choice>>

(* record_usage; its failure is only logged. *)
RecordUsage(c) ==
  /\ turn[c].at = "record"
  /\ \/ log' = Append(log, [chat |-> c, calls |-> turn[c].calls, cost |-> turn[c].cost])
     \/ UNCHANGED log
  /\ turn' = [turn EXCEPT ![c].at = IF turn[c].calls > 0 THEN "display" ELSE "idle"]
  /\ shown' = ""
  /\ UNCHANGED <<agents, display, calls, turns, choice>>

(* A chat without a row sees its usage. *)
IsUsageDisplayEnabled(c) == display[c] # "off"

ShowUsage(c) ==
  /\ turn[c].at = "display"
  /\ turn' = [turn EXCEPT ![c].at = "idle"]
  /\ shown' \in {""} \cup (IF IsUsageDisplayEnabled(c) THEN {c} ELSE {})
  /\ UNCHANGED <<agents, log, display, calls, turns, choice>>

(* usage_audit config, a tool of a running turn: INSERT ... ON CONFLICT. *)
SetDisplay(c, to) == [display EXCEPT ![c] = to]

HandleConfig(c, to) ==
  /\ turn[c].at = "running" /\ turn[c].calls > 0
  /\ display' = SetDisplay(c, to) /\ choice' = [choice EXCEPT ![c] = to]
  /\ shown' = ""
  /\ UNCHANGED <<agents, turn, log, calls, turns>>

Next ==
  \/ \E m \in Models : Rebuild(m)
  \/ \E c \in Chats :
       \/ BeginTurn(c) \/ TurnFails(c) \/ TurnEnds(c) \/ RecordUsage(c) \/ ShowUsage(c)
       \/ Request(c) \/ \E out \in Outputs : Answer(c, out)
       \/ \E to \in {"on", "off"} : HandleConfig(c, to)

Spec == Init /\ [][Next]_usageVars

-----------------------------------------------------------------------------
(* usage_summary: the sums over the rows of one chat. *)
UsageSummary(c) ==
  LET rows == SelectSeq(log, LAMBDA r : r.chat = c)
  IN [calls |-> FoldSeq(LAMBDA r, s : r.calls + s, 0, rows),
      cost |-> FoldSeq(LAMBDA r, s : r.cost + s, 0, rows), turns |-> Len(rows)]

Total(f(_), S) == FoldSet(LAMBDA x, s : f(x) + s, 0, S)

(* The summaries of all chats together never show more calls than were     *)
(* made or a higher cost than the agents have booked, whatever turns       *)
(* failed, overlapped, or ran on while the agent was replaced.             *)
LogWithinSpending ==
  /\ Total(LAMBDA c : UsageSummary(c).calls, Chats) <= calls
  /\ Total(LAMBDA c : UsageSummary(c).cost, Chats) <= Total(LAMBDA i : agents[i].spent, DOMAIN agents)

(* An agent overshoots its limit by at most one call of each turn that was *)
(* under way: check_budget and the booking of the answer are apart.        *)
OvershootBounded ==
  Limit > 0 => \A i \in DOMAIN agents :
    LET most == CalculateCost(1, CHOOSE o \in Outputs : \A p \in Outputs : p <= o,
                              GetPricing(agents[i].model))
    IN agents[i].spent < Limit + Cardinality(Chats) * most

(* No usage message goes to a chat whose last config call switched the     *)
(* display off, the turn of that call included.                            *)
DisplayFollowsChoice == shown # "" => choice[shown] = "on"

(* Every model an agent runs is priced by its own row: no row that names   *)
(* more of the model's words comes later in the table at another price.    *)
PricedSpecifically ==
  \A i \in DOMAIN agents :
    LET m == agents[i].model
        mine == GetPricing(m)
    IN \A r \in ToSet(Pricing) :
         Matches(r, m) /\ mine.has \subseteq r.has => r.in = mine.in /\ r.out = mine.out
=============================================================================
