------------------------------ MODULE Proactive ------------------------------
(***************************************************************************)
(* Proactive triggers (skyclaw-agent, proactive.rs): rules that turn a     *)
(* trigger into an action, held back by a global switch, a cooldown per    *)
(* rule and a limit per hour.  The consumer of the actions is outside the  *)
(* crate; it asks can_act before it acts and records what it did, as the   *)
(* interface intends.  The rules are a set: their order in the list only   *)
(* decides the order of the actions that one evaluation returns.           *)
(***************************************************************************)
EXTENDS Integers, FiniteSets

CONSTANTS Triggers,      \* [kind, key, value, cond] records, see TriggerMatches
          Rules,         \* [id, name, prompt, on, pattern, cooldown] records
          MaxActions,    \* max_actions_per_hour
          Hour,          \* length of the window, in ticks
          MaxClock       \* bound on the clock

VARIABLES clock, enabled, rules,  \* rules: set of [rule, last]; last = -1: None
          hourStart, counted,     \* hour_start, actions_this_hour
          offered,                \* number of actions handed out, not yet acted upon
          lastFired, early,       \* history: last firing of each rule; those that
                                  \* fired before their cooldown was over
          inWindow                \* history: actions taken within the window

proactiveVars == <<clock, enabled, rules, hourStart, counted, offered, lastFired, early, inWindow>>

(* Of a threshold only the incoming condition and value count; cron        *)
(* expressions and webhook payloads are not compared.                      *)
TriggerMatches(t, p) ==
  /\ t.kind = p.kind
  /\ t.key = p.key
  /\ t.kind = "file" => t.cond = p.cond
  /\ (t.kind = "threshold" /\ t.cond = "above") => t.value > 0

Init == /\ clock = 0 /\ enabled = FALSE /\ rules = {}
        /\ hourStart = 0 /\ counted = 0
        /\ offered = 0 /\ inWindow = 0 /\ early = {}
        /\ lastFired = [id \in {r.id : r \in Rules} |-> -1]

Switch(on) == /\ enabled # on /\ enabled' = on
              /\ UNCHANGED <<clock, rules, hourStart, counted, offered, lastFired, early, inWindow>>

AddRule(r) ==
  /\ r.name # "" /\ r.prompt # ""
  /\ r.id \notin {e.rule.id : e \in rules}   \* ids are UUIDs
  /\ lastFired[r.id] = -1
  /\ rules' = rules \union {[rule |-> r, last |-> -1]}
  /\ UNCHANGED <<clock, enabled, hourStart, counted, offered, lastFired, early, inWindow>>

RemoveRule(id) ==
  /\ \E e \in rules : e.rule.id = id
  /\ rules' = {e \in rules : e.rule.id # id}
  /\ UNCHANGED <<clock, enabled, hourStart, counted, offered, lastFired, early, inWindow>>

InCooldown(e) == e.last # -1 /\ clock - e.last < e.rule.cooldown

WindowOver == clock - hourStart >= Hour

(* The counter as evaluate_trigger sees it, after maybe_reset_hour_window. *)
Counted == IF WindowOver THEN 0 ELSE counted

Fires(e, t) == /\ e.rule.on
               /\ TriggerMatches(t, e.rule.pattern)
               /\ ~InCooldown(e)
               /\ Counted < MaxActions

Stamp(e, t) == IF Fires(e, t) THEN [rule |-> e.rule, last |-> clock] ELSE e

EvaluateTrigger(t) ==
  /\ enabled
  /\ LET firing == {e \in rules : Fires(e, t)}
         ids == {e.rule.id : e \in firing}
         soon(e) == LET f == lastFired[e.rule.id] IN f # -1 /\ clock - f < e.rule.cooldown
     IN /\ rules' = {Stamp(e, t) : e \in rules}
        /\ offered' = offered + Cardinality(firing)
        /\ early' = early \union {e.rule.id : e \in {x \in firing : soon(x)}}
        /\ lastFired' = [id \in DOMAIN lastFired |-> IF id \in ids THEN clock ELSE lastFired[id]]
  /\ counted' = Counted
  /\ hourStart' = IF WindowOver THEN clock ELSE hourStart
  /\ inWindow' = IF WindowOver THEN 0 ELSE inWindow
  /\ UNCHANGED <<clock, enabled>>

CanAct == enabled /\ (WindowOver \/ counted < MaxActions)

(* can_act, the action, record_action *)
Act ==
  /\ offered > 0 /\ CanAct
  /\ offered' = offered - 1
  /\ counted' = counted + 1
  /\ inWindow' = IF WindowOver THEN inWindow ELSE inWindow + 1
  /\ UNCHANGED <<clock, enabled, rules, hourStart, lastFired, early>>

Tick == /\ clock < MaxClock /\ clock' = clock + 1
        /\ UNCHANGED <<enabled, rules, hourStart, counted, offered, lastFired, early, inWindow>>

Next == \/ \E on \in BOOLEAN : Switch(on)
        \/ \E r \in Rules : AddRule(r) \/ RemoveRule(r.id)
        \/ \E t \in Triggers : EvaluateTrigger(t)
        \/ Act
        \/ Tick

Spec == Init /\ [][Next]_proactiveVars

-----------------------------------------------------------------------------
TypeOK == /\ enabled \in BOOLEAN /\ counted \in Nat /\ hourStart \in 0..clock
          /\ \A e \in rules : e.last \in -1..clock

(* Between two resets of the window no more actions are taken within the  *)
(* hour than the limit allows, whatever order rules fire, actions are      *)
(* taken and the window is reset in - although one evaluation may hand out *)
(* more actions than are left, and can_act passes everything between the   *)
(* end of the hour and the evaluation that resets the window.              *)
WindowLimit == inWindow <= MaxActions

(* A rule fires again only when its cooldown is over, also when the limit  *)
(* made it skip a trigger in between.                                      *)
RuleSpacing == early = {}

(* The inductive invariant: every action within the window is counted; a   *)
(* rule in the list is there once, and remembers its own last firing.      *)
ActionsCounted == inWindow \in Nat /\ inWindow <= counted /\ inWindow <= MaxActions
FiringsKnown ==
  /\ lastFired \in [{r.id : r \in Rules} -> -1..clock]
  /\ rules \subseteq [rule : Rules, last : -1..clock]
  /\ \A e \in rules : e.last = lastFired[e.rule.id]
  /\ \A e, f \in rules : e.rule.id = f.rule.id => e = f
ProactiveInv == clock \in Nat /\ TypeOK /\ ActionsCounted /\ FiringsKnown /\ RuleSpacing
=============================================================================
