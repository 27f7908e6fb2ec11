--------------------------- MODULE HeartbeatRunner ---------------------------
(***************************************************************************)
(* HeartbeatRunner (skyclaw-automation, heartbeat.rs): at every interval   *)
(* a tick looks at the clock, at the HEARTBEAT_OK file the agent leaves to *)
(* be left alone, at the checklist and at the system's health, and offers  *)
(* the message to the queue all channels share.  The agent writes and the  *)
(* dispatcher drains at any time.                                          *)
(***************************************************************************)
EXTENDS Integers, Sequences

CONSTANTS Day,          \* minutes of a day
          Windows,      \* active_hours: <<start, end>>, or <<>> if not set or not readable
          Capacity,     \* of the unified queue
          MaxRuns       \* bound on ticks

VARIABLES minute,       \* local time
          window,       \* the configured window
          okFile,       \* HEARTBEAT_OK: "none", "there", "stuck" (cannot be removed)
          checklist,    \* HEARTBEAT.md has content
          queue,        \* unified queue, TRUE for a heartbeat
          open,         \* the receiver is alive
          running,      \* the runner's loop: "created", "yes" or "ended"
          metrics,      \* HeartbeatMetrics
          sentAt        \* minutes of the sends (history)

heartbeatVars == <<minute, window, okFile, checklist, queue, open, running, metrics, sentAt>>

Counters == {"total", "sent", "noChecklist", "ok", "hours", "full", "degraded", "unhealthy"}
Bump(names) == metrics' = [n \in Counters |-> IF n \in names THEN metrics[n] + 1 ELSE metrics[n]]

(* is_within_active_hours *)
IsWithin(w, now) == IF w = <<>> THEN TRUE
                    ELSE IF w[1] <= w[2] THEN now >= w[1] /\ now < w[2]
                    ELSE now >= w[1] \/ now < w[2]

Init == /\ minute = 0 /\ window = <<>> /\ okFile = "none" /\ checklist = TRUE
        /\ queue = <<>> /\ open = TRUE /\ running = "created"
        /\ metrics = [n \in Counters |-> 0] /\ sentAt = {}

Run(w) == /\ running = "created" /\ running' = "yes" /\ window' = w
          /\ UNCHANGED <<minute, okFile, checklist, queue, open, metrics, sentAt>>

Ticking == running = "yes" /\ metrics["total"] < MaxRuns

OutsideHours == /\ Ticking /\ ~IsWithin(window, minute)
                /\ Bump({"total", "hours"})
                /\ UNCHANGED <<minute, window, okFile, checklist, queue, open, running, sentAt>>

(* The file is removed if it can be; the tick is skipped either way. *)
Suppressed == /\ Ticking /\ IsWithin(window, minute) /\ okFile # "none"
              /\ okFile' = IF okFile = "stuck" THEN okFile ELSE "none"
              /\ Bump({"total", "ok"})
              /\ UNCHANGED <<minute, window, checklist, queue, open, running, sentAt>>

Due == Ticking /\ IsWithin(window, minute) /\ okFile = "none"

NoChecklist == /\ Due /\ ~checklist
               /\ Bump({"total", "noChecklist"})
               /\ UNCHANGED <<minute, window, okFile, checklist, queue, open, running, sentAt>>

(* The health check, if one is installed, adds a section to the message.   *)
HealthCount(health) == IF health = "healthy" THEN {} ELSE {health}

(* try_send: sent, dropped at a full queue, or the end at a closed one. *)
TrySend(health) ==
  /\ Due /\ checklist
  /\ IF ~open THEN /\ running' = "ended"
                   /\ Bump({"total"} \union HealthCount(health))
                   /\ UNCHANGED <<queue, sentAt>>
     ELSE IF Len(queue) < Capacity
     THEN /\ queue' = Append(queue, TRUE) /\ sentAt' = sentAt \union {minute}
          /\ Bump({"total", "sent"} \union HealthCount(health))
          /\ UNCHANGED running
     ELSE Bump({"total", "full"} \union HealthCount(health)) /\ UNCHANGED <<queue, sentAt, running>>
  /\ UNCHANGED <<minute, window, okFile, checklist, open>>

(* The others: the clock, the agent, users, the dispatcher, the shutdown. *)
Pass == /\ minute' = (minute + 1) % Day
        /\ UNCHANGED <<window, okFile, checklist, queue, open, running, metrics, sentAt>>
AgentWrites == /\ okFile' \in {"there", "stuck"} /\ okFile = "none"
               /\ checklist' \in BOOLEAN
               /\ UNCHANGED <<minute, window, queue, open, running, metrics, sentAt>>
UserSends == /\ open /\ Len(queue) < Capacity /\ queue' = Append(queue, FALSE)
             /\ UNCHANGED <<minute, window, okFile, checklist, open, running, metrics, sentAt>>
Drain == /\ queue # <<>> /\ queue' = Tail(queue)
         /\ UNCHANGED <<minute, window, okFile, checklist, open, running, metrics, sentAt>>
Close == /\ open' = FALSE /\ queue' = <<>> /\ open
         /\ UNCHANGED <<minute, window, okFile, checklist, running, metrics, sentAt>>

Next == \/ \E w \in Windows : Run(w)
        \/ OutsideHours \/ Suppressed \/ NoChecklist
        \/ \E h \in {"healthy", "degraded", "unhealthy"} : TrySend(h)
        \/ Pass \/ AgentWrites \/ UserSends \/ Drain \/ Close

Spec == Init /\ [][Next]_heartbeatVars

-----------------------------------------------------------------------------
TypeOK == /\ minute \in 0..(Day - 1) /\ Len(queue) <= Capacity
          /\ metrics \in [Counters -> 0..MaxRuns]

(* Heartbeats go out in the active hours alone: in a minute that lies on   *)
(* the way round the clock from the start of the window to its end.        *)
SentInHours ==
  \A m \in sentAt : window # <<>> =>
    \E d \in 0..(((window[2] - window[1]) % Day) - 1) : (window[1] + d) % Day = m

(* Every tick is accounted for exactly once: sent, or skipped for one      *)
(* reason; only the tick that finds the queue closed is not, and it is     *)
(* the last.                                                               *)
TicksAccounted ==
  metrics["total"] = metrics["sent"] + metrics["noChecklist"] + metrics["ok"] + metrics["hours"]
                     + metrics["full"] + (IF running = "ended" THEN 1 ELSE 0)

-----------------------------------------------------------------------------
(* What holds between any two steps: no reason is counted more often than  *)
(* there were ticks, and what was sent lies in the window of the runner.   *)
BeatTypes ==
  /\ minute \in 0..(Day - 1) /\ window \in {<<>>} \union Windows
  /\ queue \in Seq(BOOLEAN) /\ Len(queue) <= Capacity
  /\ metrics \in [Counters -> Nat] /\ running \in {"created", "yes", "ended"}
  /\ metrics["total"] <= MaxRuns
  /\ \A n \in Counters : metrics[n] <= metrics["total"]

SentWithin == /\ running = "created" => sentAt = {}
              /\ \A m \in sentAt : m \in 0..(Day - 1) /\ IsWithin(window, m)

BeatInv == BeatTypes /\ SentWithin /\ TicksAccounted
=============================================================================
