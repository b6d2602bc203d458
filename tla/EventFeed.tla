----------------------------- MODULE EventFeed -----------------------------
(***************************************************************************)
(* What the hub promises a dashboard, without saying how: from the moment  *)
(* it joins until it leaves, a dashboard sees the event log with no gap,   *)
(* no repetition and nothing ahead of time.                                *)
(***************************************************************************)
EXTENDS Naturals

CONSTANT Dashboards

VARIABLES
  log,      \* how many events have been broadcast
  phase,    \* phase[d]: "off", "on" or "gone"
  start,    \* start[d]: the last event d does not see
  seen      \* seen[d]: the events d has received

vars == <<log, phase, start, seen>>

Init ==
  /\ log = 0
  /\ phase = [d \in Dashboards |-> "off"]
  /\ start = [d \in Dashboards |-> 0]
  /\ seen = [d \in Dashboards |-> {}]

Publish ==
  /\ log' = log + 1
  /\ UNCHANGED <<phase, start, seen>>

Join(d) ==
  /\ phase[d] = "off"
  /\ phase' = [phase EXCEPT ![d] = "on"]
  /\ \E k \in 0 .. log : start' = [start EXCEPT ![d] = k]
  /\ UNCHANGED <<log, seen>>

\* One or more events arrive: those right after the ones already seen.
Deliver(d) ==
  /\ phase[d] = "on"
  /\ \E n \in start[d] + 1 .. log :
       /\ seen[d] \subseteq start[d] + 1 .. n - 1
       /\ seen' = [seen EXCEPT ![d] = start[d] + 1 .. n]
  /\ UNCHANGED <<log, phase, start>>

Leave(d) ==
  /\ phase[d] = "on"
  /\ phase' = [phase EXCEPT ![d] = "gone"]
  /\ UNCHANGED <<log, start, seen>>

Next == Publish \/ \E d \in Dashboards : Join(d) \/ Deliver(d) \/ Leave(d)

Spec == Init /\ [][Next]_vars

=============================================================================
