---------------------------- MODULE VaultMonitor ----------------------------
(***************************************************************************)
(* VaultAccessMonitor.resolve(): an alert for each call that is one too    *)
(* many within the window (saap/compliance/breach.py).                     *)
(***************************************************************************)
EXTENDS Naturals, Sequences, FiniteSets

CONSTANTS
  Threshold, Window,    \* threshold, window_seconds
  Resolves, ClockEnd    \* bounds on calls and time

ASSUME MonitorAssumption ==
  /\ Threshold \in Nat /\ Window \in Nat
  /\ Resolves \in Nat /\ ClockEnd \in Nat

VARIABLES
  clock,
  recent,   \* _recent_calls: the calls whose times are in it
  calls,    \* the times of all calls
  alerts    \* the calls for which an alert was raised

monitorVars == <<clock, recent, calls, alerts>>

MonitorInit == clock = 0 /\ recent = {} /\ calls = <<>> /\ alerts = {}

\* Mutant: the list is pruned only when the threshold is passed.
PrunedLate(times) ==
  IF Cardinality(times) > Threshold THEN {n \in times : clock - calls[n] < Window} ELSE times

Pruned(times) == {n \in times : clock - calls[n] < Window}

Resolve ==
  /\ Len(calls) < Resolves
  /\ recent' = Pruned(recent) \cup {Len(calls) + 1}
  /\ calls' = Append(calls, clock)
  /\ alerts' = IF Cardinality(recent') > Threshold THEN alerts \cup {Len(calls')} ELSE alerts
  /\ UNCHANGED clock

PassTime ==
  /\ clock < ClockEnd /\ clock' = clock + 1
  /\ UNCHANGED <<recent, calls, alerts>>

MonitorNext == Resolve \/ PassTime

-----------------------------------------------------------------------------
\* A call raises an alert exactly if more than Threshold calls, itself
\* included, were made in the Window before it, however they are spaced: what
\* was pruned is never missed by a later call.
AlertsAreExact ==
  \A n \in DOMAIN calls :
    n \in alerts <=>
      Cardinality({m \in 1..n : m = n \/ calls[n] < calls[m] + Window}) > Threshold
=============================================================================
