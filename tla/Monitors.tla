------------------------------ MODULE Monitors ------------------------------
(***************************************************************************)
(* The two monitors of saap/compliance/breach.py side by side: the check   *)
(* of the audit chain and the alerts on vault reads.  They share no state. *)
(***************************************************************************)
EXTENDS AuditTrail, VaultMonitor

\* The monitors tell what they are made to tell: a check of the chain raises
\* for a trail that was changed in a hashed field and for no other, a vault read
\* for one too many in its window and for no other.
MonitorsAreExact == TamperingShows /\ AlertsAreExact
=============================================================================
