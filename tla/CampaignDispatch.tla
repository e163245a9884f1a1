---------------------------- MODULE CampaignDispatch ----------------------------
(***************************************************************************)
(* What the campaign scheduler promises of each enrollment, whoever does   *)
(* the work: it waits until somebody takes it, its campaign flow is        *)
(* started at most once, and it ends "done" only after it was started.     *)
(* A delivery whose answer is lost may be recorded as failed: the promise  *)
(* is at-most-once, not exactly-once.                                      *)
(*                                                                         *)
(* FlowScheduler implements this module (FlowScheduler!Dispatch).          *)
(***************************************************************************)
EXTENDS Naturals

CONSTANT Enrollments

VARIABLES
  status,      \* status[e]: how far the enrollment e has come
  deliveries   \* deliveries[e]: how often e's campaign flow was started

vars == <<status, deliveries>>

Status == {"waiting", "taken", "sent", "done", "failed"}

Init ==
  /\ status = [e \in Enrollments |-> "waiting"]
  /\ deliveries = [e \in Enrollments |-> 0]

Take(e) ==
  /\ status[e] = "waiting"
  /\ status' = [status EXCEPT ![e] = "taken"]
  /\ UNCHANGED deliveries

Send(e) ==
  /\ status[e] = "taken"
  /\ status' = [status EXCEPT ![e] = "sent"]
  /\ deliveries' = [deliveries EXCEPT ![e] = 1]

Finish(e) ==
  /\ status[e] = "sent"
  /\ status' = [status EXCEPT ![e] = "done"]
  /\ UNCHANGED deliveries

GiveUp(e) ==
  /\ status[e] \in {"taken", "sent"}
  /\ status' = [status EXCEPT ![e] = "failed"]
  /\ UNCHANGED deliveries

Next == \E e \in Enrollments : Take(e) \/ Send(e) \/ Finish(e) \/ GiveUp(e)

Spec == Init /\ [][Next]_vars
=============================================================================
