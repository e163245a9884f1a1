----------------------------- MODULE FlowScheduler -----------------------------
(***************************************************************************)
(* Campaign dispatch: saap/scheduler/flow_scheduler.py.                    *)
(*                                                                         *)
(* Several scheduler replicas run FlowScheduler.tick over one enrollment   *)
(* store.  A tick takes a snapshot of the due rows, then handles them one  *)
(* after the other: claim (a compare-and-swap on the version column),      *)
(* live consent check, dispatch to the campaign flow, settle (complete or  *)
(* fail).  Every await of tick() is a point where the other replicas run,  *)
(* consent may be revoked or the replica may die, so each awaited call is  *)
(* an action; the store's own operations are single statements of the      *)
(* database and are atomic.                                                *)
(*                                                                         *)
(* The consent registry and the campaign flow are outside src/; they       *)
(* appear as the functions consent and dispatched.                         *)
(***************************************************************************)
EXTENDS Naturals

CONSTANTS
  Enrollments,  \* ids of the rows of campaign_enrollments
  Schedulers,   \* replicas (or overlapping ticks) sharing the store
  MaxTime,      \* bound of the clock: next_action_at and now are 0..MaxTime
  NoTime,       \* next_action_at is None
  Nobody,       \* a replica that holds no claimed row
  MaxFaults     \* bound: crashes and aborted ticks in one behaviour

ASSUME TimeAssumption == MaxTime \in Nat /\ NoTime \notin 0..MaxTime
ASSUME FaultsAssumption == MaxFaults \in Nat
ASSUME NobodyAssumption ==
  Nobody \notin [id : Enrollments, version : Nat]

VARIABLES
  rows,        \* the table: state, version and next_action_at of every row
  now,         \* the wall clock
  consent,     \* consent[e]: does e's principal consent to e's campaign now
  pc,          \* pc[s]: where the tick of replica s stands
  batch,       \* batch[s]: the rows of s's due() snapshot not handled yet
  faults,      \* how many faults have happened
  claimed,     \* claimed[s]: the row s holds, as claim() returned it
  dispatched,  \* history: how often e's campaign flow was started
  consented    \* history: did consent hold at some moment since e's claim

vars == <<rows, now, faults, consent, pc, batch, claimed, dispatched, consented>>

-----------------------------------------------------------------------------
States == {"pending", "in_progress", "done", "failed"}

Row == [state : States, version : Nat, next_action_at : 0..MaxTime \cup {NoTime}]

\* What a tick remembers of a row: CampaignEnrollment's id and version.
Snapshot == [id : Enrollments, version : Nat]

\* A replica is between ticks, in the loop over its batch, at one of the
\* awaits of the loop's body with a claimed row in hand, or dead.
Holding == {"check", "dispatch", "sent", "complete", "fail"}
Places == {"idle", "loop", "down"} \cup Holding

TypeOK ==
  /\ rows \in [Enrollments -> Row]
  /\ now \in 0..MaxTime
  /\ faults \in 0..MaxFaults
  /\ consent \in [Enrollments -> BOOLEAN]
  /\ pc \in [Schedulers -> Places]
  /\ batch \in [Schedulers -> SUBSET Snapshot]
  /\ claimed \in [Schedulers -> Snapshot \cup {Nobody}]
  /\ dispatched \in [Enrollments -> Nat]
  /\ consented \in [Enrollments -> BOOLEAN]

\* Rows are inserted pending with the migration's default version 1.
Init ==
  /\ rows \in [Enrollments -> [state : {"pending"}, version : {1},
                               next_action_at : 0..MaxTime \cup {NoTime}]]
  /\ now = 0
  /\ faults = 0
  /\ consent \in [Enrollments -> BOOLEAN]
  /\ pc = [s \in Schedulers |-> "idle"]
  /\ batch = [s \in Schedulers |-> {}]
  /\ claimed = [s \in Schedulers |-> Nobody]
  /\ dispatched = [e \in Enrollments |-> 0]
  /\ consented = [e \in Enrollments |-> FALSE]

-----------------------------------------------------------------------------
(* The store: InMemoryEnrollmentStore, and the SQL statements of the        *)
(* EnrollmentStore protocol it stands for.                                  *)

IsDue(e) ==
  /\ rows[e].state = "pending"
  /\ rows[e].next_action_at # NoTime
  /\ rows[e].next_action_at <= now

due == {[id |-> e, version |-> rows[e].version] : e \in {x \in Enrollments : IsDue(x)}}

\* The WHERE clause of claim(): still pending, and the version that was read.
Claimable(snap) ==
  /\ rows[snap.id].state = "pending"
  /\ rows[snap.id].version = snap.version

\* The WHERE clause of complete() and fail(): the version claim() returned.
VersionMatches(snap) == rows[snap.id].version = snap.version

SetState(id, state) ==
  rows' = [rows EXCEPT ![id].state = state, ![id].version = @ + 1]

-----------------------------------------------------------------------------
(* FlowScheduler.tick of replica s.                                         *)

StartTick(s) ==
  /\ pc[s] = "idle"
  /\ pc' = [pc EXCEPT ![s] = "loop"]
  /\ batch' = [batch EXCEPT ![s] = due]
  /\ UNCHANGED <<rows, now, faults, consent, claimed, dispatched, consented>>

ClaimWins(s, snap) ==
  /\ pc[s] = "loop"
  /\ snap \in batch[s]
  /\ Claimable(snap)
  /\ batch' = [batch EXCEPT ![s] = @ \ {snap}]
  /\ SetState(snap.id, "in_progress")
  /\ claimed' = [claimed EXCEPT ![s] = [id |-> snap.id, version |-> snap.version + 1]]
  /\ pc' = [pc EXCEPT ![s] = "check"]
  /\ consented' = [consented EXCEPT ![snap.id] = consent[snap.id]]
  /\ UNCHANGED <<now, faults, consent, dispatched>>

\* claim() returned None: another tick has the row; go on with the next.
ClaimLoses(s, snap) ==
  /\ pc[s] = "loop"
  /\ snap \in batch[s]
  /\ ~ Claimable(snap)
  /\ batch' = [batch EXCEPT ![s] = @ \ {snap}]
  /\ UNCHANGED <<rows, now, faults, consent, pc, claimed, dispatched, consented>>

EndTick(s) ==
  /\ pc[s] = "loop"
  /\ batch[s] = {}
  /\ pc' = [pc EXCEPT ![s] = "idle"]
  /\ UNCHANGED <<rows, now, faults, consent, batch, claimed, dispatched, consented>>

\* Mutants: the answer of the registry is ignored; a revoked row is skipped
\* with a bare continue.
CheckConsentIgnored(s) ==
  /\ pc[s] = "check"
  /\ pc' = [pc EXCEPT ![s] = "dispatch"]
  /\ UNCHANGED <<rows, now, faults, consent, batch, claimed, dispatched, consented>>

CheckConsentSkips(s) ==
  /\ pc[s] = "check"
  /\ pc' = [pc EXCEPT ![s] = IF consent[claimed[s].id] THEN "dispatch" ELSE "loop"]
  /\ UNCHANGED <<rows, now, faults, consent, batch, claimed, dispatched, consented>>

CheckConsent(s) ==
  /\ pc[s] = "check"
  /\ pc' = [pc EXCEPT ![s] = IF consent[claimed[s].id] THEN "dispatch" ELSE "fail"]
  /\ UNCHANGED <<rows, now, faults, consent, batch, claimed, dispatched, consented>>

\* The POST reaches the campaign flow; its answer is still outstanding.
DispatchArrives(s) ==
  /\ pc[s] = "dispatch"
  /\ pc' = [pc EXCEPT ![s] = "sent"]
  /\ dispatched' = [dispatched EXCEPT ![claimed[s].id] = @ + 1]
  /\ UNCHANGED <<rows, now, faults, consent, batch, claimed, consented>>

\* Mutant: a lost answer is retried, as if nothing had been sent.
DispatchRetries(s) ==
  /\ pc[s] \in {"dispatch", "sent"}
  /\ pc' = [pc EXCEPT ![s] = "dispatch"]
  /\ UNCHANGED <<rows, now, faults, consent, batch, claimed, dispatched, consented>>

\* dispatch() raises: the POST never arrived, or it did and its answer is lost.
DispatchRaises(s) ==
  /\ pc[s] \in {"dispatch", "sent"}
  /\ pc' = [pc EXCEPT ![s] = "fail"]
  /\ UNCHANGED <<rows, now, faults, consent, batch, claimed, dispatched, consented>>

DispatchReturns(s) ==
  /\ pc[s] = "sent"
  /\ pc' = [pc EXCEPT ![s] = "complete"]
  /\ UNCHANGED <<rows, now, faults, consent, batch, claimed, dispatched, consented>>

\* Mutants: every outcome is recorded as done; the row gets the name of the
\* call as its state.
SettleAsDone(s) ==
  /\ pc[s] \in {"complete", "fail"}
  /\ IF VersionMatches(claimed[s])
       THEN SetState(claimed[s].id, "done")
       ELSE UNCHANGED rows
  /\ claimed' = [claimed EXCEPT ![s] = Nobody]
  /\ pc' = [pc EXCEPT ![s] = "loop"]
  /\ UNCHANGED <<now, faults, consent, batch, dispatched, consented>>

\* complete() or fail(): both settle only the version that was claimed.
Settle(s) ==
  /\ pc[s] \in {"complete", "fail"}
  /\ IF VersionMatches(claimed[s])
       THEN SetState(claimed[s].id, IF pc[s] = "complete" THEN "done" ELSE "failed")
       ELSE UNCHANGED rows
  /\ claimed' = [claimed EXCEPT ![s] = Nobody]
  /\ pc' = [pc EXCEPT ![s] = "loop"]
  /\ UNCHANGED <<now, faults, consent, batch, dispatched, consented>>

\* The tick ends at once and forgets what it held; the row stays as it is.
Forget(s, place) ==
  /\ faults < MaxFaults
  /\ faults' = faults + 1
  /\ pc' = [pc EXCEPT ![s] = place]
  /\ batch' = [batch EXCEPT ![s] = {}]
  /\ claimed' = [claimed EXCEPT ![s] = Nobody]
  /\ UNCHANGED <<rows, now, consent, dispatched, consented>>

\* An exception nobody catches ends the tick: has_consent or a store call
\* raises, or the tick is cancelled (CancelledError is no Exception).
Abort(s) ==
  /\ pc[s] \in {"loop"} \cup Holding
  /\ Forget(s, "idle")

Crash(s) ==
  /\ pc[s] # "down"
  /\ Forget(s, "down")

Restart(s) ==
  /\ pc[s] = "down"
  /\ pc' = [pc EXCEPT ![s] = "idle"]
  /\ UNCHANGED <<rows, now, faults, consent, batch, claimed, dispatched, consented>>

-----------------------------------------------------------------------------
(* The environment: the clock and the principals.                           *)

AdvanceTime ==
  /\ now < MaxTime
  /\ now' = now + 1
  /\ UNCHANGED <<rows, faults, consent, pc, batch, claimed, dispatched, consented>>

SetConsent(e) ==
  /\ consent' = [consent EXCEPT ![e] = ~ @]
  /\ consented' = [consented EXCEPT ![e] = @ \/ consent'[e]]
  /\ UNCHANGED <<rows, now, faults, pc, batch, claimed, dispatched>>

-----------------------------------------------------------------------------
Claim(s) == \E snap \in batch[s] : ClaimWins(s, snap) \/ ClaimLoses(s, snap)

Work(s) ==
  \/ StartTick(s) \/ Claim(s) \/ EndTick(s) \/ CheckConsent(s)
  \/ DispatchArrives(s) \/ DispatchRaises(s) \/ DispatchReturns(s)
  \/ Settle(s)

Next ==
  \/ \E s \in Schedulers : Work(s) \/ Abort(s) \/ Crash(s) \/ Restart(s)
  \/ \E e \in Enrollments : SetConsent(e)
  \/ AdvanceTime

Spec == Init /\ [][Next]_vars

\* Time passes, a dead replica is restarted, tick() is called again and
\* again, and every awaited call of a tick returns or raises.
Fairness ==
  /\ WF_vars(AdvanceTime)
  /\ \A s \in Schedulers : WF_vars(Work(s)) /\ WF_vars(Restart(s))

FairSpec == Spec /\ Fairness

-----------------------------------------------------------------------------
(* Safety.                                                                  *)

\* No enrollment's campaign flow is ever started twice, whatever replicas
\* race over the row, whatever crashes, aborts and restarts come between
\* (flow_scheduler.py:5-11: "can never both dispatch it").
AtMostOnceDispatch == \A e \in Enrollments : dispatched[e] <= 1

\* The row tells the truth about the flow: "done" is recorded only for a
\* campaign that was started, and a row nobody has claimed was not.
StateMatchesDispatch ==
  \A e \in Enrollments :
    /\ rows[e].state = "done" => dispatched[e] = 1
    /\ rows[e].state = "pending" => dispatched[e] = 0

\* A replica with a claimed row in hand is the only one, and the row is
\* still the version it claimed: its settle can never be a silent no-op.
HolderOwnsRow ==
  \A s \in Schedulers : pc[s] \in Holding =>
    /\ rows[claimed[s].id].state = "in_progress"
    /\ VersionMatches(claimed[s])
    /\ \A t \in Schedulers \ {s} :
         pc[t] \in Holding => claimed[t].id # claimed[s].id

\* Fail closed: a flow is started only if consent held at some moment after
\* the row was claimed.  A purpose revoked before the claim and not granted
\* again is never dispatched, whatever the enrollment's snapshot said.
DispatchNeedsLiveConsent ==
  [][\A e \in Enrollments : dispatched'[e] # dispatched[e] => consented[e]]_vars

\* A settled row is never touched again, not even by a tick that read it
\* while it was pending and comes back late with the old version.
SettledIsFinal ==
  [][\A e \in Enrollments :
       rows[e].state \in {"done", "failed"} => rows'[e] = rows[e]]_rows

\* The scheduler implements the abstract promise.
StatusOf(e) ==
  IF rows[e].state = "pending" THEN "waiting"
  ELSE IF rows[e].state # "in_progress" THEN rows[e].state
  ELSE IF dispatched[e] = 0 THEN "taken" ELSE "sent"

Dispatch == INSTANCE CampaignDispatch WITH
  status <- [e \in Enrollments |-> StatusOf(e)], deliveries <- dispatched

ImplementsCampaignDispatch == Dispatch!Spec

-----------------------------------------------------------------------------
(* Liveness.                                                                *)

Settled(e) == rows[e].state \in {"done", "failed"}

\* A row in progress that no replica holds: a tick died on it.
Lost(e) ==
  /\ faults > 0
  /\ rows[e].state = "in_progress"
  /\ \A s \in Schedulers : pc[s] \in Holding => claimed[s].id # e

\* Every row that becomes due is settled in the end, unless a tick dies
\* between its claim and its settle: neither a lost race nor a revoked
\* purpose nor a dispatch that raises leaves a row behind.
DueIsSettled == \A e \in Enrollments : IsDue(e) ~> Settled(e) \/ Lost(e)

\* migrations/versions/0001_initial_schema.py:64-66 says of the version
\* column that it "gives idempotent retries after a crash mid-run": a row
\* that a crash left in progress is tried again until it is settled.
CrashedRunIsRetried ==
  \A e \in Enrollments : Lost(e) /\ (\E s \in Schedulers : pc[s] = "down") ~> Settled(e)

-----------------------------------------------------------------------------
(* The inductive invariant: each replica that holds a row owns it, and the  *)
(* row's dispatch count follows from where its holder stands.               *)

HolderHasRow == \A s \in Schedulers : pc[s] \in Holding => claimed[s] \in Snapshot

DispatchFollowsHolder ==
  \A s \in Schedulers :
    /\ pc[s] \in {"check", "dispatch"} => dispatched[claimed[s].id] = 0
    /\ pc[s] \in {"sent", "complete"} => dispatched[claimed[s].id] = 1

IInv ==
  /\ TypeOK
  /\ HolderHasRow
  /\ HolderOwnsRow
  /\ DispatchFollowsHolder
  /\ StateMatchesDispatch
  /\ AtMostOnceDispatch

\* The part that carries consent from the claim to the dispatch.
ConsentInv ==
  /\ \A e \in Enrollments : rows[e].state = "in_progress" /\ consent[e] => consented[e]
  /\ \A s \in Schedulers : pc[s] = "dispatch" => consented[claimed[s].id]
=============================================================================
