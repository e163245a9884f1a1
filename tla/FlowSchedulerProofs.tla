-------------------------- MODULE FlowSchedulerProofs --------------------------
(***************************************************************************)
(* Theorems about FlowScheduler, for any number of rows and of replicas.   *)
(*                                                                         *)
(* The argument: a row leaves "pending" only by a claim, and the claim     *)
(* makes the claimant its one holder; only the holder dispatches, once,    *)
(* and only the holder settles the row.  A replica that dies lets the row  *)
(* go, but the row is then "in_progress" with no holder, and no action     *)
(* touches such a row again.                                               *)
(***************************************************************************)
EXTENDS FlowScheduler, TLAPS

USE DEF Holding, Places, States, Row, Snapshot

-----------------------------------------------------------------------------
(* Initial states.                                                          *)

\* A fresh table of pending rows satisfies the inductive invariant.
LEMMA InitIInv == Init => IInv
<1> SUFFICES ASSUME Init PROVE IInv
  OBVIOUS
<1>1. TypeOK
  BY TimeAssumption, FaultsAssumption DEF Init, TypeOK
<1>2. HolderHasRow /\ HolderOwnsRow /\ DispatchFollowsHolder
  BY DEF Init, HolderHasRow, HolderOwnsRow, DispatchFollowsHolder
<1>3. StateMatchesDispatch /\ AtMostOnceDispatch
  BY DEF Init, StateMatchesDispatch, AtMostOnceDispatch
<1>4. QED
  BY <1>1, <1>2, <1>3 DEF IInv

-----------------------------------------------------------------------------
(* What the one statement that writes a row does.                           *)

\* It changes the state of one row and counts its version up by one.
LEMMA SetStateEffect ==
  ASSUME TypeOK, NEW id \in Enrollments, NEW st \in States, SetState(id, st)
  PROVE  /\ rows' \in [Enrollments -> Row]
         /\ rows'[id].state = st
         /\ rows'[id].version = rows[id].version + 1
         /\ \A e \in Enrollments \ {id} : rows'[e] = rows[e]
BY DEF SetState, TypeOK

-----------------------------------------------------------------------------
(* Type correctness of each step.                                           *)

\* No step of a replica or of the environment leaves the types.
LEMMA TypeOKStep == IInv /\ [Next]_vars => TypeOK'
<1> SUFFICES ASSUME IInv, [Next]_vars PROVE TypeOK'
  OBVIOUS
<1> USE DEF IInv, TypeOK
<1>1. ASSUME NEW s \in Schedulers, StartTick(s) PROVE TypeOK'
  BY <1>1 DEF StartTick, due, IsDue
<1>2. ASSUME NEW s \in Schedulers, NEW snap \in batch[s], ClaimWins(s, snap) PROVE TypeOK'
  <2>1. snap \in Snapshot
    OBVIOUS
  <2>2. rows' \in [Enrollments -> Row]
    BY <1>2, <2>1, SetStateEffect DEF ClaimWins
  <2>3. claimed' \in [Schedulers -> Snapshot \cup {Nobody}]
    BY <1>2, <2>1 DEF ClaimWins
  <2>4. batch' \in [Schedulers -> SUBSET Snapshot]
    BY <1>2 DEF ClaimWins
  <2>5. consented' \in [Enrollments -> BOOLEAN]
    BY <1>2, <2>1 DEF ClaimWins
  <2>6. QED
    BY <1>2, <2>2, <2>3, <2>4, <2>5 DEF ClaimWins
<1>3. ASSUME NEW s \in Schedulers, NEW snap \in batch[s], ClaimLoses(s, snap) PROVE TypeOK'
  BY <1>3 DEF ClaimLoses
<1>4. ASSUME NEW s \in Schedulers, EndTick(s) PROVE TypeOK'
  BY <1>4 DEF EndTick
<1>5. ASSUME NEW s \in Schedulers, CheckConsent(s) PROVE TypeOK'
  BY <1>5 DEF CheckConsent
<1>6. ASSUME NEW s \in Schedulers, DispatchArrives(s) PROVE TypeOK'
  <2>1. claimed[s] \in Snapshot
    BY <1>6 DEF DispatchArrives, HolderHasRow
  <2>2. dispatched' \in [Enrollments -> Nat]
    BY <1>6, <2>1 DEF DispatchArrives
  <2>3. QED
    BY <1>6, <2>2 DEF DispatchArrives
<1>7. ASSUME NEW s \in Schedulers, DispatchRaises(s) \/ DispatchReturns(s) PROVE TypeOK'
  BY <1>7 DEF DispatchRaises, DispatchReturns
<1>8. ASSUME NEW s \in Schedulers, Settle(s) PROVE TypeOK'
  <2>1. claimed[s] \in Snapshot
    BY <1>8 DEF Settle, HolderHasRow
  <2>2. rows' \in [Enrollments -> Row]
    BY <1>8, <2>1, SetStateEffect DEF Settle
  <2>3. QED
    BY <1>8, <2>2 DEF Settle
<1>9. ASSUME NEW s \in Schedulers, Abort(s) \/ Crash(s) \/ Restart(s) PROVE TypeOK'
  <2>1. faults' \in 0..MaxFaults
    BY <1>9, FaultsAssumption DEF Abort, Crash, Restart, Forget
  <2>2. QED
    BY <1>9, <2>1 DEF Abort, Crash, Restart, Forget
<1>10. ASSUME NEW e \in Enrollments, SetConsent(e) PROVE TypeOK'
  BY <1>10 DEF SetConsent
<1>11. CASE AdvanceTime
  BY <1>11, TimeAssumption DEF AdvanceTime
<1>12. CASE UNCHANGED vars
  BY <1>12 DEF vars
<1>13. QED
  BY <1>1, <1>2, <1>3, <1>4, <1>5, <1>6, <1>7, <1>8, <1>9, <1>10, <1>11, <1>12
     DEF Next, Work, Claim

-----------------------------------------------------------------------------
(* Steps that write neither a row nor the dispatch history, and let no      *)
(* replica take a row in hand: a replica keeps what it holds, or drops it.  *)

KeepsOrDrops(s) ==
  \/ /\ claimed'[s] = claimed[s]
     /\ \/ pc'[s] = pc[s]
        \/ pc[s] = "check" /\ pc'[s] \in {"dispatch", "fail"}
        \/ pc[s] \in {"dispatch", "sent"} /\ pc'[s] = "fail"
        \/ pc[s] = "sent" /\ pc'[s] = "complete"
  \/ pc'[s] \notin Holding

\* Such a step preserves the inductive invariant.
LEMMA QuietStep ==
  ASSUME IInv, TypeOK', UNCHANGED <<rows, dispatched>>,
         \A s \in Schedulers : KeepsOrDrops(s)
  PROVE  IInv'
<1> USE DEF IInv, KeepsOrDrops
<1>1. HolderHasRow'
  BY DEF HolderHasRow
<1>2. HolderOwnsRow'
  BY DEF HolderOwnsRow, VersionMatches
<1>3. DispatchFollowsHolder'
  BY DEF DispatchFollowsHolder
<1>4. StateMatchesDispatch' /\ AtMostOnceDispatch'
  BY DEF StateMatchesDispatch, AtMostOnceDispatch
<1>5. QED
  BY <1>1, <1>2, <1>3, <1>4

\* A won claim makes the claimant the one holder of a row not dispatched yet.
LEMMA ClaimStep ==
  ASSUME IInv, TypeOK', NEW s \in Schedulers, NEW snap \in batch[s], ClaimWins(s, snap)
  PROVE  IInv'
<1> USE DEF IInv
<1>1. /\ snap \in Snapshot
      /\ rows[snap.id].state = "pending" /\ rows[snap.id].version = snap.version
  BY DEF ClaimWins, Claimable, TypeOK
<1>2. /\ rows'[snap.id].state = "in_progress"
      /\ rows'[snap.id].version = snap.version + 1
      /\ \A e \in Enrollments \ {snap.id} : rows'[e] = rows[e]
  BY <1>1, SetStateEffect DEF ClaimWins
<1>3. /\ pc'[s] = "check" /\ claimed'[s] = [id |-> snap.id, version |-> snap.version + 1]
      /\ \A t \in Schedulers \ {s} : pc'[t] = pc[t] /\ claimed'[t] = claimed[t]
      /\ dispatched' = dispatched
  BY DEF ClaimWins, TypeOK
<1>4. \A t \in Schedulers : pc[t] \in Holding => claimed[t].id # snap.id
  BY <1>1 DEF HolderOwnsRow
<1>5. HolderHasRow'
  BY <1>1, <1>3 DEF HolderHasRow
<1>6. HolderOwnsRow'
  BY <1>1, <1>2, <1>3, <1>4 DEF HolderOwnsRow, HolderHasRow, VersionMatches
<1>7. DispatchFollowsHolder'
  BY <1>1, <1>3 DEF DispatchFollowsHolder, StateMatchesDispatch
<1>8. StateMatchesDispatch' /\ AtMostOnceDispatch'
  BY <1>1, <1>2, <1>3 DEF StateMatchesDispatch, AtMostOnceDispatch
<1>9. QED
  BY <1>5, <1>6, <1>7, <1>8

\* The POST of the holder is the first one of its row.
LEMMA ArrivalStep ==
  ASSUME IInv, TypeOK', NEW s \in Schedulers, DispatchArrives(s)
  PROVE  IInv'
<1> USE DEF IInv
<1>1. /\ pc[s] = "dispatch" /\ claimed[s] \in Snapshot
      /\ rows[claimed[s].id].state = "in_progress"
      /\ dispatched[claimed[s].id] = 0
  BY DEF DispatchArrives, HolderHasRow, HolderOwnsRow, DispatchFollowsHolder
<1>2. /\ pc'[s] = "sent"
      /\ \A t \in Schedulers \ {s} : pc'[t] = pc[t]
      /\ claimed' = claimed /\ rows' = rows
      /\ dispatched'[claimed[s].id] = 1
      /\ \A e \in Enrollments \ {claimed[s].id} : dispatched'[e] = dispatched[e]
  BY <1>1 DEF DispatchArrives, TypeOK
<1>3. \A t \in Schedulers \ {s} : pc[t] \in Holding => claimed[t].id # claimed[s].id
  BY <1>1 DEF HolderOwnsRow
<1>4. HolderHasRow'
  BY <1>1, <1>2 DEF HolderHasRow
<1>5. HolderOwnsRow'
  BY <1>1, <1>2 DEF HolderOwnsRow, VersionMatches
<1>6. DispatchFollowsHolder'
  BY <1>1, <1>2, <1>3 DEF DispatchFollowsHolder, HolderHasRow
<1>7. StateMatchesDispatch' /\ AtMostOnceDispatch'
  BY <1>1, <1>2 DEF StateMatchesDispatch, AtMostOnceDispatch
<1>8. QED
  BY <1>4, <1>5, <1>6, <1>7

\* The holder records what became of the row and lets it go.
LEMMA SettleStep ==
  ASSUME IInv, TypeOK', NEW s \in Schedulers, Settle(s)
  PROVE  IInv'
<1> DEFINE outcome == IF pc[s] = "complete" THEN "done" ELSE "failed"
<1> USE DEF IInv
<1>1. /\ pc[s] \in {"complete", "fail"}
      /\ claimed[s] \in Snapshot /\ VersionMatches(claimed[s])
  BY DEF Settle, HolderHasRow, HolderOwnsRow
<1>2. /\ rows'[claimed[s].id].state = outcome
      /\ \A e \in Enrollments \ {claimed[s].id} : rows'[e] = rows[e]
  BY <1>1, SetStateEffect DEF Settle
<1>3. /\ pc'[s] = "loop" /\ dispatched' = dispatched
      /\ \A t \in Schedulers \ {s} : pc'[t] = pc[t] /\ claimed'[t] = claimed[t]
  BY DEF Settle, TypeOK
<1>4. \A t \in Schedulers \ {s} : pc[t] \in Holding => claimed[t].id # claimed[s].id
  BY <1>1 DEF HolderOwnsRow
<1>5. HolderHasRow'
  BY <1>3 DEF HolderHasRow
<1>6. HolderOwnsRow'
  BY <1>2, <1>3, <1>4 DEF HolderOwnsRow, HolderHasRow, VersionMatches
<1>7. DispatchFollowsHolder'
  BY <1>3 DEF DispatchFollowsHolder
<1>8. StateMatchesDispatch' /\ AtMostOnceDispatch'
  BY <1>1, <1>2, <1>3 DEF StateMatchesDispatch, AtMostOnceDispatch, DispatchFollowsHolder
<1>9. QED
  BY <1>5, <1>6, <1>7, <1>8

-----------------------------------------------------------------------------
\* Every step preserves the inductive invariant.
LEMMA NextIInv == IInv /\ [Next]_vars => IInv'
<1> SUFFICES ASSUME IInv, [Next]_vars PROVE IInv'
  OBVIOUS
<1>t. TypeOK'
  BY TypeOKStep
<1>1. ASSUME NEW s \in Schedulers, NEW snap \in batch[s], ClaimWins(s, snap) PROVE IInv'
  BY <1>1, <1>t, ClaimStep
<1>2. ASSUME NEW s \in Schedulers, DispatchArrives(s) PROVE IInv'
  BY <1>2, <1>t, ArrivalStep
<1>3. ASSUME NEW s \in Schedulers, Settle(s) PROVE IInv'
  BY <1>3, <1>t, SettleStep
<1>4. ASSUME NEW s \in Schedulers, NEW snap \in batch[s], ClaimLoses(s, snap) PROVE IInv'
  BY <1>4, <1>t, QuietStep DEF ClaimLoses, KeepsOrDrops
<1>5. ASSUME NEW s \in Schedulers,
             StartTick(s) \/ EndTick(s) \/ CheckConsent(s) \/ DispatchRaises(s) \/ DispatchReturns(s)
      PROVE  IInv'
  <2>1. \A t \in Schedulers : KeepsOrDrops(t)
    BY <1>5 DEF StartTick, EndTick, CheckConsent, DispatchRaises, DispatchReturns,
                KeepsOrDrops, IInv, TypeOK
  <2>2. QED
    BY <1>5, <1>t, <2>1, QuietStep
       DEF StartTick, EndTick, CheckConsent, DispatchRaises, DispatchReturns
<1>6. ASSUME NEW s \in Schedulers, Abort(s) \/ Crash(s) \/ Restart(s) PROVE IInv'
  <2>1. \A t \in Schedulers : KeepsOrDrops(t)
    BY <1>6 DEF Abort, Crash, Restart, Forget, KeepsOrDrops, IInv, TypeOK
  <2>2. QED
    BY <1>6, <1>t, <2>1, QuietStep DEF Abort, Crash, Restart, Forget
<1>7. ASSUME NEW e \in Enrollments, SetConsent(e) PROVE IInv'
  BY <1>7, <1>t, QuietStep DEF SetConsent, KeepsOrDrops
<1>8. CASE AdvanceTime
  BY <1>8, <1>t, QuietStep DEF AdvanceTime, KeepsOrDrops
<1>9. CASE UNCHANGED vars
  BY <1>9, <1>t, QuietStep DEF vars, KeepsOrDrops
<1>10. QED
  BY <1>1, <1>2, <1>3, <1>4, <1>5, <1>6, <1>7, <1>8, <1>9 DEF Next, Work, Claim

\* Every reachable state satisfies the inductive invariant, whatever the
\* number of rows, replicas, crashes and aborts.
THEOREM Invariance == Spec => []IInv
<1>1. QED
  BY InitIInv, NextIInv, PTL DEF Spec

\* The variables of the scheduler keep their types.
THEOREM TypeCorrectness == Spec => []TypeOK
<1>1. IInv => TypeOK
  BY DEF IInv
<1>2. QED
  BY <1>1, Invariance, PTL

\* No campaign flow is ever started twice for one enrollment.
THEOREM AtMostOnce == Spec => []AtMostOnceDispatch
<1>1. IInv => AtMostOnceDispatch
  BY DEF IInv
<1>2. QED
  BY <1>1, Invariance, PTL

\* A row recorded as done was dispatched; a pending one was not.
THEOREM StateTruth == Spec => []StateMatchesDispatch
<1>1. IInv => StateMatchesDispatch
  BY DEF IInv
<1>2. QED
  BY <1>1, Invariance, PTL

\* A claimed row has one holder, and its version is the holder's.
THEOREM Ownership == Spec => []HolderOwnsRow
<1>1. IInv => HolderOwnsRow
  BY DEF IInv
<1>2. QED
  BY <1>1, Invariance, PTL

-----------------------------------------------------------------------------
(* Action properties.                                                       *)

\* A tick that comes back late never changes a settled row.
THEOREM Finality == Spec => SettledIsFinal
<1>1. IInv /\ [Next]_vars =>
        [\A e \in Enrollments :
           rows[e].state \in {"done", "failed"} => rows'[e] = rows[e]]_rows
  <2> SUFFICES ASSUME IInv, [Next]_vars, NEW e \in Enrollments,
                      rows[e].state \in {"done", "failed"}
               PROVE  rows'[e] = rows[e]
    OBVIOUS
  <2>1. ASSUME NEW s \in Schedulers, NEW snap \in batch[s], ClaimWins(s, snap)
        PROVE  rows'[e] = rows[e]
    BY <2>1, SetStateEffect DEF ClaimWins, Claimable, IInv, TypeOK
  <2>2. ASSUME NEW s \in Schedulers, Settle(s) PROVE rows'[e] = rows[e]
    <3>1. /\ claimed[s].id \in Enrollments
          /\ rows[claimed[s].id].state = "in_progress"
      BY <2>2 DEF Settle, IInv, HolderHasRow, HolderOwnsRow
    <3>2. QED
      BY <2>2, <3>1, SetStateEffect DEF Settle, IInv
  <2>3. QED
    BY <2>1, <2>2 DEF Next, Work, Claim, vars, ClaimLoses, StartTick, EndTick, CheckConsent,
         DispatchArrives, DispatchRaises, DispatchReturns, Abort, Crash, Restart, Forget,
         SetConsent, AdvanceTime
<1>2. QED
  BY <1>1, Invariance, PTL DEF Spec, SettledIsFinal

\* The consent part of the argument: what a claim saw, and every later grant,
\* is remembered until the dispatch.
LEMMA ConsentInvStep ==
  ASSUME IInv, ConsentInv, [Next]_vars
  PROVE  ConsentInv'
<1> USE DEF IInv, TypeOK, ConsentInv
<1>1. ASSUME NEW s \in Schedulers, NEW snap \in batch[s], ClaimWins(s, snap)
      PROVE  ConsentInv'
  <2>1. snap \in Snapshot /\ rows[snap.id].state = "pending"
    BY <1>1 DEF ClaimWins, Claimable
  <2>2. \A e \in Enrollments \ {snap.id} : rows'[e] = rows[e]
    BY <1>1, <2>1, SetStateEffect DEF ClaimWins
  <2>3. /\ consent' = consent /\ consented'[snap.id] = consent[snap.id]
        /\ \A e \in Enrollments \ {snap.id} : consented'[e] = consented[e]
    BY <1>1, <2>1 DEF ClaimWins
  <2>4. \A t \in Schedulers : pc'[t] = "dispatch" =>
          pc[t] = "dispatch" /\ claimed'[t] = claimed[t]
    BY <1>1 DEF ClaimWins
  <2>5. \A t \in Schedulers : pc[t] = "dispatch" =>
          claimed[t].id \in Enrollments \ {snap.id}
    BY <2>1 DEF HolderOwnsRow, HolderHasRow
  <2>6. QED
    BY <2>2, <2>3, <2>4, <2>5
<1>2. ASSUME NEW s \in Schedulers, CheckConsent(s) PROVE ConsentInv'
  <2>1. claimed[s].id \in Enrollments /\ rows[claimed[s].id].state = "in_progress"
    BY <1>2 DEF CheckConsent, HolderHasRow, HolderOwnsRow
  <2>2. QED
    BY <1>2, <2>1 DEF CheckConsent
<1>3. ASSUME NEW s \in Schedulers, Settle(s) PROVE ConsentInv'
  <2>1. claimed[s].id \in Enrollments /\ VersionMatches(claimed[s])
    BY <1>3 DEF Settle, HolderHasRow, HolderOwnsRow
  <2>2. /\ rows'[claimed[s].id].state \in {"done", "failed"}
        /\ \A e \in Enrollments \ {claimed[s].id} : rows'[e] = rows[e]
    BY <1>3, <2>1, SetStateEffect DEF Settle
  <2>3. QED
    BY <1>3, <2>2 DEF Settle
<1>4. ASSUME NEW e \in Enrollments, SetConsent(e) PROVE ConsentInv'
  <2>1. /\ consented'[e] = (consented[e] \/ consent'[e])
        /\ \A x \in Enrollments \ {e} :
             consented'[x] = consented[x] /\ consent'[x] = consent[x]
        /\ rows' = rows /\ pc' = pc /\ claimed' = claimed
    BY <1>4, Zenon DEF SetConsent
  <2>2. \A t \in Schedulers : pc[t] = "dispatch" => claimed[t].id \in Enrollments
    BY DEF HolderHasRow
  <2>3. QED
    BY <2>1, <2>2
<1>5. ASSUME NEW s \in Schedulers,
             \/ \E snap \in batch[s] : ClaimLoses(s, snap)
             \/ StartTick(s) \/ EndTick(s) \/ DispatchArrives(s) \/ DispatchRaises(s)
             \/ DispatchReturns(s) \/ Abort(s) \/ Crash(s) \/ Restart(s)
      PROVE  ConsentInv'
  <2>1. /\ rows' = rows /\ consent' = consent /\ consented' = consented
        /\ \A t \in Schedulers : pc'[t] = "dispatch" =>
              pc[t] = "dispatch" /\ claimed'[t] = claimed[t]
    BY <1>5 DEF ClaimLoses, StartTick, EndTick, DispatchArrives, DispatchRaises,
                DispatchReturns, Abort, Crash, Restart, Forget
  <2>2. QED
    BY <2>1
<1>6. CASE AdvanceTime
  BY <1>6 DEF AdvanceTime
<1>7. CASE UNCHANGED vars
  BY <1>7 DEF vars
<1>8. QED
  BY <1>1, <1>2, <1>3, <1>4, <1>5, <1>6, <1>7 DEF Next, Work, Claim

\* A flow is started only if consent held at some moment since the claim.
THEOREM LiveConsent == Spec => DispatchNeedsLiveConsent
<1>1. Init => ConsentInv
  BY DEF Init, ConsentInv
<1>2. ConsentInv /\ IInv /\ [Next]_vars =>
        [\A e \in Enrollments : dispatched'[e] # dispatched[e] => consented[e]]_vars
  <2> SUFFICES ASSUME ConsentInv, IInv, Next, NEW e \in Enrollments,
                      dispatched'[e] # dispatched[e]
               PROVE  consented[e]
    BY DEF vars
  <2>1. PICK s \in Schedulers : DispatchArrives(s)
    BY DEF Next, Work, Claim, ClaimWins, ClaimLoses, StartTick, EndTick, CheckConsent,
         DispatchRaises, DispatchReturns, Settle, Abort, Crash, Restart, Forget,
         SetConsent, AdvanceTime
  <2>2. claimed[s].id = e
    BY <2>1 DEF DispatchArrives, IInv, TypeOK
  <2>3. QED
    BY <2>1, <2>2 DEF ConsentInv, DispatchArrives
<1>3. ConsentInv /\ IInv /\ [Next]_vars => ConsentInv'
  BY ConsentInvStep
<1>4. QED
  BY <1>1, <1>2, <1>3, Invariance, PTL DEF Spec, DispatchNeedsLiveConsent

-----------------------------------------------------------------------------
(* Refinement.                                                              *)

\* Pending, undispatched rows are what CampaignDispatch calls waiting.
LEMMA InitRefines == Init => Dispatch!Init
BY DEF Init, Dispatch!Init, StatusOf

\* Every step of the scheduler is a step of CampaignDispatch or a stutter.
LEMMA StepRefines == IInv /\ [Next]_vars => [Dispatch!Next]_(Dispatch!vars)
<1> SUFFICES ASSUME IInv, [Next]_vars PROVE [Dispatch!Next]_(Dispatch!vars)
  OBVIOUS
<1> DEFINE status == [e \in Enrollments |-> StatusOf(e)]
<1> USE DEF IInv, TypeOK
<1>1. ASSUME NEW s \in Schedulers, NEW snap \in batch[s], ClaimWins(s, snap)
      PROVE  Dispatch!Next
  <2>1. snap \in Snapshot /\ rows[snap.id].state = "pending" /\ dispatched[snap.id] = 0
    BY <1>1 DEF ClaimWins, Claimable, StateMatchesDispatch
  <2>2. /\ rows'[snap.id].state = "in_progress"
        /\ \A e \in Enrollments \ {snap.id} : rows'[e] = rows[e]
        /\ dispatched' = dispatched
    BY <1>1, <2>1, SetStateEffect DEF ClaimWins
  <2>3. status[snap.id] = "waiting" /\ status' = [status EXCEPT ![snap.id] = "taken"]
    <3>1. StatusOf(snap.id) = "waiting" /\ StatusOf(snap.id)' = "taken"
      BY <2>1, <2>2 DEF StatusOf
    <3>2. \A e \in Enrollments \ {snap.id} : StatusOf(e)' = StatusOf(e)
      BY <2>2 DEF StatusOf
    <3>3. QED
      BY <2>1, <3>1, <3>2
  <2>4. Dispatch!Take(snap.id)
    BY <2>2, <2>3 DEF Dispatch!Take
  <2>5. QED
    BY <2>1, <2>4 DEF Dispatch!Next
<1>2. ASSUME NEW s \in Schedulers, NEW id \in Enrollments, id = claimed[s].id, DispatchArrives(s)
      PROVE  Dispatch!Next
  <2>1. /\ rows[id].state = "in_progress"
        /\ dispatched[id] = 0
    BY <1>2 DEF DispatchArrives, HolderHasRow, HolderOwnsRow, DispatchFollowsHolder
  <2>2. rows' = rows /\ dispatched' = [dispatched EXCEPT ![id] = 1]
    BY <1>2, <2>1 DEF DispatchArrives
  <2>3. /\ status[id] = "taken"
        /\ status' = [status EXCEPT ![id] = "sent"]
    <3>1. StatusOf(id) = "taken" /\ StatusOf(id)' = "sent"
      BY <2>1, <2>2 DEF StatusOf
    <3>2. \A e \in Enrollments \ {id} : StatusOf(e)' = StatusOf(e)
      BY <2>2 DEF StatusOf
    <3>3. QED
      BY <2>1, <3>1, <3>2
  <2>4. Dispatch!Send(id)
    BY <2>2, <2>3 DEF Dispatch!Send
  <2>5. QED
    BY <2>1, <2>4 DEF Dispatch!Next
<1>3. ASSUME NEW s \in Schedulers, NEW id \in Enrollments, id = claimed[s].id, Settle(s)
      PROVE  Dispatch!Next
  <2> DEFINE outcome == IF pc[s] = "complete" THEN "done" ELSE "failed"
  <2>1. /\ rows[id].state = "in_progress" /\ VersionMatches(claimed[s])
        /\ pc[s] = "complete" => dispatched[id] = 1
    BY <1>3 DEF Settle, HolderHasRow, HolderOwnsRow, DispatchFollowsHolder
  <2>2. /\ rows'[id].state = outcome
        /\ \A e \in Enrollments \ {id} : rows'[e] = rows[e]
        /\ dispatched' = dispatched
    BY <1>3, <2>1, SetStateEffect DEF Settle
  <2>3. /\ status[id] \in {"taken", "sent"}
        /\ pc[s] = "complete" => status[id] = "sent"
        /\ status' = [status EXCEPT ![id] = outcome]
    <3>1. /\ StatusOf(id) \in {"taken", "sent"}
          /\ pc[s] = "complete" => StatusOf(id) = "sent"
          /\ StatusOf(id)' = outcome
      BY <2>1, <2>2 DEF StatusOf
    <3>2. \A e \in Enrollments \ {id} : StatusOf(e)' = StatusOf(e)
      BY <2>2 DEF StatusOf
    <3>3. QED
      BY <2>1, <3>1, <3>2
  <2>4. Dispatch!Finish(id) \/ Dispatch!GiveUp(id)
    BY <2>2, <2>3 DEF Dispatch!Finish, Dispatch!GiveUp
  <2>5. QED
    BY <2>1, <2>4 DEF Dispatch!Next
<1>4. ASSUME UNCHANGED <<rows, dispatched>> PROVE UNCHANGED Dispatch!vars
  BY <1>4 DEF Dispatch!vars, StatusOf
<1>5. \/ UNCHANGED <<rows, dispatched>>
      \/ \E s \in Schedulers : \/ \E snap \in batch[s] : ClaimWins(s, snap)
                              \/ DispatchArrives(s) \/ Settle(s)
  BY DEF Next, Work, Claim, vars, ClaimLoses, StartTick, EndTick, CheckConsent,
         DispatchRaises, DispatchReturns, Abort, Crash, Restart, Forget,
         SetConsent, AdvanceTime
<1>6. ASSUME NEW s \in Schedulers, DispatchArrives(s) \/ Settle(s)
      PROVE  claimed[s].id \in Enrollments
  BY <1>6 DEF DispatchArrives, Settle, HolderHasRow
<1>7. QED
  BY <1>1, <1>2, <1>3, <1>4, <1>5, <1>6

\* The scheduler keeps the promise CampaignDispatch states.
THEOREM Refinement == Spec => ImplementsCampaignDispatch
<1>1. QED
  BY InitRefines, StepRefines, Invariance, PTL DEF Spec, Dispatch!Spec, ImplementsCampaignDispatch
=============================================================================
