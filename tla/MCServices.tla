---------------------------- MODULE MCServices ----------------------------
(***************************************************************************)
(* The scheduler and the compliance chain, checked in one run under the    *)
(* fairness of both: a behaviour picks one of them, and only that one      *)
(* takes steps.                                                            *)
(***************************************************************************)
EXTENDS FlowScheduler, MCComplianceChain

CONSTANTS e1, e2, q1, q2

VARIABLE part

servicesVars == <<part, vars, chainVars>>

OnlyScheduler == part = "scheduler" /\ UNCHANGED <<part, chainVars>>
OnlyChain == part = "chain" /\ UNCHANGED <<part, vars>>

ServicesInit ==
  /\ part \in {"scheduler", "chain"}
  /\ Init /\ ChainInit
  \* A part that does not move needs no choice, and leaves nothing due.
  /\ part # "scheduler" =>
       \A e \in Enrollments : rows[e].next_action_at = NoTime /\ ~ consent[e]
  /\ part # "chain" => \A q \in Requests : kind[q] = KindList[1]
  \* The two enrollments can be interchanged, and so can the two requests.
  /\ \/ rows[e1].next_action_at = NoTime
     \/ rows[e2].next_action_at # NoTime /\ rows[e1].next_action_at <= rows[e2].next_action_at
  /\ \E i, j \in DOMAIN KindList : i <= j /\ kind[q1] = KindList[i] /\ kind[q2] = KindList[j]

\* The actions of the two next-state relations.
ServicesNext ==
  \/ OnlyScheduler /\ \E s \in Schedulers : StartTick(s)
  \/ OnlyScheduler /\ \E s \in Schedulers : \E snap \in batch[s] : ClaimWins(s, snap)
  \/ OnlyScheduler /\ \E s \in Schedulers : \E snap \in batch[s] : ClaimLoses(s, snap)
  \/ OnlyScheduler /\ \E s \in Schedulers : EndTick(s)
  \/ OnlyScheduler /\ \E s \in Schedulers : CheckConsent(s)
  \/ OnlyScheduler /\ \E s \in Schedulers : DispatchArrives(s)
  \/ OnlyScheduler /\ \E s \in Schedulers : DispatchRaises(s)
  \/ OnlyScheduler /\ \E s \in Schedulers : DispatchReturns(s)
  \/ OnlyScheduler /\ \E s \in Schedulers : Settle(s)
  \/ OnlyScheduler /\ \E s \in Schedulers : Abort(s)
  \/ OnlyScheduler /\ \E s \in Schedulers : Crash(s)
  \/ OnlyScheduler /\ \E s \in Schedulers : Restart(s)
  \/ OnlyScheduler /\ \E e \in Enrollments : SetConsent(e)
  \/ OnlyScheduler /\ AdvanceTime
  \/ OnlyChain /\ \E q \in Requests : Submit(q)
  \/ OnlyChain /\ \E q \in Requests : BeforePasses(q)
  \/ OnlyChain /\ \E q \in Requests : BeforeRefuses(q)
  \/ OnlyChain /\ \E q \in Requests : BeforeFails(q)
  \/ OnlyChain /\ \E q \in Requests : BeforeDone(q)
  \/ OnlyChain /\ \E q \in Requests : InnerReturns(q)
  \/ OnlyChain /\ \E q \in Requests : HardStop(q)
  \/ OnlyChain /\ \E q \in Requests : InnerRefuses(q)
  \/ OnlyChain /\ \E q \in Requests : InnerFails(q)
  \/ OnlyChain /\ \E q \in Requests : Close(q)
  \/ OnlyChain /\ \E q \in Requests : After(q)
  \/ OnlyChain /\ \E q \in Requests : AfterFails(q)
  \/ OnlyChain /\ \E q \in Requests : Return(q)
  \/ OnlyChain /\ PassTime

\* The fairness of FlowScheduler and of the chain; a chain that was not picked
\* has no request to take a step for.
ServicesFairness ==
  /\ WF_vars(OnlyScheduler /\ AdvanceTime)
  /\ \A s \in Schedulers :
       WF_vars(OnlyScheduler /\ Work(s)) /\ WF_vars(OnlyScheduler /\ Restart(s))
  /\ \A q \in Requests : WF_chainVars(Step(q))

ServicesSpec == ServicesInit /\ [][ServicesNext]_servicesVars /\ ServicesFairness
=============================================================================
