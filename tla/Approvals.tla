------------------------------- MODULE Approvals -------------------------------
(***************************************************************************)
(* Human approvals: HITLCheckpointLogic over InMemoryApprovalStore         *)
(* (saap/langflow_components/logic/hitl_checkpoint.py).                    *)
(*                                                                         *)
(* A request is made once and decided by whoever comes first: a resolve()  *)
(* of some approver, in two steps because it awaits get() and then         *)
(* decide(), or the sweep that expires what is overdue.                    *)
(***************************************************************************)
EXTENDS Naturals

CONSTANTS
  Requests,
  Approvers,    \* running calls of resolve()
  NoRequest,    \* what an approver that has not begun works on
  Ttl,          \* ttl_seconds
  MaxTime       \* bound: the clock

ASSUME TimeAssumption == Ttl \in Nat \ {0} /\ MaxTime \in Nat
ASSUME NoRequestAssumption == NoRequest \notin Requests

VARIABLES
  now,          \* the clock
  status,       \* _status
  expires_at,   \* expires_at[r]: when r is overdue
  approver,     \* approver[p]: where a resolve() stands, its request and decision
  told,         \* history: told[r]: who was told that his outcome of r holds
  swept         \* history: when the last sweep was

approvalVars == <<now, status, expires_at, approver, told, swept>>

Statuses == {"none", "pending", "approved", "denied", "expired"}
Final == {"approved", "denied", "expired"}
Sweeper == "sweeper"

ApprovalsTypeOK ==
  /\ now \in 0..MaxTime
  /\ status \in [Requests -> Statuses]
  /\ expires_at \in [Requests -> Nat]
  /\ approver \in [Approvers -> [at : {"get", "decide", "done"},
                                 request : Requests \cup {NoRequest}, outcome : Statuses]]
  /\ told \in [Requests -> SUBSET ((Approvers \cup {Sweeper}) \X Final)]
  /\ swept \in 0..now

ApprovalsInit ==
  /\ now = 0
  /\ status = [r \in Requests |-> "none"]
  /\ expires_at = [r \in Requests |-> 0]
  /\ approver = [p \in Approvers |-> [at |-> "get", request |-> NoRequest,
                                      outcome |-> "none"]]
  /\ told = [r \in Requests |-> {}]
  /\ swept = 0

-----------------------------------------------------------------------------
\* checkpoint: the request gets its deadline and is stored as pending.
Create(r) ==
  /\ status[r] = "none"
  /\ status' = [status EXCEPT ![r] = "pending"]
  /\ expires_at' = [expires_at EXCEPT ![r] = now + Ttl]
  /\ UNCHANGED <<now, approver, told, swept>>

\* resolve finds the request, whatever its status.
GetRequest(p, r, outcome) ==
  /\ approver[p].at = "get"
  /\ status[r] # "none"
  /\ approver' = [approver EXCEPT ![p] = [at |-> "decide", request |-> r,
                                          outcome |-> outcome]]
  /\ UNCHANGED <<now, status, expires_at, told, swept>>

\* Mutant: decide() overwrites a decision, as long as nothing expired.
DecidableAgain(r) == status[r] # "expired"

\* Only a pending request can be decided; the clock is not looked at.
Decidable(r) == status[r] = "pending"

\* decide() sets the status, or raises ApprovalNotPending.
Decide(p) ==
  LET r == approver[p].request IN
  /\ approver[p].at = "decide"
  /\ IF Decidable(r)
       THEN /\ status' = [status EXCEPT ![r] = approver[p].outcome]
            /\ told' = [told EXCEPT ![r] = @ \cup {<<p, approver[p].outcome>>}]
       ELSE UNCHANGED <<status, told>>
  /\ approver' = [approver EXCEPT ![p] = [at |-> "done", request |-> NoRequest,
                                          outcome |-> "none"]]
  /\ UNCHANGED <<now, expires_at, swept>>

\* Mutant: a request is not overdue yet at its deadline.
IsOverdueAfter(r) == status[r] = "pending" /\ expires_at[r] < now

IsOverdue(r) == status[r] = "pending" /\ expires_at[r] <= now

\* The sweep expires everything overdue at once and returns it.
ExpireOverdue ==
  /\ status' = [r \in Requests |-> IF IsOverdue(r) THEN "expired" ELSE status[r]]
  /\ told' = [r \in Requests |-> IF IsOverdue(r) THEN told[r] \cup {<<Sweeper, "expired">>}
                                 ELSE told[r]]
  /\ swept' = now
  /\ UNCHANGED <<now, expires_at, approver>>

AdvanceTime ==
  /\ now < MaxTime
  /\ now' = now + 1
  /\ UNCHANGED <<status, expires_at, approver, told, swept>>

\* What happens to requests once they are made.
ApprovalsNext ==
  \/ \E p \in Approvers : Decide(p) \/
       \E r \in Requests, outcome \in {"approved", "denied"} : GetRequest(p, r, outcome)
  \/ ExpireOverdue
  \/ AdvanceTime

\* Approvals by themselves: requests are made at any time.
ApprovalsSpec ==
  ApprovalsInit /\ [][ApprovalsNext \/ \E r \in Requests : Create(r)]_approvalVars

-----------------------------------------------------------------------------
\* One outcome per request: nobody is told that his decision holds, or that the
\* request expired, unless it is the decision that stands; nobody else is.
OneOutcome ==
  \A r \in Requests :
    /\ \A d \in told[r] : d[2] = status[r]
    /\ \A d, e \in told[r] : d = e
    /\ status[r] \in Final => told[r] # {}

\* Expiry is exact: what a sweep left pending was not overdue at that sweep,
\* so a decision can come late only until the first sweep at or after the
\* deadline; and nothing expires before its deadline.
ExpiryIsExact ==
  \A r \in Requests :
    /\ status[r] = "pending" => swept < expires_at[r]
    /\ status[r] = "expired" => expires_at[r] <= swept

\* A decision is final: no approver, no sweep and no new request changes it.
DecisionIsFinal ==
  [][\A r \in Requests : status[r] \in Final => status'[r] = status[r]]_approvalVars

\* The inductive invariant: nobody was told anything of an open request, and an
\* approver decides only about a request that exists.
ApprovalsIInv ==
  /\ ApprovalsTypeOK
  /\ \A r \in Requests : status[r] \in {"none", "pending"} => told[r] = {}
  /\ \A p \in Approvers : approver[p].at = "decide" =>
       /\ approver[p].request \in Requests
       /\ approver[p].outcome \in {"approved", "denied"}
       /\ status[approver[p].request] # "none"
  /\ OneOutcome
  /\ ExpiryIsExact
=============================================================================
