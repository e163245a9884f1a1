---------------------------- MODULE ComplianceChain ----------------------------
(***************************************************************************)
(* The interceptor chain every request passes: saap/compliance/chain.py    *)
(* with the five interceptors gateway/app.py installs, in their order.     *)
(*                                                                         *)
(* Requests run concurrently.  Each before(), the inner call and each      *)
(* after() is an await, so each is an action of its own; they share the    *)
(* rate limiter's counters, the audit log and the clock.  A request goes   *)
(* through wrap() (the gateway: inner starts a run) or through run_before  *)
(* and run_after (the canvas: the flow's nodes lie in between, and         *)
(* AuditClose is a node of its own).  The graph of a canvas is not code of *)
(* this repository; it may run its nodes for a refused envelope or not.    *)
(*                                                                         *)
(* A message's text is one of "raw", "masked" and "refusal"; the audit row *)
(* keeps the request it belongs to instead of a content hash.              *)
(***************************************************************************)
EXTENDS Integers, Sequences, SequencesExt, FiniteSets

CONSTANTS
  Requests,       \* the envelopes
  Kinds,          \* what a request may be: a set of RequestKind records
  Tenants,
  Limit,          \* RateLimiter's default_limit
  WindowSeconds,  \* RateLimiter's window_seconds
  BusinessStart,  \* InMemoryPolicyGuard's business_hours_start
  BusinessEnd,    \* InMemoryPolicyGuard's business_hours_end
  DayLength,      \* ticks of the clock in a day
  MaxClock,       \* bound of the clock
  FailingStores   \* interceptors whose store may fail with another exception

RequestKind ==
  [tenant : Tenants, path : {"wrap", "canvas"}, consents : BOOLEAN, personal : BOOLEAN,
   call : {"none", "read", "write", "high_risk"}]

ASSUME KindsAssumption == Kinds \subseteq RequestKind
ASSUME NumbersAssumption ==
  /\ Limit \in Nat /\ WindowSeconds \in Nat \ {0} /\ MaxClock \in Nat
  /\ DayLength \in Nat \ {0} /\ BusinessStart \in Nat /\ BusinessEnd \in Nat

VARIABLES
  kind,      \* kind[q]: what the request is
  phase,     \* phase[q]: where it stands
  ran,       \* ran[q]: the interceptors whose before() returned, in order
  todo,      \* todo[q]: the interceptors whose after() is still to run
  violation, \* violation[q]: envelope.metadata["violation"], or "none"
  content,   \* content[q]: envelope.message.content
  decision,  \* decision[q]: envelope.metadata["policy_decision"], or "none"
  counts,    \* the backend's counters: key -> [count, expires_at]
  audit,     \* audit[t]: the rows of tenant t
  clock,
  trace,     \* history: the before, inner and after steps of q, in order
  admitted   \* history: requests the rate limiter let pass, with their window

chainVars ==
  <<kind, phase, ran, todo, violation, content, decision, counts, audit, clock, trace,
    admitted>>

local == <<kind, phase, ran, todo, violation, content, decision, trace>>

-----------------------------------------------------------------------------
\* gateway/app.py builds the chain in this order.
Chain == <<"consent_gate", "pii_masking", "policy_guard", "rate_limiter", "audit_recorder">>

Interceptors == {"consent_gate", "pii_masking", "policy_guard", "rate_limiter",
                 "audit_recorder"}

Phases == {"new", "before", "inner", "between", "after", "returned", "raised"}

\* RateLimiter's key: the tenant and the tool, or the tenant's plain messages.
Keys == Tenants \X {"message", "tool"}
KeyOf(q) == <<kind[q].tenant, IF kind[q].call = "none" THEN "message" ELSE "tool">>

Rows == [req : Requests, kind : {"message", "response", "refusal"}]

Stages == {"before", "after"} \X Interceptors \cup {<<"inner", "inner">>}

ChainTypeOK ==
  /\ kind \in [Requests -> Kinds]
  /\ phase \in [Requests -> Phases]
  /\ ran \in [Requests -> Seq(Interceptors)]
  /\ todo \in [Requests -> Seq(Interceptors)]
  /\ trace \in [Requests -> Seq(Stages)]
  /\ violation \in [Requests -> Interceptors \cup {"inner", "none"}]
  /\ content \in [Requests -> {"raw", "masked", "refusal"}]
  /\ decision \in [Requests -> {"none", "allow", "require_human"}]
  /\ counts \in [Keys -> [count : Nat, expires_at : Nat]]
  /\ audit \in [Tenants -> Seq(Rows)]
  /\ clock \in 0..MaxClock
  /\ admitted \subseteq [req : Requests, key : Keys, window : Nat]

\* The window of a key nobody has counted yet has expired: (0, 0.0).
ChainInit ==
  /\ kind \in [Requests -> Kinds]
  /\ phase = [q \in Requests |-> "new"]
  /\ ran = [q \in Requests |-> <<>>]
  /\ todo = [q \in Requests |-> <<>>]
  /\ violation = [q \in Requests |-> "none"]
  /\ content = [q \in Requests |-> "raw"]
  /\ decision = [q \in Requests |-> "none"]
  /\ counts = [k \in Keys |-> [count |-> 0, expires_at |-> 0]]
  /\ audit = [t \in Tenants |-> <<>>]
  /\ clock = 0
  /\ trace = [q \in Requests |-> <<>>]
  /\ admitted = {}

-----------------------------------------------------------------------------
(* The interceptors.                                                        *)

\* incr_and_get: a fixed window that the first request after expiry opens.
\* A request that will be refused is counted as well.
Counted(k) ==
  IF clock >= counts[k].expires_at
    THEN [count |-> 1, expires_at |-> clock + WindowSeconds]
    ELSE [counts[k] EXCEPT !.count = @ + 1]

InBusinessHours == BusinessStart <= clock % DayLength /\ clock % DayLength < BusinessEnd

\* InMemoryPolicyGuard.evaluate, with no list of allowed write tools.
Evaluate(call) ==
  CASE call = "high_risk" -> "require_human"
    [] call = "read" -> "allow"
    [] call = "write" -> IF InBusinessHours THEN "allow" ELSE "deny"

\* No grant for the purpose of the request, in the snapshot that the session's
\* tenant context holds.
NoConsent(q) == ~ kind[q].consents

Denied(q) == kind[q].call # "none" /\ Evaluate(kind[q].call) = "deny"

\* Mutant: the limit itself is let through once more.
OverBudgetLate(q) == Counted(KeyOf(q)).count > Limit + 1

OverBudget(q) == Counted(KeyOf(q)).count > Limit

\* before() of the interceptor raises ComplianceViolation.
Refuses(q, name) ==
  \/ name = "consent_gate" /\ NoConsent(q)
  \/ name = "policy_guard" /\ Denied(q)
  \/ name = "rate_limiter" /\ OverBudget(q)

AppendRow(q, rowKind) ==
  audit' = [audit EXCEPT ![kind[q].tenant] = Append(@, [req |-> q, kind |-> rowKind])]

\* The counter moves whether the request passes or not.
CountRequest(q, name) ==
  counts' = IF name = "rate_limiter" THEN [counts EXCEPT ![KeyOf(q)] = Counted(KeyOf(q))]
                                     ELSE counts

\* AuditRecorder.before().
RecordRequest(q, name) ==
  IF name = "audit_recorder" THEN AppendRow(q, "message") ELSE UNCHANGED audit

\* Mutant: public text is masked, personal text is not.
MaskPublic(q, name) ==
  IF name = "pii_masking" /\ ~ kind[q].personal THEN "masked" ELSE content[q]

\* PIIMaskingInterceptor under AlwaysMaskPersonal.
Masked(q, name) ==
  IF name = "pii_masking" /\ kind[q].personal THEN "masked" ELSE content[q]

-----------------------------------------------------------------------------
(* wrap() and run_before().                                                 *)

Submit(q) ==
  /\ phase[q] = "new"
  /\ phase' = [phase EXCEPT ![q] = "before"]
  /\ UNCHANGED <<kind, ran, todo, violation, content, decision, counts, audit, clock,
                 trace, admitted>>

NextUp(q) == Chain[Len(ran[q]) + 1]

InBefore(q) == phase[q] = "before" /\ Len(ran[q]) < Len(Chain)

BeforePasses(q) ==
  /\ InBefore(q)
  /\ LET name == NextUp(q) IN
       /\ ~ Refuses(q, name)
       /\ ran' = [ran EXCEPT ![q] = Append(@, name)]
       /\ trace' = [trace EXCEPT ![q] = Append(@, <<"before", name>>)]
       /\ CountRequest(q, name)
       /\ content' = [content EXCEPT ![q] = Masked(q, name)]
       /\ decision' = [decision EXCEPT ![q] =
            IF name = "policy_guard" /\ kind[q].call # "none"
              THEN Evaluate(kind[q].call) ELSE @]
       /\ RecordRequest(q, name)
       /\ admitted' = IF name = "rate_limiter"
            THEN admitted \cup {[req |-> q, key |-> KeyOf(q),
                                 window |-> Counted(KeyOf(q)).expires_at]}
            ELSE admitted
  /\ UNCHANGED <<kind, phase, todo, violation, clock>>

\* Mutant: a call that needs a human waits inside the chain.
BeforeDoneWaits(q) ==
  /\ phase[q] = "before"
  /\ Len(ran[q]) = Len(Chain)
  /\ decision[q] # "require_human"
  /\ phase' = [phase EXCEPT ![q] = "inner"]
  /\ UNCHANGED <<kind, ran, todo, violation, content, decision, counts, audit, clock,
                 trace, admitted>>

\* All before() calls returned: wrap goes on to inner, run_before returns.
BeforeDone(q) ==
  /\ phase[q] = "before"
  /\ Len(ran[q]) = Len(Chain)
  /\ phase' = [phase EXCEPT ![q] = "inner"]
  /\ UNCHANGED <<kind, ran, todo, violation, content, decision, counts, audit, clock,
                 trace, admitted>>

\* Mutant: wrap goes on to inner() after the except branch.
ViolateFallsThrough(q, name, unwind) ==
  /\ violation' = [violation EXCEPT ![q] = name]
  /\ content' = [content EXCEPT ![q] = "refusal"]
  /\ todo' = [todo EXCEPT ![q] = unwind]
  /\ phase' = [phase EXCEPT ![q] = "inner"]

\* The except branch: the message becomes the refusal text and the envelope is
\* flagged.  wrap unwinds at once; run_before returns the envelope, and what the
\* graph does with it is the graph's affair.
Violate(q, name, unwind) ==
  /\ violation' = [violation EXCEPT ![q] = name]
  /\ content' = [content EXCEPT ![q] = "refusal"]
  /\ todo' = [todo EXCEPT ![q] = unwind]
  /\ phase' = [phase EXCEPT ![q] = IF kind[q].path = "wrap" THEN "after" ELSE "inner"]

\* Mutant: all interceptors unwind, not only those that ran.
BeforeRefusesAll(q) ==
  /\ InBefore(q)
  /\ Refuses(q, NextUp(q))
  /\ CountRequest(q, NextUp(q))
  /\ Violate(q, NextUp(q), Reverse(Chain))
  /\ UNCHANGED <<kind, ran, decision, audit, clock, trace, admitted>>

BeforeRefuses(q) ==
  /\ InBefore(q)
  /\ Refuses(q, NextUp(q))
  /\ CountRequest(q, NextUp(q))
  /\ Violate(q, NextUp(q), Reverse(ran[q]))
  /\ UNCHANGED <<kind, ran, decision, audit, clock, trace, admitted>>

Raise(q) ==
  /\ phase' = [phase EXCEPT ![q] = "raised"]
  /\ UNCHANGED <<kind, ran, todo, violation, content, decision, counts, audit, clock,
                 trace, admitted>>

\* Mutant: an interceptor whose store is down is passed over.
BeforeFailsOpen(q) ==
  /\ InBefore(q)
  /\ NextUp(q) \in FailingStores
  /\ ran' = [ran EXCEPT ![q] = Append(@, NextUp(q))]
  /\ UNCHANGED <<kind, phase, todo, violation, content, decision, counts, audit, clock,
                 trace, admitted>>

\* A store behind the interceptor fails: no ComplianceViolation, so nothing
\* unwinds and the exception reaches the caller.
BeforeFails(q) ==
  /\ InBefore(q)
  /\ NextUp(q) \in FailingStores
  /\ Raise(q)

-----------------------------------------------------------------------------
(* The inner call, and the flow between the two canvas nodes.               *)

\* inner() returns (wrap), or the graph has run its nodes (canvas).  It may run
\* them for a refused envelope too: no node looks at the flag.
InnerReturns(q) ==
  /\ phase[q] = "inner"
  /\ trace' = [trace EXCEPT ![q] = Append(@, <<"inner", "inner">>)]
  /\ todo' = [todo EXCEPT ![q] = Reverse(ran[q])]
  /\ phase' = [phase EXCEPT ![q] = IF kind[q].path = "wrap" THEN "after" ELSE "between"]
  /\ UNCHANGED <<kind, ran, violation, content, decision, counts, audit, clock, admitted>>

\* The graph hands a refused envelope straight to its output.
HardStop(q) ==
  /\ phase[q] = "inner" /\ kind[q].path = "canvas" /\ violation[q] # "none"
  /\ todo' = [todo EXCEPT ![q] = Reverse(ran[q])]
  /\ phase' = [phase EXCEPT ![q] = "between"]
  /\ UNCHANGED <<kind, ran, violation, content, decision, counts, audit, clock, trace,
                 admitted>>

\* A ComplianceViolation out of inner(): wrap unwinds all five.
InnerRefuses(q) ==
  /\ phase[q] = "inner"
  /\ kind[q].path = "wrap"
  /\ Violate(q, "inner", Reverse(ran[q]))
  /\ UNCHANGED <<kind, ran, decision, counts, audit, clock, trace, admitted>>

InnerFails(q) ==
  /\ phase[q] = "inner"
  /\ Raise(q)

\* AuditClose is reached: run_after starts with what run_before recorded.
Close(q) ==
  /\ phase[q] = "between"
  /\ phase' = [phase EXCEPT ![q] = "after"]
  /\ UNCHANGED <<kind, ran, todo, violation, content, decision, counts, audit, clock,
                 trace, admitted>>

-----------------------------------------------------------------------------
(* The way out.                                                             *)

\* after() of the next interceptor; only AuditRecorder's does anything.
After(q) ==
  /\ phase[q] = "after"
  /\ todo[q] # <<>>
  /\ IF Head(todo[q]) = "audit_recorder"
       THEN AppendRow(q, IF violation[q] # "none" THEN "refusal" ELSE "response")
       ELSE UNCHANGED audit
  /\ trace' = [trace EXCEPT ![q] = Append(@, <<"after", Head(todo[q])>>)]
  /\ todo' = [todo EXCEPT ![q] = Tail(@)]
  /\ UNCHANGED <<kind, phase, ran, violation, content, decision, counts, clock, admitted>>

AfterFails(q) ==
  /\ phase[q] = "after"
  /\ todo[q] # <<>>
  /\ Head(todo[q]) \in FailingStores
  /\ Raise(q)

Return(q) ==
  /\ phase[q] = "after"
  /\ todo[q] = <<>>
  /\ phase' = [phase EXCEPT ![q] = "returned"]
  /\ UNCHANGED <<kind, ran, todo, violation, content, decision, counts, audit, clock,
                 trace, admitted>>

PassTime ==
  /\ clock < MaxClock
  /\ clock' = clock + 1
  /\ UNCHANGED <<local, counts, audit, admitted>>

-----------------------------------------------------------------------------
Step(q) ==
  \/ BeforePasses(q) \/ BeforeRefuses(q) \/ BeforeFails(q) \/ BeforeDone(q)
  \/ InnerReturns(q) \/ HardStop(q) \/ InnerRefuses(q) \/ InnerFails(q)
  \/ After(q) \/ AfterFails(q) \/ Return(q)

ChainNext == PassTime \/ \E q \in Requests : Submit(q) \/ Step(q) \/ Close(q)

ChainSpec == ChainInit /\ [][ChainNext]_chainVars

\* Every awaited call of a request returns or raises in the end.  Nothing is
\* assumed of Close: no code makes a canvas flow reach its AuditClose node.
FairChainSpec == ChainSpec /\ \A q \in Requests : WF_chainVars(Step(q))

-----------------------------------------------------------------------------
(* Safety.                                                                  *)

Befores(names) == [i \in 1..Len(names) |-> <<"before", names[i]>>]
Afters(names) == [i \in 1..Len(names) |-> <<"after", names[i]>>]
Entered(q) == <<"inner", "inner">> \in ToSet(trace[q])

\* The chain is an onion: whatever refuses or fails where, the steps a
\* request has taken are the before() calls in the chain's order, the inner
\* call at most once, and the after() calls of exactly those interceptors
\* that ran, innermost first; a request that returned has run them all.
OnionOrder ==
  \A q \in Requests :
    LET inner == IF Entered(q) THEN <<<<"inner", "inner">>>> ELSE <<>>
        whole == Befores(ran[q]) \o inner \o Afters(Reverse(ran[q]))
    IN /\ IsPrefix(ran[q], Chain)
       /\ IsPrefix(trace[q], whole)
       /\ phase[q] = "returned" => trace[q] = whole

\* What the flow is given: a request that all five interceptors let pass, with
\* the consent it needs, or, on the canvas, one that was refused and of which
\* nothing is left but the refusal.  wrap() never calls inner() once refused.
FlowGetsScreened ==
  \A q \in Requests : phase[q] = "inner" \/ Entered(q) =>
    \/ violation[q] = "none" /\ ran[q] = Chain /\ kind[q].consents
    \/ violation[q] # "none" /\ kind[q].path = "canvas" /\ content[q] = "refusal"

\* chain.py:134-136: "Downstream components (GroundedResponder, MCPToolkit) must
\* treat metadata["compliance_violation"] as a hard stop".
RefusedIsHardStop == \A q \in Requests : violation[q] # "none" => ~ Entered(q)

\* Personal text leaves the chain masked or not at all: neither the flow nor
\* the caller ever holds the raw text.
RawNeverLeaves ==
  \A q \in Requests :
    kind[q].personal /\ phase[q] \in {"inner", "between", "returned"} => content[q] # "raw"

\* No more than Limit requests of one key pass in one window, however the
\* requests of all paths interleave with the clock.
WindowBudget ==
  \A a \in admitted :
    Cardinality({b \in admitted : b.key = a.key /\ b.window = a.window}) <= Limit

Log(q) == audit[kind[q].tenant]
RowsOf(q) == {i \in DOMAIN Log(q) : Log(q)[i].req = q}

\* The rows of a request tell its story: its "message" row is there before
\* the flow runs for it, even when the audit store may fail (an unaudited
\* request fails closed), unless it was refused, and a request that passed the
\* chain and came back has one closing row of the right kind after it, and no
\* other.
AuditTellsOutcome ==
  \A q \in Requests :
    /\ phase[q] = "inner" /\ violation[q] = "none" =>
         \E i \in RowsOf(q) : RowsOf(q) = {i} /\ Log(q)[i].kind = "message"
    /\ phase[q] = "returned" /\ ran[q] = Chain =>
         \E i, j \in RowsOf(q) :
           /\ RowsOf(q) = {i, j} /\ i < j
           /\ Log(q)[i].kind = "message"
           /\ Log(q)[j].kind = IF violation[q] # "none" THEN "refusal" ELSE "response"

\* audit.py:5-8: "every request that enters the compliance chain gets a row,
\* including refusals raised by an earlier interceptor".
RefusalsAreAudited ==
  \A q \in Requests : phase[q] = "returned" /\ violation[q] # "none" =>
    \E i \in RowsOf(q) : Log(q)[i].kind = "refusal"

-----------------------------------------------------------------------------
(* Liveness.                                                                *)

\* Every submitted request comes back, as a reply, a refusal or an exception;
\* on the canvas, at least to the graph between the two compliance nodes.
EveryRequestAnswered ==
  \A q \in Requests :
    phase[q] = "before" ~> phase[q] \in {"returned", "raised", "between"}
=============================================================================
