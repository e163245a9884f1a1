---------------------------- MODULE Provisioning ----------------------------
(***************************************************************************)
(* TenantProvisioner: plan, apply and destroy of one tenant over a list of *)
(* resource provisioners (saap/tenancy/provisioner.py).  A call awaits one *)
(* provisioner after the other, and any of them may raise, before or after *)
(* it did its work; operators call again, and may call while another call  *)
(* is under way.  The provisioners themselves are outside the repository:  *)
(* they keep the promise of the ResourceProvisioner protocol.              *)
(***************************************************************************)
EXTENDS Naturals, Sequences, FiniteSetsExt

CONSTANTS
  Provisioners,   \* how many, in order of application
  Blueprints,     \* the blueprints a tenant may be given
  Absent,         \* a resource that was not applied, or was destroyed
  ByHand,         \* a resource somebody has changed by hand
  Operators,      \* callers of the provisioner
  ProvisionCalls, \* bound on the calls of all operators
  Drifts          \* bound on the changes by hand

ASSUME ProvisioningAssumption ==
  /\ Provisioners \in Nat /\ ProvisionCalls \in Nat /\ Drifts \in Nat
  /\ Absent # ByHand /\ Blueprints \cap {Absent, ByHand} = {}

VARIABLES
  built,     \* built[n]: what the n-th resource was made from
  call,       \* call[o]: the latest call of operator o
  drifted,   \* changes by hand so far
  contested  \* history: two calls that want different things have overlapped

provisionVars == <<built, call, drifted, contested>>

Resources == 1..Provisioners
NoCall == [kind |-> "none", blueprint |-> Absent, done |-> 0, changed |-> <<>>,
           at |-> "returned", calls |-> 0, quiet |-> TRUE]

ProvisioningInit ==
  /\ built = [n \in Resources |-> Absent]
  /\ call = [o \in Operators |-> NoCall]
  /\ drifted = 0 /\ contested = FALSE

\* What a call makes of every resource; a plan makes nothing of it.
Goal(j) == <<j.kind, j.blueprint>>
Wanted(j) == IF j.kind = "destroy" THEN Absent ELSE j.blueprint

\* Mutant: in the order of application.
DestroyedFirstToLast(j) == j.done + 1

\* The resource a call turns to next: destroy() goes backwards.
Turn(j) == IF j.kind = "destroy" THEN Provisioners - j.done ELSE j.done + 1
Done(j) == {n \in Resources : IF j.kind = "destroy" THEN n > Provisioners - j.done ELSE n <= j.done}

Writes(j) == j.at = "running" /\ j.kind \in {"apply", "destroy"}

\* The calls of all operators.
CallsMade == MapThenSumSet(LAMBDA p : call[p].calls, Operators)

BeginCall(o, kind, blueprint) ==
  /\ call[o].at # "running"
  /\ CallsMade < ProvisionCalls
  /\ kind = "destroy" <=> blueprint = Absent
  /\ LET new == [NoCall EXCEPT !.kind = kind, !.blueprint = blueprint, !.at = "running",
                             !.calls = call[o].calls + 1]
     IN /\ call' = [call EXCEPT ![o] = new]
        /\ contested' = (contested \/ \E p \in Operators \ {o} :
             Writes(new) /\ Writes(call[p]) /\ Goal(call[p]) # Goal(new))
  /\ UNCHANGED <<built, drifted>>

\* A write is noticed by every call, under way or over, that counted on
\* something else.
Written(o) ==
  [p \in Operators |->
     IF p # o /\ Goal(call[p]) # Goal(call[o]) THEN [call[p] EXCEPT !.quiet = FALSE] ELSE call[p]]

\* The next provisioner does its part: apply() says whether it changed
\* anything, and with dry_run it only says so.
ProvisionNext(o) ==
  LET j == call[o]
      n == Turn(j)
      next == [j EXCEPT !.done = @ + 1, !.changed = Append(@, built[n] # Wanted(j))]
  IN /\ j.at = "running" /\ j.done < Provisioners
     /\ IF Writes(j)
        THEN /\ built' = [built EXCEPT ![n] = Wanted(j)]
             /\ call' = [Written(o) EXCEPT ![o] = next]
        ELSE built' = built /\ call' = [call EXCEPT ![o] = next]
     /\ UNCHANGED <<drifted, contested>>

\* The next provisioner raises, its work done or not: so does the call.
ProvisionRaises(o, worked) ==
  LET j == call[o] IN
  /\ j.at = "running" /\ j.done < Provisioners
  /\ worked => Writes(j)
  /\ built' = IF worked THEN [built EXCEPT ![Turn(j)] = Wanted(j)] ELSE built
  /\ call' = [(IF worked THEN Written(o) ELSE call) EXCEPT ![o].at = "raised"]
  /\ UNCHANGED <<drifted, contested>>

ProvisionReturns(o) ==
  /\ call[o].at = "running" /\ call[o].done = Provisioners
  /\ call' = [call EXCEPT ![o].at = "returned"]
  /\ UNCHANGED <<built, drifted, contested>>

\* Somebody changes a resource that exists.
ChangeByHand(n) ==
  /\ drifted < Drifts /\ built[n] \in Blueprints
  /\ built' = [built EXCEPT ![n] = ByHand]
  /\ call' = [o \in Operators |-> [call[o] EXCEPT !.quiet = FALSE]]
  /\ drifted' = drifted + 1
  /\ UNCHANGED contested

ProvisioningNext ==
  \/ \E o \in Operators :
       \/ \E b \in Blueprints : BeginCall(o, "plan", b) \/ BeginCall(o, "apply", b)
       \/ BeginCall(o, "destroy", Absent)
       \/ ProvisionNext(o)
       \/ \E worked \in BOOLEAN : ProvisionRaises(o, worked)
       \/ ProvisionReturns(o)
  \/ \E n \in Resources : ChangeByHand(n)

-----------------------------------------------------------------------------
\* Half-done calls can be repeated: whatever failed before, a call that nobody
\* with another aim interfered with has left the resources it passed as it
\* wants them, all of them when it returns (also beside a second call with the
\* same aim), and a plan has told exactly the resources that differ, those
\* changed by hand included.  And as long as no two aims overlapped, what
\* exists is what was applied first: no resource is left standing without
\* those it was built after, wherever applies and destroys gave up.
RetryConverges ==
  /\ \A o \in Operators :
       LET j == call[o] IN
       j.quiet /\ j.kind # "none" =>
         /\ j.kind # "plan" => \A n \in Done(j) : built[n] = Wanted(j)
         /\ j.kind = "plan" => \A n \in Done(j) : j.changed[n] <=> built[n] # Wanted(j)
         /\ j.at = "returned" => Done(j) = Resources
  /\ ~ contested => \A n \in Resources : built[n] # Absent => \A m \in 1..n : built[m] # Absent
=============================================================================
