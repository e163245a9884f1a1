------------------------- MODULE ComplianceChainProofs -------------------------
(***************************************************************************)
(* Theorems about ComplianceChain, for any requests, tenants, limits,      *)
(* windows, faults and clock.                                              *)
(*                                                                         *)
(* The argument: where a request stands says how many before() calls it    *)
(* has behind it and how many after() calls are still due, and so what its *)
(* whole trace is, element by element; a request goes on to the flow with  *)
(* five of the former, so with consent, masked and with its audit row, or  *)
(* on the canvas as the refusal it was turned into.                        *)
(* The counter of a window never lags behind those it let pass, and a new  *)
(* window begins after all earlier ones have expired.                      *)
(***************************************************************************)
EXTENDS ComplianceChain, FiniteSetTheorems, SequenceTheorems, TLAPS

\* How many before() calls have returned, how many after() calls are due.
Passed(q) == Len(ran[q])
Due(q) == Len(todo[q])

\* The i-th step of a request with the interceptors r behind it; e is 1 if the
\* flow was entered.
Item(r, e, i) ==
  CASE i <= Len(r) -> <<"before", r[i]>>
    [] e = 1 /\ i = Len(r) + 1 -> <<"inner", "inner">>
    [] OTHER -> <<"after", r[2 * Len(r) + e + 1 - i]>>

\* The trace t of a request after a of its after() calls.
IsShape(r, t, e, a) ==
  /\ Len(t) = Len(r) + e + a
  /\ \A i \in 1..Len(t) : t[i] = Item(r, e, i)
Shape(q, e, a) == IsShape(ran[q], trace[q], e, a)

\* The interceptors passed are the first of the chain, those due the last ones
\* passed.
InChainOrder(q) ==
  /\ Passed(q) <= 5
  /\ \A i \in 1..Passed(q) : ran[q][i] = Chain[i]
Unwinding(q) ==
  /\ Due(q) <= Passed(q)
  /\ \A i \in 1..Due(q) : todo[q][i] = ran[q][Due(q) + 1 - i]

WayOut == {"between", "after", "returned"}

\* What the flow may be given.
Admissible(q) == IF violation[q] = "none" THEN Passed(q) = 5 ELSE kind[q].path = "canvas"

\* A request on its way out; e is 1 if the flow was entered.
WentOut(q, e) ==
  /\ Shape(q, e, Passed(q) - Due(q))
  /\ violation[q] = "none" => e = 1
  /\ e = 1 => Admissible(q)

Progress(q) ==
  /\ InChainOrder(q)
  /\ phase[q] \in {"new", "before"} => violation[q] = "none" /\ Shape(q, 0, 0)
  /\ phase[q] = "new" => Passed(q) = 0
  /\ phase[q] = "inner" => Admissible(q) /\ Shape(q, 0, 0)
  /\ phase[q] \in WayOut => Unwinding(q) /\ \E e \in {0, 1} : WentOut(q, e)
  /\ phase[q] = "between" => Due(q) = Passed(q)
  /\ phase[q] = "returned" => Due(q) = 0
  /\ phase[q] = "raised" => \E e \in {0, 1}, a \in 0..Passed(q) :
       Shape(q, e, a) /\ (e = 1 => Admissible(q))

\* What the interceptors passed have made sure of.
Guarded(q) ==
  /\ Passed(q) >= 1 => kind[q].consents
  /\ Passed(q) >= 2 /\ kind[q].personal => content[q] # "raw"
  /\ violation[q] # "none" => content[q] = "refusal"

\* The rows of a request: none before the audit recorder, its message, and
\* with the audit recorder's after() the closing row.
Audited(q) ==
  /\ Passed(q) < 5 => RowsOf(q) = {}
  /\ \/ phase[q] \in {"before", "inner", "between"}
     \/ phase[q] = "after" /\ Due(q) = 5
     => (Passed(q) = 5 => \E i \in RowsOf(q) : RowsOf(q) = {i} /\ Log(q)[i].kind = "message")
  /\ phase[q] \in {"after", "returned"} /\ Due(q) < 5 /\ Passed(q) = 5 =>
       \E i, j \in RowsOf(q) :
         /\ RowsOf(q) = {i, j} /\ i < j
         /\ Log(q)[i].kind = "message"
         /\ Log(q)[j].kind = IF violation[q] # "none" THEN "refusal" ELSE "response"

\* Those a window let pass.
AdmittedIn(k, w) == {a \in admitted : a.key = k /\ a.window = w}

Budget ==
  /\ IsFiniteSet(admitted)
  /\ \A k \in Keys :
       /\ \A a \in admitted : a.key = k => a.window <= counts[k].expires_at
       /\ Cardinality(AdmittedIn(k, counts[k].expires_at)) <= counts[k].count
  /\ \A k \in Keys, w \in Nat : Cardinality(AdmittedIn(k, w)) <= Limit

OneStory(q) == Progress(q) /\ Guarded(q) /\ Audited(q)

ChainInv ==
  /\ ChainTypeOK
  /\ \A q \in Requests : OneStory(q)
  /\ Budget

-----------------------------------------------------------------------------
(* The steps of a trace.                                                    *)

\* A before() call adds its interceptor and its step.
LEMMA ShapeBefore ==
  ASSUME NEW r \in Seq(Interceptors), NEW t \in Seq(Stages), NEW n \in Interceptors,
         IsShape(r, t, 0, 0)
  PROVE  IsShape(Append(r, n), Append(t, <<"before", n>>), 0, 0)
<1>1. <<"before", n>> \in Stages
  BY DEF Stages
<1>2. Len(Append(r, n)) = Len(r) + 1 /\ Len(Append(t, <<"before", n>>)) = Len(t) + 1
  BY <1>1, AppendProperties
<1>3. Len(t) = Len(r) /\ Len(r) \in Nat
  BY LenProperties DEF IsShape
<1>4. ASSUME NEW i \in 1..(Len(t) + 1)
      PROVE  Append(t, <<"before", n>>)[i] = Item(Append(r, n), 0, i)
  <2>1. Item(Append(r, n), 0, i) = <<"before", Append(r, n)[i]>>
    BY <1>2, <1>3 DEF Item
  <2>2. CASE i = Len(t) + 1
    BY <1>1, <1>3, <2>1, <2>2, AppendProperties
  <2>3. CASE i \in 1..Len(t)
    <3>1. t[i] = <<"before", r[i]>>
      BY <1>3, <2>3 DEF IsShape, Item
    <3>2. Append(t, <<"before", n>>)[i] = t[i] /\ Append(r, n)[i] = r[i]
      BY <1>1, <1>3, <2>3, AppendProperties
    <3> QED BY <2>1, <3>1, <3>2
  <2> QED BY <1>3, <2>2, <2>3
<1> QED BY <1>2, <1>3, <1>4 DEF IsShape

\* The inner call is entered after the before() calls.
LEMMA ShapeInner ==
  ASSUME NEW r \in Seq(Interceptors), NEW t \in Seq(Stages), IsShape(r, t, 0, 0)
  PROVE  IsShape(r, Append(t, <<"inner", "inner">>), 1, 0)
<1>1. <<"inner", "inner">> \in Stages
  BY DEF Stages
<1>2. Len(Append(t, <<"inner", "inner">>)) = Len(t) + 1
  BY <1>1, AppendProperties
<1>3. Len(t) = Len(r) /\ Len(r) \in Nat
  BY LenProperties DEF IsShape
<1>4. ASSUME NEW i \in 1..(Len(t) + 1)
      PROVE  Append(t, <<"inner", "inner">>)[i] = Item(r, 1, i)
  <2>1. CASE i = Len(t) + 1
    BY <1>1, <1>3, <2>1, AppendProperties DEF Item
  <2>2. CASE i \in 1..Len(t)
    <3>1. t[i] = <<"before", r[i]>>
      BY <1>3, <2>2 DEF IsShape, Item
    <3>2. Append(t, <<"inner", "inner">>)[i] = t[i]
      BY <1>1, <1>3, <2>2, AppendProperties
    <3>3. Item(r, 1, i) = <<"before", r[i]>>
      BY <1>3, <2>2 DEF Item
    <3> QED BY <3>1, <3>2, <3>3
  <2> QED BY <1>3, <2>1, <2>2
<1> QED BY <1>2, <1>3, <1>4 DEF IsShape

\* The after() calls come in the opposite order.
LEMMA ShapeAfter ==
  ASSUME NEW r \in Seq(Interceptors), NEW t \in Seq(Stages), NEW e \in {0, 1},
         NEW a \in Nat, a < Len(r), IsShape(r, t, e, a)
  PROVE  IsShape(r, Append(t, <<"after", r[Len(r) - a]>>), e, a + 1)
<1> DEFINE x == <<"after", r[Len(r) - a]>>
<1>3. Len(t) = Len(r) + e + a /\ Len(r) \in Nat /\ Len(t) \in Nat
  BY LenProperties DEF IsShape
<1>0. r[Len(r) - a] \in Interceptors
  <2>1. Len(r) - a \in 1..Len(r)
    BY <1>3
  <2> QED BY <2>1, ElementOfSeq
<1>1. x \in Stages
  BY <1>0 DEF Stages
<1>2. Len(Append(t, x)) = Len(t) + 1 /\ Append(t, x)[Len(t) + 1] = x
      /\ \A i \in 1..Len(t) : Append(t, x)[i] = t[i]
  BY <1>1, AppendProperties
<1>4. ASSUME NEW i \in 1..(Len(t) + 1) PROVE Append(t, x)[i] = Item(r, e, i)
  <2>1. CASE i = Len(t) + 1
    <3>1. 2 * Len(r) + e + 1 - i = Len(r) - a /\ ~ i <= Len(r) /\ ~ (e = 1 /\ i = Len(r) + 1)
      BY <1>3, <2>1
    <3>2. Item(r, e, i) = x
      BY <3>1 DEF Item
    <3> QED BY <1>2, <2>1, <3>2
  <2>2. CASE i \in 1..Len(t)
    BY <1>2, <2>2 DEF IsShape
  <2> QED BY <1>3, <2>1, <2>2
<1>5. Len(Append(t, x)) = Len(r) + e + (a + 1)
  BY <1>2, <1>3
<1> HIDE DEF x
<1>6. IsShape(r, Append(t, x), e, a + 1)
  BY <1>2, <1>4, <1>5 DEF IsShape
<1> QED BY <1>6 DEF x

LEMMA Joined ==
  ASSUME NEW c \in Seq(Stages), NEW d \in Seq(Stages)
  PROVE  /\ c \o d \in Seq(Stages)
         /\ Len(c \o d) = Len(c) + Len(d)
         /\ \A i \in 1..Len(c) : (c \o d)[i] = c[i]
         /\ \A i \in (Len(c) + 1)..(Len(c) + Len(d)) : (c \o d)[i] = d[i - Len(c)]
OBVIOUS

Onion(r, inner) == Befores(r) \o inner \o Afters(Reverse(r))

\* A trace of this shape is a prefix of the whole onion, and all of it once
\* every after() call has returned.
LEMMA ShapeIsOnion ==
  ASSUME NEW r \in Seq(Interceptors), NEW t \in Seq(Stages), NEW e \in {0, 1},
         NEW a \in 0..Len(r), IsShape(r, t, e, a),
         NEW inner, e = 1 => inner = <<<<"inner", "inner">>>>, e = 0 => inner = <<>>
  PROVE  IsPrefix(t, Onion(r, inner)) /\ (a = Len(r) => t = Onion(r, inner))
<1> DEFINE whole == Befores(r) \o inner \o Afters(Reverse(r))
<1>1. Len(r) \in Nat /\ Len(t) \in Nat /\ Len(t) = Len(r) + e + a
  BY LenProperties DEF IsShape
<1>2. inner \in Seq(Stages) /\ Len(inner) = e
  <2>1. <<"inner", "inner">> \in Stages
    BY DEF Stages
  <2>2. e = 1 => inner \in Seq(Stages) /\ Len(inner) = 1
    <3>1. <<<<"inner", "inner">>>> \in Seq(Stages) /\ Len(<<<<"inner", "inner">>>>) = 1
      BY <2>1
    <3> QED BY <3>1
  <2>3. e = 0 => inner \in Seq(Stages) /\ Len(inner) = 0
    BY EmptySeq
  <2> QED BY <2>2, <2>3
<1>3. Befores(r) \in Seq(Stages) /\ Len(Befores(r)) = Len(r)
      /\ \A i \in 1..Len(r) : Befores(r)[i] = <<"before", r[i]>>
  <2>1. \A i \in 1..Len(r) : <<"before", r[i]>> \in Stages
    BY ElementOfSeq DEF Stages
  <2> QED BY <1>1, <2>1 DEF Befores
<1>4. Reverse(r) \in Seq(Interceptors) /\ Len(Reverse(r)) = Len(r)
      /\ \A i \in 1..Len(r) : Reverse(r)[i] = r[Len(r) - i + 1]
  <2>1. \A i \in 1..Len(r) : r[Len(r) - i + 1] \in Interceptors
    BY <1>1, ElementOfSeq
  <2> QED BY <1>1, <2>1 DEF Reverse
<1>5. Afters(Reverse(r)) \in Seq(Stages) /\ Len(Afters(Reverse(r))) = Len(r)
      /\ \A i \in 1..Len(r) : Afters(Reverse(r))[i] = <<"after", r[Len(r) - i + 1]>>
  <2>1. \A i \in 1..Len(r) : <<"after", Reverse(r)[i]>> \in Stages
    BY <1>4, ElementOfSeq DEF Stages
  <2> QED BY <1>1, <1>4, <2>1 DEF Afters
<1> DEFINE way == Befores(r) \o inner
<1>w. way \in Seq(Stages) /\ Len(way) = Len(r) + e
  BY <1>1, <1>2, <1>3, Joined
<1>6. whole \in Seq(Stages) /\ Len(whole) = Len(r) + e + Len(r)
  BY <1>1, <1>5, <1>w, Joined
<1>7. ASSUME NEW i \in 1..(Len(r) + e + Len(r))
      PROVE  whole[i] = Item(r, e, i)
  <2>1. i \in 1..Len(way) => whole[i] = way[i]
    BY <1>1, <1>5, <1>w, Joined
  <2>2. CASE i \in 1..Len(r)
    <3>1. way[i] = Befores(r)[i]
      BY <1>1, <1>2, <1>3, <2>2, Joined
    <3>2. i \in 1..Len(way)
      BY <1>1, <1>w, <2>2
    <3>3. whole[i] = <<"before", r[i]>>
      BY <1>3, <2>1, <2>2, <3>1, <3>2
    <3> HIDE DEF whole, way
    <3> QED BY <1>1, <2>2, <3>3 DEF Item
  <2>3. CASE e = 1 /\ i = Len(r) + 1
    <3>1. inner[1] = <<"inner", "inner">>
      BY <2>3
    <3>2. i \in (Len(Befores(r)) + 1)..(Len(Befores(r)) + Len(inner)) /\ i - Len(Befores(r)) = 1
      BY <1>1, <1>2, <1>3, <2>3
    <3>3. way[i] = inner[1]
      BY <1>2, <1>3, <3>2, Joined
    <3>4. i \in 1..Len(way) /\ ~ i <= Len(r)
      BY <1>1, <1>w, <2>3
    <3>5. whole[i] = <<"inner", "inner">>
      BY <2>1, <3>1, <3>3, <3>4
    <3> HIDE DEF whole, way
    <3> QED BY <2>3, <3>4, <3>5 DEF Item
  <2>4. CASE i \in (Len(r) + e + 1)..(Len(r) + e + Len(r))
    <3>0. i \in (Len(way) + 1)..(Len(way) + Len(Afters(Reverse(r))))
      BY <1>1, <1>5, <1>w, <2>4
    <3>1. whole[i] = Afters(Reverse(r))[i - Len(way)]
      BY <1>5, <1>w, <3>0, Joined
    <3> HIDE DEF whole, way
    <3>2. i - Len(way) \in 1..Len(r) /\ ~ i <= Len(r) /\ ~ (e = 1 /\ i = Len(r) + 1)
          /\ Len(r) - (i - Len(way)) + 1 = 2 * Len(r) + e + 1 - i
      BY <1>1, <1>w, <2>4
    <3>3. whole[i] = <<"after", r[2 * Len(r) + e + 1 - i]>>
      BY <1>5, <3>1, <3>2
    <3>4. Item(r, e, i) = <<"after", r[2 * Len(r) + e + 1 - i]>>
      BY <3>2 DEF Item
    <3> QED BY <3>3, <3>4
  <2>5. \/ i \in 1..Len(r)
        \/ e = 1 /\ i = Len(r) + 1
        \/ i \in (Len(r) + e + 1)..(Len(r) + e + Len(r))
    BY <1>1
  <2> HIDE DEF whole, way
  <2> QED BY <2>2, <2>3, <2>4, <2>5
<1> HIDE DEF whole, way
<1>8. Len(t) <= Len(whole) /\ \A i \in 1..Len(t) : t[i] = whole[i]
  <2>1. \A i \in 1..Len(t) : i \in 1..(Len(r) + e + Len(r))
    BY <1>1
  <2> QED BY <1>1, <1>6, <1>7, <2>1 DEF IsShape
<1>9. IsPrefix(t, whole)
  <2>1. SubSeq(t, 1, Len(t)) = SubSeq(whole, 1, Len(t))
    BY <1>1, <1>6, <1>8
  <2> QED BY <1>8, <2>1 DEF IsPrefix
<1>10. a = Len(r) => t = whole
  BY <1>1, <1>6, <1>8, SeqEqual
<1> QED BY <1>9, <1>10 DEF whole, Onion

\* The flow was entered if and only if the inner step is in the trace.
LEMMA ShapeTellsEntry ==
  ASSUME NEW r \in Seq(Interceptors), NEW t \in Seq(Stages), NEW e \in {0, 1},
         NEW a \in 0..Len(r), IsShape(r, t, e, a)
  PROVE  <<"inner", "inner">> \in ToSet(t) <=> e = 1
<1>1. Len(r) \in Nat /\ Len(t) = Len(r) + e + a /\ DOMAIN t = 1..Len(t)
  BY LenProperties DEF IsShape
<1>2. CASE e = 1
  <2>1. Len(r) + 1 \in DOMAIN t
    BY <1>1, <1>2
  <2>2. t[Len(r) + 1] = <<"inner", "inner">>
    BY <1>1, <1>2, <2>1 DEF IsShape, Item
  <2> QED BY <1>2, <2>1, <2>2 DEF ToSet
<1>3. CASE e = 0
  <2>1. \A i \in DOMAIN t : t[i][1] \in {"before", "after"}
    <3>1. ASSUME NEW i \in DOMAIN t PROVE t[i][1] \in {"before", "after"}
      BY <1>1, <1>3 DEF IsShape, Item
    <3> QED BY <3>1
  <2>2. \A i \in DOMAIN t : t[i] # <<"inner", "inner">>
    BY <2>1
  <2> QED BY <1>3, <2>2 DEF ToSet
<1> QED BY <1>2, <1>3

-----------------------------------------------------------------------------
(* Types.                                                                   *)

LEMMA AboutChain ==
  /\ Len(Chain) = 5 /\ Chain \in Seq(Interceptors)
  /\ Chain[1] = "consent_gate" /\ Chain[2] = "pii_masking" /\ Chain[3] = "policy_guard"
  /\ Chain[4] = "rate_limiter" /\ Chain[5] = "audit_recorder"
BY DEF Chain, Interceptors

\* The interceptor that runs next.
LEMMA AboutNextUp ==
  ASSUME ChainTypeOK, NEW q \in Requests, InBefore(q)
  PROVE  /\ Passed(q) \in 0..4 /\ Passed(q) + 1 \in 1..5
         /\ NextUp(q) = Chain[Passed(q) + 1] /\ NextUp(q) \in Interceptors
<1>1. ran[q] \in Seq(Interceptors) /\ Len(ran[q]) < 5
  BY AboutChain DEF ChainTypeOK, InBefore
<1>2. Len(ran[q]) \in Nat
  BY <1>1, LenProperties
<1>3. Passed(q) \in 0..4 /\ Passed(q) + 1 \in 1..5
  <2>1. Passed(q) \in Nat /\ Passed(q) < 5
    BY <1>1, <1>2 DEF Passed
  <2> QED BY <2>1
<1>4. Chain[Passed(q) + 1] \in Interceptors
  BY <1>3, AboutChain, ElementOfSeq
<1> QED BY <1>3, <1>4 DEF NextUp, Passed

LEMMA KeyTyped ==
  ASSUME ChainTypeOK, NEW q \in Requests
  PROVE  kind[q] \in RequestKind /\ kind[q].tenant \in Tenants /\ KeyOf(q) \in Keys
<1>1. kind[q] \in RequestKind
  BY KindsAssumption DEF ChainTypeOK
<1> QED BY <1>1 DEF RequestKind, KeyOf, Keys

LEMMA CountedTyped ==
  ASSUME ChainTypeOK, NEW k \in Keys
  PROVE  Counted(k) \in [count : Nat, expires_at : Nat]
<1>1. counts[k] \in [count : Nat, expires_at : Nat] /\ clock \in Nat
  BY NumbersAssumption DEF ChainTypeOK
<1>2. counts[k].count + 1 \in Nat /\ clock + WindowSeconds \in Nat
  BY <1>1, NumbersAssumption
<1>3. [counts[k] EXCEPT !.count = @ + 1] \in [count : Nat, expires_at : Nat]
  BY <1>1, <1>2
<1>4. [count |-> 1, expires_at |-> clock + WindowSeconds] \in [count : Nat, expires_at : Nat]
  BY <1>2
<1> QED BY <1>3, <1>4 DEF Counted

LEMMA CountsTyped ==
  ASSUME ChainTypeOK, NEW q \in Requests, NEW name, CountRequest(q, name)
  PROVE  counts' \in [Keys -> [count : Nat, expires_at : Nat]]
<1>1. Counted(KeyOf(q)) \in [count : Nat, expires_at : Nat]
  BY KeyTyped, CountedTyped
<1> QED BY <1>1, KeyTyped DEF CountRequest, ChainTypeOK

\* The log of a tenant after a row was appended, seen by any request.
LEMMA RowAppended ==
  ASSUME ChainTypeOK, NEW q \in Requests, NEW rowKind \in {"message", "response", "refusal"},
         AppendRow(q, rowKind), kind' = kind
  PROVE  /\ audit' \in [Tenants -> Seq(Rows)]
         /\ RowsOf(q)' = RowsOf(q) \cup {Len(Log(q)) + 1}
         /\ Log(q)'[Len(Log(q)) + 1].kind = rowKind
         /\ \A r \in Requests :
              /\ r # q => RowsOf(r)' = RowsOf(r)
              /\ \A i \in RowsOf(r) : Log(r)'[i] = Log(r)[i]
         /\ \A i \in RowsOf(q) : i \in Nat /\ i < Len(Log(q)) + 1
<1> DEFINE row == [req |-> q, kind |-> rowKind]
<1>1. row \in Rows /\ row.req = q /\ row.kind = rowKind
  BY DEF Rows
<1>2. audit' = [audit EXCEPT ![kind[q].tenant] = Append(audit[kind[q].tenant], row)]
  BY DEF AppendRow
<1>3. audit \in [Tenants -> Seq(Rows)] /\ \A r \in Requests : kind[r].tenant \in Tenants
  BY KeyTyped DEF ChainTypeOK
<1> HIDE DEF row
<1>4. \A t \in Tenants : Append(audit[t], row) \in Seq(Rows)
  BY <1>1, <1>3, AppendProperties
<1>5. ASSUME NEW r \in Requests
      PROVE  /\ Log(r) \in Seq(Rows) /\ Len(Log(r)) \in Nat
             /\ DOMAIN Log(r) = 1..Len(Log(r))
             /\ \/ Log(r)' = Log(r) /\ r # q
                \/ /\ Log(r)' = Append(Log(r), row) /\ Log(r) = Log(q)
                   /\ DOMAIN Log(r)' = 1..(Len(Log(r)) + 1)
                   /\ Log(r)'[Len(Log(r)) + 1] = row
                   /\ \A i \in 1..Len(Log(r)) : Log(r)'[i] = Log(r)[i]
  <2>1. Log(r) \in Seq(Rows) /\ Len(Log(r)) \in Nat /\ DOMAIN Log(r) = 1..Len(Log(r))
    BY <1>3, LenProperties DEF Log
  <2>2. CASE kind[r].tenant = kind[q].tenant
    <3>1. Log(r)' = Append(Log(r), row) /\ Log(r) = Log(q)
      BY <1>2, <1>3, <2>2 DEF Log
    <3>2. Append(Log(r), row) \in Seq(Rows) /\ Len(Append(Log(r), row)) = Len(Log(r)) + 1
      BY <1>1, <2>1, AppendProperties
    <3>3. DOMAIN Append(Log(r), row) = 1..(Len(Log(r)) + 1)
      BY <3>2, LenProperties
    <3>4. Append(Log(r), row)[Len(Log(r)) + 1] = row
          /\ \A i \in 1..Len(Log(r)) : Append(Log(r), row)[i] = Log(r)[i]
      BY <1>1, <2>1, AppendProperties
    <3> QED BY <2>1, <3>1, <3>3, <3>4
  <2>3. CASE kind[r].tenant # kind[q].tenant
    BY <1>2, <1>3, <2>1, <2>3 DEF Log
  <2> QED BY <2>2, <2>3
<1>6. audit' \in [Tenants -> Seq(Rows)]
  BY <1>2, <1>3, <1>4
<1>7. RowsOf(q)' = RowsOf(q) \cup {Len(Log(q)) + 1} /\ Log(q)'[Len(Log(q)) + 1].kind = rowKind
  <2>1. Log(q)' = Append(Log(q), row) /\ DOMAIN Log(q)' = 1..(Len(Log(q)) + 1)
        /\ Log(q)'[Len(Log(q)) + 1] = row /\ Len(Log(q)) \in Nat
        /\ DOMAIN Log(q) = 1..Len(Log(q))
        /\ \A i \in 1..Len(Log(q)) : Log(q)'[i] = Log(q)[i]
    BY <1>5
  <2>2. \A i : i \in 1..(Len(Log(q)) + 1) <=> i \in 1..Len(Log(q)) \/ i = Len(Log(q)) + 1
    BY <2>1
  <2>3. RowsOf(q)' = {i \in DOMAIN Log(q)' : Log(q)'[i].req = q}
    BY DEF RowsOf
  <2>4. ASSUME NEW i PROVE i \in RowsOf(q)' <=> i \in RowsOf(q) \/ i = Len(Log(q)) + 1
    BY <1>1, <2>1, <2>2, <2>3 DEF RowsOf
  <2> QED BY <1>1, <2>1, <2>4
<1>8. ASSUME NEW r \in Requests
      PROVE  /\ r # q => RowsOf(r)' = RowsOf(r)
             /\ \A i \in RowsOf(r) : Log(r)'[i] = Log(r)[i]
  <2>1. CASE Log(r)' = Log(r) /\ r # q
    BY <2>1 DEF RowsOf
  <2>2. CASE ~ (Log(r)' = Log(r) /\ r # q)
    <3>1. DOMAIN Log(r)' = 1..(Len(Log(r)) + 1) /\ Len(Log(r)) \in Nat
          /\ Log(r)'[Len(Log(r)) + 1] = row /\ DOMAIN Log(r) = 1..Len(Log(r))
          /\ \A i \in 1..Len(Log(r)) : Log(r)'[i] = Log(r)[i]
      BY <1>5, <2>2
    <3>2. \A i : i \in 1..(Len(Log(r)) + 1) <=> i \in 1..Len(Log(r)) \/ i = Len(Log(r)) + 1
      BY <3>1
    <3>3. ASSUME r # q, NEW i PROVE i \in RowsOf(r)' <=> i \in RowsOf(r)
      <4>1. RowsOf(r)' = {j \in DOMAIN Log(r)' : Log(r)'[j].req = r}
        BY DEF RowsOf
      <4> QED BY <1>1, <3>1, <3>2, <3>3, <4>1 DEF RowsOf
    <3> QED BY <3>1, <3>3 DEF RowsOf
  <2> QED BY <2>1, <2>2
<1>9. \A i \in RowsOf(q) : i \in Nat /\ i < Len(Log(q)) + 1
  BY <1>5 DEF RowsOf
<1> QED BY <1>6, <1>7, <1>8, <1>9

LEMMA InitTyped == ChainInit => ChainTypeOK
<1> SUFFICES ASSUME ChainInit PROVE ChainTypeOK
  OBVIOUS
<1>1. \A k \in Keys : [count |-> 0, expires_at |-> 0] \in [count : Nat, expires_at : Nat]
  OBVIOUS
<1>2. counts \in [Keys -> [count : Nat, expires_at : Nat]]
  BY <1>1 DEF ChainInit
<1>3. 0 \in 0..MaxClock
  BY NumbersAssumption
<1> QED BY <1>2, <1>3 DEF ChainInit, ChainTypeOK, Phases

\* A sequence of a request's own grows by one, or is replaced.
LEMMA AppendTyped ==
  ASSUME NEW T, NEW f \in [Requests -> Seq(T)], NEW q \in Requests, NEW x \in T
  PROVE  [f EXCEPT ![q] = Append(@, x)] \in [Requests -> Seq(T)]
<1>1. Append(f[q], x) \in Seq(T)
  BY AppendProperties
<1> QED BY <1>1

LEMMA ReverseTyped ==
  ASSUME NEW r \in Seq(Interceptors)
  PROVE  /\ Reverse(r) \in Seq(Interceptors) /\ Len(Reverse(r)) = Len(r)
         /\ \A i \in 1..Len(r) : Reverse(r)[i] = r[Len(r) - i + 1]
<1>1. Len(r) \in Nat
  BY LenProperties
<1>2. \A i \in 1..Len(r) : r[Len(r) - i + 1] \in Interceptors
  BY <1>1, ElementOfSeq
<1> QED BY <1>1, <1>2 DEF Reverse

LEMMA PassesTyped ==
  ASSUME ChainTypeOK, NEW q \in Requests, BeforePasses(q)
  PROVE  ChainTypeOK'
<1> DEFINE name == NextUp(q)
<1>0. InBefore(q) /\ name \in Interceptors /\ kind[q] \in RequestKind
  BY AboutNextUp, KeyTyped DEF BeforePasses
<1>1. /\ ran' = [ran EXCEPT ![q] = Append(@, name)]
      /\ trace' = [trace EXCEPT ![q] = Append(@, <<"before", name>>)]
      /\ CountRequest(q, name) /\ RecordRequest(q, name)
      /\ content' = [content EXCEPT ![q] = Masked(q, name)]
      /\ decision' = [decision EXCEPT ![q] =
           IF name = "policy_guard" /\ kind[q].call # "none" THEN Evaluate(kind[q].call) ELSE @]
      /\ UNCHANGED <<kind, phase, todo, violation, clock>>
      /\ ~ Refuses(q, name)
  BY DEF BeforePasses
<1>2. admitted' = IF name = "rate_limiter"
        THEN admitted \cup {[req |-> q, key |-> KeyOf(q), window |-> Counted(KeyOf(q)).expires_at]}
        ELSE admitted
  BY DEF BeforePasses
<1> HIDE DEF name
<1>3. ran' \in [Requests -> Seq(Interceptors)]
  BY <1>0, <1>1, AppendTyped DEF ChainTypeOK
<1>4. trace' \in [Requests -> Seq(Stages)]
  <2>1. <<"before", name>> \in Stages
    BY <1>0 DEF Stages
  <2> QED BY <1>1, <2>1, AppendTyped DEF ChainTypeOK
<1>5. counts' \in [Keys -> [count : Nat, expires_at : Nat]]
  BY <1>1, CountsTyped
<1>6. audit' \in [Tenants -> Seq(Rows)]
  BY <1>1, RowAppended DEF RecordRequest, ChainTypeOK
<1>7. content' \in [Requests -> {"raw", "masked", "refusal"}]
  BY <1>1 DEF ChainTypeOK, Masked
<1>8. decision' \in [Requests -> {"none", "allow", "require_human"}]
  <2>1. kind[q].call \in {"none", "read", "write", "high_risk"}
    BY <1>0 DEF RequestKind
  <2>2. name = "policy_guard" /\ kind[q].call # "none" =>
          Evaluate(kind[q].call) \in {"allow", "require_human"}
    BY <1>1, <2>1 DEF Refuses, Denied, Evaluate
  <2> QED BY <1>1, <2>2 DEF ChainTypeOK
<1>9. admitted' \subseteq [req : Requests, key : Keys, window : Nat]
  <2>1. KeyOf(q) \in Keys /\ Counted(KeyOf(q)).expires_at \in Nat
    BY KeyTyped, CountedTyped
  <2>2. admitted \subseteq [req : Requests, key : Keys, window : Nat]
    BY DEF ChainTypeOK
  <2> QED BY <1>2, <2>1, <2>2
<1> QED BY <1>1, <1>3, <1>4, <1>5, <1>6, <1>7, <1>8, <1>9 DEF ChainTypeOK

LEMMA RefusesTyped ==
  ASSUME ChainTypeOK, NEW q \in Requests, BeforeRefuses(q) \/ InnerRefuses(q)
  PROVE  ChainTypeOK'
<1>1. counts' \in [Keys -> [count : Nat, expires_at : Nat]]
  BY CountsTyped DEF BeforeRefuses, InnerRefuses, ChainTypeOK
<1>2. PICK name \in Interceptors \cup {"inner"} : Violate(q, name, Reverse(ran[q]))
  BY AboutNextUp DEF BeforeRefuses, InnerRefuses
<1>3. Reverse(ran[q]) \in Seq(Interceptors)
  BY ReverseTyped DEF ChainTypeOK
<1>4. /\ todo' \in [Requests -> Seq(Interceptors)]
      /\ phase' \in [Requests -> Phases]
      /\ violation' \in [Requests -> Interceptors \cup {"inner", "none"}]
      /\ content' \in [Requests -> {"raw", "masked", "refusal"}]
  BY <1>2, <1>3 DEF Violate, ChainTypeOK, Phases
<1>5. UNCHANGED <<kind, ran, decision, audit, clock, trace, admitted>>
  BY DEF BeforeRefuses, InnerRefuses
<1> QED BY <1>1, <1>4, <1>5 DEF ChainTypeOK

LEMMA ReturnsTyped ==
  ASSUME ChainTypeOK, NEW q \in Requests, InnerReturns(q)
  PROVE  ChainTypeOK'
<1>1. Reverse(ran[q]) \in Seq(Interceptors)
  BY ReverseTyped DEF ChainTypeOK
<1>2. trace' \in [Requests -> Seq(Stages)]
  <2>1. <<"inner", "inner">> \in Stages
    BY DEF Stages
  <2> QED BY <2>1, AppendTyped DEF ChainTypeOK, InnerReturns
<1>3. todo' \in [Requests -> Seq(Interceptors)] /\ phase' \in [Requests -> Phases]
  BY <1>1 DEF InnerReturns, ChainTypeOK, Phases
<1> QED BY <1>2, <1>3 DEF InnerReturns, ChainTypeOK

LEMMA HardStopTyped ==
  ASSUME ChainTypeOK, NEW q \in Requests, HardStop(q)
  PROVE  ChainTypeOK'
<1>1. Reverse(ran[q]) \in Seq(Interceptors)
  BY ReverseTyped DEF ChainTypeOK
<1>2. todo' \in [Requests -> Seq(Interceptors)] /\ phase' \in [Requests -> Phases]
  BY <1>1 DEF HardStop, ChainTypeOK, Phases
<1> QED BY <1>2 DEF HardStop, ChainTypeOK

LEMMA AfterTyped ==
  ASSUME ChainTypeOK, NEW q \in Requests, After(q)
  PROVE  ChainTypeOK'
<1>1. Head(todo[q]) \in Interceptors /\ Tail(todo[q]) \in Seq(Interceptors)
  BY HeadTailProperties DEF ChainTypeOK, After
<1>2. trace' \in [Requests -> Seq(Stages)]
  <2>1. <<"after", Head(todo[q])>> \in Stages
    BY <1>1 DEF Stages
  <2> QED BY <2>1, AppendTyped DEF ChainTypeOK, After
<1>3. audit' \in [Tenants -> Seq(Rows)]
  BY RowAppended DEF After, ChainTypeOK
<1>4. todo' \in [Requests -> Seq(Interceptors)]
  BY <1>1 DEF After, ChainTypeOK
<1> QED BY <1>2, <1>3, <1>4 DEF After, ChainTypeOK

LEMMA PhaseTyped ==
  ASSUME ChainTypeOK, NEW q \in Requests,
         \/ Submit(q) \/ BeforeDone(q) \/ Close(q) \/ Return(q)
         \/ BeforeFails(q) \/ InnerFails(q) \/ AfterFails(q)
  PROVE  ChainTypeOK'
BY DEF Submit, BeforeDone, Close, Return, BeforeFails, InnerFails, AfterFails, Raise, ChainTypeOK,
       Phases

LEMMA StepTyped == ChainTypeOK /\ [ChainNext]_chainVars => ChainTypeOK'
<1> SUFFICES ASSUME ChainTypeOK, [ChainNext]_chainVars PROVE ChainTypeOK'
  OBVIOUS
<1>1. CASE PassTime
  <2>1. clock' \in 0..MaxClock
    BY <1>1, NumbersAssumption DEF PassTime, ChainTypeOK
  <2> QED BY <1>1, <2>1 DEF PassTime, local, ChainTypeOK
<1>2. ASSUME NEW q \in Requests, Submit(q) \/ Step(q) \/ Close(q) PROVE ChainTypeOK'
  BY <1>2, PassesTyped, RefusesTyped, ReturnsTyped, HardStopTyped, AfterTyped, PhaseTyped DEF Step
<1>3. CASE UNCHANGED chainVars
  BY <1>3 DEF chainVars, ChainTypeOK
<1> QED BY <1>1, <1>2, <1>3 DEF ChainNext

-----------------------------------------------------------------------------
(* The story of one request.                                                *)

\* What a step leaves of a request that does not take it.
Kept(r) ==
  /\ kind'[r] = kind[r] /\ phase'[r] = phase[r] /\ ran'[r] = ran[r] /\ todo'[r] = todo[r]
  /\ violation'[r] = violation[r] /\ content'[r] = content[r] /\ trace'[r] = trace[r]
  /\ RowsOf(r)' = RowsOf(r)
  /\ \A i \in RowsOf(r) : Log(r)'[i] = Log(r)[i]

LEMMA KeptStory ==
  ASSUME NEW r \in Requests, OneStory(r), Kept(r)
  PROVE  OneStory(r)'
<1>1. /\ Passed(r)' = Passed(r) /\ Due(r)' = Due(r)
      /\ \A e, a : Shape(r, e, a)' <=> Shape(r, e, a)
      /\ InChainOrder(r)' <=> InChainOrder(r)
      /\ Unwinding(r)' <=> Unwinding(r)
      /\ Admissible(r)' <=> Admissible(r)
      /\ \A e : WentOut(r, e)' <=> WentOut(r, e)
  BY DEF Kept, Passed, Due, Shape, InChainOrder, Unwinding, Admissible, WentOut
<1>2. Progress(r)'
  BY <1>1 DEF OneStory, Progress, Kept
<1>3. Guarded(r)'
  BY <1>1 DEF OneStory, Guarded, Kept
<1>4. Audited(r)'
  BY <1>1 DEF OneStory, Audited, Kept
<1> QED BY <1>2, <1>3, <1>4 DEF OneStory

LEMMA OthersKept ==
  ASSUME ChainTypeOK, NEW q \in Requests, NEW r \in Requests, r # q,
         Submit(q) \/ Step(q) \/ Close(q)
  PROVE  Kept(r)
<1>1. RowsOf(r)' = RowsOf(r) /\ \A i \in RowsOf(r) : Log(r)'[i] = Log(r)[i]
  <2>1. kind' = kind
    BY DEF Submit, Step, Close, BeforePasses, BeforeRefuses, BeforeFails, BeforeDone,
           InnerReturns, HardStop, InnerRefuses, InnerFails, After, AfterFails, Return, Raise
  <2>2. CASE audit' = audit
    BY <2>1, <2>2 DEF RowsOf, Log
  <2>3. CASE \E rowKind \in {"message", "response", "refusal"} : AppendRow(q, rowKind)
    BY <2>1, <2>3, RowAppended
  <2>4. audit' = audit \/ \E rowKind \in {"message", "response", "refusal"} : AppendRow(q, rowKind)
    BY DEF Submit, Step, Close, BeforePasses, BeforeRefuses, BeforeFails, BeforeDone,
           InnerReturns, HardStop, InnerRefuses, InnerFails, After, AfterFails, Return, Raise,
           RecordRequest
  <2> QED BY <2>2, <2>3, <2>4
<1>2. CASE BeforePasses(q)
  BY <1>1, <1>2 DEF ChainTypeOK, BeforePasses, Kept
<1>3. CASE BeforeRefuses(q) \/ InnerRefuses(q)
  BY <1>1, <1>3 DEF ChainTypeOK, BeforeRefuses, InnerRefuses, Violate, Kept
<1>4. CASE Submit(q) \/ BeforeDone(q) \/ Close(q) \/ Return(q)
           \/ BeforeFails(q) \/ InnerFails(q) \/ AfterFails(q)
  BY <1>1, <1>4 DEF ChainTypeOK, Submit, BeforeDone, Close, Return, BeforeFails, InnerFails,
                    AfterFails, Raise, Kept
<1>5. CASE InnerReturns(q) \/ HardStop(q) \/ After(q)
  BY <1>1, <1>5 DEF ChainTypeOK, InnerReturns, HardStop, After, Kept
<1> QED BY <1>2, <1>3, <1>4, <1>5 DEF Step

LEMMA RequestTyped ==
  ASSUME ChainTypeOK, NEW q \in Requests
  PROVE  /\ ran[q] \in Seq(Interceptors) /\ todo[q] \in Seq(Interceptors)
         /\ trace[q] \in Seq(Stages) /\ Passed(q) \in Nat /\ Due(q) \in Nat
         /\ phase[q] \in Phases /\ kind[q] \in RequestKind
BY KeyTyped, LenProperties DEF ChainTypeOK, Passed, Due

\* A step that only moves the request to its next phase.
LEMMA PhaseStory ==
  ASSUME ChainTypeOK, NEW q \in Requests, OneStory(q),
         \/ Submit(q) \/ BeforeDone(q) \/ Close(q) \/ Return(q)
         \/ BeforeFails(q) \/ InnerFails(q) \/ AfterFails(q)
  PROVE  OneStory(q)'
<1>1. /\ UNCHANGED <<kind, ran, todo, violation, content, audit, trace>>
      /\ \/ phase[q] = "new" /\ phase'[q] = "before"
         \/ phase[q] = "before" /\ phase'[q] = "inner" /\ Passed(q) = 5
         \/ phase[q] = "between" /\ phase'[q] = "after"
         \/ phase[q] = "after" /\ phase'[q] = "returned" /\ Due(q) = 0
         \/ phase[q] \in {"before", "inner", "after"} /\ phase'[q] = "raised"
  <2>1. CASE Submit(q) \/ Close(q)
    BY <2>1 DEF Submit, Close, ChainTypeOK
  <2>2. CASE BeforeDone(q)
    BY <2>2, AboutChain DEF BeforeDone, ChainTypeOK, Passed
  <2>3. CASE Return(q)
    BY <2>3, EmptySeq DEF Return, ChainTypeOK, Due
  <2>4. CASE BeforeFails(q) \/ InnerFails(q) \/ AfterFails(q)
    BY <2>4 DEF BeforeFails, InnerFails, AfterFails, InBefore, Raise, ChainTypeOK
  <2> QED BY <2>1, <2>2, <2>3, <2>4
<1>2. /\ Passed(q)' = Passed(q) /\ Due(q)' = Due(q) /\ Passed(q) \in Nat /\ Due(q) \in Nat
      /\ \A e, a : Shape(q, e, a)' <=> Shape(q, e, a)
      /\ InChainOrder(q)' <=> InChainOrder(q)
      /\ Unwinding(q)' <=> Unwinding(q)
      /\ Admissible(q)' <=> Admissible(q)
      /\ \A e : WentOut(q, e)' <=> WentOut(q, e)
      /\ RowsOf(q)' = RowsOf(q) /\ Log(q)' = Log(q)
  <2>1. Passed(q) \in Nat /\ Due(q) \in Nat
    BY RequestTyped
  <2> QED BY <1>1, <2>1 DEF Passed, Due, Shape, InChainOrder, Unwinding, Admissible, WentOut,
                            RowsOf, Log
<1>3. Progress(q)'
  <2>1. CASE phase'[q] # "raised"
    <3>1. phase[q] = "before" => violation[q] = "none"
      BY DEF OneStory, Progress
    <3> QED BY <1>1, <1>2, <2>1, <3>1 DEF OneStory, Progress, WayOut, Admissible
  <2>2. CASE phase'[q] = "raised"
    <3>1. CASE phase[q] \in {"before", "inner"}
      <4>1. Shape(q, 0, 0)' /\ 0 \in {0, 1} /\ 0 \in 0..Passed(q)'
        BY <1>2, <3>1 DEF OneStory, Progress
      <4> QED BY <1>1, <1>2, <2>2, <4>1 DEF OneStory, Progress, WayOut
    <3>2. CASE phase[q] = "after"
      <4>1. PICK e \in {0, 1} : WentOut(q, e)
        BY <3>2 DEF OneStory, Progress, WayOut
      <4>2. Passed(q) - Due(q) \in 0..Passed(q)
        BY <1>2, <3>2 DEF OneStory, Progress, WayOut, Unwinding
      <4>3. Shape(q, e, Passed(q) - Due(q))' /\ (e = 1 => Admissible(q)')
        BY <1>2, <4>1 DEF WentOut
      <4> QED BY <1>1, <1>2, <2>2, <4>2, <4>3 DEF OneStory, Progress, WayOut
    <3> QED BY <1>1, <2>2, <3>1, <3>2
  <2> QED BY <2>1, <2>2
<1>4. Guarded(q)'
  BY <1>1, <1>2 DEF OneStory, Guarded
<1>5. Audited(q)'
  BY <1>1, <1>2 DEF OneStory, Audited, Progress
<1> QED BY <1>3, <1>4, <1>5 DEF OneStory

LEMMA PassesStory ==
  ASSUME ChainTypeOK, NEW q \in Requests, OneStory(q), BeforePasses(q)
  PROVE  OneStory(q)'
<1> DEFINE name == NextUp(q)
<1>0. /\ InBefore(q) /\ phase[q] = "before" /\ name = Chain[Passed(q) + 1]
      /\ name \in Interceptors /\ Passed(q) \in 0..4
      /\ kind[q] \in RequestKind /\ ran[q] \in Seq(Interceptors) /\ trace[q] \in Seq(Stages)
  BY AboutNextUp, RequestTyped DEF BeforePasses, InBefore
<1>1. /\ ran'[q] = Append(ran[q], name)
      /\ trace'[q] = Append(trace[q], <<"before", name>>)
      /\ RecordRequest(q, name)
      /\ content'[q] = Masked(q, name)
      /\ UNCHANGED <<kind, phase, todo, violation>>
      /\ ~ Refuses(q, name)
  BY DEF BeforePasses, ChainTypeOK
<1> HIDE DEF name
<1>2. /\ Passed(q)' = Passed(q) + 1
      /\ \A i \in 1..Passed(q) : ran'[q][i] = ran[q][i]
      /\ ran'[q][Passed(q) + 1] = name
  BY <1>0, <1>1, AppendProperties DEF Passed
<1>3. InChainOrder(q)'
  <2>1. InChainOrder(q)
    BY DEF OneStory, Progress
  <2>2. ASSUME NEW i \in 1..(Passed(q) + 1) PROVE ran'[q][i] = Chain[i]
    <3>1. CASE i = Passed(q) + 1
      BY <1>0, <1>2, <3>1
    <3>2. CASE i \in 1..Passed(q)
      BY <1>2, <2>1, <3>2 DEF InChainOrder
    <3> QED BY <1>0, <3>1, <3>2
  <2> QED BY <1>0, <1>2, <2>2 DEF InChainOrder
<1>4. Shape(q, 0, 0)' /\ violation'[q] = "none"
  <2>1. Shape(q, 0, 0) /\ violation[q] = "none"
    BY <1>0 DEF OneStory, Progress
  <2> QED BY <1>0, <1>1, <2>1, ShapeBefore DEF Shape
<1>5. Progress(q)'
  BY <1>0, <1>1, <1>3, <1>4 DEF Progress, WayOut
<1>6. Guarded(q)'
  <2>1. Passed(q) >= 1 => kind[q].consents
    BY DEF OneStory, Guarded
  <2>2. Passed(q) = 0 => kind[q].consents
    <3>1. Passed(q) = 0 => name = "consent_gate"
      BY <1>0, AboutChain
    <3> QED BY <1>1, <3>1 DEF Refuses, NoConsent
  <2>3. kind'[q].consents
    BY <1>0, <1>1, <2>1, <2>2
  <2>4. Passed(q) + 1 >= 2 /\ kind[q].personal => content'[q] # "raw"
    <3>1. CASE Passed(q) = 1
      <4>1. name = "pii_masking"
        BY <1>0, <3>1, AboutChain
      <4> QED BY <1>1, <4>1 DEF Masked
    <3>2. CASE Passed(q) >= 2
      BY <1>1, <3>2 DEF Masked, OneStory, Guarded
    <3> QED BY <1>0, <3>1, <3>2
  <2> QED BY <1>0, <1>1, <1>2, <1>4, <2>3, <2>4 DEF Guarded
<1>7. Audited(q)'
  <2>1. RowsOf(q) = {}
    BY <1>0 DEF OneStory, Audited
  <2>2. CASE Passed(q) = 4
    <3>1. name = "audit_recorder"
      BY <1>0, <2>2, AboutChain
    <3>2. AppendRow(q, "message")
      BY <1>1, <3>1 DEF RecordRequest
    <3>3. RowsOf(q)' = {Len(Log(q)) + 1} /\ Log(q)'[Len(Log(q)) + 1].kind = "message"
      BY <1>1, <2>1, <3>2, RowAppended
    <3> QED BY <1>0, <1>1, <1>2, <2>2, <3>3 DEF Audited
  <2>3. CASE Passed(q) < 4
    <3>1. name # "audit_recorder"
      BY <1>0, <2>3, AboutChain
    <3>2. RowsOf(q)' = {}
      BY <1>1, <2>1, <3>1 DEF RecordRequest, RowsOf, Log
    <3> QED BY <1>0, <1>1, <1>2, <2>3, <3>2 DEF Audited
  <2> QED BY <1>0, <2>2, <2>3
<1> QED BY <1>5, <1>6, <1>7 DEF OneStory

\* A refusal unwinds what has run, whether it comes from an interceptor or
\* from the inner call.
LEMMA RefusesStory ==
  ASSUME ChainTypeOK, NEW q \in Requests, OneStory(q), BeforeRefuses(q) \/ InnerRefuses(q)
  PROVE  OneStory(q)'
<1>1. PICK name \in Interceptors \cup {"inner"} : Violate(q, name, Reverse(ran[q]))
  BY AboutNextUp DEF BeforeRefuses, InnerRefuses
<1>2. /\ UNCHANGED <<kind, ran, audit, trace>>
      /\ \/ phase[q] = "before" /\ Passed(q) \in 0..4
         \/ phase[q] = "inner" /\ kind[q].path = "wrap"
      /\ Shape(q, 0, 0) /\ InChainOrder(q) /\ Passed(q) \in 0..5
  <2>1. InChainOrder(q) /\ Passed(q) \in Nat
    BY RequestTyped DEF OneStory, Progress
  <2>2. CASE BeforeRefuses(q)
    BY <2>1, <2>2, AboutNextUp DEF BeforeRefuses, InBefore, OneStory, Progress
  <2>3. CASE InnerRefuses(q)
    BY <2>1, <2>3 DEF InnerRefuses, OneStory, Progress, InChainOrder
  <2> QED BY <2>2, <2>3
<1>3. /\ violation'[q] # "none" /\ content'[q] = "refusal" /\ todo'[q] = Reverse(ran[q])
      /\ phase'[q] = IF kind[q].path = "wrap" THEN "after" ELSE "inner"
  <2>1. name # "none"
    BY DEF Interceptors
  <2> QED BY <1>1, <2>1 DEF Violate, ChainTypeOK
<1>w. \/ phase'[q] = "after"
      \/ phase'[q] = "inner" /\ phase[q] = "before" /\ kind[q].path = "canvas"
  <2>1. kind[q].path \in {"wrap", "canvas"}
    BY RequestTyped DEF RequestKind
  <2> QED BY <1>2, <1>3, <2>1
<1>4. /\ Passed(q)' = Passed(q) /\ Due(q)' = Passed(q)
      /\ \A i \in 1..Passed(q) : todo'[q][i] = ran[q][Passed(q) + 1 - i]
  <2>1. ran[q] \in Seq(Interceptors)
    BY RequestTyped
  <2>2. \A i \in 1..Passed(q) : Passed(q) - i + 1 = Passed(q) + 1 - i
    BY <1>2
  <2> QED BY <1>2, <1>3, <2>1, <2>2, ReverseTyped DEF Passed, Due
<1>5. Shape(q, 0, 0)' /\ InChainOrder(q)' /\ Unwinding(q)' /\ RowsOf(q)' = RowsOf(q)
      /\ Log(q)' = Log(q)
  <2>1. Shape(q, 0, 0)' /\ InChainOrder(q)' /\ RowsOf(q)' = RowsOf(q) /\ Log(q)' = Log(q)
    BY <1>2 DEF Shape, InChainOrder, Passed, RowsOf, Log
  <2>2. Unwinding(q)'
    BY <1>2, <1>4 DEF Unwinding
  <2> QED BY <2>1, <2>2
<1>6. Progress(q)'
  <2>1. CASE phase'[q] = "after"
    <3>1. Passed(q)' - Due(q)' = 0
      BY <1>2, <1>4
    <3>2. WentOut(q, 0)'
      BY <1>3, <1>5, <3>1 DEF WentOut
    <3> QED BY <1>5, <2>1, <3>2 DEF Progress, WayOut
  <2>2. CASE phase'[q] = "inner"
    <3>1. Admissible(q)'
      BY <1>2, <1>3, <1>w, <2>2 DEF Admissible
    <3> QED BY <1>5, <2>2, <3>1 DEF Progress, WayOut
  <2> QED BY <1>w, <2>1, <2>2
<1>7. Guarded(q)'
  BY <1>2, <1>3, <1>4 DEF OneStory, Guarded
<1>8. Audited(q)'
  BY <1>2, <1>3, <1>4, <1>5, <1>w DEF OneStory, Audited
<1> QED BY <1>6, <1>7, <1>8 DEF OneStory

\* The flow returns, or a refused envelope goes past it.
LEMMA ReturnsStory ==
  ASSUME ChainTypeOK, NEW q \in Requests, OneStory(q), InnerReturns(q) \/ HardStop(q)
  PROVE  OneStory(q)'
<1>1. /\ UNCHANGED <<kind, ran, violation, content, audit>>
      /\ todo'[q] = Reverse(ran[q])
      /\ phase[q] = "inner" /\ phase'[q] \in {"after", "between"}
  BY DEF InnerReturns, HardStop, ChainTypeOK
<1>2. /\ Shape(q, 0, 0) /\ InChainOrder(q) /\ Admissible(q)
      /\ ran[q] \in Seq(Interceptors) /\ trace[q] \in Seq(Stages) /\ Passed(q) \in 0..5
  BY <1>1, RequestTyped DEF OneStory, Progress, InChainOrder
<1>3. /\ Passed(q)' = Passed(q) /\ Due(q)' = Passed(q)
      /\ \A i \in 1..Passed(q) : todo'[q][i] = ran[q][Passed(q) + 1 - i]
  <2>1. \A i \in 1..Passed(q) : Passed(q) - i + 1 = Passed(q) + 1 - i
    BY <1>2
  <2> QED BY <1>1, <1>2, <2>1, ReverseTyped DEF Passed, Due
<1>4. \E e \in {0, 1} : Shape(q, e, 0)' /\ (violation[q] = "none" => e = 1)
  <2>1. CASE InnerReturns(q)
    <3>1. trace'[q] = Append(trace[q], <<"inner", "inner">>)
      BY <2>1 DEF InnerReturns, ChainTypeOK
    <3>2. Shape(q, 1, 0)'
      BY <1>1, <1>2, <3>1, ShapeInner DEF Shape
    <3> QED BY <3>2
  <2>2. CASE HardStop(q)
    <3>1. trace' = trace /\ violation[q] # "none"
      BY <2>2 DEF HardStop
    <3>2. Shape(q, 0, 0)'
      BY <1>1, <1>2, <3>1 DEF Shape
    <3> QED BY <3>1, <3>2
  <2> QED BY <2>1, <2>2
<1>5. Unwinding(q)' /\ InChainOrder(q)'
  <2>1. InChainOrder(q)'
    BY <1>1, <1>2, <1>3 DEF InChainOrder
  <2>2. Due(q)' <= Passed(q)'
    BY <1>2, <1>3
  <2>3. \A i \in 1..Due(q)' : todo'[q][i] = ran'[q][Due(q)' + 1 - i]
    <3>1. ran' = ran
      BY <1>1
    <3> QED BY <1>3, <3>1
  <2>4. Unwinding(q)'
    BY <2>2, <2>3 DEF Unwinding
  <2> QED BY <2>1, <2>4
<1>6. RowsOf(q)' = RowsOf(q) /\ Log(q)' = Log(q)
  BY <1>1 DEF RowsOf, Log
<1>7. Progress(q)'
  <2>1. Passed(q)' - Due(q)' = 0
    BY <1>2, <1>3
  <2>2. Admissible(q)'
    BY <1>1, <1>2, <1>3 DEF Admissible
  <2>3. ASSUME NEW e \in {0, 1}, Shape(q, e, 0)', violation[q] = "none" => e = 1
        PROVE  WentOut(q, e)'
    <3>1. Shape(q, e, Passed(q) - Due(q))'
      BY <2>1, <2>3 DEF Shape
    <3>2. (violation[q] = "none" => e = 1)'
      BY <1>1, <2>3
    <3> QED BY <2>2, <3>1, <3>2 DEF WentOut
  <2>4. \E e \in {0, 1} : WentOut(q, e)'
    BY <1>4, <2>3
  <2> QED BY <1>1, <1>3, <1>5, <2>4 DEF Progress, WayOut
<1>8. Guarded(q)'
  BY <1>1, <1>3 DEF OneStory, Guarded
<1>9. Audited(q)'
  BY <1>1, <1>2, <1>3, <1>6 DEF OneStory, Audited
<1> QED BY <1>7, <1>8, <1>9 DEF OneStory

\* The closing row is written by the first after() call.
LEMMA AfterStory ==
  ASSUME ChainTypeOK, NEW q \in Requests, OneStory(q), After(q)
  PROVE  OneStory(q)'
<1>1. /\ UNCHANGED <<kind, phase, ran, violation, content>>
      /\ phase[q] = "after" /\ todo[q] # <<>>
      /\ trace'[q] = Append(trace[q], <<"after", Head(todo[q])>>)
      /\ todo'[q] = Tail(todo[q])
      /\ IF Head(todo[q]) = "audit_recorder"
           THEN AppendRow(q, IF violation[q] # "none" THEN "refusal" ELSE "response")
           ELSE UNCHANGED audit
  BY DEF After, ChainTypeOK
<1>2. /\ ran[q] \in Seq(Interceptors) /\ todo[q] \in Seq(Interceptors)
      /\ trace[q] \in Seq(Stages) /\ Passed(q) \in Nat /\ Due(q) \in Nat
  BY RequestTyped
<1>0. InChainOrder(q) /\ Unwinding(q) /\ \E e \in {0, 1} : WentOut(q, e)
  BY <1>1 DEF OneStory, Progress, WayOut
<1>p. PICK e \in {0, 1} : WentOut(q, e)
  BY <1>0
<1>3. InChainOrder(q) /\ Unwinding(q) /\ Shape(q, e, Passed(q) - Due(q))
  BY <1>0, <1>p DEF WentOut
<1>4. /\ Due(q) \in 1..Passed(q) /\ Passed(q) \in 0..5
      /\ Head(todo[q]) = ran[q][Due(q)] /\ Head(todo[q]) = Chain[Due(q)]
  <2>1. Due(q) >= 1
    BY <1>1, <1>2, EmptySeq DEF Due
  <2>2. Due(q) \in 1..Passed(q) /\ Passed(q) \in 0..5
    BY <1>2, <1>3, <2>1 DEF Unwinding, InChainOrder
  <2>3. Head(todo[q]) = todo[q][1]
    BY <1>1, <1>2
  <2>4. todo[q][1] = ran[q][Due(q) + 1 - 1] /\ Due(q) + 1 - 1 = Due(q)
    BY <1>3, <2>2 DEF Unwinding
  <2> QED BY <1>3, <2>2, <2>3, <2>4 DEF InChainOrder
<1>5. /\ Passed(q)' = Passed(q) /\ Due(q)' = Due(q) - 1
      /\ \A i \in 1..(Due(q) - 1) : todo'[q][i] = ran[q][Due(q) - i]
  <2>1. Passed(q)' = Passed(q)
    BY <1>1 DEF Passed
  <2>2. Due(q)' = Due(q) - 1 /\ \A i \in 1..(Due(q) - 1) : todo'[q][i] = todo[q][i + 1]
    BY <1>1, <1>2, HeadTailProperties DEF Due
  <2>3. ASSUME NEW i \in 1..(Due(q) - 1) PROVE todo[q][i + 1] = ran[q][Due(q) - i]
    <3>1. i + 1 \in 1..Due(q) /\ Due(q) + 1 - (i + 1) = Due(q) - i
      BY <1>2
    <3> QED BY <1>3, <3>1 DEF Unwinding
  <2> QED BY <2>1, <2>2, <2>3
<1>6. IsShape(ran'[q], trace'[q], e, Passed(q) - (Due(q) - 1))
  <2> DEFINE a == Passed(q) - Due(q)
  <2>1. a \in Nat /\ a < Passed(q) /\ Passed(q) - a = Due(q)
        /\ Passed(q) - (Due(q) - 1) = a + 1
    BY <1>4
  <2>2. IsShape(ran[q], trace[q], e, a)
    BY <1>3 DEF Shape
  <2> HIDE DEF a
  <2>3. IsShape(ran[q], Append(trace[q], <<"after", ran[q][Len(ran[q]) - a]>>), e, a + 1)
    BY <1>2, <1>3, <2>1, <2>2, ShapeAfter DEF Passed
  <2>4. IsShape(ran[q], trace'[q], e, a + 1)
    BY <1>1, <1>4, <2>1, <2>3 DEF Passed
  <2> QED BY <1>1, <2>1, <2>4
<1>7. Unwinding(q)' /\ InChainOrder(q)'
  <2>1. \A i \in 1..(Due(q) - 1) : todo'[q][i] = ran'[q][(Due(q) - 1) + 1 - i]
    <3>1. \A i \in 1..(Due(q) - 1) : (Due(q) - 1) + 1 - i = Due(q) - i
      BY <1>2
    <3> QED BY <1>1, <1>5, <3>1
  <2>2. Unwinding(q)'
    BY <1>4, <1>5, <2>1 DEF Unwinding
  <2> QED BY <1>1, <1>3, <1>5, <2>2 DEF InChainOrder
<1>8. Progress(q)'
  <2>1. Shape(q, e, Passed(q) - Due(q))'
    <3>1. Passed(q)' - Due(q)' = Passed(q) - (Due(q) - 1)
      BY <1>5
    <3> QED BY <1>6, <3>1 DEF Shape
  <2>2. WentOut(q, e)'
    BY <1>1, <1>5, <1>p, <2>1 DEF WentOut, Admissible
  <2> QED BY <1>1, <1>7, <2>2 DEF Progress, WayOut
<1>9. Guarded(q)'
  BY <1>1, <1>5 DEF OneStory, Guarded
<1>10. Audited(q)'
  <2>1. CASE Due(q) = 5
    <3>1. Passed(q) = 5 /\ Head(todo[q]) = "audit_recorder"
      BY <1>4, <2>1, AboutChain
    <3>2. PICK i \in RowsOf(q) : RowsOf(q) = {i} /\ Log(q)[i].kind = "message"
      BY <1>1, <2>1, <3>1 DEF OneStory, Audited
    <3>3. PICK rowKind \in {"message", "response", "refusal"} :
            AppendRow(q, rowKind) /\ rowKind = IF violation[q] # "none" THEN "refusal" ELSE "response"
      BY <1>1, <3>1
    <3> DEFINE j == Len(Log(q)) + 1
    <3>4. RowsOf(q)' = {i, j} /\ i < j /\ Log(q)'[i].kind = "message" /\ Log(q)'[j].kind = rowKind
      BY <1>1, <3>2, <3>3, RowAppended
    <3> HIDE DEF j
    <3> QED BY <1>1, <1>5, <2>1, <3>1, <3>3, <3>4 DEF Audited
  <2>2. CASE Due(q) < 5
    <3>1. Head(todo[q]) # "audit_recorder"
      <4>1. Due(q) \in 1..4
        BY <1>4, <2>2
      <4> QED BY <1>4, <4>1, AboutChain
    <3>2. RowsOf(q)' = RowsOf(q) /\ Log(q)' = Log(q)
      BY <1>1, <3>1 DEF RowsOf, Log
    <3> QED BY <1>1, <1>4, <1>5, <2>2, <3>2 DEF OneStory, Audited
  <2> QED BY <1>4, <2>1, <2>2
<1> QED BY <1>8, <1>9, <1>10 DEF OneStory

LEMMA StoryStep ==
  ASSUME ChainTypeOK, \A q \in Requests : OneStory(q), [ChainNext]_chainVars
  PROVE  \A q \in Requests : OneStory(q)'
<1>1. ASSUME PassTime \/ UNCHANGED chainVars, NEW r \in Requests PROVE OneStory(r)'
  <2>1. Kept(r)
    BY <1>1 DEF PassTime, local, chainVars, Kept, RowsOf, Log
  <2> QED BY <2>1, KeptStory
<1>2. ASSUME NEW q \in Requests, Submit(q) \/ Step(q) \/ Close(q), NEW r \in Requests
      PROVE  OneStory(r)'
  <2>1. CASE r # q
    BY <1>2, <2>1, OthersKept, KeptStory
  <2>2. CASE r = q
    BY <1>2, <2>2, PassesStory, RefusesStory, ReturnsStory, AfterStory, PhaseStory DEF Step
  <2> QED BY <2>1, <2>2
<1> QED BY <1>1, <1>2 DEF ChainNext

-----------------------------------------------------------------------------
(* The budget of a window.                                                  *)

LEMMA AdmittedFinite ==
  ASSUME IsFiniteSet(admitted), NEW k, NEW w
  PROVE  IsFiniteSet(AdmittedIn(k, w)) /\ Cardinality(AdmittedIn(k, w)) \in Nat
<1>1. AdmittedIn(k, w) \in SUBSET admitted
  BY DEF AdmittedIn
<1> QED BY <1>1, FS_Subset, FS_CardinalityType

\* The counter leaves room for the request it counts: it starts again in a
\* window nobody was let into, or goes on from those it let pass.
LEMMA CounterLeadsByOne ==
  ASSUME ChainTypeOK, Budget, NEW k \in Keys
  PROVE  /\ \A a \in admitted : a.key = k => a.window <= Counted(k).expires_at
         /\ Cardinality(AdmittedIn(k, Counted(k).expires_at)) + 1 <= Counted(k).count
<1>1. /\ counts[k] \in [count : Nat, expires_at : Nat] /\ clock \in Nat
      /\ \A a \in admitted : a.window \in Nat
  BY NumbersAssumption DEF ChainTypeOK
<1>2. /\ \A a \in admitted : a.key = k => a.window <= counts[k].expires_at
      /\ Cardinality(AdmittedIn(k, counts[k].expires_at)) <= counts[k].count
      /\ Cardinality(AdmittedIn(k, counts[k].expires_at)) \in Nat
  BY AdmittedFinite DEF Budget
<1>3. CASE clock >= counts[k].expires_at
  <2>1. Counted(k).count = 1 /\ Counted(k).expires_at = clock + WindowSeconds
    BY <1>3 DEF Counted
  <2>2. counts[k].expires_at < clock + WindowSeconds
    BY <1>1, <1>3, NumbersAssumption
  <2>3. \A a \in admitted : a.key = k => a.window < clock + WindowSeconds
    BY <1>1, <1>2, <2>2, NumbersAssumption
  <2>4. AdmittedIn(k, clock + WindowSeconds) = {}
    BY <1>1, <2>3, NumbersAssumption DEF AdmittedIn
  <2>5. clock + WindowSeconds \in Nat
    BY <1>1, NumbersAssumption
  <2>6. \A a \in admitted : a.key = k => a.window <= clock + WindowSeconds
    BY <1>1, <2>3, <2>5
  <2>7. Cardinality(AdmittedIn(k, clock + WindowSeconds)) + 1 <= 1
    BY <2>4, FS_EmptySet
  <2> QED BY <2>1, <2>6, <2>7
<1>4. CASE ~ clock >= counts[k].expires_at
  <2>1. Counted(k).count = counts[k].count + 1 /\ Counted(k).expires_at = counts[k].expires_at
    BY <1>1, <1>4 DEF Counted
  <2> QED BY <1>1, <1>2, <2>1
<1> QED BY <1>3, <1>4

LEMMA CountingKeepsBudget ==
  ASSUME ChainTypeOK, Budget, NEW k \in Keys,
         counts' = [counts EXCEPT ![k] = Counted(k)],
         NEW x \in [req : Requests, key : Keys, window : Nat],
         x.key = k, x.window = Counted(k).expires_at,
         \/ admitted' = admitted
         \/ admitted' = admitted \cup {x} /\ Counted(k).count <= Limit
  PROVE  Budget'
<1>0. counts \in [Keys -> [count : Nat, expires_at : Nat]] /\ IsFiniteSet(admitted)
      /\ admitted \subseteq [req : Requests, key : Keys, window : Nat]
  BY DEF ChainTypeOK, Budget
<1>1. IsFiniteSet(admitted')
  BY <1>0, FS_AddElement
<1> DEFINE w == Counted(k).expires_at
<1>2. /\ \A a \in admitted : a.key = k => a.window <= w
      /\ Cardinality(AdmittedIn(k, w)) + 1 <= Counted(k).count
      /\ w \in Nat /\ Counted(k).count \in Nat
  BY CounterLeadsByOne, CountedTyped
<1>3. counts'[k] = Counted(k) /\ \A j \in Keys : j # k => counts'[j] = counts[j]
  BY <1>0
<1> DEFINE NowIn(j, v) == {a \in admitted' : a.key = j /\ a.window = v}
<1> HIDE DEF w
<1>4. ASSUME NEW j, NEW v, j # k \/ v # w
      PROVE  NowIn(j, v) = AdmittedIn(j, v)
  BY <1>4 DEF AdmittedIn, w
<1>5. /\ Cardinality(AdmittedIn(k, w)) \in Nat /\ Cardinality(NowIn(k, w)) \in Nat
      /\ Cardinality(NowIn(k, w)) <= Cardinality(AdmittedIn(k, w)) + 1
      /\ admitted' = admitted => Cardinality(NowIn(k, w)) = Cardinality(AdmittedIn(k, w))
  <2>1. IsFiniteSet(AdmittedIn(k, w)) /\ Cardinality(AdmittedIn(k, w)) \in Nat
    BY <1>0, AdmittedFinite
  <2>2. CASE admitted' = admitted
    <3>1. NowIn(k, w) = AdmittedIn(k, w)
      BY <2>2 DEF AdmittedIn
    <3> HIDE DEF NowIn
    <3> QED BY <2>1, <3>1
  <2>3. CASE admitted' = admitted \cup {x} /\ admitted' # admitted
    <3>1. NowIn(k, w) = AdmittedIn(k, w) \cup {x}
      BY <2>3 DEF AdmittedIn, w
    <3>2. /\ Cardinality(AdmittedIn(k, w) \cup {x}) \in Nat
          /\ Cardinality(AdmittedIn(k, w) \cup {x}) <= Cardinality(AdmittedIn(k, w)) + 1
      <4>1. Cardinality(AdmittedIn(k, w) \cup {x}) =
              IF x \in AdmittedIn(k, w) THEN Cardinality(AdmittedIn(k, w))
                                        ELSE Cardinality(AdmittedIn(k, w)) + 1
        BY <2>1, FS_AddElement
      <4> QED BY <2>1, <4>1
    <3> HIDE DEF NowIn
    <3> QED BY <2>1, <2>3, <3>1, <3>2
  <2> HIDE DEF NowIn
  <2> QED BY <2>2, <2>3
<1>6. ASSUME NEW j \in Keys
      PROVE  /\ \A a \in admitted' : a.key = j => a.window <= counts'[j].expires_at
             /\ Cardinality(NowIn(j, counts'[j].expires_at)) <= counts'[j].count
  <2>1. CASE j = k
    <3>1. \A a \in admitted' : a.key = k => a.window <= w
      BY <1>2 DEF w
    <3>2. counts'[j].expires_at = w /\ counts'[j].count = Counted(k).count
      BY <1>3, <2>1 DEF w
    <3> HIDE DEF NowIn
    <3>3. Cardinality(NowIn(k, w)) <= Counted(k).count
      BY <1>2, <1>5
    <3> QED BY <2>1, <3>1, <3>2, <3>3
  <2>2. CASE j # k
    <3>1. NowIn(j, counts'[j].expires_at) = AdmittedIn(j, counts[j].expires_at)
      BY <1>3, <1>4, <2>2
    <3>2. \A a \in admitted' : a.key = j => a \in admitted
      BY <2>2
    <3> HIDE DEF NowIn
    <3> QED BY <1>3, <2>2, <3>1, <3>2 DEF Budget
  <2> QED BY <2>1, <2>2
<1>7. ASSUME NEW j \in Keys, NEW v \in Nat
      PROVE  Cardinality(NowIn(j, v)) <= Limit
  <2> HIDE DEF NowIn
  <2>1. Cardinality(AdmittedIn(j, v)) <= Limit
    BY DEF Budget
  <2>2. CASE j # k \/ v # w
    BY <1>4, <2>1, <2>2
  <2>3. CASE j = k /\ v = w /\ admitted' = admitted
    BY <1>5, <2>1, <2>3
  <2>4. CASE j = k /\ v = w /\ Counted(k).count <= Limit
    BY <1>2, <1>5, <2>4, NumbersAssumption
  <2> QED BY <2>2, <2>3, <2>4
<1> QED BY <1>1, <1>6, <1>7 DEF Budget, AdmittedIn

LEMMA BudgetStep ==
  ASSUME ChainTypeOK, Budget, [ChainNext]_chainVars
  PROVE  Budget'
<1>1. CASE counts' = counts /\ admitted' = admitted
  BY <1>1 DEF Budget, AdmittedIn
<1>2. ASSUME NEW q \in Requests, BeforePasses(q) \/ BeforeRefuses(q) PROVE Budget'
  <2>1. CASE NextUp(q) # "rate_limiter"
    BY <1>1, <1>2, <2>1 DEF BeforePasses, BeforeRefuses, CountRequest
  <2>2. CASE NextUp(q) = "rate_limiter"
    <3> DEFINE k == KeyOf(q)
               x == [req |-> q, key |-> k, window |-> Counted(k).expires_at]
    <3>1. k \in Keys /\ Counted(k).expires_at \in Nat /\ Counted(k).count \in Nat
      BY KeyTyped, CountedTyped
    <3>2. counts' = [counts EXCEPT ![k] = Counted(k)]
      BY <1>2, <2>2 DEF BeforePasses, BeforeRefuses, CountRequest
    <3>3. \/ admitted' = admitted
          \/ admitted' = admitted \cup {x} /\ Counted(k).count <= Limit
      <4>1. CASE BeforeRefuses(q)
        BY <4>1 DEF BeforeRefuses
      <4>2. CASE BeforePasses(q)
        <5>1. ~ OverBudget(q)
          BY <2>2, <4>2 DEF BeforePasses, Refuses
        <5>2. Counted(k).count <= Limit
          BY <3>1, <5>1, NumbersAssumption DEF OverBudget
        <5> QED BY <2>2, <4>2, <5>2 DEF BeforePasses
      <4> QED BY <1>2, <4>1, <4>2
    <3>4. x \in [req : Requests, key : Keys, window : Nat] /\ x.key = k
          /\ x.window = Counted(k).expires_at
      BY <3>1
    <3> HIDE DEF k, x
    <3> QED BY <3>1, <3>2, <3>3, <3>4, CountingKeepsBudget
  <2> QED BY <2>1, <2>2
<1>3. \/ counts' = counts /\ admitted' = admitted
      \/ \E q \in Requests : BeforePasses(q) \/ BeforeRefuses(q)
  BY DEF ChainNext, PassTime, chainVars, Submit, Step, Close, BeforeFails, BeforeDone, InnerReturns,
         HardStop, InnerRefuses, InnerFails, After, AfterFails, Return, Raise
<1> QED BY <1>1, <1>2, <1>3

-----------------------------------------------------------------------------
(* The theorems.                                                            *)

LEMMA InitStory == ChainInit => ChainInv
<1> SUFFICES ASSUME ChainInit PROVE ChainInv
  OBVIOUS
<1>1. ChainTypeOK
  BY InitTyped
<1>2. ASSUME NEW q \in Requests PROVE OneStory(q)
  <2>1. /\ phase[q] = "new" /\ ran[q] = <<>> /\ todo[q] = <<>> /\ trace[q] = <<>>
        /\ violation[q] = "none" /\ Passed(q) = 0 /\ Due(q) = 0 /\ Len(trace[q]) = 0
    BY EmptySeq DEF ChainInit, Passed, Due
  <2>2. RowsOf(q) = {}
    <3>1. Log(q) = <<>>
      BY <1>1, KeyTyped DEF ChainInit, Log
    <3>2. DOMAIN Log(q) = {}
      BY <3>1
    <3> QED BY <3>2 DEF RowsOf
  <2>3. Shape(q, 0, 0) /\ InChainOrder(q)
    BY <2>1 DEF Shape, IsShape, InChainOrder, Passed
  <2>4. Progress(q)
    BY <2>1, <2>3 DEF Progress, WayOut
  <2>5. Guarded(q) /\ Audited(q)
    BY <2>1, <2>2 DEF Guarded, Audited
  <2> QED BY <2>4, <2>5 DEF OneStory
<1>3. Budget
  <2>1. admitted = {} /\ \A k \in Keys : counts[k].count = 0
    BY DEF ChainInit
  <2>2. \A k, w : AdmittedIn(k, w) = {}
    BY <2>1 DEF AdmittedIn
  <2> QED BY <2>1, <2>2, FS_EmptySet, NumbersAssumption DEF Budget
<1> QED BY <1>1, <1>2, <1>3 DEF ChainInv

\* Every request has its one story, and every window its budget, at any time.
THEOREM ChainCorrect == ChainSpec => []ChainInv
<1>1. ChainInv /\ [ChainNext]_chainVars => ChainInv'
  BY StepTyped, StoryStep, BudgetStep DEF ChainInv
<1> QED BY <1>1, InitStory, PTL DEF ChainSpec

\* The trace of a request, whatever its phase.
LEMMA TraceOf ==
  ASSUME ChainInv, NEW q \in Requests
  PROVE  \E e \in {0, 1}, a \in 0..Passed(q) :
           /\ Shape(q, e, a)
           /\ e = 1 => Admissible(q)
           /\ phase[q] = "returned" => a = Passed(q)
<1>1. Progress(q) /\ Passed(q) \in Nat /\ Due(q) \in Nat /\ phase[q] \in Phases
  BY RequestTyped DEF ChainInv, OneStory
<1>2. CASE phase[q] \in {"new", "before", "inner"}
  <2>1. 0 \in 0..Passed(q) /\ Shape(q, 0, 0) /\ phase[q] # "returned"
    BY <1>1, <1>2 DEF Progress
  <2> QED BY <2>1
<1>3. CASE phase[q] \in WayOut
  <2>1. /\ Unwinding(q) /\ \E e \in {0, 1} : WentOut(q, e)
        /\ phase[q] = "returned" => Due(q) = 0
    BY <1>1, <1>3 DEF Progress
  <2>2. PICK e \in {0, 1} : WentOut(q, e)
    BY <2>1
  <2>3. Passed(q) - Due(q) \in 0..Passed(q) /\ (Due(q) = 0 => Passed(q) - Due(q) = Passed(q))
    BY <1>1, <2>1 DEF Unwinding
  <2>4. Shape(q, e, Passed(q) - Due(q)) /\ (e = 1 => Admissible(q))
    BY <2>2 DEF WentOut
  <2> QED BY <2>1, <2>3, <2>4
<1>4. CASE phase[q] = "raised"
  BY <1>1, <1>4 DEF Progress
<1> QED BY <1>1, <1>2, <1>3, <1>4 DEF Phases, WayOut

\* The chain is an onion for every request (compliance/chain.py).
THEOREM ChainIsOnion == ChainSpec => []OnionOrder
<1>1. ASSUME ChainInv PROVE OnionOrder
  <2>1. ASSUME NEW q \in Requests, NEW inner,
               Entered(q) => inner = <<<<"inner", "inner">>>>, ~ Entered(q) => inner = <<>>
        PROVE  /\ IsPrefix(ran[q], Chain)
               /\ IsPrefix(trace[q], Onion(ran[q], inner))
               /\ phase[q] = "returned" => trace[q] = Onion(ran[q], inner)
    <3>1. ran[q] \in Seq(Interceptors) /\ trace[q] \in Seq(Stages) /\ InChainOrder(q)
          /\ Passed(q) = Len(ran[q]) /\ Passed(q) \in Nat
      BY <1>1, RequestTyped DEF ChainInv, OneStory, Progress, Passed
    <3>2. PICK e \in {0, 1}, a \in 0..Len(ran[q]) :
            /\ IsShape(ran[q], trace[q], e, a)
            /\ phase[q] = "returned" => a = Len(ran[q])
      BY <1>1, <3>1, TraceOf DEF Shape
    <3>3. Entered(q) <=> e = 1
      BY <3>1, <3>2, ShapeTellsEntry DEF Entered
    <3>4. (e = 1 => inner = <<<<"inner", "inner">>>>) /\ (e = 0 => inner = <<>>)
      BY <2>1, <3>3
    <3>5. IsPrefix(ran[q], Chain)
      <4>1. Len(ran[q]) <= Len(Chain) /\ \A i \in 1..Len(ran[q]) : ran[q][i] = Chain[i]
        BY <3>1, AboutChain DEF InChainOrder
      <4>2. SubSeq(ran[q], 1, Len(ran[q])) = SubSeq(Chain, 1, Len(ran[q]))
        BY <3>1, <4>1, AboutChain
      <4> QED BY <4>1, <4>2 DEF IsPrefix
    <3>6. IsPrefix(trace[q], Onion(ran[q], inner))
          /\ (a = Len(ran[q]) => trace[q] = Onion(ran[q], inner))
      BY <3>1, <3>2, <3>4, ShapeIsOnion
    <3> QED BY <3>2, <3>5, <3>6
  <2> QED BY <2>1 DEF OnionOrder, Onion
<1> QED BY <1>1, ChainCorrect, PTL

\* What the flow is given has passed all five interceptors, with the consent it
\* needs, or is the refusal that run_before() left of a canvas request: wrap()
\* never calls inner() for a refused one (compliance/chain.py).
THEOREM FlowIsScreened == ChainSpec => []FlowGetsScreened
<1>1. ASSUME ChainInv PROVE FlowGetsScreened
  <2>1. ASSUME NEW q \in Requests, phase[q] = "inner" \/ Entered(q)
        PROVE  \/ violation[q] = "none" /\ ran[q] = Chain /\ kind[q].consents
               \/ violation[q] # "none" /\ kind[q].path = "canvas" /\ content[q] = "refusal"
    <3>1. ran[q] \in Seq(Interceptors) /\ trace[q] \in Seq(Stages) /\ InChainOrder(q)
          /\ Passed(q) = Len(ran[q]) /\ Guarded(q) /\ Progress(q)
      BY <1>1, RequestTyped DEF ChainInv, OneStory, Progress, Passed
    <3>2. Admissible(q)
      <4>1. PICK e \in {0, 1}, a \in 0..Len(ran[q]) :
              IsShape(ran[q], trace[q], e, a) /\ (e = 1 => Admissible(q))
        BY <1>1, <3>1, TraceOf DEF Shape
      <4>2. Entered(q) => e = 1
        BY <3>1, <4>1, ShapeTellsEntry DEF Entered
      <4>3. phase[q] = "inner" => Admissible(q)
        BY <3>1 DEF Progress
      <4> QED BY <2>1, <4>1, <4>2, <4>3
    <3>3. CASE violation[q] = "none"
      <4>1. Passed(q) = 5
        BY <3>2, <3>3 DEF Admissible
      <4>2. Len(ran[q]) = Len(Chain) /\ Chain \in Seq(Interceptors)
            /\ \A i \in 1..Len(ran[q]) : ran[q][i] = Chain[i]
        BY <3>1, <4>1, AboutChain DEF InChainOrder
      <4>3. ran[q] = Chain
        BY <3>1, <4>2, SeqEqual
      <4> QED BY <3>1, <3>3, <4>1, <4>3 DEF Guarded
    <3>4. CASE violation[q] # "none"
      BY <3>1, <3>2, <3>4 DEF Guarded, Admissible
    <3> QED BY <3>3, <3>4
  <2> QED BY <2>1 DEF FlowGetsScreened
<1> QED BY <1>1, ChainCorrect, PTL

\* Raw personal text leaves the chain neither way (compliance/pii.py).
THEOREM RawStaysInside == ChainSpec => []RawNeverLeaves
<1>1. ASSUME ChainInv PROVE RawNeverLeaves
  <2>1. ASSUME NEW q \in Requests, kind[q].personal,
               phase[q] \in {"inner", "between", "returned"}
        PROVE  content[q] # "raw"
    <3>1. Progress(q) /\ Guarded(q)
      BY <1>1 DEF ChainInv, OneStory
    <3>2. violation[q] = "none" => Passed(q) = 5
      <4>1. CASE phase[q] = "inner"
        BY <3>1, <4>1 DEF Progress, Admissible
      <4>2. CASE phase[q] \in WayOut
        <5>1. PICK e \in {0, 1} : WentOut(q, e)
          BY <3>1, <4>2 DEF Progress
        <5> QED BY <5>1 DEF WentOut, Admissible
      <4> QED BY <2>1, <4>1, <4>2 DEF WayOut
    <3> QED BY <2>1, <3>1, <3>2 DEF Guarded
  <2> QED BY <2>1 DEF RawNeverLeaves
<1> QED BY <1>1, ChainCorrect, PTL

\* RateLimiter's budget per key and window (compliance/rate_limit.py).
THEOREM WindowsKeepBudget == ChainSpec => []WindowBudget
<1>1. ASSUME ChainInv PROVE WindowBudget
  <2>1. ASSUME NEW a \in admitted
        PROVE  Cardinality({b \in admitted : b.key = a.key /\ b.window = a.window}) <= Limit
    <3>1. a.key \in Keys /\ a.window \in Nat
      BY <1>1 DEF ChainInv, ChainTypeOK
    <3> QED BY <1>1, <3>1 DEF ChainInv, Budget, AdmittedIn
  <2> QED BY <2>1 DEF WindowBudget
<1> QED BY <1>1, ChainCorrect, PTL

\* The audit rows tell how a request ended (compliance/audit.py).
THEOREM AuditIsComplete == ChainSpec => []AuditTellsOutcome
<1>1. ASSUME ChainInv PROVE AuditTellsOutcome
  <2>1. ASSUME NEW q \in Requests
        PROVE  /\ phase[q] = "inner" /\ violation[q] = "none" =>
                    \E i \in RowsOf(q) : RowsOf(q) = {i} /\ Log(q)[i].kind = "message"
               /\ phase[q] = "returned" /\ ran[q] = Chain =>
                    \E i, j \in RowsOf(q) :
                      /\ RowsOf(q) = {i, j} /\ i < j
                      /\ Log(q)[i].kind = "message"
                      /\ Log(q)[j].kind = IF violation[q] # "none" THEN "refusal" ELSE "response"
    <3>1. Progress(q) /\ Audited(q) /\ (ran[q] = Chain => Passed(q) = 5)
      BY <1>1, AboutChain DEF ChainInv, OneStory, Passed
    <3>2. CASE phase[q] = "inner"
      BY <3>1, <3>2 DEF Progress, Admissible, Audited
    <3>3. CASE phase[q] = "returned"
      BY <3>1, <3>3 DEF Progress, Audited
    <3> QED BY <3>2, <3>3
  <2> QED BY <2>1 DEF AuditTellsOutcome
<1> QED BY <1>1, ChainCorrect, PTL
=============================================================================
