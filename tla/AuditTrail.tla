----------------------------- MODULE AuditTrail -----------------------------
(***************************************************************************)
(* The hash-chained audit trail and what watches it: InMemoryAuditStore    *)
(* (saap/compliance/audit.py), AuditChainBreachDetector (breach.py) and    *)
(* build_evidence_pack() (evidence_pack.py).                               *)
(*                                                                         *)
(* sha256 is taken to be free of collisions: the hash of a row is the      *)
(* sequence of everything hashed into it.  The row_id and the created_at   *)
(* of a row are not hashed, and are kept apart here; of them it matters    *)
(* only whether they still are what append() made them.  What happens to a *)
(* row after the fact is one field overwritten, or the row removed;        *)
(* somebody who recomputes every later hash leaves no trace, the chain has *)
(* no key.                                                                 *)
(***************************************************************************)
EXTENDS Naturals, Sequences, SequencesExt, FiniteSets

CONSTANTS
  AuditTenants,
  Payloads,      \* what a row records: kind and payload
  TrailLength,   \* bound on the rows of a tenant
  Changes        \* bound on hashed fields overwritten, and on unhashed ones at a time

ASSUME AuditAssumption == TrailLength \in Nat /\ Changes \in Nat

VARIABLES
  trail,      \* _rows of the store: the fields of each row that are hashed,
              \* and the hash
  unhashed,   \* the other fields of each row
  appended,   \* the rows as append() made them, on the rows it found if those
              \* were intact: rows lost at the end leave no trace
  changes,    \* hashed fields overwritten so far
  verdict     \* the last check: what it found, and what had happened

auditVars == <<trail, unhashed, appended, changes, verdict>>

Genesis == <<>>
NoVerdict == [by |-> "nobody", raised |-> FALSE, due |-> FALSE]

\* uuid4() and now() at the moment of append().
UnhashedFields == {"row_id", "created_at"}
AsMade == [field \in UnhashedFields |-> "as made"]

\* compute_row_hash() covers the tenant, the kind and the payload.
RowHash(prev, tenant, payload) == Append(prev, <<tenant, payload>>)
LastHash(tenant) == IF trail[tenant] = <<>> THEN Genesis ELSE Last(trail[tenant]).hash

\* verify_chain() does not raise TamperDetected.
Verified(rows) ==
  \A i \in DOMAIN rows :
    LET expected == IF i = 1 THEN Genesis ELSE rows[i - 1].hash IN
      /\ rows[i].hash = RowHash(expected, rows[i].tenant, rows[i].payload)
      /\ rows[i].prev = expected

-----------------------------------------------------------------------------
AuditInit ==
  /\ trail = [t \in AuditTenants |-> <<>>] /\ appended = trail /\ unhashed = trail
  /\ changes = 0 /\ verdict = NoVerdict

\* What is hashed is as it was appended, the last few rows perhaps missing.
Intact(tenant) == IsPrefix(trail[tenant], appended[tenant])

\* Unhashed fields that were overwritten, by row.
EditedFields(tenant) ==
  {e \in (DOMAIN unhashed[tenant]) \X UnhashedFields : unhashed[tenant][e[1]][e[2]] # "as made"}

\* append(): last_hash() suspends nowhere, so reading and writing are one step.
AppendToTrail(tenant, payload) ==
  LET row == [tenant |-> tenant, payload |-> payload, prev |-> LastHash(tenant),
              hash |-> RowHash(LastHash(tenant), tenant, payload)]
  IN /\ Len(appended[tenant]) < TrailLength
     /\ trail' = [trail EXCEPT ![tenant] = Append(@, row)]
     /\ unhashed' = [unhashed EXCEPT ![tenant] = Append(@, AsMade)]
     /\ appended' = [appended EXCEPT ![tenant] =
                        Append(IF Intact(tenant) THEN trail[tenant] ELSE @, row)]
     /\ UNCHANGED <<changes, verdict>>

\* A stored row is overwritten in one field, or is gone.
Overwrite(tenant, i, row) ==
  /\ changes < Changes /\ changes' = changes + 1
  /\ trail' = [trail EXCEPT ![tenant][i] = row]
  /\ UNCHANGED <<unhashed, appended, verdict>>

OverwriteUnhashed(tenant, i, field) ==
  /\ Cardinality(EditedFields(tenant)) < Changes
  /\ unhashed' = [unhashed EXCEPT ![tenant][i][field] = "overwritten"]
  /\ UNCHANGED <<trail, appended, changes, verdict>>

ChangesOf(tenant, i) ==
  LET row == trail[tenant][i] IN
    {[row EXCEPT !.payload = p] : p \in Payloads}
      \cup {[row EXCEPT !.tenant = t] : t \in AuditTenants}
      \cup {[row EXCEPT !.hash = Append(row.prev, <<t, p>>)] : t \in AuditTenants, p \in Payloads}
      \cup {[row EXCEPT !.prev = row.hash], [row EXCEPT !.prev = Genesis]}

LoseRow(tenant, i) ==
  /\ trail' = [trail EXCEPT ![tenant] = RemoveAt(@, i)]
  /\ unhashed' = [unhashed EXCEPT ![tenant] = RemoveAt(@, i)]
  /\ UNCHANGED <<appended, changes, verdict>>

\* What a check of the chain finds, and whether anything hashed is not what was
\* appended.
Checked(by, tenant) ==
  verdict' = [by |-> by, raised |-> ~ Verified(trail[tenant]), due |-> ~ Intact(tenant)]

\* AuditChainBreachDetector.check(): an alert, or nothing.
CheckChain(tenant) ==
  /\ Checked("detector", tenant)
  /\ UNCHANGED <<trail, unhashed, appended, changes>>

\* build_evidence_pack() goes through the chain again, whatever alerts it is
\* given, and writes down whether it passed.
BuildEvidencePack(tenant) ==
  /\ Checked("evidence pack", tenant)
  /\ UNCHANGED <<trail, unhashed, appended, changes>>

AuditNext ==
  \/ \E tenant \in AuditTenants :
       \/ \E payload \in Payloads : AppendToTrail(tenant, payload)
       \/ \E i \in DOMAIN trail[tenant] :
            \/ \E row \in ChangesOf(tenant, i) : Overwrite(tenant, i, row)
            \/ \E field \in UnhashedFields : OverwriteUnhashed(tenant, i, field)
            \/ LoseRow(tenant, i)
       \/ CheckChain(tenant) \/ BuildEvidencePack(tenant)

AuditSpec == AuditInit /\ [][AuditNext]_auditVars

-----------------------------------------------------------------------------
\* An alert is raised, and an evidence pack fails, exactly for a trail whose
\* hashed fields are not what was appended but for rows missing at its end:
\* also when it grew after the change, whatever became of other tenants' trails,
\* and whatever was written over a row's row_id and created_at.  No check ever
\* notices the last, although verify_chain() says that it raises on "any row
\* edited after the fact" (audit.py:90-92).  Of hashed fields at most one was
\* overwritten: two fields of a row can be made to agree.
TamperingShows == changes <= 1 => verdict.raised = verdict.due
=============================================================================
