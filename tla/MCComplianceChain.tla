--------------------------- MODULE MCComplianceChain ---------------------------
(***************************************************************************)
(* Instances of ComplianceChain for TLC.                                   *)
(***************************************************************************)
EXTENDS ComplianceChain

CONSTANT t1

MCTenants == {t1}

MessageKind(path, consents, personal) ==
  [tenant |-> t1, path |-> path, consents |-> consents, personal |-> personal,
   call |-> "none"]

CallKind(path, call) ==
  [tenant |-> t1, path |-> path, consents |-> TRUE, personal |-> TRUE, call |-> call]

\* Both paths, each way to be refused, each risk tier, public text.
KindList ==
  <<MessageKind("wrap", TRUE, TRUE), MessageKind("wrap", FALSE, TRUE),
    MessageKind("canvas", TRUE, FALSE), MessageKind("canvas", FALSE, TRUE),
    CallKind("wrap", "write"), CallKind("canvas", "write"),
    CallKind("canvas", "read"), CallKind("canvas", "high_risk")>>

AllKinds == ToSet(KindList)
=============================================================================
