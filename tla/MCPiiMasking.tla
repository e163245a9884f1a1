---------------------------- MODULE MCPiiMasking ----------------------------
(***************************************************************************)
(* PiiMasking alone, on texts in which two recognizers find overlapping    *)
(* spans: in "ab9876543210@ybl" the whole is a UPI address and the digits  *)
(* are a phone number.                                                     *)
(***************************************************************************)
EXTENDS PiiMasking

MCRecognizers == <<"IN_UPI_VPA", "IN_PHONE">>

\* A phone number strictly inside a UPI address.
MCAnalyses ==
  {{[type |-> "IN_UPI_VPA", start |-> 0, end |-> n],
    [type |-> "IN_PHONE", start |-> 1, end |-> last]} :
     n \in {TextLength - 1, TextLength}, last \in {2, 3}}

PiiSpec == PiiInit /\ [][PiiNext]_piiVars
=============================================================================
