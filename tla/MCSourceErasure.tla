---------------------------- MODULE MCSourceErasure ----------------------------
(***************************************************************************)
(* Instances of SourceErasure for TLC.                                     *)
(***************************************************************************)
EXTENDS SourceErasure, TLC

CONSTANTS text1, text2, hidden

MCTexts == {text1, text2, hidden}
MCExcluded == {hidden}

\* A text alone, one that is repeated, and a document with an excluded part.
MCDocuments == {<<text1>>, <<text2, text2>>, <<text1, hidden, text2>>}

JobSymmetry == Permutations(Jobs)
=============================================================================
