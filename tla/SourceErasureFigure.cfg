CONSTANTS
  text1 = text1
  text2 = text2
  hidden = hidden
  Sources = {u1}
  Texts <- MCTexts
  Excluded <- MCExcluded
  Documents <- MCDocuments
  Jobs = {j1, j2}
  Backends = {"pgvector", "qdrant"}
  NoSource = NoSource
  MaxStamp = 2
  MaxErasures = 1
  MaxFaults = 1
SPECIFICATION Spec
SYMMETRY JobSymmetry
INVARIANT CertificateIsExact
