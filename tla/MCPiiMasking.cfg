CONSTANTS
  TextLength = 5
  TokenWidth = 2
  Recognizers <- MCRecognizers
  Matched = {"IN_UPI_VPA", "IN_PHONE"}
  Analyses <- MCAnalyses
SPECIFICATION PiiSpec
CHECK_DEADLOCK FALSE
INVARIANT DetectedNeverReadable
