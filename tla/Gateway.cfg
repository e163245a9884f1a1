CONSTANTS
  Sessions = {s1, s2}
  Runs = {r1, r2}
  Consumers = {r1, r2}
  MaxReaders = 1
  MaxEvents = 1
  MaxMessages = 2
  Error = Error
  None = None
  NoRun = NoRun
  NoSession = NoSession
  Faults = {"disconnect", "before", "after"}
SPECIFICATION FairSpec
CHECK_DEADLOCK FALSE
INVARIANTS TranscriptIsFaithful
PROPERTIES UsesOrchestrator EveryMessageAnswered EveryRunReleased
