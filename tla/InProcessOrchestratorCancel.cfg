CONSTANTS
  Runs = {r1}
  Consumers = {c1, c2}
  MaxEvents = 2
  MaxReaders = 1
  Error = Error
  None = None
  NoRun = NoRun
SPECIFICATION FairRegistrySpec
CHECK_DEADLOCK FALSE
PROPERTIES CancelEndsStream
