CONSTANTS
  Turns = {t1, t2}
  MaxSentences = 2
  MaxChunks = 2
  End = End
  Runs = {r1, r2}
  Consumers = {c1, c2}
  MaxEvents = 2
  MaxReaders = 2
  Error = Error
  None = None
  NoRun = NoRun
SPECIFICATION StreamsSpec
CHECK_DEADLOCK FALSE
INVARIANTS SpeechIsWhole SpeakingFlagTells StreamIsFifo ForgottenWhenRead
PROPERTIES BargeInSilences SpeechEnds StreamEnds
