CONSTANTS
  Enrollments = {e1}
  Schedulers = {s1}
  MaxTime = 1
  NoTime = NoTime
  Nobody = Nobody
  MaxFaults = 1
SPECIFICATION FairSpec
PROPERTIES CrashedRunIsRetried
