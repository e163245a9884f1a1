CONSTANTS
  t1 = t1
  Requests = {q1}
  Kinds <- AllKinds
  Tenants <- MCTenants
  Limit = 1
  WindowSeconds = 2
  BusinessStart = 1
  BusinessEnd = 2
  DayLength = 3
  MaxClock = 3
  FailingStores = {"audit_recorder", "policy_guard"}
SPECIFICATION ChainSpec
CHECK_DEADLOCK FALSE
INVARIANTS RefusalsAreAudited
