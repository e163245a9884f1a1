CONSTANTS
  Enrollments = {e1, e2}
  Schedulers = {s1, s2}
  MaxTime = 1
  NoTime = NoTime
  Nobody = Nobody
  MaxFaults = 1
  t1 = t1
  e1 = e1
  e2 = e2
  q1 = q1
  q2 = q2
  Requests = {q1, q2}
  Kinds <- AllKinds
  Tenants <- MCTenants
  Limit = 1
  WindowSeconds = 2
  BusinessStart = 1
  BusinessEnd = 2
  DayLength = 3
  MaxClock = 2
  FailingStores = {"audit_recorder", "policy_guard"}
SPECIFICATION ServicesSpec
CHECK_DEADLOCK FALSE
INVARIANTS AtMostOnceDispatch OnionOrder FlowGetsScreened RawNeverLeaves WindowBudget
  AuditTellsOutcome
PROPERTIES DispatchNeedsLiveConsent ImplementsCampaignDispatch DueIsSettled EveryRequestAnswered
