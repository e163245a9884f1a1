CONSTANTS
  t1 = t1
  t2 = t2
  s1 = s1
  s2 = s2
  Tenants = {t1, t2}
  Servers = {s1, s2}
  Configured <- MCConfigured
  FirstLists <- MCFirstLists
  Tools = {book}
  WriteTools = {book}
  BusinessTime = {0}
  Requests = {c1, c2}
  Approvers = {p1, p2}
  NoRequest = NoRequest
  NoConn = NoConn
  Ttl = 1
  MaxTime = 1
  MaxEdits = 1
SPECIFICATION Spec
SYMMETRY CallerSymmetry
INVARIANTS TenantIsolation OnlyEntitledCallsRun NoConnectionLost
  OneOutcome ExpiryIsExact
