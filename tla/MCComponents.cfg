CONSTANTS
  n1 = n1
  n2 = n2
  n3 = n3
  n4 = n4
  Nodes <- MCNodes
  Flows <- MCFlows
  Pinned = {"ComplianceIngress"}
  Nothing = Nothing
  TextLength = 4
  TokenWidth = 2
  Recognizers <- MCRecognizers
  Matched = {"IN_UPI_VPA", "IN_PHONE"}
  Analyses <- MCAnalyses
  Target = 4
  OverlapWords = 2
  DocumentWords = 9
  Tenants = {A, B}
  Tasks = {x, y}
  Chunks = {k1, k2}
  Filters <- MCFilters
  Limit = 1
  Sentences = 1
  Answers = 1
  StoreFaults = 1
  Shared = Shared
  AuditTenants = {A, B}
  Payloads = {p, q}
  TrailLength = 2
  Changes = 1
  Threshold = 2
  Window = 2
  Resolves = 5
  ClockEnd = 6
  Rooms = {room1, room2}
  Users = {u}
  OwnUser = own
  Messages = 2
  Listens = 2
  Clients = {A, B}
  Secrets = {s1, s2}
  Provisioners = 2
  Blueprints = {b1, b2}
  Absent = Absent
  ByHand = ByHand
  Operators = {x, y}
  ProvisionCalls = 3
  Drifts = 1
  Agents = {x, y}
  Slots = {slot}
  NoSuchSlot = NoSuchSlot
  NobodyHas = NobodyHas
  Requests = 3
  ModelTags = {m1}
  DefaultModel = m0
  MaxLines = 3
  Packages = {"p", "q", "bootstrap"}
  Licenses = {"MIT", "AGPL-3.0", "LGPL-2.1", "custom", "UNKNOWN"}
  Contained <- MCContained
  Unknown = "UNKNOWN"
  Allow = {"MIT", "AGPL-3.0"}
  Review = {"LGPL"}
  Deny = {"GPL-3.0"}
  Overridden = {"bootstrap"}
  Goldens <- MCGoldens
  Outcomes <- MCOutcomes
  AnyValue = "any"
  PluginKeys = {"stt", "tts"}
  RuntimeAllowed = {"MIT", "AGPL-3.0"}
  MaxInstalled = 2
  MaxGoldens = 2
  MaxPluginCalls = 4
  ListeningTurns = {x, y}
  Interval = 2
  FramesHeard = 4
SPECIFICATION ComponentsSpec
CHECK_DEADLOCK FALSE
SYMMETRY Interchangeable
INVARIANTS LintIsExact MaskingIsReversible ChunksCoverDocument AnswersStayWithTenant
  InboundIsFifo RetryConverges BookingsAreExact StreamIsFaithful ReleaseIsExact ListeningIsExact
  MonitorsAreExact
