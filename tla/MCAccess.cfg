SPECIFICATION AccessSpec
CONSTANTS
  c1 = c1
  c2 = c2
  m1 = m1
  m2 = m2
  p1 = p1
  r1 = r1
  r2 = r2
  Upstream = Upstream
  Models = {m1, m2}
  Callers = {c1, c2}
  Processes = {p1}
  ProcessOf <- OneProcess
  InMemory = TRUE
  ModelThreshold = 1
  UpstreamThreshold = 2
  OpenModels = 2
  BothNeeded = FALSE
  Window = 1
  Duration = 3
  ProbeTTL = 2
  ManualDuration = 4
  MaxOrders = 2
  Requests = {r1, r2}
  Losses = 2
  Grace = 1
  TTL = 2
  MaxTokens = 3
  MaxTime = 3
CONSTRAINT OneModel
INVARIANT CircuitSafety
PROPERTIES SessionIsKept Recovers
CHECK_DEADLOCK FALSE
