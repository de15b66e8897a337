SPECIFICATION Spec
CONSTANTS
  bulk = bulk
  shared = shared
  closed = closed
  gate = gate
  export = export
  page = page
  Limiter = {bulk, shared, closed}
  Client = {c1}
  Req = {q1, q2, q3}
  Route = {gate, export, page}
  Plan <- MCPlan
  PerIp <- MCPerIp
  PerDay <- MCPerDay
  Daily = {shared, closed}
  FailOpen = {bulk, shared}
  Minute = 1
  Day = 2
  IpTtl = 2
  DayTtl = 3
  MaxDelay = 1
  Horizon = 2
  Outcomes = {"ok", "unacked"}
  All = All
SYMMETRY Symmetry
CHECK_DEADLOCK FALSE
INVARIANTS WithinBudgets OneClientSpendsItsShare HoldsWhileRedisAnswers ClosedLimiterHolds
