SPECIFICATION Spec
CONSTANTS
  names = names
  r1 = r1
  Caller = {names, r1}
  Names = names
  Reader = {d1, d2}
  Server = {s1}
  Ttl = 1
  MaxAge = 1
  Horizon = 2
  MaxRuns = 2
  Asked = {"page", "snapshot"}
  NoSummary = NoSummary
INVARIANTS ReadsHold
PROPERTY EveryRequestEnds
CHECK_DEADLOCK FALSE
