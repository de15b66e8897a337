SPECIFICATION Spec
CONSTANTS
  Gens = 3
  Pages <- SmallPages
  PageTtl = 2
  MaxAge = 1
  Horizon = 4
  MaxRetries = 1
  MaxPages = 4
  Faults = {"limited", "failed", "dropped", "refused"}
  Nothing = Nothing
INVARIANTS MissingOnlyWhenOld
PROPERTIES PromiseKept WalkEnds
