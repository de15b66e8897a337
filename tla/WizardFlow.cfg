SPECIFICATION Spec
CONSTANTS
  Key = {k1}
  Server = {s1, s2}
  Tool = {t1}
  ProbeSafe = {t1}
  Linked = {s1, s2}
  Call = {i1, i2}
  NoKey = NoKey
  NoServer = NoServer
SYMMETRY Symmetry
INVARIANTS ShownIsForTheServer StepsAreEarned DisabledMeansPending
PROPERTIES AttestsWhatWasConfirmed
