SPECIFICATION Spec
CONSTANTS
  a = a
  b = b
  c = c
  k = k
  base = base
  other = other
  formerB = formerB
  formerC = formerC
  Name = {a, b, c}
  Key = {k}
  BaseOf <- MCOneBase
  FormerOf <- MCFormerOf
  KeysOf <- MCKeysOf
  Text = {t1, t2}
  Outcomes <- MCOutcomes
  OwnTtl = 1
  ConfirmTtl = 1
  PolicyEpoch = 1
  Horizon = 2
  MaxChanges = 2
  MaxScreens = 1
  FirstListed = {a}
  Admittable = {b}
  baseMcp = baseMcp
  Doc = {{a}, {b, c}}
  NoDoc = NoDoc
  Seeded <- MCSeeded
  Longer <- MCLonger
  WithoutMcp <- MCWithoutMcp
  NoName = NoName
  NoText = NoText
  NoVerdict = NoVerdict
INVARIANTS RetiredBasesAsk
