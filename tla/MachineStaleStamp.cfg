SPECIFICATION Spec
CONSTANTS
  d1 = d1
  d2 = d2
  None = None
  Torn = Torn
  NoStamp = NoStamp
  Digest <- TwoDigests
  Broken <- OnlySecond
  Siblings = FALSE
  ByHand = FALSE
  MaxActs = 1
  MaxMishaps = 0
  MaxFaults = 0
CHECK_DEADLOCK FALSE
INVARIANTS LandedRuns
