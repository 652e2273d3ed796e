SPECIFICATION FairSpec
CONSTANTS
  d1 = d1
  d2 = d2
  None = None
  Torn = Torn
  NoStamp = NoStamp
  Digest <- TwoDigests
  Broken <- OnlySecond
  Siblings = TRUE
  ByHand = TRUE
  MaxActs = 2
  MaxMishaps = 1
  MaxFaults = 0
INVARIANTS TypeOK MarkerNamesTree WholeTreeKept
PROPERTIES Converges
