SPECIFICATION Spec
CONSTANTS
  d1 = d1
  d2 = d2
  None = None
  Torn = Torn
  NoStamp = NoStamp
  Digest <- TwoDigests
  Broken <- OnlySecond
  Siblings = TRUE
  ByHand = FALSE
  MaxActs = 1
  MaxMishaps = 1
  MaxFaults = 2
INVARIANTS LiveWhole EndsTrue
VIEW Told
