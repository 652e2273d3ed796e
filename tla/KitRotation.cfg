SPECIFICATION FairSpec
CONSTANTS
  k1 = k1
  k2 = k2
  k3 = k3
  Kit <- Kits
  First = k1
  None = None
  Only <- Bare
  Quota = 2
  MaxKey = 7
  MaxFile = 2
  MaxCuts = 1
  MaxRefused = 1
INVARIANTS TypeOK EscrowOpens RetiredIsDead
PROPERTIES SeedsSurvive Completes
CHECK_DEADLOCK FALSE
