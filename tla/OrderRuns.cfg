SPECIFICATION FairSpec
CONSTANTS
  drop = drop
  allow = allow
  Row <- Rows
  Censuses <- Lists
  Hand = {h1}
  Predefined = Predefined
  NoPolicy = NoPolicy
  Copies = 6
  MaxCommits = 2
  MaxEdits = 1
  MaxFaults = 1
INVARIANTS TypeOK PositionIsRule
PROPERTIES HandUntouched Settles
