SPECIFICATION FairSpec
CONSTANTS
  Workstations = {w1}
  Boxes <- BoxSet
  Nil = Nil
  Serial = TRUE
  MaxWrites = 2
  MaxChanges = 1
  MaxFaults = 3
INVARIANTS TypeOK NothingLost
PROPERTIES ZeroIsServing Recovers
CHECK_DEADLOCK FALSE
