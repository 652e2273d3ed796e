CONSTANTS
  Stacks <- MCStacks
  Rows <- MCRows
  Run = {r1, r2}
  MaxCred = 4
  MaxGen = 2
  MaxFaults = 1
SPECIFICATION FairSpec
INVARIANTS TypeOK SlotsLive
PROPERTIES Converges
CHECK_DEADLOCK FALSE
