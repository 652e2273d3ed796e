\* Commits, one update, replaced parser or hand-written configuration and
\* two faults, with a run at boot beside a run from a push.
CONSTANTS
  c1 = c1
  c2 = c2
  p1 = p1
  p2 = p2
  Conf <- Confs
  Parser <- Releases
  Shipped = p1
  Rejects <- SecondRefuses
  None = None
  Stock = Stock
  ByHand = ByHand
  NoStamp = NoStamp
  Down = Down
  MaxCommits = 2
  MaxUpdates = 1
  MaxFaults = 2
SPECIFICATION FairSpec
INVARIANTS TypeOK QuietIsRunning
PROPERTIES Converges
CHECK_DEADLOCK FALSE
