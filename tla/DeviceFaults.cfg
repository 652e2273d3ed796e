\* A file of two contents: commits, stamps and replacements, edits by hand,
\* failing commands, lost sessions and killed runs.
CONSTANTS
  Content = {c1, c2}
  Cut = Cut
  None = None
  Other = Other
  Down = Down
  Ids <- MCIds
  NoId = NoId
  NoOriginal = NoOriginal
  MaxActs = 2
  MaxEdits = 2
  MaxFaults = 2
SPECIFICATION FairSpec
INVARIANTS TypeOK QuietIsTold
PROPERTIES SlotImplemented Converges
CHECK_DEADLOCK FALSE
