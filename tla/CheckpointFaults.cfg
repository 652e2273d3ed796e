SPECIFICATION FairCheckpointSpec
CONSTANTS
  Secret = {known, lone}
  Known = {known}
  MaxEdits = 3
  MaxCuts = 3
INVARIANTS CheckpointTypeOK
PROPERTIES NothingPublished Lands
