SPECIFICATION Spec
CONSTANTS
  Workstations = {w1, w2}
  Boxes <- BoxSet
  Nil = Nil
  Serial = TRUE
  MaxWrites = 1
  MaxChanges = 1
  MaxFaults = 1
SYMMETRY Interchangeable
INVARIANTS OneBox
PROPERTIES HeldUnlessForced
CHECK_DEADLOCK FALSE
