SPECIFICATION Spec
CONSTANTS
  first = first
  second = second
  Rebuilds <- TwoLoops
  LastDay = 2
  MaxDays = 2
  MaxCommands = 1
  MaxDisturbances = 0
INVARIANTS SnapshotsTellTruth
CHECK_DEADLOCK FALSE
