SPECIFICATION Spec
CONSTANTS
  first = first
  second = second
  Rebuilds <- TwoLoops
  LastDay = 2
  MaxDays = 2
  MaxCommands = 0
  MaxDisturbances = 1
INVARIANTS CancelBetweenDays
CHECK_DEADLOCK FALSE
