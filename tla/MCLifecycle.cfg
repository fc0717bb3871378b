SPECIFICATION FairSpec
CONSTANTS
  entry = entry
  export = export
  Commands <- TwoCommands
  Schemas = {1, 2}
  MaxVersion = 1
  MaxStops = 1
INVARIANTS SeenIsSafe WalBelongs GateHolds FailedRestoreKeepsCurrent RestoredIsDurable
PROPERTY ReplacementAnswered
CHECK_DEADLOCK FALSE
