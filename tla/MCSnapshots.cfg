SPECIFICATION FairSpec
CONSTANTS
  first = first
  second = second
  Rebuilds <- TwoLoops
  LastDay = 2
  MaxDays = 1
  MaxCommands = 2
  MaxDisturbances = 2
INVARIANTS TrustedUnlessOvertaken
PROPERTIES RebuildEnds TrendRecovers
CHECK_DEADLOCK FALSE
