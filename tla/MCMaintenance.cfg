SPECIFICATION CareSpec
CONSTANTS
  Instruments = {}
  Pairs = {EURUSD}
  Held = {}
  Required = {EURUSD}
  Symbols = {}
  None = none
  Calls = {}
  Batch = 1
  Horizon = 2
  MaxQuotes = 2
  MaxObservations = 2
  ValueAccounts = {}
  CashAccounts = {broker}
  Intervals = {1}
  Disabled = disabled
  Editable <- FxPolicies
  SnoozeDates = {1, 2}
  MaxSnoozes = 1
  Series = {msci}
  PairOf <- Abroad
  CarryWindows = {0, 1}
  MaxLevels = 2
INVARIANT RemindersTrue
PROPERTY ComparisonIsFinal
CHECK_DEADLOCK FALSE
