SPECIFICATION Spec
CONSTANTS
  Instruments = {VOO}
  Pairs = {EURUSD}
  Held = {VOO}
  Required = {EURUSD}
  Symbols = {sym}
  None = none
  Calls = {c1}
  Batch = 1
  Horizon = 1
  MaxQuotes = 2
  MaxObservations = 3
INVARIANTS CurrentMatchesHistory StaleOnlyByProvider
PROPERTY RefreshKeepsManual
CHECK_DEADLOCK FALSE
