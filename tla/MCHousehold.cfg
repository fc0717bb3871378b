SPECIFICATION Spec
CONSTANTS
  None = None
  mia = mia noa = noa bank = bank broker = broker fund = fund
  held = held held2 = held2 house = house
  Members = {mia, noa}
  Institutions = {house}
  Instruments = {fund}
  Balances = {bank}
  Brokerages = {broker}
  Holdings = {held, held2}
  Categories = {"cash"}
  Divisions <- Shares
  Total = 2
  Amounts = {0, 1}
  DayLength = 2
  Offset <- HalfDays
  HostZones = {None}
  UserZones = {"east", "west"}
  Horizon = 2
  MaxJournal = 2
  MaxArchived = 1
SYMMETRY HoldingSymmetry
INVARIANTS CurrentMatchesHistory DaysCovered
PROPERTY PastIsFixed
CHECK_DEADLOCK FALSE
