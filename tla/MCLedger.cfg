SPECIFICATION LedgerSpec
CONSTANTS
  Accounts = {"bank", "broker", "loan", "house"}
  ValueEndpoints = {"bankValue", "loanValue", "houseValue"}
  CashEndpoints = {"cash"}
  Holdings = {"fund"}
  Class <- FamilyClass
  AccountOf <- FamilyAccountOf
  CurrencyOf <- FamilyCurrency
  InstrumentOf <- BrokerInstrument
  SettlementOf <- BrokerSettlement
  OriginObserved = {"cash", "fund", "loanValue", "houseValue"}
  Origin <- FamilyOrigin
  MaxAmount = 2
  Amounts = {1}
  Prices = {0, 1}
  Horizon = 1
  DayLength = 1
  MaxActivities = 3
  Archivable = {"broker"}
  Backdating = FALSE
  Months <- ThreeMonths
  DaysIn <- ShortSecond
  MonthsPerYear = 2
  DaysPerWeek = 3
  NewRules <- PayAndAccrue
  Payloads <- OnePay
  DueDates = {7}
  OriginDate = 6
  MaxPerCall = 2
  MaxRules = 2
  MaxItems = 3
  MaxRevision = 2
  ManualKinds = {}
  DateEdits = FALSE
INVARIANTS ProjectionIsReplay ChainsWellFormed PostedOnce GenerationComplete
PROPERTY ImplementsBook
CHECK_DEADLOCK FALSE
