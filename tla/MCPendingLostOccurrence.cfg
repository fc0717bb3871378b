SPECIFICATION PendingSpec
CONSTANTS
  Accounts = {"bank", "credit"}
  ValueEndpoints = {"bankValue", "creditValue"}
  CashEndpoints = {}
  Holdings = {}
  Class <- BankClass
  AccountOf <- BankAccountOf
  CurrencyOf <- BankCurrency
  InstrumentOf <- NoHolding
  SettlementOf <- NoHolding
  OriginObserved = {"bankValue", "creditValue"}
  Origin <- BankOrigin
  MaxAmount = 1
  Amounts = {1}
  Prices = {1}
  Horizon = 2
  DayLength = 1
  MaxActivities = 0
  Archivable = {"bank"}
  Backdating = FALSE
  Months <- ThreeMonths
  DaysIn <- ShortSecond
  MonthsPerYear = 2
  DaysPerWeek = 3
  NewRules <- SalaryAndInterest
  Payloads <- OneSalary
  DueDates = {7}
  OriginDate = 5
  MaxPerCall = 2
  MaxRules = 1
  MaxItems = 1
  MaxRevision = 2
  ManualKinds = {"withdrawal"}
  DateEdits = TRUE
INVARIANT GenerationComplete
CHECK_DEADLOCK FALSE
