SPECIFICATION LotSpec
CONSTANTS
  Accounts = {"one"}
  ValueEndpoints = {}
  CashEndpoints = {"cash"}
  Holdings = {"fundOne"}
  Class <- OneClass
  AccountOf <- OneAccountOf
  CurrencyOf <- OneCurrency
  InstrumentOf <- OneInstrument
  SettlementOf <- OneSettlement
  OriginObserved = {"cash", "fundOne"}
  Origin <- ThreeShares
  MaxAmount = 60
  Amounts = {2}
  Prices = {30}
  Horizon = 1
  DayLength = 1
  MaxActivities = 2
  Archivable = {}
  Backdating = FALSE
  DeclaredCosts = {100}
  MaxDeclarations = 1
  QuoteOf <- FundQuote
  NoQuote = none
  LotKinds = {"sell"}
  MoneyScale = 2
  FxQuotes <- SmallRates
  DeclaredOn = 0
  NoDay = noDay
  NoRate = noRate
  MaxMantissa = 999
  MaxScale = 4
INVARIANT DecompositionAnswers
CHECK_DEADLOCK FALSE
