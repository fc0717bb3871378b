SPECIFICATION LotSpec
CONSTANTS
  Accounts = {"one"}
  ValueEndpoints = {}
  CashEndpoints = {"cash"}
  Holdings = {"fundOne"}
  Class <- OneClass
  AccountOf <- OneAccountOf
  CurrencyOf <- OneCurrency
  InstrumentOf <- OneInstrument
  SettlementOf <- OneSettlement
  OriginObserved = {"cash", "fundOne"}
  Origin <- OneOrigin
  MaxAmount = 2
  Amounts = {1}
  Prices = {1}
  Horizon = 1
  DayLength = 1
  MaxActivities = 4
  Archivable = {}
  Backdating = FALSE
  DeclaredCosts = {1}
  MaxDeclarations = 0
  QuoteOf <- FundQuote
  NoQuote = none
  LotKinds = {"buy", "sell", "position_adjustment"}
INVARIANT NeverShort
CHECK_DEADLOCK FALSE
