SPECIFICATION LotSpec
CONSTANTS
  Accounts = {"one", "two"}
  ValueEndpoints = {}
  CashEndpoints = {"cash", "cashTwo"}
  Holdings = {"fundOne", "fundTwo"}
  Class <- PairClass
  AccountOf <- PairAccountOf
  CurrencyOf <- PairCurrency
  InstrumentOf <- PairInstrument
  SettlementOf <- PairSettlement
  OriginObserved = {"cash", "fundOne", "fundTwo"}
  Origin <- PairOrigin
  MaxAmount = 3
  Amounts = {1, 2}
  Prices = {1}
  Horizon = 1
  DayLength = 1
  MaxActivities = 3
  Archivable = {}
  Backdating = TRUE
  DeclaredCosts = {2}
  MaxDeclarations = 1
  QuoteOf <- FundQuote
  NoQuote = none
  LotKinds = {"buy", "sell", "transfer", "position_adjustment"}
INVARIANTS LotsMatchHoldings FirstInFirstOut GainIsCashFlow
PROPERTIES DirtyCoversChange RepairsProjections
CHECK_DEADLOCK FALSE
