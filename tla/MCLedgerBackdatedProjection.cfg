SPECIFICATION Spec
CONSTANTS
  Accounts = {"bank", "broker"}
  ValueEndpoints = {"bankValue"}
  CashEndpoints = {"cash"}
  Holdings = {"fund"}
  Class <- BrokerClass
  AccountOf <- BrokerAccountOf
  CurrencyOf <- BrokerCurrency
  InstrumentOf <- BrokerInstrument
  SettlementOf <- BrokerSettlement
  OriginObserved = {"cash", "fund"}
  Origin <- BrokerOrigin
  MaxAmount = 2
  Amounts = {1}
  Prices = {0, 1}
  Horizon = 1
  DayLength = 1
  MaxActivities = 3
  Archivable = {"broker"}
  Backdating = TRUE
INVARIANT LiveIsHistorical
CHECK_DEADLOCK FALSE
