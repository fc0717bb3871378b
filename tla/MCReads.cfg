SPECIFICATION ReadSpec
CONSTANTS
  Unset = Unset
  NoFile = NoFile
  e1 = e1
  e2 = e2
  Accounts = {"bank", "broker", "loan"}
  ValueEndpoints = {"bankValue", "loanValue"}
  CashEndpoints = {"cash"}
  Holdings = {"fund"}
  Class <- ReadClass
  AccountOf <- ReadAccountOf
  CurrencyOf <- ReadCurrency
  InstrumentOf <- ReadInstrument
  SettlementOf <- ReadSettlement
  OriginObserved = {"bankValue", "cash", "fund", "loanValue"}
  Origin <- ReadOrigin
  MaxAmount = 2
  Amounts = {1}
  Prices = {1}
  Horizon = 1
  DayLength = 1
  MaxActivities = 3
  Archivable = {"bank"}
  Backdating = TRUE
  PageLimit = 1
  MaxChanges = 2
  LegacyRows <- OldRows
  Filters <- ReadFilters
  Exporters = {e1, e2}
  Destinations = {"json"}
  DatasetsAt <- ReadDatasets
  Base = "CNY"
  InstrumentFacts <- Fund
  AccountFacts <- ReadRows
  Offers <- ReadOffers
  AfterBase = {"USD"}
  TotalBps = 4
  Scale = 8
  NoQuote = NoQuote
SYMMETRY ExporterSymmetry
INVARIANTS PagesListOnce HeaderIsTrue DestinationIsWhole BreakdownsAgree MissingRateIsAsked
PROPERTY RowsFollowReplay
CHECK_DEADLOCK FALSE
