SPECIFICATION Spec
CONSTANTS
  Components <- HouseComponents
  Opening <- HouseOpening
  Absent = absent
  Base = "base"
  Counted = {"bank", "broker", "second", "loan"}
  Invested = {"broker", "second"}
  Liabilities = {"loan"}
  Kinds = {"deposit", "withdrawal", "transfer", "buy", "sell", "income", "fee", "debt_draw", "debt_payment", "adjustment", "reversal"}
  Amounts = {1}
  Rates = {1, 2}
  FirstRates = {2}
  FirstPrices = {1}
  NoRate = 0
  Prices = {1, 2}
  MaxActivities = 2
  MaxMoves = 1
  Horizon = 2
INVARIANTS FlowsAreNotReturn BridgeExplained ScopesAddUp TotalsMatchBridge
CHECK_DEADLOCK FALSE
