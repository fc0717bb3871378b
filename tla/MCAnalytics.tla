----------------------------- MODULE MCAnalytics -----------------------------
(* A small household for the analytics.                                     *)
EXTENDS Analytics

Part(account, kind, unit) == [account |-> account, kind |-> kind, unit |-> unit]
Bank     == Part("bank", "account_value", "base")
BrokerCash == Part("broker", "holdings_cash", "foreign")
Loan     == Part("loan", "account_value", "base")
Till     == Part("till", "account_value", "base")
Fund     == Part("broker", "holding_quantity", "fund")
FundTwo  == Part("second", "holding_quantity", "fund")

\* A bank account, a brokerage with a position, a second one that may get the same
\* position, a loan, and a till that is not included in net worth.
HouseComponents == {Bank, BrokerCash, Loan, Till, Fund, FundTwo}
HouseOpening == [c \in HouseComponents |->
  CASE c = Bank -> 2 [] c = BrokerCash -> 3 [] c = Loan -> 2 [] c = Till -> 0
    [] c = Fund -> 2 [] c = FundTwo -> Absent]
=============================================================================
