--------------------------- MODULE MCDecomposition ---------------------------
(* One brokerage, one fund of three shares whose cost is declared, and two    *)
(* rates of its currency.                                                    *)
EXTENDS CurrencyDecomposition

OneClass      == [a \in {"one"} |-> "holdings"]
OneAccountOf  == [e \in {"cash", "fundOne"} |-> "one"]
OneCurrency   == [e \in {"cash"} |-> "USD"]
OneInstrument == [h \in {"fundOne"} |-> "QQQ"]
OneSettlement == [h \in {"fundOne"} |-> "cash"]
ThreeShares   == [e \in {"cash", "fundOne"} |-> IF e = "cash" THEN 0 ELSE 3]
FundQuote     == [i \in {"QQQ"} |-> 30]

\* 7.1 when the shares were acquired, 7.2 since.
SmallRates ==
  {[line |-> "direct", at |-> 0, rate |-> D!Decimal(71, 1)],
   [line |-> "direct", at |-> 1, rate |-> D!Decimal(72, 1)]}
=============================================================================
