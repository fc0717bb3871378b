----------------------------- MODULE MCLotLedger -----------------------------
(* Small households for the lots.                                           *)
EXTENDS LotLedger

\* Two brokerages that hold the same fund, each with its own cash.
PairClass      == [a \in {"one", "two"} |-> "holdings"]
PairAccountOf  == [e \in {"cash", "cashTwo", "fundOne", "fundTwo"} |->
                     IF e \in {"cash", "fundOne"} THEN "one" ELSE "two"]
PairCurrency   == [e \in {"cash", "cashTwo"} |-> "USD"]
PairInstrument == [h \in {"fundOne", "fundTwo"} |-> "QQQ"]
PairSettlement == [h \in {"fundOne", "fundTwo"} |-> IF h = "fundOne" THEN "cash" ELSE "cashTwo"]
PairOrigin     == [e \in {"cash", "cashTwo", "fundOne", "fundTwo"} |->
                     CASE e = "cash" -> 3 [] e = "fundTwo" -> 1 [] OTHER -> 0]
FundQuote      == [i \in {"QQQ"} |-> 2]

\* One brokerage, one cash currency, one fund.
OneClass      == [a \in {"one"} |-> "holdings"]
OneAccountOf  == [e \in {"cash", "fundOne"} |-> "one"]
OneCurrency   == [e \in {"cash"} |-> "USD"]
OneInstrument == [h \in {"fundOne"} |-> "QQQ"]
OneSettlement == [h \in {"fundOne"} |-> "cash"]
OneOrigin     == [e \in {"cash", "fundOne"} |-> IF e = "cash" THEN 1 ELSE 0]
=============================================================================
