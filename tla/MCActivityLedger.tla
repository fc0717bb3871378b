-------------------------- MODULE MCActivityLedger --------------------------
(* Small households for the model checker.                                  *)
EXTENDS ActivityLedger

\* A bank account and a brokerage with one cash currency and one holding.
BrokerClass      == [a \in {"bank", "broker"} |-> IF a = "bank" THEN "balance" ELSE "holdings"]
BrokerAccountOf  == [e \in {"bankValue", "cash", "fund"} |->
                       IF e = "bankValue" THEN "bank" ELSE "broker"]
BrokerCurrency   == [e \in {"bankValue", "cash"} |-> "USD"]
BrokerInstrument == [h \in {"fund"} |-> "QQQ"]
BrokerSettlement == [h \in {"fund"} |-> "cash"]
BrokerOrigin     == [e \in {"bankValue", "cash", "fund"} |-> IF e = "bankValue" THEN 0 ELSE 1]

\* A bank account, a brokerage with cash and a holding, a loan and a house.
FamilyClass      == [a \in {"bank", "broker", "loan", "house"} |->
                       CASE a = "bank" -> "balance" [] a = "broker" -> "holdings"
                         [] a = "loan" -> "liability" [] a = "house" -> "manual"]
FamilyAccountOf  == [e \in {"bankValue", "cash", "fund", "loanValue", "houseValue"} |->
                       CASE e = "bankValue" -> "bank" [] e \in {"cash", "fund"} -> "broker"
                         [] e = "loanValue" -> "loan" [] e = "houseValue" -> "house"]
FamilyCurrency   == [e \in {"bankValue", "cash", "loanValue", "houseValue"} |->
                       IF e = "loanValue" THEN "CNY" ELSE "USD"]
FamilyOrigin     == [e \in {"bankValue", "cash", "fund", "loanValue", "houseValue"} |->
                       IF e \in {"cash", "fund"} THEN 1 ELSE 0]
=============================================================================
