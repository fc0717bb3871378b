------------------------ MODULE MCPendingActivities ------------------------
(* A household with one bank account and one credit line for the model       *)
(* checker, and a calendar whose second month is shorter than the others.    *)
EXTENDS PendingActivities

BankClass     == [a \in {"bank", "credit"} |-> IF a = "bank" THEN "balance" ELSE "liability"]
BankAccountOf == [e \in {"bankValue", "creditValue"} |->
                    IF e = "bankValue" THEN "bank" ELSE "credit"]
BankCurrency  == [e \in {"bankValue", "creditValue"} |-> "USD"]
BankOrigin    == [e \in {"bankValue", "creditValue"} |-> 0]
NoHolding     == [h \in {} |-> "cash"]

ThreeMonths == 0 .. 2
ShortSecond == [m \in ThreeMonths |-> IF m = 1 THEN 2 ELSE 3]

Salary   == [kind |-> "deposit", legs |-> <<Leg("bankValue", 1)>>]
Interest == [kind |-> "debt_draw", legs |-> <<Leg("creditValue", 1)>>]

\* Salary monthly on the last day of a long month, interest every other day.
SalaryAndInterest ==
  {[schedule |-> Schedule("monthly", 1, 2, 8), payload |-> Salary],
   [schedule |-> Schedule("daily", 2, 4, 8), payload |-> Interest]}
OneSalary == {Salary}
=============================================================================
