---------------------------- MODULE MCMaintenance ----------------------------
(* A brokerage and one pair of currencies, no refresh; reminders in one part, *)
(* a benchmark in the other.                                                *)
EXTENDS Maintenance, Benchmarks

FxPolicies == {"fx_quote"} \cup Pairs
Abroad     == [b \in Series |-> CHOOSE p \in Pairs : TRUE]

MaxEvidence == 4   \* bound on levels, quotes and preferences together

VARIABLE part

CareInit == /\ MaintenanceInit /\ BenchmarksInit /\ part \in {"reminders", "benchmarks"}
            /\ part = "benchmarks" => \A a \in CashAccounts : valued[a] = None
Reminding == part = "reminders" /\ MaintenanceNext /\ UNCHANGED <<benchmarkVars, part>>
Comparing ==
  /\ part = "benchmarks"
  /\ \/ Benchmarking
     \/ (UserStep \/ Midnight) /\ UNCHANGED benchmarkVars
  /\ Len(levels') + Len(quotes') + Len(observed') <= MaxEvidence
  /\ UNCHANGED <<reminders, part>>
CareNext == Reminding \/ Comparing
CareSpec == CareInit /\ [][CareNext]_<<vars, reminders, benchmarkVars, part>>
=============================================================================
