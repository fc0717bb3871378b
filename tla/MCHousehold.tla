---------------------------- MODULE MCHousehold ----------------------------
(* One bank account, one brokerage, a fund and two members.                  *)
EXTENDS Household, TLC

CONSTANTS mia, noa, bank, broker, fund, held, held2, house

HalfDays == [zone \in {"UTC", "east", "west"} |->
               CASE zone = "UTC" -> 0 [] zone = "east" -> 1 [] OTHER -> -1]

Shares == {mia :> x @@ noa :> y : <<x, y>> \in {<<2, 0>>, <<1, 1>>, <<1, 0>>}}

\* The two positions are alike: only their histories tell them apart.
HoldingSymmetry == Permutations(Holdings)
=============================================================================
