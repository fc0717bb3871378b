------------------------------ MODULE MCLedger ------------------------------
(* The ledger and what posts to it, for the model checker: every command in  *)
(* one part, proposals and recurring rules in the other.                     *)
EXTENDS MCActivityLedger, MCPendingActivities

Pay    == [kind |-> "deposit", legs |-> <<Leg("cash", 1)>>]
Accrue == [kind |-> "debt_draw", legs |-> <<Leg("loanValue", 1)>>]

\* Pay monthly on the last day of a long month, interest every other day.
PayAndAccrue ==
  {[schedule |-> Schedule("monthly", 1, 2, 8), payload |-> Pay],
   [schedule |-> Schedule("daily", 2, 4, 8), payload |-> Accrue]}
OnePay == {Pay}

VARIABLE part

LedgerInit == PendingInit /\ part \in {"commands", "proposals"}
Commands   == part = "commands" /\ Next /\ UNCHANGED <<pendingVars, part>>
\* Any one Activity beside the proposals, or two that were posted for proposals.
FewActivities == Len(ledger') <= 1 \/ (Len(ledger') = 2 /\ Cardinality(posts') = 2)
Proposals     == part = "proposals" /\ PendingNext /\ FewActivities /\ UNCHANGED part
LedgerNext == Commands \/ Proposals
LedgerSpec == LedgerInit /\ [][LedgerNext]_<<allVars, part>>
=============================================================================
