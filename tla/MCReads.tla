------------------------------ MODULE MCReads ------------------------------
(* What is read out of a household: pages of its Activities, exports,       *)
(* what it is worth.  A behaviour looks at one of them, beside commands.       *)
EXTENDS Export, Portfolio, TLC

CONSTANTS e1, e2

VARIABLE part

readVars == <<vars, states, walk, jobs, temps, disk, latest, preferred, part>>

\* A bank account, a brokerage with cash and a holding, and a loan.
ReadClass      == [a \in {"bank", "broker", "loan"} |->
                     CASE a = "bank" -> "balance" [] a = "broker" -> "holdings"
                       [] a = "loan" -> "liability"]
ReadAccountOf  == [e \in {"bankValue", "cash", "fund", "loanValue"} |->
                     CASE e = "bankValue" -> "bank" [] e \in {"cash", "fund"} -> "broker"
                       [] e = "loanValue" -> "loan"]
ReadCurrency   == [e \in {"bankValue", "cash", "loanValue"} |-> IF e = "bankValue" THEN "CNY" ELSE "USD"]
ReadInstrument == [h \in {"fund"} |-> "QQQ"]
ReadSettlement == [h \in {"fund"} |-> "cash"]
ReadOrigin     == [e \in {"bankValue", "cash", "fund", "loanValue"} |-> IF e = "fund" THEN 0 ELSE 1]

OldRows == {[account |-> "bank", at |-> 0 - 1]}

Everything == [from |-> 0, to |-> Day(Horizon), kind |-> Unset, account |-> Unset, class |-> Unset]
ReadFilters == {Everything, [Everything EXCEPT !.account = "bank"],
                [Everything EXCEPT !.class = "internal_transfer"]}

ReadDatasets == [p \in {"csv", "json"} |-> IF p = "json" THEN {"canonical"} ELSE {"activity"}]

Fund == [i \in {"QQQ"} |-> [currency |-> "USD", country |-> "US", type |-> "etf"]]
FactsOf(category, investment, mia, institution) ==
  [category |-> category, netWorth |-> TRUE, investment |-> investment,
   owners |-> [m \in {"mia", "noa"} |-> IF m = "mia" THEN mia ELSE 4 - mia],
   institution |-> institution]
ReadRows == [a \in {"bank", "broker", "loan"} |->
               CASE a = "bank" -> FactsOf("cash", TRUE, 4, "house")
                 [] a = "broker" -> FactsOf("investment", TRUE, 1, "house")
                 [] a = "loan" -> FactsOf("liability", FALSE, 2, "none")]
\* Only the bank counts in the net worth; the brokerage counts as an investment.
ApartRows == [ReadRows EXCEPT !["broker"].netWorth = FALSE, !["loan"].netWorth = FALSE]
ReadOffers ==
  {[line |-> <<"QQQ">>, source |-> "manual", value |-> 1],
   [line |-> <<"QQQ">>, source |-> "provider", value |-> 2],
   [line |-> <<"USD", "CNY">>, source |-> "manual", value |-> 2],
   [line |-> <<"USD", "CNY">>, source |-> "provider", value |-> 1],
   [line |-> <<"CNY", "USD">>, source |-> "manual", value |-> 2]}

\* The parts: every kind of command, pages beside a few, exports beside deposits.
ReadInit == QueriesInit /\ ExportInit /\ PortfolioInit /\ part \in {"kinds", "pages", "files", "worth"}
ReadKinds ==
  /\ part = "kinds"
  /\ Command
  /\ UNCHANGED <<exportVars, quoteVars, part>>
ReadPages ==
  /\ part = "pages"
  /\ \/ (Deposit \/ Reverse \/ Correct \/ Tick) /\ UNCHANGED <<states, walk>>
     \/ \E a \in Archivable : ArchiveAccount(a)
     \/ Pages /\ UNCHANGED vars
  /\ UNCHANGED <<exportVars, quoteVars, part>>
ReadFiles ==
  /\ part = "files"
  /\ \/ Room(2) /\ Deposit /\ UNCHANGED exportVars
     \/ Exporting /\ UNCHANGED vars
  /\ UNCHANGED <<states, walk, quoteVars, part>>
ReadWorth ==
  /\ part = "worth"
  /\ \/ Room(2) /\ (Deposit \/ Buy \/ DebtDraw \/ \E e \in {"bank", "fund"} : Archive(e)) /\ UNCHANGED quoteVars
     \/ Quoting /\ UNCHANGED vars
  /\ UNCHANGED <<states, walk, exportVars, part>>
ReadNext == ReadKinds \/ ReadPages \/ ReadFiles \/ ReadWorth
ReadSpec == ReadInit /\ [][ReadNext]_readVars

ExporterSymmetry == Permutations(Exporters)
=============================================================================
