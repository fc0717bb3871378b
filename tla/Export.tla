------------------------------- MODULE Export -------------------------------
(***************************************************************************)
(* The export of a household to a file: application/export_service.rs, and  *)
(* the reading of an exported Activity row by                               *)
(* application/csv_preview_service.rs.                                      *)
(*                                                                         *)
(* An export runs beside other commands and other exports.  It reads the    *)
(* database in one read transaction, section by section, writes what it     *)
(* reads to a temporary file of its own, syncs it and renames it over the   *)
(* destination.  The content of a file is the version of the database each  *)
(* section was read at; a version is the number of commits.                 *)
(***************************************************************************)
EXTENDS HistoryQueries

CONSTANTS
  Exporters,      \* export commands that may run at once
  Destinations,   \* the paths a user may choose
  DatasetsAt,     \* path -> the datasets its extension admits
  NoFile

\* A cell that is empty is none that is filled in.
ASSUME ExportConstants == Unset \notin [ep : Endpoints, amount : Nat]

VARIABLES
  jobs,    \* exporter -> what the command is doing
  temps,   \* exporter -> its temporary file, NoFile when there is none
  disk     \* path -> [now, durable]: the file, and the file after a power failure

exportVars == <<jobs, temps, disk>>

-----------------------------------------------------------------------------
(* The sections of canonical JSON, in the order they are written             *)

OpeningSections   == {"household", "settings"}
HouseholdSections == {"members", "institutions", "groups", "accounts", "accountOwnership", "media"}
MarketSections    == {"instruments", "holdings", "cashObservations", "accountValueObservations",
                      "instrumentQuotes", "fxQuotes", "fxQuotePreferences"}
OriginSections    == {"historyOrigin", "historyOriginAccountValues", "historyOriginCashValues",
                      "historyOriginHoldings", "historyOriginAccountStates",
                      "historyOriginOwnership"}
LedgerSections    == {"activities", "activityLegs"}
EvidenceSections  == {"accountStateObservations", "accountStateOwnership",
                      "holdingStateObservations", "instrumentPreferenceObservations",
                      "fxPreferenceObservations", "snapshotRevisions", "snapshotItems",
                      "costBasisDeclarations"}
ScheduleSections  == {"recurringRules", "pendingActivities"}
SustainSections   == {"freshnessPolicies", "maintenanceSnoozes", "importBatches", "importItems",
                      "benchmarks", "benchmarkObservations", "householdBenchmarkPreferences"}

\* Sections that follow each other without a gap in which the model looks.
Parts(dataset) ==
  IF dataset = "canonical"
  THEN <<OpeningSections \cup HouseholdSections, MarketSections \cup OriginSections,
         LedgerSections \cup EvidenceSections, ScheduleSections \cup SustainSections>>
  ELSE <<{dataset}>>

-----------------------------------------------------------------------------
(* The rows of the Activity dataset                                          *)

Size(x) == IF x < 0 THEN -x ELSE x
Cell(leg) == [ep |-> leg.ep, amount |-> Size(leg.delta)]

\* find_leg: the first leg in one of the roles, by order of the roles.
Find(i, roles) ==
  LET found == {k \in DOMAIN ledger[i].legs : Role(i, k) \in roles}
  IN  IF found = {} THEN Unset ELSE Cell(ledger[i].legs[Min(found)])

CashCell(i) == Find(i, {"destination", "source"})

\* write_activity_csv: openings, Reversals and replacements have no row.
Exported == {i \in DOMAIN ledger : /\ ledger[i].kind \notin {"opening_adjustment", "reversal"}
                                   /\ ledger[i].corrects = 0}

OneLegged == {"deposit", "withdrawal", "income", "fee", "balance_adjustment",
              "debt_adjustment", "manual_valuation", "position_adjustment"}

\* activity_csv_record: amounts have no sign, a trade has no unit price.
Row(i) ==
  LET kind == ledger[i].kind IN
  CASE kind \in OneLegged ->
         [kind |-> kind, of |-> Cell(ledger[i].legs[1])]
    [] kind \in {"buy", "sell"} ->
         [kind |-> kind, of |-> Find(i, {"holding"}), gross |-> Find(i, {"settlement"}),
          unitPrice |-> Unset, fee |-> Find(i, {"fee"})]
    [] kind = "transfer" ->
         [kind |-> kind, from |-> Find(i, {"source"}), to |-> Find(i, {"destination"}),
          toHolding |-> Unset, fee |-> Find(i, {"fee"})]
    [] OTHER ->
         [kind |-> kind, of |-> Find(i, {"liability"}), cash |-> CashCell(i),
          fee |-> Find(i, {"fee"})]

FeeLegs(row, payer) == IF row.fee = Unset THEN <<>> ELSE <<Leg(payer, -row.fee.amount)>>

\* The legs a refused row would have: none.
Refused == <<>>

\* An absolute target, against the latest row.
TargetOf(row) ==
  IF row.of.amount = Current(row.of.ep) THEN Refused
  ELSE <<Leg(row.of.ep, row.of.amount - Current(row.of.ep))>>

\* A position transfer needs a destination holding, which no column carries.
TransferOf(row) ==
  IF row.from.ep \in Holdings /\ row.toHolding = Unset THEN Refused
  ELSE <<Leg(row.from.ep, -row.from.amount), Leg(row.to.ep, row.to.amount)>>
         \o FeeLegs(row, row.from.ep)

TradeOf(row) ==
  LET sign == IF row.kind = "buy" THEN 1 ELSE -1
  IN  IF row.unitPrice = Unset THEN Refused
      ELSE <<Leg(row.of.ep, sign * row.of.amount), Leg(row.gross.ep, -sign * row.gross.amount)>>
             \o FeeLegs(row, row.gross.ep)

DebtDrawOf(row) ==
  IF row.cash = Unset THEN <<Leg(row.of.ep, row.of.amount)>>
  ELSE <<Leg(row.of.ep, row.of.amount), Leg(row.cash.ep, row.cash.amount)>>

\* The fee is read in the currency of the principal and must be in that of the cash.
FeeFits(row) == row.fee # Unset => CurrencyOf[row.of.ep] = CurrencyOf[row.cash.ep]

DebtPaymentOf(row) ==
  IF row.cash = Unset \/ ~FeeFits(row) THEN Refused
  ELSE <<Leg(row.of.ep, -row.of.amount), Leg(row.cash.ep, -row.cash.amount)>>
         \o FeeLegs(row, row.cash.ep)

\* activity_input and post_command_from_input: the legs an imported row posts.
Imported(row) ==
  CASE row.kind \in {"deposit", "income"}      -> <<Leg(row.of.ep, row.of.amount)>>
    [] row.kind \in {"withdrawal", "fee"}      -> <<Leg(row.of.ep, -row.of.amount)>>
    [] row.kind \in Remeasurements             -> TargetOf(row)
    [] row.kind = "transfer"                   -> TransferOf(row)
    [] row.kind \in {"buy", "sell"}            -> TradeOf(row)
    [] row.kind = "debt_draw"                  -> DebtDrawOf(row)
    [] row.kind = "debt_payment"               -> DebtPaymentOf(row)

-----------------------------------------------------------------------------
(* Files                                                                     *)

Idle == [phase |-> "idle"]

Version == Len(ledger) + Len(states)

\* Mutant of Reads: every section is read on its own, at the latest commit.
ReadsLatest(j) == Version

\* begin_read_tx: all sections are read from the snapshot of one transaction.
Reads(j) == jobs[j].snapshot

File(dataset, parts, synced) == [dataset |-> dataset, parts |-> parts, synced |-> synced]

SetJob(j, phase) == jobs' = [jobs EXCEPT ![j].phase = phase]
Answer(j) == jobs' = [jobs EXCEPT ![j] = Idle]
RemoveTemp(j) == temps' = [temps EXCEPT ![j] = NoFile]

\* validate_destination and unique_temp: an existing file needs a confirmation,
\* and the temporary file is one that no other command has.
StartExport(j, path, dataset, confirmed) ==
  /\ jobs[j] = Idle
  /\ disk[path].now # NoFile => confirmed
  /\ jobs' = [jobs EXCEPT ![j] = [phase |-> "opened", path |-> path, dataset |-> dataset,
                                  confirmed |-> confirmed, snapshot |-> 0]]
  /\ temps' = [temps EXCEPT ![j] = File(dataset, <<>>, FALSE)]
  /\ UNCHANGED disk

\* The first query of the read transaction fixes what it sees.
BeginRead(j) ==
  /\ jobs[j].phase = "opened"
  /\ jobs' = [jobs EXCEPT ![j].phase = "writing", ![j].snapshot = Version]
  /\ UNCHANGED <<temps, disk>>

\* write_named_object, write_named_array, or the rows of a CSV dataset.
WriteSection(j) ==
  /\ jobs[j].phase = "writing"
  /\ Len(temps[j].parts) < Len(Parts(temps[j].dataset))
  /\ temps' = [temps EXCEPT ![j].parts = Append(@, Reads(j))]
  /\ UNCHANGED <<jobs, disk>>

\* flush and sync_all of a file that has all its sections.
SyncTemp(j) ==
  /\ jobs[j].phase = "writing"
  /\ Len(temps[j].parts) = Len(Parts(temps[j].dataset))
  /\ temps' = [temps EXCEPT ![j].synced = TRUE]
  /\ SetJob(j, "synced")
  /\ UNCHANGED disk

\* An error before the file is complete: it is removed and the error answered.
FailWriting(j) ==
  /\ jobs[j].phase \in {"opened", "writing"}
  /\ RemoveTemp(j) /\ Answer(j)
  /\ UNCHANGED disk

\* finalize_replaced: the rename, which takes the temporary file away.
Replace(j) ==
  /\ jobs[j].phase = "synced"
  /\ disk' = [disk EXCEPT ![jobs[j].path].now = temps[j]]
  /\ RemoveTemp(j)
  /\ SetJob(j, "renamed")

\* The rename fails: the error is answered and the temporary file stays.
FailRename(j) ==
  /\ jobs[j].phase = "synced"
  /\ Answer(j)
  /\ UNCHANGED <<temps, disk>>

\* The sync of the folder makes its renames last, or fails and is answered.
SyncFolder(j) ==
  /\ jobs[j].phase = "renamed"
  /\ Answer(j)
  /\ disk' \in {disk, [p \in Destinations |-> [disk[p] EXCEPT !.durable = disk[p].now]]}
  /\ UNCHANGED temps

\* What is left of a file that was not synced: as many sections as were flushed.
Torn(file) ==
  IF file = NoFile \/ file.synced THEN {file}
  ELSE {[file EXCEPT !.parts = SubSeq(@, 1, n)] : n \in 0 .. Len(file.parts)}

\* Power fails: a rename whose folder was not synced may be undone, commands end.
Survivors(p) == Torn(disk[p].now) \cup Torn(disk[p].durable)

PowerFailure ==
  /\ \E j \in Exporters : jobs[j] # Idle
  /\ jobs' = [j \in Exporters |-> Idle]
  /\ temps' = [j \in Exporters |-> NoFile]
  /\ \E after \in [Destinations -> UNION {Survivors(p) : p \in Destinations}] :
       /\ \A p \in Destinations : after[p] \in Survivors(p)
       /\ disk' = [p \in Destinations |-> [now |-> after[p], durable |-> after[p]]]

ExportInit ==
  /\ jobs = [j \in Exporters |-> Idle]
  /\ temps = [j \in Exporters |-> NoFile]
  /\ disk = [p \in Destinations |-> [now |-> NoFile, durable |-> NoFile]]

Exporting ==
  \/ \E j \in Exporters, p \in Destinations, confirmed \in BOOLEAN :
       \E dataset \in DatasetsAt[p] : StartExport(j, p, dataset, confirmed)
  \/ \E j \in Exporters :
       \/ BeginRead(j) \/ WriteSection(j) \/ SyncTemp(j) \/ FailWriting(j)
       \/ Replace(j) \/ FailRename(j) \/ SyncFolder(j)
  \/ PowerFailure

ExportNext ==
  \/ QueriesNext /\ UNCHANGED exportVars
  \/ Exporting /\ UNCHANGED queryVars
ExportSpec == QueriesInit /\ ExportInit /\ [][ExportNext]_<<queryVars, exportVars>>

-----------------------------------------------------------------------------
(* Properties                                                                *)

Whole(file) ==
  /\ Len(file.parts) = Len(Parts(file.dataset))
  /\ \A m, n \in DOMAIN file.parts : file.parts[m] = file.parts[n]

\* Whatever fails and whoever exports at once, a file at a destination is a
\* whole export of one committed version of the database.
DestinationIsWhole ==
  \A p \in Destinations : disk[p].now # NoFile =>
    Whole(disk[p].now) /\ disk[p].now.parts[1] <= Version

MoneyKinds == {"deposit", "withdrawal", "income", "fee", "transfer", "debt_draw", "debt_payment"}

\* The row of an Activity that moves money posts the legs it was exported from.
\* A position has no row that could, and a fee in another currency is refused.
ExportRoundTrips ==
  \A i \in Exported :
    /\ ledger[i].kind \in MoneyKinds
    /\ \A k \in DOMAIN ledger[i].legs : ledger[i].legs[k].ep \notin Holdings
    /\ ledger[i].kind = "debt_payment" => FeeFits(Row(i))
    => Imported(Row(i)) = ledger[i].legs

\* A file is replaced only by a command that was told so.
OverwriteConfirmed ==
  [][\A j \in Exporters :
       jobs[j] # Idle /\ jobs[j].phase = "synced" /\ jobs'[j].phase = "renamed"
         => jobs[j].confirmed \/ disk[jobs[j].path].now = NoFile]_exportVars

\* Imported into a household of the same origin, the exported rows make up the
\* balances they were exported from.
ReimportReproduces ==
  \A e \in ValueEndpoints \cup CashEndpoints :
    Replayed([i \in DOMAIN ledger |->
                [legs |-> IF i \in Exported THEN Imported(Row(i)) ELSE <<>>, at |-> 0]], e)
      = Replayed(ledger, e)
=============================================================================
