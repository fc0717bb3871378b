# Nestworth: specifications, model checks and proofs

Nestworth is a local-first household net-worth application: a Tauri shell, a Rust
backend over one SQLite file (`src-tauri/src`) and a React front end (`src`). This
directory holds TLA+ models of its parts, the TLC configurations that check them on
small instances, and TLAPS proofs of the properties that matter most. Paths below are
relative to the repository; `S/` abbreviates `src-tauri/src/`, and release documents
(`v0.1.x...md`) lie in `docs/releases/`.

- [1. The system](#1-the-system): its components, state, operations and hard behaviours
- [2. The modules](#2-the-modules): how each corresponds to the code
- [3. The runs](#3-the-runs): what is checked, under which bounds and fairness
- [4. What the code does otherwise](#4-what-the-code-does-otherwise)
- [5. The proofs](#5-the-proofs)
- [6. Only model-checked, and not modelled](#6-only-model-checked-and-not-modelled)
- [7. Plan](#7-plan)

How to run, from this directory:

    tlc -workers 2 -config MCLedger.cfg MCLedger
    tlapm ActivityLedgerProofs.tla

## 1. The system

The front end calls Tauri commands (`S/commands`), one per operation. Every command
goes through the *operation gate* (`S/state.rs`), a tokio `RwLock` with a terminal
reason beside it, and then through a service in `S/application`. A service runs in
its own SQLite transaction, mostly `BEGIN IMMEDIATE`, so a command is atomic unless
it is one of the few that use several transactions (rebuilding snapshots, refreshing
quotes) or touch files (backup, restore, reset, bootstrap). What is hard lies in
those few, and in the relation between the append-only ledger and the three kinds
of derived state kept beside it.

| Component | State it keeps | What is hard about it | What makes it correct |
|---|---|---|---|
| Activity ledger (`activity_service.rs`, `history_repositories.rs`) | `activities`, `activity_legs`; the observation rows of values, cash and quantities; the column `holdings.quantity` | append-only; commands may be dated earlier than those already there; reversal and correction chains; rows are written incrementally by a post and by replay in a correction | rows, column and replay agree; a chain never forks; a reversed Activity adds nothing; the marker covers every changed day |
| History Origin, onboarding, members, accounts, holdings (`history_origin.rs`, `onboarding_service.rs`, `account_service.rs`, ...) | rows of the household, a journal of observations, the baseline, the confirmed time zone | current rows are overwritten while the past is read from the journal; the zone decides what a day is | rows and journal agree; nothing changes the past; every closed day is covered |
| History snapshots and the trend page (`history_snapshot_service.rs`, `net-worth-trend.tsx`) | `history_snapshot_state`, revisions per day | a rebuild is many transactions; commands, cancellations and a second rebuild commit between them; a quit leaves it "running" | a day before the marker shows the truth; a rebuild ends; the trend can always be completed |
| Historical reconstruction and queries (`historical_valuation_service.rs`, `history_query_service.rs`) | none | the ledger grows between two pages; classification and chains are derived twice, in SQL and in Rust | a walk lists every item once; header and filter agree |
| Bootstrap and migration (`database_bootstrap.rs`) | the file, its `-wal`, pre-migration copies | a stop or an error between any two file operations | a migration starts from a complete copy |
| Operation gate (`state.rs`, `ipc.rs`) | the lock and the terminal reason | who entered before and who after the terminal reason was set | no command works on a closing pool; an exclusive operation is not starved |
| Backup and restore (`backup_service.rs`, `restore_service.rs`), delete all data (`settings_service.rs`) | bundles, recovery bundles, inspection tokens, temporary files | many file operations, each of which may fail or be the last before a power failure; the file at the path changes between inspection and restore | the user's data is always in the database or a recovery bundle; the restored bundle is the inspected one; success is durable |
| Pending Activities (`pending_service.rs`, `sustainable.rs`) | rules, pending items | regeneration after edits, one budget per call over all rules, post racing skip, short months | each occurrence is proposed exactly once and posted at most once |
| FIFO lots and gains (`lot_ledger.rs`, `cost_basis_service.rs`, `gain_service.rs`, `currency_decomposition.rs`) | cost declarations; lots are replayed | back-dated buys, reversals, transfers, remainders of splits | lots match positions; first in, first out; gains are cash flow |
| Quotes, FX, preferences, refresh (`quote_service.rs`, `refresh_service.rs`, `valuation_service.rs`) | quotes, preferences and their log | provider answers late, preferences change meanwhile; two selections (now, a past day) | both selections agree; manual data is never disturbed; snapshots are marked dirty |
| CSV import (`csv_preview_service.rs`, `csv_import_service.rs`) | import batches, row identities, preview tokens | the file or the database changes between preview and commit; duplicates | all or nothing; a row is imported once; the previewed file is the imported one |
| Maintenance, benchmarks (`maintenance_service.rs`, `freshness_policy_service.rs`, `benchmark_service.rs`) | policies, snoozes, levels | derived from quotes of two directions, policies of two levels, snoozes that expire | a reminder is true; a past comparison is final |
| Analytics (`return_service.rs`, `attribution_service.rs`, `income_fee_service.rs`, `analytics_scope.rs`) | none | the same Activity is a flow in one scope and internal in another; three readers must tell one story | flows are not return; the bridge explains the change; scopes add up |
| Overview and portfolio (`valuation_service.rs`, `portfolio_service.rs`, `overview_service.rs`) | none | a missing rate withholds a total; ownership shares are rounded | breakdowns add up; a missing rate is asked for |
| Export (`export_service.rs`) | temporary files | stops and failures between write, sync and rename; two exports to one path | the destination is one whole version |
| Search, groups, media, JSON wording, rendering | single rows, or none | pure reads and formatting | not modelled |

How they interact:

- every command that changes historical facts appends to the ledger (or changes
  another fact) and *in the same transaction* lowers `dirty_from`; the rebuild reads
  facts and raises `dirty_from`. The marker is the only protocol between the two;
- posting a Pending Activity and committing an import are ledger commands with one
  more row in the same transaction;
- lots, returns, bridge, totals, pages and exports are derived from the ledger and the
  snapshots on every read and store nothing (cost declarations excepted);
- the page drives the rebuild: it calls the command again while days remain, some
  were processed, and nobody asked to cancel;
- restore and reset take the gate exclusively, set the terminal reason, close the
  pool and replace the file; the next start of the process reads what they left;
- preview tokens and inspection tokens connect two commands of the user, across which
  the file at the chosen path may change.

## 2. The modules

| Module | What it is | Composed with |
|---|---|---|
| `ActivityLedger` | the ledger and its projections; one action per kind of command | implements `AccountBook` |
| `AccountBook` | the abstract book of entries that the ledger promises | |
| `Recurrence`, `PendingActivities` | the calendar of a schedule; proposals and rules that post | extends `ActivityLedger` |
| `LotLedger` | FIFO replay, cost declarations, gains | extends `ActivityLedger` |
| `Decimals`, `CurrencyDecomposition` | decimals of bounded precision; the split of a gain | over `LotLedger` |
| `HistoryQueries` | pages of the list and the timeline, classification, filters, detail | extends `ActivityLedger` |
| `Export` | an export as file operations; the row of an Activity and what an import makes of it | over the ledger of `HistoryQueries` |
| `HistorySnapshots` | the rebuild of daily snapshots with its page; one action per transaction | |
| `DatabaseLifecycle` | bootstrap, gate, backup, restore, reset; one action per file operation | |
| `BackupBundle` | the bundle at a path others write to: creation, inspection, the checks of a restore | |
| `MarketData` | quotes, preferences, both selections, the refresh with its provider | |
| `Maintenance`, `Benchmarks` | policies, snoozes and the queue; levels and the comparison | over `MarketData` |
| `CsvImport` | preview, token, file, commit | |
| `Household` | onboarding, origin, zone, members, accounts, holdings and their journal | |
| `Analytics` | returns, bridge and totals as operators of the rows | |
| `Portfolio` | current valuation, its totals and breakdowns, the required rates | |
| `SumTheorems` | what the library's fold for sums computes, least elements and counting, as lemmas | |
| `ActivityLedgerProofs`, `HistorySnapshotsProofs`, `DatabaseLifecycleProofs`, `HouseholdProofs` | theorems of the module they are named for | |
| `MarketDataProofs` | theorems of `MarketData`, `Maintenance` and `Benchmarks` | |
| `UserFilesProofs` | theorems of `CsvImport` and `BackupBundle` | |
| `LedgerClientsProofs` | theorems of `PendingActivities`, `HistoryQueries`, `Export` and `Portfolio` | over `ActivityLedgerProofs` |
| `MC...` | small instances for TLC; `MCLedger`, `MCUserFiles`, `MCMaintenance` and `MCReads` run several components in one instance | |

### ActivityLedger

An *endpoint* is what a leg can name: an account value, holdings cash in one
currency, or a holding. An Activity is a kind, an effective time, one to three legs
(endpoint and signed amount) and, for a reversal or replacement, the position of the
Activity it reverses or corrects. State and code:

| Variable | Code |
|---|---|
| `ledger` | `activities` and `activity_legs`, in insertion order; insertion order stands for `(created_at, id)` |
| `observed` | per endpoint, the latest observation row by `(effective_at, created_at, id)`: its amount and time; `at = -1` when there is none |
| `quantity` | the column `holdings.quantity` |
| `archived` | archived accounts and holdings |
| `dirtyFrom` | `history_snapshot_state.dirty_from`, in days |
| `now` | the clock, which a command reads once |

`Post` is `post_in_tx` with `apply_and_persist`: it applies the legs to the latest
rows, one leg after another with the range check of `apply_to_money` and
`apply_to_quantity`, and writes the result as a row *at the Activity's own effective
time*. `PersistLedger` is `persist_ledger_activities`, used by `ReverseActivity`
and `CorrectActivity`: it replays the touched endpoints from the History Origin
over the whole ledger and the new Activities, fails if any intermediate state is out
of range, and writes the result no earlier than any existing row. Each kind of
command is an action (`Deposit`, `Buy`, `DebtPayment`, ...) whose legs are built by
the operators of the section before (`construct_posted_activity`): a trade's
settlement leg disappears when quantity times price is zero, an absolute adjustment
becomes the distance from the latest row, a transfer within a currency has equal
amounts. `Archive`, `CreateAtZero`, `Tick` and `RebuildSnapshots` (its effect on the
marker only; the rebuild itself is the next module) are what the ledger's
environment does.

Abstractions: amounts are naturals up to `MaxAmount`, the cap of `Money` and
`Quantity`; decimals and rounding are left out. Times are instants 0 to `Horizon`,
instant 0 being the History Origin, before which a command cannot be dated. Names,
notes and categories are left out.

### AccountBook

What a reader of the accounts may assume: a set of entries, of which one command
enters one, takes one back, or amends one; the balance of an endpoint is its
baseline plus what the entries say, and is within range. No time, no rows, no
reversal records. `ActivityLedger!Book` maps a ledger to its *live* Activities and
the latest rows.

### HistorySnapshots

Days are 0 to `LastDay`. Of the facts of a day only their version matters (how many
commands dated on or before it there were), and a snapshot is the version it was
reconstructed from. `Plan`, `MarkRunning`, `Check`, `Persist`, `Finalize` and
`MarkFailed` are the transactions of one `rebuild_snapshots` command, in the order
of the code; `Start` is the button, `GoesOn` (in `Finalize`) is the loop of the
page, `Cancel` is the cancel command with what the page does around it; `Reopen`
leaves the page while its loop goes on, `Revisit` is an ordinary visit; `Restart` ends
the process. `Rebuilds` is a set of loops: after reopening the page, a second loop can
run beside the first.

What the page offers it decides by what it holds (`net-worth-trend.tsx:46-66`,
`231-237`): `fetched` is the status it fetched last (on opening, after a call, and when a
command invalidates the valuation), `progress` is `lastResult`, `attached` are the loops
it started, `awaited` the one whose mutation it shows as pending. `DaysLeft` prefers
`progress` to `fetched`, so after a rebuild that left nothing to do a page that stays
open offers no button for the days that close later; opening it anew does.

Two history variables: `sinceCancel`, how many days a rebuild persisted after it was
asked to stop, and `overtaken`, the days that a command changed after a rebuild in flight
had passed them and that no rebuild has reconstructed since.

### DatabaseLifecycle

Of the contents of a database only a version is kept: 0 is a fresh one, every commit
makes a new one. `live` is the file, `wal` the committed frames beside it, `walBase`
the file they were written against, and `Content` what opening the two shows.
`snapshots`, `recoveries`, `backup` and `strays` are the copies on disk, `strays`
those that survive the operation that made them (the temporary directories, the
extracted recovery database). Actions follow the functions: `Inspect` to `OpenFails`
is `bootstrap`; `Ask`, `Enter`, `Return` is the shared permit around `Commit`,
`CopyOut`/`PutBackup` (create a backup) and `InspectBundle`; `AskExclusive` to
`DropDatabase` are restore and reset, one action per file operation with its success
and its failure. `Stop(after)` ends the process at any point: by a quit, a crash, or
a power failure, which may put back the file a rename replaced, as long as the
directory has not been synced (`mayRevert`). `Install` changes the version of the
application while it is not running.

Abstractions: the archive format, checksums and validation of a bundle are one
nondeterministic "refused"; `inspect`'s own temporary directory is one step; the
dialog that confirms a restore is modal, so its token is not exchanged while the
restore waits; a stop without power failure loses no written file; commits that
SQLite reported are not lost with `synchronous = NORMAL` (a power failure may lose
the last of them, by choice of that setting). SQLite checkpoints when the last
connection closes, unless something keeps it from doing so: both are possible, and
`clean` remembers which, because the code that follows relies on it.

`seen` is a history variable: the last version the user saw as the household's data
(at a commit or an opening; a reset the user confirmed sets it to none).

### The other modules

`PendingActivities` has one action per command of `pending_service.rs` on top of
the ledger's; a post is the ledger's `Post` with the item marked in the same step. The history
variable `posts` records every Activity that was posted for an item, so that a second
post would show although the item names only the last.
`Recurrence` is `Schedule` with calendars whose months have a few days, so the clamp
to a short month happens within the bounds. `LotLedger` adds to each state of the
ledger what a replay derives, as operators; shares are rounded down to integers so
that an uncorrected remainder shows. `MarketData` keeps which quote is selected and
not its price; `AskChunk`, `ProviderAnswers` and `ProviderFails` are the refresh, one
request at a time. `CsvImport` applies rows one step at a time within its
transaction, which reads of others do not see. `BackupBundle` counts files as inodes
and the rewrites of each; a rewritten file changes its length or modification time,
and a file that has left the path does not come back to it. `Household` keeps
current rows and the journal separately and derives one from the other in its
properties. `Analytics`, `Portfolio` and `HistoryQueries` are readers: operators over
the rows, with actions that make rows. `Export` steps through the file operations of
two concurrent exports. The comment at the head of each module says what is
abstracted.

## 3. The runs

All runs stop checking deadlock: calendars, ledgers, quotes, commits and stops are
bounded, and a behaviour that has used its bounds up stops.

| Run (cfg) | Instance | Checks |
|---|---|---|
| `ledger` (`MCLedger`) | in one part a bank account, a brokerage with cash and one fund, a loan and a house, 3 Activities, amount 1, cap 2, prices 0 and 1, two days, nothing back-dated on entry; in the other two rules (one accruing) and one payload over a calendar with a short month, 2 occurrences per call, 3 items, one Activity or two posts | `ProjectionIsReplay`, `ChainsWellFormed`, `ImplementsBook`; `PostedOnce`, `GenerationComplete` |
| `snapshots` (`MCSnapshots`) | two loops, 3 days, batches of 1, 2 commands at any moment, 2 disturbances; fair | `TrustedUnlessOvertaken`, `RebuildEnds`, `TrendRecovers` |
| `lifecycle` (`MCLifecycle`) | two commands, two application versions, one commit, one stop; fair | `SeenIsSafe`, `WalBelongs`, `GateHolds`, `FailedRestoreKeepsCurrent`, `RestoredIsDurable`, `ReplacementAnswered` |
| `lots` (`MCLots`) | two brokerages with one fund each, amounts 1 and 2, 3 Activities, back-dating, one declaration | `LotsMatchHoldings`, `FirstInFirstOut`, `GainIsCashFlow`, `DirtyCoversChange`, `RepairsProjections` |
| `market` (`MCMarket`) | one instrument, one pair, one refresh, two days, 2 quotes, 3 observations | `CurrentMatchesHistory`, `StaleOnlyByProvider`, `RefreshKeepsManual` |
| `maintenance` (`MCMaintenance`) | one pair in both directions, one cash account, one benchmark abroad, three days, 2 quotes, 2 levels, one snooze, 4 pieces of evidence in all | `RemindersTrue`, `ComparisonIsFinal` |
| `import` (`MCUserFiles`) | in one part files of at most two rows with three identities, two stamps, one token, two batches; in the other bundles: 2 files, one rewrite, one commit, four foreign bundles | `ImportedOnce`, `OnlyPreviewed`; `RestoredIsShown` |
| `household` (`MCHousehold`) | two members, a bank account, a brokerage, two interchangeable holdings, one archive at a time, two local days, a zone east and one west | `CurrentMatchesHistory`, `DaysCovered`, `PastIsFixed` |
| `analytics` (`MCAnalytics`) | two Activities of every kind, one new rate and price, two closed days, three accounts and a loan | `FlowsAreNotReturn`, `BridgeExplained`, `ScopesAddUp`, `TotalsMatchBridge` |
| `reads` (`MCReads`) | three accounts, 3 Activities, back-dating, pages of one item; two exports to one destination; quotes of one pair that come and go | `PagesListOnce`, `HeaderIsTrue`, `RowsFollowReplay`, `DestinationIsWhole`, `BreakdownsAgree`, `MissingRateIsAsked` |
| `snapshots_lost_mark`, `decomposition` | expected violations | `SnapshotsTellTruth`, `DecompositionAnswers`: section 4 |

**Why these bounds.** Three Activities are the smallest ledger with a correction
(original, reversal, replacement), and with a reversal of something other commands
built upon. A cap of 2 has both edges, zero and the cap, within reach of every command.
Two instants, each a day of its own, separate "earlier" from "now". A zero price makes
a trade without settlement leg. Two brokerages with one fund are the smallest
household with a position transfer. Two posts are the least that can post one item
twice. Two closed days with batches of 1 need a second batch, one day can close after a
rebuild has finished, and two loops are the most that a page opened twice has. One commit makes "old" and
"new" differ, two commands are the least for one inside the gate and one waiting, and
one stop can occur between any two steps. A generation of two per call with two rules
makes the budget end between rules and within one. Pages of one item put a posting
between any two items. Two batches and three identities make a repeated and a
conflicting identity, within a file and across files. Analytics uses two rates and
two prices, so a movement of either is visible, and integers, so nothing rounds.

**Fairness.** `Running` (`HistorySnapshots`): a command the runtime has begun is run to
its end; each `Work(r)` is the next transaction of a command in flight, and neither
SQLite's busy timeout nor the gate can hold it for ever, because other transactions
are short. `Attended`: somebody presses the button that the page offers and
comes back to the page. It is not assumed of the system, but is the antecedent of
`TrendRecovers`; without coming back (`Revisit`) the property is false, because a page
left open may offer no button. `DatabaseLifecycle`:
an accepted command returns, a permit that is available is taken, and the exclusive
operation takes its steps; tokio's `RwLock` is first-in first-out, which `Join` and
`MayEnter` model. `MarketData`: a refresh in flight goes on and a request times out;
under it `RefreshReturns` holds (put it as the PROPERTY of `MCMarket.cfg`). Nothing is
assumed about users, stops or commits.

**Restrictions of the environment.** `ledger` has `Backdating = FALSE`, since
`ProjectionIsReplay` and `ImplementsBook` fail otherwise (section 4). With
`Backdating = FALSE` a command is dated when it is entered, but a reversal or a
correction may still be dated at any earlier admissible time. What holds of the rows with
back-dating, in `lots` and `reads`, is `RowsFollowReplay`, `RepairsProjections` and
`DirtyCoversChange`: a row misses what was entered behind it and nothing else, until a
reversal or correction that touches the endpoint repairs it. In the proposals of `ledger`
dates of generated items are not edited (`DateEdits = FALSE`). In `snapshots` commands
commit between any two steps of a rebuild.

## 4. What the code does otherwise

Two runs end in a counterexample to something the repository itself says.

1. **A command during a rebuild loses its dirty mark** (`snapshots_lost_mark`,
   `S/application/history_snapshot_service.rs:319`). Persisting a day writes the marker
   without reading it; a mark made between two days is overwritten.
2. **The currency decomposition fails** (`decomposition`,
   `S/application/currency_decomposition.rs:110`). Two sums of products, each rounded at
   the last digit, are compared for equality; for a share of a declared cost they differ
   and the whole summary is an internal error.

Further counterexamples can be had from the configurations here. Those with a
configuration of their own:

| Configuration (module) | Property | Code | What the documents say |
|---|---|---|---|
| `MCSnapshotsCancel` (`MCHistorySnapshots`) | `CancelBetweenDays` | `history_snapshot_service.rs:327`: persisting a day writes "running" without reading it, so a cancellation before it is overwritten | cancellable between days (v0.1.3-technical-design.md:428) |
| `MCLedgerBackdatedProjection` (`MCActivityLedger`) | `LiveIsHistorical` | `activity_service.rs:1284`: the result is written as a row at the Activity's earlier time, so the latest row stays | current state agrees with current valuation (v0.1.3-implementation-plan.md:222) |
| `MCLedgerCorrectionTarget` (`MCActivityLedger`) | `CorrectionReachesTarget` | `activity_service.rs:525`: the replacement is built against the row that still contains the original | v0.1.3-technical-design.md:132 |
| `MCPendingLostOccurrence` (`MCPendingActivities`) | `GenerationComplete` | `pending_service.rs:762`: after the date of an item is edited, an occurrence is never proposed | v0.1.5-technical-design.md:158, v0.1.5-implementation-plan.md:167 |
| `MCLotsShortfall` (`MCLotLedger`) | `NeverShort` | `lot_ledger.rs:999`: a purchase whose units were sold is reversed after another purchase, and the sale finds no lot | "replay never runs short" (v0.1.4-technical-design.md:127) |

The others come from a configuration above, with the property named here in place of
its own:

| Property | Configuration and changes | What it shows |
|---|---|---|
| `ResetLeavesNothing` | `MCLifecycle`: `SPECIFICATION Spec`, `Schemas = {1}`, `MaxVersion = 0` | copies with other names survive a reset (`settings_service.rs:103`; v0.1.5.md:148) |
| `MigrationKeepsCopy` (PROPERTY) | `MCLifecycle`: `SPECIFICATION Spec`, `MaxVersion = 0`, `MaxStops = 2` | a partial pre-migration copy is taken for a complete one (`database_bootstrap.rs:192`; v0.1.1.md:108) |
| `PreviewDecides` | `MCUserFiles`: `Files <- InAndOut`, without symmetry | the preview judges rows alone, the commit in order (`csv_preview_service.rs:486`; v0.1.5-technical-design.md:338) |
| `RestoredIsShown` | `MCUserFiles`: `SPECIFICATION SwapSpec` | a bundle swapped out while it is read and put back is not noticed |
| `EveryDayCovered` | `MCHousehold` | a zone confirmed west of the recorded one puts the first day before the marker, and it is never planned (`history_origin.rs:207`; v0.1.3-technical-design.md:414) |
| `InternalNetsOut` | `MCAnalytics` | a transfer with a fee is taken for a zero flow (`analytics_scope.rs:151`; v0.1.4-technical-design.md:257) |
| `FilterFindsLegs`, `HeadIsOffered`, `OverwriteConfirmed` (PROPERTY), `ReimportReproduces`, `ShownRateIsUsed` | `MCReads` | items 6, 7 and 10 below |
| `MissingRateIsAskedThere` | `MCReads`: `AccountFacts <- ApartRows` | item 11 below |
| `ConvertsAsValued` | `MCMaintenance` | item 3 below |

What was met while reading, with and without a model:

1. Provider quotes do not mark snapshots dirty (`refresh_service.rs:318`;
   v0.1.3-technical-design.md:414). `StaleOnlyByProvider` says that nothing else leaves a stale day.
2. A future-dated manual quote hides an earlier one from the maintenance queue
   (`maintenance_service.rs`, near 377; v0.1.5-technical-design.md:184).
3. `preference_at` falls back to the current preference where no observation precedes
   the cutoff, while historical valuation falls back to manual
   (`currency_decomposition.rs:572`; v0.1.4-technical-design.md:227).
4. `closed_day_cutoff` fails for a day whose next local midnight does not exist
   (`S/domain/time.rs:155`; v0.1.3-technical-design.md:380).
5. An adjustment equal to a stale column is skipped (`holding_service.rs:310`). Column
   and row differ only by what was last entered behind the row: `RowsFollowReplay`.
6. Every live replacement is marked "reversed" (`history_query_service.rs:1059`), so the
   page hides its actions (v0.1.3-technical-design.md:273); the SQL filter classifies
   the fee leg of a transfer otherwise than `classify`.
7. The Activity export leaves out opening adjustments, reversals and corrections but
   writes reversed originals; adjustments export a distance where an import reads a
   target (v0.1.5-implementation-plan.md:332); trades lack a unit price and position
   transfers a destination; a failed rename leaves the temporary file; two exports to one
   new path overwrite without confirmation; importing into the same household doubles.
8. A debt payment's fee is parsed in the principal's currency
   (`history_query_service.rs`, near 1789) but must be in the cash currency
   (`S/domain/activity.rs:917`).
9. `decompose_identity` turns a rounding difference into an internal error (above).
10. `required_fx_status` shows the first quote of either orientation, valuation prefers
    the direct one (v0.1.2-technical-design.md:130).
11. The lists of required rates look at one inclusion flag, the pages at the other
    (`valuation_service.rs:604`, `672`; v0.1.2-technical-design.md:251).
12. An inspection token keeps no digest of the bundle's members (`SwapSpec` above).
13. Benchmark levels may be dated in the future.
14. Analytics: a balance of zero converts at 1 (`attribution_service.rs:763`); a debt leg
    alone in scope counts as a positive flow; a reversal on another day than its original
    makes a gain and a loss (`return_service.rs:741`); an account scope that does not
    count has no items and returns -100 %; a position transfer makes the household's
    bridge, and a position or opening adjustment its return, unavailable; a debt payment
    or a paired draw shows opposite debt and unexplained parts; the bridge of a
    liability's own scope counts twice; a fee on a debt payment without a fee kind is in
    no bucket (`income_fee_service.rs:163`; v0.1.4.md:270); totals include the start day,
    returns and bridge exclude it. The properties leave these cases out by name.
15. The trend panel prefers the result of the last call to the status and nothing tells
    it that a day has closed (`net-worth-trend.tsx:231`): a page left open after a
    finished rebuild offers no button for later days until it is opened anew.

## 5. The proofs

The theorems hold for every value of the constants that satisfies the named
assumptions of the modules (`LedgerConstants` and `EndpointShape`,
`SnapshotConstants`, `LifecycleConstants`, `ImportConstants`, `MarketConstants`,
`PendingConstants` with `CalendarConstants`, `BundleConstants`, `HouseholdConstants`,
`MaintenanceConstants`, `BenchmarkConstants`, `QueryConstants`, `ExportConstants`, `PortfolioConstants`): any
household, any number of Activities, loops, days, files, calls, versions and stops. TLC
evaluates the assumptions in every run. What they say beyond types: the tables and
months are finite sets, a marker for "none" is not one of the values it stands beside,
the observations an older version left lie before the origin, and a zone differs from
UTC, whose offset is zero, by at most a day. One of them is a restriction: `QueryConstants` leaves out a price
of zero, whose trades have no settlement leg.

| Theorem | States | Under |
|---|---|---|
| `TypesHold`, `ChainsHold`, `RepairsHold` | `TypeOK`, `ChainsWellFormed`, `RepairsProjections` | |
| `ChangesAreMarked` | `DirtyCoversChange` | |
| `RowsFollow` | `RowsFollowReplay` | |
| `LedgerImplementsBook` | `ImplementsBook` (refinement) | `Backdating = FALSE` |
| `PendingInvariance`, `PendingTypesHold`, `ProposalsPostedOnce`, `DatesStayUnique` | `IInv`, `PendingTypeOK`, `PostedOnce`, `OneItemPerDate` | |
| `OccurrencesProposedOnce`, `GenerationIsComplete` | no occurrence is proposed twice; `GenerationComplete` | `DateEdits = FALSE` |
| `WalksListOnce`, `HeadersAreTrue` | `PagesListOnce`, `HeaderIsTrue` | |
| `ExportsAreWhole`, `RowsRoundTrip` | `DestinationIsWhole`, `ExportRoundTrips` | |
| `RatesAreAsked` | `MissingRateIsAsked` | |
| `HouseholdInvariance`, `CurrentIsHistorical`, `PastStaysFixed` | `CurrentMatchesHistory`, `PastIsFixed` | |
| `DaysStayCovered` | `DaysCovered` | |
| `SnapshotTypes` | `TypeOK` | |
| `SnapshotsTrue` | `TrustedUnlessOvertaken` | |
| `LifecycleTypes`, `RestoreLosesNothing`, `WalAlwaysBelongs`, `GateAlwaysHolds`, `FailureKeepsCurrent`, `SuccessIsDurable`, `OnlyInspectedRestored` | `SeenIsSafe`, `WalBelongs`, `GateHolds`, `FailedRestoreKeepsCurrent`, `RestoredIsDurable`, and that only the inspected bundle is restored | |
| `UserFilesProofs`: `Invariance`, `TypeCorrect`, `ItemsLeadToFacts`, `ImportsOnce`, `ImportsWhatWasPreviewed` | `ImportedOnce`, `OnlyPreviewed` | |
| `MarketDataProofs`: `Invariance`, `TypeCorrect`, `SelectionsAgree`, `OnlyProvidersLeaveStale`, `RefreshLeavesManual`, `RemindersAreTrue`, `ComparisonsAreFinal` | `CurrentMatchesHistory`, `StaleOnlyByProvider`, `RefreshKeepsManual`, `RemindersTrue`, `ComparisonIsFinal` | |
| `BundleInvariance`, `BundleTypesHold`, `OnlyShownIsRestored` | `RestoredIsShown` | |

**SumTheorems.** The ledger's properties compare sums over a ledger with sums over a
longer one, and `MapThenSumSet` folds in an order that CHOOSE leaves open. The induction
theorems of the library take an operator and cannot be used, but a well-founded order
can: `Smallest` (of a nonempty set of subsets of a finite set, one has none of the
others below it) turns an induction over a finite set into the choice of a smallest
counterexample. From it follow that the fold exists and does not depend on the order,
and the laws used later: `SumType`, `SumAdd`, `SumSame`, `SumUnion`, `SumNegate`,
`SumImage` (renaming). Two last sections say which elements of a finite set of integers
are least and greatest, and count what a set gains or loses.

**ActivityLedgerProofs.** `TypesHold`: the type invariant is inductive by itself; the
work is in `CommandLegs` (whatever a kind of command constructs is a sequence of
legs on endpoints) and in `Fits`, whose last conjunct bounds the rows. `ChainsHold`:
`ChainsWellFormed` is inductive given the types. It is restated as
`Linked(ledger)`, and three lemmas say what appending a posted Activity, a reversal
or a replacement to a linked ledger needs; a correction is two appends. The guard
they rest on is `ChainHead`. `RepairsHold`: an action property, proved from the
types alone, since `PersistLedger` writes the replay with a time that no row exceeds
(`PersistShowsReplay`).

`EffectSplits` is the lemma the rest stands on: what the legs at some positions of
`L \o X` add is what those in `L` add plus what those in `X` add. Specialised to all
positions (`ReplaySplits`), to a day (`HistorySplits`) and to what stands before a leg
(`UptoOld`, `UptoNew`), it says what appending does to a replay. `ChangesAreMarked`: a day
whose reconstruction changes is not before the first appended Activity
(`ChangedSince`), and the marker takes the earliest of their days. No restriction on
dates is needed.

`RowsFollow` says, back-dated or not, how rows and replay part and meet again. Its
`FollowInvariant` is types, `Unopened` (an endpoint without a row has amount zero, so
creating one at zero changes nothing) and `RowsLast` (no leg of an endpoint is later than
the row read as its latest). The last part decides a post: not behind the row, its legs come
last in the replay and its row is the latest, so replay and row move together and the
states before it stay (`LatestFits`); behind the row, the replay moves and the row does
not. A reversal or correction replays what it touches. That a row is the replay is a
consequence where nothing is entered behind, and is what the next proof needs.

`LedgerImplementsBook`: `ProjectionIsReplay` is not inductive, and `EntryInvariant` adds
that nothing is dated after the clock (`Dated`). `BookInvariant` adds the chains and
`BookAdds`, that the whole replay of an endpoint is the sum of what the live entries add.
It is inductive because a post adds one live entry (`PostedEntries`; no chain can name a
position that is not there yet), and a reversal takes one out (`ReversedEntries`) and
adds legs whose sum is the negative of what it takes out (`InverseEffect`); a correction
is both. Every other step leaves the book as it is.

**HistorySnapshotsProofs.** `SnapshotTypes`: `TypeOK` is not inductive; `Typed` adds
that a planned day is closed (so persisting it leaves the marker at most at today)
and that no day's version exceeds the last day's (so the bound on commands bounds
every day). `SnapshotsTrue` holds for commands at any moment of a rebuild: `Truthful`
strengthens the property with what a loop in flight knows, that the days before the one
it is about to persist are right or overtaken. Without it, the step that
persists a day could not be proved, as the step jumps the marker to the day after
whatever the marker was; and a second loop may have moved the marker in between. A
command puts every day it changes either at or after the marker and the plans in flight,
or among the overtaken; persisting a day takes it out of them.

**DatabaseLifecycleProofs.** One inductive invariant, `Inv`, in named parts:
`Control` (which steps of an operation go with which process, terminal state and
pool; once an exclusive operation entered, nobody is inside), `Files` (what is beside
the database file; what a power failure can undo), `Tokens` (a token that was not
outdated names the bundle at the path), `Answers` (an answered restore leaves the
terminal state set), `Data` (from the publication of the recovery bundle on, the
bundle holds what the user saw; before it, the open database does) and `Current`
(up to the rename the current data is still in place). The six safety properties of
the run are its consequences: `RestoreLosesNothing`, `WalAlwaysBelongs`,
`GateAlwaysHolds`, `FailureKeepsCurrent`, `SuccessIsDurable`,
`OnlyInspectedRestored`, with `LifecycleTypes`. The part `Data` shows why the order
of the code matters: the recovery bundle is published while the database is still
writable and nobody is inside, so nothing can be committed after the copy.

**UserFilesProofs.** `CsvImport`: `IInv` is types, `ImportedOnce`, `Provenance` (every
saved item that is not a duplicate leads to the fact with its content) and `InFlight`
(what the transaction under way has applied so far is sound against what is committed).
The file appears only through the comparison with the token, which
`ImportsWhatWasPreviewed` uses. `BackupBundle`: what was read from a file is in the
selected one only if no other file has come to the path and nobody has rewritten it.
`BundleInv` states every such fact under that condition (`InspectionIn`, `RestoreIn`),
and the last comparison before the replacement discharges it.

**MarketDataProofs.** `IInv` is types, `Logged` (the log of preferences ends with the one
in force, in order) and `Covered` (a day before the marker was taken from the quotes of
now, or differs by a provider quote). The two selections are proved to be one from the
orders of the quote and preference histories. `RemindersAreTrue` is
over `MaintenanceSpec`: `Remembered` adds that every quote is on a line of its subject,
so the latest of the quotes the valuation keeps per line and source is the latest of all.
`ComparisonsAreFinal` is over `BenchmarksSpec`: levels, quotes and logged preferences are
only ever appended (`BenchmarksGrow`), so what is recorded up to the last day of the period
selects the same level, source and rate again (`EligibleStays`, `SourceStays`, `QuotesStay`).

**HouseholdProofs.** The journal is a parameter of the operators of this module, so that
one lemma speaks of it before and after a command. `IInv` is types, `Dated` (no entry is
later than the clock), `Founded` and `Unopened` (nothing is said of what does not exist)
and `RowsAreLatest` (the row of an account or holding is the last entry about it). What
a command appends it appends at the clock: what was said up to an earlier instant stays
(`PastStaysFixed`), and what is said last is what the command wrote into the row. Amounts are
sums of deltas, and `SumTheorems` splits them at the append. `Covered`, for
`DaysStayCovered`, adds that the marker is not after today or not after the day of the
creation (`founded`, a history field of the origin), that the creation is at most one day
after the date of the origin (`DayBehind`: no zone is more than a day behind UTC), and that
an origin not yet confirmed has the zone UTC and a marker not after its date. So a zone
confirmed behind UTC leaves at most the first day before the marker; the exception in
`DaysCovered` is that day, and section 4 has the counterexample without it.

**LedgerClientsProofs.** These modules extend the whole `ActivityLedger`, and its
theorems are used as they stand. `QueriesSpec`, `ExportSpec` and `PortfolioSpec` allow
every command of the ledger beside the component's own; the run `reads` takes the same
actions in parts.

- *Proposals.* `IInv` adds to the types that the Activities ever posted for items are the
  ones the posted items name (`PostsAre`, the core of `ProposalsPostedOnce`: a post needs
  an item that is open, and no item is opened again), that these are already
  there (`Behind`), one item per rule and date, and, where dates are not edited, that
  items are where they were due (`Undated`). `GenerationIsComplete` needs `NoGap`: before
  an occurrence that was proposed, every other one of its rule was. It is inductive because a
  call takes the candidates in order of their dates, across all rules, up to its bound
  (`BatchIsFirst`). The bounded search of the code from an estimate finds the index
  of every date an occurrence falls on (`IndexFound`), since occurrences
  grow with their index, short months included (`OccurrenceGrows`).
- *Walks.* `WalkInv`: what is listed is in order and exists, and what the walk began with
  and has not listed comes after the cursor. Keys are in a strict order, `Nth` is the
  element with as many predecessors (`Places`), and so a page is the next keys in a row
  (`PageIs`). Nothing takes an item away (`ItemsGrow`).
- *Headers and rows.* `Constructed`: the legs of every Activity have the shape that its
  kind of command gives them. From it the two tables of classes are compared
  role by role (`TablesAgree`), and an exported row is read back kind by kind
  (`RowsRoundTrip`, which no run repeats: it is about one row of any ledger).
- *Exports.* `FilesAt(version)` says what the temporary file of each phase holds
  (`Written`) and that what stands at a destination, or may come back there after a power
  failure, is a synced whole file of a version committed by then (`Settled`). Two exports
  to one destination have temporary files of their own, and a rename moves only a
  synced one.
- *Rates.* `PortfolioInv` is types; the theorem is about two readers of one state
  that ask for a rate by different ways.

## 6. Only model-checked, and not modelled

Only model-checked:

- everything temporal under fairness: `RebuildEnds`, `TrendRecovers`,
  `ReplacementAnswered`, `RefreshReturns`. Neither fairness nor ENABLED is within the
  reach of the provers used here;
- the lots (`LotsMatchHoldings`, `FirstInFirstOut`, `GainIsCashFlow`) and the
  decomposition: the replay folds an operator over a sorted sequence, one step per
  Activity, and what it computes is an induction over that sequence, which the provers
  here cannot be given;
- `FlowsAreNotReturn`, `BridgeExplained`, `ScopesAddUp`, `TotalsMatchBridge` of
  `Analytics`: equalities between sums over legs, days and snapshots with products of amounts, prices and rates; not attempted yet;
- `BreakdownsAgree` of `Portfolio`: shares are rounded down and the largest remainders
  take the rest, so it compares sums of quotients; the prover's arithmetic is linear.

Not modelled: search, groups, images, the other settings, the XIRR iteration and the
annual rate, the paging of lots, the wording and parsing of cells and archives, freshness
as a label, rendering and forms of the front end apart from the page that drives the
rebuild, the provider adapters. SQLite and tokio are external; what is assumed of them is
stated where it is used: serialised write transactions, the `-wal` and its checkpoints,
the first-in first-out queue of the lock. With `synchronous = NORMAL` a power failure may
lose the last commits; the model does not lose commits SQLite reported.

## 7. Plan

1. `LotsMatchHoldings`: the replay of the lots as a recursive function of the length of
   the ledger, so that an invariant of its steps can be stated as one of the ledger.
2. `ScopesAddUp` of `Analytics`, whose sums are over legs as those of the ledger are.
3. A specification of the gate of its own that `DatabaseLifecycle` refines.
