------------------------------ MODULE Household ------------------------------
(***************************************************************************)
(* The household and what it consists of: onboarding, the History Origin,    *)
(* members, institutions and groups, accounts and their owners, cash and     *)
(* holdings (application/onboarding_service.rs, history_origin.rs, *)
(* member_service.rs, institution_service.rs, group_service.rs,              *)
(* account_service.rs, cash_service.rs, holding_service.rs,                  *)
(* instrument_service.rs).                                                   *)
(*                                                                         *)
(* Every command is one write transaction, so one action.  The current state *)
(* is kept in rows that are overwritten.  The past is kept in a journal of   *)
(* observations and Activities, from which historical_valuation_service.rs   *)
(* reconstructs the household at any instant since the origin.               *)
(*                                                                         *)
(* Commands here act at the current instant.  Back-dated Activities are the  *)
(* subject of ActivityLedger, prices of MarketData.  An institution stands   *)
(* for an institution or a group: both are optional references of an account *)
(* under the same rules.                                                    *)
(***************************************************************************)
EXTENDS Integers, Sequences, FiniteSets, FiniteSetsExt

Sx == INSTANCE SequencesExt

CONSTANTS
  Members, Institutions, Instruments,
  Balances,      \* accounts with one value: balance or manual value
  Brokerages,    \* accounts that hold cash and instruments
  Holdings,
  Categories,    \* what a balance account is: its category, whether it counts
  Divisions,     \* the ownerships a user may enter: functions from Members to Nat
  Total,         \* the whole, 10000 basis points
  Amounts,       \* the values and quantities a user may enter
  None,
  DayLength,     \* instants in a day
  Offset,        \* time zone -> its offset from UTC, in instants
  HostZones,     \* time zones the host may tell, with None
  UserZones,     \* time zones the user may confirm
  Horizon,       \* bound on the clock
  MaxJournal,    \* bound on what is written after the origin
  MaxArchived    \* bound on what is archived at once

Accounts   == Balances \cup Brokerages
Components == Accounts \cup Holdings     \* the value or cash of an account, a quantity
Entities   == Members \cup Institutions \cup Instruments

ASSUME HouseholdConstants ==
  /\ "UTC" \in DOMAIN Offset /\ HostZones \subseteq DOMAIN Offset \cup {None}
  /\ UserZones \subseteq DOMAIN Offset /\ None \notin Institutions /\ None \notin Int
  /\ Amounts \subseteq Nat /\ 0 \in Amounts /\ IsFiniteSet(Amounts)
  /\ IsFiniteSet(Accounts) /\ IsFiniteSet(Holdings) /\ Accounts \cap Holdings = {}
  /\ DayLength \in Nat \ {0} /\ Horizon \in Nat /\ MaxJournal \in Nat /\ MaxArchived \in Nat
  /\ Divisions \subseteq [Members -> Nat]
  /\ \A zone \in DOMAIN Offset : Offset[zone] \in -DayLength .. DayLength
  /\ Offset["UTC"] = 0

VARIABLES
  clock,
  standing,   \* member, institution, instrument -> "absent", "active", "archived"
  account,    \* account -> its row, or Absent
  holding,    \* holding -> its row, or Absent
  value,      \* component -> the latest projection: account_values, cash, holdings.quantity
  origin,     \* history_origins, or NoOrigin
  journal,    \* observations and Activities, in the order they were written
  dirty,      \* dirty_from: the first local day whose snapshot is not current
  snapshots   \* the local days that have a snapshot

rows == <<standing, account, holding, value>>
past == <<origin, journal, dirty, snapshots>>
vars == <<clock, rows, past>>

Absent   == [archived |-> TRUE]
NoOrigin == [at |-> 0]
Exists(row) == row # Absent

Active(x) == standing[x] = "active"
Onboarded == \E m \in Members : standing[m] # "absent"

-----------------------------------------------------------------------------
(* Time                                                                      *)

\* Days count from one week before the clock starts, so that they are positive.
LocalDate(zone, t) == (t + Offset[zone] + 7 * DayLength) \div DayLength

Today == LocalDate(origin.zone, clock)

\* Mutant of Marked: an earlier day that is due is forgotten.
MarkedToday == Max({Today, origin.date})

\* mark_dirty_at
Marked ==
  LET day == Max({Today, origin.date}) IN IF dirty = None THEN day ELSE Min({dirty, day})

-----------------------------------------------------------------------------
(* The past                                                                  *)

Observed(a, row) == [kind |-> "account", of |-> a, at |-> clock, row |-> row]

ObservedHolding(h, row) == [kind |-> "holding", of |-> h, at |-> clock, row |-> row]

\* Mutant of Posted: the amount entered is posted, not the change to it.
PostedTarget(c, target) == [kind |-> "activity", of |-> c, at |-> clock, delta |-> target]

Posted(c, target) == [kind |-> "activity", of |-> c, at |-> clock, delta |-> target - value[c]]

\* Mutant of At: what is read of the past is not cut off.
AtAnyTime(t, kind, x) ==
  {k \in DOMAIN journal : journal[k].kind = kind /\ journal[k].of = x}

At(t, kind, x) ==
  {k \in DOMAIN journal : journal[k].kind = kind /\ journal[k].of = x /\ journal[k].at <= t}

\* list_latest_account_states_at, list_latest_holding_states_at: by instant, then id.
LatestState(t, kind, x) ==
  LET seen   == At(t, kind, x)
      newest == {k \in seen : \A j \in seen : journal[j].at <= journal[k].at}
  IN  IF seen = {} THEN Absent ELSE journal[Max(newest)].row

\* The amounts of the origin, as history_origin_account_values, _cash_values and
\* _holdings keep them.
BaselineOf(c) == origin.amounts[c]

\* reconstruct_amounts: the baseline and the Activities since.
AmountAt(t, c) ==
  BaselineOf(c) + MapThenSumSet(LAMBDA k : journal[k].delta, At(t, "activity", c))

\* What is valued: the accounts that are not archived, as they are described, with
\* their value, or their cash and the holdings that are not archived.
Valued(row, held, amount) ==
  {[account |-> a, row |-> row[a], amount |-> amount[a],
    held |-> {<<h, amount[h]>> : h \in {x \in Holdings : /\ Exists(holding[x])
                                                         /\ holding[x].account = a
                                                         /\ ~held[x].archived}}]
   : a \in {x \in Accounts : ~row[x].archived}}

\* ValuationSnapshot::load, household_totals
CurrentView == Valued(account, holding, value)

\* reconstruct_from_origin
HistoricalView(t) ==
  Valued([a \in Accounts |-> LatestState(t, "account", a)],
         [h \in Holdings |-> LatestState(t, "holding", h)],
         [c \in Components |-> AmountAt(t, c)])

\* Bounded by MaxJournal, not counting the observations of an older database.
Writes(entries) ==
  /\ Len(journal) + Len(entries) <=
       MaxJournal + Cardinality({c \in Components : origin.amounts[c] # 0})
  /\ journal' = journal \o entries

\* ensure_activity_writes_allowed
WritesAllowed == origin # NoOrigin /\ origin.confirmed

-----------------------------------------------------------------------------
(* The origin                                                                *)

Choice(zone) == IF zone = None THEN "UTC" ELSE zone

\* create_origin_in_tx; the zone is confirmed if the host has told it.  No column keeps
\* founded, the local day of the creation: it is what dirty_from starts with, and only
\* DaysCovered reads it.
NewOrigin(zone, amounts) ==
  LET today == LocalDate(Choice(zone), clock)
  IN  [at |-> clock, zone |-> Choice(zone), confirmed |-> zone # None,
       date |-> today, founded |-> today, amounts |-> amounts]

Onboard(members, zone) ==
  /\ ~Onboarded /\ members # {}
  /\ standing' = [x \in Entities |-> IF x \in members THEN "active" ELSE standing[x]]
  /\ origin' = NewOrigin(zone, [c \in Components |-> 0])
  /\ dirty' = origin'.date
  /\ UNCHANGED <<clock, account, holding, value, journal, snapshots>>

\* capture_current_state_in_tx: one observation of every account or holding.
Captured(kind, row) ==
  Sx!SetToSeq({[kind |-> kind, of |-> x, at |-> clock, row |-> row[x]] :
              x \in {y \in DOMAIN row : Exists(row[y])}})

\* What becomes the baseline: the rows as they are.
Baseline == value

\* A database of an earlier version is given an origin when it is opened.
InitializeOrigin(zone) ==
  /\ Onboarded /\ origin = NoOrigin
  /\ origin' = NewOrigin(zone, Baseline)
  /\ dirty' = origin'.date
  /\ journal' = Captured("account", account) \o Captured("holding", holding)
  /\ UNCHANGED <<clock, rows, snapshots>>

\* confirm_history_timezone_in_tx: before the first Activity and the first snapshot.
ConfirmTimezone(zone) ==
  /\ origin # NoOrigin /\ ~origin.confirmed
  /\ \A k \in DOMAIN journal : journal[k].kind # "activity"
  /\ snapshots = {}
  /\ origin' = [origin EXCEPT !.zone = zone, !.confirmed = TRUE,
                              !.date = LocalDate(zone, origin.at)]
  /\ UNCHANGED <<clock, rows, journal, dirty, snapshots>>

\* rebuild_history_snapshots: the days that are closed and dirty.
RebuildSnapshots ==
  LET first == Max({dirty, origin.date})
  IN  /\ WritesAllowed /\ dirty # None /\ first < Today
      /\ snapshots' = snapshots \cup first .. Today - 1
      /\ dirty' = Today
      /\ UNCHANGED <<clock, rows, origin, journal>>

-----------------------------------------------------------------------------
(* Members, institutions, instruments                                        *)

SetStanding(x, s) ==
  /\ standing' = [standing EXCEPT ![x] = s]
  /\ UNCHANGED <<clock, account, holding, value, past>>

Create(x) == origin # NoOrigin /\ standing[x] = "absent" /\ SetStanding(x, "active")

\* The update of archive_member_in_tx counts the active members itself.
Archivable(x) == x \in Members => \E m \in Members \ {x} : Active(m)

Archive(x) ==
  /\ origin # NoOrigin /\ Active(x) /\ Archivable(x)
  /\ Cardinality({y \in Entities : standing[y] = "archived"}) < MaxArchived
  /\ SetStanding(x, "archived")

Restore(x) == origin # NoOrigin /\ standing[x] = "archived" /\ SetStanding(x, "active")

-----------------------------------------------------------------------------
(* Accounts                                                                  *)

Owners(division) == {m \in Members : division[m] > 0}

\* Ownership::parse
Whole(division) == MapThenSumSet(LAMBDA m : division[m], Members) = Total

\* What an account already has it may keep; anything new must be active.
Assignable(x, retained) == x \in retained \/ Active(x)

References(row) ==
  IF Exists(row) THEN Owners(row.owners) \cup ({row.institution} \ {None}) ELSE {}

\* validate_references, parse_ownership, Account::new and Account::update; the
\* tracking mode of an account never changes, so its categories are limited.
Acceptable(a, row) ==
  /\ \A x \in References(row) : Assignable(x, References(account[a]))
  /\ Whole(row.owners)

Details(a) ==
  [category : IF a \in Balances THEN Categories ELSE {"investment"},
   institution : Institutions \cup {None}, owners : Divisions, archived : {FALSE}]

\* The opening amount is posted, if there is one, and the account observed.
CreateAccount(a, row, initial) ==
  /\ WritesAllowed /\ ~Exists(account[a]) /\ Acceptable(a, row)
  /\ a \in Brokerages => initial = 0
  /\ account' = [account EXCEPT ![a] = row]
  /\ value' = [value EXCEPT ![a] = initial]
  /\ Writes((IF initial = 0 THEN <<>> ELSE <<Posted(a, initial)>>) \o <<Observed(a, row)>>)
  /\ dirty' = Marked
  /\ UNCHANGED <<clock, standing, holding, origin, snapshots>>

ChangeAccount(a, row) ==
  /\ account' = [account EXCEPT ![a] = row]
  /\ Writes(<<Observed(a, row)>>)
  /\ dirty' = Marked
  /\ UNCHANGED <<clock, standing, holding, value, origin, snapshots>>

\* An archived account can be edited and stays archived.
UpdateAccount(a, row) ==
  LET updated == [row EXCEPT !.archived = account[a].archived]
  IN  /\ origin # NoOrigin /\ Exists(account[a]) /\ Acceptable(a, row)
      /\ updated # account[a]
      /\ ChangeAccount(a, updated)

ArchiveAccount(a) ==
  /\ origin # NoOrigin /\ Exists(account[a])
  /\ ChangeAccount(a, [account[a] EXCEPT !.archived = ~@])

\* update_account_value_in_tx, append_account_cash_in_tx: the target is posted as an
\* adjustment, a valuation, a deposit or a withdrawal.
SetAmount(a, target) ==
  /\ WritesAllowed /\ Exists(account[a]) /\ ~account[a].archived /\ target # value[a]
  /\ value' = [value EXCEPT ![a] = target]
  /\ Writes(<<Posted(a, target)>>)
  /\ dirty' = Marked
  /\ UNCHANGED <<clock, standing, account, holding, origin, snapshots>>

-----------------------------------------------------------------------------
(* Holdings                                                                  *)

\* The unique index over the holdings that are not archived.
Vacant(h, a, i) ==
  \A x \in Holdings \ {h} : ~(Exists(holding[x]) /\ holding[x].account = a
                              /\ holding[x].instrument = i /\ ~holding[x].archived)

CreateHolding(h, a, i, quantity) ==
  LET row == [account |-> a, instrument |-> i, archived |-> FALSE]
  IN  /\ WritesAllowed /\ ~Exists(holding[h]) /\ Vacant(h, a, i)
      /\ Exists(account[a]) /\ ~account[a].archived /\ Active(i)
      /\ holding' = [holding EXCEPT ![h] = row]
      /\ value' = [value EXCEPT ![h] = quantity]
      /\ Writes((IF quantity = 0 THEN <<>> ELSE <<Posted(h, quantity)>>)
                  \o <<ObservedHolding(h, row)>>)
      /\ dirty' = Marked
      /\ UNCHANGED <<clock, standing, account, origin, snapshots>>

\* An equal quantity is no change and posts nothing.
UpdateHolding(h, target) ==
  /\ WritesAllowed /\ Exists(holding[h]) /\ target # value[h]
  /\ ~holding[h].archived /\ ~account[holding[h].account].archived
  /\ value' = [value EXCEPT ![h] = target]
  /\ Writes(<<Posted(h, target)>>)
  /\ dirty' = Marked
  /\ UNCHANGED <<clock, standing, account, holding, origin, snapshots>>

\* Archives a holding, or restores it.
ArchiveHolding(h) ==
  LET row == [holding[h] EXCEPT !.archived = ~@]
  IN  /\ origin # NoOrigin /\ Exists(holding[h])
      /\ row.archived \/ Vacant(h, row.account, row.instrument)
      /\ holding' = [holding EXCEPT ![h] = row]
      /\ Writes(<<ObservedHolding(h, row)>>)
      /\ dirty' = Marked
      /\ UNCHANGED <<clock, standing, account, value, origin, snapshots>>

-----------------------------------------------------------------------------
Tick ==
  /\ clock < Horizon
  /\ clock' = clock + 1
  /\ UNCHANGED <<rows, past>>

Empty ==
  /\ standing = [x \in Entities |-> "absent"]
  /\ account = [a \in Accounts |-> Absent]
  /\ holding = [h \in Holdings |-> Absent]
  /\ value = [c \in Components |-> 0]

\* Either nothing, or what an earlier version, which had no origin, has left: with
\* rows archived or not.
Earlier ==
  /\ standing = [x \in Entities |-> "active"]
  /\ \E gone \in BOOLEAN, division \in {d \in Divisions : Whole(d)} :
       account = [a \in Accounts |->
         [category |-> IF a \in Balances THEN "cash" ELSE "investment",
          institution |-> None, owners |-> division, archived |-> gone /\ a \in Balances]]
  /\ \E gone \in SUBSET Holdings, place \in [Holdings -> Brokerages \X Instruments] :
       /\ \A g, h \in Holdings \ gone : place[g] = place[h] => g = h
       /\ holding = [h \in Holdings |->
            [account |-> place[h][1], instrument |-> place[h][2], archived |-> h \in gone]]
  /\ value \in [Components -> {Max(Amounts)}]

Init ==
  /\ clock = 0 /\ origin = NoOrigin /\ journal = <<>> /\ dirty = None /\ snapshots = {}
  /\ Empty \/ Earlier

Commands ==
  \/ \E x \in Entities : Create(x) \/ Archive(x) \/ Restore(x)
  \/ \E a \in Accounts : \/ \E row \in Details(a) : UpdateAccount(a, row)
                         \/ \E row \in Details(a), x \in Amounts : CreateAccount(a, row, x)
                         \/ \E x \in Amounts : SetAmount(a, x)
                         \/ ArchiveAccount(a)
  \/ \E h \in Holdings : \/ \E a \in Brokerages, i \in Instruments, x \in Amounts :
                              CreateHolding(h, a, i, x)
                         \/ \E x \in Amounts : UpdateHolding(h, x)
                         \/ ArchiveHolding(h)

Next ==
  \/ \E zone \in HostZones : \/ InitializeOrigin(zone)
                             \/ \E members \in SUBSET Members : Onboard(members, zone)
  \/ \E zone \in UserZones : ConfirmTimezone(zone)
  \/ RebuildSnapshots \/ Commands \/ Tick

Spec == Init /\ [][Next]_vars

-----------------------------------------------------------------------------
(* Properties                                                                *)

\* current_matches_historical_at: what the overwritten rows say now is what the
\* journal says of this instant: no command changes a row without an observation,
\* and the origin of an older database leaves nothing out.
CurrentMatchesHistory == origin # NoOrigin => CurrentView = HistoricalView(clock)

\* No command changes what the household was at an earlier instant.
PastIsFixed ==
  [][\A t \in 0 .. Horizon : origin # NoOrigin /\ origin.at <= t /\ t < clock =>
       HistoricalView(t)' = HistoricalView(t)]_<<origin, journal, holding>>

\* Confirming a zone moves the day of the origin and leaves dirty_from where it was.  In
\* a zone that is a day behind, the first day is then before the marker.
MissedByConfirmation(day) == day = origin.date /\ day < origin.founded

\* Every closed day since the origin has a snapshot or is due for one, but for the first
\* day where the zone was confirmed to be behind the day of the creation
\* (history_origin.rs confirm_history_timezone_in_tx, mark_dirty_at,
\* history_snapshot_service.rs).
DaysCovered ==
  origin # NoOrigin /\ origin.confirmed =>
    \A day \in origin.date .. Today - 1 :
      day \in snapshots \/ dirty <= day \/ MissedByConfirmation(day)

\* v0.1.3-technical-design.md:414 says that the state keeps the earliest dirty local
\* date.  Then no closed day would be missed, whatever zone was confirmed.
EveryDayCovered ==
  origin # NoOrigin /\ origin.confirmed =>
    \A day \in origin.date .. Today - 1 : day \in snapshots \/ dirty <= day

=============================================================================
