----------------------------- MODULE Maintenance -----------------------------
(***************************************************************************)
(* Freshness policies, snoozes and the maintenance queue derived from them:  *)
(* application/maintenance_service.rs and freshness_policy_service.rs, over  *)
(* the quotes and preferences of MarketData.  Due Pending Activities, which  *)
(* the queue shows too, are the business of PendingActivities.               *)
(*                                                                         *)
(* Policies are kept for a kind (the default of the Household) and for one   *)
(* target.  Of an account only the day of its latest value is kept; an       *)
(* account of holdings has one cash component here.                          *)
(***************************************************************************)
EXTENDS MarketData

CONSTANTS
  ValueAccounts,   \* balance and manual-value accounts
  CashAccounts,    \* holdings accounts
  Intervals,       \* review intervals, in days
  Disabled,        \* the interval of a disabled policy
  Editable,        \* bound: the defaults and targets whose policy is edited
  SnoozeDates,     \* bound: the days a snooze may last until
  MaxSnoozes       \* bound on the snoozes

Accounts == ValueAccounts \cup CashAccounts
Targets  == Accounts \cup Subjects
Kinds    == {"account_value", "account_cash", "instrument_quote", "fx_quote"}

ASSUME MaintenanceConstants ==
  Intervals \subseteq Nat \ {0} /\ Intervals # {} /\ Editable \subseteq Kinds \cup Targets /\ MaxSnoozes \in Nat

VARIABLES
  policies,   \* default or target -> review interval, Disabled, None for no row
  snoozes,    \* maintenance_snoozes, in order of insertion
  valued,     \* account -> the latest day it has a value, or cash, observed on
  closed      \* archived accounts

reminders == <<policies, snoozes, valued, closed>>

KindOf(t) ==
  CASE t \in ValueAccounts -> "account_value"
    [] t \in CashAccounts  -> "account_cash"
    [] t \in Instruments   -> "instrument_quote"
    [] t \in Pairs         -> "fx_quote"

-----------------------------------------------------------------------------
(* The queue                                                                 *)

\* A row for the target goes before the default of its kind.
ResolvePolicy(t) == IF policies[t] # None THEN policies[t] ELSE policies[KindOf(t)]
Enabled(t) == ResolvePolicy(t) # Disabled

\* The snapshot holds the latest manual quote of each line; one dated in the
\* future does not count, and the one before it is not looked for.
ManualDates(s) ==
  LET latest == {OnLine(s, line, "manual", Horizon) : line \in Lines(s)} \ {NoQuote}
  IN  {d \in {quotes[k].at : k \in latest} : d <= today}

ObservedDays(t) == IF t \in Accounts THEN {valued[t]} \ {None} ELSE ManualDates(t)

\* What the queue has an entry for.
Listed(t) ==
  /\ Enabled(t)
  /\ CASE t \in ValueAccounts -> t \notin closed
       [] t \in CashAccounts  -> t \notin closed /\ valued[t] # None
       [] t \in Instruments   -> t \notin archived /\ preference[t] = "manual"
       [] t \in Pairs         -> t \in Required /\ PreferenceOf(t) = "manual"

\* Mutant of FreshnessStatus: an item is still current on the day it is due.
LateStatus(days, interval) ==
  IF days = {} THEN "missing"
  ELSE LET due == Max(days) + interval
       IN  IF today <= due THEN "current" ELSE "overdue"

FreshnessStatus(days, interval) ==
  IF days = {} THEN "missing"
  ELSE LET due == Max(days) + interval
       IN  CASE today < due -> "current" [] today = due -> "due" [] OTHER -> "overdue"

Underlying(t) == FreshnessStatus(ObservedDays(t), ResolvePolicy(t))

\* The latest snooze of the target, while it lasts.
Snoozed(t) ==
  LET mine == {k \in DOMAIN snoozes : snoozes[k].target = t}
  IN  mine # {} /\ snoozes[Max(mine)].until > today

Status(t) == IF Snoozed(t) THEN "snoozed" ELSE Underlying(t)

-----------------------------------------------------------------------------
(* Commands                                                                  *)

Archived(t) == t \in closed \cup archived

\* A new row for an archived target is refused; an existing one can be edited.
UpdatePolicy(t, interval) ==
  /\ t \in Kinds \/ policies[t] # None \/ ~Archived(t)
  /\ policies' = [policies EXCEPT ![t] = interval]
  /\ UNCHANGED <<vars, snoozes, valued, closed>>

SnoozeItem(t, until) ==
  /\ Len(snoozes) < MaxSnoozes
  /\ ~Archived(t) /\ Enabled(t)
  /\ snoozes' = Append(snoozes, [target |-> t, until |-> until])
  /\ UNCHANGED <<vars, policies, valued, closed>>

\* An Activity that observes the account; never dated in the future.
ObserveAccount(a, day) ==
  /\ a \notin closed
  /\ valued' = [valued EXCEPT ![a] = Max({day} \cup ({@} \ {None}))]
  /\ UNCHANGED <<vars, policies, snoozes, closed>>

ArchiveAccount(a) ==
  /\ closed' = IF a \in closed THEN closed \ {a} ELSE closed \cup {a}
  /\ UNCHANGED <<vars, policies, snoozes, valued>>

\* The four defaults exist before the application is ready.
MaintenanceInit ==
  /\ Init
  /\ policies = [t \in Kinds \cup Targets |-> IF t \in Kinds THEN Min(Intervals) ELSE None]
  /\ snoozes = <<>>
  /\ valued \in [Accounts -> {None, 0}]
  /\ \A a \in ValueAccounts : valued[a] # None
  /\ closed = {}

\* A refresh saves provider quotes only, which no reminder looks at.
MaintenanceNext ==
  \/ (UserStep \/ Midnight) /\ UNCHANGED reminders
  \/ \E t \in Editable, interval \in Intervals \cup {Disabled} : UpdatePolicy(t, interval)
  \/ \E t \in Targets, until \in SnoozeDates : SnoozeItem(t, until)
  \/ \E a \in Accounts : ArchiveAccount(a) \/ \E day \in 0 .. today : ObserveAccount(a, day)

MaintenanceSpec == MaintenanceInit /\ [][MaintenanceNext]_<<vars, reminders>>

-----------------------------------------------------------------------------
(* Properties                                                                *)

\* All manual quotes of a subject and all values of an account, on any line.
Evidence(t) ==
  IF t \in Accounts THEN {valued[t]} \ {None}
  ELSE {quotes[k].at : k \in {j \in DOMAIN quotes : quotes[j].subject = t
                                                  /\ quotes[j].source = "manual"}}

\* An entry says "missing" exactly when nothing was ever observed, and otherwise
\* what the time since the latest observation makes of it; only an observation
\* dated in the future can hide those before it.  It is computed from the
\* valuation's latest quotes, which know nothing of reminders.
RemindersTrue ==
  \A t \in {u \in Targets : Listed(u)} :
    LET days == Evidence(t)
        N    == ResolvePolicy(t)
    IN  (\A d \in days : d <= today) =>
          /\ Underlying(t) = "missing" <=> days = {}
          /\ Underlying(t) = "current" <=> \E d \in days : today - d < N
          /\ Underlying(t) = "overdue" <=> days # {} /\ \A d \in days : today - d > N

=============================================================================
