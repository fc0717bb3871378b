--------------------------- MODULE ActivityLedger ---------------------------
(***************************************************************************)
(* The append-only Activity ledger and the current-state projections it     *)
(* writes: application/activity_service.rs over domain/activity.rs and      *)
(* domain/activity_leg.rs.                                                  *)
(*                                                                         *)
(* Every command runs in one BEGIN IMMEDIATE transaction, so a command is   *)
(* one step.  An endpoint is one (account, component, currency) or one      *)
(* holding; an Activity is a header and one to three legs, and a leg adds   *)
(* a signed amount to one endpoint.  Three things describe an endpoint:     *)
(* the ledger replayed from the History Origin, the latest observation row  *)
(* and, for a holding, the column holdings.quantity.  The ledger is the     *)
(* truth; the other two are what current reads use.                         *)
(***************************************************************************)
EXTENDS Integers, Sequences, FiniteSets, FiniteSetsExt

CONSTANTS
  Accounts,          \* account ids
  Class,             \* account -> "balance" | "liability" | "manual" | "holdings"
  ValueEndpoints,    \* AccountValue endpoints
  CashEndpoints,     \* HoldingsCash endpoints
  Holdings,          \* HoldingQuantity endpoints
  AccountOf,         \* endpoint -> account
  CurrencyOf,        \* monetary endpoint -> currency
  InstrumentOf,      \* holding -> instrument
  SettlementOf,      \* holding -> cash endpoint in the instrument's quote currency
  OriginObserved,    \* endpoints that existed when the History Origin was captured
  Origin,            \* endpoint -> baseline captured by the History Origin
  MaxAmount,         \* cap of Money and Quantity (999999999999.9999 in the code)
  Amounts, Prices,   \* the amounts, quantities and unit prices a command may carry
  Horizon,           \* bound on the clock
  DayLength,         \* instants in a local day
  MaxActivities,     \* bound on the length of the ledger
  Archivable,        \* bound on what is archived: accounts and holdings
  Backdating         \* may a command carry an explicit earlier effective time?

Endpoints == ValueEndpoints \cup CashEndpoints \cup Holdings
Amount    == 0 .. MaxAmount
Times     == 0 .. Horizon
Day(t)    == t \div DayLength
Classes   == {"balance", "liability", "manual", "holdings"}

ASSUME LedgerConstants ==
  /\ MaxAmount \in Nat /\ Horizon \in Nat /\ MaxActivities \in Nat
  /\ DayLength \in Nat \ {0}
  /\ Amounts \subseteq (1 .. MaxAmount) /\ Prices \subseteq Nat
  /\ Backdating \in BOOLEAN
  /\ Class \in [Accounts -> Classes]
  /\ AccountOf \in [Endpoints -> Accounts]
  /\ SettlementOf \in [Holdings -> CashEndpoints]
  /\ OriginObserved \subseteq Endpoints
  /\ Archivable \subseteq Accounts \cup Holdings
  /\ Origin \in [Endpoints -> Amount]

ASSUME EndpointShape ==
  /\ \A e \in ValueEndpoints : Class[AccountOf[e]] # "holdings"
  /\ \A e \in CashEndpoints \cup Holdings : Class[AccountOf[e]] = "holdings"
  /\ \A h \in Holdings : AccountOf[SettlementOf[h]] = AccountOf[h]
  /\ \A e \in Endpoints \ OriginObserved : Origin[e] = 0

VARIABLES
  now,         \* the clock a command reads once
  ledger,      \* activities and activity_legs, in order of insertion
  observed,    \* the latest row of account_values / account_cash_values /
               \* holding_quantity_values: [amount, at]; at = -1 when there is none
  quantity,    \* the column holdings.quantity
  archived,    \* archived accounts and holdings
  dirtyFrom    \* history_snapshot_state.dirty_from

vars == <<now, ledger, observed, quantity, archived, dirtyFrom>>

Kinds == {"opening_adjustment", "balance_adjustment", "position_adjustment",
          "deposit", "withdrawal", "income", "fee", "debt_adjustment",
          "manual_valuation", "transfer", "buy", "sell", "debt_draw",
          "debt_payment", "reversal"}

-----------------------------------------------------------------------------
(* Activities and the replay of the ledger                                  *)

Leg(e, x) == [ep |-> e, delta |-> x]

\* `reverses` and `corrects` hold the position of another Activity, 0 for none.
Activity(kind, at, legs, reverses, corrects) ==
  [kind |-> kind, at |-> at, legs |-> legs, reverses |-> reverses, corrects |-> corrects]

Touched(acts) == UNION {{acts[i].legs[k].ep : k \in DOMAIN acts[i].legs} : i \in DOMAIN acts}

Positions(acts) == UNION {{<<i, k>> : k \in DOMAIN acts[i].legs} : i \in DOMAIN acts}

\* The order (effective_at, created_at, id) of activity_order_key, then leg order.
\* Insertion order stands for (created_at, id).
Upto(acts, q) ==
  {p \in Positions(acts) :
     \/ acts[p[1]].at < acts[q[1]].at
     \/ acts[p[1]].at = acts[q[1]].at
        /\ (p[1] < q[1] \/ (p[1] = q[1] /\ p[2] <= q[2]))}

\* What the legs at positions ps add to endpoint e.
Effect(acts, e, ps) ==
  MapThenSumSet(LAMBDA p : acts[p[1]].legs[p[2]].delta,
                {p \in ps : acts[p[1]].legs[p[2]].ep = e})

\* Replaying acts over `base`, every intermediate result of e is in range:
\* apply_to_money / apply_to_quantity fail below zero and above the cap.
Fits(acts, e, base) ==
  /\ \A q \in Positions(acts) : base + Effect(acts, e, Upto(acts, q)) \in Amount
  /\ base + Effect(acts, e, Positions(acts)) \in Amount

\* Endpoint e after every Activity, and at the cutoff t of a closed day.
Replayed(acts, e) == Origin[e] + Effect(acts, e, Positions(acts))
HistoryAt(acts, e, t) ==
  Origin[e] + Effect(acts, e, {p \in Positions(acts) : acts[p[1]].at <= t})

Current(e)  == observed[e].amount
Exists(e)   == e \in CashEndpoints \/ observed[e].at >= 0
Active(e)   == AccountOf[e] \notin archived /\ e \notin archived

\* Mutant of Observe: of two rows with one effective time the older one wins.
ObserveStrictlyNewer(old, amount, at) ==
  IF at > old.at THEN [amount |-> amount, at |-> at] ELSE old

\* The row read back as latest: (effective_at, created_at, id) descending.
Observe(old, amount, at) == IF at >= old.at THEN [amount |-> amount, at |-> at] ELSE old

-----------------------------------------------------------------------------
(* The legs each command constructs.  Money is moved only through balance    *)
(* accounts that are not liabilities and through holdings cash.              *)

FlowEndpoints == {e \in ValueEndpoints : Class[AccountOf[e]] = "balance"} \cup CashEndpoints
ValueOf(class) == {e \in ValueEndpoints : Class[AccountOf[e]] = class}

OptionalFee(e) == {<<>>} \cup {<<Leg(e, -f)>> : f \in Amounts}

\* match_transfer_amounts: equal amounts in one currency, any two across currencies.
MatchTransfer(d, e, x, y) == CurrencyOf[d] = CurrencyOf[e] => x = y

Inflow  == {<<Leg(e, x)>> : e \in FlowEndpoints, x \in Amounts}
Outflow == {<<Leg(e, -x)>> : e \in FlowEndpoints, x \in Amounts}

\* An absolute target becomes one leg carrying its distance from the latest row.
TargetLegs(S) ==
  {<<Leg(c[1], c[2] - Current(c[1]))>> :
     c \in {t \in S \X ({0} \cup Amounts) : t[2] # Current(t[1])}}

OpeningLegs ==
  {<<Leg(e, x)>> : e \in {d \in Endpoints : observed[d].at < 0}, x \in Amounts}

CashTransferLegs ==
  UNION {{<<Leg(c[1], -c[3]), Leg(c[2], c[4])>> \o fee : fee \in OptionalFee(c[1])} :
           c \in {t \in FlowEndpoints \X FlowEndpoints \X Amounts \X Amounts :
                    t[1] # t[2] /\ MatchTransfer(t[1], t[2], t[3], t[4])}}

PositionTransferLegs ==
  {<<Leg(c[1], -c[3]), Leg(c[2], c[3])>> :
     c \in {t \in Holdings \X Holdings \X Amounts :
              t[1] # t[2] /\ InstrumentOf[t[1]] = InstrumentOf[t[2]]}}

\* The gross amount is quantity * price; a zero gross writes no settlement leg.
Settlement(h, gross) == IF gross = 0 THEN <<>> ELSE <<Leg(SettlementOf[h], gross)>>
TradeLegs(sign) ==
  UNION {{<<Leg(c[1], sign * c[2])>> \o Settlement(c[1], -(sign * c[2] * c[3])) \o fee :
            fee \in OptionalFee(SettlementOf[c[1]])} :
           c \in Holdings \X Amounts \X Prices}

DebtDrawLegs ==
  {<<Leg(l, x)>> : l \in ValueOf("liability"), x \in Amounts} \cup
  {<<Leg(c[1], c[3]), Leg(c[2], c[4])>> :
     c \in {t \in ValueOf("liability") \X FlowEndpoints \X Amounts \X Amounts :
              MatchTransfer(t[1], t[2], t[3], t[4])}}

DebtPaymentLegs ==
  UNION {{<<Leg(c[1], -c[3]), Leg(c[2], -c[4])>> \o fee : fee \in OptionalFee(c[2])} :
           c \in {t \in ValueOf("liability") \X FlowEndpoints \X Amounts \X Amounts :
                    MatchTransfer(t[1], t[2], t[3], t[4])}}

\* construct_posted_activity: what a kind of command can construct against
\* the rows read in this transaction.
LegsOf(kind) ==
  CASE kind = "opening_adjustment"  -> OpeningLegs
    [] kind = "balance_adjustment"  -> TargetLegs(ValueOf("balance"))
    [] kind = "debt_adjustment"     -> TargetLegs(ValueOf("liability"))
    [] kind = "manual_valuation"    -> TargetLegs(ValueOf("manual"))
    [] kind = "position_adjustment" -> TargetLegs(Holdings)
    [] kind \in {"deposit", "income"} -> Inflow
    [] kind \in {"withdrawal", "fee"} -> Outflow
    [] kind = "transfer"            -> CashTransferLegs \cup PositionTransferLegs
    [] kind = "buy"                 -> TradeLegs(1)
    [] kind = "sell"                -> TradeLegs(-1)
    [] kind = "debt_draw"           -> DebtDrawLegs
    [] kind = "debt_payment"        -> DebtPaymentLegs

\* The endpoints a command may name: rows that are there, and active.
Usable(legs) == \A k \in DOMAIN legs : Active(legs[k].ep) /\ Exists(legs[k].ep)

\* resolve_record_params: without an explicit time a command is dated now;
\* with one, anywhere from the History Origin (instant 0) to now.
EntryTimes == IF Backdating THEN 0 .. now ELSE {now}

-----------------------------------------------------------------------------
(* Steps                                                                     *)

Init ==
  /\ now = 0
  /\ ledger = <<>>
  /\ observed = [e \in Endpoints |->
                   [amount |-> Origin[e], at |-> IF e \in OriginObserved THEN 0 ELSE -1]]
  /\ quantity = [h \in Holdings |-> Origin[h]]
  /\ archived = {}
  /\ dirtyFrom = 0

MarkDirtyFrom(day) == dirtyFrom' = Min({dirtyFrom, day})

\* post_in_tx and apply_and_persist: the legs are applied to the latest rows,
\* and the result is written as a row at the Activity's own effective time.
Post(kind, legs, at) ==
  LET activity == Activity(kind, at, legs, 0, 0)
      touched  == Touched(<<activity>>)
      After(e) == Current(e) + Effect(<<activity>>, e, Positions(<<activity>>))
  IN  /\ \A e \in touched : Fits(<<activity>>, e, Current(e))
      /\ ledger' = Append(ledger, activity)
      /\ observed' = [e \in Endpoints |->
                        IF e \in touched THEN Observe(observed[e], After(e), at) ELSE observed[e]]
      /\ quantity' = [h \in Holdings |-> IF h \in touched THEN After(h) ELSE quantity[h]]
      /\ MarkDirtyFrom(Day(at))
      /\ UNCHANGED <<now, archived>>

\* The bound on the ledger leaves room for n more Activities.
Room(n) == Len(ledger) + n <= MaxActivities

PostKind(kind) ==
  /\ Room(1)
  /\ \E legs \in LegsOf(kind), at \in EntryTimes : Usable(legs) /\ Post(kind, legs, at)

\* An account value or a holding is opened by the command that creates its
\* endpoint, which posts at now; holdings cash may be opened at an earlier time.
Opening ==
  /\ Room(1)
  /\ \E legs \in OpeningLegs, at \in EntryTimes :
       /\ Active(legs[1].ep)
       /\ legs[1].ep \in CashEndpoints \/ at = now
       /\ Post("opening_adjustment", legs, at)

BalanceAdjustment  == PostKind("balance_adjustment")
DebtAdjustment     == PostKind("debt_adjustment")
ManualValuation    == PostKind("manual_valuation")
PositionAdjustment == PostKind("position_adjustment")
Deposit            == PostKind("deposit")
Withdrawal         == PostKind("withdrawal")
Income             == PostKind("income")
Fee                == PostKind("fee")
Transfer           == PostKind("transfer")
Buy                == PostKind("buy")
Sell               == PostKind("sell")
DebtDraw           == PostKind("debt_draw")
DebtPayment        == PostKind("debt_payment")

\* Creating an account or a holding at zero writes a row and no Activity.
CreateAtZero(e) ==
  /\ e \notin CashEndpoints /\ observed[e].at < 0 /\ Active(e)
  /\ observed' = [observed EXCEPT ![e] = [amount |-> 0, at |-> now]]
  /\ MarkDirtyFrom(Day(now))
  /\ UNCHANGED <<now, ledger, quantity, archived>>

\* load_current_chain_activity: only a head of its correction chain may be
\* reversed or corrected.
Reversed(i)  == \E j \in DOMAIN ledger : ledger[j].reverses = i
Corrected(i) == \E j \in DOMAIN ledger : ledger[j].corrects = i

\* Mutant of ChainHead: an Activity already reversed or corrected is accepted.
ChainHeadTwice(i)   == ledger[i].kind # "reversal"

ChainHead(i) == ledger[i].kind # "reversal" /\ ~Reversed(i) /\ ~Corrected(i)

InverseLegs(legs) == [k \in DOMAIN legs |-> Leg(legs[k].ep, -legs[k].delta)]

\* Mutants: the row at the Activity's own time; the day of the last Activity.
RowTimeOwn(t, last, touched) == t = last
LastDay(day, extras) == day = Day(extras[Len(extras)].at)

\* The last Activity's rows are written no earlier than any existing row of
\* the endpoints the command touches.
RowTime(t, last, touched) ==
  /\ t \in {last} \cup {observed[e].at : e \in touched}
  /\ t >= last
  /\ \A e \in touched : t >= observed[e].at

EarliestDay(day, extras) ==
  /\ day \in {Day(extras[k].at) : k \in DOMAIN extras}
  /\ \A k \in DOMAIN extras : day <= Day(extras[k].at)

\* persist_ledger_activities: the touched endpoints are replayed from the
\* History Origin over the whole ledger and the new Activities.
PersistLedger(extras) ==
  LET acts    == ledger \o extras
      touched == Touched(extras)
      Row(e)  == IF Len(extras) = 1 THEN observed[e]
                 ELSE Observe(observed[e], Replayed(acts, e), extras[1].at)
  IN  /\ \A e \in touched : Fits(acts, e, Origin[e])
      /\ ledger' = acts
      /\ \E t \in Times :
           /\ RowTime(t, extras[Len(extras)].at, touched)
           /\ observed' = [e \in Endpoints |->
                             IF e \in touched THEN Observe(Row(e), Replayed(acts, e), t)
                             ELSE observed[e]]
      /\ quantity' = [h \in Holdings |-> IF h \in touched THEN Replayed(acts, h) ELSE quantity[h]]
      /\ \E day \in Times : EarliestDay(day, extras) /\ MarkDirtyFrom(day)
      /\ UNCHANGED <<now, archived>>

ReverseActivity(i, at) ==
  /\ ChainHead(i)
  /\ at >= ledger[i].at
  /\ PersistLedger(<<Activity("reversal", at, InverseLegs(ledger[i].legs), i, 0)>>)

\* The replacement is constructed from the rows as they are before the
\* reversal, which is dated at the original's own time.
CorrectActivity(i, kind, legs, at) ==
  /\ ChainHead(i)
  /\ Usable(legs)
  /\ PersistLedger(<<Activity("reversal", ledger[i].at, InverseLegs(ledger[i].legs), i, 0),
                     Activity(kind, at, legs, 0, i)>>)

Reverse == Room(1) /\ \E i \in DOMAIN ledger, at \in 0 .. now : ReverseActivity(i, at)
Correct ==
  /\ Room(2)
  /\ \E i \in DOMAIN ledger, kind \in Kinds \ {"reversal"} :
       \E legs \in LegsOf(kind), at \in 0 .. now : CorrectActivity(i, kind, legs, at)

\* Archiving and restoring an account or a holding.
Archive(x) ==
  /\ archived' = IF x \in archived THEN archived \ {x} ELSE archived \cup {x}
  /\ MarkDirtyFrom(Day(now))
  /\ UNCHANGED <<now, ledger, observed, quantity>>

\* A rebuild of every closed dirty day leaves the marker on the current day.
RebuildSnapshots ==
  /\ dirtyFrom < Day(now)
  /\ dirtyFrom' = Day(now)
  /\ UNCHANGED <<now, ledger, observed, quantity, archived>>

Tick ==
  /\ now < Horizon
  /\ now' = now + 1
  /\ UNCHANGED <<ledger, observed, quantity, archived, dirtyFrom>>

Posting ==
  \/ Opening \/ BalanceAdjustment \/ DebtAdjustment \/ ManualValuation
  \/ PositionAdjustment \/ Deposit \/ Withdrawal \/ Income \/ Fee \/ Transfer
  \/ Buy \/ Sell \/ DebtDraw \/ DebtPayment

Next ==
  \/ Posting
  \/ Reverse
  \/ Correct
  \/ \E e \in Endpoints : CreateAtZero(e)
  \/ \E x \in Archivable : Archive(x)
  \/ RebuildSnapshots
  \/ Tick

Spec == Init /\ [][Next]_vars

-----------------------------------------------------------------------------
(* Properties                                                                *)

TypeOK ==
  /\ now \in Times
  /\ ledger \in Seq([kind : Kinds, at : Times, legs : Seq([ep : Endpoints, delta : Int]),
                     reverses : Nat, corrects : Nat])
  /\ observed \in [Endpoints -> [amount : Amount, at : Times \cup {-1}]]
  /\ quantity \in [Holdings -> Amount]
  /\ archived \subseteq Archivable
  /\ dirtyFrom \in Times

\* A correction chain is a list.  A Reversal names one earlier Activity that is
\* not itself a Reversal, carries its exact inverse and is dated no earlier; no
\* Activity is reversed twice; an Activity that corrects another directly
\* follows that other's Reversal; no Activity is corrected twice.  The code
\* guarantees it with load_current_chain_activity and one transaction per command.
ChainsWellFormed ==
  \A i \in DOMAIN ledger :
    LET a == ledger[i] IN
    /\ a.kind = "reversal" <=> a.reverses # 0
    /\ a.reverses # 0 =>
         /\ a.reverses < i
         /\ ledger[a.reverses].kind # "reversal"
         /\ a.legs = InverseLegs(ledger[a.reverses].legs)
         /\ a.at >= ledger[a.reverses].at
         /\ \A j \in DOMAIN ledger : ledger[j].reverses = a.reverses => j = i
    /\ a.corrects # 0 =>
         /\ i > 1 /\ ledger[i - 1].reverses = a.corrects
         /\ ledger[i - 1].at = ledger[a.corrects].at
         /\ \A j \in DOMAIN ledger : ledger[j].corrects = a.corrects => j = i

\* The Activities that count: an Activity and its Reversal cancel out.
Live(i) == ledger[i].kind # "reversal" /\ ~Reversed(i)

\* Every day whose reconstruction a command changes is at or after the dirty
\* marker it leaves, a correction that moves an Activity to another day included:
\* the snapshots of days before the marker never lie.
DirtyCoversChange ==
  [][\A t \in Times :
       (\E e \in Endpoints : HistoryAt(ledger', e, t) # HistoryAt(ledger, e, t))
         => dirtyFrom' <= Day(t)]_vars

\* A reversal or a correction leaves every endpoint it touches equal to the
\* replay of the whole ledger, in the rows and in the column, whatever
\* earlier backdated commands did to them.
RepairStep ==
  \A i \in DOMAIN ledger' \ DOMAIN ledger :
    ledger'[i].reverses # 0 \/ ledger'[i].corrects # 0 =>
      \A e \in Touched(<<ledger'[i]>>) :
        /\ observed'[e].amount = Replayed(ledger', e)
        /\ e \in Holdings => quantity'[e] = Replayed(ledger', e)
RepairsProjections == [][RepairStep]_vars

\* The current row of every endpoint equals the replay of the ledger, so the
\* live point and the reconstruction at the current instant agree.
LiveIsHistorical == \A e \in Endpoints : Current(e) = Replayed(ledger, e)

\* Every state of e that the replay passes through is in range.
Replayable(e) ==
  \A q \in Positions(ledger) : ledger[q[1]].legs[q[2]].ep = e =>
    Origin[e] + Effect(ledger, e, Upto(ledger, q)) \in Amount

\* Live rows are the replay, and reconstruction, reversal and correction of any
\* endpoint remain possible.
ProjectionIsReplay == LiveIsHistorical /\ \A e \in Endpoints : Replayable(e)

\* What the replay has and the row has not; what the column has and the row has not.
Gap(e)       == Replayed(ledger, e) - Current(e)
ColumnGap(h) == quantity[h] - Current(h)

\* The Activities a step appends that touch e: reversals and replacements replay
\* it, a posted one may be dated before the row that is read as the latest.
Appended(e)      == {i \in DOMAIN ledger' \ DOMAIN ledger : e \in Touched(<<ledger'[i]>>)}
Repaired(e)      == \E i \in Appended(e) : ledger'[i].reverses # 0 \/ ledger'[i].corrects # 0
EnteredBehind(e) == ~Repaired(e) /\ \E i \in Appended(e) : ledger'[i].at < observed[e].at

\* How far the current value of an endpoint may stray from its history.  Only an
\* Activity entered behind the latest row puts the row off the replay, by its own
\* effect and no more; later commands carry the difference on unchanged, and a
\* reversal or a correction that touches the endpoint removes it.  The column follows
\* the row but for the last Activity entered behind it.  As long as an endpoint shows
\* its replay, every state of that replay stays in range.
FollowStep ==
  \A e \in Endpoints :
    LET missed == IF EnteredBehind(e) THEN Replayed(ledger', e) - Replayed(ledger, e) ELSE 0
    IN  /\ Gap(e)' = IF Repaired(e) THEN 0 ELSE Gap(e) + missed
        /\ e \in Holdings => ColumnGap(e)' = IF Appended(e) = {} THEN ColumnGap(e) ELSE missed
        /\ Repaired(e) \/ (Gap(e) = 0 /\ Replayable(e) /\ ~EnteredBehind(e)) => Replayable(e)'
RowsFollowReplay == [][FollowStep]_vars

\* An absolute target posted as a correction is the resulting state: the row
\* ends where the command's leg aimed when it was derived from the row.
CorrectionReachesTarget ==
  [][\A i \in DOMAIN ledger' \ DOMAIN ledger :
       /\ ledger'[i].corrects # 0
       /\ ledger'[i].kind \in {"balance_adjustment", "debt_adjustment",
                               "manual_valuation", "position_adjustment"}
       /\ ledger'[i].at = now
       => LET leg == ledger'[i].legs[1]
          IN observed'[leg.ep].amount = Current(leg.ep) + leg.delta]_vars

-----------------------------------------------------------------------------
(* The ledger implements the book its readers are promised.                  *)

LiveEntries == {[id |-> i, legs |-> ledger[i].legs] : i \in {j \in DOMAIN ledger : Live(j)}}

Book == INSTANCE AccountBook WITH
          entries <- LiveEntries,
          balance <- [e \in Endpoints |-> Current(e)]

\* As long as commands are dated when they are entered, what the rows show is
\* the book: posting enters, reversing takes back, correcting amends, and
\* every current amount is the baseline plus the entries in the book.
ImplementsBook == Book!Spec
=============================================================================
