------------------------------ MODULE Analytics ------------------------------
(***************************************************************************)
(* What the returns, the net-worth bridge and the income and fee totals     *)
(* make of a household's Activities and closed-day snapshots:               *)
(* domain/analytics_scope.rs, application/return_service.rs,                *)
(* attribution_service.rs, income_fee_service.rs and fx_conversion.rs.      *)
(*                                                                         *)
(* The three readers write nothing.  They are operators of the rows a state *)
(* holds, and the actions are the postings, quotes and closes that make the *)
(* rows.  There is one foreign currency, and the instruments are quoted in  *)
(* it; amounts and rates are integers, so no rounding takes part.  Which    *)
(* accounts count does not change while the model runs.                     *)
(***************************************************************************)
EXTENDS Integers, Sequences, FiniteSets

LOCAL INSTANCE FiniteSetsExt

CONSTANTS
  Components,      \* [account, kind, unit]: the unit is a currency or an instrument
  Counted,         \* accounts included in net worth
  Invested,        \* accounts included in investment
  Liabilities,     \* accounts of the primary category liability
  Base,            \* the base currency of the household
  Opening,         \* component -> amount or quantity on day 0; Absent: no row
  Absent,
  Kinds,           \* the kinds of Activities that are posted
  Amounts, Rates, Prices,
  FirstRates,      \* the rates of day 0; NoRate: no quote yet
  FirstPrices,     \* the prices of day 0
  NoRate,
  MaxActivities,   \* bound on the Activities
  MaxMoves,        \* bound on the new rates
  Horizon          \* the last day that closes

Accounts    == {c.account : c \in Components}
IsPosition(c) == c.kind = "holding_quantity"
Instruments == {c.unit : c \in {p \in Components : IsPosition(p)}}
Money       == {c \in Components : ~IsPosition(c)}
Cash        == {c \in Money : c.account \notin Liabilities}
Debts       == {c \in Money : c.account \in Liabilities}
Positions   == {c \in Components : IsPosition(c)}

ASSUME AnalyticsConstants ==
  /\ Counted \subseteq Accounts /\ Invested \subseteq Counted /\ Liabilities \subseteq Accounts
  /\ Absent \notin Nat /\ Opening \in [Components -> Nat \cup {Absent}]
  /\ {Amounts, Rates, Prices} \subseteq SUBSET (Nat \ {0})
  /\ NoRate \notin Rates /\ FirstRates \subseteq Rates \cup {NoRate}
  /\ FirstPrices \subseteq Prices
  /\ MaxActivities \in Nat /\ MaxMoves \in Nat /\ Horizon \in Nat

VARIABLES
  day,          \* the open local day
  native,       \* component -> its amount or quantity now
  rate,         \* the selected quote of the foreign currency
  moves,        \* how many quotes came since day 0
  activities,   \* the Activities, in order of effective time
  snapshots     \* closed day -> its snapshot: [native, rate, price]

vars == <<day, native, rate, moves, activities, snapshots>>

Abs(n)  == IF n < 0 THEN -n ELSE n
Sign(n) == IF n < 0 THEN -1 ELSE 1
Sum(op(_), S) == MapThenSumSet(op, S)
Product(op(_), S) ==
  MapThenFoldSet(LAMBDA x, y : x * y, 1, op, LAMBDA T : CHOOSE x \in T : TRUE, S)

Foreign(c) == IsPosition(c) \/ c.unit # Base
\* The rate of a component's currency, when the foreign one is at r.
RateOf(c, r) == IF Foreign(c) THEN r ELSE 1

-----------------------------------------------------------------------------
(* Postings                                                                  *)

Balance(c) == IF native[c] = Absent THEN 0 ELSE native[c]
Leg(role, c, delta) == [role |-> role, component |-> c, delta |-> delta]
LegsAt(legs, c) == {i \in DOMAIN legs : legs[i].component = c}
Change(legs, c) == Sum(LAMBDA i : legs[i].delta, LegsAt(legs, c))

Covered(legs, c) == Balance(c) + Change(legs, c) >= 0

\* An Activity of the open day.  No component goes below zero; one that had
\* no row has one from now on.
Record(kind, legs, related, feeKind, reverses) ==
  /\ Len(activities) < MaxActivities /\ day <= Horizon
  /\ \A c \in Components : Covered(legs, c)
  /\ native' = [c \in Components |->
                  IF LegsAt(legs, c) = {} THEN native[c] ELSE Balance(c) + Change(legs, c)]
  /\ activities' = Append(activities,
       [kind |-> kind, day |-> day, legs |-> legs, related |-> related,
        feeKind |-> feeKind, reverses |-> reverses, rate |-> rate])
  /\ UNCHANGED <<day, rate, moves, snapshots>>

Post(kind, legs, related, feeKind) == kind \in Kinds /\ Record(kind, legs, related, feeKind, 0)

Deposit == \E c \in Cash, n \in Amounts :
  Post("deposit", <<Leg("destination", c, n)>>, Absent, FALSE)
Withdraw == \E c \in Cash, n \in Amounts :
  Post("withdrawal", <<Leg("source", c, -n)>>, Absent, FALSE)

\* Without a fee, or with one of n paid from c.
FeeChoices(c) == {<<>>} \cup {<<Leg("fee", c, -n)>> : n \in Amounts}

\* Two different endpoints; the amounts of one currency are equal.  The fee
\* is paid from the source and always has a kind.
CashTransfer == \E from \in Cash, to \in Cash, n \in Amounts, m \in Amounts :
  /\ from # to
  /\ from.unit = to.unit => m = n
  /\ \E fee \in FeeChoices(from) :
       Post("transfer", <<Leg("source", from, -n), Leg("destination", to, m)>> \o fee,
            Absent, fee # <<>>)

PositionTransfer == \E from \in Positions, to \in Positions, n \in Amounts :
  /\ from # to /\ from.unit = to.unit
  /\ Post("transfer", <<Leg("source", from, -n), Leg("destination", to, n)>>, Absent, FALSE)

\* The cash of a position's account in the quote currency settles its trades,
\* at the price of the trade; a fee of a trade has no kind.
SettledBy(c, p) == c.account = p.account /\ c.unit # Base
Trade(kind, direction) == \E p \in Positions, c \in Cash, n \in Amounts, unit \in Prices :
  /\ SettledBy(c, p)
  /\ \E fee \in FeeChoices(c) :
       Post(kind, <<Leg("holding", p, direction * n), Leg("settlement", c, -direction * n * unit)>>
                  \o fee, p.unit, FALSE)
Buy  == Trade("buy", 1)
Sell == Trade("sell", -1)

EarnIncome == \E c \in Cash, n \in Amounts, i \in Instruments \cup {Absent} :
  Post("income", <<Leg("income", c, n)>>, i, FALSE)
ChargeFee == \E c \in Cash, n \in Amounts, i \in Instruments \cup {Absent} :
  Post("fee", <<Leg("fee", c, -n)>>, i, TRUE)

\* The principal may arrive as cash, or not.
DebtDraw == \E d \in Debts, n \in Amounts :
  \E paid \in {<<>>} \cup {<<Leg("destination", c, n)>> : c \in {e \in Cash : e.unit = d.unit}} :
    Post("debt_draw", <<Leg("liability", d, n)>> \o paid, Absent, FALSE)

\* A fee of a debt payment may have a kind, or not.
DebtPayment == \E d \in Debts, c \in Cash, n \in Amounts :
  /\ c.unit = d.unit
  /\ \E fee \in FeeChoices(c) : \E named \in {FALSE, fee # <<>>} :
       Post("debt_payment", <<Leg("liability", d, -n), Leg("source", c, -n)>> \o fee,
            Absent, named)

\* Balance, debt and position adjustments and manual valuations differ in the
\* endpoint they accept, which the analytics do not look at.
Adjust == \E c \in Components, n \in Amounts, direction \in {1, -1} :
  Post("adjustment", <<Leg("adjustment", c, direction * n)>>, Absent, FALSE)

Reversed(i) == \E j \in DOMAIN activities : activities[j].reverses = i

\* A Reversal carries neither the instrument nor the kinds of the original.
Reverse == \E i \in DOMAIN activities :
  /\ "reversal" \in Kinds /\ activities[i].reverses = 0 /\ ~Reversed(i)
  /\ Record("reversal",
            [k \in DOMAIN activities[i].legs |->
               [activities[i].legs[k] EXCEPT !.delta = -activities[i].legs[k].delta]],
            Absent, FALSE, i)

MoveRate == \E r \in Rates \ {rate} :
  /\ moves < MaxMoves /\ day <= Horizon
  /\ rate' = r /\ moves' = moves + 1
  /\ UNCHANGED <<day, native, activities, snapshots>>
\* Only a close reads the prices of instruments: one is chosen for each.
Taken(p) == [native |-> native, rate |-> rate, price |-> p]
CloseDay == \E p \in Prices :
  /\ day <= Horizon
  /\ snapshots' = Append(snapshots, Taken(p)) /\ day' = day + 1
  /\ UNCHANGED <<native, rate, moves, activities>>

Init ==
  /\ day = 1 /\ native = Opening /\ moves = 0 /\ activities = <<>>
  /\ rate \in FirstRates
  /\ \E p \in FirstPrices : snapshots = <<Taken(p)>>

Next ==
  \/ Deposit \/ Withdraw \/ CashTransfer \/ PositionTransfer \/ Buy \/ Sell
  \/ EarnIncome \/ ChargeFee \/ DebtDraw \/ DebtPayment \/ Adjust \/ Reverse
  \/ MoveRate \/ CloseDay

Spec == Init /\ [][Next]_vars

-----------------------------------------------------------------------------
(* Scopes and flows: domain/analytics_scope.rs                               *)

Whole     == [kind |-> "household", account |-> Absent, instrument |-> Absent]
Portfolio == [Whole EXCEPT !.kind = "portfolio"]
OfAccount(a)    == [Whole EXCEPT !.kind = "account", !.account = a]
OfInstrument(i) == [Whole EXCEPT !.kind = "instrument", !.instrument = i]
OfHolding(a, i) == [kind |-> "holding", account |-> a, instrument |-> i]
Scopes == {Whole, Portfolio} \cup {OfAccount(a) : a \in Accounts}
          \cup {OfInstrument(i) : i \in Instruments}
          \cup {OfHolding(p.account, p.unit) : p \in Positions}

\* Mutant of EndpointInScope: the household takes accounts that net worth leaves out.
EndpointOfHousehold(scope, c) ==
  \/ scope.kind = "household"
  \/ scope.kind = "portfolio" /\ c.account \in Invested \ Liabilities
  \/ scope.kind = "account" /\ c.account = scope.account
EndpointInScope(scope, c) ==
  \/ scope.kind = "household" /\ c.account \in Counted
  \/ scope.kind = "portfolio" /\ c.account \in Invested \ Liabilities
  \/ scope.kind = "account" /\ c.account = scope.account
  \/ scope.kind = "instrument" /\ IsPosition(c) /\ c.unit = scope.instrument
  \/ scope.kind = "holding" /\ IsPosition(c)
     /\ c.unit = scope.instrument /\ c.account = scope.account

\* The class of a leg, from the kind of the Activity and the leg's role.
Classify(kind, role) ==
  CASE kind = "deposit"                                        -> "external_inflow"
    [] kind = "withdrawal"                                     -> "external_outflow"
    [] kind = "income" \/ (kind = "reversal" /\ role = "income") -> "income"
    [] kind = "fee" \/ role = "fee"                             -> "fee"
    [] kind = "adjustment" \/ role = "adjustment"               -> "remeasurement"
    [] role = "liability"                                      -> "debt_principal"
    [] role \in {"holding", "settlement"}                       -> "trade_principal"
    [] OTHER                                                   -> "internal_transfer"

ClassOf(a, k) == Classify(a.kind, a.legs[k].role)
LegIn(scope, a, k) == EndpointInScope(scope, a.legs[k].component)
OtherIn(scope, a, k) == \E j \in DOMAIN a.legs \ {k} : LegIn(scope, a, j)

\* Income and fees with a related instrument belong to that instrument's scope.
Attributed(scope, a, k) ==
  scope.kind = "instrument" /\ a.related = scope.instrument /\ ClassOf(a, k) \in {"income", "fee"}

\* A remeasured amount is a return; a remeasured quantity has no known basis.
Remeasured(c) == IF IsPosition(c) THEN "unknown_basis_flow" ELSE "unexplained_return"

\* Mutant of ScopeFlow: a leg inside is a flow even when its other side is inside too.
FlowEvenInside(scope, a, k) ==
  IF Attributed(scope, a, k) THEN "return"
  ELSE IF ~LegIn(scope, a, k) THEN "not_in_scope"
  ELSE IF ClassOf(a, k) \in {"income", "fee"} THEN "return"
  ELSE IF ClassOf(a, k) = "remeasurement" THEN Remeasured(a.legs[k].component)
  ELSE "signed_flow"

\* classify_scope_flow
ScopeFlow(scope, a, k) ==
  IF Attributed(scope, a, k) THEN "return"
  ELSE IF ~LegIn(scope, a, k) THEN "not_in_scope"
  ELSE IF ClassOf(a, k) \in {"income", "fee"} THEN "return"
  ELSE IF ClassOf(a, k) = "remeasurement" THEN Remeasured(a.legs[k].component)
  ELSE IF OtherIn(scope, a, k) THEN "zero_flow" ELSE "signed_flow"

-----------------------------------------------------------------------------
(* Periods: from the close of one day to the close of a later one            *)

LastClosed == day - 1
Snapshot(d) == snapshots[d + 1]

ActivitiesIn(from, to) ==
  {i \in DOMAIN activities : from < activities[i].day /\ activities[i].day <= to}

\* A Reversal of the period and what it reverses, wherever that lies.
Excluded(S) == {i \in S : activities[i].reverses # 0}
               \cup {activities[i].reverses : i \in {j \in S : activities[j].reverses # 0}}
Live(from, to) == ActivitiesIn(from, to) \ Excluded(ActivitiesIn(from, to))
LegsOf(S) == {x \in S \X (1 .. 3) : x[2] \in DOMAIN activities[x[1]].legs}

\* monetary_base: a leg of a quantity stands for the first amount of its Activity.
MoneyLegs(a) == {k \in DOMAIN a.legs : ~IsPosition(a.legs[k].component)}
Stands(a, k) == IF k \in MoneyLegs(a) \/ MoneyLegs(a) = {} THEN k
                ELSE CHOOSE j \in MoneyLegs(a) : \A m \in MoneyLegs(a) : j <= m
Convertible(a, k) ==
  /\ MoneyLegs(a) # {}
  /\ RateOf(a.legs[Stands(a, k)].component, a.rate) # NoRate
BaseAmount(a, k) ==
  Sign(a.legs[k].delta) * Abs(a.legs[Stands(a, k)].delta)
  * RateOf(a.legs[Stands(a, k)].component, a.rate)

\* Snapshots have items for the counted accounts only.
Items(s) == {c \in Components : c.account \in Counted /\ s.native[c] # Absent}
Complete(s) == \A c \in Items(s) : RateOf(c, s.rate) # NoRate
NativeValue(s, c) == IF IsPosition(c) THEN s.native[c] * s.price ELSE s.native[c]
ItemBase(s, c) == NativeValue(s, c) * RateOf(c, s.rate)
NetSign(c) == IF c.account \in Liabilities THEN -1 ELSE 1
NetWorth(s) == Sum(LAMBDA c : NetSign(c) * ItemBase(s, c), Items(s))

\* scope_value: net worth for the household, else the sum of the items.
ScopeItems(scope, s) == {c \in Items(s) : EndpointInScope(scope, c)}
ScopeValue(scope, s) ==
  IF scope = Whole THEN NetWorth(s)
  ELSE Sum(LAMBDA c : ItemBase(s, c), ScopeItems(scope, s))

-----------------------------------------------------------------------------
(* Returns: application/return_service.rs                                    *)

InClass(scope, x, classes) == ScopeFlow(scope, activities[x[1]], x[2]) \in classes
FlowLegs(scope, S) ==
  {x \in LegsOf(S) : InClass(scope, x, {"signed_flow", "unknown_basis_flow"})}
\* Return that the value of the scope does not hold.
OutsideReturns(scope, S) ==
  {x \in LegsOf(S) :
     InClass(scope, x, {"return"}) /\ ~LegIn(scope, activities[x[1]], x[2])}

LegBase(x) == BaseAmount(activities[x[1]], x[2])
OnDay(X, d) == {x \in X : activities[x[1]].day = d}
TotalOn(X, d) == Sum(LegBase, OnDay(X, d))

ReturnAvailable(scope, S, from, to) ==
  /\ \A d \in from .. to : Complete(Snapshot(d))
  /\ \A x \in FlowLegs(scope, S) \cup OutsideReturns(scope, S) :
       Convertible(activities[x[1]], x[2])

\* daily_linked_return and chain_linked_days: the growth over the linked days as a
\* ratio.  A flow arrives at the start of its day; a day without a positive start is
\* skipped.
Growth(scope, S, from, to) ==
  LET flows    == FlowLegs(scope, S)
      outside  == OutsideReturns(scope, S)
      start[d \in from + 1 .. to] == ScopeValue(scope, Snapshot(d - 1)) + TotalOn(flows, d)
      linked   == {d \in from + 1 .. to : start[d] > 0}
  IN [num |-> Product(LAMBDA d : ScopeValue(scope, Snapshot(d)) + TotalOn(outside, d), linked),
      den |-> Product(LAMBDA d : start[d], linked)]

-----------------------------------------------------------------------------
(* The net-worth bridge: application/attribution_service.rs                   *)

\* What a bridge reads of a snapshot item.  The rate of a zero amount is one.
ItemRate(s, c)  == IF NativeValue(s, c) = 0 THEN 1 ELSE RateOf(c, s.rate)
RatesOf(s, t, c) ==
  LET this  == IF c \in Items(t) THEN ItemRate(t, c) ELSE ItemRate(s, c)
  IN [before |-> IF c \in Items(s) THEN ItemRate(s, c) ELSE this, after |-> this]
PricesOf(s, t, c) ==
  LET this == IF c \in Items(t) THEN t.price ELSE s.price
  IN [before |-> IF c \in Items(s) THEN s.price ELSE this, after |-> this]
Held(s, c) == IF c \in Items(s) THEN s.native[c] ELSE 0

MonetaryDay(before, after, fx, flow) ==
  LET currency == after * (fx.after - fx.before)
  IN [currency |-> currency, quantity |-> 0,
      market |-> after * fx.after - before * fx.before - flow * fx.before - currency]
\* Mutant of HoldingDay: the price moved the quantity of the day before.
HoldingDayBefore(before, after, p, fx) ==
  [quantity |-> (after - before) * p.before * fx.before,
   market   |-> before * (p.after - p.before) * fx.before,
   currency |-> after * p.after * (fx.after - fx.before)]
HoldingDay(before, after, p, fx) ==
  [quantity |-> (after - before) * p.before * fx.before,
   market   |-> after * (p.after - p.before) * fx.before,
   currency |-> after * p.after * (fx.after - fx.before)]

\* The legs the bridge looks at: those of the scope, and the returns outside it.
BridgeLegs(scope, S) ==
  {x \in LegsOf(S) : ScopeFlow(scope, activities[x[1]], x[2]) # "not_in_scope"}
NativeFlow(X, d, c) ==
  Sum(LAMBDA x : activities[x[1]].legs[x[2]].delta,
      {x \in OnDay(X, d) : activities[x[1]].legs[x[2]].component = c})

DecomposeComponent(X, d, c) ==
  LET s == Snapshot(d - 1)
      t == Snapshot(d)
  IN IF IsPosition(c)
     THEN HoldingDay(Held(s, c), Held(t, c), PricesOf(s, t, c), RatesOf(s, t, c))
     ELSE MonetaryDay(Held(s, c), Held(t, c), RatesOf(s, t, c), NativeFlow(X, d, c))

\* What the conversion of a cross-currency transfer gained at the rate of its time.
CrossCurrency(a) ==
  /\ a.kind = "transfer" /\ {1, 2} \subseteq MoneyLegs(a)
  /\ a.legs[1].component.unit # a.legs[2].component.unit
Spread(a) == BaseAmount(a, 2) + BaseAmount(a, 1)
Touched(scope, a) == \E k \in DOMAIN a.legs : ScopeFlow(scope, a, k) # "not_in_scope"
Converted(scope, S) ==
  {i \in S : CrossCurrency(activities[i])
             /\ (Touched(scope, activities[i]) \/ scope = Whole)}

\* A remeasured quantity without an amount stays in the bridge; any other leg
\* that cannot be converted makes it unavailable.
BridgeAvailable(scope, from, to) ==
  /\ Complete(Snapshot(from)) /\ Complete(Snapshot(to))
  /\ \A x \in BridgeLegs(scope, Live(from, to)) :
       InClass(scope, x, {"unknown_basis_flow"}) \/ Convertible(activities[x[1]], x[2])
  /\ \A i \in Converted(scope, Live(from, to)) : activities[i].rate # NoRate

\* accumulate_ledger_components: of the legs X the bridge looks at, those of the
\* scope, and the returns outside it, by class.  A fee is a cost; the principal of a
\* debt counts against net worth.
Named(scope, X, class) ==
  {x \in X : /\ ClassOf(activities[x[1]], x[2]) = class
             /\ LegIn(scope, activities[x[1]], x[2]) \/ InClass(scope, x, {"return"})}
Contributions(scope, X) == Sum(LegBase, Named(scope, X, "external_inflow"))
Withdrawals(scope, X)   == Sum(LegBase, Named(scope, X, "external_outflow"))
Income(scope, X)        == Sum(LegBase, Named(scope, X, "income"))
Fees(scope, X)          == Sum(LAMBDA x : Abs(LegBase(x)), Named(scope, X, "fee"))
DebtMovement(scope, X)  ==
  Sum(LAMBDA x : NetSign(activities[x[1]].legs[x[2]].component) * LegBase(x),
      Named(scope, X, "debt_principal"))
ConversionSpread(scope, from, to) ==
  Sum(LAMBDA i : Spread(activities[i]), Converted(scope, Live(from, to)))

\* build_bridge: the days with a complete snapshot at both ends, by component.
Cells(scope, from, to) ==
  UNION {LET s == Snapshot(d - 1)
             t == Snapshot(d)
         IN IF Complete(s) /\ Complete(t)
            THEN {d} \X (ScopeItems(scope, s) \cup ScopeItems(scope, t)) ELSE {}
         : d \in from + 1 .. to}

\* A component that was remeasured that day has no market movement.
Quiet(scope, X, d, c) ==
  \A x \in OnDay(X, d) :
    activities[x[1]].legs[x[2]].component = c =>
      ~InClass(scope, x, {"unknown_basis_flow", "unexplained_return"})

\* Of the cells C: what the quotes moved.
CurrencyMovement(C, X) ==
  Sum(LAMBDA y : NetSign(y[2]) * DecomposeComponent(X, y[1], y[2]).currency, C)
InstrumentMovement(scope, C, X) ==
  Sum(LAMBDA y : NetSign(y[2]) * DecomposeComponent(X, y[1], y[2]).market,
      {y \in C : Quiet(scope, X, y[1], y[2])})

NamedSum(scope, from, to) ==
  LET X == BridgeLegs(scope, Live(from, to))
      C == Cells(scope, from, to)
  IN Contributions(scope, X) + Withdrawals(scope, X) + Income(scope, X)
     + InstrumentMovement(scope, C, X) + CurrencyMovement(C, X)
     + DebtMovement(scope, X) + ConversionSpread(scope, from, to) - Fees(scope, X)
Unexplained(scope, from, to) ==
  ScopeValue(scope, Snapshot(to)) - ScopeValue(scope, Snapshot(from)) - NamedSum(scope, from, to)

-----------------------------------------------------------------------------
(* Income and fee totals: application/income_fee_service.rs                   *)

\* The bucket of a fee: its kind, or the commission of a trade; else there is none.
\* Mutant: a trade's fee has no kind, so it has no bucket.
BucketOfKind(a) == a.feeKind \/ a.kind = "fee"
HasBucket(a)    == a.feeKind \/ a.kind \in {"buy", "sell", "fee"}

\* Whole days from the first to the last, both inclusive; of the account as it is
\* now, and for an instrument by what the Activity names.
InTotals(scope, a, k) ==
  CASE scope.kind = "instrument" -> a.related = scope.instrument
    [] scope.kind = "holding"    -> a.related = scope.instrument
                                    /\ a.legs[k].component.account = scope.account
    [] OTHER                     -> LegIn(scope, a, k)
TotalLegs(scope, first, last) ==
  LET all == DOMAIN activities
  IN {x \in LegsOf(all \ Excluded(all)) :
        /\ first <= activities[x[1]].day /\ activities[x[1]].day <= last
        /\ InTotals(scope, activities[x[1]], x[2])}
IncomeTotal(scope, first, last) ==
  Sum(LAMBDA x : LegBase(x),
      {x \in TotalLegs(scope, first, last) : activities[x[1]].kind = "income"})
FeeTotal(scope, first, last) ==
  Sum(LAMBDA x : Abs(LegBase(x)),
      {x \in TotalLegs(scope, first, last) :
         activities[x[1]].legs[x[2]].role = "fee" /\ HasBucket(activities[x[1]])})
-----------------------------------------------------------------------------
(* Properties                                                                *)

\* The readers look at closed days only, so it is enough to look right after each
\* close, at the periods that end with it.
Settled ==
  /\ \A i \in DOMAIN activities : activities[i].day < day
  /\ rate = snapshots[day].rate
Periods == {<<from, LastClosed>> : from \in 0 .. LastClosed - 1}

\* A Reversal on another day than its original: one of them is left out of a
\* period whose values hold them both, or only one.
SplitReversal(from, to) ==
  \E i \in ActivitiesIn(from, to) :
    activities[i].reverses # 0 /\ activities[activities[i].reverses].day # activities[i].day

SteadyQuotes(from, to) ==
  \A d \in from .. to : /\ Snapshot(d).rate = Snapshot(from).rate
                        /\ Snapshot(d).price = Snapshot(from).price
AtSteadyRate(from, to) ==
  \A i \in ActivitiesIn(from, to) : activities[i].rate = Snapshot(from).rate

HasFee(a)      == \E k \in DOMAIN a.legs : a.legs[k].role = "fee"
\* The debt of the household changes and no cash of its own with it.
DebtAlone(a) ==
  \E k \in DOMAIN a.legs : a.legs[k].role = "liability" /\ LegIn(Whole, a, k) /\ ~OtherIn(Whole, a, k)
TradedAt(a, p) == a.kind \in {"buy", "sell"} => Abs(a.legs[2].delta) = p * Abs(a.legs[1].delta)

\* Nothing in the Activity is worth more or less to the household afterwards.
Fair(a, s) ==
  /\ a.kind \notin {"income", "adjustment"} /\ ~HasFee(a) /\ ~DebtAlone(a)
  /\ TradedAt(a, s.price)
  /\ CrossCurrency(a) => Spread(a) = 0

\* Money that comes into a scope or leaves it is not a return.  When no quote moves
\* and nothing in the period makes the household richer or poorer, the growth of
\* every scope that counts is one, whatever was deposited, moved, bought or sold.
FlowsAreNotReturn ==
  Settled => \A p \in Periods :
    LET S == Live(p[1], p[2]) IN
    /\ SteadyQuotes(p[1], p[2]) /\ AtSteadyRate(p[1], p[2]) /\ ~SplitReversal(p[1], p[2])
    /\ \A i \in S : Fair(activities[i], Snapshot(p[1]))
    => \A scope \in Scopes :
         /\ scope.kind \in {"account", "holding"} => scope.account \in Counted
         /\ ReturnAvailable(scope, S, p[1], p[2])
         => LET g == Growth(scope, S, p[1], p[2]) IN g.num = g.den

\* A component that was empty at a close, or had no row, gives the bridge no rate.
RatesKnown(from, to) ==
  \A d \in from + 1 .. to, c \in Components :
    c.account \in Counted /\ Foreign(c) =>
      /\ c \in Items(Snapshot(d)) => Snapshot(d).native[c] # 0
      /\ c \in Items(Snapshot(d - 1)) => Snapshot(d - 1).native[c] # 0
      /\ c \in Items(Snapshot(d)) \ Items(Snapshot(d - 1)) =>
           Snapshot(d).rate = Snapshot(d - 1).rate /\ Snapshot(d).price = Snapshot(d - 1).price

\* The bridge leaves nothing unexplained when every Activity is valued at the quotes
\* of the close before it and none is a remeasurement or a debt movement with cash:
\* quotes may move, and the market and the currency take exactly what they moved.
BridgeExplained ==
  Settled => \A p \in Periods :
    /\ ~SplitReversal(p[1], p[2])
    /\ \A i \in Live(p[1], p[2]) :
         LET a == activities[i]
             s == Snapshot(a.day - 1)
         IN /\ a.kind # "adjustment" /\ a.rate = s.rate /\ TradedAt(a, s.price)
            /\ a.kind \in {"debt_draw", "debt_payment"} => DebtAlone(a)
            /\ a.kind = "transfer" =>
                 \A j, k \in DOMAIN a.legs : LegIn(Whole, a, j) <=> LegIn(Whole, a, k)
    /\ \A d \in p[1] .. p[2] : Complete(Snapshot(d))
    /\ RatesKnown(p[1], p[2])
    /\ BridgeAvailable(Whole, p[1], p[2])
    => Unexplained(Whole, p[1], p[2]) = 0

\* What crosses the household's boundary is what crosses the boundaries of its
\* accounts, a debt counting the other way, but for the spread of conversions
\* between accounts: no flow is seen twice and none is lost.
FlowTotal(scope, S) == Sum(LegBase, FlowLegs(scope, S))
ScopesAddUp ==
  Settled => \A p \in Periods :
    LET S == Live(p[1], p[2]) IN
    /\ \A i \in S : ~HasFee(activities[i]) /\ ~DebtAlone(activities[i])
    /\ \A x \in LegsOf(S) : Convertible(activities[x[1]], x[2])
    => Sum(LAMBDA a : (IF a \in Liabilities THEN -1 ELSE 1) * FlowTotal(OfAccount(a), S), Counted)
       = FlowTotal(Whole, S)
         + Sum(LAMBDA i : Spread(activities[i]),
               {i \in S : /\ CrossCurrency(activities[i])
                          /\ LegIn(Whole, activities[i], 1) /\ LegIn(Whole, activities[i], 2)
                          /\ activities[i].legs[1].component.account
                             # activities[i].legs[2].component.account})

\* The totals and the bridge of the days that follow its first close name the same
\* income and the same fees, but for the fee of a debt payment without a kind.
TotalsMatchBridge ==
  Settled => \A p \in Periods :
    /\ ~SplitReversal(0, LastClosed)
    /\ \A i \in Live(p[1], p[2]) :
         activities[i].kind = "debt_payment" /\ HasFee(activities[i]) => activities[i].feeKind
    /\ BridgeAvailable(Whole, p[1], p[2])
    => LET X == BridgeLegs(Whole, Live(p[1], p[2]))
       IN /\ Income(Whole, X) = IncomeTotal(Whole, p[1] + 1, p[2])
          /\ Fees(Whole, X) = FeeTotal(Whole, p[1] + 1, p[2])

\* What a scope calls internal stays in it: the legs of an Activity that are no flow
\* because another is inside too are worth nothing together, but for the spread of a
\* conversion and the value of what is traded.
InternalNetsOut ==
  Settled => \A scope \in {Whole, Portfolio} \cup {OfAccount(a) : a \in Counted},
                i \in Live(0, LastClosed) :
    LET a == activities[i]
        inside == {k \in DOMAIN a.legs : ScopeFlow(scope, a, k) = "zero_flow"}
    IN /\ \A k \in DOMAIN a.legs : Convertible(a, k)
       /\ ~CrossCurrency(a)
       => Sum(LAMBDA k : NetSign(a.legs[k].component) * BaseAmount(a, k), inside) = 0
=============================================================================
