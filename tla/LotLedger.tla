------------------------------ MODULE LotLedger ------------------------------
(***************************************************************************)
(* FIFO lots derived from the Activity ledger: domain/lot_ledger.rs, the    *)
(* mapping and the cost declarations of application/cost_basis_service.rs,  *)
(* and the gains of application/gain_service.rs.                            *)
(*                                                                         *)
(* Nothing about lots is stored: every reader replays the live Activities   *)
(* from the History Origin.  Only declarations, which give a cost to a lot  *)
(* that has none, are rows.  Lots lie in pools, one for each pair of an     *)
(* instrument and an account.  Shares of a cost, a fee or proceeds are      *)
(* exact decimals rounded at the last digit; here they are rounded down to  *)
(* an integer, so a share that is not corrected by the remainder shows.     *)
(***************************************************************************)
EXTENDS ActivityLedger, TLC

Sx == INSTANCE SequencesExt

CONSTANTS
  DeclaredCosts,     \* costs a declaration may give
  MaxDeclarations,   \* bound on the declarations, revocations apart
  QuoteOf,           \* instrument -> unit price of the selected quote
  NoQuote,           \* the price of an instrument without one
  LotKinds           \* the kinds of Activities that are posted meanwhile

VARIABLE declarations   \* cost_basis_declarations, in order of insertion

lotVars == <<vars, declarations>>

Instruments == {InstrumentOf[h] : h \in Holdings}

ASSUME LotConstants ==
  /\ DeclaredCosts \subseteq Nat /\ MaxDeclarations \in Nat
  /\ QuoteOf \in [Instruments -> Nat \cup {NoQuote}]
  /\ 0 \notin Prices   \* so that the second leg of a trade is its settlement

Pool(h) == <<InstrumentOf[h], AccountOf[h]>>
Pools   == {Pool(h) : h \in Holdings}

-----------------------------------------------------------------------------
(* What an Activity means for lots                                           *)

\* A LotRef is the opening event: an Activity, or 0 for the Origin baseline,
\* and the holding it opened the lot of.
Ref(i, h) == [opening |-> i, holding |-> h]

Part(q, c, f) == [quantity |-> q, cost |-> c, fee |-> f]
LotOf(ref, at, known, whole) ==
  [ref |-> ref, pool |-> Pool(ref.holding), at |-> at, known |-> known,
   rest |-> whole, whole |-> whole]

\* A reversed Activity and its Reversal take no part.
\* Mutant: an Activity that was corrected stays.
ExcludeUncorrected(i) == ledger[i].reverses # 0 \/ (Reversed(i) /\ ~Corrected(i))
Excluded(i) == ledger[i].reverses # 0 \/ Reversed(i)

\* The order of replay: effective time, then insertion.
EarlierActivity(i, j) == ledger[i].at < ledger[j].at \/ (ledger[i].at = ledger[j].at /\ i < j)
ReplayOrder ==
  SortSeq(SelectSeq([i \in DOMAIN ledger |-> i], LAMBDA i : ~Excluded(i)), EarlierActivity)

\* map_effect: the holding leg comes first, then the settlement, then the fee.
HoldingLeg(a) == a.legs[1]
Opens(a) ==
  /\ a.kind \in {"buy", "opening_adjustment", "position_adjustment"}
  /\ HoldingLeg(a).ep \in Holdings /\ HoldingLeg(a).delta > 0
Disposes(a) ==
  /\ a.kind \in {"sell", "position_adjustment"}
  /\ HoldingLeg(a).ep \in Holdings /\ HoldingLeg(a).delta < 0
Moves(a) == a.kind = "transfer" /\ HoldingLeg(a).ep \in Holdings

LegSize(a, k) == IF k \notin DOMAIN a.legs THEN 0
                 ELSE IF a.legs[k].delta < 0 THEN -a.legs[k].delta ELSE a.legs[k].delta
Gross(a) == IF a.kind \in {"buy", "sell"} THEN LegSize(a, 2) ELSE 0
FeeOf(a) == IF a.kind \in {"buy", "sell"} THEN LegSize(a, 3) ELSE 0

-----------------------------------------------------------------------------
(* First in, first out                                                       *)

\* The order of ids, where nothing else decides.
IdRank == Sx!SetToSeq(Holdings)
RankOf(h) == CHOOSE n \in DOMAIN IdRank : IdRank[n] = h

\* Mutant of Older: the newest lot goes first.
NewerFirst(l, m) == m.at < l.at \/ (m.at = l.at /\ m.ref.opening < l.ref.opening)

\* fifo_cmp: acquisition time, opening Activity, opening leg.
Older(l, m) ==
  \/ l.at < m.at
  \/ l.at = m.at
     /\ \/ l.ref.opening < m.ref.opening
        \/ l.ref.opening = m.ref.opening /\ RankOf(l.ref.holding) < RankOf(m.ref.holding)

Quantity(lots) == MapThenSumSet(LAMBDA l : l.rest.quantity, lots)
InPool(lots, pool) == {l \in lots : l.pool = pool}
Ahead(lots, l) == {m \in lots : m.pool = l.pool /\ Older(m, l)}

\* plan_consumption: what of lot l a disposal of n units from its pool takes.
Taken(lots, l, n) ==
  Max({0, Min({l.rest.quantity, n - Quantity(Ahead(lots, l))})})
Hit(lots, pool, n) == {l \in InPool(lots, pool) : Taken(lots, l, n) > 0}

Share(total, part, whole) == (total * part) \div whole

\* Mutant of SliceOf: the last slice takes its share like any other.
SliceByShare(l, n) ==
  Part(n, Share(l.whole.cost, n, l.whole.quantity), Share(l.whole.fee, n, l.whole.quantity))

\* The last slice of a lot takes what remains of its cost and fee.
SliceOf(l, n) ==
  IF n = l.rest.quantity THEN l.rest
  ELSE Part(n, Share(l.whole.cost, n, l.whole.quantity), Share(l.whole.fee, n, l.whole.quantity))
Minus(p, q) == Part(p.quantity - q.quantity, p.cost - q.cost, p.fee - q.fee)
Plus(p, q)  == Part(p.quantity + q.quantity, p.cost + q.cost, p.fee + q.fee)

\* The last slice of a disposal takes what remains of the proceeds or the fee.
ProceedsOf(total, lots, l, pool, n) ==
  LET hit == Hit(lots, pool, n)
      ByShare(m) == Share(total, Taken(lots, m, n), n)
  IN  IF \A m \in hit \ {l} : Older(m, l)
      THEN total - MapThenSumSet(ByShare, hit \ {l})
      ELSE ByShare(l)

\* take_fifo on n units: the slices, and the lots that are left.
Slices(lots, pool, n, act, kind, gross, fee) ==
  {[ref |-> l.ref, pool |-> pool, known |-> l.known, by |-> act, kind |-> kind,
    part |-> SliceOf(l, Taken(lots, l, n)), whole |-> l.whole, at |-> l.at,
    proceeds |-> ProceedsOf(gross, lots, l, pool, n),
    disposalFee |-> ProceedsOf(fee, lots, l, pool, n)] : l \in Hit(lots, pool, n)}
Left(lots, pool, n) ==
  {l \in lots : l \notin Hit(lots, pool, n)} \cup
  {[l EXCEPT !.rest = Minus(@, SliceOf(l, Taken(lots, l, n)))] :
     l \in {m \in Hit(lots, pool, n) : Taken(lots, m, n) < m.rest.quantity}}

\* reopen_at: a slice keeps its identity, and joins what the pool has of it.
ReopenAt(lots, pool, slice) ==
  LET same == {l \in lots : l.ref = slice.ref /\ l.pool = pool}
  IN  IF same # {}
      THEN (lots \ same) \cup {[l EXCEPT !.rest = Plus(@, slice.part)] : l \in same}
      ELSE lots \cup {[ref |-> slice.ref, pool |-> pool, at |-> slice.at, known |-> slice.known,
                       rest |-> slice.part, whole |-> slice.whole]}

-----------------------------------------------------------------------------
(* The replay.  Its result: the open lots, the openings of all lots, the     *)
(* consumptions, and whether a disposal found too little.                    *)

Replay0 ==
  LET baseline == {LotOf(Ref(0, h), 0, FALSE, Part(Origin[h], 0, 0)) :
                     h \in {g \in Holdings \cap OriginObserved : Origin[g] > 0}}
  IN  [open |-> baseline, openings |-> baseline, consumed |-> {}, short |-> FALSE]

Consume(st, i, n, kind) ==
  LET a    == ledger[i]
      pool == Pool(HoldingLeg(a).ep)
      cut  == Slices(st.open, pool, n, i, kind, Gross(a), FeeOf(a))
      left == Left(st.open, pool, n)
  IN  IF Quantity(InPool(st.open, pool)) < n THEN [st EXCEPT !.short = TRUE]
      ELSE [st EXCEPT
              !.open = IF kind = "transfer"
                       THEN FoldSet(LAMBDA slice, lots : ReopenAt(lots, Pool(a.legs[2].ep), slice),
                                    left, cut)
                       ELSE left,
              !.consumed = @ \cup cut]

\* After a shortfall nothing more is applied.
ApplyActivity(st, i) ==
  LET a   == ledger[i]
      n   == LegSize(a, 1)
      lot == LotOf(Ref(i, HoldingLeg(a).ep), a.at, a.kind = "buy", Part(n, Gross(a), FeeOf(a)))
  IN  IF st.short THEN st
      ELSE CASE Opens(a)    -> [st EXCEPT !.open = @ \cup {lot}, !.openings = @ \cup {lot}]
             [] Disposes(a) -> Consume(st, i, n, IF a.kind = "sell" THEN "realized" ELSE "unexplained")
             [] Moves(a)    -> Consume(st, i, n, "transfer")
             [] OTHER       -> st

Replay == Sx!FoldLeft(ApplyActivity, Replay0, ReplayOrder)

-----------------------------------------------------------------------------
(* Declarations                                                              *)

Declaration(ref, cost) == [ref |-> ref, cost |-> cost]
Revocation == -1

\* The latest declaration of a lot is in force.
LatestOf(ref) ==
  LET mine == {k \in DOMAIN declarations : declarations[k].ref = ref}
  IN  IF mine = {} THEN Revocation ELSE declarations[Max(mine)].cost

\* apply_declaration gives what is open and what was consumed of an
\* unknown-basis lot its share of the declared cost.
Supplied(ref, known) == ~known /\ LatestOf(ref) # Revocation
WithCost(part, whole, ref, known) ==
  IF Supplied(ref, known)
  THEN [part EXCEPT !.cost = Share(LatestOf(ref), part.quantity, whole.quantity)]
  ELSE part

\* load_effective_lot_ledger_in_tx: the replay, with the declarations over it.
Declared(st) ==
  LET whole(ref) == (CHOOSE o \in st.openings : o.ref = ref).whole
  IN  [st EXCEPT
         !.open = {[l EXCEPT !.known = @ \/ Supplied(l.ref, l.known),
                             !.rest = WithCost(@, whole(l.ref), l.ref, l.known)] : l \in @},
         !.consumed = {[c EXCEPT !.known = @ \/ Supplied(c.ref, c.known),
                                 !.part = WithCost(@, whole(c.ref), c.ref, c.known)] : c \in @}]
Lots == Declared(Replay)

\* resolve_unknown_opening: the replay, without declarations, opens it unknown.
LacksBasis(ref) == \E o \in Replay.openings : o.ref = ref /\ ~o.known

DeclareLotCostBasis(ref, cost) ==
  /\ LacksBasis(ref)
  /\ declarations' = Append(declarations, Declaration(ref, cost))
  /\ UNCHANGED vars

RevokeLotCostBasis(ref) ==
  /\ LatestOf(ref) # Revocation
  /\ LacksBasis(ref)
  /\ declarations' = Append(declarations, Declaration(ref, Revocation))
  /\ UNCHANGED vars

LotInit == Init /\ declarations = <<>>

\* What happens to the ledger meanwhile.  A transfer of cash has no lot effect
\* and is left out.
LotLegs(kind) == IF kind = "transfer" THEN PositionTransferLegs ELSE LegsOf(kind)

LedgerMove ==
  /\ \/ Opening \/ Reverse \/ RebuildSnapshots \/ Tick
     \/ \E kind \in LotKinds :
          \/ /\ Room(1)
             /\ \E legs \in LotLegs(kind), at \in EntryTimes :
                  Usable(legs) /\ Post(kind, legs, at)
          \/ /\ Room(2)
             /\ \E i \in DOMAIN ledger, legs \in LotLegs(kind), at \in EntryTimes :
                  CorrectActivity(i, kind, legs, at)
  /\ UNCHANGED declarations

LotNext ==
  \/ LedgerMove
  \/ \E ref \in {o.ref : o \in Replay.openings} :
       \/ /\ Len(declarations) < MaxDeclarations
          /\ \E cost \in DeclaredCosts : DeclareLotCostBasis(ref, cost)
       \/ RevokeLotCostBasis(ref)

LotSpec == LotInit /\ [][LotNext]_lotVars

-----------------------------------------------------------------------------
(* Gains                                                                     *)

\* The lots and the consumptions of a scope, which is a set of pools.
InScope(records, scope) == {x \in records : x.pool \in scope}

\* native_holding_value: nothing without a selected quote.
Quoted(l) == QuoteOf[l.pool[1]] # NoQuote
NativeValue(l) == l.rest.quantity * QuoteOf[l.pool[1]]

\* summarize_gain: a lot without a basis, or without a quote, is left out and
\* flagged; so is what was consumed of a lot without a basis.
GainSummary(lots, scope) ==
  LET open     == InScope(lots.open, scope)
      consumed == InScope(lots.consumed, scope)
      realized == {c \in consumed : c.kind = "realized" /\ c.known}
      removed  == {c \in consumed : c.kind = "unexplained" /\ c.known}
  IN  [basisComplete   |-> \A x \in open \cup consumed : x.known,
       inputComplete   |-> \A l \in open : Quoted(l),
       unknownRealized |-> \E c \in consumed : c.kind = "realized" /\ ~c.known,
       realizedGross   |-> MapThenSumSet(LAMBDA c : c.proceeds - c.part.cost, realized),
       allocatedFees   |-> MapThenSumSet(LAMBDA c : c.part.fee + c.disposalFee, realized),
       unexplained     |-> MapThenSumSet(LAMBDA c : c.part.cost, removed),
       unrealizedGross |-> MapThenSumSet(LAMBDA l : NativeValue(l) - l.rest.cost,
                                         {l \in open : l.known /\ Quoted(l)})]

\* The gains of the household, and of each holding that has open lots.
HouseholdGain(lots) == GainSummary(lots, Pools)
HoldingGains(lots)  == [pool \in {l.pool : l \in lots.open} |-> GainSummary(lots, {pool})]

-----------------------------------------------------------------------------
(* Properties                                                                *)

\* The lots of every pool add up to the position the ledger shows, whatever was
\* sold, transferred, reversed, corrected or back-dated: gains are computed on
\* the quantity the household has, unless the replay refuses to give any.
HoldingsMatch(lots) ==
  ~lots.short =>
    \A pool \in Pools :
      Quantity(InPool(lots.open, pool)) =
      MapThenSumSet(LAMBDA h : Replayed(ledger, h), {h \in Holdings : Pool(h) = pool})
LotsMatchHoldings == HoldingsMatch(Lots)

\* First in, first out, across transfers: when a disposal left an older lot in
\* its pool alone, that lot came into the pool only later.
After(i, j) == EarlierActivity(j, i)
CameLater(lots, l, i) ==
  \/ l.ref.opening # 0 /\ After(l.ref.opening, i)
  \/ \E t \in lots.consumed :
       /\ t.kind = "transfer" /\ t.ref = l.ref /\ After(t.by, i)
       /\ Pool(ledger[t.by].legs[2].ep) = l.pool
OldestTaken(lots) ==
  LET AcquiredAt(ref) == IF ref.opening = 0 THEN 0 ELSE ledger[ref.opening].at
  IN  \A c \in lots.consumed, l \in lots.open :
        c.pool = l.pool /\ AcquiredAt(l.ref) < AcquiredAt(c.ref) => CameLater(lots, l, c.by)
FirstInFirstOut == OldestTaken(Lots)

\* With every basis and quote known, the gains of the household are what it
\* would have if it sold everything now, less what it paid: cost, fees and
\* proceeds are each counted once, whatever lots a disposal took, however often
\* a lot was split and moved, and whatever was reversed.  The holdings that are
\* listed explain all of what is not realized yet.
CashFlowIs(lots, gain) ==
  LET Sum(Op(_), kind) ==
        MapThenSumSet(LAMBDA i : Op(ledger[i]),
                      {j \in DOMAIN ledger : Live(j) /\ ledger[j].kind = kind})
      market  == MapThenSumSet(LAMBDA h : Replayed(ledger, h) * QuoteOf[InstrumentOf[h]], Holdings)
      supplied == MapThenSumSet(LAMBDA o : LatestOf(o.ref), {o \in lots.openings : ~o.known})
      carried == MapThenSumSet(LAMBDA l : l.rest.fee, lots.open)
                 + MapThenSumSet(LAMBDA c : c.part.fee,
                                 {c \in lots.consumed : c.kind = "unexplained"})
      listed  == HoldingGains(lots)
  IN  ~lots.short /\ gain.basisComplete /\ gain.inputComplete =>
        /\ gain.unrealizedGross = MapThenSumSet(LAMBDA p : listed[p].unrealizedGross, DOMAIN listed)
        /\ gain.realizedGross + gain.unrealizedGross - gain.unexplained
             = market + Sum(Gross, "sell") - Sum(Gross, "buy") - supplied
        /\ gain.allocatedFees + carried = Sum(FeeOf, "sell") + Sum(FeeOf, "buy")
GainIsCashFlow == LET lots == Lots IN CashFlowIs(lots, HouseholdGain(lots))

\* A validly posted ledger never runs short of lots.
NeverShort == ~Replay.short
=============================================================================
