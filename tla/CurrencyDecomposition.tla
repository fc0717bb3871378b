------------------------ MODULE CurrencyDecomposition ------------------------
(***************************************************************************)
(* The split of a gain into a movement of the instrument and a movement of  *)
(* the currency: application/currency_decomposition.rs, over the lots of    *)
(* LotLedger.                                                               *)
(*                                                                         *)
(* An amount of the ledger is the mantissa of a decimal at the scale        *)
(* MoneyScale: a share of a cost that LotLedger rounds to an integer is the *)
(* quotient that rust_decimal rounds at its last digit.  The FX quotes are  *)
(* those of the one pair between the currency of the instruments and the    *)
(* base currency, under the preference in force; MarketData has how a       *)
(* preference selects among them.                                           *)
(***************************************************************************)
EXTENDS LotLedger

CONSTANTS
  MoneyScale,    \* the scale of an amount
  FxQuotes,      \* the quotes of the pair: [line, at, rate]
  DeclaredOn,    \* the acquisition day that declarations give, NoDay for none
  NoDay,
  NoRate,
  MaxMantissa, MaxScale

D == INSTANCE Decimals

Money(n) == D!Decimal(n, MoneyScale)

-----------------------------------------------------------------------------
(* Rates                                                                     *)

Eligible(line, cutoff) == {q \in FxQuotes : q.line = line /\ q.at <= cutoff}

\* select_fx_quote_at: the newest at or before the cutoff.
Newest(eligible) == (CHOOSE q \in eligible : \A r \in eligible : r.at <= q.at).rate

\* native_to_base_rate_with: the direct line, then its reciprocal where allowed.
NativeToBase(cutoff, reciprocal) ==
  CASE Eligible("direct", cutoff) # {} -> Newest(Eligible("direct", cutoff))
    [] /\ Eligible("direct", cutoff) = {}
       /\ reciprocal /\ Eligible("inverse", cutoff) # {} ->
         D!Div(D!One, Newest(Eligible("inverse", cutoff)))
    [] OTHER -> NoRate

\* A declared lot was acquired at the start of the declared day, if there is one.
AcquisitionFx(lots, ref) ==
  LET opening == CHOOSE o \in lots.openings : o.ref = ref
  IN  CASE ~Supplied(ref, opening.known) -> NativeToBase(opening.at, FALSE)
        [] DeclaredOn = NoDay            -> NoRate
        [] OTHER                         -> NativeToBase(DeclaredOn * DayLength, FALSE)

-----------------------------------------------------------------------------
(* Lots                                                                      *)

Unrealized(lots, scope) == {l \in InScope(lots.open, scope) : l.known /\ Quoted(l)}

Realized(lots, scope) ==
  {c \in InScope(lots.consumed, scope) : c.kind = "realized" /\ c.known}

Row(cost, value, f0, f1) == [cost |-> cost, value |-> value, f0 |-> f0, f1 |-> f1]

\* The rows of the lots that summarize_decomposition does not leave out.
UnrealizedRow(lots, l) ==
  Row(l.rest.cost, NativeValue(l), AcquisitionFx(lots, l.ref), NativeToBase(now, TRUE))
RealizedRow(lots, c) ==
  Row(c.part.cost, c.proceeds, AcquisitionFx(lots, c.ref), NativeToBase(ledger[c.by].at, TRUE))

Rated(row) == row.f0 # NoRate /\ row.f1 # NoRate

\* decompose_identity, in the arithmetic of the code.
BaseGain(row) ==
  D!Sub(D!Mul(Money(row.value), row.f1), D!Mul(Money(row.cost), row.f0))
InstrumentMovement(row) == D!Mul(D!Sub(Money(row.value), Money(row.cost)), row.f0)
CurrencyMovement(row)   == D!Mul(Money(row.value), D!Sub(row.f1, row.f0))

\* It answers an internal error when the movements do not add up to the gain,
\* and with it the summary of the whole scope.
Succeeds(row) ==
  D!Equal(D!Add(InstrumentMovement(row), CurrencyMovement(row)), BaseGain(row))

-----------------------------------------------------------------------------
(* Properties                                                                *)

\* The identity is exact: whatever share of a lot is sold, and whatever the rates,
\* the movements of a lot add up to its gain and the summary answers.
DecompositionAnswers ==
  LET lots == Lots
      rows == {UnrealizedRow(lots, l) : l \in Unrealized(lots, Pools)}
              \cup {RealizedRow(lots, c) : c \in Realized(lots, Pools)}
  IN  ~lots.short => \A row \in rows : Rated(row) => Succeeds(row)
=============================================================================
