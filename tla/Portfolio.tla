------------------------------ MODULE Portfolio ------------------------------
(***************************************************************************)
(* What the household is worth now: application/valuation_service.rs, and    *)
(* the two pages that add it up, application/portfolio_service.rs and        *)
(* application/overview_service.rs.                                          *)
(*                                                                         *)
(* A page is one read transaction over the latest rows.  The quotes are the  *)
(* latest of each line and source; MarketData has the order that makes one   *)
(* the latest.  Freshness is a label that selects nothing and is left out.   *)
(* Values are counted in fractions of 1 / Scale, so that the rates divide.   *)
(***************************************************************************)
EXTENDS ActivityLedger

LOCAL Order == INSTANCE SequencesExt

CONSTANTS
  Base,             \* the base currency of the household
  InstrumentFacts,  \* instrument -> [currency, country, type]
  AccountFacts,     \* account -> [category, netWorth, investment, owners, institution]
  Offers,           \* the quotes that may be recorded: [line, source, value]
  AfterBase,        \* the currencies whose code sorts after that of the base
  TotalBps,         \* TOTAL_BPS, 10000 in the code
  Scale,            \* fractions that a unit of money is counted in
  NoQuote

Sources     == {"manual", "provider"}
Foreign     == ({CurrencyOf[e] : e \in ValueEndpoints \cup CashEndpoints}
                  \cup {InstrumentFacts[i].currency : i \in DOMAIN InstrumentFacts}) \ {Base}
Lines       == {<<c, Base>> : c \in Foreign} \cup {<<Base, c>> : c \in Foreign}
                 \cup {<<i>> : i \in DOMAIN InstrumentFacts}
Subjects    == Foreign \cup DOMAIN InstrumentFacts   \* what has a quote preference

ASSUME PortfolioConstants ==
  /\ Offers \subseteq [line : Lines, source : Sources, value : Nat \ {0}]
  /\ TotalBps \in Nat \ {0} /\ Scale \in Nat \ {0} /\ NoQuote \notin Int
  /\ {InstrumentOf[h] : h \in Holdings} \subseteq DOMAIN InstrumentFacts
  /\ \A a \in Accounts : /\ AccountFacts[a].category = "liability" <=> Class[a] = "liability"
                         /\ MapThenSumSet(LAMBDA m : AccountFacts[a].owners[m],
                                          DOMAIN AccountFacts[a].owners) = TotalBps

VARIABLES
  latest,     \* instrument_quotes and fx_quotes: <<line, source>> -> value, or NoQuote
  preferred   \* the quote preference of an instrument or of a currency pair

quoteVars == <<latest, preferred>>

-----------------------------------------------------------------------------
(* Selection and conversion                                                  *)

\* The unordered pair of a line shares one preference.
SubjectOf(line) == IF Len(line) = 1 THEN line[1]
                   ELSE CHOOSE c \in Foreign : c \in {line[1], line[2]}

\* selected_fx, selected_instrument_quote
Selected(line) == latest[<<line, preferred[SubjectOf(line)]>>]

\* convert_native_to_base: nothing to do, the direct rate, or the inverse one.
ToBase(native, currency) ==
  LET direct  == Selected(<<currency, Base>>)
      inverse == Selected(<<Base, currency>>)
  IN  CASE currency = Base    -> native * Scale
        [] currency # Base /\ direct # NoQuote -> native * Scale * direct
        [] currency # Base /\ direct = NoQuote /\ inverse # NoQuote -> (native * Scale) \div inverse
        [] OTHER -> NoQuote

-----------------------------------------------------------------------------
(* Accounts                                                                  *)

\* list_active_holdings_for_household, list_latest_cash_for_household
Kept(e) == observed[e].at >= 0 /\ e \notin archived

Component(e, native, currency, country, type) ==
  [of |-> e, currency |-> currency, country |-> country, type |-> type, known |-> native # NoQuote,
   base |-> IF native = NoQuote THEN NoQuote ELSE ToBase(native, currency)]

\* calculate_holding: the column holdings.quantity at the selected price.
HoldingComponent(h) ==
  LET facts == InstrumentFacts[InstrumentOf[h]]
      price == Selected(<<InstrumentOf[h]>>)
  IN  Component(h, IF price = NoQuote THEN NoQuote ELSE quantity[h] * price,
                facts.currency, facts.country, facts.type)

CashComponent(e)  == Component(e, Current(e), CurrencyOf[e], "unknown", "cash")
ValueComponent(e) == Component(e, IF Kept(e) THEN Current(e) ELSE NoQuote,
                               CurrencyOf[e], "unknown", "manual")

\* value_simple_account, value_holdings_account
Components(a) ==
  {HoldingComponent(h) : h \in {x \in Holdings : AccountOf[x] = a /\ Kept(x)}}
    \cup {CashComponent(e) : e \in {x \in CashEndpoints : AccountOf[x] = a /\ Kept(x)}}
    \cup {ValueComponent(e) : e \in {x \in ValueEndpoints : AccountOf[x] = a}}

Worth(components) == MapThenSumSet(LAMBDA c : c.base, {d \in components : d.base # NoQuote})
Complete(components) == \A c \in components : c.base # NoQuote

\* list_accounts_in_tx: the accounts that are not archived.
Shown == Accounts \ archived

Valuations ==
  {LET parts == Components(a)
   IN  [account |-> a, facts |-> AccountFacts[a], parts |-> parts,
        worth |-> Worth(parts), complete |-> Complete(parts)] : a \in Shown}

-----------------------------------------------------------------------------
(* Shares                                                                    *)

\* allocate, allocate_share_bps: rounded down, what is left goes to the largest
\* remainders, to one part each.  Ties go to the first part.
Shares(parts, whole) ==
  LET keys     == {k \in DOMAIN parts : parts[k] > 0}
      floor(k) == (parts[k] * TotalBps) \div whole
      rest(k)  == (parts[k] * TotalBps) % whole
      turn     == Order!SetToSeq(keys)
      first(k) == CHOOSE n \in DOMAIN turn : turn[n] = k
      rank(k)  == Cardinality({l \in keys : rest(l) > rest(k)
                                           \/ (rest(l) = rest(k) /\ first(l) < first(k))})
      left     == Max({0, TotalBps - MapThenSumSet(floor, keys)})
  IN  [k \in DOMAIN parts |->
         IF whole = 0 \/ k \notin keys THEN 0
         ELSE floor(k) + (IF rank(k) < left THEN 1 ELSE 0)]

Total(parts) == MapThenSumSet(LAMBDA k : parts[k], DOMAIN parts)

-----------------------------------------------------------------------------
(* The Investments page                                                      *)

\* get_portfolio_in_tx: accounts that count as investments, without debts.
Invested(values) ==
  {v \in values : v.facts.investment /\ v.facts.category # "liability"}
Counted(values) == {v \in Invested(values) : v.complete}

Sum(values) == MapThenSumSet(LAMBDA v : v.worth, values)
PortfolioTotal(values) == Sum(Counted(values))

\* The components of the complete accounts, by currency, country or type.
Buckets(values, by) ==
  LET parts == UNION {v.parts : v \in Counted(values)}
  IN  [k \in {c[by] : c \in parts} |-> MapThenSumSet(LAMBDA c : c.base, {c \in parts : c[by] = k})]

\* What counts in the net worth.
Net(values) == {v \in values : v.facts.netWorth}

\* required_fx_pairs: what the accounts of the net worth are kept in.
Required(values) ==
  {c \in Foreign : \E v \in Net(values) : \E part \in v.parts :
     part.currency = c /\ (part.type = "manual" => part.known)}

\* Mutant of ShownQuote: a quote of any source is shown.
ShownOfAnySource(c) ==
  LET found == {line \in {<<Base, c>>, <<c, Base>>} :
                  \E source \in Sources : latest[<<line, source>>] # NoQuote}
  IN  IF found = {} THEN NoQuote ELSE CHOOSE line \in found : TRUE

\* required_fx_status: a quote of either direction, the first by the order of the
\* index when there are both.
ShownQuote(c) ==
  LET found == {line \in {<<Base, c>>, <<c, Base>>} : Selected(line) # NoQuote}
      first == IF c \in AfterBase THEN <<Base, c>> ELSE <<c, Base>>
  IN  CASE found = {}                        -> NoQuote
        [] first \in found                  -> first
        [] found # {} /\ first \notin found -> CHOOSE line \in found : TRUE

-----------------------------------------------------------------------------
(* The Overview page                                                         *)

\* compute_overview: what is valued of an incomplete account counts.
Owned(values) == {v \in Net(values) : v.facts.category # "liability"}
Signed(v) == IF v.facts.category = "liability" THEN -v.worth ELSE v.worth

Assets(values)      == Sum(Owned(values))
Liabilities(values) == Sum(Net(values) \ Owned(values))
NetWorth(values)    == Assets(values) - Liabilities(values)

\* Mutant of NetOf: a debt adds to what its owner has.
NetOfUnsigned(values, m) ==
  MapThenSumSet(LAMBDA v : (v.worth * v.facts.owners[m]) \div TotalBps, Net(values))

\* The rows of a member, of an institution or of a category.
NetOf(values, m) ==
  MapThenSumSet(LAMBDA v : (Signed(v) * v.facts.owners[m]) \div TotalBps, Net(values))
AssetsOf(values, m) ==
  MapThenSumSet(LAMBDA v : (v.worth * v.facts.owners[m]) \div TotalBps, Owned(values))
Members == UNION {DOMAIN AccountFacts[a].owners : a \in Accounts}
MemberParts(values) == [m \in Members |-> AssetsOf(values, m)]
NetAt(values, x) ==
  MapThenSumSet(Signed, {v \in Net(values) : v.facts.institution = x})
AssetsIn(values, category) == Sum({v \in Net(values) : v.facts.category = category})

Unvalued(values) == UNION {{c \in v.parts : c.base = NoQuote} : v \in Net(values)}

-----------------------------------------------------------------------------
(* Quotes                                                                    *)

PortfolioInit ==
  /\ latest = [key \in Lines \X Sources |-> NoQuote]
  /\ preferred = [s \in Subjects |-> "manual"]

RecordQuote(offer) ==
  /\ latest' = [latest EXCEPT ![<<offer.line, offer.source>>] = offer.value]
  /\ UNCHANGED preferred

Prefer(subject, source) ==
  /\ preferred[subject] # source
  /\ preferred' = [preferred EXCEPT ![subject] = source]
  /\ UNCHANGED latest

Quoting ==
  \/ \E offer \in Offers : RecordQuote(offer)
  \/ \E subject \in Subjects, source \in Sources : Prefer(subject, source)

PortfolioNext ==
  \/ Next /\ UNCHANGED quoteVars
  \/ Quoting /\ UNCHANGED vars
PortfolioSpec == Init /\ PortfolioInit /\ [][PortfolioNext]_<<vars, quoteVars>>

-----------------------------------------------------------------------------
(* Properties                                                                *)

Apportions(parts, whole) ==
  LET shares == Shares(parts, whole)
  IN  /\ Total(parts) = whole
      /\ whole > 0 => /\ Total(shares) = TotalBps
                      /\ \A k \in DOMAIN parts : shares[k] * whole - parts[k] * TotalBps \in -whole .. whole

\* The breakdowns of the two pages tell one household. However the investments are
\* broken down, each component of each complete account is in one bucket: the
\* buckets add up to the total, which is computed apart, and the rounded shares to
\* the whole, none of them off by more than one; the same of the shares of the
\* members in the assets. What members and institutions have adds up to the net
\* worth, and the categories to the assets, also when a quote is missing.
BreakdownsAgree ==
  LET values  == Valuations
      total   == PortfolioTotal(values)
      places  == {AccountFacts[a].institution : a \in Accounts}
      kinds   == {AccountFacts[a].category : a \in Accounts} \ {"liability"}
  IN  /\ \A by \in {"currency", "country", "type"} : Apportions(Buckets(values, by), total)
      /\ Apportions(MemberParts(values), Assets(values))
      /\ MapThenSumSet(LAMBDA m : NetOf(values, m), Members) = NetWorth(values)
      /\ MapThenSumSet(LAMBDA m : AssetsOf(values, m), Members) = Assets(values)
      /\ MapThenSumSet(LAMBDA x : NetAt(values, x), places) = NetWorth(values)
      /\ MapThenSumSet(LAMBDA k : AssetsIn(values, k), kinds) = Assets(values)

\* Whatever the net worth lacks a rate for is among the pairs the user is asked
\* for, and is shown there as missing; a pair shown with a rate is not missed.
MissingRateIsAsked ==
  LET values == Valuations
  IN  /\ \A c \in Unvalued(values) :
           c.known => c.currency \in Required(values) /\ ShownQuote(c.currency) = NoQuote
      /\ \A c \in Required(values) :
           ShownQuote(c) # NoQuote =>
             \A part \in Unvalued(values) : part.currency = c => ~part.known

\* The same of the Investments page.
MissingRateIsAskedThere ==
  LET values == Valuations
  IN  \A v \in Invested(values) : \A c \in v.parts :
        c.known /\ c.base = NoQuote => c.currency \in Required(values)

\* The rate shown for a pair is the one its amounts are converted with.
ShownRateIsUsed ==
  \A c \in Required(Valuations) :
    Selected(<<c, Base>>) # NoQuote => ShownQuote(c) = <<c, Base>>
=============================================================================
