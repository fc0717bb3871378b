--------------------------- MODULE HistoryQueries ---------------------------
(***************************************************************************)
(* The pages read from the Activity ledger:                                 *)
(* application/history_query_service.rs over                                *)
(* application/history_repositories.rs.                                     *)
(*                                                                         *)
(* A page is one read transaction.  A client walks through the pages of the *)
(* Activity list or of an account's timeline with a cursor, and the ledger  *)
(* may grow between two pages.  What a page says of an Activity (whether it *)
(* is reversed, its classification) is derived from the ledger a second     *)
(* time, partly in SQL and partly in Rust.  Labels are left out, and so is  *)
(* the filter by instrument, which is like the one by account.              *)
(***************************************************************************)
EXTENDS ActivityLedger

CONSTANTS
  PageLimit,     \* page_limit: items on a page
  LegacyRows,    \* rows of accounts older than the History Origin: [account, at]
  Filters,       \* the filters a client may list with
  Unset,         \* an input that is not given
  MaxChanges     \* bound on the rows of account states

ASSUME QueryConstants ==
  /\ PageLimit \in Nat \ {0} /\ MaxChanges \in Nat
  /\ 0 \notin Prices   \* the legs of a trade without a settlement leg are not told apart
  /\ IsFiniteSet(LegacyRows)
  /\ \A row \in LegacyRows : row.account \in Accounts /\ row.at \in Int /\ row.at < 0

VARIABLES
  states,   \* account_state_observations since the origin: [account, at, after],
            \* `after` the length of the ledger when it was written
  walk      \* the client's walk through a list, NoWalk when there is none

NoWalk == [view |-> "none"]

-----------------------------------------------------------------------------
(* Roles and classifications                                                *)

\* The roles the constructors give the legs of each kind, in order.
Roles(kind) ==
  CASE kind = "deposit"          -> <<"destination">>
    [] kind = "withdrawal"       -> <<"source">>
    [] kind = "income"           -> <<"income">>
    [] kind = "fee"              -> <<"fee">>
    [] kind = "transfer"         -> <<"source", "destination", "fee">>
    [] kind \in {"buy", "sell"}  -> <<"holding", "settlement", "fee">>
    [] kind = "debt_draw"        -> <<"liability", "destination">>
    [] kind = "debt_payment"     -> <<"liability", "source", "fee">>
    [] OTHER                     -> <<"adjustment">>

\* inverse_legs keeps the role of every leg.
Role(i, k) == Roles(IF ledger[i].kind = "reversal" THEN ledger[ledger[i].reverses].kind
                    ELSE ledger[i].kind)[k]

Remeasurements == {"opening_adjustment", "balance_adjustment", "position_adjustment",
                   "debt_adjustment", "manual_valuation"}

\* What a leg of a reversal is, by its role alone.
InverseClass(role) ==
  CASE role \in {"fee", "income"}           -> role
    [] role = "liability"                   -> "debt_principal"
    [] role \in {"holding", "settlement"}   -> "trade_principal"
    [] role = "adjustment"                  -> "remeasurement"
    [] role \in {"source", "destination"}   -> "internal_transfer"

\* The kinds that may have a fee beside their principal.
Paired == {"buy", "sell", "debt_draw", "debt_payment", "transfer"}

Classify(kind, role) ==
  LET principal(kinds) == kind \in kinds /\ role # "fee"
  IN CASE kind = "deposit"                      -> "external_inflow"
       [] kind = "withdrawal"                   -> "external_outflow"
       [] kind = "income"                       -> "income"
       [] kind = "fee"                          -> "fee"
       [] kind \in Remeasurements               -> "remeasurement"
       [] kind = "reversal"                     -> InverseClass(role)
       [] kind \in Paired /\ role = "fee"       -> "fee"
       [] principal({"transfer"})               -> "internal_transfer"
       [] principal({"buy", "sell"})            -> "trade_principal"
       [] kind \in {"debt_draw", "debt_payment"} /\ role = "liability" -> "debt_principal"
       [] OTHER                                 -> "internal_transfer"

\* The CASE expression of the classification filter, a second table in SQL.
ClassInSql(kind, role) ==
  LET inverse(roles) == kind = "reversal" /\ role \in roles
      debt           == kind \in {"debt_draw", "debt_payment"} /\ role # "fee"
      trade          == kind \in {"buy", "sell"} /\ role # "fee"
  IN CASE kind = "deposit"                                            -> "external_inflow"
       [] kind = "withdrawal"                                         -> "external_outflow"
       [] kind = "transfer"                                           -> "internal_transfer"
       [] kind = "income" \/ inverse({"income"})                      -> "income"
       [] kind = "fee" \/ inverse({"fee"})                            -> "fee"
       [] kind \in Paired \ {"transfer"} /\ role = "fee"              -> "fee"
       [] trade \/ inverse({"holding", "settlement"})                 -> "trade_principal"
       [] (debt /\ role = "liability") \/ inverse({"liability"})      -> "debt_principal"
       [] (debt /\ role # "liability") \/ inverse({"source", "destination"}) -> "internal_transfer"
       [] kind \in Remeasurements \/ inverse({"adjustment"})          -> "remeasurement"

\* header_classification: the class of the first leg that is not a fee beside a principal.
HeaderLeg(i) ==
  LET principal == {k \in DOMAIN ledger[i].legs :
                      ~(ledger[i].kind \in Paired /\ Role(i, k) = "fee")}
  IN  IF principal = {} THEN 1 ELSE Min(principal)

HeaderClass(i) == Classify(ledger[i].kind, Role(i, HeaderLeg(i)))

-----------------------------------------------------------------------------
(* Correction chains as they are shown                                      *)

ChainOriginal(i) ==
  CASE ledger[i].reverses # 0 -> ledger[i].reverses
    [] ledger[i].corrects # 0 -> ledger[i].corrects
    [] OTHER                  -> i

\* Mutant of CorrectionLink: an inner join, for chains that have a replacement.
CorrectionLinkJoined(original) ==
  LET replacements == {j \in DOMAIN ledger : ledger[j].corrects = original}
  IN  [reversal    |-> {j \in DOMAIN ledger : replacements # {} /\ ledger[j].reverses = original},
       replacement |-> replacements]

\* list_correction_links: the Reversal of an original and its newest replacement.
CorrectionLink(original) ==
  [reversal    |-> {j \in DOMAIN ledger : ledger[j].reverses = original},
   replacement |-> {j \in DOMAIN ledger : ledger[j].corrects = original}]

Chain(i) == CorrectionLink(ChainOriginal(i))

\* activity_detail_from: what the list says of an Activity.
ShownReversed(i) == Chain(i).reversal # {} /\ ledger[i].reverses = 0

\* The page offers to reverse or correct what is neither reversed nor a Reversal.
Offered(i) == ~ShownReversed(i) /\ ledger[i].kind # "reversal"

-----------------------------------------------------------------------------
(* Pages.  An item is known by its sort key (effective_at, created_at, id):   *)
(* rows are inserted in the order of (created_at, id), so an Activity has the *)
(* key <<at, position, 0>> and what is written after it <<at, position, n>>.  *)

ActivityKey(i) == <<ledger[i].at, i, 0>>
StateKey(n)    == <<states[n].at, states[n].after, n>>
OriginKey      == <<0, 0, 0>>
LegacyKey(row) == <<row.at, 0, 0>>

Precedes(x, y) ==
  \/ x[1] < y[1]
  \/ x[1] = y[1] /\ x[2] < y[2]
  \/ x[1] = y[1] /\ x[2] = y[2] /\ x[3] < y[3]

Touches(i, a) == \E k \in DOMAIN ledger[i].legs : AccountOf[ledger[i].legs[k].ep] = a

\* list_activities_filtered, without the cursor.
Passes(i, f) ==
  /\ f.from <= Day(ledger[i].at) /\ Day(ledger[i].at) <= f.to
  /\ f.kind \in {Unset, ledger[i].kind}
  /\ f.account = Unset \/ Touches(i, f.account)
  /\ f.class = Unset
     \/ \E k \in DOMAIN ledger[i].legs : ClassInSql(ledger[i].kind, Role(i, k)) = f.class

Listed(f) == {ActivityKey(i) : i \in {j \in DOMAIN ledger : Passes(j, f)}}

TouchingAccount(a)    == {ActivityKey(i) : i \in {j \in DOMAIN ledger : Touches(j, a)}}
LegacyObservations(a) == {LegacyKey(row) : row \in {r \in LegacyRows : r.account = a}}
StateChanges(a)       == {StateKey(n) : n \in {m \in DOMAIN states : /\ states[m].account = a
                                                                    /\ states[m].at > 0}}

\* get_account_timeline_in_tx: the four sources of a timeline.
Timeline(a) == {OriginKey} \cup TouchingAccount(a) \cup LegacyObservations(a) \cup StateChanges(a)

\* What the walk would list if its pages had no limit.
ItemsOf(w) == IF w.view = "list" THEN Listed(w.filter) ELSE Timeline(w.account)

\* Mutant of IsBelow: the cursor holds on to the time alone.
IsEarlier(x, cursor) == x[1] < cursor[1]

\* The comparison of list_activities_filtered and of the timeline's retain.
IsBelow(x, cursor) == Precedes(x, cursor)

Below(items, cursor) == {x \in items : IsBelow(x, cursor)}
Nth(items, n) == CHOOSE x \in items : Cardinality({y \in items : Precedes(x, y)}) = n - 1
PageOf(items) == [n \in 1 .. Min({PageLimit, Cardinality(items)}) |-> Nth(items, n)]
HasMore(items) == Cardinality(items) > PageLimit

\* A page is appended to what the client has; its last item is the next cursor.
TakePage(w, rest) ==
  walk' = [w EXCEPT !.seen = @ \o PageOf(rest), !.more = HasMore(rest)]

Seen == {walk.seen[n] : n \in DOMAIN walk.seen}

NextCursor(w) == w.seen[Len(w.seen)]

\* The first page of a walk; `begun` remembers what there was to list.
Begin(w) ==
  /\ walk = NoWalk
  /\ TakePage([w EXCEPT !.begun = ItemsOf(w)], ItemsOf(w))
  /\ UNCHANGED states

ListActivities(f) ==
  Begin([view |-> "list", filter |-> f, account |-> Unset,
         seen |-> <<>>, more |-> TRUE, begun |-> {}])

GetAccountTimeline(a) ==
  Begin([view |-> "timeline", filter |-> Unset, account |-> a,
         seen |-> <<>>, more |-> TRUE, begun |-> {}])

NextPage ==
  /\ walk # NoWalk /\ walk.more
  /\ TakePage(walk, Below(ItemsOf(walk), NextCursor(walk)))
  /\ UNCHANGED states

Leave == walk # NoWalk /\ walk' = NoWalk /\ UNCHANGED states

-----------------------------------------------------------------------------
(* Commands between two pages                                               *)

\* Archiving and restoring an account writes a row the timeline shows.
ArchiveAccount(a) ==
  /\ Len(states) < MaxChanges
  /\ Archive(a)
  /\ states' = Append(states, [account |-> a, at |-> now, after |-> Len(ledger)])
  /\ UNCHANGED walk

Command == (Posting \/ Reverse \/ Correct \/ Tick) /\ UNCHANGED <<states, walk>>

QueriesInit == Init /\ states = <<>> /\ walk = NoWalk

Pages ==
  \/ \E f \in Filters : ListActivities(f)
  \/ \E a \in Accounts : GetAccountTimeline(a)
  \/ NextPage
  \/ Leave

\* What else may happen to the ledger between two pages.
Meanwhile ==
  /\ \/ \E e \in Endpoints : CreateAtZero(e)
     \/ \E h \in Archivable \cap Holdings : Archive(h)
     \/ RebuildSnapshots
  /\ UNCHANGED <<states, walk>>

queryVars   == <<vars, states, walk>>
QueriesNext ==
  \/ Command
  \/ Meanwhile
  \/ \E a \in Archivable \cap Accounts : ArchiveAccount(a)
  \/ Pages /\ UNCHANGED vars
QueriesSpec == QueriesInit /\ [][QueriesNext]_queryVars

-----------------------------------------------------------------------------
(* Properties                                                               *)

\* A walk that has come to its end has listed, in order and once, every item
\* that was there to list when it began, whatever was posted, reversed,
\* corrected or archived between its pages; and nothing that is not there.
PagesListOnce ==
  walk # NoWalk =>
    /\ \A m, n \in DOMAIN walk.seen : m < n => Precedes(walk.seen[n], walk.seen[m])
    /\ Seen \subseteq ItemsOf(walk)
    /\ ~walk.more => walk.begun \subseteq Seen

\* What the page says of an Activity holds elsewhere: it is found under the
\* classification its header shows, though the filter has a table of its own in
\* SQL; and what the page offers to reverse or to correct, the ledger accepts.
HeaderIsTrue ==
  \A i \in DOMAIN ledger :
    /\ Passes(i, [from |-> 0, to |-> Day(Horizon), kind |-> Unset,
                  account |-> Unset, class |-> HeaderClass(i)])
    /\ Offered(i) => ChainHead(i)

\* What the ledger would accept, the page offers: the latest replacement of a
\* chain can itself be corrected.
HeadIsOffered == \A i \in DOMAIN ledger : ChainHead(i) => Offered(i)

\* An Activity is found under the classification of each of its legs.
FilterFindsLegs ==
  \A i \in DOMAIN ledger : \A k \in DOMAIN ledger[i].legs :
    Passes(i, [from |-> 0, to |-> Day(Horizon), kind |-> Unset, account |-> Unset,
               class |-> Classify(ledger[i].kind, Role(i, k))])
=============================================================================
