----------------------------- MODULE MarketData -----------------------------
(***************************************************************************)
(* Quotes, the preference that selects among them, and the refresh from     *)
(* providers: application/quote_service.rs, refresh_service.rs,             *)
(* instrument_service.rs, and the selection that valuation_service.rs makes *)
(* now and historical_valuation_service.rs makes for a past day.            *)
(*                                                                         *)
(* A quote is append-only.  An instrument has one line of quotes, a pair of *)
(* currencies one for each direction, under one preference.  Prices do not  *)
(* matter here: which quote is selected does.  Time counts in local days;   *)
(* the instants of a day are told apart by the order of insertion.          *)
(*                                                                         *)
(* A refresh reads its targets in one transaction, then asks the provider   *)
(* and saves each answer in a transaction of its own, some at a time; every *)
(* command of the user may commit in between.  The provider is external: it *)
(* may answer anything, with any quoted_at, or not at all.                  *)
(***************************************************************************)
EXTENDS Naturals, Sequences, FiniteSetsExt

CONSTANTS
  Instruments,    \* instruments of the household
  Pairs,          \* unordered currency pairs
  Held,           \* instruments held in active accounts that count as investments
  Required,       \* pairs needed to convert what counts in the net worth
  Symbols,        \* provider symbols
  None,           \* no symbol, no preference row
  Calls,          \* refresh commands that may be in flight at once
  Batch,          \* MAX_CONCURRENCY
  Horizon,        \* bound on the days
  MaxQuotes,      \* bound on the quotes
  MaxObservations \* bound on the preference observations

Subjects == Instruments \cup Pairs
Days     == 0 .. Horizon

ASSUME MarketConstants ==
  /\ IsFiniteSet(Instruments) /\ Held \subseteq Instruments /\ Required \subseteq Pairs
  /\ Batch \in Nat \ {0} /\ Horizon \in Nat
  /\ None \notin {"manual", "provider"}
  /\ MaxQuotes \in Nat /\ MaxObservations \in Nat

VARIABLES
  today,       \* the current local date
  quotes,      \* instrument_quotes and fx_quotes, in order of insertion
  preference,  \* instruments.quote_preference; fx_quote_preferences or None
  observed,    \* the two preference observation tables, in order of insertion
  symbol,      \* instruments.provider_symbol
  archived,    \* the archived instruments
  dirtyFrom,   \* history_snapshot_state.dirty_from
  taken,       \* closed day -> the quote its latest snapshot used, per subject
  refresh      \* call -> the items to refresh, and those asked for

rows == <<quotes, preference, observed, symbol, archived, dirtyFrom>>
vars == <<today, rows, taken, refresh>>

-----------------------------------------------------------------------------
(* Selection                                                                 *)

Quote(s, line, source, at) ==
  [subject |-> s, line |-> line, source |-> source, at |-> at]
NoQuote == 0

Lines(s) == IF s \in Pairs THEN {"direct", "inverse"} ELSE {"direct"}

\* Ordered by quoted_at, then by insertion.
Latest(ks) ==
  IF ks = {} THEN NoQuote
  ELSE CHOOSE k \in ks :
         \A j \in ks : quotes[j].at < quotes[k].at \/ (quotes[j].at = quotes[k].at /\ j <= k)

OnLine(s, line, source, cutoff) ==
  Latest({k \in DOMAIN quotes :
            /\ quotes[k].subject = s /\ quotes[k].line = line
            /\ quotes[k].source = source /\ quotes[k].at <= cutoff})

\* The direct line of a pair comes before the inverse; no other source is used.
Selected(s, source, cutoff) ==
  LET direct == OnLine(s, "direct", source, cutoff)
  IN  IF direct # NoQuote THEN direct ELSE OnLine(s, "inverse", source, cutoff)

\* A pair without a row is manual.
PreferenceOf(s) == IF preference[s] = None THEN "manual" ELSE preference[s]

\* An instrument without an observation so far falls back to its column.
PreferenceAt(s, day) ==
  LET mine == {k \in DOMAIN observed : observed[k].subject = s /\ observed[k].at <= day}
  IN  IF mine # {} THEN observed[Max(mine)].source
      ELSE IF s \in Instruments THEN preference[s] ELSE "manual"

\* ValuationSnapshot::load has no cutoff, reconstruct_from_origin has.
Current(s)       == Selected(s, PreferenceOf(s), Horizon)
Historic(s, day) == Selected(s, PreferenceAt(s, day), day)

-----------------------------------------------------------------------------
(* Commands of the user                                                      *)

\* Mutant of MarkDirty: from today, not from the day of the quote.
MarkToday(day) == dirtyFrom' = Min({dirtyFrom, today})

MarkDirty(day) == dirtyFrom' = Min({dirtyFrom, day})

Observation(s, source) == [subject |-> s, source |-> source, at |-> today]

\* Mutant of Prefer: a change of the preference is not logged.
PreferUnlogged(s, source) ==
  /\ preference' = [preference EXCEPT ![s] = source]
  /\ UNCHANGED observed

\* A preference is logged when it changes, and only then.
Prefer(s, source) ==
  /\ preference' = [preference EXCEPT ![s] = source]
  /\ observed' = IF preference[s] = source THEN observed
                 ELSE Append(observed, Observation(s, source))

Insert(s, line, source, at) ==
  /\ Len(quotes) < MaxQuotes
  /\ quotes' = Append(quotes, Quote(s, line, source, at))

\* append_manual_instrument_quote, append_manual_fx_quote: entering a quote also
\* selects Manual.
AppendManual(s, line, at) ==
  /\ Insert(s, line, "manual", at)
  /\ Prefer(s, "manual")
  /\ MarkDirty(at)
  /\ UNCHANGED <<symbol, archived>>

\* A quote of an imported file leaves the preference alone.
AppendImported(s, line, at) ==
  /\ s \notin archived
  /\ Insert(s, line, "manual", at)
  /\ MarkDirty(at)
  /\ UNCHANGED <<preference, observed, symbol, archived>>

\* An equal preference changes nothing but the row of a pair.
SetPreference(s, source) ==
  /\ preference[s] # source
  /\ Prefer(s, source)
  /\ MarkDirty(today)
  /\ UNCHANGED <<quotes, symbol, archived>>

\* The form of an instrument holds its provider symbol and its preference.
UpdateInstrument(i, sym, source) ==
  /\ <<symbol[i], preference[i]>> # <<sym, source>>
  /\ symbol' = [symbol EXCEPT ![i] = sym]
  /\ Prefer(i, source)
  /\ IF preference[i] # source THEN MarkDirty(today) ELSE UNCHANGED dirtyFrom
  /\ UNCHANGED <<quotes, archived>>

ArchiveInstrument(i) ==
  /\ archived' = IF i \in archived THEN archived \ {i} ELSE archived \cup {i}
  /\ UNCHANGED <<quotes, preference, observed, symbol, dirtyFrom>>

UserStep ==
  /\ \/ \E s \in Subjects, at \in Days : \E line \in Lines(s) :
          AppendManual(s, line, at) \/ AppendImported(s, line, at)
     \/ \E s \in Subjects, source \in {"manual", "provider"} : SetPreference(s, source)
     \/ \E i \in Instruments, sym \in Symbols \cup {None}, source \in {"manual", "provider"} :
          UpdateInstrument(i, sym, source)
     \/ \E i \in Instruments : ArchiveInstrument(i)
  /\ Len(observed') <= MaxObservations
  /\ UNCHANGED <<today, taken, refresh>>

-----------------------------------------------------------------------------
(* The refresh                                                               *)

\* What the read transaction saw of a target.
Target(s) ==
  [subject |-> s, source |-> preference[s],
   symbol |-> IF s \in Instruments THEN symbol[s] ELSE None]

Idle == [queue |-> {}, asked |-> {}]
Busy(c) == refresh[c] # Idle

Begin(c, targets) ==
  /\ ~Busy(c)
  /\ refresh' = [refresh EXCEPT ![c].queue = {Target(s) : s \in targets}]
  /\ UNCHANGED <<today, rows, taken>>

RefreshInstrument(c) == \E i \in Instruments : Begin(c, {i})

\* The pairs that are required, whatever their preference.
RefreshRequiredFx(c) == Begin(c, Required)

RequiredInstruments ==
  {i \in Held : preference[i] = "provider" /\ symbol[i] # None /\ i \notin archived}
ProviderPairs == {p \in Required : PreferenceOf(p) = "provider"}

RefreshAll(c) == Begin(c, RequiredInstruments \cup ProviderPairs)

\* A manual instrument is reported as done, one without a symbol as failed.
Fetches(item) ==
  item.subject \in Pairs \/ (item.source = "provider" /\ item.symbol # None)

\* Instruments go before pairs.
NextOf(queue) ==
  LET instruments == {item \in queue : item.subject \in Instruments}
  IN  IF instruments # {} THEN instruments ELSE queue

\* The next chunk: its items are asked for together.
AskChunk(c) ==
  /\ refresh[c].asked = {} /\ refresh[c].queue # {}
  /\ \E chunk \in SUBSET NextOf(refresh[c].queue) :
       /\ Cardinality(chunk) = Min({Batch, Cardinality(NextOf(refresh[c].queue))})
       /\ refresh' = [refresh EXCEPT ![c].queue = @ \ chunk,
                                     ![c].asked = {item \in chunk : Fetches(item)}]
  /\ UNCHANGED <<today, rows, taken>>

Answered(c, item) == refresh' = [refresh EXCEPT ![c].asked = @ \ {item}]

\* Mutant of SaveAnswer: the answer also selects the provider.
SaveAndSelect(s, line, at) ==
  Insert(s, line, "provider", at) /\ Prefer(s, "provider") /\ UNCHANGED dirtyFrom

\* persist_instrument_quote, persist_fx_quote: one insertion, whatever has
\* happened to the subject since it was read.
SaveAnswer(s, line, at) ==
  Insert(s, line, "provider", at) /\ UNCHANGED <<preference, observed, dirtyFrom>>

ProviderAnswers(c) ==
  \E item \in refresh[c].asked, at \in 0 .. today : \E line \in Lines(item.subject) :
    /\ SaveAnswer(item.subject, line, at)
    /\ Len(observed') <= MaxObservations
    /\ Answered(c, item)
    /\ UNCHANGED <<today, symbol, archived, taken>>

\* An error, an answer in another currency, or none before PROVIDER_TIMEOUT.
ProviderFails(c) ==
  \E item \in refresh[c].asked :
    /\ Answered(c, item)
    /\ UNCHANGED <<today, rows, taken>>

-----------------------------------------------------------------------------
(* The calendar and the snapshots                                            *)

Midnight ==
  /\ today < Horizon
  /\ today' = today + 1
  /\ UNCHANGED <<rows, taken, refresh>>

\* A rebuild without interruption: HistorySnapshots has the interrupted one.
RebuildSnapshots ==
  /\ dirtyFrom < today
  /\ taken' = [d \in Days |-> IF d \in dirtyFrom .. today - 1
                              THEN [s \in Subjects |-> Historic(s, d)] ELSE taken[d]]
  /\ dirtyFrom' = today
  /\ UNCHANGED <<today, quotes, preference, observed, symbol, archived, refresh>>

Init ==
  /\ today = 0 /\ quotes = <<>> /\ archived = {} /\ dirtyFrom = 0
  /\ preference \in [Subjects -> {"manual", "provider", None}]
  /\ \A i \in Instruments : preference[i] # None
  /\ \A p \in Pairs : preference[p] = None
  /\ symbol \in [Instruments -> Symbols \cup {None}]
  /\ \E order \in {f \in [1 .. Cardinality(Instruments) -> Instruments] :
                     {f[k] : k \in DOMAIN f} = Instruments} :
       observed = [k \in DOMAIN order |->
                     [subject |-> order[k], source |-> preference[order[k]], at |-> 0]]
  /\ taken = [d \in Days |-> [s \in Subjects |-> NoQuote]]
  /\ refresh = [c \in Calls |-> Idle]

RefreshStep(c) == AskChunk(c) \/ ProviderAnswers(c) \/ ProviderFails(c)

Next ==
  \/ UserStep \/ Midnight \/ RebuildSnapshots
  \/ \E c \in Calls : RefreshInstrument(c) \/ RefreshRequiredFx(c) \/ RefreshAll(c)
  \/ \E c \in Calls : RefreshStep(c)

\* A refresh that can go on does, and a timer that is set runs out.
Fairness == \A c \in Calls : WF_vars(AskChunk(c)) /\ WF_vars(ProviderFails(c))

Spec == Init /\ [][Next]_vars /\ Fairness

-----------------------------------------------------------------------------
(* Properties                                                                *)

Quotes ==
  [subject : Subjects, line : {"direct", "inverse"}, source : {"manual", "provider"}, at : Days]
Observations == [subject : Subjects, source : {"manual", "provider"}, at : Days]
RefreshItems ==
  [subject : Subjects, source : {"manual", "provider", None}, symbol : Symbols \cup {None}]

TypeOK ==
  /\ today \in Days /\ dirtyFrom \in Days
  /\ quotes \in Seq(Quotes)
  /\ preference \in [Subjects -> {"manual", "provider", None}]
  /\ observed \in Seq(Observations)
  /\ symbol \in [Instruments -> Symbols \cup {None}]
  /\ archived \subseteq Instruments
  /\ taken \in [Days -> [Subjects -> 0 .. Len(quotes)]]
  /\ refresh \in [Calls -> [queue : SUBSET RefreshItems, asked : SUBSET RefreshItems]]

\* Valuing now and reconstructing this very day select the same quotes, unless
\* the user has entered one dated in the future: current_matches_historical_at.
\* It rests on every change of a preference being logged when it happens.
CurrentMatchesHistory ==
  \A s \in Subjects :
    \/ Current(s) = Historic(s, today)
    \/ Current(s) # NoQuote /\ quotes[Current(s)].at > today

\* A snapshot before the marker that a rebuild would change is due to a provider
\* quote dated on or before its day: manual quotes and preferences, which mark
\* the history from the day they are about, never leave a wrong snapshot.
StaleOnlyByProvider ==
  \A d \in Days, s \in Subjects :
    d < dirtyFrom /\ d < today /\ taken[d][s] # Historic(s, d) =>
      quotes[Historic(s, d)].source = "provider"

\* What a refresh saves never changes the value of a subject the user values by
\* hand, not even one that was switched to Manual while the provider was asked;
\* and it never switches a preference.
RefreshKeepsManual ==
  [][refresh' # refresh =>
       \A s \in Subjects : PreferenceOf(s) = "manual" =>
         PreferenceOf(s)' = "manual" /\ Current(s)' = Current(s)]_vars

\* Every refresh returns, with a provider that never answers too.
RefreshReturns == \A c \in Calls : Busy(c) ~> ~Busy(c)
=============================================================================
