----------------------------- MODULE Benchmarks -----------------------------
(***************************************************************************)
(* Manually kept benchmarks and the comparison of a closed period with one:  *)
(* application/benchmark_service.rs, over the FX quotes and preferences of   *)
(* MarketData.                                                             *)
(*                                                                         *)
(* Levels are append-only and dated by local day, also in the future.  As    *)
(* with quotes, which level is selected matters, not its amount.  The return *)
(* of the portfolio that the comparison sets beside that of the benchmark is *)
(* the business of Analytics.                                              *)
(***************************************************************************)
EXTENDS MarketData, Integers

CONSTANTS
  Series,       \* benchmarks that may be created
  PairOf,       \* benchmark -> the pair of its currency and the base, or None
  CarryWindows, \* maximum carry, in days
  MaxLevels     \* bound on the levels

ASSUME BenchmarkConstants ==
  /\ PairOf \in [Series -> Pairs \cup {None}] /\ None \notin Series
  /\ CarryWindows \subseteq Nat /\ MaxLevels \in Nat

VARIABLES
  benchmarks,   \* benchmark -> [carry, archived], or None
  levels,       \* benchmark_observations, in order of insertion
  chosen        \* household_benchmark_preferences: the default, or None

benchmarkVars == <<benchmarks, levels, chosen>>

Created(b) == benchmarks[b] # None

-----------------------------------------------------------------------------
(* Selection                                                                 *)

\* Mutant of LevelAt: whatever was appended last.
NewestLevel(b, target) == Max({0} \cup {k \in DOMAIN levels : levels[k].of = b})

\* select_benchmark_observation_at: by date, then by insertion.
LevelAt(b, target) ==
  LET known == {k \in DOMAIN levels : levels[k].of = b /\ levels[k].on <= target}
      last  == {k \in known : \A j \in known : levels[j].on <= levels[k].on}
  IN  Max({0} \cup last)

\* select_eligible_observation: no older than the carry window.
Eligible(b, target) ==
  LET k == LevelAt(b, target)
  IN  CASE k = 0 -> "missing"
        [] k # 0 /\ target - levels[k].on > benchmarks[b].carry -> "stale"
        [] OTHER -> "eligible"

\* preference_at of the comparison: without an observation so far it falls back
\* to the preference of now, where the valuation of a past day takes Manual.
SourceAt(p, day) ==
  LET mine == {k \in DOMAIN observed : observed[k].subject = p /\ observed[k].at <= day}
  IN  IF mine # {} THEN observed[Max(mine)].source ELSE PreferenceOf(p)

\* native_to_base_rate, none needed in the base currency.
RateAt(b, day) == Selected(PairOf[b], SourceAt(PairOf[b], day), day)
HasRate(b, day) == PairOf[b] = None \/ RateAt(b, day) # NoQuote

Withheld(reason, days) == [answer |-> reason, blocking |-> days]

\* selection_unavailable and what comes after it, for the last closed day `e`.
CompareSelected(b, s, e) ==
  LET ends    == {s, e}
      missing == {d \in ends : Eligible(b, d) = "missing"}
      stale   == {d \in ends : Eligible(b, d) = "stale"}
  IN  CASE missing # {} -> Withheld("missing_endpoint", missing)
        [] missing = {} /\ stale # {} -> Withheld("stale_carry", stale)
        [] missing \cup stale = {} /\ ~HasRate(b, s) -> Withheld("missing_fx", {s})
        [] missing \cup stale = {} /\ HasRate(b, s) /\ ~HasRate(b, e) -> Withheld("missing_fx", {e})
        [] OTHER -> [answer |-> "return", level |-> [d \in ends |-> LevelAt(b, d)],
                     rate |-> [d \in ends |-> IF PairOf[b] = None THEN 0 ELSE RateAt(b, d)]]

\* get_benchmark_comparison: the one asked for, or else the default, over the
\* part of the period that is closed.
Comparison(asked, s, end) ==
  LET b == IF asked # None THEN asked ELSE chosen
      e == Min({end, today - 1})
  IN  CASE e < s -> Withheld("period_unavailable", {})
        [] e >= s /\ b = None -> Withheld("not_selected", {})
        [] OTHER -> CompareSelected(b, s, e)

-----------------------------------------------------------------------------
(* Commands                                                                  *)

CreateBenchmark(b, carry) ==
  /\ ~Created(b)
  /\ benchmarks' = [benchmarks EXCEPT ![b] = [carry |-> carry, archived |-> FALSE]]
  /\ UNCHANGED <<vars, levels, chosen>>

\* Currency and kind of series are immutable.
UpdateBenchmark(b, carry) ==
  /\ Created(b)
  /\ benchmarks' = [benchmarks EXCEPT ![b].carry = carry]
  /\ UNCHANGED <<vars, levels, chosen>>

SetBenchmarkArchived(b) ==
  /\ Created(b)
  /\ benchmarks' = [benchmarks EXCEPT ![b].archived = ~@]
  /\ UNCHANGED <<vars, levels, chosen>>

AppendLevel(b, on) ==
  /\ Created(b) /\ ~benchmarks[b].archived
  /\ Len(levels) < MaxLevels
  /\ levels' = Append(levels, [of |-> b, on |-> on])
  /\ UNCHANGED <<vars, benchmarks, chosen>>

\* An archived benchmark stays the default, but is not chosen anew.
SetDefaultBenchmark(b) ==
  /\ Created(b)
  /\ benchmarks[b].archived => chosen = b
  /\ chosen' = b
  /\ UNCHANGED <<vars, benchmarks, levels>>

BenchmarksInit == benchmarks = [b \in Series |-> None] /\ levels = <<>> /\ chosen = None

Benchmarking ==
  \E b \in Series :
    \/ \E carry \in CarryWindows : CreateBenchmark(b, carry) \/ UpdateBenchmark(b, carry)
    \/ \E on \in Days : AppendLevel(b, on)
    \/ SetBenchmarkArchived(b) \/ SetDefaultBenchmark(b)

BenchmarksNext == Benchmarking \/ (Next /\ UNCHANGED benchmarkVars)
BenchmarksSpec == Init /\ BenchmarksInit /\ [][BenchmarksNext]_<<vars, benchmarkVars>>

-----------------------------------------------------------------------------
(* Properties                                                                *)

\* What was recorded about the period from `s` to `e` and the days before.
Recorded(b, s, e) ==
  LET upTo(log) == {k \in DOMAIN log : log[k].at <= e}
      told       == {k \in upTo(observed) : observed[k].subject = PairOf[b]}
  IN  [carry       |-> benchmarks[b].carry,
       levels      |-> {k \in DOMAIN levels : levels[k].of = b /\ levels[k].on <= e},
       quotes      |-> upTo(quotes),
       preferences |-> told,
       current     |-> IF PairOf[b] # None /\ \A k \in told : observed[k].at > s THEN PreferenceOf(PairOf[b]) ELSE None]

\* The comparison of a closed period with a given benchmark is final but for what
\* is recorded about days of that period or before: a later level or quote, a
\* later preference, an archive, another default and the passing of days leave it,
\* so it never takes up a later observation or a future quote.  A preference of
\* now counts when none was logged by the first day of the period.
ComparisonIsFinal ==
  [][\A b \in Series, s \in Days, e \in Days :
       Created(b) /\ s <= e /\ e < today /\ Recorded(b, s, e)' = Recorded(b, s, e) =>
         Comparison(b, s, e)' = Comparison(b, s, e)]_<<today, benchmarkVars, quotes, preference, observed>>

\* The FX of a closed day is that of the household's value on this day.
ConvertsAsValued ==
  \A b \in Series, d \in Days :
    d < today /\ PairOf[b] # None => RateAt(b, d) = Historic(PairOf[b], d)
=============================================================================
