-------------------------- MODULE MarketDataProofs --------------------------
(***************************************************************************)
(* Proofs about MarketData, for any instruments, pairs, providers, bounds    *)
(* and number of refreshes in flight: which quote is selected now and for a  *)
(* past day, what the answer of a provider can change, and what is derived   *)
(* from them: the reminders of Maintenance, the comparisons of Benchmarks.   *)
(***************************************************************************)
EXTENDS Maintenance, Benchmarks, SumTheorems

-----------------------------------------------------------------------------
(* The selection, of any sequence of quotes.                                 *)

Newer(qs, j, k) == qs[j].at < qs[k].at \/ (qs[j].at = qs[k].at /\ j <= k)

LatestOf(qs, ks) ==
  IF ks = {} THEN NoQuote
  ELSE CHOOSE k \in ks : \A j \in ks : qs[j].at < qs[k].at \/ (qs[j].at = qs[k].at /\ j <= k)

Line(qs, s, line, source, cutoff) ==
  {k \in DOMAIN qs : /\ qs[k].subject = s /\ qs[k].line = line
                     /\ qs[k].source = source /\ qs[k].at <= cutoff}

OnLineOf(qs, s, line, source, cutoff) == LatestOf(qs, Line(qs, s, line, source, cutoff))

SelectedOf(qs, s, source, cutoff) ==
  LET direct == OnLineOf(qs, s, "direct", source, cutoff)
  IN  IF direct # NoQuote THEN direct ELSE OnLineOf(qs, s, "inverse", source, cutoff)

LEMMA SelectionIs ==
  ASSUME NEW s, NEW source, NEW cutoff
  PROVE  /\ Selected(s, source, cutoff) = SelectedOf(quotes, s, source, cutoff)
         /\ Selected(s, source, cutoff)' = SelectedOf(quotes', s, source, cutoff)
BY DEF Selected, SelectedOf, OnLine, OnLineOf, Latest, LatestOf, Line

LEMMA QuoteTyped ==
  ASSUME NEW qs \in Seq(Quotes), NEW ks \in SUBSET DOMAIN qs, NEW k \in ks
  PROVE  k \in Nat /\ qs[k].at \in 0 .. Horizon /\ qs[k].at \in Nat
<1>1. k \in DOMAIN qs /\ k \in Nat OBVIOUS
<1>2. qs[k] \in Quotes BY <1>1
<1> QED BY <1>1, <1>2, MarketConstants DEF Quotes, Days

LEMMA LatestExists ==
  ASSUME NEW qs \in Seq(Quotes), NEW ks \in SUBSET DOMAIN qs, ks # {}
  PROVE  \E k \in ks : \A j \in ks : Newer(qs, j, k)
<1> USE MarketConstants
<1> DEFINE ats == {qs[k].at : k \in ks}
<1>1. \A k \in ks : k \in Nat /\ qs[k].at \in 0 .. Horizon BY QuoteTyped
<1>2. ats \in SUBSET (0 .. Horizon) /\ ats # {} BY <1>1
<1>3. PICK m \in ats : \A n \in ats : n <= m BY <1>2, GreatestUpTo
<1> DEFINE last == {k \in ks : qs[k].at = m}
<1>4. last \in SUBSET (0 .. Len(qs)) /\ last # {} /\ Len(qs) \in Nat OBVIOUS
<1>5. PICK k \in last : \A j \in last : j <= k BY <1>4, GreatestUpTo
<1>6. ASSUME NEW j \in ks PROVE Newer(qs, j, k)
  <2>1. qs[j].at <= m /\ qs[j].at \in Nat /\ m \in Nat BY <1>1, <1>2, <1>3
  <2>2. CASE qs[j].at = m BY <1>5, <2>2 DEF Newer
  <2>3. CASE qs[j].at # m BY <1>5, <2>1, <2>3 DEF Newer
  <2> QED BY <2>2, <2>3
<1> QED BY <1>5, <1>6

LEMMA LatestIs ==
  ASSUME NEW qs \in Seq(Quotes), NEW ks \in SUBSET DOMAIN qs, ks # {}
  PROVE  LatestOf(qs, ks) \in ks /\ \A j \in ks : Newer(qs, j, LatestOf(qs, ks))
<1>1. LatestOf(qs, ks) = CHOOSE k \in ks : \A j \in ks : Newer(qs, j, k)
  BY DEF LatestOf, Newer
<1>2. \E k \in ks : \A j \in ks : Newer(qs, j, k) BY LatestExists
<1> QED BY <1>1, <1>2

LEMMA LatestUnique ==
  ASSUME NEW qs \in Seq(Quotes), NEW ks \in SUBSET DOMAIN qs,
         NEW k \in ks, \A j \in ks : Newer(qs, j, k)
  PROVE  LatestOf(qs, ks) = k
<1> DEFINE l == LatestOf(qs, ks)
<1>1. l \in ks /\ Newer(qs, k, l) /\ Newer(qs, l, k) BY LatestIs
<1>2. l \in Nat /\ k \in Nat /\ qs[l].at \in Nat /\ qs[k].at \in Nat
  BY <1>1, QuoteTyped
<1> QED BY <1>1, <1>2 DEF Newer

LEMMA LatestType ==
  ASSUME NEW qs \in Seq(Quotes), NEW ks \in SUBSET DOMAIN qs
  PROVE  LatestOf(qs, ks) \in 0 .. Len(qs) /\ (LatestOf(qs, ks) # NoQuote => LatestOf(qs, ks) \in ks)
<1>1. CASE ks = {} BY <1>1 DEF LatestOf, NoQuote
<1>2. CASE ks # {} BY <1>2, LatestIs
<1> QED BY <1>1, <1>2

\* A quote that is added is selected, or what was selected before still is.
LEMMA LatestAfterAppend ==
  ASSUME NEW qs \in Seq(Quotes), NEW q \in Quotes, NEW ks \in SUBSET DOMAIN qs
  PROVE  /\ LatestOf(Append(qs, q), ks) = LatestOf(qs, ks)
         /\ LatestOf(Append(qs, q), ks \cup {Len(qs) + 1}) \in {LatestOf(qs, ks), Len(qs) + 1}
<1> DEFINE rs == Append(qs, q)
           n == Len(qs) + 1
<1>1. /\ rs \in Seq(Quotes) /\ n \in Nat /\ n \in DOMAIN rs /\ DOMAIN qs \subseteq DOMAIN rs
      /\ \A k \in DOMAIN qs : rs[k] = qs[k]
  OBVIOUS
<1>2. \A j, k \in DOMAIN qs : Newer(rs, j, k) <=> Newer(qs, j, k) BY <1>1 DEF Newer
<1> HIDE DEF rs, n
<1>3. LatestOf(rs, ks) = LatestOf(qs, ks)
  <2>1. CASE ks = {} BY <2>1 DEF LatestOf
  <2>2. CASE ks # {}
    <3>1. /\ LatestOf(qs, ks) \in ks
          /\ \A j \in ks : Newer(qs, j, LatestOf(qs, ks))
      BY <2>2, LatestIs
    <3>2. ks \in SUBSET DOMAIN rs BY <1>1
    <3>3. \A j \in ks : Newer(rs, j, LatestOf(qs, ks)) BY <1>2, <3>1
    <3> QED BY <1>1, <3>1, <3>2, <3>3, LatestUnique
  <2> QED BY <2>1, <2>2
<1>4. LatestOf(rs, ks \cup {n}) \in {LatestOf(qs, ks), n}
  <2> DEFINE l == LatestOf(rs, ks \cup {n})
  <2>1. l \in ks \cup {n} /\ \A j \in ks \cup {n} : Newer(rs, j, l)
    <3>1. ks \cup {n} \in SUBSET DOMAIN rs /\ ks \cup {n} # {} BY <1>1
    <3> QED BY <1>1, <3>1, LatestIs
  <2>2. CASE l # n
    <3>1. l \in ks /\ \A j \in ks : Newer(qs, j, l) BY <1>2, <2>1, <2>2
    <3> QED BY <3>1, LatestUnique
  <2> QED BY <2>2
<1> QED BY <1>3, <1>4 DEF rs, n

LEMMA LineAfterAppend ==
  ASSUME NEW qs \in Seq(Quotes), NEW q \in Quotes, NEW s, NEW line, NEW source, NEW cutoff
  PROVE  /\ Line(qs, s, line, source, cutoff) \in SUBSET DOMAIN qs
         /\ Line(Append(qs, q), s, line, source, cutoff) =
              Line(qs, s, line, source, cutoff) \cup
              IF q.subject = s /\ q.line = line /\ q.source = source /\ q.at <= cutoff
              THEN {Len(qs) + 1} ELSE {}
<1>1. /\ DOMAIN Append(qs, q) = DOMAIN qs \cup {Len(qs) + 1} /\ Len(qs) + 1 \notin DOMAIN qs
      /\ \A k \in DOMAIN qs : Append(qs, q)[k] = qs[k]
      /\ Append(qs, q)[Len(qs) + 1] = q
  OBVIOUS
<1> DEFINE rs == Append(qs, q)
           n == Len(qs) + 1
<1> HIDE DEF rs, n
<1>2. /\ DOMAIN rs = DOMAIN qs \cup {n} /\ n \notin DOMAIN qs
      /\ \A k \in DOMAIN qs : rs[k] = qs[k]
      /\ rs[n] = q
  BY <1>1 DEF rs, n
<1>3. Line(rs, s, line, source, cutoff) =
        Line(qs, s, line, source, cutoff) \cup
        IF q.subject = s /\ q.line = line /\ q.source = source /\ q.at <= cutoff
        THEN {n} ELSE {}
  BY <1>2 DEF Line
<1> QED BY <1>3 DEF rs, n, Line

LEMMA SelectedType ==
  ASSUME NEW qs \in Seq(Quotes), NEW s, NEW source, NEW cutoff
  PROVE  LET k == SelectedOf(qs, s, source, cutoff)
         IN  /\ k \in 0 .. Len(qs)
             /\ k # NoQuote => k \in DOMAIN qs /\ qs[k].source = source /\ qs[k].at <= cutoff
<1>1. \A line \in {"direct", "inverse"} : Line(qs, s, line, source, cutoff) \in SUBSET DOMAIN qs
  BY DEF Line
<1>2. ASSUME NEW line \in {"direct", "inverse"}
      PROVE  LET k == OnLineOf(qs, s, line, source, cutoff)
             IN  /\ k \in 0 .. Len(qs)
                 /\ k # NoQuote => k \in DOMAIN qs /\ qs[k].source = source /\ qs[k].at <= cutoff
  <2>1. LET k == OnLineOf(qs, s, line, source, cutoff)
        IN  k \in 0 .. Len(qs) /\ (k # NoQuote => k \in Line(qs, s, line, source, cutoff))
    BY <1>1, LatestType DEF OnLineOf
  <2> QED BY <2>1 DEF Line
<1> QED BY <1>2 DEF SelectedOf

LEMMA SelectedAfterAppend ==
  ASSUME NEW qs \in Seq(Quotes), NEW q \in Quotes, NEW s, NEW source, NEW cutoff
  PROVE  /\ ~(q.subject = s /\ q.source = source /\ q.at <= cutoff) =>
              SelectedOf(Append(qs, q), s, source, cutoff) = SelectedOf(qs, s, source, cutoff)
         /\ SelectedOf(Append(qs, q), s, source, cutoff) \in
              {SelectedOf(qs, s, source, cutoff), Len(qs) + 1}
<1> DEFINE rs == Append(qs, q)
           n == Len(qs) + 1
<1>1. ASSUME NEW line \in {"direct", "inverse"}
      PROVE  /\ OnLineOf(rs, s, line, source, cutoff) \in {OnLineOf(qs, s, line, source, cutoff), n}
             /\ ~(q.subject = s /\ q.source = source /\ q.at <= cutoff) =>
                  OnLineOf(rs, s, line, source, cutoff) = OnLineOf(qs, s, line, source, cutoff)
  <2> DEFINE ks == Line(qs, s, line, source, cutoff)
             new == IF q.subject = s /\ q.line = line /\ q.source = source /\ q.at <= cutoff
                    THEN {n} ELSE {}
  <2>1. ks \in SUBSET DOMAIN qs /\ Line(rs, s, line, source, cutoff) = ks \cup new
    BY LineAfterAppend
  <2>2. LatestOf(rs, ks) = LatestOf(qs, ks) /\ LatestOf(rs, ks \cup {n}) \in {LatestOf(qs, ks), n}
    BY <2>1, LatestAfterAppend
  <2> HIDE DEF rs, n, ks
  <2>3. CASE new = {} BY <2>1, <2>2, <2>3 DEF OnLineOf, ks
  <2>4. CASE new # {}
    <3>1. new = {n} /\ (q.subject = s /\ q.source = source /\ q.at <= cutoff) BY <2>4
    <3> QED BY <2>1, <2>2, <3>1 DEF OnLineOf, ks
  <2> QED BY <2>3, <2>4
<1>2. n # NoQuote BY DEF NoQuote
<1> HIDE DEF rs, n
<1>3. /\ ~(q.subject = s /\ q.source = source /\ q.at <= cutoff) =>
           SelectedOf(rs, s, source, cutoff) = SelectedOf(qs, s, source, cutoff)
      /\ SelectedOf(rs, s, source, cutoff) \in {SelectedOf(qs, s, source, cutoff), n}
  BY <1>1, <1>2 DEF SelectedOf
<1> QED BY <1>3 DEF rs, n

-----------------------------------------------------------------------------
(* The preference of a day, of any sequence of observations.                 *)

Seen(obs, s, day) == {k \in DOMAIN obs : obs[k].subject = s /\ obs[k].at <= day}

SourceIn(obs, column, s, day) ==
  LET mine == Seen(obs, s, day)
  IN  IF mine # {} THEN obs[Max(mine)].source
      ELSE IF s \in Instruments THEN column[s] ELSE "manual"

LEMMA PreferenceIs ==
  ASSUME NEW s, NEW day
  PROVE  /\ PreferenceAt(s, day) = SourceIn(observed, preference, s, day)
         /\ PreferenceAt(s, day)' = SourceIn(observed', preference', s, day)
BY DEF PreferenceAt, SourceIn, Seen

LEMMA SeenLast ==
  ASSUME NEW obs \in Seq(Observations), NEW s, NEW day, Seen(obs, s, day) # {}
  PROVE  /\ Max(Seen(obs, s, day)) \in Seen(obs, s, day)
         /\ \A k \in Seen(obs, s, day) : k <= Max(Seen(obs, s, day))
<1>1. Seen(obs, s, day) \in SUBSET (0 .. Len(obs)) /\ Len(obs) \in Nat BY DEF Seen
<1> QED BY <1>1, MaxUpTo

-----------------------------------------------------------------------------
(* The invariant.                                                            *)

\* The log of the preferences is complete: the last observation of a subject has
\* its preference, only a pair without a row has none, and the log of an
\* instrument begins with the history.
Logged ==
  /\ \A k \in DOMAIN observed : observed[k].at <= today
  /\ \A s \in Subjects, k \in DOMAIN observed :
       observed[k].subject = s
       /\ (\A j \in DOMAIN observed : observed[j].subject = s => j <= k) =>
         observed[k].source = preference[s]
  /\ \A s \in Subjects : (\A k \in DOMAIN observed : observed[k].subject # s) =>
       preference[s] = None
  /\ \A i \in Instruments : \E k \in DOMAIN observed :
       observed[k].subject = i /\ observed[k].at = 0

\* A snapshot before the marker is right, or what a rebuild would take is a quote
\* of a provider.
Covered ==
  /\ dirtyFrom <= today
  /\ \A d \in Days, s \in Subjects : d < dirtyFrom =>
       \/ taken[d][s] = Historic(s, d)
       \/ Historic(s, d) # NoQuote /\ quotes[Historic(s, d)].source = "provider"

IInv == TypeOK /\ Logged /\ Covered

LEMMA Earlier ==
  ASSUME TypeOK
  PROVE  /\ today \in Nat /\ today <= Horizon /\ dirtyFrom \in Nat /\ dirtyFrom <= Horizon
         /\ quotes \in Seq(Quotes) /\ observed \in Seq(Observations)
         /\ \A k \in DOMAIN quotes : quotes[k] \in Quotes /\ quotes[k].at \in 0 .. Horizon
         /\ \A k \in DOMAIN observed : observed[k].at \in 0 .. Horizon
<1>1. /\ today \in Nat /\ today <= Horizon /\ dirtyFrom \in Nat /\ dirtyFrom <= Horizon
      /\ quotes \in Seq(Quotes) /\ observed \in Seq(Observations)
  BY MarketConstants DEF TypeOK, Days
<1>2. ASSUME NEW k \in DOMAIN quotes
      PROVE  quotes[k] \in Quotes /\ quotes[k].at \in 0 .. Horizon
  <2>1. quotes[k] \in Quotes BY <1>1
  <2> QED BY <2>1 DEF Quotes, Days
<1>3. ASSUME NEW k \in DOMAIN observed PROVE observed[k].at \in 0 .. Horizon
  <2>1. observed[k] \in Observations BY <1>1
  <2> QED BY <2>1 DEF Observations, Days
<1> QED BY <1>1, <1>2, <1>3

LEMMA HistoricIs ==
  ASSUME TypeOK, NEW s \in Subjects, NEW d \in Days
  PROVE  /\ Historic(s, d) = SelectedOf(quotes, s, PreferenceAt(s, d), d)
         /\ Historic(s, d) \in 0 .. Len(quotes)
         /\ Historic(s, d) # NoQuote => Historic(s, d) \in DOMAIN quotes
<1>1. Historic(s, d) = SelectedOf(quotes, s, PreferenceAt(s, d), d)
  BY SelectionIs DEF Historic
<1> QED BY <1>1, Earlier, SelectedType

\* The preference of today is the one in force.
LEMMA PreferenceToday ==
  ASSUME TypeOK, Logged, NEW s \in Subjects
  PROVE  PreferenceAt(s, today) = PreferenceOf(s)
<1> DEFINE mine == Seen(observed, s, today)
<1>1. mine = {k \in DOMAIN observed : observed[k].subject = s} BY DEF Seen, Logged
<1>2. CASE mine # {}
  <2>1. Max(mine) \in mine /\ \A k \in mine : k <= Max(mine) BY <1>2, Earlier, SeenLast
  <2>2. observed[Max(mine)].source = preference[s] BY <1>1, <2>1 DEF Logged
  <2>3. PreferenceAt(s, today) = preference[s] BY <1>2, <2>2, PreferenceIs DEF SourceIn
  <2>4. observed[Max(mine)] \in Observations BY <1>1, <2>1, Earlier
  <2>5. observed[Max(mine)].source \in {"manual", "provider"} BY <2>4 DEF Observations
  <2> QED BY <2>2, <2>3, <2>5, MarketConstants DEF PreferenceOf
<1>3. CASE mine = {}
  <2>1. preference[s] = None /\ s \notin Instruments BY <1>1, <1>3 DEF Logged
  <2> QED BY <1>3, <2>1, PreferenceIs DEF SourceIn, PreferenceOf
<1> QED BY <1>2, <1>3

-----------------------------------------------------------------------------
(* What a quote or an observation that is added leaves as it was.            *)

LEMMA SeenAfterAppend ==
  ASSUME NEW obs \in Seq(Observations), NEW o \in Observations, NEW column, NEW s, NEW d,
         ~(o.subject = s /\ o.at <= d)
  PROVE  SourceIn(Append(obs, o), column, s, d) = SourceIn(obs, column, s, d)
<1> DEFINE rs == Append(obs, o)
<1>1. /\ DOMAIN rs = DOMAIN obs \cup {Len(obs) + 1} /\ Len(obs) + 1 \notin DOMAIN obs
      /\ rs[Len(obs) + 1] = o /\ \A k \in DOMAIN obs : rs[k] = obs[k]
  OBVIOUS
<1> HIDE DEF rs
<1>2. Seen(rs, s, d) = Seen(obs, s, d) BY <1>1 DEF Seen
<1>3. CASE Seen(obs, s, d) # {}
  <2>1. Max(Seen(obs, s, d)) \in DOMAIN obs BY <1>3, SeenLast DEF Seen
  <2> QED BY <1>1, <1>2, <1>3, <2>1 DEF SourceIn, rs
<1>4. CASE Seen(obs, s, d) = {} BY <1>2, <1>4 DEF SourceIn, rs
<1> QED BY <1>3, <1>4

\* A change of the preference today leaves the past alone: the log of every
\* instrument begins with the history.
LEMMA PastPreference ==
  ASSUME TypeOK, Logged, NEW t \in Subjects, NEW source \in {"manual", "provider"},
         Prefer(t, source), NEW s \in Subjects, NEW d \in Days, d < today
  PROVE  PreferenceAt(s, d)' = PreferenceAt(s, d)
<1> DEFINE o == Observation(t, source)
<1>1. observed \in Seq(Observations) /\ o \in Observations /\ o.at = today
  BY Earlier DEF Observation, Observations, TypeOK
<1>2. observed' = observed \/ observed' = Append(observed, o) BY DEF Prefer
<1>3. d \in Nat /\ today \in Nat BY Earlier, MarketConstants DEF Days
<1>4. SourceIn(observed', preference', s, d) = SourceIn(observed, preference', s, d)
  <2> HIDE DEF o
  <2>1. ~(o.subject = s /\ o.at <= d) BY <1>1, <1>3
  <2>2. SourceIn(Append(observed, o), preference', s, d) = SourceIn(observed, preference', s, d)
    BY <1>1, <2>1, SeenAfterAppend
  <2> QED BY <1>2, <2>2
<1>5. SourceIn(observed, preference', s, d) = SourceIn(observed, preference, s, d)
  <2>1. CASE s \in Instruments
    <3>1. Seen(observed, s, d) # {} BY <1>3, <2>1 DEF Seen, Logged
    <3> QED BY <3>1 DEF SourceIn
  <2>2. CASE s \notin Instruments BY <2>2 DEF SourceIn
  <2> QED BY <2>1, <2>2
<1> QED BY <1>4, <1>5, PreferenceIs

LEMMA PreferLogs ==
  ASSUME TypeOK, Logged, NEW t \in Subjects, NEW source \in {"manual", "provider"},
         Prefer(t, source), UNCHANGED today
  PROVE  /\ Logged'
         /\ preference' \in [Subjects -> {"manual", "provider", None}]
         /\ observed' \in Seq(Observations)
<1> DEFINE o == Observation(t, source)
<1>1. /\ observed \in Seq(Observations) /\ o \in Observations
      /\ o.subject = t /\ o.source = source /\ o.at = today /\ today \in Nat
  BY Earlier DEF Observation, Observations, TypeOK
<1>2. /\ preference \in [Subjects -> {"manual", "provider", None}]
      /\ preference' = [preference EXCEPT ![t] = source]
  BY DEF Prefer, TypeOK
<1>3. CASE preference[t] = source
  <2>1. observed' = observed /\ preference' = preference BY <1>2, <1>3 DEF Prefer
  <2> QED BY <1>1, <1>2, <2>1 DEF Logged
<1>4. CASE preference[t] # source
  <2>1. observed' = Append(observed, o) BY <1>4 DEF Prefer
  <2> HIDE DEF o
  <2>2. /\ DOMAIN observed' = DOMAIN observed \cup {Len(observed) + 1}
        /\ observed'[Len(observed) + 1] = o
        /\ \A k \in DOMAIN observed : observed'[k] = observed[k] /\ k < Len(observed) + 1
    BY <1>1, <2>1
  <2>3. \A k \in DOMAIN observed' : observed'[k].at <= today BY <1>1, <2>2 DEF Logged
  <2>4. ASSUME NEW s \in Subjects, NEW k \in DOMAIN observed', observed'[k].subject = s,
               \A j \in DOMAIN observed' : observed'[j].subject = s => j <= k
        PROVE  observed'[k].source = preference'[s]
    <3>1. CASE s = t
      <4>1. Len(observed) + 1 <= k BY <1>1, <2>2, <2>4, <3>1
      <4>2. k = Len(observed) + 1 BY <2>2, <4>1
      <4> QED BY <1>1, <1>2, <2>2, <3>1, <4>2
    <3>2. CASE s # t
      <4>1. k \in DOMAIN observed /\ observed'[k] = observed[k] BY <1>1, <2>2, <2>4, <3>2
      <4>2. \A j \in DOMAIN observed : observed[j].subject = s => j <= k BY <2>2, <2>4
      <4> QED BY <1>2, <2>4, <3>2, <4>1, <4>2 DEF Logged
    <3> QED BY <3>1, <3>2
  <2>5. ASSUME NEW s \in Subjects, \A k \in DOMAIN observed' : observed'[k].subject # s
        PROVE  preference'[s] = None
    <3>1. s # t BY <1>1, <2>2, <2>5
    <3>2. \A k \in DOMAIN observed : observed[k].subject # s BY <2>2, <2>5
    <3> QED BY <1>2, <3>1, <3>2 DEF Logged
  <2>6. \A i \in Instruments : \E k \in DOMAIN observed' :
          observed'[k].subject = i /\ observed'[k].at = 0
    BY <2>2 DEF Logged
  <2>7. observed' \in Seq(Observations) BY <1>1, <2>1
  <2> QED BY <1>2, <2>3, <2>4, <2>5, <2>6, <2>7 DEF Logged
<1> QED BY <1>3, <1>4

-----------------------------------------------------------------------------
(* The steps.                                                                *)

\* A snapshot day the marker has passed keeps its verdict when a quote is added:
\* a manual one dated later, or one of a provider.
LEMMA CoveredAfterInsert ==
  ASSUME IInv, NEW q \in Quotes, quotes' = Append(quotes, q), UNCHANGED <<today, taken>>,
         dirtyFrom' <= dirtyFrom, q.source = "provider" \/ dirtyFrom' <= q.at,
         dirtyFrom' \in Nat,
         \A s \in Subjects, d \in Days : d < dirtyFrom => PreferenceAt(s, d)' = PreferenceAt(s, d)
  PROVE  Covered'
<1> DEFINE n == Len(quotes) + 1
<1>1. TypeOK /\ Covered /\ quotes \in Seq(Quotes) BY Earlier DEF IInv
<1>2. /\ dirtyFrom \in Nat /\ today \in Nat /\ q.at \in Nat
  BY <1>1, Earlier, MarketConstants DEF Quotes, Days
<1>3. /\ n # NoQuote /\ n \in DOMAIN quotes' /\ quotes'[n] = q
      /\ \A k \in DOMAIN quotes : quotes'[k] = quotes[k]
  BY <1>1 DEF NoQuote
<1> HIDE DEF n
<1>4. ASSUME NEW d \in Days, NEW s \in Subjects, d < dirtyFrom'
      PROVE  \/ taken'[d][s] = Historic(s, d)'
             \/ Historic(s, d)' # NoQuote /\ quotes'[Historic(s, d)'].source = "provider"
  <2> DEFINE p == PreferenceAt(s, d)
  <2>1. d \in Nat /\ d < dirtyFrom BY <1>2, <1>4, MarketConstants DEF Days
  <2>2. Historic(s, d)' = SelectedOf(quotes', s, p, d)
    <3>1. Historic(s, d)' = SelectedOf(quotes', s, PreferenceAt(s, d)', d)
      BY SelectionIs DEF Historic
    <3> QED BY <2>1, <3>1
  <2>3. Historic(s, d) = SelectedOf(quotes, s, p, d) /\
        (Historic(s, d) # NoQuote => Historic(s, d) \in DOMAIN quotes)
    BY <1>1, HistoricIs
  <2> HIDE DEF p
  <2>4. \/ taken[d][s] = Historic(s, d)
        \/ Historic(s, d) # NoQuote /\ quotes[Historic(s, d)].source = "provider"
    BY <1>1, <2>1 DEF Covered
  <2>5. Historic(s, d)' \in {Historic(s, d), n}
    BY <1>1, <2>2, <2>3, SelectedAfterAppend DEF n
  <2>6. CASE q.at <= d
    <3>1. q.source = "provider" BY <1>2, <1>4, <2>1, <2>6
    <3> QED BY <1>3, <2>3, <2>4, <2>5, <3>1
  <2>7. CASE ~(q.at <= d)
    <3>1. Historic(s, d)' = Historic(s, d)
      BY <1>1, <2>2, <2>3, <2>7, SelectedAfterAppend
    <3> QED BY <1>3, <2>3, <2>4, <3>1
  <2> QED BY <2>6, <2>7
<1>5. dirtyFrom' <= today' BY <1>1, <1>2 DEF Covered
<1> QED BY <1>4, <1>5 DEF Covered

\* A step that leaves the quotes alone, and the preferences of the past.
LEMMA CoveredUnchanged ==
  ASSUME IInv, UNCHANGED <<quotes, taken>>, dirtyFrom' <= dirtyFrom, dirtyFrom' \in Nat,
         today' \in Nat, today <= today',
         \A s \in Subjects, d \in Days : d < dirtyFrom => PreferenceAt(s, d)' = PreferenceAt(s, d)
  PROVE  Covered'
<1>1. TypeOK /\ Covered /\ dirtyFrom \in Nat /\ today \in Nat BY Earlier DEF IInv
<1>2. ASSUME NEW d \in Days, NEW s \in Subjects, d < dirtyFrom'
      PROVE  Historic(s, d)' = Historic(s, d) /\ d < dirtyFrom
  <2>1. d \in Nat /\ d < dirtyFrom BY <1>1, <1>2, MarketConstants DEF Days
  <2>2. Historic(s, d)' = SelectedOf(quotes', s, PreferenceAt(s, d)', d)
    BY SelectionIs DEF Historic
  <2> QED BY <1>1, <2>1, <2>2, HistoricIs
<1>3. dirtyFrom' <= today' BY <1>1 DEF Covered
<1> QED BY <1>1, <1>2, <1>3 DEF Covered

LEMMA TakenGrows ==
  ASSUME TypeOK, NEW q \in Quotes, quotes' = Append(quotes, q)
  PROVE  taken \in [Days -> [Subjects -> 0 .. Len(quotes')]] /\ quotes' \in Seq(Quotes)
<1>1. quotes \in Seq(Quotes) /\ quotes' \in Seq(Quotes) /\ Len(quotes') = Len(quotes) + 1
  BY DEF TypeOK
<1>2. 0 .. Len(quotes) \subseteq 0 .. Len(quotes') BY <1>1
<1>3. ASSUME NEW d \in Days PROVE taken[d] \in [Subjects -> 0 .. Len(quotes')]
  BY <1>2 DEF TypeOK
<1> QED BY <1>1, <1>3 DEF TypeOK

LEMMA UserIInv == ASSUME IInv, UserStep PROVE IInv'
<1> USE MarketConstants
<1>1. TypeOK /\ Logged /\ Covered /\ UNCHANGED <<today, taken, refresh>>
  BY DEF IInv, UserStep
<1>2. /\ today \in Nat /\ dirtyFrom \in Nat /\ today \in Days /\ dirtyFrom \in Days
      /\ dirtyFrom <= today
  BY <1>1, Earlier DEF TypeOK, Covered
<1>3. ASSUME NEW day \in Days, MarkDirty(day)
      PROVE  dirtyFrom' \in Days /\ dirtyFrom' \in Nat /\ dirtyFrom' <= dirtyFrom /\ dirtyFrom' <= day
  <2>1. day \in Nat BY DEF Days
  <2>2. /\ Min({dirtyFrom, day}) \in {dirtyFrom, day}
        /\ Min({dirtyFrom, day}) <= dirtyFrom /\ Min({dirtyFrom, day}) <= day
    <3>1. dirtyFrom \in Int /\ day \in Int BY <1>2, <2>1
    <3> QED BY <3>1, MinOfTwo
  <2> QED BY <1>2, <1>3, <2>1, <2>2 DEF MarkDirty, Days
<1>4. ASSUME NEW s \in Subjects, NEW source \in {"manual", "provider"}, Prefer(s, source)
      PROVE  /\ Logged' /\ preference' \in [Subjects -> {"manual", "provider", None}]
             /\ observed' \in Seq(Observations)
             /\ \A t \in Subjects, d \in Days :
                  d < dirtyFrom => PreferenceAt(t, d)' = PreferenceAt(t, d)
  <2>1. \A d \in Days : d < dirtyFrom => d < today BY <1>2 DEF Days
  <2> QED BY <1>1, <1>4, <2>1, PreferLogs, PastPreference
<1>5. ASSUME UNCHANGED <<preference, observed>>
      PROVE  /\ Logged' /\ \A t \in Subjects, d \in Days : PreferenceAt(t, d)' = PreferenceAt(t, d)
  BY <1>1, <1>5, PreferenceIs DEF Logged
<1>6. ASSUME NEW s \in Subjects, NEW at \in Days, NEW line \in Lines(s), AppendManual(s, line, at)
      PROVE  IInv'
  <2> DEFINE q == Quote(s, line, "manual", at)
  <2>1. q \in Quotes /\ q.at = at BY DEF Quote, Quotes, Lines
  <2>2. quotes' = Append(quotes, q) /\ Prefer(s, "manual") /\ MarkDirty(at)
    BY <1>6 DEF AppendManual, Insert
  <2> HIDE DEF q
  <2>3. Covered' BY <1>1, <1>3, <1>4, <2>1, <2>2, CoveredAfterInsert
  <2>4. TypeOK' BY <1>1, <1>3, <1>4, <1>6, <2>1, <2>2, TakenGrows DEF TypeOK, AppendManual
  <2> QED BY <1>4, <2>2, <2>3, <2>4 DEF IInv
<1>7. ASSUME NEW s \in Subjects, NEW at \in Days, NEW line \in Lines(s),
             AppendImported(s, line, at)
      PROVE  IInv'
  <2> DEFINE q == Quote(s, line, "manual", at)
  <2>1. q \in Quotes /\ q.at = at BY DEF Quote, Quotes, Lines
  <2>2. quotes' = Append(quotes, q) /\ MarkDirty(at) /\ UNCHANGED <<preference, observed>>
    BY <1>7 DEF AppendImported, Insert
  <2> HIDE DEF q
  <2>3. Covered' BY <1>1, <1>3, <1>5, <2>1, <2>2, CoveredAfterInsert
  <2>4. TypeOK' BY <1>1, <1>3, <1>7, <2>1, <2>2, TakenGrows DEF TypeOK, AppendImported
  <2> QED BY <1>5, <2>2, <2>3, <2>4 DEF IInv
<1>8. ASSUME NEW s \in Subjects, NEW source \in {"manual", "provider"}, SetPreference(s, source)
      PROVE  IInv'
  <2>1. Prefer(s, source) /\ MarkDirty(today) /\ UNCHANGED <<quotes, symbol, archived>>
    BY <1>8 DEF SetPreference
  <2>2. Covered' BY <1>1, <1>2, <1>3, <1>4, <2>1, CoveredUnchanged
  <2>3. TypeOK' BY <1>1, <1>2, <1>3, <1>4, <2>1 DEF TypeOK
  <2> QED BY <1>4, <2>1, <2>2, <2>3 DEF IInv
<1>9. ASSUME NEW i \in Instruments, NEW sym \in Symbols \cup {None},
             NEW source \in {"manual", "provider"}, UpdateInstrument(i, sym, source)
      PROVE  IInv'
  <2>1. /\ Prefer(i, source) /\ i \in Subjects /\ UNCHANGED <<quotes, archived>>
        /\ symbol' \in [Instruments -> Symbols \cup {None}]
    BY <1>1, <1>9 DEF UpdateInstrument, Subjects, TypeOK
  <2>2. dirtyFrom' \in Days /\ dirtyFrom' \in Nat /\ dirtyFrom' <= dirtyFrom
    <3>1. MarkDirty(today) \/ dirtyFrom' = dirtyFrom BY <1>9 DEF UpdateInstrument
    <3> QED BY <1>2, <1>3, <3>1
  <2>3. Covered' BY <1>1, <1>2, <1>4, <2>1, <2>2, CoveredUnchanged
  <2>4. TypeOK' BY <1>1, <1>4, <2>1, <2>2 DEF TypeOK
  <2> QED BY <1>4, <2>1, <2>3, <2>4 DEF IInv
<1>10. ASSUME NEW i \in Instruments, ArchiveInstrument(i) PROVE IInv'
  <2>1. UNCHANGED <<quotes, preference, observed, symbol, dirtyFrom>>
    BY <1>10 DEF ArchiveInstrument
  <2>2. TypeOK' BY <1>1, <1>10, <2>1 DEF TypeOK, ArchiveInstrument
  <2>3. Covered' BY <1>1, <1>2, <1>5, <2>1, CoveredUnchanged
  <2> QED BY <1>5, <2>1, <2>2, <2>3 DEF IInv
<1> QED BY <1>6, <1>7, <1>8, <1>9, <1>10 DEF UserStep

LEMMA RowsKept ==
  ASSUME IInv, UNCHANGED <<rows, taken>>, today' \in Days, today <= today',
         refresh' \in [Calls -> [queue : SUBSET RefreshItems, asked : SUBSET RefreshItems]]
  PROVE  IInv'
<1>1. /\ TypeOK /\ Logged /\ Covered /\ today \in Nat /\ today' \in Nat /\ dirtyFrom \in Nat
      /\ UNCHANGED <<quotes, preference, observed, symbol, archived, dirtyFrom, taken>>
  BY Earlier, MarketConstants DEF IInv, rows, Days
<1>2. TypeOK' BY <1>1 DEF TypeOK
<1>3. Logged'
  <2>1. \A k \in DOMAIN observed : observed[k].at \in Nat BY <1>1, Earlier, MarketConstants
  <2>2. \A k \in DOMAIN observed : observed[k].at <= today' BY <1>1, <2>1 DEF Logged
  <2> QED BY <1>1, <2>2 DEF Logged
<1>4. Covered' BY <1>1, CoveredUnchanged, PreferenceIs
<1> QED BY <1>2, <1>3, <1>4 DEF IInv

LEMMA TargetTyped == ASSUME TypeOK, NEW s \in Subjects PROVE Target(s) \in RefreshItems
BY DEF TypeOK, Target, RefreshItems

LEMMA BeginIInv ==
  ASSUME IInv, NEW c \in Calls, NEW targets \in SUBSET Subjects, Begin(c, targets) PROVE IInv'
<1>1. TypeOK /\ today \in Days /\ today \in Nat BY Earlier DEF IInv, TypeOK
<1>2. {Target(s) : s \in targets} \in SUBSET RefreshItems BY <1>1, TargetTyped
<1>3. refresh' = [refresh EXCEPT ![c].queue = {Target(s) : s \in targets}]
  BY DEF Begin
<1>4. refresh' \in [Calls -> [queue : SUBSET RefreshItems, asked : SUBSET RefreshItems]]
  BY <1>1, <1>2, <1>3 DEF TypeOK
<1> QED BY <1>1, <1>4, RowsKept DEF Begin

LEMMA AskIInv == ASSUME IInv, NEW c \in Calls, AskChunk(c) PROVE IInv'
<1>1. TypeOK /\ today \in Days /\ today \in Nat BY Earlier DEF IInv, TypeOK
<1>2. PICK chunk \in SUBSET NextOf(refresh[c].queue) :
        refresh' = [refresh EXCEPT ![c].queue = @ \ chunk,
                                   ![c].asked = {item \in chunk : Fetches(item)}]
  BY DEF AskChunk
<1>3. refresh[c].queue \in SUBSET RefreshItems BY <1>1 DEF TypeOK
<1>4. /\ chunk \in SUBSET RefreshItems /\ {item \in chunk : Fetches(item)} \in SUBSET RefreshItems
      /\ refresh[c].queue \ chunk \in SUBSET RefreshItems
  BY <1>3 DEF NextOf
<1>5. refresh' \in [Calls -> [queue : SUBSET RefreshItems, asked : SUBSET RefreshItems]]
  BY <1>1, <1>2, <1>4 DEF TypeOK
<1>6. UNCHANGED <<today, rows, taken>> BY DEF AskChunk
<1> QED BY <1>1, <1>5, <1>6, RowsKept

LEMMA AnsweredTyped ==
  ASSUME TypeOK, NEW c \in Calls, NEW item, Answered(c, item)
  PROVE  refresh' \in [Calls -> [queue : SUBSET RefreshItems, asked : SUBSET RefreshItems]]
<1>1. refresh[c].asked \ {item} \in SUBSET RefreshItems BY DEF TypeOK
<1> QED BY <1>1 DEF TypeOK, Answered

LEMMA AnswerIInv == ASSUME IInv, NEW c \in Calls, ProviderAnswers(c) PROVE IInv'
<1> USE MarketConstants
<1>1. TypeOK /\ Logged /\ Covered /\ dirtyFrom \in Nat BY Earlier DEF IInv
<1>2. PICK item \in refresh[c].asked, at \in 0 .. today :
        \E line \in Lines(item.subject) :
          /\ SaveAnswer(item.subject, line, at) /\ Answered(c, item)
          /\ UNCHANGED <<today, symbol, archived, taken>>
  BY DEF ProviderAnswers
<1>3. PICK line \in Lines(item.subject) :
        /\ SaveAnswer(item.subject, line, at) /\ Answered(c, item)
        /\ UNCHANGED <<today, symbol, archived, taken>>
  BY <1>2
<1> DEFINE q == Quote(item.subject, line, "provider", at)
<1>4. item.subject \in Subjects
  <2>1. item \in RefreshItems BY <1>1 DEF TypeOK
  <2> QED BY <2>1 DEF RefreshItems
<1>5. at \in Days BY <1>1, Earlier DEF Days
<1>6. q \in Quotes /\ q.source = "provider" BY <1>4, <1>5 DEF Quote, Quotes, Lines
<1>7. quotes' = Append(quotes, q) /\ UNCHANGED <<preference, observed, dirtyFrom>>
  BY <1>3 DEF SaveAnswer, Insert
<1> HIDE DEF q
<1>8. \A t \in Subjects, d \in Days : PreferenceAt(t, d)' = PreferenceAt(t, d)
  BY <1>7, PreferenceIs
<1>9. Covered' BY <1>1, <1>3, <1>6, <1>7, <1>8, CoveredAfterInsert
<1>10. Logged' BY <1>1, <1>3, <1>7 DEF Logged
<1>11. TypeOK' BY <1>1, <1>3, <1>6, <1>7, TakenGrows, AnsweredTyped DEF TypeOK
<1> QED BY <1>9, <1>10, <1>11 DEF IInv

LEMMA RebuildIInv == ASSUME IInv, RebuildSnapshots PROVE IInv'
<1> USE MarketConstants
<1>1. /\ TypeOK /\ Logged /\ Covered /\ dirtyFrom \in Nat /\ today \in Nat /\ today \in Days
      /\ dirtyFrom' = today
      /\ UNCHANGED <<today, quotes, preference, observed, symbol, archived, refresh>>
  BY Earlier DEF IInv, TypeOK, RebuildSnapshots
<1> DEFINE fresh == [d \in Days |-> IF d \in dirtyFrom .. today - 1
                                    THEN [s \in Subjects |-> Historic(s, d)] ELSE taken[d]]
<1>2. taken' = fresh BY DEF RebuildSnapshots
<1>3. \A s \in Subjects, d \in Days : Historic(s, d)' = Historic(s, d)
  <2>1. ASSUME NEW s \in Subjects, NEW d \in Days PROVE Historic(s, d)' = Historic(s, d)
    <3>1. Historic(s, d)' = SelectedOf(quotes', s, PreferenceAt(s, d)', d)
      BY SelectionIs DEF Historic
    <3>2. PreferenceAt(s, d)' = PreferenceAt(s, d) BY <1>1, PreferenceIs
    <3> QED BY <1>1, <3>1, <3>2, HistoricIs
  <2> QED BY <2>1
<1>4. taken' \in [Days -> [Subjects -> 0 .. Len(quotes)]]
  <2>1. ASSUME NEW d \in Days PROVE fresh[d] \in [Subjects -> 0 .. Len(quotes)]
    <3>1. [s \in Subjects |-> Historic(s, d)] \in [Subjects -> 0 .. Len(quotes)]
      BY <1>1, HistoricIs
    <3>2. taken[d] \in [Subjects -> 0 .. Len(quotes)] BY <1>1 DEF TypeOK
    <3> QED BY <3>1, <3>2
  <2> QED BY <1>2, <2>1
<1>5. ASSUME NEW d \in Days, NEW s \in Subjects, d < today
      PROVE  \/ taken'[d][s] = Historic(s, d)
             \/ Historic(s, d) # NoQuote /\ quotes[Historic(s, d)].source = "provider"
  <2>1. d \in Nat BY DEF Days
  <2>2. CASE d < dirtyFrom
    <3>1. taken'[d] = taken[d] BY <1>1, <1>2, <2>1, <2>2
    <3> QED BY <1>1, <2>2, <3>1 DEF Covered
  <2>3. CASE ~(d < dirtyFrom)
    <3>1. d \in dirtyFrom .. today - 1 BY <1>1, <1>5, <2>1, <2>3
    <3> QED BY <1>2, <3>1
  <2> QED BY <2>2, <2>3
<1> HIDE DEF fresh
<1>6. Covered' BY <1>1, <1>3, <1>5 DEF Covered
<1>7. TypeOK' BY <1>1, <1>4 DEF TypeOK
<1>8. Logged' BY <1>1 DEF Logged
<1> QED BY <1>6, <1>7, <1>8 DEF IInv

LEMMA InitIInv == Init => IInv
<1> SUFFICES ASSUME Init PROVE IInv OBVIOUS
<1> USE MarketConstants
<1>1. PICK order \in {f \in [1 .. Cardinality(Instruments) -> Instruments] :
                        {f[k] : k \in DOMAIN f} = Instruments} :
        observed = [k \in DOMAIN order |->
                      [subject |-> order[k], source |-> preference[order[k]], at |-> 0]]
  BY DEF Init
<1>2. /\ preference \in [Subjects -> {"manual", "provider", None}]
      /\ \A i \in Instruments : preference[i] # None /\ i \in Subjects
      /\ \A p \in Pairs : preference[p] = None
      /\ today = 0 /\ quotes = <<>> /\ dirtyFrom = 0
      /\ taken = [d \in Days |-> [s \in Subjects |-> NoQuote]]
  BY DEF Init, Subjects
<1>3. Cardinality(Instruments) \in Nat BY FS_CardinalityType
<1>4. /\ DOMAIN observed = 1 .. Cardinality(Instruments)
      /\ \A k \in DOMAIN observed : /\ observed[k].subject = order[k]
                                    /\ observed[k].source = preference[order[k]]
                                    /\ observed[k].at = 0 /\ order[k] \in Instruments
  BY <1>1
<1>5. observed \in Seq(Observations)
  <2>1. ASSUME NEW k \in 1 .. Cardinality(Instruments)
        PROVE  [subject |-> order[k], source |-> preference[order[k]], at |-> 0] \in Observations
    <3>1. order[k] \in Instruments BY <1>4
    <3>2. preference[order[k]] \in {"manual", "provider"} BY <1>2, <3>1
    <3> QED BY <1>2, <3>1, <3>2 DEF Observations, Days
  <2>2. observed \in [1 .. Cardinality(Instruments) -> Observations] BY <1>1, <2>1
  <2> QED BY <1>3, <2>2
<1>6. TypeOK
  <2>1. taken \in [Days -> [Subjects -> 0 .. Len(quotes)]] BY <1>2 DEF NoQuote
  <2>2. refresh \in [Calls -> [queue : SUBSET RefreshItems, asked : SUBSET RefreshItems]]
    BY DEF Init, Idle
  <2> QED BY <1>2, <1>5, <2>1, <2>2 DEF Init, TypeOK, Days
<1>7. Logged
  <2>1. ASSUME NEW i \in Instruments PROVE \E k \in DOMAIN observed : observed[k].subject = i
    <3>1. i \in {order[k] : k \in DOMAIN order} BY <1>1
    <3> QED BY <1>1, <1>4, <3>1
  <2>2. \A k \in DOMAIN observed : observed[k].at <= today BY <1>2, <1>4
  <2>3. \A s \in Subjects, k \in DOMAIN observed :
          observed[k].subject = s => observed[k].source = preference[s]
    BY <1>4
  <2>4. \A s \in Subjects : s \notin Instruments => preference[s] = None
    BY <1>2 DEF Subjects
  <2> QED BY <1>4, <2>1, <2>2, <2>3, <2>4 DEF Logged
<1>8. Covered BY <1>2 DEF Covered, Days
<1> QED BY <1>6, <1>7, <1>8 DEF IInv

LEMMA NextIInv == IInv /\ [Next]_vars => IInv'
<1> SUFFICES ASSUME IInv, [Next]_vars PROVE IInv' OBVIOUS
<1> USE MarketConstants
<1>1. TypeOK /\ today \in Days /\ today \in Nat BY Earlier DEF IInv, TypeOK
<1>2. CASE UserStep BY <1>2, UserIInv
<1>3. CASE Midnight
  <2>1. today' \in Days /\ today <= today' BY <1>1, <1>3 DEF Midnight, Days
  <2> QED BY <1>1, <1>3, <2>1, RowsKept DEF Midnight, TypeOK
<1>4. CASE RebuildSnapshots BY <1>4, RebuildIInv
<1>5. ASSUME NEW c \in Calls, RefreshInstrument(c) PROVE IInv'
  <2>1. PICK i \in Instruments : Begin(c, {i}) BY <1>5 DEF RefreshInstrument
  <2>2. {i} \in SUBSET Subjects BY DEF Subjects
  <2> QED BY <2>1, <2>2, BeginIInv
<1>6. ASSUME NEW c \in Calls, RefreshRequiredFx(c) PROVE IInv'
  <2>1. Required \in SUBSET Subjects BY DEF Subjects
  <2> QED BY <1>6, <2>1, BeginIInv DEF RefreshRequiredFx
<1>7. ASSUME NEW c \in Calls, RefreshAll(c) PROVE IInv'
  <2>1. RequiredInstruments \cup ProviderPairs \in SUBSET Subjects
    BY DEF Subjects, RequiredInstruments, ProviderPairs
  <2> QED BY <1>7, <2>1, BeginIInv DEF RefreshAll
<1>8. ASSUME NEW c \in Calls, AskChunk(c) PROVE IInv' BY <1>8, AskIInv
<1>9. ASSUME NEW c \in Calls, ProviderAnswers(c) PROVE IInv' BY <1>9, AnswerIInv
<1>10. ASSUME NEW c \in Calls, ProviderFails(c) PROVE IInv'
  <2>1. refresh' \in [Calls -> [queue : SUBSET RefreshItems, asked : SUBSET RefreshItems]]
    BY <1>1, <1>10, AnsweredTyped DEF ProviderFails
  <2>2. UNCHANGED <<today, rows, taken>> BY <1>10 DEF ProviderFails
  <2> QED BY <1>1, <2>1, <2>2, RowsKept
<1>11. CASE UNCHANGED vars
  <2>1. UNCHANGED <<today, rows, taken, refresh>> BY <1>11 DEF vars
  <2> QED BY <1>1, <2>1, RowsKept DEF TypeOK
<1> QED BY <1>2, <1>3, <1>4, <1>5, <1>6, <1>7, <1>8, <1>9, <1>10, <1>11 DEF Next, RefreshStep

-----------------------------------------------------------------------------

\* Every step of the user, of a refresh and of a rebuild keeps the invariant.
THEOREM Invariance == Spec => []IInv
<1> QED BY InitIInv, NextIInv, PTL DEF Spec

\* The tables of quotes, preferences and observations keep their types; no
\* snapshot names a quote that does not exist.
THEOREM TypeCorrect == Spec => []TypeOK
<1>1. IInv => TypeOK BY DEF IInv
<1> QED BY <1>1, Invariance, PTL

\* Valuing now and reconstructing today select the same quotes, unless the user
\* has entered one dated in the future: every change of a preference is logged.
LEMMA InvariantMatches == IInv => CurrentMatchesHistory
<1> SUFFICES ASSUME IInv, NEW s \in Subjects
             PROVE  \/ Current(s) = Historic(s, today)
                    \/ Current(s) # NoQuote /\ quotes[Current(s)].at > today
  BY DEF CurrentMatchesHistory
<1> USE MarketConstants
<1> DEFINE p == PreferenceOf(s)
           All(line) == Line(quotes, s, line, p, Horizon)
           Past(line) == Line(quotes, s, line, p, today)
<1>1. /\ TypeOK /\ Logged /\ quotes \in Seq(Quotes) /\ today \in Nat /\ today <= Horizon
      /\ today \in Days
      /\ \A k \in DOMAIN quotes : quotes[k].at \in 0 .. Horizon
  BY Earlier DEF IInv, TypeOK
<1>2. /\ Current(s) = SelectedOf(quotes, s, p, Horizon)
      /\ Historic(s, today) = SelectedOf(quotes, s, p, today)
  BY <1>1, SelectionIs, PreferenceToday DEF Current, Historic
<1>3. ASSUME NEW line \in {"direct", "inverse"}
      PROVE  \/ OnLineOf(quotes, s, line, p, Horizon) = OnLineOf(quotes, s, line, p, today)
             \/ /\ OnLineOf(quotes, s, line, p, Horizon) # NoQuote
                /\ quotes[OnLineOf(quotes, s, line, p, Horizon)].at > today
  <2> DEFINE k == LatestOf(quotes, All(line))
  <2>1. /\ All(line) \in SUBSET DOMAIN quotes /\ Past(line) \in SUBSET DOMAIN quotes
        /\ Past(line) = {j \in All(line) : quotes[j].at <= today}
    BY <1>1 DEF Line
  <2>2. CASE All(line) = {} BY <2>1, <2>2 DEF OnLineOf
  <2>3. CASE All(line) # {}
    <3>1. k \in All(line) /\ \A j \in All(line) : Newer(quotes, j, k) BY <1>1, <2>1, <2>3, LatestIs
    <3>2. k # NoQuote /\ quotes[k].at \in Nat BY <1>1, <2>1, <3>1 DEF NoQuote
    <3>3. CASE quotes[k].at > today BY <3>2, <3>3 DEF OnLineOf
    <3>4. CASE ~(quotes[k].at > today)
      <4>1. k \in Past(line) /\ \A j \in Past(line) : Newer(quotes, j, k)
        BY <1>1, <2>1, <3>1, <3>2, <3>4
      <4>2. LatestOf(quotes, Past(line)) = k BY <1>1, <2>1, <4>1, LatestUnique
      <4> QED BY <4>2 DEF OnLineOf
    <3> QED BY <3>3, <3>4
  <2> QED BY <2>2, <2>3
<1> HIDE DEF p
<1> QED BY <1>2, <1>3 DEF SelectedOf

\* The selection of today and the current one agree, for any log of quotes.
THEOREM SelectionsAgree == Spec => []CurrentMatchesHistory
<1> QED BY InvariantMatches, Invariance, PTL

\* Only a quote of a provider leaves a snapshot behind that a rebuild would change.
THEOREM OnlyProvidersLeaveStale == Spec => []StaleOnlyByProvider
<1>1. IInv => StaleOnlyByProvider BY DEF IInv, Covered, StaleOnlyByProvider
<1> QED BY <1>1, Invariance, PTL

\* persist_instrument_quote and persist_fx_quote insert a provider quote and no
\* more, so a refresh never changes what is valued by hand.
THEOREM RefreshLeavesManual == Spec => RefreshKeepsManual
<1> DEFINE Step == refresh' # refresh =>
                     \A s \in Subjects : PreferenceOf(s) = "manual" =>
                       PreferenceOf(s)' = "manual" /\ Current(s)' = Current(s)
<1>1. IInv /\ [Next]_vars => [Step]_vars
  <2> SUFFICES ASSUME IInv, Next, refresh' # refresh, NEW s \in Subjects,
                      PreferenceOf(s) = "manual"
               PROVE  PreferenceOf(s)' = "manual" /\ Current(s)' = Current(s)
    OBVIOUS
  <2>1. /\ Current(s) = SelectedOf(quotes, s, PreferenceOf(s), Horizon)
        /\ Current(s)' = SelectedOf(quotes', s, PreferenceOf(s)', Horizon)
    BY SelectionIs DEF Current
  <2>2. PICK c \in Calls : \/ RefreshInstrument(c) \/ RefreshRequiredFx(c) \/ RefreshAll(c)
                           \/ AskChunk(c) \/ ProviderAnswers(c) \/ ProviderFails(c)
    BY DEF Next, UserStep, Midnight, RebuildSnapshots, RefreshStep
  <2>3. CASE ProviderAnswers(c)
    <3>1. PICK item \in refresh[c].asked, at \in 0 .. today :
            \E line \in Lines(item.subject) : SaveAnswer(item.subject, line, at)
      BY <2>3 DEF ProviderAnswers
    <3>2. PICK line \in Lines(item.subject) : SaveAnswer(item.subject, line, at) BY <3>1
    <3> DEFINE q == Quote(item.subject, line, "provider", at)
    <3>3. TypeOK /\ quotes \in Seq(Quotes) /\ today <= Horizon /\ today \in Nat
      BY Earlier DEF IInv
    <3>4. q \in Quotes /\ q.source # "manual"
      <4>1. item \in RefreshItems BY <3>3 DEF TypeOK
      <4> QED BY <3>3, <4>1, MarketConstants DEF RefreshItems, Quote, Quotes, Lines, Days
    <3>5. quotes' = Append(quotes, q) /\ PreferenceOf(s)' = PreferenceOf(s)
      BY <3>2 DEF SaveAnswer, Insert, PreferenceOf
    <3> HIDE DEF q
    <3> QED BY <2>1, <3>3, <3>4, <3>5, SelectedAfterAppend
  <2>4. CASE UNCHANGED rows
    <3>1. PreferenceOf(s)' = PreferenceOf(s) /\ quotes' = quotes BY <2>4 DEF rows, PreferenceOf
    <3> QED BY <2>1, <3>1
  <2> QED BY <2>2, <2>3, <2>4
          DEF RefreshInstrument, RefreshRequiredFx, RefreshAll, Begin, AskChunk, ProviderFails
<1> QED BY <1>1, Invariance, PTL DEF Spec, RefreshKeepsManual

-----------------------------------------------------------------------------
(* Maintenance, over the quotes.                                             *)

\* Every quote is on a line of its subject, every default has an interval, and a
\* day that is remembered is a day.
Remembered ==
  /\ \A k \in DOMAIN quotes : quotes[k].line \in Lines(quotes[k].subject)
  /\ policies \in [Kinds \cup Targets -> Intervals \cup {Disabled, None}]
  /\ \A kind \in Kinds : policies[kind] \in Intervals \cup {Disabled}
  /\ valued \in [Accounts -> Days \cup {None}]

LEMMA InitRemembered == MaintenanceInit => Remembered
<1> SUFFICES ASSUME MaintenanceInit PROVE Remembered OBVIOUS
<1>1. quotes = <<>> BY DEF MaintenanceInit, Init
<1>2. Min(Intervals) \in Intervals
  <2>1. \E m \in Intervals : \A n \in Intervals : m <= n
    <3>1. Intervals \in SUBSET Nat /\ Intervals # {} BY MaintenanceConstants
    <3> QED BY <3>1, LeastOfNat
  <2> QED BY <2>1 DEF Min
<1>3. 0 \in Days BY MarketConstants DEF Days
<1> QED BY <1>1, <1>2, <1>3 DEF MaintenanceInit, Remembered

LEMMA UserRemembered ==
  ASSUME TypeOK, Remembered, UserStep
  PROVE  \A k \in DOMAIN quotes' : quotes'[k].line \in Lines(quotes'[k].subject)
<1>1. quotes \in Seq(Quotes) BY DEF TypeOK
<1>2. CASE quotes' = quotes BY <1>2 DEF Remembered
<1>3. CASE \E s \in Subjects, at \in Days : \E line \in Lines(s) : Insert(s, line, "manual", at)
  <2>1. PICK s \in Subjects, at \in Days : \E line \in Lines(s) : Insert(s, line, "manual", at) BY <1>3
  <2>2. PICK line \in Lines(s) : Insert(s, line, "manual", at) BY <2>1
  <2> DEFINE q == Quote(s, line, "manual", at)
  <2>3. quotes' = Append(quotes, q) /\ q.line = line /\ q.subject = s BY <2>2 DEF Insert, Quote
  <2> HIDE DEF q
  <2>4. \A k \in DOMAIN quotes' : (k \in DOMAIN quotes /\ quotes'[k] = quotes[k]) \/ quotes'[k] = q
    BY <1>1, <2>3
  <2> QED BY <2>2, <2>3, <2>4 DEF Remembered
<1> QED BY <1>2, <1>3
     DEF UserStep, AppendManual, AppendImported, SetPreference, UpdateInstrument, ArchiveInstrument

LEMMA NextRemembered == IInv /\ Remembered /\ [MaintenanceNext]_<<vars, reminders>> => IInv' /\ Remembered'
<1> SUFFICES ASSUME IInv, Remembered, [MaintenanceNext]_<<vars, reminders>>
             PROVE  IInv' /\ Remembered'
  OBVIOUS
<1> USE MarketConstants, MaintenanceConstants
<1>1. TypeOK /\ today \in Nat /\ today <= Horizon BY Earlier DEF IInv
<1>2. ASSUME UNCHANGED vars
      PROVE  IInv' /\ (\A k \in DOMAIN quotes' : quotes'[k].line \in Lines(quotes'[k].subject))
  BY <1>2, NextIInv DEF vars, rows, Remembered
<1>3. CASE (UserStep \/ Midnight) /\ UNCHANGED reminders
  <2>1. IInv' BY <1>3, NextIInv DEF Next
  <2>2. \A k \in DOMAIN quotes' : quotes'[k].line \in Lines(quotes'[k].subject)
    <3>1. CASE UserStep BY <1>1, <3>1, UserRemembered
    <3>2. CASE Midnight BY <3>2 DEF Midnight, rows, Remembered
    <3> QED BY <1>3, <3>1, <3>2
  <2> QED BY <1>3, <2>1, <2>2 DEF Remembered, reminders
<1>4. ASSUME NEW t \in Editable, NEW interval \in Intervals \cup {Disabled}, UpdatePolicy(t, interval)
      PROVE  IInv' /\ Remembered'
  BY <1>2, <1>4 DEF UpdatePolicy, Remembered
<1>5. ASSUME NEW t \in Targets, NEW until \in SnoozeDates, SnoozeItem(t, until)
      PROVE  IInv' /\ Remembered'
  BY <1>2, <1>5 DEF SnoozeItem, Remembered
<1>6. ASSUME NEW a \in Accounts, NEW day \in 0 .. today, ObserveAccount(a, day)
      PROVE  IInv' /\ Remembered'
  <2> DEFINE days == {day} \cup ({valued[a]} \ {None})
  <2>1. days \in SUBSET (0 .. Horizon) /\ days # {} BY <1>1 DEF Remembered, Days
  <2>2. Max(days) \in Days
    <3> HIDE DEF days
    <3> QED BY <2>1, MaxUpTo DEF Days
  <2>3. valued' = [valued EXCEPT ![a] = Max(days)] BY <1>6 DEF ObserveAccount
  <2> HIDE DEF days
  <2> QED BY <1>2, <1>6, <2>2, <2>3 DEF ObserveAccount, Remembered
<1>7. ASSUME NEW a \in Accounts, ArchiveAccount(a) PROVE IInv' /\ Remembered'
  BY <1>2, <1>7 DEF ArchiveAccount, Remembered
<1>8. CASE UNCHANGED <<vars, reminders>> BY <1>2, <1>8 DEF reminders, Remembered
<1> QED BY <1>3, <1>4, <1>5, <1>6, <1>7, <1>8 DEF MaintenanceNext

\* What the queue looks at of a subject holds the latest of the manual quotes there are.
LEMMA DatesAreLatest ==
  ASSUME TypeOK, Remembered, NEW t \in Targets, \A d \in Evidence(t) : d <= today
  PROVE  /\ Evidence(t) \in SUBSET (0 .. Horizon)
         /\ ObservedDays(t) \subseteq Evidence(t)
         /\ \A d \in Evidence(t) : \E e \in ObservedDays(t) : d <= e
<1> USE MarketConstants
<1>1. CASE t \in Accounts
  <2>1. ObservedDays(t) = Evidence(t) /\ Evidence(t) = {valued[t]} \ {None}
    BY <1>1 DEF ObservedDays, Evidence
  <2>2. valued[t] \in Days \cup {None} BY <1>1 DEF Remembered
  <2> QED BY <2>1, <2>2 DEF Days
<1>2. CASE t \notin Accounts
  <2> DEFINE mine == {j \in DOMAIN quotes : quotes[j].subject = t /\ quotes[j].source = "manual"}
             K(line) == Line(quotes, t, line, "manual", Horizon)
             latest == {OnLine(t, line, "manual", Horizon) : line \in Lines(t)} \ {NoQuote}
  <2>1. quotes \in Seq(Quotes) /\ \A k \in DOMAIN quotes : k # NoQuote /\ quotes[k].at \in 0 .. Horizon
    BY Earlier DEF NoQuote
  <2>2. Evidence(t) = {quotes[k].at : k \in mine} BY <1>2 DEF Evidence
  <2>3. ObservedDays(t) = {d \in {quotes[k].at : k \in latest} : d <= today}
    BY <1>2 DEF ObservedDays, ManualDates
  <2>4. ASSUME NEW line
        PROVE  /\ OnLine(t, line, "manual", Horizon) = LatestOf(quotes, K(line))
               /\ K(line) \in SUBSET DOMAIN quotes /\ K(line) \subseteq mine
    BY DEF OnLine, Latest, LatestOf, Line
  <2>5. latest \subseteq mine
    <3>1. ASSUME NEW line \in Lines(t), OnLine(t, line, "manual", Horizon) # NoQuote
          PROVE  OnLine(t, line, "manual", Horizon) \in mine
      BY <2>1, <2>4, <3>1, LatestType
    <3> QED BY <3>1
  <2>6. ASSUME NEW j \in mine PROVE \E k \in latest : quotes[j].at <= quotes[k].at
    <3>1. j \in DOMAIN quotes /\ quotes[j].line \in Lines(t) BY DEF Remembered
    <3>2. PICK line \in Lines(t) : line = quotes[j].line BY <3>1
    <3>3. j \in K(line) BY <2>1, <3>1, <3>2 DEF Line
    <3>4. /\ LatestOf(quotes, K(line)) \in K(line)
          /\ Newer(quotes, j, LatestOf(quotes, K(line)))
      BY <2>1, <2>4, <3>3, LatestIs
    <3>5. LatestOf(quotes, K(line)) \in latest BY <2>1, <2>4, <3>4
    <3>6. quotes[j].at <= quotes[LatestOf(quotes, K(line))].at
      BY <2>1, <2>4, <3>1, <3>4 DEF Newer
    <3> QED BY <3>5, <3>6
  <2> HIDE DEF latest, K, mine
  <2>7. \A d \in Evidence(t) : d \in 0 .. Horizon
    <3>1. \A k \in mine : k \in DOMAIN quotes BY DEF mine
    <3> QED BY <2>1, <2>2, <3>1
  <2>8. ObservedDays(t) \subseteq Evidence(t) BY <2>2, <2>3, <2>5
  <2>9. ASSUME NEW d \in Evidence(t) PROVE \E e \in ObservedDays(t) : d <= e
    <3>1. PICK j \in mine : d = quotes[j].at BY <2>2
    <3>2. PICK k \in latest : quotes[j].at <= quotes[k].at BY <2>6
    <3>3. quotes[k].at \in Evidence(t) BY <2>2, <2>5
    <3> QED BY <2>3, <3>1, <3>2, <3>3
  <2> QED BY <2>7, <2>8, <2>9
<1> QED BY <1>1, <1>2

\* An entry of the maintenance queue (application/maintenance_service.rs) says of a target
\* what all its observations say, though it reads the valuation's latest quote of each
\* line and source: "missing" when there are none, and otherwise what the time since the
\* newest of them makes of it.
THEOREM RemindersAreTrue == MaintenanceSpec => []RemindersTrue
<1>1. MaintenanceInit => IInv /\ Remembered BY InitIInv, InitRemembered DEF MaintenanceInit
<1>2. IInv /\ Remembered => RemindersTrue
  <2> SUFFICES ASSUME IInv, Remembered, NEW t \in Targets, Listed(t), \A d \in Evidence(t) : d <= today
               PROVE  /\ Underlying(t) = "missing" <=> Evidence(t) = {}
                      /\ Underlying(t) = "current" <=>
                           \E d \in Evidence(t) : today - d < ResolvePolicy(t)
                      /\ Underlying(t) = "overdue" <=>
                           Evidence(t) # {} /\ \A d \in Evidence(t) : today - d > ResolvePolicy(t)
    BY DEF RemindersTrue
  <2> DEFINE N == ResolvePolicy(t)
             days == Evidence(t)
             shown == ObservedDays(t)
  <2>1. TypeOK /\ today \in Nat /\ Horizon \in Nat BY Earlier, MarketConstants DEF IInv
  <2>2. /\ days \in SUBSET (0 .. Horizon) /\ shown \subseteq days
        /\ \A d \in days : \E e \in shown : d <= e
    BY <2>1, DatesAreLatest
  <2>3. N \in Nat /\ N > 0
    <3>1. KindOf(t) \in Kinds BY DEF KindOf, Targets, Subjects, Accounts, Kinds
    <3>2. policies[t] \in Intervals \cup {Disabled, None} /\ policies[KindOf(t)] \in Intervals \cup {Disabled}
      BY <3>1 DEF Remembered
    <3>3. N # Disabled BY DEF Listed, Enabled
    <3>4. N \in {policies[t], policies[KindOf(t)]} /\ (policies[t] = None => N = policies[KindOf(t)])
      BY DEF ResolvePolicy
    <3>5. N \in Intervals
      <4>1. CASE policies[t] = None BY <3>2, <3>3, <3>4, <4>1
      <4>2. CASE policies[t] # None BY <3>2, <3>3, <4>2 DEF ResolvePolicy
      <4> QED BY <4>1, <4>2
    <3> HIDE DEF N
    <3> QED BY <3>5, MaintenanceConstants
  <2>4. Underlying(t) = FreshnessStatus(shown, N) BY DEF Underlying
  <2> HIDE DEF N, days, shown
  <2>5. CASE shown = {}
    <3>1. Underlying(t) = "missing" BY <2>4, <2>5 DEF FreshnessStatus
    <3>2. days = {} BY <2>2, <2>5
    <3> QED BY <3>1, <3>2 DEF days
  <2>6. CASE shown # {}
    <3> DEFINE m == Max(shown)
    <3>1. shown \in SUBSET (0 .. Horizon) BY <2>2
    <3>2. m \in shown /\ \A d \in shown : d <= m BY <2>1, <2>6, <3>1, MaxUpTo
    <3>3. m \in days /\ m \in Nat /\ \A d \in days : d \in Nat /\ d <= m
      <4>1. m \in days /\ \A d \in days : d \in 0 .. Horizon BY <2>2, <3>2
      <4>2. ASSUME NEW d \in days PROVE d <= m
        <5>1. PICK e \in shown : d <= e BY <2>2
        <5>2. e <= m /\ e \in 0 .. Horizon BY <3>1, <3>2
        <5> HIDE DEF m
        <5> QED BY <4>1, <5>1, <5>2
      <4> QED BY <4>1, <4>2
    <3>4. Underlying(t) = IF today < m + N THEN "current" ELSE IF today = m + N THEN "due" ELSE "overdue"
      <4>1. CASE today < m + N BY <2>1, <2>3, <2>4, <2>6, <3>3, <4>1 DEF FreshnessStatus
      <4>2. CASE today = m + N BY <2>1, <2>3, <2>4, <2>6, <3>3, <4>2 DEF FreshnessStatus
      <4>3. CASE ~(today < m + N) /\ today # m + N
        BY <2>1, <2>3, <2>4, <2>6, <3>3, <4>3 DEF FreshnessStatus
      <4> QED BY <4>1, <4>2, <4>3
    <3> HIDE DEF m
    <3>5. (today < m + N) <=> \E d \in days : today - d < N BY <2>1, <2>3, <3>3
    <3>6. (today > m + N) <=> \A d \in days : today - d > N BY <2>1, <2>3, <3>3
    <3>7. days # {} BY <3>3
    <3>8. /\ Underlying(t) = "missing" <=> days = {}
          /\ Underlying(t) = "current" <=> \E d \in days : today - d < N
          /\ Underlying(t) = "overdue" <=> days # {} /\ \A d \in days : today - d > N
      BY <2>1, <2>3, <3>3, <3>4, <3>5, <3>6, <3>7
    <3> QED BY <3>8 DEF days, N
  <2> QED BY <2>5, <2>6
<1> QED BY <1>1, <1>2, NextRemembered, PTL DEF MaintenanceSpec

-----------------------------------------------------------------------------
(* The comparison with a benchmark.                                          *)

LevelRows == [of : Series, on : Days]

Prefix(L, M) == DOMAIN L \subseteq DOMAIN M /\ \A k \in DOMAIN L : M[k] = L[k]

BenchmarksInv == IInv /\ levels \in Seq(LevelRows)

\* What is recorded up to a day.
LevelsOf(b, e) == {k \in DOMAIN levels : levels[k].of = b /\ levels[k].on <= e}
QuotesTo(e)    == {k \in DOMAIN quotes : quotes[k].at <= e}
LoggedOf(p, e) == {k \in DOMAIN observed : observed[k].at <= e /\ observed[k].subject = p}

LEMMA AppendPrefix ==
  ASSUME NEW S, NEW L \in Seq(S), NEW x PROVE Prefix(L, Append(L, x))
BY DEF Prefix

LEMMA PreferPrefix ==
  ASSUME observed \in Seq(Observations), NEW s, NEW source, Prefer(s, source)
  PROVE  Prefix(observed, observed')
<1>1. CASE observed' = observed BY <1>1 DEF Prefix
<1>2. CASE observed' = Append(observed, Observation(s, source)) BY <1>2, AppendPrefix
<1> QED BY <1>1, <1>2 DEF Prefer

LEMMA InsertPrefix ==
  ASSUME quotes \in Seq(Quotes), NEW s, NEW line, NEW source, NEW at, Insert(s, line, source, at)
  PROVE  Prefix(quotes, quotes')
BY AppendPrefix DEF Insert

\* Quotes, logged preferences and levels are only added, and the date only grows.
LEMMA MarketGrows ==
  ASSUME TypeOK, [Next]_vars
  PROVE  Prefix(quotes, quotes') /\ Prefix(observed, observed') /\ today <= today'
<1> USE DEF Prefix
<1>1. quotes \in Seq(Quotes) /\ observed \in Seq(Observations) /\ today \in Nat BY Earlier
<1>2. CASE UserStep
  <2>1. today' = today BY <1>2 DEF UserStep
  <2>2. ASSUME NEW s \in Subjects, NEW at \in Days, NEW line \in Lines(s), AppendManual(s, line, at)
        PROVE  Prefix(quotes, quotes') /\ Prefix(observed, observed')
    <3> HIDE DEF Prefix
    <3> QED BY <1>1, <2>2, InsertPrefix, PreferPrefix DEF AppendManual
  <2>3. ASSUME NEW s \in Subjects, NEW at \in Days, NEW line \in Lines(s), AppendImported(s, line, at)
        PROVE  Prefix(quotes, quotes') /\ Prefix(observed, observed')
    <3>1. Prefix(quotes, quotes')
      <4> HIDE DEF Prefix
      <4> QED BY <1>1, <2>3, InsertPrefix DEF AppendImported
    <3> QED BY <2>3, <3>1 DEF AppendImported
  <2>4. ASSUME NEW s \in Subjects, NEW source, SetPreference(s, source)
        PROVE  Prefix(quotes, quotes') /\ Prefix(observed, observed')
    <3>1. Prefix(observed, observed')
      <4> HIDE DEF Prefix
      <4> QED BY <1>1, <2>4, PreferPrefix DEF SetPreference
    <3> QED BY <2>4, <3>1 DEF SetPreference
  <2>5. ASSUME NEW i \in Instruments, NEW sym, NEW source, UpdateInstrument(i, sym, source)
        PROVE  Prefix(quotes, quotes') /\ Prefix(observed, observed')
    <3>1. Prefix(observed, observed')
      <4> HIDE DEF Prefix
      <4> QED BY <1>1, <2>5, PreferPrefix DEF UpdateInstrument
    <3> QED BY <2>5, <3>1 DEF UpdateInstrument
  <2>6. ASSUME NEW i \in Instruments, ArchiveInstrument(i)
        PROVE  Prefix(quotes, quotes') /\ Prefix(observed, observed')
    BY <2>6 DEF ArchiveInstrument
  <2> HIDE DEF Prefix
  <2>7. Prefix(quotes, quotes') /\ Prefix(observed, observed')
    BY <1>2, <2>2, <2>3, <2>4, <2>5, <2>6 DEF UserStep
  <2> QED BY <1>1, <2>1, <2>7
<1>3. ASSUME NEW c \in Calls, ProviderAnswers(c)
      PROVE  Prefix(quotes, quotes') /\ Prefix(observed, observed') /\ today <= today'
  <2>1. PICK item \in refresh[c].asked, at \in 0 .. today :
          /\ \E line \in Lines(item.subject) : SaveAnswer(item.subject, line, at)
          /\ today' = today
    BY <1>3 DEF ProviderAnswers
  <2>2. PICK line \in Lines(item.subject) : SaveAnswer(item.subject, line, at) BY <2>1
  <2>3. Insert(item.subject, line, "provider", at) /\ observed' = observed
    BY <2>2 DEF SaveAnswer
  <2>4. Prefix(quotes, quotes')
    <3> HIDE DEF Prefix
    <3> QED BY <1>1, <2>3, InsertPrefix
  <2> QED BY <1>1, <2>1, <2>3, <2>4
<1>4. CASE quotes' = quotes /\ observed' = observed /\ today <= today' BY <1>4
<1>5. CASE Midnight BY <1>1, <1>4, <1>5 DEF Midnight, rows
<1>6. CASE RebuildSnapshots BY <1>1, <1>4, <1>6 DEF RebuildSnapshots
<1>7. ASSUME NEW c \in Calls, \/ RefreshInstrument(c) \/ RefreshRequiredFx(c) \/ RefreshAll(c)
                              \/ AskChunk(c) \/ ProviderFails(c)
      PROVE  quotes' = quotes /\ observed' = observed /\ today <= today'
  BY <1>1, <1>7 DEF RefreshInstrument, RefreshRequiredFx, RefreshAll, Begin, AskChunk, ProviderFails, rows
<1>8. CASE UNCHANGED vars BY <1>1, <1>4, <1>8 DEF vars, rows
<1> HIDE DEF Prefix
<1> QED BY <1>2, <1>3, <1>4, <1>5, <1>6, <1>7, <1>8 DEF Next, RefreshStep

LEMMA BenchmarksGrow ==
  ASSUME BenchmarksInv, [BenchmarksNext]_<<vars, benchmarkVars>>
  PROVE  /\ Prefix(quotes, quotes') /\ Prefix(observed, observed') /\ today <= today'
         /\ Prefix(levels, levels') /\ levels' \in Seq(LevelRows)
<1>1. TypeOK /\ levels \in Seq(LevelRows) BY DEF BenchmarksInv, IInv
<1>2. [Next]_vars /\ (levels' = levels \/ Benchmarking)
  BY DEF BenchmarksNext, Benchmarking, CreateBenchmark, UpdateBenchmark, AppendLevel,
         SetBenchmarkArchived, SetDefaultBenchmark, benchmarkVars
<1>3. Prefix(levels, levels') /\ levels' \in Seq(LevelRows)
  <2>1. CASE levels' = levels BY <1>1, <2>1 DEF Prefix
  <2>2. ASSUME NEW b \in Series, NEW on \in Days, AppendLevel(b, on)
        PROVE  Prefix(levels, levels') /\ levels' \in Seq(LevelRows)
    <3>1. levels' = Append(levels, [of |-> b, on |-> on]) BY <2>2 DEF AppendLevel
    <3>2. [of |-> b, on |-> on] \in LevelRows BY DEF LevelRows
    <3> QED BY <1>1, <3>1, <3>2, AppendPrefix
  <2> QED BY <1>2, <2>1, <2>2
          DEF Benchmarking, CreateBenchmark, UpdateBenchmark, SetBenchmarkArchived, SetDefaultBenchmark
<1> QED BY <1>1, <1>2, <1>3, MarketGrows

LEMMA BenchmarksStep ==
  BenchmarksInv /\ [BenchmarksNext]_<<vars, benchmarkVars>> => BenchmarksInv'
<1> SUFFICES ASSUME BenchmarksInv, [BenchmarksNext]_<<vars, benchmarkVars>> PROVE BenchmarksInv'
  OBVIOUS
<1>1. [Next]_vars
  BY DEF BenchmarksNext, Benchmarking, CreateBenchmark, UpdateBenchmark, AppendLevel,
         SetBenchmarkArchived, SetDefaultBenchmark
<1>2. IInv' BY <1>1, NextIInv DEF BenchmarksInv
<1> QED BY <1>2, BenchmarksGrow DEF BenchmarksInv

LEMMA BenchmarksStart == Init /\ BenchmarksInit => BenchmarksInv
BY InitIInv DEF BenchmarksInit, BenchmarksInv

-----------------------------------------------------------------------------

\* What is chosen from what is recorded up to a day is chosen again.
LEMMA LevelStays ==
  ASSUME NEW b, NEW e \in Days, NEW t \in Days, t <= e,
         levels \in Seq(LevelRows), levels' \in Seq(LevelRows), Prefix(levels, levels'),
         LevelsOf(b, e)' = LevelsOf(b, e)
  PROVE  /\ LevelAt(b, t)' = LevelAt(b, t)
         /\ LevelAt(b, t) # 0 => levels'[LevelAt(b, t)] = levels[LevelAt(b, t)]
<1> USE DEF Prefix, LevelsOf
<1>1. \A k \in DOMAIN levels' : levels'[k].on \in Nat
  <2>1. \A k \in DOMAIN levels' : levels'[k] \in LevelRows OBVIOUS
  <2> QED BY <2>1, MarketConstants DEF LevelRows, Days
<1>2. t \in Nat /\ e \in Nat BY MarketConstants DEF Days
<1> DEFINE known == {k \in DOMAIN levels : levels[k].of = b /\ levels[k].on <= t}
           later == {k \in DOMAIN levels' : levels'[k].of = b /\ levels'[k].on <= t}
           last == {k \in known : \A j \in known : levels[j].on <= levels[k].on}
           new == {k \in later : \A j \in later : levels'[j].on <= levels'[k].on}
<1>3. later = known /\ known \subseteq DOMAIN levels
  <2>1. ASSUME NEW k \in later PROVE k \in known
    <3>1. levels'[k].on <= e BY <1>1, <1>2
    <3> QED BY <2>1, <3>1
  <2>2. known \subseteq later OBVIOUS
  <2> QED BY <2>1, <2>2
<1>4. last = new
  <2>1. \A k \in known : levels'[k] = levels[k] BY <1>3
  <2> HIDE DEF known, later
  <2> QED BY <1>3, <2>1
<1>5. LevelAt(b, t) = Max({0} \cup last) /\ LevelAt(b, t)' = Max({0} \cup new)
  BY DEF LevelAt
<1>6. last \subseteq DOMAIN levels OBVIOUS
<1> HIDE DEF known, later, last, new
<1>7. {0} \cup last \in SUBSET (0 .. Len(levels)) /\ Len(levels) \in Nat BY <1>6
<1>8. Max({0} \cup last) \in {0} \cup last BY <1>7, MaxUpTo
<1> QED BY <1>4, <1>5, <1>6, <1>8

LEMMA EligibleStays ==
  ASSUME NEW b, NEW e \in Days, NEW t \in Days, t <= e,
         levels \in Seq(LevelRows), levels' \in Seq(LevelRows), Prefix(levels, levels'),
         benchmarks'[b].carry = benchmarks[b].carry,
         LevelsOf(b, e)' = LevelsOf(b, e)
  PROVE  Eligible(b, t)' = Eligible(b, t) /\ LevelAt(b, t)' = LevelAt(b, t)
<1>1. /\ LevelAt(b, t)' = LevelAt(b, t)
      /\ LevelAt(b, t) # 0 => levels'[LevelAt(b, t)] = levels[LevelAt(b, t)]
  BY LevelStays
<1> DEFINE k == LevelAt(b, t)
           Means(n, rows_, carry) == CASE n = 0 -> "missing"
                                       [] n # 0 /\ t - rows_[n].on > carry -> "stale"
                                       [] OTHER -> "eligible"
<1>2. /\ Eligible(b, t) = Means(LevelAt(b, t), levels, benchmarks[b].carry)
      /\ Eligible(b, t)' = Means(LevelAt(b, t)', levels', benchmarks'[b].carry)
  BY DEF Eligible
<1>3. CASE LevelAt(b, t) = 0 BY <1>1, <1>2, <1>3
<1>4. CASE LevelAt(b, t) # 0 BY <1>1, <1>2, <1>4
<1> QED BY <1>1, <1>3, <1>4

LEMMA QuotesStay ==
  ASSUME NEW p, NEW source, NEW e \in Days, NEW t \in Days, t <= e,
         quotes \in Seq(Quotes), quotes' \in Seq(Quotes), Prefix(quotes, quotes'),
         QuotesTo(e)' = QuotesTo(e)
  PROVE  SelectedOf(quotes', p, source, t) = SelectedOf(quotes, p, source, t)
<1> USE DEF Prefix, QuotesTo
<1>1. t \in Nat /\ e \in Nat BY MarketConstants DEF Days
<1>2. ASSUME NEW k \in DOMAIN quotes', quotes'[k].at <= t
      PROVE  k \in DOMAIN quotes /\ quotes'[k] = quotes[k]
  <2>1. quotes'[k] \in Quotes OBVIOUS
  <2>2. quotes'[k].at \in Nat BY <2>1, MarketConstants DEF Quotes, Days
  <2>3. quotes'[k].at <= e BY <1>1, <1>2, <2>2
  <2>4. k \in DOMAIN quotes BY <2>3
  <2> QED BY <2>4
<1>3. ASSUME NEW line
      PROVE  OnLineOf(quotes', p, line, source, t) = OnLineOf(quotes, p, line, source, t)
  <2> DEFINE ks == Line(quotes, p, line, source, t)
  <2>1. Line(quotes', p, line, source, t) = ks /\ ks \in SUBSET DOMAIN quotes
    BY <1>2 DEF Line
  <2> HIDE DEF ks
  <2>2. CASE ks = {} BY <2>1, <2>2 DEF OnLineOf, LatestOf, ks
  <2>3. CASE ks # {}
    <3> DEFINE l == LatestOf(quotes, ks)
    <3>1. l \in ks /\ \A j \in ks : Newer(quotes, j, l) BY <2>1, <2>3, LatestIs
    <3>2. \A j \in ks : Newer(quotes', j, l) BY <2>1, <3>1 DEF Newer
    <3>3. ks \in SUBSET DOMAIN quotes' BY <2>1
    <3> HIDE DEF l
    <3>4. LatestOf(quotes', ks) = l BY <3>1, <3>2, <3>3, LatestUnique
    <3> QED BY <2>1, <3>4 DEF OnLineOf, ks, l
  <2> QED BY <2>2, <2>3
<1> QED BY <1>3 DEF SelectedOf

\* A preference of now is asked for only when none was logged by the first day.
LEMMA SourceStays ==
  ASSUME NEW p, NEW s \in Days, NEW e \in Days, NEW t \in {s, e}, s <= e,
         observed \in Seq(Observations), observed' \in Seq(Observations),
         Prefix(observed, observed'),
         LoggedOf(p, e)' = LoggedOf(p, e),
         (\A k \in LoggedOf(p, e) : observed[k].at > s) => PreferenceOf(p)' = PreferenceOf(p)
  PROVE  SourceAt(p, t)' = SourceAt(p, t)
<1> USE DEF Prefix, LoggedOf
<1>1. s \in Nat /\ e \in Nat /\ t \in Nat /\ s <= t /\ t <= e BY MarketConstants DEF Days
<1>2. \A k \in DOMAIN observed' : observed'[k].at \in Nat
  <2>1. \A k \in DOMAIN observed' : observed'[k] \in Observations OBVIOUS
  <2> QED BY <2>1, MarketConstants DEF Observations, Days
<1> DEFINE mine == {k \in DOMAIN observed : observed[k].subject = p /\ observed[k].at <= t}
           new == {k \in DOMAIN observed' : observed'[k].subject = p /\ observed'[k].at <= t}
<1>3. new = mine /\ mine \subseteq DOMAIN observed
  <2>1. ASSUME NEW k \in new PROVE k \in mine
    <3>1. observed'[k].at <= e BY <1>1, <1>2
    <3>2. k \in DOMAIN observed BY <3>1
    <3> QED BY <3>2
  <2> QED BY <2>1
<1>4. /\ SourceAt(p, t) = IF mine # {} THEN observed[Max(mine)].source ELSE PreferenceOf(p)
      /\ SourceAt(p, t)' = IF new # {} THEN observed'[Max(new)].source ELSE PreferenceOf(p)'
  BY DEF SourceAt
<1>5. ASSUME mine = {} PROVE PreferenceOf(p)' = PreferenceOf(p)
  <2>1. \A k \in LoggedOf(p, e) : observed[k].at > s
    <3> SUFFICES ASSUME NEW k \in LoggedOf(p, e) PROVE observed[k].at > s
      OBVIOUS
    <3>1. observed[k].at \in Nat BY <1>2
    <3>2. ~(observed[k].at <= t) BY <1>5
    <3> QED BY <1>1, <3>1, <3>2
  <2> QED BY <2>1
<1> HIDE DEF mine, new
<1>6. ASSUME mine # {} PROVE Max(mine) \in mine
  <2>1. mine \in SUBSET (0 .. Len(observed)) /\ Len(observed) \in Nat BY <1>3
  <2> QED BY <1>6, <2>1, MaxUpTo
<1>7. CASE mine = {} BY <1>3, <1>4, <1>5, <1>7
<1>8. CASE mine # {} BY <1>3, <1>4, <1>6, <1>8
<1> QED BY <1>7, <1>8

LEMMA RecordedParts ==
  ASSUME NEW b, NEW s \in Days, NEW e \in Days, Recorded(b, s, e)' = Recorded(b, s, e)
  PROVE  /\ benchmarks'[b].carry = benchmarks[b].carry
         /\ LevelsOf(b, e)' = LevelsOf(b, e)
         /\ QuotesTo(e)' = QuotesTo(e)
         /\ LoggedOf(PairOf[b], e)' = LoggedOf(PairOf[b], e)
         /\ PairOf[b] # None
              /\ (\A k \in LoggedOf(PairOf[b], e) : observed[k].at > s)
              /\ (\A k \in LoggedOf(PairOf[b], e)' : observed'[k].at > s)
            => PreferenceOf(PairOf[b])' = PreferenceOf(PairOf[b])
<1> DEFINE R == Recorded(b, s, e)
<1>1. /\ R'.carry = R.carry /\ R'.levels = R.levels /\ R'.quotes = R.quotes
      /\ R'.preferences = R.preferences /\ R'.current = R.current
  OBVIOUS
<1>2. /\ R.carry = benchmarks[b].carry /\ R'.carry = benchmarks'[b].carry
      /\ R.levels = LevelsOf(b, e) /\ R'.levels = LevelsOf(b, e)'
      /\ R.quotes = QuotesTo(e) /\ R'.quotes = QuotesTo(e)'
  BY DEF Recorded, LevelsOf, QuotesTo
<1> DEFINE told == {k \in {n \in DOMAIN observed : observed[n].at <= e} : observed[k].subject = PairOf[b]}
           now == {k \in {n \in DOMAIN observed' : observed'[n].at <= e} : observed'[k].subject = PairOf[b]}
<1>3. /\ R.preferences = told /\ R'.preferences = now
      /\ R.current = IF PairOf[b] # None /\ \A k \in told : observed[k].at > s
                     THEN PreferenceOf(PairOf[b]) ELSE None
      /\ R'.current = IF PairOf[b] # None /\ \A k \in now : observed'[k].at > s
                      THEN PreferenceOf(PairOf[b])' ELSE None
  BY DEF Recorded
<1>4. LoggedOf(PairOf[b], e) = told /\ LoggedOf(PairOf[b], e)' = now BY DEF LoggedOf
<1> HIDE DEF R, told, now
<1> QED BY <1>1, <1>2, <1>3, <1>4

LEMMA MinIsLast ==
  ASSUME NEW e \in Days, NEW n \in Nat, e < n PROVE Min({e, n - 1}) = e
<1>1. e \in Int /\ n - 1 \in Int /\ e <= n - 1 BY MarketConstants DEF Days
<1>2. Min({e, n - 1}) \in {e, n - 1} /\ Min({e, n - 1}) <= e BY <1>1, MinOfTwo
<1> QED BY <1>1, <1>2

LEMMA SelectedStays ==
  ASSUME NEW b \in Series, NEW s \in Days, NEW e \in Days, s <= e,
         \A d \in {s, e} : /\ Eligible(b, d)' = Eligible(b, d) /\ LevelAt(b, d)' = LevelAt(b, d)
                           /\ PairOf[b] # None => RateAt(b, d)' = RateAt(b, d)
  PROVE  CompareSelected(b, s, e)' = CompareSelected(b, s, e)
<1>1. \A d \in {s, e} : HasRate(b, d)' = HasRate(b, d) BY DEF HasRate
<1>2. {d \in {s, e} : Eligible(b, d)' = "missing"} = {d \in {s, e} : Eligible(b, d) = "missing"}
      /\ {d \in {s, e} : Eligible(b, d)' = "stale"} = {d \in {s, e} : Eligible(b, d) = "stale"}
  OBVIOUS
<1>3. [d \in {s, e} |-> LevelAt(b, d)'] = [d \in {s, e} |-> LevelAt(b, d)]
  OBVIOUS
<1>4. [d \in {s, e} |-> IF PairOf[b] = None THEN 0 ELSE RateAt(b, d)'] =
      [d \in {s, e} |-> IF PairOf[b] = None THEN 0 ELSE RateAt(b, d)]
  OBVIOUS
<1> DEFINE Answer(missing, stale, first, last, level, rate) ==
      CASE missing # {} -> Withheld("missing_endpoint", missing)
        [] missing = {} /\ stale # {} -> Withheld("stale_carry", stale)
        [] missing \cup stale = {} /\ ~first -> Withheld("missing_fx", {s})
        [] missing \cup stale = {} /\ first /\ ~last -> Withheld("missing_fx", {e})
        [] OTHER -> [answer |-> "return", level |-> level, rate |-> rate]
<1>5. CompareSelected(b, s, e) =
        Answer({d \in {s, e} : Eligible(b, d) = "missing"}, {d \in {s, e} : Eligible(b, d) = "stale"},
               HasRate(b, s), HasRate(b, e), [d \in {s, e} |-> LevelAt(b, d)],
               [d \in {s, e} |-> IF PairOf[b] = None THEN 0 ELSE RateAt(b, d)])
  BY Zenon DEF CompareSelected
<1>6. CompareSelected(b, s, e)' =
        Answer({d \in {s, e} : Eligible(b, d)' = "missing"}, {d \in {s, e} : Eligible(b, d)' = "stale"},
               HasRate(b, s)', HasRate(b, e)', [d \in {s, e} |-> LevelAt(b, d)'],
               [d \in {s, e} |-> IF PairOf[b] = None THEN 0 ELSE RateAt(b, d)'])
  BY Zenon DEF CompareSelected, Withheld
<1>7. HasRate(b, s)' = HasRate(b, s) /\ HasRate(b, e)' = HasRate(b, e) BY <1>1
<1> HIDE DEF Answer
<1> QED BY <1>2, <1>3, <1>4, <1>5, <1>6, <1>7, Zenon

\* The comparison of a closed period is final but for what is recorded about days of that
\* period or before: whatever else is entered, preferred, archived or chosen, and as days
\* pass, it takes the same levels and rates or is withheld for the same days
\* (application/benchmark_service.rs get_benchmark_comparison).
THEOREM ComparisonsAreFinal == BenchmarksSpec => ComparisonIsFinal
<1>1. ASSUME BenchmarksInv, BenchmarksInv', [BenchmarksNext]_<<vars, benchmarkVars>>,
             NEW b \in Series, NEW s \in Days, NEW e \in Days,
             Created(b), s <= e, e < today, Recorded(b, s, e)' = Recorded(b, s, e)
      PROVE  Comparison(b, s, e)' = Comparison(b, s, e)
  <2>1. /\ Prefix(quotes, quotes') /\ Prefix(observed, observed') /\ today <= today'
        /\ Prefix(levels, levels') /\ levels' \in Seq(LevelRows)
    BY <1>1, BenchmarksGrow
  <2>2. /\ TypeOK /\ TypeOK' /\ levels \in Seq(LevelRows) BY <1>1 DEF BenchmarksInv, IInv
  <2>3. /\ today \in Nat /\ today' \in Nat /\ quotes \in Seq(Quotes) /\ quotes' \in Seq(Quotes)
        /\ observed \in Seq(Observations) /\ observed' \in Seq(Observations)
    BY <2>2, MarketConstants DEF TypeOK, Days
  <2>4. s \in Nat /\ e \in Nat BY MarketConstants DEF Days
  <2>5. /\ benchmarks'[b].carry = benchmarks[b].carry
        /\ LevelsOf(b, e)' = LevelsOf(b, e)
        /\ QuotesTo(e)' = QuotesTo(e)
        /\ LoggedOf(PairOf[b], e)' = LoggedOf(PairOf[b], e)
    <3>1. Recorded(b, s, e)' = Recorded(b, s, e) BY <1>1
    <3> QED BY <3>1, RecordedParts
  <2>6. ASSUME NEW d \in {s, e}
        PROVE  Eligible(b, d)' = Eligible(b, d) /\ LevelAt(b, d)' = LevelAt(b, d)
    <3>1. d \in Days /\ d <= e BY <1>1, <2>4
    <3> QED BY <2>1, <2>2, <2>5, <3>1, EligibleStays
  <2>7. ASSUME NEW d \in {s, e}, PairOf[b] # None PROVE RateAt(b, d)' = RateAt(b, d)
    <3>1. d \in Days /\ d <= e BY <1>1, <2>4
    <3>2. (\A k \in LoggedOf(PairOf[b], e) : observed[k].at > s)
          => PreferenceOf(PairOf[b])' = PreferenceOf(PairOf[b])
      <4> SUFFICES ASSUME \A k \in LoggedOf(PairOf[b], e) : observed[k].at > s
                   PROVE  PreferenceOf(PairOf[b])' = PreferenceOf(PairOf[b])
        OBVIOUS
      <4>1. ASSUME NEW k \in LoggedOf(PairOf[b], e)' PROVE observed'[k].at > s
        <5>1. k \in LoggedOf(PairOf[b], e) BY <2>5, <4>1
        <5>2. k \in DOMAIN observed BY <5>1 DEF LoggedOf
        <5>3. observed'[k] = observed[k] BY <2>1, <5>2 DEF Prefix
        <5> QED BY <5>1, <5>3
      <4> QED BY <1>1, <2>7, <4>1, RecordedParts
    <3>3. SourceAt(PairOf[b], d)' = SourceAt(PairOf[b], d)
      BY <1>1, <2>1, <2>3, <2>5, <3>2, SourceStays
    <3>4. /\ RateAt(b, d) = SelectedOf(quotes, PairOf[b], SourceAt(PairOf[b], d), d)
          /\ RateAt(b, d)' = SelectedOf(quotes', PairOf[b], SourceAt(PairOf[b], d)', d)
      BY DEF RateAt, Selected, SelectedOf, OnLine, OnLineOf, Latest, LatestOf, Line
    <3>5. PICK source : source = SourceAt(PairOf[b], d) OBVIOUS
    <3>6. SelectedOf(quotes', PairOf[b], source, d) = SelectedOf(quotes, PairOf[b], source, d)
      BY <2>1, <2>3, <2>5, <3>1, QuotesStay
    <3> QED BY <3>3, <3>4, <3>5, <3>6
  <2>8. CompareSelected(b, s, e)' = CompareSelected(b, s, e)
    BY <1>1, <2>6, <2>7, SelectedStays
  <2>9. PICK n, m : n = today /\ m = today' OBVIOUS
  <2>10. Min({e, n - 1}) = e /\ Min({e, m - 1}) = e
    <3>1. n \in Nat /\ m \in Nat /\ e < n /\ e < m BY <1>1, <2>1, <2>3, <2>4, <2>9
    <3> QED BY <3>1, MinIsLast
  <2>11. b # None BY BenchmarkConstants
  <2>12. /\ Comparison(b, s, e) = CompareSelected(b, s, e)
         /\ Comparison(b, s, e)' = CompareSelected(b, s, e)'
    BY <1>1, <2>4, <2>9, <2>10, <2>11 DEF Comparison
  <2> QED BY <2>8, <2>12
<1>2. BenchmarksInv /\ BenchmarksInv' /\ [BenchmarksNext]_<<vars, benchmarkVars>> =>
        (\A b \in Series, s \in Days, e \in Days :
           Created(b) /\ s <= e /\ e < today /\ Recorded(b, s, e)' = Recorded(b, s, e) =>
             Comparison(b, s, e)' = Comparison(b, s, e))
  BY <1>1
<1> QED BY <1>2, BenchmarksStart, BenchmarksStep, PTL DEF BenchmarksSpec, ComparisonIsFinal
=============================================================================
