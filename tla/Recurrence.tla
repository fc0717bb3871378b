----------------------------- MODULE Recurrence -----------------------------
(***************************************************************************)
(* Calendar recurrence: Schedule of domain/sustainable.rs.  A date is the    *)
(* number of a day of a calendar whose months have the given lengths, so     *)
(* that a month shorter than the anchor's day happens in a few days.         *)
(***************************************************************************)
EXTENDS Integers, FiniteSets, FiniteSetsExt

CONSTANTS
  Months,        \* the months of the calendar, 0, 1, ...
  DaysIn,        \* month -> days in it
  MonthsPerYear, \* 12 in the code
  DaysPerWeek    \* 7 in the code

ASSUME CalendarConstants ==
  /\ IsFiniteSet(Months) /\ Months = 0 .. Cardinality(Months) - 1
  /\ DaysIn \in [Months -> Nat \ {0}]
  /\ MonthsPerYear \in Nat \ {0} /\ DaysPerWeek \in Nat \ {0}

FirstOf(m)  == MapThenSumSet(LAMBDA n : DaysIn[n], {n \in Months : n < m})
LastDate    == FirstOf(Cardinality(Months)) - 1
Calendar    == 0 .. LastDate
MonthOf(d)  == CHOOSE m \in Months : FirstOf(m) <= d /\ d < FirstOf(m) + DaysIn[m]
DayOf(d)    == d - FirstOf(MonthOf(d))
Earlier(x, y) == IF x <= y THEN x ELSE y

\* end = LastDate + 1 stands for a schedule without an end date.
Schedule(cadence, interval, start, end) ==
  [cadence |-> cadence, interval |-> interval, start |-> start, anchor |-> start, end |-> end]

ByMonth(s) == s.cadence \in {"monthly", "yearly"}
Step(s) == s.interval * (CASE s.cadence = "weekly" -> DaysPerWeek
                           [] s.cadence = "yearly" -> MonthsPerYear
                           [] OTHER -> 1)

\* Mutant of ClampedDay: the clamp of a short month sticks to the later ones.
StickyClampedDay(anchor, m) ==
  Min({DayOf(anchor)} \cup {DaysIn[n] - 1 : n \in {k \in Months : MonthOf(anchor) <= k /\ k <= m}})

\* The anchor's day of the month, or the last day of a shorter month.
ClampedDay(anchor, m) == Earlier(DayOf(anchor), DaysIn[m] - 1)

\* month_occurrence; a date after the calendar stands for none.
MonthOccurrence(anchor, months) ==
  LET m == MonthOf(anchor) + months
  IN  IF m \in Months THEN FirstOf(m) + ClampedDay(anchor, m) ELSE LastDate + 1 + m

OccurrenceAt(s, i) ==
  IF ByMonth(s) THEN MonthOccurrence(s.anchor, i * Step(s)) ELSE s.anchor + i * Step(s)

CeilDiv(n, d) == IF n <= 0 THEN 0 ELSE (n + d - 1) \div d

\* first_index_at_or_after: an estimate, walked up to the first occurrence at
\* or after the target and back down while the one before still is.
FirstIndex(s, target) ==
  IF s.anchor >= target THEN 0
  ELSE LET distance == IF ByMonth(s) THEN MonthOf(target) - MonthOf(s.anchor)
                       ELSE target - s.anchor
           rough == CeilDiv(distance, Step(s))
           up == CHOOSE i \in rough .. rough + Cardinality(Calendar) :
                   /\ OccurrenceAt(s, i) >= target
                   /\ \A j \in rough .. i - 1 : OccurrenceAt(s, j) < target
       IN  CHOOSE i \in 0 .. up :
             /\ \A j \in i .. up - 1 : OccurrenceAt(s, j) >= target
             /\ i > 0 => OccurrenceAt(s, i - 1) < target

\* The occurrences from the index of `from`, later than `after`, up to the
\* schedule's end and `through`.
Window(s, from, after, through) ==
  LET first == FirstIndex(s, from)
  IN  {d \in {OccurrenceAt(s, i) : i \in first .. first + Cardinality(Calendar)} :
         d \in Calendar /\ after < d /\ d <= Earlier(s.end, through)}

OccurrencesThrough(s, through)     == Window(s, s.start, s.start - 1, through)
OccurrencesAfter(s, after, through) ==
  IF Earlier(s.end, through) <= after THEN {} ELSE Window(s, after, after, through)

\* What the schedule means, without an index: every interval-th day, or the
\* anchor's day (or the last one) of every interval-th month.
Falls(s, d) ==
  /\ s.start <= d /\ d <= s.end
  /\ IF ByMonth(s)
     THEN /\ (MonthOf(d) - MonthOf(s.anchor)) % Step(s) = 0
          /\ \/ DayOf(d) = DayOf(s.anchor)
             \/ DayOf(d) = DaysIn[MonthOf(d)] - 1 /\ DayOf(d) < DayOf(s.anchor)
     ELSE (d - s.anchor) % Step(s) = 0
=============================================================================
