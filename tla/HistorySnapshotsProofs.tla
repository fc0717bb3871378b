----------------------- MODULE HistorySnapshotsProofs -----------------------
(***************************************************************************)
(* Proofs about HistorySnapshots: its types, and that a wrong snapshot      *)
(* before the dirty marker is always one that a command overtook while a    *)
(* rebuild was in flight, for any calendar, batch size and number of        *)
(* rebuild loops and of commands that commit during them.                   *)
(***************************************************************************)
EXTENDS HistorySnapshots, TLAPS

-----------------------------------------------------------------------------
(* Types: of the household and the loops, and of what the page holds.         *)
(* PlansClosed carries what HouseTyped needs of the plans: a day that is      *)
(* about to be persisted is closed.  FactsBounded: the last day has seen      *)
(* every command.                                                            *)

HouseTyped ==
  /\ today \in Days
  /\ facts \in [Days -> 0 .. MaxCommands]
  /\ shown \in [Days -> -1 .. MaxCommands]
  /\ dirtyFrom \in 0 .. today
  /\ status \in Statuses
  /\ pc \in [Rebuilds -> Points]
  /\ plan \in [Rebuilds -> [from : 0 .. LastDay + 1, to : Days]]
  /\ worked \in [Rebuilds -> BOOLEAN]
  /\ stop \in [Rebuilds -> BOOLEAN]
  /\ sinceCancel \in [Rebuilds -> Int]
  /\ overtaken \subseteq Days
  /\ disturbances \in 0 .. MaxDisturbances

PageTyped ==
  /\ attached \subseteq Rebuilds /\ awaited \subseteq attached
  /\ progress \in [answered : BOOLEAN, remaining : BOOLEAN, cancelled : BOOLEAN]
  /\ fetched \in [remaining : BOOLEAN, status : Statuses]

PlansClosed ==
  \A r \in Rebuilds :
    /\ pc[r] \in {"mark", "check", "persist"} => plan[r].from <= plan[r].to
    /\ plan[r].from <= plan[r].to => plan[r].to <= LastClosed

FactsBounded == \A d \in Days : facts[d] <= facts[LastDay]

Typed == HouseTyped /\ PlansClosed /\ FactsBounded

LEMMA InitTyped == Init => Typed
<1> SUFFICES ASSUME Init PROVE Typed OBVIOUS
<1> USE SnapshotConstants
<1>1. Nothing \in [from : 0 .. LastDay + 1, to : Days] /\ ~(Nothing.from <= Nothing.to)
  BY DEF Nothing, Days
<1>2. \A r \in Rebuilds : pc[r] = "idle" /\ plan[r] = Nothing BY DEF Init
<1>3. PlansClosed BY <1>1, <1>2 DEF PlansClosed
<1>4. plan \in [Rebuilds -> [from : 0 .. LastDay + 1, to : Days]] BY <1>1 DEF Init
<1>5. /\ facts \in [Days -> 0 .. MaxCommands] /\ shown \in [Days -> -1 .. MaxCommands]
      /\ sinceCancel \in [Rebuilds -> Int]
  BY DEF Init
<1>6. today \in Days /\ dirtyFrom \in 0 .. today /\ disturbances \in 0 .. MaxDisturbances
  BY DEF Init, Days
<1>7. LastDay \in Days BY DEF Days
<1>8. FactsBounded BY <1>7 DEF Init, FactsBounded
<1> QED BY <1>3, <1>4, <1>5, <1>6, <1>8 DEF Init, Typed, HouseTyped, Statuses, Points

LEMMA PlanTyped ==
  ASSUME Typed, NEW r \in Rebuilds, Plan(r) PROVE Typed'
<1> USE SnapshotConstants DEF Typed
<1>1. CASE Remaining
  <2> DEFINE batch == [from |-> dirtyFrom, to |-> Earlier(LastClosed, dirtyFrom + MaxDays - 1)]
  <2>1. /\ plan' = [plan EXCEPT ![r] = batch]
        /\ pc' = [pc EXCEPT ![r] = "mark"]
        /\ UNCHANGED <<household, worked, stop, sinceCancel, page, overtaken, disturbances>>
    BY <1>1 DEF Plan
  <2>2. /\ today \in Int /\ dirtyFrom \in Int /\ 0 <= dirtyFrom /\ today <= LastDay
        /\ dirtyFrom <= LastClosed /\ LastClosed = today - 1
    BY <1>1 DEF HouseTyped, Days, Remaining, LastClosed
  <2>3. /\ batch.from = dirtyFrom /\ batch.from <= batch.to /\ batch.to <= LastClosed
        /\ batch \in [from : 0 .. LastDay + 1, to : Days]
    BY <2>2 DEF Earlier, Days
  <2> HIDE DEF batch
  <2>4. HouseTyped' BY <2>1, <2>3 DEF HouseTyped, household, Points
  <2>5. PlansClosed'
    <3>1. ASSUME NEW s \in Rebuilds
          PROVE  /\ pc'[s] \in {"mark", "check", "persist"} => plan'[s].from <= plan'[s].to
                 /\ plan'[s].from <= plan'[s].to => plan'[s].to <= LastClosed
      <4>1. CASE s = r BY <2>1, <2>3, <4>1 DEF HouseTyped
      <4>2. CASE s # r BY <2>1, <4>2 DEF HouseTyped, PlansClosed
      <4> QED BY <4>1, <4>2
    <3>2. LastClosed' = LastClosed BY <2>1 DEF LastClosed, household
    <3> QED BY <3>1, <3>2 DEF PlansClosed
  <2>6. FactsBounded' BY <2>1 DEF FactsBounded, household
  <2> QED BY <2>4, <2>5, <2>6
<1>2. CASE ~Remaining
  <2>1. /\ pc' = [pc EXCEPT ![r] = "finalize"]
        /\ UNCHANGED <<plan, household, worked, stop, sinceCancel, page, overtaken, disturbances>>
    BY <1>2 DEF Plan
  <2> QED BY <2>1 DEF HouseTyped, PlansClosed, FactsBounded, LastClosed, household, Points
<1> QED BY <1>1, <1>2

LEMMA PersistTyped ==
  ASSUME Typed, NEW r \in Rebuilds, Persist(r) PROVE Typed'
<1> USE SnapshotConstants DEF Typed
<1> DEFINE d == plan[r].from
<1>1. /\ plan[r].from \in 0 .. LastDay + 1 /\ plan[r].to \in Days /\ d <= plan[r].to
      /\ plan[r].to <= LastClosed /\ today \in Days /\ LastClosed = today - 1
      /\ d \in Days /\ d + 1 \in 0 .. today
  <2>1. pc[r] = "persist" BY DEF Persist
  <2>2. plan[r] \in [from : 0 .. LastDay + 1, to : Days] /\ today \in Days BY DEF HouseTyped
  <2>3. d <= plan[r].to /\ plan[r].to <= LastClosed BY <2>1 DEF PlansClosed
  <2> QED BY <2>2, <2>3 DEF Days, LastClosed
<1>2. HouseTyped'
  <2>1. sinceCancel' \in [Rebuilds -> Int] BY DEF HouseTyped, Persist
  <2>2. plan' \in [Rebuilds -> [from : 0 .. LastDay + 1, to : Days]]
    <3>1. [from |-> d + 1, to |-> plan[r].to] \in [from : 0 .. LastDay + 1, to : Days]
      BY <1>1 DEF Days
    <3> QED BY <3>1 DEF HouseTyped, Persist
  <2>3. shown' \in [Days -> -1 .. MaxCommands] BY <1>1 DEF HouseTyped, Persist
  <2> QED BY <1>1, <2>1, <2>2, <2>3 DEF HouseTyped, Persist, DirtyAfter, Statuses, Points
<1>3. PlansClosed'
  <2>1. ASSUME NEW s \in Rebuilds
        PROVE  /\ pc'[s] \in {"mark", "check", "persist"} => plan'[s].from <= plan'[s].to
               /\ plan'[s].from <= plan'[s].to => plan'[s].to <= LastClosed
    <3>1. CASE s = r
      <4>1. plan'[s].from = d + 1 /\ plan'[s].to = plan[r].to BY <3>1 DEF HouseTyped, Persist
      <4>2. pc'[s] = IF d < plan[r].to THEN "check" ELSE "finalize" BY <3>1 DEF HouseTyped, Persist
      <4> QED BY <1>1, <4>1, <4>2 DEF Days
    <3>2. CASE s # r BY <3>2 DEF HouseTyped, PlansClosed, Persist
    <3> QED BY <3>1, <3>2
  <2>2. LastClosed' = LastClosed BY DEF LastClosed, Persist
  <2> QED BY <2>1, <2>2 DEF PlansClosed
<1>4. FactsBounded' BY DEF FactsBounded, Persist
<1> QED BY <1>2, <1>3, <1>4

\* The other steps of a rebuild change neither the days nor the marker.
LEMMA EndTyped ==
  ASSUME Typed, NEW r \in Rebuilds, End(r), UNCHANGED today
  PROVE  /\ pc' \in [Rebuilds -> Points]
         /\ plan' \in [Rebuilds -> [from : 0 .. LastDay + 1, to : Days]]
         /\ worked' \in [Rebuilds -> BOOLEAN]
         /\ sinceCancel' \in [Rebuilds -> Int] /\ PlansClosed'
<1> USE SnapshotConstants DEF Typed
<1>1. Nothing \in [from : 0 .. LastDay + 1, to : Days] BY DEF Nothing, Days
<1>2. PlansClosed'
  <2>1. ASSUME NEW s \in Rebuilds
        PROVE  /\ pc'[s] \in {"mark", "check", "persist"} => plan'[s].from <= plan'[s].to
               /\ plan'[s].from <= plan'[s].to => plan'[s].to <= LastClosed
    <3>1. CASE s = r BY <3>1 DEF HouseTyped, End, Nothing
    <3>2. CASE s # r BY <3>2 DEF HouseTyped, PlansClosed, End
    <3> QED BY <3>1, <3>2
  <2> QED BY <2>1 DEF PlansClosed, LastClosed
<1>3. plan' \in [Rebuilds -> [from : 0 .. LastDay + 1, to : Days]] BY <1>1 DEF HouseTyped, End
<1> QED BY <1>2, <1>3 DEF HouseTyped, End, Points

LEMMA WorkTyped ==
  ASSUME Typed, NEW r \in Rebuilds, Work(r) PROVE Typed'
<1> USE SnapshotConstants
<1>1. CASE Plan(r) BY <1>1, PlanTyped
<1>2. CASE Persist(r) BY <1>2, PersistTyped
<1>3. CASE MarkRunning(r)
  BY <1>3 DEF MarkRunning, Typed, HouseTyped, PlansClosed, FactsBounded, LastClosed, Statuses, Points
<1>4. CASE Check(r)
  <2>1. UNCHANGED <<household, stop, overtaken, disturbances>> BY <1>4 DEF Check
  <2>2. CASE End(r) BY <2>1, <2>2, EndTyped DEF household, Typed, HouseTyped, FactsBounded
  <2>3. CASE /\ pc[r] = "check" /\ pc' = [pc EXCEPT ![r] = "persist"]
             /\ UNCHANGED <<plan, worked, sinceCancel>>
    BY <2>1, <2>3
       DEF household, Typed, HouseTyped, PlansClosed, FactsBounded, LastClosed, Points
  <2> QED BY <1>4, <2>2, <2>3 DEF Check
<1>5. CASE Finalize(r)
  <2>1. /\ UNCHANGED <<today, facts, shown, dirtyFrom, stop, overtaken, disturbances>>
        /\ status' \in Statuses
    BY <1>5 DEF Finalize, Typed, HouseTyped, Statuses
  <2>2. CASE End(r) BY <2>1, <2>2, EndTyped DEF Typed, HouseTyped, FactsBounded
  <2>3. CASE /\ pc' = [pc EXCEPT ![r] = "plan"]
             /\ plan' = [plan EXCEPT ![r] = Nothing]
             /\ worked' = [worked EXCEPT ![r] = FALSE]
             /\ UNCHANGED sinceCancel
    <3>1. Nothing \in [from : 0 .. LastDay + 1, to : Days] /\ ~(Nothing.from <= Nothing.to)
      BY DEF Nothing, Days
    <3>2. PlansClosed' BY <2>1, <2>3, <3>1 DEF Typed, HouseTyped, PlansClosed, LastClosed
    <3>3. plan' \in [Rebuilds -> [from : 0 .. LastDay + 1, to : Days]]
      BY <2>3, <3>1 DEF Typed, HouseTyped
    <3> QED BY <2>1, <2>3, <3>2, <3>3 DEF Typed, HouseTyped, FactsBounded, Points
  <2> QED BY <1>5, <2>2, <2>3 DEF Finalize
<1>6. CASE MarkFailed(r)
  BY <1>6, EndTyped DEF MarkFailed, Typed, HouseTyped, FactsBounded, Statuses
<1> QED BY <1>1, <1>2, <1>3, <1>4, <1>5, <1>6 DEF Work

LEMMA FailTyped ==
  ASSUME Typed, NEW r \in Rebuilds, Fail(r) PROVE Typed'
<1> USE SnapshotConstants
<1>1. UNCHANGED <<household, stop, overtaken>> /\ disturbances' \in 0 .. MaxDisturbances
  BY DEF Fail, Disturb, Typed, HouseTyped
<1>2. CASE End(r) BY <1>1, <1>2, EndTyped DEF household, Typed, HouseTyped, FactsBounded
<1>3. CASE /\ pc' = [pc EXCEPT ![r] = "failing"]
           /\ UNCHANGED <<plan, worked, sinceCancel>>
  BY <1>1, <1>3 DEF household, Typed, HouseTyped, PlansClosed, FactsBounded, LastClosed, Points
<1> QED BY <1>2, <1>3 DEF Fail

\* A command is dated no later than today, so the last day counts it.
LEMMA CommandTyped ==
  ASSUME Typed, NEW d \in Days, Command(d) PROVE Typed'
<1> USE SnapshotConstants
<1>1. /\ d <= today /\ facts[LastDay] < MaxCommands
      /\ facts' = [k \in Days |-> IF k >= d THEN facts[k] + 1 ELSE facts[k]]
      /\ dirtyFrom' = Earlier(dirtyFrom, d)
      /\ UNCHANGED <<today, shown, status, loops, disturbances>>
  BY DEF Command, loops
<1>2. /\ LastDay \in Days /\ d <= LastDay
      /\ facts \in [Days -> 0 .. MaxCommands] /\ \A k \in Days : facts[k] <= facts[LastDay]
  BY DEF Days, Typed, HouseTyped, FactsBounded
<1>3. facts' \in [Days -> 0 .. MaxCommands] BY <1>1, <1>2
<1>4. FactsBounded'
  <2>1. facts'[LastDay] = facts[LastDay] + 1 BY <1>1, <1>2 DEF Days
  <2>2. ASSUME NEW k \in Days PROVE facts'[k] <= facts[k] + 1 /\ facts[k] <= facts[LastDay]
    BY <1>1, <1>2
  <2>3. \A k \in Days : facts[k] \in Int /\ facts'[k] \in Int BY <1>2, <1>3
  <2> QED BY <1>2, <2>1, <2>2, <2>3 DEF FactsBounded
<1>5. dirtyFrom' \in 0 .. today BY <1>1 DEF Earlier, Typed, HouseTyped, Days
<1>6. overtaken' \subseteq Days BY DEF Command, Typed, HouseTyped
<1> QED BY <1>1, <1>3, <1>4, <1>5, <1>6 DEF Typed, HouseTyped, PlansClosed, LastClosed, loops

LEMMA StartTyped ==
  ASSUME Typed, NEW r \in Rebuilds, Start(r) PROVE Typed'
<1> USE SnapshotConstants
<1>1. PlansClosed' BY DEF Start, household, Typed, HouseTyped, PlansClosed, LastClosed
<1>2. FactsBounded' BY DEF Start, household, Typed, FactsBounded
<1>3. stop' \in [Rebuilds -> BOOLEAN]
  BY DEF Start, Typed, HouseTyped
<1>4. pc' \in [Rebuilds -> Points] /\ sinceCancel' \in [Rebuilds -> Int]
  BY DEF Start, Typed, HouseTyped, Points
<1> QED BY <1>1, <1>2, <1>3, <1>4 DEF Start, household, Typed, HouseTyped

LEMMA CancelTyped ==
  ASSUME Typed, Cancel, disturbances' \in 0 .. MaxDisturbances PROVE Typed'
<1> USE SnapshotConstants
<1>1. PlansClosed' BY DEF Cancel, Typed, PlansClosed, LastClosed
<1>2. FactsBounded' BY DEF Cancel, Typed, FactsBounded
<1>3. stop' \in [Rebuilds -> BOOLEAN]
  <2>1. \A r \in Rebuilds : (r \in attached \/ stop[r]) \in BOOLEAN BY Zenon
  <2> QED BY <2>1, Zenon DEF Cancel
<1>4. sinceCancel' \in [Rebuilds -> Int] BY DEF Cancel
<1> QED BY <1>1, <1>2, <1>3, <1>4 DEF Cancel, Typed, HouseTyped, Statuses

LEMMA RestartTyped ==
  ASSUME Typed, Restart PROVE Typed'
<1> USE SnapshotConstants
<1>1. Nothing \in [from : 0 .. LastDay + 1, to : Days] /\ ~(Nothing.from <= Nothing.to)
  BY DEF Nothing, Days
<1>2. plan' \in [Rebuilds -> [from : 0 .. LastDay + 1, to : Days]] BY <1>1 DEF Restart
<1>3. PlansClosed' BY <1>1 DEF Restart, PlansClosed
<1>4. disturbances' \in 0 .. MaxDisturbances BY DEF Restart, Disturb, Typed, HouseTyped
<1>5. /\ pc' \in [Rebuilds -> Points] /\ sinceCancel' \in [Rebuilds -> Int]
  <2>1. pc' \in [Rebuilds -> Points] BY DEF Restart, Points
  <2>2. sinceCancel' \in [Rebuilds -> Int] BY DEF Restart
  <2> QED BY <2>1, <2>2
<1>7. worked' \in [Rebuilds -> BOOLEAN] /\ stop' \in [Rebuilds -> BOOLEAN]
  BY Zenon DEF Restart
<1>6. UNCHANGED <<today, facts, shown, dirtyFrom, status, overtaken>>
  BY DEF Restart, household
<1> QED BY <1>2, <1>3, <1>4, <1>5, <1>6, <1>7 DEF Typed, HouseTyped, FactsBounded

LEMMA NextTyped == Typed /\ [Next]_vars => Typed'
<1> SUFFICES ASSUME Typed, [Next]_vars PROVE Typed' OBVIOUS
<1> USE SnapshotConstants
<1>1. ASSUME NEW d \in Days, Command(d) PROVE Typed' BY <1>1, CommandTyped
<1>2. CASE NextDay
  <2>1. today' \in Days /\ dirtyFrom' \in 0 .. today' BY <1>2 DEF NextDay, Typed, HouseTyped, Days
  <2>2. PlansClosed'
    <3>1. /\ plan \in [Rebuilds -> [from : 0 .. LastDay + 1, to : Days]] /\ today \in Days
          /\ today' = today + 1 /\ plan' = plan /\ pc' = pc
      BY <1>2 DEF NextDay, loops, Typed, HouseTyped
    <3>2. ASSUME NEW r \in Rebuilds PROVE plan[r].to \in Int
      BY <3>1 DEF Days
    <3> QED BY <3>1, <3>2 DEF Typed, PlansClosed, LastClosed, Days
  <2> QED BY <1>2, <2>1, <2>2 DEF NextDay, loops, Typed, HouseTyped, FactsBounded
<1>3. ASSUME NEW r \in Rebuilds, Start(r) PROVE Typed' BY <1>3, StartTyped
<1>4. ASSUME NEW r \in Rebuilds, Work(r) PROVE Typed' BY <1>4, WorkTyped
<1>5. ASSUME NEW r \in Rebuilds, Fail(r) PROVE Typed' BY <1>5, FailTyped
<1>6. CASE CancelInFlight
  <2>1. Cancel BY <1>6 DEF CancelInFlight
  <2>2. disturbances' \in 0 .. MaxDisturbances
    BY <1>6 DEF CancelInFlight, Disturb, Typed, HouseTyped
  <2> QED BY <2>1, <2>2, CancelTyped
<1>7. CASE CancelLeftOver BY <1>7, CancelTyped DEF CancelLeftOver, Typed, HouseTyped
<1>8. CASE Reopen
  <2>1. UNCHANGED <<household, loops, overtaken>> /\ disturbances' \in 0 .. MaxDisturbances
    BY <1>8 DEF Reopen, Disturb, Typed, HouseTyped
  <2> QED BY <2>1
       DEF household, loops, Typed, HouseTyped, PlansClosed, FactsBounded, LastClosed
<1>11. CASE Revisit
  BY <1>11
     DEF Revisit, household, loops, Typed, HouseTyped, PlansClosed, FactsBounded, LastClosed
<1>9. CASE Restart BY <1>9, RestartTyped
<1>10. CASE UNCHANGED vars
  BY <1>10 DEF vars, household, loops, Typed, HouseTyped, PlansClosed, FactsBounded, LastClosed
<1> QED BY <1>1, <1>2, <1>3, <1>4, <1>5, <1>6, <1>7, <1>8, <1>9, <1>10, <1>11 DEF Next

\* What the page takes over from an answer has the type of an answer.
LEMMA AnswersTyped ==
  /\ \A s \in Statuses : \A marker :
       StatusOf(marker, s) \in [remaining : BOOLEAN, status : Statuses]
  /\ NoResult \in [answered : BOOLEAN, remaining : BOOLEAN, cancelled : BOOLEAN]
  /\ \A c \in BOOLEAN :
       Result(c) \in [answered : BOOLEAN, remaining : BOOLEAN, cancelled : BOOLEAN]
<1>1. \A marker : (marker <= LastClosed) \in BOOLEAN BY SMT
<1>2. Remaining \in BOOLEAN BY SMT DEF Remaining
<1>3. \A s \in Statuses : \A marker :
        StatusOf(marker, s) \in [remaining : BOOLEAN, status : Statuses]
  BY <1>1, Zenon DEF StatusOf
<1>4. \A c \in BOOLEAN :
        Result(c) \in [answered : BOOLEAN, remaining : BOOLEAN, cancelled : BOOLEAN]
  BY <1>2, Zenon DEF Result
<1> QED BY <1>3, <1>4, Zenon DEF NoResult

LEMMA PageStep ==
  ASSUME Typed, PageTyped, [Next]_vars PROVE PageTyped'
<1> USE AnswersTyped
<1>s. status \in Statuses /\ "idle" \in Statuses BY DEF Typed, HouseTyped, Statuses
<1>1. ASSUME NEW d \in Days, Command(d) PROVE PageTyped'
  BY <1>1, <1>s DEF Command, PageTyped
<1>2. CASE NextDay BY <1>2 DEF NextDay, page, PageTyped
<1>3. ASSUME NEW r \in Rebuilds, Start(r) PROVE PageTyped' BY <1>3 DEF Start, PageTyped
<1>e. ASSUME NEW r \in Rebuilds, End(r)
      PROVE  attached' \subseteq Rebuilds /\ awaited' \subseteq attached'
  BY <1>e DEF End, PageTyped
<1>o. ASSUME Open PROVE PageTyped' BY <1>o, <1>s DEF Open, PageTyped
<1>h. ASSUME NEW r \in Rebuilds, NEW c \in BOOLEAN, Shows(r, Result(c))
      PROVE  progress' \in [answered : BOOLEAN, remaining : BOOLEAN, cancelled : BOOLEAN]
  BY <1>h DEF Shows, PageTyped
<1>4. ASSUME NEW r \in Rebuilds, Work(r) PROVE PageTyped'
  <2>1. CASE Plan(r) BY <2>1 DEF Plan, page, PageTyped
  <2>2. CASE MarkRunning(r) BY <2>2 DEF MarkRunning, page, PageTyped
  <2>3. CASE Check(r)
    <3>1. CASE UNCHANGED page BY <3>1 DEF page, PageTyped
    <3>2. CASE End(r) /\ Shows(r, Result(TRUE)) /\ fetched' = StatusOf(dirtyFrom, status)
      BY <3>2, <1>e, <1>h, <1>s DEF PageTyped
    <3> QED BY <2>3, <3>1, <3>2 DEF Check
  <2>4. CASE Persist(r) BY <2>4 DEF Persist, page, PageTyped
  <2>5. CASE Finalize(r)
    <3>1. Shows(r, Result(FALSE)) BY <2>5 DEF Finalize
    <3>2. CASE UNCHANGED <<attached, awaited, fetched>>
      BY <3>1, <3>2, <1>h DEF PageTyped
    <3>3. CASE End(r) /\ fetched' = StatusOf(dirtyFrom, "idle")
      BY <3>1, <3>3, <1>e, <1>h, <1>s DEF PageTyped
    <3> QED BY <2>5, <3>2, <3>3 DEF Finalize
  <2>6. CASE MarkFailed(r) BY <2>6, <1>e DEF MarkFailed, PageTyped
  <2> QED BY <1>4, <2>1, <2>2, <2>3, <2>4, <2>5, <2>6 DEF Work
<1>5. ASSUME NEW r \in Rebuilds, Fail(r) PROVE PageTyped'
  BY <1>5, <1>e DEF Fail, PageTyped
<1>6. CASE Cancel BY <1>6, <1>s DEF Cancel, PageTyped
<1>7. CASE Reopen \/ Revisit \/ Restart BY <1>7, <1>o DEF Reopen, Revisit, Restart
<1>8. CASE UNCHANGED vars BY <1>8 DEF vars, page, PageTyped
<1> QED
  BY <1>1, <1>2, <1>3, <1>4, <1>5, <1>6, <1>7, <1>8 DEF Next, CancelInFlight, CancelLeftOver

\* The marker is never later than today, a plan never names a day that is not
\* closed, and a snapshot never claims facts no command has written yet.
THEOREM SnapshotTypes == Spec => []TypeOK
<1>1. Init => Typed BY InitTyped
<1>2. Typed /\ [Next]_vars => Typed' BY NextTyped
<1>3. Init => PageTyped BY AnswersTyped DEF Init, PageTyped, Statuses
<1>4. Typed /\ PageTyped /\ [Next]_vars => PageTyped' BY PageStep
<1>5. Typed /\ PageTyped => TypeOK BY DEF Typed, HouseTyped, PageTyped, TypeOK
<1> QED BY <1>1, <1>2, <1>3, <1>4, <1>5, PTL DEF Spec

-----------------------------------------------------------------------------
(* The truth of the snapshots.  TrustedUnlessOvertaken is not inductive: a    *)
(* plan that has been read decides where the marker will be, so the days      *)
(* before every plan that is under way must be right, or overtaken, too.      *)

TrustedBefore(n) == \A d \in Days : d < n => Fresh(d) \/ d \in overtaken

PlansBehindTruth == \A r \in Rebuilds : Underway(r) => TrustedBefore(plan[r].from)

Truthful == Typed /\ TrustedBefore(dirtyFrom) /\ PlansBehindTruth

LEMMA InitTruthful == Init => Truthful
<1> SUFFICES ASSUME Init PROVE Truthful OBVIOUS
<1>1. Typed BY InitTyped
<1>2. \A r \in Rebuilds : ~Underway(r) BY DEF Init, Underway
<1>3. TrustedBefore(dirtyFrom) BY DEF Init, TrustedBefore, Days
<1> QED BY <1>1, <1>2, <1>3 DEF Truthful, PlansBehindTruth

\* A step that leaves the snapshots, the facts and the marker alone keeps the
\* truth when every plan under way is one that was under way.
LEMMA QuietStep ==
  ASSUME Truthful, UNCHANGED <<facts, shown, dirtyFrom, overtaken>>,
         \A r \in Rebuilds : Underway(r)' => Underway(r) /\ plan'[r] = plan[r]
  PROVE  TrustedBefore(dirtyFrom)' /\ PlansBehindTruth'
<1>1. \A d \in Days : Fresh(d)' <=> Fresh(d) BY DEF Fresh
<1>2. TrustedBefore(dirtyFrom)' BY <1>1 DEF Truthful, TrustedBefore
<1>3. PlansBehindTruth' BY <1>1 DEF Truthful, PlansBehindTruth, TrustedBefore
<1> QED BY <1>2, <1>3

\* A plan starts at the marker, before which the snapshots are right.
LEMMA PlanTruthful ==
  ASSUME Truthful, NEW r \in Rebuilds, Plan(r)
  PROVE  TrustedBefore(dirtyFrom)' /\ PlansBehindTruth'
<1>1. /\ UNCHANGED <<facts, shown, dirtyFrom, overtaken>>
      /\ plan \in [Rebuilds -> [from : 0 .. LastDay + 1, to : Days]]
      /\ pc \in [Rebuilds -> Points]
  BY DEF Plan, household, Truthful, Typed, HouseTyped
<1>2. \A d \in Days : Fresh(d)' <=> Fresh(d) BY <1>1 DEF Fresh
<1>3. TrustedBefore(dirtyFrom)' BY <1>1, <1>2 DEF Truthful, TrustedBefore
<1>4. ASSUME NEW s \in Rebuilds, Underway(s)' PROVE TrustedBefore(plan[s].from)'
  <2>1. CASE s = r
    <3>1. plan'[s].from = dirtyFrom BY <1>1, <1>4, <2>1 DEF Plan, Underway
    <3> QED BY <1>1, <1>3, <3>1 DEF TrustedBefore
  <2>2. CASE s # r
    <3>1. Underway(s) /\ plan'[s] = plan[s] BY <1>1, <1>4, <2>2 DEF Plan, Underway
    <3> QED BY <1>1, <1>2, <3>1 DEF Truthful, PlansBehindTruth, TrustedBefore
  <2> QED BY <2>1, <2>2
<1> QED BY <1>3, <1>4 DEF PlansBehindTruth

\* Persisting a day makes it right; the days before it are right because the
\* plan was, so the marker may pass it.
LEMMA PersistTruthful ==
  ASSUME Truthful, NEW r \in Rebuilds, Persist(r)
  PROVE  TrustedBefore(dirtyFrom)' /\ PlansBehindTruth'
<1> DEFINE d == plan[r].from
<1>1. /\ facts' = facts /\ shown' = [shown EXCEPT ![d] = facts[d]] /\ dirtyFrom' = d + 1
      /\ plan' = [plan EXCEPT ![r] = [from |-> d + 1, to |-> plan[r].to]]
      /\ pc' = [pc EXCEPT ![r] = IF d < plan[r].to THEN "check" ELSE "finalize"]
      /\ overtaken' = overtaken \ {d}
      /\ pc[r] = "persist"
  BY DEF Persist, DirtyAfter
<1>2. /\ shown \in [Days -> -1 .. MaxCommands]
      /\ plan \in [Rebuilds -> [from : 0 .. LastDay + 1, to : Days]]
      /\ pc \in [Rebuilds -> Points]
      /\ d <= plan[r].to
  BY <1>1 DEF Truthful, Typed, HouseTyped, PlansClosed
<1>3. d \in Int /\ d \in Days BY <1>2, SnapshotConstants DEF Days
<1>5. \A k \in Days : k < d => Fresh(k) \/ k \in overtaken
  BY <1>1 DEF Truthful, PlansBehindTruth, Underway, TrustedBefore
<1> HIDE DEF d
<1>4. ASSUME NEW k \in Days, k = d \/ Fresh(k) \/ k \in overtaken
      PROVE  Fresh(k)' \/ k \in overtaken'
  BY <1>1, <1>2, <1>4 DEF Fresh
<1>6. \A k \in Days : k < d + 1 => Fresh(k)' \/ k \in overtaken'
  <2>1. ASSUME NEW k \in Days, k < d + 1 PROVE k = d \/ k < d BY <1>3, <2>1 DEF Days
  <2> QED BY <1>4, <1>5, <2>1
<1>7. TrustedBefore(dirtyFrom)' BY <1>1, <1>6 DEF TrustedBefore
<1>8. ASSUME NEW s \in Rebuilds, Underway(s)' PROVE TrustedBefore(plan[s].from)'
  <2>1. CASE s = r BY <1>1, <1>2, <1>6, <2>1 DEF TrustedBefore
  <2>2. CASE s # r
    <3>1. plan'[s] = plan[s] /\ Underway(s) BY <1>1, <1>2, <1>8, <2>2 DEF Underway
    <3> QED BY <1>4, <3>1 DEF Truthful, PlansBehindTruth, TrustedBefore
  <2> QED BY <2>1, <2>2
<1> QED BY <1>7, <1>8 DEF PlansBehindTruth

\* A command moves the marker back to the first day it changes; the days that a
\* plan under way has passed already are overtaken.
LEMMA CommandTruthful ==
  ASSUME Truthful, NEW d \in Days, Command(d)
  PROVE  TrustedBefore(dirtyFrom)' /\ PlansBehindTruth'
<1>1. /\ shown' = shown /\ plan' = plan /\ pc' = pc
      /\ facts' = [k \in Days |-> IF k >= d THEN facts[k] + 1 ELSE facts[k]]
      /\ dirtyFrom' = Earlier(dirtyFrom, d)
      /\ overtaken' = overtaken \cup {k \in Days : k >= d /\ \E r \in Rebuilds :
                                                     Underway(r) /\ k < plan[r].from}
  BY DEF Command, loops
<1>2. dirtyFrom \in Int /\ d \in Int BY DEF Truthful, Typed, HouseTyped, Days
<1>3. ASSUME NEW k \in Days, ~(k >= d), Fresh(k) \/ k \in overtaken
      PROVE  Fresh(k)' \/ k \in overtaken'
  BY <1>1, <1>3 DEF Fresh
<1>4. TrustedBefore(dirtyFrom)'
  <2>1. ASSUME NEW k \in Days, k < dirtyFrom' PROVE k < dirtyFrom /\ ~(k >= d)
    BY <1>1, <1>2, <2>1 DEF Earlier, Days
  <2> QED BY <1>3, <2>1 DEF Truthful, TrustedBefore
<1>5. ASSUME NEW r \in Rebuilds, Underway(r)', NEW k \in Days, k < plan'[r].from
      PROVE  Fresh(k)' \/ k \in overtaken'
  <2>1. Underway(r) /\ k < plan[r].from BY <1>1, <1>5 DEF Underway
  <2>2. CASE k >= d BY <1>1, <2>1, <2>2
  <2>3. CASE ~(k >= d) BY <1>3, <2>1, <2>3 DEF Truthful, PlansBehindTruth, TrustedBefore
  <2> QED BY <2>2, <2>3
<1> QED BY <1>4, <1>5 DEF PlansBehindTruth, TrustedBefore

LEMMA EndTruthful ==
  ASSUME Truthful, NEW r \in Rebuilds, End(r), UNCHANGED <<facts, shown, dirtyFrom, overtaken>>
  PROVE  TrustedBefore(dirtyFrom)' /\ PlansBehindTruth'
<1>1. /\ plan \in [Rebuilds -> [from : 0 .. LastDay + 1, to : Days]]
      /\ pc \in [Rebuilds -> Points]
  BY DEF Truthful, Typed, HouseTyped
<1>2. ~Underway(r)' /\ \A s \in Rebuilds \ {r} : plan'[s] = plan[s] /\ pc'[s] = pc[s]
  BY <1>1 DEF End, Underway
<1> QED BY <1>2, QuietStep DEF Underway

LEMMA NextTruthful ==
  ASSUME Truthful, [Next]_vars PROVE Truthful'
<1>1. Typed' BY NextTyped DEF Truthful
<1> DEFINE Goal == TrustedBefore(dirtyFrom)' /\ PlansBehindTruth'
<1> SUFFICES Goal BY <1>1 DEF Truthful
<1>t. /\ plan \in [Rebuilds -> [from : 0 .. LastDay + 1, to : Days]]
      /\ pc \in [Rebuilds -> Points]
  BY DEF Truthful, Typed, HouseTyped
<1>2. ASSUME NEW d \in Days, Command(d) PROVE Goal BY <1>2, CommandTruthful
<1>3. CASE NextDay BY <1>3, QuietStep DEF NextDay, loops, Underway
<1>4. ASSUME NEW r \in Rebuilds, Start(r) PROVE Goal
  BY <1>4, <1>t, QuietStep DEF Start, household, Underway
<1>5. ASSUME NEW r \in Rebuilds, Work(r) PROVE Goal
  <2>1. CASE Plan(r) BY <2>1, PlanTruthful
  <2>2. CASE Persist(r) BY <2>2, PersistTruthful
  <2>3. CASE MarkRunning(r) BY <2>3, <1>t, QuietStep DEF MarkRunning, Underway
  <2>4. CASE Check(r)
    <3>1. UNCHANGED <<facts, shown, dirtyFrom, overtaken>> BY <2>4 DEF Check, household
    <3>2. CASE End(r) BY <3>1, <3>2, EndTruthful
    <3>3. CASE ~End(r) BY <2>4, <3>1, <3>3, <1>t, QuietStep DEF Check, Underway
    <3> QED BY <3>2, <3>3
  <2>5. CASE Finalize(r)
    <3>1. UNCHANGED <<facts, shown, dirtyFrom, overtaken>> BY <2>5 DEF Finalize
    <3>2. CASE End(r) BY <3>1, <3>2, EndTruthful
    <3>3. CASE ~End(r)
      <4>1. plan' = [plan EXCEPT ![r] = Nothing] /\ pc' = [pc EXCEPT ![r] = "plan"]
        BY <2>5, <3>3 DEF Finalize
      <4>2. ~Underway(r)' /\ \A s \in Rebuilds \ {r} : plan'[s] = plan[s] /\ pc'[s] = pc[s]
        BY <4>1, <1>t DEF Underway
      <4> QED BY <3>1, <4>2, QuietStep DEF Underway
    <3> QED BY <3>2, <3>3
  <2>6. CASE MarkFailed(r)
    <3>1. UNCHANGED <<facts, shown, dirtyFrom, overtaken>> /\ End(r) BY <2>6 DEF MarkFailed
    <3> QED BY <3>1, EndTruthful
  <2> QED BY <1>5, <2>1, <2>2, <2>3, <2>4, <2>5, <2>6 DEF Work
<1>6. ASSUME NEW r \in Rebuilds, Fail(r) PROVE Goal
  <2>1. UNCHANGED <<facts, shown, dirtyFrom, overtaken>> BY <1>6 DEF Fail, household
  <2>2. CASE End(r) BY <2>1, <2>2, EndTruthful
  <2>3. CASE ~End(r) BY <1>6, <2>1, <2>3, <1>t, QuietStep DEF Fail, Underway
  <2> QED BY <2>2, <2>3
<1>7. CASE Cancel BY <1>7, QuietStep DEF Cancel, Underway
<1>8. CASE Reopen \/ Revisit
  BY <1>8, QuietStep DEF Reopen, Revisit, household, loops, Underway
<1>9. CASE Restart
  <2>1. UNCHANGED <<facts, shown, dirtyFrom, overtaken>> /\ \A r \in Rebuilds : ~Underway(r)'
    BY <1>9 DEF Restart, household, Underway
  <2> QED BY <2>1, QuietStep
<1>10. CASE UNCHANGED vars BY <1>10, QuietStep DEF vars, household, loops, Underway
<1> QED
  BY <1>2, <1>3, <1>4, <1>5, <1>6, <1>7, <1>8, <1>9, <1>10
     DEF Next, CancelInFlight, CancelLeftOver

\* However many rebuild loops interleave, wherever they are cancelled, fail or are
\* cut off, and whichever commands commit between their days, a snapshot before the
\* marker is right unless a command changed its day after a rebuild that was under
\* way had passed it, and no rebuild has reconstructed the day since.
THEOREM SnapshotsTrue == Spec => []TrustedUnlessOvertaken
<1>1. Init => Truthful BY InitTruthful
<1>2. Truthful /\ [Next]_vars => Truthful' BY NextTruthful
<1>3. Truthful => TrustedUnlessOvertaken
  BY DEF Truthful, TrustedBefore, TrustedUnlessOvertaken
<1> QED BY <1>1, <1>2, <1>3, PTL DEF Spec
=============================================================================
