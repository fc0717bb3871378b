-------------------------- MODULE HistorySnapshots --------------------------
(***************************************************************************)
(* The daily valuation snapshots and their rebuild:                         *)
(* application/history_snapshot_service.rs, the marker that every mutation  *)
(* of historical facts sets (history_repositories.rs), and the page that    *)
(* drives the rebuild (features/overview/net-worth-trend.tsx).              *)
(*                                                                         *)
(* A rebuild is not one transaction: it plans in a read transaction, marks  *)
(* itself running, and then checks for a cancellation and persists one day  *)
(* at a time.  Commands, cancellations and other rebuilds may commit        *)
(* between any two of those steps.                                          *)
(*                                                                         *)
(* The page decides by what it holds, not by what the database says now: the *)
(* status it fetched last, and the result of the last call, which it prefers *)
(* to the status as long as it stays open.                                   *)
(*                                                                         *)
(* Day 0 is the local date of the History Origin.  Of the historical facts  *)
(* of a day only their version is kept: the number of commands so far that  *)
(* are dated on or before it.  Revisions are append-only, so a snapshot is  *)
(* the version its latest revision was reconstructed from.                  *)
(***************************************************************************)
EXTENDS Integers, FiniteSets

CONSTANTS
  Rebuilds,            \* loops of the page that may be in flight
  LastDay,             \* bound on the calendar
  MaxDays,             \* days one command may rebuild (MAX_REBUILD_DAYS, 366)
  MaxCommands,         \* bound on the commands that change historical facts
  MaxDisturbances      \* bound on cancellations, failures, restarts, and on leaving
                       \* the page while a rebuild is in flight

Days == 0 .. LastDay

ASSUME SnapshotConstants ==
  /\ LastDay \in Nat /\ MaxDays \in Nat \ {0}
  /\ MaxCommands \in Nat /\ MaxDisturbances \in Nat

VARIABLES
  today,         \* the current local date
  facts,         \* day -> version of the facts its reconstruction reads
  shown,         \* day -> version of its latest snapshot, -1 for none
  dirtyFrom,     \* history_snapshot_state.dirty_from
  status,        \* history_snapshot_state.rebuild_status
  pc,            \* rebuild -> its next transaction
  plan,          \* rebuild -> the days it has still to persist
  worked,        \* rebuild -> has this command persisted a day?
  stop,          \* rebuild -> cancelRequested of the page that started it
  attached,      \* rebuilds of the page that is open
  awaited,       \* of them the one that was started last (rebuild.isPending)
  progress,      \* the result the page holds
  fetched,       \* the status the page holds
  sinceCancel,   \* rebuild -> days persisted since a cancellation, -1 for none
  overtaken,     \* days that changed after a rebuild in flight had passed them, and
                 \* were not reconstructed since; nothing in the program keeps it
  disturbances   \* how many disturbances there have been

household == <<today, facts, shown, dirtyFrom, status>>
loops     == <<pc, plan, worked, stop, sinceCancel>>
page      == <<attached, awaited, progress, fetched>>
vars      == <<household, loops, page, overtaken, disturbances>>

Statuses == {"idle", "running", "failed"}
Points   == {"idle", "plan", "mark", "check", "persist", "finalize", "failing"}

-----------------------------------------------------------------------------

LastClosed   == today - 1
Remaining    == dirtyFrom <= LastClosed
InFlight     == {r \in Rebuilds : pc[r] # "idle"}
Fresh(d)     == shown[d] = facts[d]
Nothing      == [from |-> 1, to |-> 0]
Earlier(a, b) == IF a < b THEN a ELSE b

\* Mutants of DirtyAfter: the marker jumps to today, or stays on the day.
DirtyToday(d) == today
DirtySame(d)  == d

\* Where persisting day d leaves the marker.
DirtyAfter(d) == d + 1

\* The page calls the command again: days remain, some were processed, and
\* nobody asked to cancel.
GoesOn(r) == Remaining /\ worked[r] /\ ~stop[r]

\* Does the plan of r still lead to a day that will be persisted?
Underway(r) == pc[r] \in {"mark", "check", "persist"}

\* Mutant of StatusOf: the day that closed last is left out.
StatusStrict(marker, s) == [remaining |-> marker < LastClosed, status |-> s]

\* What the page reads in the answer of get_history_status, and in that of a call
\* of the command.
StatusOf(marker, s) == [remaining |-> marker <= LastClosed, status |-> s]
NoResult            == [answered |-> FALSE, remaining |-> FALSE, cancelled |-> FALSE]
Result(cancelled)   == [answered |-> TRUE, remaining |-> Remaining, cancelled |-> cancelled]

\* A page that is still open, and has not asked to cancel, shows the result of r.
Shows(r, result) == progress' = IF r \in attached /\ ~stop[r] THEN result ELSE progress

\* What the page takes for a rebuild in progress, and offers to cancel.
Rebuilding == ~progress.cancelled /\ (awaited # {} \/ fetched.status = "running")

\* What the page takes for closed days left to rebuild.
DaysLeft == IF progress.answered THEN progress.remaining ELSE fetched.remaining

\* The panel with its button is shown.
Prompts == Rebuilding \/ DaysLeft \/ fetched.status = "failed"

Disturb == disturbances < MaxDisturbances /\ disturbances' = disturbances + 1

Init ==
  /\ today = 0
  /\ facts = [d \in Days |-> 0]
  /\ shown = [d \in Days |-> -1]
  /\ dirtyFrom = 0
  /\ status = "idle"
  /\ pc = [r \in Rebuilds |-> "idle"]
  /\ plan = [r \in Rebuilds |-> Nothing]
  /\ worked = [r \in Rebuilds |-> FALSE]
  /\ stop = [r \in Rebuilds |-> FALSE]
  /\ attached = {} /\ awaited = {}
  /\ progress = NoResult
  /\ fetched = StatusOf(0, "idle")
  /\ sinceCancel = [r \in Rebuilds |-> -1]
  /\ overtaken = {}
  /\ disturbances = 0

-----------------------------------------------------------------------------
(* The household                                                             *)

\* Any mutation of historical facts, dated d: mark_snapshots_dirty_from.  A
\* page that is open fetches the status again (invalidateValuation).
Command(d) ==
  /\ d <= today
  /\ facts[LastDay] < MaxCommands
  /\ facts' = [k \in Days |-> IF k >= d THEN facts[k] + 1 ELSE facts[k]]
  /\ dirtyFrom' = Earlier(dirtyFrom, d)
  /\ fetched' = StatusOf(dirtyFrom', status)
  /\ overtaken' = overtaken \cup {k \in Days : k >= d /\ \E r \in Rebuilds :
                                                          Underway(r) /\ k < plan[r].from}
  /\ UNCHANGED <<today, shown, status, loops, attached, awaited, progress, disturbances>>

\* Nothing tells the page that a day has closed.
NextDay ==
  /\ today < LastDay
  /\ today' = today + 1
  /\ UNCHANGED <<facts, shown, dirtyFrom, status, loops, page, overtaken, disturbances>>

-----------------------------------------------------------------------------
(* One rebuild                                                               *)

\* The loop of r ends.
End(r) ==
  /\ pc' = [pc EXCEPT ![r] = "idle"]
  /\ plan' = [plan EXCEPT ![r] = Nothing]
  /\ worked' = [worked EXCEPT ![r] = FALSE]
  /\ attached' = attached \ {r} /\ awaited' = awaited \ {r}
  /\ sinceCancel' = [sinceCancel EXCEPT ![r] = -1]

\* The button that runs, continues or retries a rebuild.
Start(r) ==
  /\ pc[r] = "idle"
  /\ Prompts /\ ~Rebuilding
  /\ pc' = [pc EXCEPT ![r] = "plan"]
  /\ stop' = [s \in Rebuilds |-> IF s \in attached \cup {r} THEN FALSE ELSE stop[s]]
  /\ attached' = attached \cup {r} /\ awaited' = {r}
  /\ progress' = NoResult
  /\ sinceCancel' = [s \in Rebuilds |-> -1]
  /\ UNCHANGED <<household, plan, worked, fetched, overtaken, disturbances>>

\* load_planned_days: at most MaxDays dirty days that are closed.
Plan(r) ==
  /\ pc[r] = "plan"
  /\ IF Remaining
     THEN /\ plan' = [plan EXCEPT ![r] = [from |-> dirtyFrom,
                                          to   |-> Earlier(LastClosed, dirtyFrom + MaxDays - 1)]]
          /\ pc' = [pc EXCEPT ![r] = "mark"]
     ELSE /\ pc' = [pc EXCEPT ![r] = "finalize"]
          /\ UNCHANGED plan
  /\ UNCHANGED <<household, worked, stop, sinceCancel, page, overtaken, disturbances>>

\* set_rebuilding_in_tx
MarkRunning(r) ==
  /\ pc[r] = "mark"
  /\ status' = "running"
  /\ pc' = [pc EXCEPT ![r] = "check"]
  /\ UNCHANGED <<today, facts, shown, dirtyFrom, plan, worked, stop, sinceCancel, page, overtaken,
                 disturbances>>

\* rebuild_was_cancelled: anything but "running" ends the rebuild.
Check(r) ==
  /\ pc[r] = "check"
  /\ \/ /\ status = "running"
        /\ pc' = [pc EXCEPT ![r] = "persist"]
        /\ UNCHANGED <<plan, worked, sinceCancel, page>>
     \/ /\ status # "running"
        /\ End(r)
        /\ Shows(r, Result(TRUE))
        /\ fetched' = StatusOf(dirtyFrom, status)
  /\ UNCHANGED <<household, stop, overtaken, disturbances>>

\* persist_snapshot_revision: the day is reconstructed and the whole state
\* row written, the marker and the status included.
Persist(r) ==
  LET d == plan[r].from IN
  /\ pc[r] = "persist"
  /\ shown' = [shown EXCEPT ![d] = facts[d]]
  /\ overtaken' = overtaken \ {d}
  /\ dirtyFrom' = DirtyAfter(d)
  /\ status' = "running"
  /\ plan' = [plan EXCEPT ![r] = [from |-> d + 1, to |-> plan[r].to]]
  /\ pc' = [pc EXCEPT ![r] = IF d < plan[r].to THEN "check" ELSE "finalize"]
  /\ worked' = [worked EXCEPT ![r] = TRUE]
  /\ sinceCancel' = [sinceCancel EXCEPT ![r] = IF @ = -1 THEN -1 ELSE @ + 1]
  /\ UNCHANGED <<today, facts, stop, page, disturbances>>

\* finalize_rebuild_in_tx, and the page's decision to call again; when the loop
\* has ended the status is fetched again.
Finalize(r) ==
  /\ pc[r] = "finalize"
  /\ status' = "idle"
  /\ Shows(r, Result(FALSE))
  /\ \/ /\ GoesOn(r)
        /\ pc' = [pc EXCEPT ![r] = "plan"]
        /\ plan' = [plan EXCEPT ![r] = Nothing]
        /\ worked' = [worked EXCEPT ![r] = FALSE]
        /\ UNCHANGED <<attached, awaited, fetched, sinceCancel>>
     \/ /\ ~GoesOn(r)
        /\ End(r)
        /\ fetched' = StatusOf(dirtyFrom, "idle")
  /\ UNCHANGED <<today, facts, shown, dirtyFrom, stop, overtaken, disturbances>>

\* mark_rebuild_failed; the page shows the error and fetches nothing.
MarkFailed(r) ==
  /\ pc[r] = "failing"
  /\ status' = "failed"
  /\ End(r)
  /\ UNCHANGED <<today, facts, shown, dirtyFrom, stop, progress, fetched, overtaken, disturbances>>

\* A transaction of the rebuild fails: planning, marking and persisting are
\* answered by mark_rebuild_failed, every other error is returned at once.
Fail(r) ==
  /\ Disturb
  /\ \/ /\ pc[r] \in {"plan", "mark", "persist"}
        /\ pc' = [pc EXCEPT ![r] = "failing"]
        /\ UNCHANGED <<plan, worked, attached, awaited, sinceCancel>>
     \/ /\ pc[r] \in {"check", "finalize", "failing"}
        /\ End(r)
  /\ UNCHANGED <<household, stop, progress, fetched, overtaken>>

-----------------------------------------------------------------------------
(* The page and the process                                                  *)

\* cancel_rebuild_in_tx: the marker stays, the status goes idle.
Cancel ==
  /\ Rebuilding
  /\ status' = "idle"
  /\ stop' = [r \in Rebuilds |-> r \in attached \/ stop[r]]
  /\ progress' = Result(TRUE)
  /\ fetched' = StatusOf(dirtyFrom, "idle")
  /\ sinceCancel' = [r \in Rebuilds |-> IF pc[r] # "idle" THEN 0 ELSE -1]
  /\ UNCHANGED <<today, facts, shown, dirtyFrom, pc, plan, worked, attached, awaited, overtaken>>

\* Cancelling a rebuild that is in flight is one of the disturbances; what a
\* quit or a failure left "running" can always be cancelled.
CancelInFlight == InFlight # {} /\ Cancel /\ Disturb
CancelLeftOver == InFlight = {} /\ Cancel /\ UNCHANGED disturbances

\* The page is opened anew: it holds no result and fetches the status.
Open ==
  /\ attached' = {} /\ awaited' = {}
  /\ progress' = NoResult
  /\ fetched' = StatusOf(dirtyFrom, status)

\* Leaving the page and opening it again: its loops go on without it.  With
\* none in flight it is an ordinary visit and no disturbance.
Reopen ==
  /\ InFlight # {} /\ Disturb
  /\ Open
  /\ UNCHANGED <<household, loops, overtaken>>
Revisit ==
  /\ InFlight = {}
  /\ Open
  /\ UNCHANGED <<household, loops, overtaken, disturbances>>

\* The process ends; the database keeps what was committed.
Restart ==
  /\ Disturb
  /\ pc' = [r \in Rebuilds |-> "idle"]
  /\ plan' = [r \in Rebuilds |-> Nothing]
  /\ worked' = [r \in Rebuilds |-> FALSE]
  /\ stop' = [r \in Rebuilds |-> FALSE]
  /\ sinceCancel' = [r \in Rebuilds |-> -1]
  /\ Open
  /\ UNCHANGED <<household, overtaken>>

Work(r) == Plan(r) \/ MarkRunning(r) \/ Check(r) \/ Persist(r) \/ Finalize(r) \/ MarkFailed(r)

Next ==
  \/ \E d \in Days : Command(d)
  \/ NextDay
  \/ \E r \in Rebuilds : Start(r) \/ Work(r) \/ Fail(r)
  \/ CancelInFlight
  \/ CancelLeftOver
  \/ Reopen
  \/ Revisit
  \/ Restart

Spec == Init /\ [][Next]_vars

\* The runtime finishes the commands it has begun.
Running == \A r \in Rebuilds : WF_vars(Work(r))

\* Somebody keeps pressing the button the page offers, and comes back to the page.
Attended == /\ WF_vars(\E r \in Rebuilds : Start(r)) /\ WF_vars(CancelLeftOver)
            /\ WF_vars(Revisit)

FairSpec == Spec /\ Running

-----------------------------------------------------------------------------
(* Properties                                                                *)

TypeOK ==
  /\ today \in Days
  /\ facts \in [Days -> 0 .. MaxCommands]
  /\ shown \in [Days -> -1 .. MaxCommands]
  /\ dirtyFrom \in 0 .. today
  /\ status \in Statuses
  /\ pc \in [Rebuilds -> Points]
  /\ plan \in [Rebuilds -> [from : 0 .. LastDay + 1, to : Days]]
  /\ worked \in [Rebuilds -> BOOLEAN]
  /\ stop \in [Rebuilds -> BOOLEAN]
  /\ attached \subseteq Rebuilds /\ awaited \subseteq attached
  /\ progress \in [answered : BOOLEAN, remaining : BOOLEAN, cancelled : BOOLEAN]
  /\ fetched \in [remaining : BOOLEAN, status : Statuses]
  /\ sinceCancel \in [Rebuilds -> Int]
  /\ overtaken \subseteq Days
  /\ disturbances \in 0 .. MaxDisturbances

\* Every snapshot dated before the marker is the reconstruction of its day:
\* the trend shows those days as complete and never offers to rebuild them.
SnapshotsTellTruth == \A d \in Days : d < dirtyFrom => Fresh(d)

\* The days the trend shows as complete are right, whatever commits, cancels,
\* fails or restarts during a rebuild, except those that a command changed after
\* a rebuild in flight had passed them: persisting a day may lose no other mark.
\* In particular no day is wrong if no command meets a rebuild, and a wrong one
\* is right again once it has been reconstructed.
TrustedUnlessOvertaken == \A d \in Days : d < dirtyFrom => Fresh(d) \/ d \in overtaken

\* "Is cancellable between days": a rebuild stops at the first day after a
\* cancellation, so at most the one day that was being written follows it.
CancelBetweenDays == \A r \in Rebuilds : sinceCancel[r] <= 1

\* A rebuild that was begun ends, whatever commands, cancellations, failures
\* and other rebuilds it meets.
RebuildEnds == \A r \in Rebuilds : pc[r] # "idle" ~> pc[r] = "idle"

\* After any cancellation, failure, quit, closing of a day or change of the facts,
\* opening the page and pressing the buttons it offers leads back to a trend with
\* no closed day left to rebuild (that the days before the marker are right is
\* TrustedUnlessOvertaken).  A page that merely stays open does not offer them.
TrendRecovers == Attended => <>[]~Remaining
=============================================================================
