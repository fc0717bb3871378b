-------------------------- MODULE PendingActivities --------------------------
(***************************************************************************)
(* Pending Activities and recurring rules, application/pending_service.rs,   *)
(* composed with the Activity ledger they post into.  Every command is one   *)
(* BEGIN IMMEDIATE transaction.  A pending item is a proposal: it is open    *)
(* until it is posted, which appends one Activity, or skipped.  A recurring  *)
(* rule proposes items only when generation is asked for, at most            *)
(* MaxPerCall of them per call over all rules.                               *)
(***************************************************************************)
EXTENDS ActivityLedger, Recurrence

CONSTANTS
  NewRules,    \* the rules that may be created: [schedule, payload]
  Payloads,    \* the typed payloads other commands may carry: [kind, legs]
  DueDates,    \* the dates a command may schedule an item for
  OriginDate,  \* the date of the day of the History Origin
  MaxPerCall,  \* MAX_RECURRENCE_OCCURRENCES, 366 in the code
  MaxRules, MaxItems, MaxRevision,   \* bounds
  ManualKinds, \* the kinds of Activity posted besides the proposals
  DateEdits    \* may the date of a generated item be edited?

PendingKinds   == {"deposit", "withdrawal", "transfer", "buy", "sell", "income", "fee",
                   "debt_draw", "debt_payment"}
RecurringKinds == PendingKinds \ {"buy", "sell"}
NoEnd          == LastDate + 1
AllPayloads    == Payloads \cup {n.payload : n \in NewRules}

Schedules ==
  [cadence : {"daily", "weekly", "monthly", "yearly"}, interval : Nat \ {0},
   start : Calendar, anchor : Calendar, end : Calendar \cup {NoEnd}]

ASSUME PendingConstants ==
  /\ {n.schedule : n \in NewRules} \subseteq Schedules
  /\ \A n \in NewRules : n.schedule.anchor = n.schedule.start /\ n.schedule.start <= n.schedule.end
  /\ AllPayloads \subseteq [kind : PendingKinds, legs : Seq([ep : Endpoints, delta : Int])]
  /\ DueDates \subseteq Calendar
  /\ OriginDate \in Calendar /\ OriginDate + Day(Horizon) \in Calendar
  /\ MaxPerCall \in Nat \ {0}
  /\ MaxRules \in Nat /\ MaxItems \in Nat /\ MaxRevision \in Nat
  /\ ManualKinds \subseteq Kinds \ {"reversal"} /\ DateEdits \in BOOLEAN

VARIABLES
  rules,   \* recurring_activity_rules in order of creation
  items,   \* pending_activities in order of creation
  posts    \* [item, activity] for every Activity that was posted for an item;
           \* nothing in the program keeps it

pendingVars == <<rules, items, posts>>
allVars     == <<vars, pendingVars>>

\* confirmed_today: the local date in the confirmed timezone.
Today == OriginDate + Day(now)

\* RecurringActivityPayload::new: no trade, no position transfer, no transfer
\* between currencies.
Recurring(p) ==
  /\ p.kind \in RecurringKinds
  /\ p.kind = "transfer" =>
       /\ {p.legs[k].ep : k \in DOMAIN p.legs} \cap Holdings = {}
       /\ CurrencyOf[p.legs[1].ep] = CurrencyOf[p.legs[2].ep]

\* PendingActivityPayload::validate: positive amounts, different endpoints,
\* equal amounts in one currency, a gross amount of quantity times price.
ValidPayload(p) == p.kind \in PendingKinds /\ p.legs \in LegsOf(p.kind)

\* validate_pending_command_in_tx: the references are there and active.
ValidCommand(p) == ValidPayload(p) /\ Usable(p.legs)

\* `due` is the date the item was made for, whatever its date is edited to;
\* nothing in the program keeps it.
Item(rule, revision, date, payload) ==
  [rule |-> rule, revision |-> revision, date |-> date, due |-> date, payload |-> payload,
   status |-> "open", activity |-> 0]

Rule(schedule, payload) ==
  [schedule |-> schedule, payload |-> payload, revision |-> 1, archived |-> FALSE]

-----------------------------------------------------------------------------
(* What one generation does                                                  *)

\* list_recurring_pending_dates: the dates of the rule's items, of every status.
ExistingDates(r) == {items[i].date : i \in {k \in DOMAIN items : items[k].rule = r}}

\* Generation continues after the latest date up to today that the rule has.
MissingDates(r) ==
  LET s    == rules[r].schedule
      past == {d \in ExistingDates(r) : d <= Today}
  IN  (IF past = {} THEN OccurrencesThrough(s, Today) ELSE OccurrencesAfter(s, Max(past), Today))
        \ ExistingDates(r)

\* A rule whose payload names something archived is reported as blocked.
Blocked(r) == ~ValidCommand(rules[r].payload)

Candidates ==
  UNION {{<<r, d>> : d \in MissingDates(r)} :
           r \in {q \in DOMAIN rules : ~rules[q].archived /\ ~Blocked(q)}}

\* Rules are visited by start date, then creation; the dates of a rule ascend.
ComesBefore(b, c) ==
  \/ rules[b[1]].schedule.start < rules[c[1]].schedule.start
  \/ rules[b[1]].schedule.start = rules[c[1]].schedule.start
     /\ (b[1] < c[1] \/ (b[1] = c[1] /\ b[2] < c[2]))
Rank(c, S) == Cardinality({b \in S : ComesBefore(b, c)})

\* The rules share one budget, so a call generates the first MaxPerCall
\* candidates and says that there may be more when it has used the budget up.
FirstFew(S) == {c \in S : Rank(c, S) < MaxPerCall}
Batch       == FirstFew(Candidates)
BudgetUsed  == Cardinality(Candidates) >= MaxPerCall

-----------------------------------------------------------------------------
(* Steps                                                                     *)

PendingInit == Init /\ rules = <<>> /\ items = <<>> /\ posts = {}

\* Mutant of RequireOpen: only a skipped item is closed.
RequireNotSkipped(i) == items[i].status # "skipped"

RequireOpen(i) == items[i].status = "open"
IsDue(i)       == items[i].date <= Today

\* The id the ledger returns for what it is about to append.
NewActivity == Len(ledger) + 1

CreatePending(date, p) ==
  /\ Len(items) < MaxItems
  /\ ValidCommand(p)
  /\ items' = Append(items, Item(0, 0, date, p))
  /\ UNCHANGED <<vars, rules, posts>>

\* UNIQUE(recurring_rule_id, scheduled_local_date) refuses a date another
\* item of the rule has.
DateIsFree(i, date) ==
  \A k \in DOMAIN items \ {i} :
    items[k].rule = items[i].rule /\ items[i].rule # 0 => items[k].date # date

UpdatePending(i, date, p) ==
  /\ RequireOpen(i)
  /\ ValidCommand(p)
  /\ DateIsFree(i, date)
  /\ items[i].rule # 0 /\ ~DateEdits => date = items[i].date
  /\ items' = [items EXCEPT ![i].date = date, ![i].payload = p]
  /\ UNCHANGED <<vars, rules, posts>>

\* post_pending_activity: the ledger posts the payload at the time the user
\* chose, and the item is closed with the new Activity's id.
PostPending(i, at) ==
  /\ Room(1)
  /\ RequireOpen(i)
  /\ IsDue(i)
  /\ Usable(items[i].payload.legs)
  /\ Post(items[i].payload.kind, items[i].payload.legs, at)
  /\ items' = [items EXCEPT ![i].status = "posted", ![i].activity = NewActivity]
  /\ posts' = posts \cup {[item |-> i, activity |-> NewActivity]}
  /\ UNCHANGED rules

SkipPending(i) ==
  /\ RequireOpen(i)
  /\ items' = [items EXCEPT ![i].status = "skipped"]
  /\ UNCHANGED <<vars, rules, posts>>

CreateRule(n) ==
  /\ Len(rules) < MaxRules
  /\ Recurring(n.payload) /\ ValidCommand(n.payload)
  /\ rules' = Append(rules, Rule(n.schedule, n.payload))
  /\ UNCHANGED <<vars, items, posts>>

\* Cadence, interval, start and anchor stay; archived rules may be edited too.
UpdateRule(r, end, p) ==
  /\ rules[r].revision < MaxRevision
  /\ rules[r].schedule.start <= end
  /\ Recurring(p) /\ ValidCommand(p)
  /\ rules' = [rules EXCEPT ![r].schedule.end = end, ![r].payload = p,
                            ![r].revision = @ + 1]
  /\ UNCHANGED <<vars, items, posts>>

ArchiveRule(r) ==
  /\ rules' = [rules EXCEPT ![r].archived = ~@]
  /\ UNCHANGED <<vars, items, posts>>

Proposal(c) == Item(c[1], rules[c[1]].revision, c[2], rules[c[1]].payload)

Generate(batch) ==
  /\ \E n \in 1 .. MaxItems : \E order \in [1 .. n -> batch] :
       /\ n = Cardinality(batch) /\ Len(items) + n <= MaxItems
       /\ \A j, k \in 1 .. n : j < k => ComesBefore(order[j], order[k])
       /\ items' = items \o [k \in 1 .. n |-> Proposal(order[k])]
  /\ UNCHANGED <<vars, rules, posts>>

GenerateDue == Generate(Batch)

\* What happens to the ledger meanwhile.
LedgerStep ==
  /\ \/ Tick
     \/ Reverse
     \/ \E x \in Archivable : Archive(x)
     \/ \E kind \in ManualKinds : PostKind(kind)
  /\ UNCHANGED pendingVars

PendingNext ==
  \/ LedgerStep
  \/ \E date \in DueDates, p \in Payloads : CreatePending(date, p)
  \/ \E i \in DOMAIN items :
       \/ SkipPending(i)
       \/ \E at \in EntryTimes : PostPending(i, at)
       \/ \E date \in DueDates \cup {items[i].date}, p \in Payloads : UpdatePending(i, date, p)
  \/ \E n \in NewRules : CreateRule(n)
  \/ \E r \in DOMAIN rules :
       \/ ArchiveRule(r)
       \/ \E end \in DueDates \cup {NoEnd}, p \in Payloads : UpdateRule(r, end, p)
  \/ GenerateDue

PendingSpec == PendingInit /\ [][PendingNext]_allVars

-----------------------------------------------------------------------------
(* Properties                                                                *)

PendingItems ==
  [rule : Nat, revision : Nat, date : Calendar, due : Calendar, payload : AllPayloads,
   status : {"open", "posted", "skipped"}, activity : Nat]
RecurringRules ==
  [schedule : Schedules, payload : AllPayloads, revision : Nat, archived : BOOLEAN]

PendingTypeOK ==
  /\ TypeOK
  /\ rules \in Seq(RecurringRules) /\ items \in Seq(PendingItems)
  /\ \A i \in DOMAIN items : items[i].rule # 0 => items[i].rule \in DOMAIN rules

\* UNIQUE(recurring_rule_id, scheduled_local_date): no command and no generation
\* runs into it.
OneItemPerDate ==
  \A i, k \in DOMAIN items :
    items[i].rule # 0 /\ items[i].rule = items[k].rule /\ items[i].date = items[k].date => i = k

\* At most one Activity is ever posted for an item, whatever posts, skips and edits
\* of it follow one another: posting appends one Activity and closes one item, or does
\* nothing.  No two items share an Activity; an item is posted when one was posted for
\* it, and names it still; that Activity carries the payload the item has now, and was
\* not scheduled for a later day; an open or skipped item names none.
PostedOnce ==
  /\ \A p, q \in posts : p.item = q.item \/ p.activity = q.activity => p = q
  /\ \A i \in DOMAIN items :
       /\ items[i].status = "posted" <=> \E p \in posts : p.item = i
       /\ items[i].status = "posted" <=> items[i].activity # 0
  /\ \A p \in posts :
       LET item   == items[p.item]
           posted == ledger[p.activity]
       IN  /\ item.activity = p.activity /\ item.date <= Today
           /\ posted.kind = item.payload.kind /\ posted.legs = item.payload.legs

\* No occurrence of a rule is proposed twice, even after the first proposal was
\* skipped or posted, the rule archived and restored or its end moved back and forth.
ProposedOnce ==
  \A i, k \in DOMAIN items :
    items[i].rule # 0 /\ items[i].rule = items[k].rule /\ items[i].due = items[k].due => i = k

\* Every occurrence of a rule is proposed exactly once: of the occurrences up to today of every active
\* rule that is not blocked, computed from the immutable anchor, a call leaves none
\* out unless it says that there are more.
GenerationComplete ==
  /\ ProposedOnce
  /\ ~BudgetUsed =>
       \A r \in DOMAIN rules, d \in Calendar :
         /\ ~rules[r].archived /\ ~Blocked(r)
         /\ Falls(rules[r].schedule, d) /\ d <= Today
         => \/ <<r, d>> \in Batch
            \/ \E i \in DOMAIN items : items[i].rule = r /\ items[i].due = d
=============================================================================
