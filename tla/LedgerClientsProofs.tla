------------------------- MODULE LedgerClientsProofs -------------------------
(***************************************************************************)
(* Proofs about the modules that use the Activity ledger, for any           *)
(* household, calendar, rules, pages, files, quotes and bounds.             *)
(*                                                                         *)
(*   PendingActivities   a proposal is posted once; a date of a rule is      *)
(*                       proposed once; a generation leaves none out         *)
(*   HistoryQueries      a walk lists once what there is; what a page says   *)
(*                       of an Activity holds elsewhere                      *)
(*   Export              a file at a destination is whole; what is exported  *)
(*                       is read as what it was                              *)
(*   Portfolio           a rate that is missed is asked for                  *)
(***************************************************************************)
EXTENDS PendingActivities, Export, Portfolio, ActivityLedgerProofs

-----------------------------------------------------------------------------
(* The ledger and the date only grow.                                        *)

Grows(L, M) == Len(L) <= Len(M) /\ \A k \in DOMAIN L : k \in DOMAIN M /\ M[k] = L[k]

LEMMA AppendGrows ==
  ASSUME NEW S, NEW L \in Seq(S), NEW E \in Seq(S) PROVE Grows(L, L \o E)
BY DEF Grows

LEMMA LaterDay ==
  ASSUME NEW s \in Times, NEW t \in Times, s <= t PROVE Day(s) <= Day(t)
<1>1. DayLength \in Nat /\ DayLength >= 1 /\ s \in Nat /\ t \in Nat
  BY LedgerConstants DEF Times
<1> DEFINE p == s \div DayLength
           q == t \div DayLength
<1>2. p \in Int /\ q \in Int /\ s % DayLength \in 0 .. DayLength - 1
      /\ t % DayLength \in 0 .. DayLength - 1
  BY <1>1
<1>3. s = DayLength * p + (s % DayLength) /\ t = DayLength * q + (t % DayLength)
  BY <1>1, SMTT(30)
<1> HIDE DEF p, q
<1>4. p <= q
  <2> SUFFICES ASSUME q < p PROVE FALSE BY <1>2
  <2>1. q + 1 <= p BY <1>2
  <2>2. DayLength * (q + 1) <= DayLength * p BY <1>1, <1>2, <2>1, SMTT(30)
  <2>3. DayLength * (q + 1) = DayLength * q + DayLength BY <1>1, <1>2, SMTT(30)
  <2>4. DayLength * p \in Int /\ DayLength * q \in Int BY <1>1, <1>2
  <2> QED BY <1>1, <1>2, <1>3, <2>2, <2>3, <2>4
<1> QED BY <1>4 DEF p, q, Day

LEMMA TodayGrows ==
  ASSUME TypeOK, TypeOK', now <= now' PROVE Today \in Int /\ Today' \in Int /\ Today <= Today'
<1>1. now \in Times /\ now' \in Times BY DEF TypeOK
<1>2. Day(now) \in Times /\ Day(now') \in Times /\ Day(now) <= Day(now')
  BY <1>1, DayRange, LaterDay
<1>3. OriginDate \in Int /\ Times \subseteq Int BY PendingConstants DEF Calendar, Times
<1>4. Today = OriginDate + Day(now) /\ Today' = OriginDate + Day(now') BY DEF Today, Day
<1>5. Day(now) \in Int /\ Day(now') \in Int BY <1>2, <1>3
<1> HIDE DEF Today, Day
<1> QED BY <1>2, <1>3, <1>4, <1>5

LEMMA PostGrows ==
  ASSUME TypeOK, NEW kind \in Kinds, NEW legs \in Seq(LegType), NEW at \in Times,
         Post(kind, legs, at)
  PROVE  /\ TypeOK' /\ now' = now /\ Grows(ledger, ledger')
         /\ Len(ledger') = Len(ledger) + 1 /\ Len(ledger) + 1 \in DOMAIN ledger'
         /\ ledger'[Len(ledger) + 1].kind = kind /\ ledger'[Len(ledger) + 1].legs = legs
<1> DEFINE a == Activity(kind, at, legs, 0, 0)
<1>1. ledger' = Append(ledger, a) /\ now' = now BY DEF Post
<1>2. ledger \in Seq(ActivityType) /\ a \in ActivityType BY TypeParts, ActivityIs, 0 \in Nat
<1>3. a.kind = kind /\ a.legs = legs BY DEF Activity
<1> HIDE DEF a
<1>4. TypeOK' BY PostType
<1> QED BY <1>1, <1>2, <1>3, <1>4 DEF Grows

LEMMA LedgerStepGrows ==
  ASSUME TypeOK, LedgerStep PROVE TypeOK' /\ now <= now' /\ Grows(ledger, ledger')
<1>1. /\ ledger \in Seq(ActivityType) /\ now \in Nat /\ ManualKinds \subseteq Kinds \ {"reversal"}
  BY TypeParts, LedgerConstants, PendingConstants DEF Times
<1>2. CASE Tick
  <2>1. TypeOK' BY <1>2, NextType DEF Next
  <2> QED BY <1>1, <1>2, <2>1 DEF Tick, Grows
<1>3. CASE Reverse
  <2>1. TypeOK' BY <1>3, NextType DEF Next
  <2>2. PICK extras \in Seq(ActivityType) : PersistLedger(extras) BY <1>3, ReverseReplays
  <2>3. ledger' = ledger \o extras /\ now' = now BY <2>2 DEF PersistLedger
  <2> QED BY <1>1, <2>1, <2>3, AppendGrows
<1>4. ASSUME NEW x \in Archivable, Archive(x)
      PROVE  TypeOK' /\ now <= now' /\ Grows(ledger, ledger')
  <2>1. TypeOK' BY <1>4, NextType DEF Next
  <2> QED BY <1>1, <1>4, <2>1 DEF Archive, Grows
<1>5. ASSUME NEW kind \in ManualKinds, PostKind(kind)
      PROVE  TypeOK' /\ now <= now' /\ Grows(ledger, ledger')
  <2>1. PICK legs \in LegsOf(kind), at \in EntryTimes : Post(kind, legs, at)
    BY <1>5 DEF PostKind
  <2>2. at \in Times BY <2>1, LedgerConstants DEF EntryTimes, TypeOK, Times
  <2>3. legs \in Seq(LegType) /\ kind \in Kinds BY <1>1, CommandLegs
  <2> QED BY <1>1, <2>1, <2>2, <2>3, PostGrows
<1> QED BY <1>2, <1>3, <1>4, <1>5 DEF LedgerStep

-----------------------------------------------------------------------------
(* The invariant.                                                            *)

\* What an item is posted as is an Activity of the ledger.
Behind == \A i \in DOMAIN items : items[i].activity <= Len(ledger)

\* Where dates of generated items are not edited, they are where they were due.
Undated == ~DateEdits => \A i \in DOMAIN items : items[i].rule # 0 => items[i].due = items[i].date

\* A posted item, and no other, names an Activity; it has the item's payload, and
\* no other item names it.
ClosedSoundly ==
  \A i \in DOMAIN items :
    LET item   == items[i]
        posted == ledger[item.activity]
    IN  /\ item.status = "posted" <=> item.activity # 0
        /\ item.status = "posted" =>
             /\ posted.kind = item.payload.kind /\ posted.legs = item.payload.legs
             /\ item.date <= Today
             /\ \A k \in DOMAIN items : items[k].activity = item.activity => k = i

\* What was ever posted for an item is what the item says it was posted as.
PostedItems == {i \in DOMAIN items : items[i].status = "posted"}
PostingOf(i) == [item |-> i, activity |-> items[i].activity]
PostsAre == posts = {PostingOf(i) : i \in PostedItems}

IInv == PendingTypeOK /\ ClosedSoundly /\ PostsAre /\ Behind /\ OneItemPerDate /\ Undated

LEMMA PostsKept ==
  ASSUME PostsAre, UNCHANGED posts, PostedItems' = PostedItems,
         \A k \in PostedItems : items'[k].activity = items[k].activity
  PROVE  PostsAre'
<1>1. \A k \in PostedItems : PostingOf(k)' = PostingOf(k) BY DEF PostingOf
<1>2. {PostingOf(i) : i \in PostedItems}' = {PostingOf(i)' : i \in PostedItems'} OBVIOUS
<1> QED BY <1>1, <1>2 DEF PostsAre

LEMMA ItemTyped ==
  ASSUME items \in Seq(PendingItems), NEW i \in DOMAIN items
  PROVE  /\ items[i] \in PendingItems /\ items[i].rule \in Nat /\ items[i].date \in Int
         /\ items[i].activity \in Nat /\ items[i].payload \in AllPayloads
<1>1. items[i] \in PendingItems OBVIOUS
<1> QED BY <1>1 DEF PendingItems, Calendar

LEMMA ReplaceItem ==
  ASSUME NEW s \in Seq(PendingItems), NEW i \in DOMAIN s, NEW x \in PendingItems
  PROVE  [s EXCEPT ![i] = x] \in Seq(PendingItems)
OBVIOUS

LEMMA PayloadTyped ==
  ASSUME NEW p \in AllPayloads
  PROVE  p.kind \in Kinds /\ p.kind # "reversal" /\ p.legs \in Seq(LegType)
<1>1. p \in [kind : PendingKinds, legs : Seq(LegType)] BY PendingConstants DEF LegType
<1>2. PendingKinds \subseteq Kinds \ {"reversal"} BY DEF PendingKinds, Kinds
<1> QED BY <1>1, <1>2

LEMMA InitIInv == PendingInit => IInv
<1> SUFFICES ASSUME PendingInit PROVE IInv OBVIOUS
<1>1. TypeOK BY InitType DEF PendingInit
<1>2. rules = <<>> /\ items = <<>> BY DEF PendingInit
<1>3. PostsAre
  <2>1. PostedItems = {} BY <1>2 DEF PostedItems
  <2> QED BY <2>1 DEF PostsAre, PendingInit
<1> QED BY <1>1, <1>2, <1>3 DEF IInv, PendingTypeOK, ClosedSoundly, Behind, OneItemPerDate, Undated

\* Items stay, the ledger and the date grow.
LEMMA ItemsKept ==
  ASSUME IInv, TypeOK', now <= now', Grows(ledger, ledger'), UNCHANGED <<items, posts>>,
         rules' \in Seq(RecurringRules), DOMAIN rules \subseteq DOMAIN rules'
  PROVE  IInv'
<1>1. PendingTypeOK' BY DEF IInv, PendingTypeOK
<1>2. ledger \in Seq(ActivityType) /\ ledger' \in Seq(ActivityType) /\ items \in Seq(PendingItems)
  BY TypeParts DEF IInv, PendingTypeOK, TypeOK, ActivityType, LegType
<1>3. Today \in Int /\ Today' \in Int /\ Today <= Today' BY TodayGrows DEF IInv, PendingTypeOK
<1>4. ClosedSoundly'
  <2>1. ASSUME NEW i \in DOMAIN items, items[i].status = "posted"
        PROVE  items[i].activity \in DOMAIN ledger
    <3>1. items[i].activity \in Nat /\ items[i].activity # 0 /\ items[i].activity <= Len(ledger)
      BY <1>2, <2>1, ItemTyped DEF IInv, ClosedSoundly, Behind
    <3> QED BY <1>2, <3>1
  <2>2. \A i \in DOMAIN items : items[i].date \in Int BY <1>2, ItemTyped
  <2> QED BY <1>3, <2>1, <2>2 DEF IInv, ClosedSoundly, Grows
<1>5. Behind'
  <2>1. \A i \in DOMAIN items : items[i].activity \in Nat BY <1>2, ItemTyped
  <2> QED BY <1>2, <2>1 DEF IInv, Behind, Grows
<1>6. PostsAre' BY PostsKept DEF IInv, PostedItems
<1> QED BY <1>1, <1>4, <1>5, <1>6 DEF IInv, OneItemPerDate, Undated

-----------------------------------------------------------------------------
(* The steps.                                                                *)

LEMMA CreateIInv ==
  ASSUME IInv, NEW date \in DueDates, NEW p \in Payloads, CreatePending(date, p) PROVE IInv'
<1> DEFINE item == Item(0, 0, date, p)
<1>1. /\ TypeOK /\ rules \in Seq(RecurringRules) /\ items \in Seq(PendingItems)
      /\ items' = Append(items, item) /\ UNCHANGED <<vars, rules, posts>>
  BY DEF IInv, PendingTypeOK, CreatePending
<1>2. /\ item \in PendingItems /\ item.rule = 0 /\ item.status = "open" /\ item.activity = 0
  BY PendingConstants DEF Item, PendingItems, AllPayloads
<1> HIDE DEF item
<1>3. /\ DOMAIN items' = DOMAIN items \cup {Len(items) + 1}
      /\ items'[Len(items) + 1] = item
      /\ \A k \in DOMAIN items : items'[k] = items[k]
  BY <1>1
<1>4. TypeOK' /\ now' = now /\ ledger' = ledger BY <1>1 DEF vars, TypeOK
<1>5. Today' = Today BY <1>4 DEF Today, Day
<1>6. PendingTypeOK'
  <2>1. items' \in Seq(PendingItems) BY <1>1, <1>2
  <2> QED BY <1>1, <1>2, <1>3, <1>4, <2>1 DEF IInv, PendingTypeOK
<1>7. ClosedSoundly' BY <1>2, <1>3, <1>4, <1>5 DEF IInv, ClosedSoundly
<1>8. Behind'
  <2>1. Len(ledger) \in Nat BY TypeParts, <1>1
  <2> QED BY <1>2, <1>3, <1>4, <2>1 DEF IInv, Behind
<1>9. OneItemPerDate' BY <1>2, <1>3 DEF IInv, OneItemPerDate
<1>10. Undated' BY <1>2, <1>3 DEF IInv, Undated
<1>11. PostsAre'
  <2>1. PostedItems' = PostedItems BY <1>2, <1>3 DEF PostedItems
  <2>2. \A k \in PostedItems : items'[k].activity = items[k].activity
    BY <1>3 DEF PostedItems
  <2> QED BY <1>1, <2>1, <2>2, PostsKept DEF IInv
<1> QED BY <1>6, <1>7, <1>8, <1>9, <1>10, <1>11 DEF IInv

LEMMA UpdateIInv ==
  ASSUME IInv, NEW i \in DOMAIN items, NEW date \in DueDates \cup {items[i].date},
         NEW p \in Payloads, UpdatePending(i, date, p)
  PROVE  IInv'
<1>1. /\ TypeOK /\ rules \in Seq(RecurringRules) /\ items \in Seq(PendingItems)
      /\ items' = [items EXCEPT ![i].date = date, ![i].payload = p]
      /\ UNCHANGED <<vars, rules, posts>>
      /\ RequireOpen(i) /\ DateIsFree(i, date)
      /\ items[i].rule # 0 /\ ~DateEdits => date = items[i].date
  BY DEF IInv, PendingTypeOK, UpdatePending
<1> DEFINE item == [items[i] EXCEPT !.date = date, !.payload = p]
<1>2. items[i] \in PendingItems BY <1>1, ItemTyped
<1>3. date \in Calendar /\ p \in AllPayloads
  BY <1>2, PendingConstants DEF PendingItems, AllPayloads
<1>4. /\ item \in PendingItems /\ item.rule = items[i].rule /\ item.status = items[i].status
      /\ item.activity = items[i].activity /\ item.date = date /\ item.due = items[i].due
  BY <1>2, <1>3 DEF PendingItems
<1>5. items' = [items EXCEPT ![i] = item] BY <1>1, <1>2 DEF PendingItems
<1> HIDE DEF item
<1>51. items' \in Seq(PendingItems)
  <2>1. items \in Seq(PendingItems) BY <1>1
  <2>2. item \in PendingItems BY <1>4
  <2> QED BY <1>5, <2>1, <2>2, ReplaceItem
<1>52. /\ DOMAIN items' = DOMAIN items /\ items'[i] = item
       /\ \A k \in DOMAIN items : k # i => items'[k] = items[k]
  BY <1>5, <1>1
<1>6. TypeOK' /\ now' = now /\ ledger' = ledger BY <1>1 DEF vars, TypeOK
<1>7. Today' = Today BY <1>6 DEF Today, Day
<1>8. PendingTypeOK'
  <2>1. \A k \in DOMAIN items' : items'[k].rule = items[k].rule BY <1>4, <1>52
  <2> QED BY <1>1, <1>51, <1>52, <1>6, <2>1 DEF IInv, PendingTypeOK
<1>9. ClosedSoundly'
  <2>1. items[i].status # "posted" /\ items[i].activity = 0
    BY <1>1 DEF RequireOpen, IInv, ClosedSoundly
  <2> QED BY <1>4, <1>52, <1>6, <1>7, <2>1 DEF IInv, ClosedSoundly
<1>10. Behind' BY <1>4, <1>52, <1>6 DEF IInv, Behind
<1>11. OneItemPerDate'
  <2>1. \A k \in DOMAIN items \ {i} :
          items[k].rule = items[i].rule /\ items[i].rule # 0 => items[k].date # date
    BY <1>1 DEF DateIsFree
  <2> QED BY <1>4, <1>52, <2>1 DEF IInv, OneItemPerDate
<1>12. Undated' BY <1>1, <1>4, <1>52 DEF IInv, Undated
<1>13. PostsAre'
  <2>1. PostedItems' = PostedItems BY <1>4, <1>52 DEF PostedItems
  <2>2. \A k \in PostedItems : items'[k].activity = items[k].activity
    BY <1>4, <1>52 DEF PostedItems
  <2> QED BY <1>1, <2>1, <2>2, PostsKept DEF IInv
<1> QED BY <1>8, <1>9, <1>10, <1>11, <1>12, <1>13 DEF IInv

LEMMA SkipIInv == ASSUME IInv, NEW i \in DOMAIN items, SkipPending(i) PROVE IInv'
<1>1. /\ TypeOK /\ rules \in Seq(RecurringRules) /\ items \in Seq(PendingItems)
      /\ items' = [items EXCEPT ![i].status = "skipped"]
      /\ UNCHANGED <<vars, rules, posts>> /\ RequireOpen(i)
  BY DEF IInv, PendingTypeOK, SkipPending
<1> DEFINE item == [items[i] EXCEPT !.status = "skipped"]
<1>2. items[i] \in PendingItems BY <1>1, ItemTyped
<1>3. /\ item \in PendingItems /\ item.rule = items[i].rule /\ item.status = "skipped"
      /\ item.activity = items[i].activity /\ item.date = items[i].date
      /\ item.due = items[i].due
  BY <1>2 DEF PendingItems
<1>4. /\ DOMAIN items' = DOMAIN items /\ items'[i] = item
      /\ \A k \in DOMAIN items : k # i => items'[k] = items[k]
      /\ items' = [items EXCEPT ![i] = item]
  BY <1>1, <1>2 DEF PendingItems
<1> HIDE DEF item
<1>5. TypeOK' /\ now' = now /\ ledger' = ledger BY <1>1 DEF vars, TypeOK
<1>6. Today' = Today BY <1>5 DEF Today, Day
<1>7. PendingTypeOK'
  <2>1. items' \in Seq(PendingItems) BY <1>1, <1>3, <1>4, ReplaceItem, Zenon
  <2>2. \A k \in DOMAIN items' : items'[k].rule = items[k].rule BY <1>3, <1>4
  <2> QED BY <1>1, <1>4, <1>5, <2>1, <2>2 DEF IInv, PendingTypeOK
<1>8. ClosedSoundly'
  <2>1. items[i].status # "posted" /\ items[i].activity = 0
    BY <1>1 DEF RequireOpen, IInv, ClosedSoundly
  <2> QED BY <1>3, <1>4, <1>5, <1>6, <2>1 DEF IInv, ClosedSoundly
<1>9. Behind' BY <1>3, <1>4, <1>5 DEF IInv, Behind
<1>10. OneItemPerDate' BY <1>3, <1>4 DEF IInv, OneItemPerDate
<1>11. Undated' BY <1>3, <1>4 DEF IInv, Undated
<1>12. PostsAre'
  <2>1. items[i].status # "posted" BY <1>1 DEF RequireOpen
  <2>2. PostedItems' = PostedItems BY <1>3, <1>4, <2>1 DEF PostedItems
  <2>3. \A k \in PostedItems : items'[k].activity = items[k].activity
    BY <1>3, <1>4 DEF PostedItems
  <2> QED BY <1>1, <2>2, <2>3, PostsKept DEF IInv
<1> QED BY <1>7, <1>8, <1>9, <1>10, <1>11, <1>12 DEF IInv

LEMMA PostPendingIInv ==
  ASSUME IInv, NEW i \in DOMAIN items, NEW at \in EntryTimes, PostPending(i, at) PROVE IInv'
<1> DEFINE new == Len(ledger) + 1
           payload == items[i].payload
           item == [items[i] EXCEPT !.status = "posted", !.activity = new]
<1>1. /\ TypeOK /\ rules \in Seq(RecurringRules) /\ items \in Seq(PendingItems)
      /\ items' = [items EXCEPT ![i].status = "posted", ![i].activity = new]
      /\ UNCHANGED rules /\ RequireOpen(i) /\ IsDue(i)
      /\ posts' = posts \cup {[item |-> i, activity |-> new]}
      /\ Post(payload.kind, payload.legs, at)
  BY DEF IInv, PendingTypeOK, PostPending, NewActivity
<1>2. /\ items[i] \in PendingItems /\ payload \in AllPayloads BY <1>1, ItemTyped
<1>3. at \in Times BY <1>1, LedgerConstants DEF EntryTimes, TypeOK, Times
<1>4. /\ TypeOK' /\ now' = now /\ Grows(ledger, ledger') /\ Len(ledger') = new
      /\ ledger'[new].kind = payload.kind /\ ledger'[new].legs = payload.legs
  BY <1>1, <1>2, <1>3, PayloadTyped, PostGrows
<1>5. /\ ledger \in Seq(ActivityType) /\ new \in Nat /\ new # 0 BY <1>1, TypeParts
<1>6. /\ item \in PendingItems /\ item.rule = items[i].rule /\ item.status = "posted"
      /\ item.activity = new /\ item.date = items[i].date /\ item.due = items[i].due
      /\ item.payload = payload
  BY <1>2, <1>5 DEF PendingItems
<1>71. items' = [items EXCEPT ![i] = item] BY <1>1, <1>2 DEF PendingItems
<1> HIDE DEF item, new, payload
<1>72. items' \in Seq(PendingItems)
  <2>1. items \in Seq(PendingItems) BY <1>1
  <2>2. item \in PendingItems BY <1>6
  <2> QED BY <1>71, <2>1, <2>2, ReplaceItem
<1>7. /\ DOMAIN items' = DOMAIN items /\ items'[i] = item
      /\ \A k \in DOMAIN items : k # i => items'[k] = items[k]
  BY <1>71, <1>1
<1>8. Today' = Today BY <1>4 DEF Today, Day
<1>9. PendingTypeOK'
  <2>1. \A k \in DOMAIN items' : items'[k].rule = items[k].rule BY <1>6, <1>7
  <2> QED BY <1>1, <1>4, <1>7, <1>72, <2>1 DEF IInv, PendingTypeOK
<1>10. \A k \in DOMAIN items : items[k].activity \in Nat /\ items[k].activity # new
  <2> SUFFICES ASSUME NEW k \in DOMAIN items
               PROVE  items[k].activity \in Nat /\ items[k].activity # new
    OBVIOUS
  <2>1. items[k].activity \in Nat /\ items[k].activity <= Len(ledger)
    BY <1>1, ItemTyped DEF IInv, Behind
  <2> QED BY <1>5, <2>1 DEF new
<1>11. ClosedSoundly'
  <2> SUFFICES ASSUME NEW k \in DOMAIN items
               PROVE  /\ items'[k].status = "posted" <=> items'[k].activity # 0
                      /\ items'[k].status = "posted" =>
                           /\ ledger'[items'[k].activity].kind = items'[k].payload.kind
                           /\ ledger'[items'[k].activity].legs = items'[k].payload.legs
                           /\ items'[k].date <= Today
                           /\ \A j \in DOMAIN items :
                                items'[j].activity = items'[k].activity => j = k
    BY <1>7, <1>8 DEF ClosedSoundly
  <2>1. CASE k = i
    <3>1. items[i].date <= Today BY <1>1 DEF IsDue
    <3> QED BY <1>4, <1>5, <1>6, <1>7, <1>10, <2>1, <3>1
  <2>2. CASE k # i
    <3>1. items[k].status = "posted" => items[k].activity \in DOMAIN ledger
      <4>1. items[k].activity <= Len(ledger) BY DEF IInv, Behind
      <4> QED BY <1>5, <1>10, <4>1 DEF IInv, ClosedSoundly
    <3>2. items'[k] = items[k] BY <1>7, <2>2
    <3>3. items[i].activity = 0 BY <1>1 DEF RequireOpen, IInv, ClosedSoundly
    <3> QED BY <1>4, <1>6, <1>7, <1>10, <3>1, <3>2, <3>3 DEF IInv, ClosedSoundly, Grows
  <2> QED BY <2>1, <2>2
<1>12. Behind'
  <2>1. Len(ledger) \in Nat BY <1>5
  <2> QED BY <1>4, <1>5, <1>6, <1>7, <1>10, <2>1 DEF IInv, Behind, new
<1>13. OneItemPerDate' BY <1>6, <1>7 DEF IInv, OneItemPerDate
<1>14. Undated' BY <1>6, <1>7 DEF IInv, Undated
<1>15. PostsAre'
  <2>1. items[i].status # "posted" BY <1>1 DEF RequireOpen
  <2>2. i \notin PostedItems /\ PostedItems' = PostedItems \cup {i}
    BY <1>6, <1>7, <2>1 DEF PostedItems
  <2>3. \A k \in PostedItems : PostingOf(k)' = PostingOf(k)
    BY <1>7, <2>2 DEF PostingOf, PostedItems
  <2>4. PostingOf(i)' = [item |-> i, activity |-> new] BY <1>6, <1>7 DEF PostingOf
  <2>5. {PostingOf(k) : k \in PostedItems}' = {PostingOf(k)' : k \in PostedItems \cup {i}}
    BY <2>2
  <2> QED BY <1>1, <2>3, <2>4, <2>5 DEF IInv, PostsAre
<1> QED BY <1>9, <1>11, <1>12, <1>13, <1>14, <1>15 DEF IInv

-----------------------------------------------------------------------------
(* Generation.                                                               *)

\* A candidate is a date of the calendar that no item of its rule has.
LEMMA CandidateIs ==
  ASSUME rules \in Seq(RecurringRules), NEW c \in Batch
  PROVE  /\ c[1] \in DOMAIN rules /\ c[1] \in Nat /\ c[1] # 0 /\ c[2] \in Calendar
         /\ \A k \in DOMAIN items : items[k].rule = c[1] => items[k].date # c[2]
         /\ c = <<c[1], c[2]>>
<1>1. c \in Candidates BY DEF Batch, FirstFew
<1>2. PICK r \in DOMAIN rules : \E d \in MissingDates(r) : c = <<r, d>>
  BY <1>1 DEF Candidates
<1>3. PICK d \in MissingDates(r) : c = <<r, d>> BY <1>2
<1>4. d \in Calendar /\ d \notin ExistingDates(r)
  BY <1>3 DEF MissingDates, OccurrencesThrough, OccurrencesAfter, Window
<1>5. \A k \in DOMAIN items : items[k].rule = r => items[k].date # d
  BY <1>4 DEF ExistingDates
<1>6. r \in Nat /\ r # 0 OBVIOUS
<1> QED BY <1>3, <1>4, <1>5, <1>6

LEMMA ProposalTyped ==
  ASSUME rules \in Seq(RecurringRules), NEW c \in Batch
  PROVE  /\ Proposal(c) \in PendingItems
         /\ Proposal(c).rule = c[1] /\ Proposal(c).date = c[2] /\ Proposal(c).due = c[2]
         /\ Proposal(c).status = "open" /\ Proposal(c).activity = 0
<1>1. c[1] \in DOMAIN rules /\ c[1] \in Nat /\ c[2] \in Calendar BY CandidateIs
<1>2. rules[c[1]] \in RecurringRules BY <1>1
<1>3. rules[c[1]].revision \in Nat /\ rules[c[1]].payload \in AllPayloads
  BY <1>2 DEF RecurringRules
<1> QED BY <1>1, <1>3 DEF Proposal, Item, PendingItems

LEMMA GenerateIInv == ASSUME IInv, GenerateDue PROVE IInv'
<1>1. /\ TypeOK /\ rules \in Seq(RecurringRules) /\ items \in Seq(PendingItems)
      /\ UNCHANGED <<vars, rules, posts>>
  BY DEF IInv, PendingTypeOK, GenerateDue, Generate
<1>2. PICK n \in 1 .. MaxItems : \E order \in [1 .. n -> Batch] :
        /\ \A j, k \in 1 .. n : j < k => ComesBefore(order[j], order[k])
        /\ items' = items \o [k \in 1 .. n |-> Proposal(order[k])]
  BY DEF GenerateDue, Generate
<1>3. PICK order \in [1 .. n -> Batch] :
        /\ \A j, k \in 1 .. n : j < k => ComesBefore(order[j], order[k])
        /\ items' = items \o [k \in 1 .. n |-> Proposal(order[k])]
  BY <1>2
<1> DEFINE new == [k \in 1 .. n |-> Proposal(order[k])]
<1>4. n \in Nat /\ \A k \in 1 .. n : order[k] \in Batch OBVIOUS
<1>5. new \in Seq(PendingItems) /\ Len(new) = n /\ DOMAIN new = 1 .. n
  <2>1. \A k \in 1 .. n : Proposal(order[k]) \in PendingItems BY <1>1, <1>4, ProposalTyped
  <2>2. new \in [1 .. n -> PendingItems] BY <2>1
  <2> QED BY <1>4, <2>2
<1>6. \A k \in 1 .. n :
        /\ new[k].rule = order[k][1] /\ new[k].date = order[k][2] /\ new[k].due = order[k][2]
        /\ new[k].status = "open" /\ new[k].activity = 0 /\ order[k][1] \in DOMAIN rules
        /\ \A m \in DOMAIN items : items[m].rule = order[k][1] => items[m].date # order[k][2]
  BY <1>1, <1>4, ProposalTyped, CandidateIs
<1>7. items' = items \o new BY <1>3
<1> HIDE DEF new
<1>8. /\ items' \in Seq(PendingItems)
      /\ \A k \in DOMAIN items' :
           \/ k \in DOMAIN items /\ items'[k] = items[k]
           \/ k - Len(items) \in 1 .. n /\ items'[k] = new[k - Len(items)]
      /\ \A k \in DOMAIN items : k \in DOMAIN items'
  BY <1>1, <1>5, <1>7
<1>9. TypeOK' /\ now' = now /\ ledger' = ledger BY <1>1 DEF vars, TypeOK
<1>10. Today' = Today BY <1>9 DEF Today, Day
<1>11. PendingTypeOK'
  <2>1. \A i \in DOMAIN items : items[i].rule # 0 => items[i].rule \in DOMAIN rules
    BY DEF IInv, PendingTypeOK
  <2>2. ASSUME NEW i \in DOMAIN items', items'[i].rule # 0
        PROVE  items'[i].rule \in DOMAIN rules
    <3>1. CASE i \in DOMAIN items /\ items'[i] = items[i] BY <2>1, <2>2, <3>1
    <3>2. CASE i - Len(items) \in 1 .. n /\ items'[i] = new[i - Len(items)]
      BY <1>6, <3>2
    <3> QED BY <1>8, <3>1, <3>2
  <2>3. rules' = rules /\ items' \in Seq(PendingItems) BY <1>1, <1>8
  <2>4. rules' \in Seq(RecurringRules) BY <1>1, <2>3
  <2> QED BY <1>9, <2>2, <2>3, <2>4 DEF PendingTypeOK
<1>12. ClosedSoundly'
  <2>1. \A k \in DOMAIN items' : ~(k \in DOMAIN items /\ items'[k] = items[k]) =>
          items'[k].status = "open" /\ items'[k].activity = 0
    BY <1>6, <1>8
  <2>2. ASSUME NEW i \in DOMAIN items'
        PROVE  items'[i].status = "posted" <=> items'[i].activity # 0
    BY <2>1 DEF IInv, ClosedSoundly
  <2>3. ASSUME NEW i \in DOMAIN items', items'[i].status = "posted"
        PROVE  /\ ledger[items'[i].activity].kind = items'[i].payload.kind
               /\ ledger[items'[i].activity].legs = items'[i].payload.legs
               /\ items'[i].date <= Today
               /\ \A k \in DOMAIN items' : items'[k].activity = items'[i].activity => k = i
    <3>1. i \in DOMAIN items /\ items'[i] = items[i] /\ items[i].activity # 0
      BY <2>1, <2>2, <2>3
    <3>2. ASSUME NEW k \in DOMAIN items', items'[k].activity = items'[i].activity PROVE k = i
      <4>1. k \in DOMAIN items /\ items'[k] = items[k] BY <2>1, <3>1, <3>2
      <4> QED BY <2>3, <3>1, <3>2, <4>1 DEF IInv, ClosedSoundly
    <3> QED BY <2>3, <3>1, <3>2 DEF IInv, ClosedSoundly
  <2> QED BY <1>9, <1>10, <2>2, <2>3 DEF ClosedSoundly
<1>13. Behind'
  <2>1. Len(ledger) \in Nat BY <1>1, TypeParts
  <2> QED BY <1>6, <1>8, <1>9, <2>1 DEF IInv, Behind
<1>14. \A j, k \in 1 .. n :
         order[j][1] = order[k][1] /\ order[j][2] = order[k][2] => j = k
  <2>1. ASSUME NEW j \in 1 .. n, NEW k \in 1 .. n, j < k,
               order[j][1] = order[k][1], order[j][2] = order[k][2]
        PROVE  FALSE
    <3>1. ComesBefore(order[j], order[k]) BY <1>3, <2>1
    <3>2. order[j][1] \in Nat /\ order[j][2] \in Int
      BY <1>1, <1>4, CandidateIs DEF Calendar
    <3>3. rules[order[j][1]].schedule.start \in Int
      <4>1. order[j][1] \in DOMAIN rules BY <1>6
      <4>2. rules[order[j][1]] \in RecurringRules BY <1>1, <4>1
      <4> QED BY <4>2 DEF RecurringRules, Schedules, Calendar
    <3> QED BY <2>1, <3>1, <3>2, <3>3 DEF ComesBefore
  <2> QED BY <2>1
<1>15. OneItemPerDate'
  <2> SUFFICES ASSUME NEW i \in DOMAIN items', NEW k \in DOMAIN items', items'[i].rule # 0,
                      items'[i].rule = items'[k].rule, items'[i].date = items'[k].date
               PROVE  i = k
    BY DEF OneItemPerDate
  <2>1. CASE i \in DOMAIN items /\ items'[i] = items[i]
    <3>1. CASE k \in DOMAIN items /\ items'[k] = items[k]
      BY <2>1, <3>1 DEF IInv, OneItemPerDate
    <3>2. CASE k - Len(items) \in 1 .. n /\ items'[k] = new[k - Len(items)]
      BY <1>6, <2>1, <3>2
    <3> QED BY <1>8, <3>1, <3>2
  <2>2. CASE i - Len(items) \in 1 .. n /\ items'[i] = new[i - Len(items)]
    <3>1. CASE k \in DOMAIN items /\ items'[k] = items[k]
      BY <1>6, <2>2, <3>1
    <3>2. CASE k - Len(items) \in 1 .. n /\ items'[k] = new[k - Len(items)]
      <4>1. i - Len(items) = k - Len(items) BY <1>6, <1>14, <2>2, <3>2
      <4>2. i \in Int /\ k \in Int /\ Len(items) \in Int BY <1>1, <1>8
      <4> QED BY <4>1, <4>2
    <3> QED BY <1>8, <3>1, <3>2
  <2> QED BY <1>8, <2>1, <2>2
<1>16. Undated' BY <1>6, <1>8 DEF IInv, Undated
<1>17. PostsAre'
  <2>1. PostedItems' = PostedItems
    <3>1. \A k \in PostedItems' : k \in PostedItems BY <1>6, <1>8 DEF PostedItems
    <3>2. \A k \in PostedItems : k \in PostedItems' /\ items'[k] = items[k]
      BY <1>1, <1>5, <1>7 DEF PostedItems
    <3> QED BY <3>1, <3>2
  <2>2. \A k \in PostedItems : items'[k].activity = items[k].activity
    BY <1>1, <1>5, <1>7 DEF PostedItems
  <2> QED BY <1>1, <2>1, <2>2, PostsKept DEF IInv
<1> QED BY <1>11, <1>12, <1>13, <1>15, <1>16, <1>17 DEF IInv

-----------------------------------------------------------------------------
(* Rules.                                                                    *)

LEMMA NothingPosted ==
  ASSUME IInv, UNCHANGED vars PROVE TypeOK' /\ now <= now' /\ Grows(ledger, ledger')
<1>1. TypeOK /\ ledger \in Seq(ActivityType) /\ now \in Int
  BY TypeParts, LedgerConstants DEF IInv, PendingTypeOK, TypeOK, Times
<1> QED BY <1>1 DEF vars, TypeOK, Grows

LEMMA CreateRuleIInv == ASSUME IInv, NEW n \in NewRules, CreateRule(n) PROVE IInv'
<1> DEFINE rule == Rule(n.schedule, n.payload)
<1>1. /\ rules \in Seq(RecurringRules) /\ rules' = Append(rules, rule)
      /\ UNCHANGED <<vars, items, posts>>
  BY DEF IInv, PendingTypeOK, CreateRule
<1>2. rule \in RecurringRules
  <2>1. n.schedule \in Schedules /\ n.payload \in AllPayloads
    BY PendingConstants DEF AllPayloads
  <2> QED BY <2>1 DEF Rule, RecurringRules
<1> HIDE DEF rule
<1>3. rules' \in Seq(RecurringRules) /\ DOMAIN rules \subseteq DOMAIN rules' BY <1>1, <1>2
<1> QED BY <1>1, <1>3, NothingPosted, ItemsKept

LEMMA ChangeRuleIInv ==
  ASSUME IInv, NEW r \in DOMAIN rules, NEW rule \in RecurringRules,
         rules' = [rules EXCEPT ![r] = rule], UNCHANGED <<vars, items, posts>>
  PROVE  IInv'
<1>1. rules \in Seq(RecurringRules) BY DEF IInv, PendingTypeOK
<1>2. rules' \in Seq(RecurringRules) /\ DOMAIN rules \subseteq DOMAIN rules' BY <1>1
<1> QED BY <1>2, NothingPosted, ItemsKept

LEMMA UpdateRuleIInv ==
  ASSUME IInv, NEW r \in DOMAIN rules, NEW end \in DueDates \cup {NoEnd}, NEW p \in Payloads,
         UpdateRule(r, end, p)
  PROVE  IInv'
<1> DEFINE schedule == [rules[r].schedule EXCEPT !.end = end]
           rule == [rules[r] EXCEPT !.schedule = schedule, !.payload = p, !.revision = @ + 1]
<1>1. rules \in Seq(RecurringRules) /\ UNCHANGED <<vars, items, posts>>
  BY DEF IInv, PendingTypeOK, UpdateRule
<1>2. rules[r] \in RecurringRules BY <1>1
<1>3. end \in Calendar \cup {NoEnd} /\ p \in AllPayloads BY PendingConstants DEF AllPayloads
<1>4. schedule \in Schedules
  <2>1. rules[r].schedule \in Schedules BY <1>2 DEF RecurringRules
  <2> QED BY <1>3, <2>1 DEF Schedules
<1>5. rules' = [rules EXCEPT ![r] = rule] BY <1>1, <1>2 DEF UpdateRule, RecurringRules
<1> HIDE DEF schedule
<1>6. rule \in RecurringRules
  <2> DEFINE first == [rules[r] EXCEPT !.schedule = schedule]
             second == [first EXCEPT !.payload = p]
  <2>1. first \in RecurringRules BY <1>2, <1>4 DEF RecurringRules
  <2> HIDE DEF first
  <2>2. second \in RecurringRules BY <1>3, <2>1 DEF RecurringRules
  <2> HIDE DEF second
  <2>3. [second EXCEPT !.revision = @ + 1] \in RecurringRules BY <2>2 DEF RecurringRules
  <2> QED BY <2>3 DEF first, second
<1> HIDE DEF rule
<1> QED BY <1>1, <1>5, <1>6, ChangeRuleIInv

LEMMA ArchiveRuleIInv == ASSUME IInv, NEW r \in DOMAIN rules, ArchiveRule(r) PROVE IInv'
<1> DEFINE rule == [rules[r] EXCEPT !.archived = ~@]
<1>1. rules \in Seq(RecurringRules) /\ UNCHANGED <<vars, items, posts>>
  BY DEF IInv, PendingTypeOK, ArchiveRule
<1>2. rules[r] \in RecurringRules BY <1>1
<1>3. rule \in RecurringRules BY <1>2 DEF RecurringRules
<1>4. rules' = [rules EXCEPT ![r] = rule] BY DEF ArchiveRule
<1> HIDE DEF rule
<1> QED BY <1>1, <1>3, <1>4, ChangeRuleIInv

-----------------------------------------------------------------------------

LEMMA NextIInv == IInv /\ [PendingNext]_allVars => IInv'
<1> SUFFICES ASSUME IInv, [PendingNext]_allVars PROVE IInv' OBVIOUS
<1>1. CASE LedgerStep
  <2>1. UNCHANGED pendingVars BY <1>1 DEF LedgerStep
  <2>2. TypeOK /\ rules' = rules /\ UNCHANGED <<items, posts>> /\ rules \in Seq(RecurringRules)
    BY <2>1 DEF pendingVars, IInv, PendingTypeOK
  <2> QED BY <1>1, <2>2, LedgerStepGrows, ItemsKept
<1>2. ASSUME NEW date \in DueDates, NEW p \in Payloads, CreatePending(date, p) PROVE IInv'
  BY <1>2, CreateIInv
<1>3. ASSUME NEW i \in DOMAIN items, SkipPending(i) PROVE IInv' BY <1>3, SkipIInv
<1>4. ASSUME NEW i \in DOMAIN items, NEW at \in EntryTimes, PostPending(i, at) PROVE IInv'
  BY <1>4, PostPendingIInv
<1>5. ASSUME NEW i \in DOMAIN items, NEW date \in DueDates \cup {items[i].date},
             NEW p \in Payloads, UpdatePending(i, date, p)
      PROVE  IInv'
  BY <1>5, UpdateIInv
<1>6. ASSUME NEW n \in NewRules, CreateRule(n) PROVE IInv' BY <1>6, CreateRuleIInv
<1>7. ASSUME NEW r \in DOMAIN rules, ArchiveRule(r) PROVE IInv' BY <1>7, ArchiveRuleIInv
<1>8. ASSUME NEW r \in DOMAIN rules, NEW end \in DueDates \cup {NoEnd}, NEW p \in Payloads,
             UpdateRule(r, end, p)
      PROVE  IInv'
  BY <1>8, UpdateRuleIInv
<1>9. CASE GenerateDue BY <1>9, GenerateIInv
<1>10. CASE UNCHANGED allVars
  <2>1. UNCHANGED vars /\ rules' = rules /\ UNCHANGED <<items, posts>>
    BY <1>10 DEF allVars, pendingVars
  <2>2. rules \in Seq(RecurringRules) BY DEF IInv, PendingTypeOK
  <2> QED BY <2>1, <2>2, NothingPosted, ItemsKept
<1> QED BY <1>1, <1>2, <1>3, <1>4, <1>5, <1>6, <1>7, <1>8, <1>9, <1>10 DEF PendingNext

\* Every command, every generation and every step of the ledger keeps the invariant.
THEOREM PendingInvariance == PendingSpec => []IInv
<1> QED BY InitIInv, NextIInv, PTL DEF PendingSpec

\* What is proposed and what it posts keep their types and their ranges.
THEOREM PendingTypesHold == PendingSpec => []PendingTypeOK
<1>1. IInv => PendingTypeOK BY DEF IInv
<1> QED BY <1>1, PendingInvariance, PTL

\* At most one Activity is ever posted for an item: post_pending_activity closes what it
\* posts, with its payload and not before its date, whatever is posted, reversed, skipped
\* and edited around it.
THEOREM ProposalsPostedOnce == PendingSpec => []PostedOnce
<1>1. IInv => PostedOnce
  <2> SUFFICES ASSUME IInv PROVE PostedOnce OBVIOUS
  <2>1. \A i \in DOMAIN items :
          /\ items[i].status = "posted" <=> items[i].activity # 0
          /\ items[i].status = "posted" =>
               /\ ledger[items[i].activity].kind = items[i].payload.kind
               /\ ledger[items[i].activity].legs = items[i].payload.legs
               /\ items[i].date <= Today
               /\ \A k \in DOMAIN items : items[k].activity = items[i].activity => k = i
    BY DEF IInv, ClosedSoundly
  <2>2. \A p \in posts : /\ p.item \in DOMAIN items /\ items[p.item].status = "posted"
                         /\ p.activity = items[p.item].activity /\ p = PostingOf(p.item)
    BY DEF IInv, PostsAre, PostedItems, PostingOf
  <2>3. \A i \in DOMAIN items : items[i].status = "posted" =>
          PostingOf(i) \in posts /\ PostingOf(i).item = i
    BY DEF IInv, PostsAre, PostedItems, PostingOf
  <2>4. \A p, q \in posts : p.item = q.item \/ p.activity = q.activity => p = q
    <3> SUFFICES ASSUME NEW p \in posts, NEW q \in posts,
                        p.item = q.item \/ p.activity = q.activity
                 PROVE  p = q
      OBVIOUS
    <3>1. p.item = q.item BY <2>1, <2>2
    <3> QED BY <2>2, <3>1
  <2> QED BY <2>1, <2>2, <2>3, <2>4 DEF PostedOnce
<1> QED BY <1>1, PendingInvariance, PTL

\* No command and no generation runs into UNIQUE(recurring_rule_id, scheduled_local_date).
THEOREM DatesStayUnique == PendingSpec => []OneItemPerDate
<1>1. IInv => OneItemPerDate BY DEF IInv
<1> QED BY <1>1, PendingInvariance, PTL

\* Where no one edits the date of a generated item, no occurrence is proposed twice.
THEOREM OccurrencesProposedOnce == ~DateEdits => (PendingSpec => []ProposedOnce)
<1> SUFFICES ASSUME ~DateEdits PROVE PendingSpec => []ProposedOnce OBVIOUS
<1>1. IInv => ProposedOnce BY DEF IInv, OneItemPerDate, Undated, ProposedOnce
<1> QED BY <1>1, PendingInvariance, PTL

-----------------------------------------------------------------------------
(* The calendar: months follow each other without a gap.                     *)

MonthCount == Cardinality(Months)

LEMMA MonthFacts ==
  /\ MonthCount \in Nat /\ Months = 0 .. MonthCount - 1
  /\ \A m \in Months : DaysIn[m] \in Nat /\ DaysIn[m] >= 1
<1>1. MonthCount \in Nat BY CalendarConstants, FS_CardinalityType DEF MonthCount
<1> QED BY <1>1, CalendarConstants DEF MonthCount

LEMMA FirstOfNext ==
  /\ FirstOf(0) = 0
  /\ \A m \in 0 .. MonthCount : FirstOf(m) \in Int
  /\ \A m \in Months : FirstOf(m + 1) = FirstOf(m) + DaysIn[m]
<1> DEFINE before(m) == {n \in Months : n < m}
<1>1. \A m : FirstOf(m) = SumOver(DaysIn, before(m)) BY DEF FirstOf, SumOver
<1>2. ASSUME NEW m PROVE IsFiniteSet(before(m)) /\ Integral(DaysIn, before(m))
  BY MonthFacts, CalendarConstants, FS_Subset DEF Integral
<1>3. FirstOf(0) = 0
  <2>1. before(0) = {} BY MonthFacts
  <2> QED BY <1>1, <2>1, SumEmpty
<1>4. ASSUME NEW m \in 0 .. MonthCount PROVE FirstOf(m) \in Int
  <2>1. SumOver(DaysIn, before(m)) \in Int BY <1>2, SumType
  <2> QED BY <1>1, <2>1
<1>5. ASSUME NEW m \in Months PROVE FirstOf(m + 1) = FirstOf(m) + DaysIn[m]
  <2>1. m \in before(m + 1) /\ before(m + 1) \ {m} = before(m) BY MonthFacts
  <2>2. SumOver(DaysIn, before(m + 1)) = SumOver(DaysIn, before(m + 1) \ {m}) + DaysIn[m]
    BY <1>2, <2>1, SumAdd
  <2>3. SumOver(DaysIn, before(m + 1)) = SumOver(DaysIn, before(m)) + DaysIn[m]
    BY <2>1, <2>2
  <2> QED BY <1>1, <2>3
<1> QED BY <1>3, <1>4, <1>5

\* Every month has a day.
LEMMA FirstOfGrows ==
  ASSUME NEW n \in 0 .. MonthCount, NEW m \in 0 .. n
  PROVE  FirstOf(m) + (n - m) <= FirstOf(n)
<1> DEFINE bad == {k \in 0 .. MonthCount : \E j \in 0 .. k : FirstOf(j) + (k - j) > FirstOf(k)}
<1>1. CASE bad = {}
  <2>1. FirstOf(m) \in Int /\ FirstOf(n) \in Int /\ m \in Int /\ n \in Int BY FirstOfNext, MonthFacts
  <2>2. ~(FirstOf(m) + (n - m) > FirstOf(n)) BY <1>1
  <2> QED BY <2>1, <2>2
<1>2. CASE bad # {}
  <2>1. bad \in SUBSET Nat BY MonthFacts
  <2>2. PICK k \in bad : \A l \in bad : k <= l BY <1>2, <2>1, LeastOfNat
  <2>3. PICK j \in 0 .. k : FirstOf(j) + (k - j) > FirstOf(k) BY <2>2
  <2>4. k \in Nat /\ k <= MonthCount /\ j \in Nat /\ j <= k /\ MonthCount \in Nat
    BY <2>1, <2>2, <2>3, MonthFacts
  <2>5. FirstOf(j) \in Int /\ FirstOf(k) \in Int BY <2>4, FirstOfNext
  <2>6. j # k BY <2>3, <2>4, <2>5
  <2>7. k - 1 \in 0 .. MonthCount /\ k - 1 \in Months /\ j \in 0 .. k - 1
    BY <2>4, <2>6, MonthFacts
  <2>8. k - 1 \notin bad BY <2>2, <2>4, <2>7
  <2>9. ~(FirstOf(j) + (k - 1 - j) > FirstOf(k - 1)) BY <2>7, <2>8
  <2>10. FirstOf((k - 1) + 1) = FirstOf(k - 1) + DaysIn[k - 1] /\ FirstOf(k - 1) \in Int
         /\ DaysIn[k - 1] \in Nat /\ DaysIn[k - 1] >= 1
    BY <2>7, FirstOfNext, MonthFacts
  <2>11. (k - 1) + 1 = k BY <2>4
  <2> HIDE DEF bad
  <2>12. FirstOf(k) = FirstOf(k - 1) + DaysIn[k - 1] BY <2>10, <2>11
  <2> QED BY <2>3, <2>4, <2>5, <2>9, <2>10, <2>12
<1> QED BY <1>1, <1>2

LEMMA LaterMonth ==
  ASSUME NEW m \in Months, NEW n \in 0 .. MonthCount, m < n
  PROVE  /\ FirstOf(m) \in Nat /\ FirstOf(n) \in Nat
         /\ FirstOf(m) + DaysIn[m] <= FirstOf(n)
<1>1. MonthCount \in Nat /\ m \in Nat /\ m + 1 \in 0 .. n /\ m \in 0 .. MonthCount /\ n \in Nat
  BY MonthFacts
<1>2. FirstOf(m + 1) + (n - (m + 1)) <= FirstOf(n) BY <1>1, FirstOfGrows
<1>3. FirstOf(0) + (m - 0) <= FirstOf(m) /\ FirstOf(0) + (n - 0) <= FirstOf(n)
  BY <1>1, FirstOfGrows
<1>4. FirstOf(m) \in Int /\ FirstOf(n) \in Int /\ FirstOf(0) = 0 /\ DaysIn[m] \in Nat
      /\ FirstOf(m + 1) = FirstOf(m) + DaysIn[m]
  BY <1>1, FirstOfNext, MonthFacts
<1> QED BY <1>1, <1>2, <1>3, <1>4

LEMMA CalendarEnd ==
  /\ LastDate \in Int /\ LastDate >= -1 /\ FirstOf(MonthCount) = LastDate + 1
  /\ IsFiniteSet(Calendar) /\ Cardinality(Calendar) = LastDate + 1
<1>1. MonthCount \in Nat BY MonthFacts
<1>2. FirstOf(0) + (MonthCount - 0) <= FirstOf(MonthCount) /\ FirstOf(0) = 0
      /\ FirstOf(MonthCount) \in Int
  BY <1>1, FirstOfGrows, FirstOfNext
<1>3. LastDate = FirstOf(MonthCount) - 1 BY DEF LastDate, MonthCount
<1> HIDE DEF MonthCount
<1>4. LastDate \in Int /\ LastDate >= -1 /\ FirstOf(MonthCount) = LastDate + 1
  BY <1>1, <1>2, <1>3
<1>5. IsFiniteSet(Calendar) /\ Cardinality(Calendar) = IF 0 > LastDate THEN 0 ELSE LastDate - 0 + 1
  BY <1>4, 0 \in Int, FS_Interval DEF Calendar
<1> QED BY <1>4, <1>5

\* Each date of the calendar is in one month.
LEMMA MonthOfDate ==
  ASSUME NEW d \in Calendar
  PROVE  /\ MonthOf(d) \in Months
         /\ FirstOf(MonthOf(d)) <= d /\ d < FirstOf(MonthOf(d)) + DaysIn[MonthOf(d)]
<1> DEFINE begun == {m \in Months : FirstOf(m) <= d}
<1>1. MonthCount \in Nat /\ d \in Nat /\ d < FirstOf(MonthCount)
  BY MonthFacts, CalendarEnd DEF Calendar
<1>2. 0 \in begun
  <2>1. MonthCount # 0 BY <1>1, FirstOfNext
  <2> QED BY <1>1, <2>1, MonthFacts, FirstOfNext
<1>3. begun \in SUBSET (0 .. MonthCount) BY <1>1, MonthFacts
<1>4. PICK m \in begun : \A n \in begun : n <= m BY <1>1, <1>2, <1>3, GreatestUpTo
<1>5. m \in Months /\ FirstOf(m) <= d /\ m \in Nat /\ m < MonthCount BY <1>1, <1>4, MonthFacts
<1>6. d < FirstOf(m + 1)
  <2>1. CASE m + 1 = MonthCount BY <1>1, <2>1
  <2>2. CASE m + 1 # MonthCount
    <3>1. m + 1 \in Months /\ FirstOf(m + 1) \in Int BY <1>1, <1>5, <2>2, MonthFacts, FirstOfNext
    <3>2. m + 1 \notin begun BY <1>4, <1>5
    <3> QED BY <1>1, <3>1, <3>2
  <2> QED BY <2>1, <2>2
<1>7. m \in Months /\ FirstOf(m) <= d /\ d < FirstOf(m) + DaysIn[m] BY <1>5, <1>6, FirstOfNext
<1> QED BY <1>7 DEF MonthOf

-----------------------------------------------------------------------------
(* The occurrences of a schedule ascend.                                     *)

Anchored(s) ==
  /\ s.cadence \in {"daily", "weekly", "monthly", "yearly"} /\ s.interval \in Nat \ {0}
  /\ s.start \in Calendar /\ s.anchor = s.start /\ s.end \in Int

LEMMA Multiples ==
  ASSUME NEW k \in Nat, k >= 1, NEW i \in Nat, NEW j \in Nat, i < j
  PROVE  i * k \in Nat /\ j * k \in Nat /\ i * k + (j - i) <= j * k
<1>1. j - i \in Nat /\ (j - i) * k >= j - i BY SMTT(30)
<1>2. j * k = i * k + (j - i) * k BY SMTT(30)
<1>3. i * k \in Nat /\ j * k \in Nat /\ (j - i) * k \in Int BY <1>1
<1> QED BY <1>1, <1>2, <1>3

LEMMA StepType == ASSUME NEW s, Anchored(s) PROVE Step(s) \in Nat /\ Step(s) >= 1
<1> DEFINE unit == CASE s.cadence = "weekly" -> DaysPerWeek
                     [] s.cadence = "yearly" -> MonthsPerYear
                     [] OTHER -> 1
<1>1. unit \in Nat /\ unit >= 1 BY CalendarConstants
<1>2. s.interval \in Nat /\ s.interval >= 1 BY DEF Anchored
<1>3. Step(s) = s.interval * unit BY DEF Step
<1> HIDE DEF unit
<1>4. s.interval * unit \in Nat /\ s.interval * unit >= 1 BY <1>1, <1>2, SMTT(30)
<1> QED BY <1>3, <1>4

LEMMA InMonth ==
  ASSUME NEW anchor \in Calendar, NEW m \in Months
  PROVE  ClampedDay(anchor, m) \in Nat /\ ClampedDay(anchor, m) < DaysIn[m]
<1>1. DayOf(anchor) \in Nat
  <2>1. MonthOf(anchor) \in Months /\ FirstOf(MonthOf(anchor)) <= anchor BY MonthOfDate
  <2>2. FirstOf(MonthOf(anchor)) \in Int /\ anchor \in Int
    BY <2>1, MonthFacts, FirstOfNext DEF Calendar
  <2> QED BY <2>1, <2>2 DEF DayOf
<1>2. DaysIn[m] \in Nat /\ DaysIn[m] >= 1 BY MonthFacts
<1> QED BY <1>1, <1>2 DEF ClampedDay, Earlier

LEMMA MonthOccurrenceGrows ==
  ASSUME NEW anchor \in Calendar, NEW p \in Nat, NEW q \in Nat, p < q
  PROVE  /\ MonthOccurrence(anchor, p) \in Nat /\ MonthOccurrence(anchor, q) \in Nat
         /\ MonthOccurrence(anchor, p) + (q - p) <= MonthOccurrence(anchor, q)
<1> DEFINE m == MonthOf(anchor) + p
           n == MonthOf(anchor) + q
<1>1. MonthOf(anchor) \in Nat BY MonthOfDate, MonthFacts
<1>2. m \in Nat /\ n \in Nat /\ n - m = q - p /\ m < n BY <1>1
<1>3. MonthCount \in Nat /\ \A k \in Nat : k \in Months <=> k < MonthCount BY MonthFacts
<1>4. LastDate \in Int /\ LastDate >= -1 /\ FirstOf(MonthCount) = LastDate + 1 BY CalendarEnd
<1>5. /\ MonthOccurrence(anchor, p) =
           IF m \in Months THEN FirstOf(m) + ClampedDay(anchor, m) ELSE LastDate + 1 + m
      /\ MonthOccurrence(anchor, q) =
           IF n \in Months THEN FirstOf(n) + ClampedDay(anchor, n) ELSE LastDate + 1 + n
  BY DEF MonthOccurrence
<1> HIDE DEF m, n
<1>6. ASSUME NEW k \in Months
      PROVE  /\ FirstOf(k) \in Nat /\ ClampedDay(anchor, k) \in Nat /\ DaysIn[k] \in Nat
             /\ FirstOf(k) + ClampedDay(anchor, k) < FirstOf(k) + DaysIn[k]
             /\ FirstOf(k) + DaysIn[k] <= LastDate + 1
  <2>1. k < MonthCount /\ k \in Nat /\ MonthCount \in 0 .. MonthCount BY <1>3, MonthFacts
  <2>2. FirstOf(k) \in Nat /\ FirstOf(k) + DaysIn[k] <= FirstOf(MonthCount)
    BY <2>1, LaterMonth
  <2>3. ClampedDay(anchor, k) \in Nat /\ ClampedDay(anchor, k) < DaysIn[k] /\ DaysIn[k] \in Nat
    BY InMonth, MonthFacts
  <2> QED BY <1>4, <2>2, <2>3
<1>7. CASE m \in Months /\ n \in Months
  <2>1. m + 1 \in 0 .. n /\ n \in 0 .. MonthCount BY <1>2, <1>3, <1>7
  <2>2. FirstOf(m + 1) + (n - (m + 1)) <= FirstOf(n) BY <2>1, FirstOfGrows
  <2>3. FirstOf(m + 1) = FirstOf(m) + DaysIn[m] BY <1>7, FirstOfNext
  <2> QED BY <1>2, <1>5, <1>6, <1>7, <2>2, <2>3
<1>8. CASE m \in Months /\ n \notin Months BY <1>2, <1>4, <1>5, <1>6, <1>8
<1>9. CASE m \notin Months
  <2>1. n \notin Months BY <1>2, <1>3, <1>9
  <2> QED BY <1>2, <1>4, <1>5, <1>9, <2>1
<1> QED BY <1>7, <1>8, <1>9

LEMMA OccurrenceGrows ==
  ASSUME NEW s, Anchored(s), NEW i \in Nat, NEW j \in Nat, i < j
  PROVE  /\ OccurrenceAt(s, i) \in Nat /\ OccurrenceAt(s, j) \in Nat
         /\ OccurrenceAt(s, i) + (j - i) <= OccurrenceAt(s, j)
<1>1. Step(s) \in Nat /\ Step(s) >= 1 BY StepType
<1>2. i * Step(s) \in Nat /\ j * Step(s) \in Nat /\ i * Step(s) + (j - i) <= j * Step(s)
  BY <1>1, Multiples
<1>3. s.anchor \in Calendar /\ s.anchor \in Nat BY DEF Anchored, Calendar
<1>4. CASE ByMonth(s)
  <2> DEFINE p == i * Step(s)
             q == j * Step(s)
  <2>1. p \in Nat /\ q \in Nat /\ p + (j - i) <= q BY <1>2
  <2>2. OccurrenceAt(s, i) = MonthOccurrence(s.anchor, p)
        /\ OccurrenceAt(s, j) = MonthOccurrence(s.anchor, q)
    BY <1>4 DEF OccurrenceAt
  <2> HIDE DEF p, q
  <2>3. /\ MonthOccurrence(s.anchor, p) \in Nat /\ MonthOccurrence(s.anchor, q) \in Nat
        /\ MonthOccurrence(s.anchor, p) + (q - p) <= MonthOccurrence(s.anchor, q)
    BY <1>3, <2>1, MonthOccurrenceGrows
  <2> QED BY <2>1, <2>2, <2>3
<1>5. CASE ~ByMonth(s) BY <1>2, <1>3, <1>5 DEF OccurrenceAt
<1> QED BY <1>4, <1>5

-----------------------------------------------------------------------------
(* first_index_at_or_after finds the first occurrence at or after the target. *)

LEMMA IndexFound ==
  ASSUME NEW s, Anchored(s), NEW target \in Calendar
  PROVE  /\ FirstIndex(s, target) \in Nat
         /\ \A i \in Nat : OccurrenceAt(s, i) >= target => FirstIndex(s, target) <= i
<1> DEFINE distance == IF ByMonth(s) THEN MonthOf(target) - MonthOf(s.anchor)
                       ELSE target - s.anchor
           rough == CeilDiv(distance, Step(s))
           IsUp(i) == /\ OccurrenceAt(s, i) >= target
                      /\ \A j \in rough .. i - 1 : OccurrenceAt(s, j) < target
           up == CHOOSE i \in rough .. rough + Cardinality(Calendar) : IsUp(i)
           IsFirst(i) == /\ \A j \in i .. up - 1 : OccurrenceAt(s, j) >= target
                         /\ i > 0 => OccurrenceAt(s, i - 1) < target
           first == CHOOSE i \in 0 .. up : IsFirst(i)
<1>1. FirstIndex(s, target) = IF s.anchor >= target THEN 0 ELSE first BY DEF FirstIndex
<1>2. target \in Nat /\ target <= LastDate /\ LastDate \in Int BY CalendarEnd DEF Calendar
<1>3. CASE s.anchor >= target BY <1>1, <1>3
<1>4. CASE ~(s.anchor >= target)
  <2>1. rough \in Nat
    <3>1. Step(s) \in Nat /\ Step(s) >= 1 BY StepType
    <3>2. distance \in Int
      <4>1. s.anchor \in Calendar BY DEF Anchored
      <4>2. MonthOf(target) \in Int /\ MonthOf(s.anchor) \in Int
        BY <4>1, MonthOfDate, MonthFacts
      <4>3. s.anchor \in Int BY <4>1 DEF Calendar
      <4> QED BY <1>2, <4>2, <4>3
    <3> HIDE DEF distance
    <3>3. distance > 0 => (distance + Step(s) - 1) \div Step(s) \in Nat
      <4> SUFFICES ASSUME distance > 0 PROVE (distance + Step(s) - 1) \div Step(s) \in Nat
        OBVIOUS
      <4> DEFINE num == distance + Step(s) - 1
                 quo == num \div Step(s)
      <4>1. num \in Nat BY <3>1, <3>2
      <4> HIDE DEF num
      <4>2. quo \in Int /\ num = Step(s) * quo + (num % Step(s))
            /\ num % Step(s) \in 0 .. Step(s) - 1
        BY <3>1, <4>1, SMTT(30)
      <4> HIDE DEF quo
      <4>3. quo >= 0
        <5> SUFFICES ASSUME quo <= -1 PROVE FALSE BY <4>2
        <5>1. Step(s) * quo <= -Step(s) BY <3>1, <4>2, SMTT(30)
        <5>2. Step(s) * quo \in Int BY <3>1, <4>2
        <5> QED BY <3>1, <4>1, <4>2, <5>1, <5>2
      <4> QED BY <4>2, <4>3 DEF num, quo
    <3> QED BY <3>2, <3>3 DEF CeilDiv
  <2> HIDE DEF rough
  <2>2. \A i \in Nat : OccurrenceAt(s, i) \in Nat
    <3>1. ASSUME NEW i \in Nat PROVE OccurrenceAt(s, i) \in Nat
      <4>1. i + 1 \in Nat /\ i < i + 1 OBVIOUS
      <4> QED BY <4>1, OccurrenceGrows
    <3> QED BY <3>1
  <2>3. up \in Nat /\ OccurrenceAt(s, up) >= target
    <3> DEFINE last == rough + Cardinality(Calendar)
               reached == {i \in rough .. last : OccurrenceAt(s, i) >= target}
    <3>1. Cardinality(Calendar) = LastDate + 1 BY CalendarEnd
    <3>2. last \in Nat /\ rough < last /\ last - rough = LastDate + 1 BY <1>2, <2>1, <3>1
    <3>3. OccurrenceAt(s, rough) + (last - rough) <= OccurrenceAt(s, last)
      BY <2>1, <3>2, OccurrenceGrows
    <3>4. OccurrenceAt(s, rough) \in Nat /\ OccurrenceAt(s, last) \in Nat BY <2>1, <2>2, <3>2
    <3>5. OccurrenceAt(s, last) >= target BY <1>2, <3>2, <3>3, <3>4
    <3>6. last \in reached BY <2>1, <3>2, <3>5
    <3>7. reached \in SUBSET Nat BY <2>1, <3>2
    <3> HIDE DEF last
    <3>8. PICK i \in reached : \A j \in reached : i <= j BY <3>6, <3>7, LeastOfNat
    <3>9. IsUp(i)
      <4>1. i \in Nat /\ i \in rough .. last /\ OccurrenceAt(s, i) >= target BY <3>7, <3>8
      <4>2. ASSUME NEW j \in rough .. i - 1 PROVE OccurrenceAt(s, j) < target
        <5>1. j \in rough .. last /\ j \in Nat /\ j < i BY <2>1, <3>2, <4>1
        <5>2. j \notin reached BY <3>8, <4>1, <5>1
        <5>3. ~(OccurrenceAt(s, j) >= target) BY <5>1, <5>2
        <5> QED BY <1>2, <2>2, <5>1, <5>3
      <4> QED BY <4>1, <4>2
    <3> HIDE DEF IsUp
    <3>10. i \in rough .. last BY <3>8
    <3>11. up \in rough .. last /\ IsUp(up) BY <3>9, <3>10, Zenon DEF last
    <3>12. OccurrenceAt(s, up) >= target BY <3>11 DEF IsUp
    <3>13. up \in Nat BY <2>1, <3>2, <3>11
    <3> QED BY <3>12, <3>13
  <2> HIDE DEF up
  <2>4. first \in Nat /\ (first > 0 => OccurrenceAt(s, first - 1) < target)
    <3> DEFINE reached == {i \in 0 .. up : OccurrenceAt(s, i) >= target}
    <3>1. reached \in SUBSET Nat /\ up \in reached BY <2>3
    <3>2. PICK i \in reached : \A j \in reached : i <= j BY <3>1, LeastOfNat
    <3>3. i \in Nat /\ i <= up /\ OccurrenceAt(s, i) >= target BY <2>3, <3>2
    <3>4. IsFirst(i)
      <4>1. ASSUME NEW j \in i .. up - 1 PROVE OccurrenceAt(s, j) >= target
        <5>1. j \in Nat BY <3>3
        <5>2. CASE j = i BY <3>3, <5>2
        <5>3. CASE i < j
          <6>1. OccurrenceAt(s, i) + (j - i) <= OccurrenceAt(s, j) BY <3>3, <5>1, <5>3, OccurrenceGrows
          <6> QED BY <1>2, <2>2, <3>3, <5>1, <5>3, <6>1
        <5> QED BY <3>3, <5>1, <5>2, <5>3
      <4>2. ASSUME i > 0 PROVE OccurrenceAt(s, i - 1) < target
        <5>1. i - 1 \in 0 .. up /\ i - 1 \in Nat BY <2>3, <3>3, <4>2
        <5>2. i - 1 \notin reached BY <3>2, <3>3
        <5>3. ~(OccurrenceAt(s, i - 1) >= target) BY <5>1, <5>2
        <5> QED BY <1>2, <2>2, <5>1, <5>3
      <4> QED BY <4>1, <4>2
    <3>5. i \in 0 .. up BY <2>3, <3>3
    <3> HIDE DEF IsFirst
    <3>6. first \in 0 .. up /\ IsFirst(first) BY <3>4, <3>5, Zenon
    <3> QED BY <2>3, <3>6 DEF IsFirst
  <2> HIDE DEF first
  <2>5. ASSUME NEW i \in Nat, OccurrenceAt(s, i) >= target PROVE first <= i
    <3> SUFFICES ASSUME i < first PROVE FALSE BY <2>4
    <3>1. first - 1 \in Nat /\ i <= first - 1 BY <2>4
    <3>2. OccurrenceAt(s, first - 1) < target BY <2>4, <3>1
    <3>3. CASE i = first - 1 BY <1>2, <2>2, <2>5, <3>1, <3>2, <3>3
    <3>4. CASE i < first - 1
      <4>1. OccurrenceAt(s, i) + ((first - 1) - i) <= OccurrenceAt(s, first - 1)
        BY <3>1, <3>4, OccurrenceGrows
      <4> QED BY <1>2, <2>2, <2>5, <3>1, <3>2, <3>4, <4>1
    <3> QED BY <3>1, <3>3, <3>4
  <2> QED BY <1>1, <1>4, <2>4, <2>5
<1> QED BY <1>3, <1>4

-----------------------------------------------------------------------------
(* A window leaves no occurrence out, and what falls on a date is one.       *)

\* d is a date of the schedule, whatever its end is.
OnDay(s, d) == s.start <= d /\ \E i \in Nat : OccurrenceAt(s, i) = d

LEMMA WindowHas ==
  ASSUME NEW s, Anchored(s), NEW from \in Calendar, NEW d \in Calendar, NEW after \in Int,
         NEW through \in Int, OnDay(s, d), from <= d, after < d, d <= s.end, d <= through
  PROVE  d \in Window(s, from, after, through)
<1>1. PICK i \in Nat : OccurrenceAt(s, i) = d BY DEF OnDay
<1> DEFINE first == FirstIndex(s, from)
<1>2. first \in Nat /\ first <= i BY <1>1, IndexFound
<1>3. LastDate \in Int /\ Cardinality(Calendar) = LastDate + 1 /\ d \in Nat /\ d <= LastDate
  BY CalendarEnd DEF Calendar
<1> HIDE DEF first
<1>4. i - first <= d
  <2>1. CASE first = i BY <1>2, <1>3, <2>1
  <2>2. CASE first < i
    <3>1. OccurrenceAt(s, first) \in Nat
          /\ OccurrenceAt(s, first) + (i - first) <= OccurrenceAt(s, i)
      BY <1>2, <2>2, OccurrenceGrows
    <3> QED BY <1>1, <1>2, <1>3, <3>1
  <2> QED BY <1>2, <2>1, <2>2
<1>5. i \in first .. first + Cardinality(Calendar) BY <1>2, <1>3, <1>4
<1>6. d <= Earlier(s.end, through) BY DEF Earlier
<1> QED BY <1>1, <1>5, <1>6 DEF Window, first

\* A number with no remainder is a multiple.
LEMMA Multiple ==
  ASSUME NEW n \in Nat, NEW k \in Nat, k >= 1, n % k = 0 PROVE \E i \in Nat : i * k = n
<1> DEFINE q == n \div k
<1>1. q \in Int /\ n = k * q + (n % k) BY SMTT(30)
<1> HIDE DEF q
<1>2. n = k * q BY <1>1
<1>3. q \in Nat
  <2> SUFFICES ASSUME q <= -1 PROVE FALSE BY <1>1
  <2>1. k * q <= -k BY <1>1, SMTT(30)
  <2> QED BY <1>2, <2>1
<1>4. q * k = n BY <1>1, <1>2, SMTT(30)
<1> QED BY <1>3, <1>4

LEMMA FallsOnDay ==
  ASSUME NEW s, Anchored(s), NEW d \in Calendar, Falls(s, d) PROVE OnDay(s, d)
<1>1. s.anchor \in Calendar /\ s.anchor <= d /\ s.start <= d /\ s.anchor \in Nat /\ d \in Nat
  BY DEF Anchored, Falls, Calendar
<1>2. Step(s) \in Nat /\ Step(s) >= 1 BY StepType
<1>3. CASE ~ByMonth(s)
  <2>1. (d - s.anchor) % Step(s) = 0 BY <1>3 DEF Falls
  <2>2. d - s.anchor \in Nat BY <1>1
  <2>3. PICK i \in Nat : i * Step(s) = d - s.anchor BY <1>2, <2>1, <2>2, Multiple
  <2>4. OccurrenceAt(s, i) = s.anchor + i * Step(s) BY <1>3 DEF OccurrenceAt
  <2>5. OccurrenceAt(s, i) = d BY <1>1, <2>3, <2>4
  <2> QED BY <1>1, <2>5 DEF OnDay
<1>4. CASE ByMonth(s)
  <2> DEFINE m == MonthOf(d)
             n == MonthOf(s.anchor)
  <2>1. /\ (m - n) % Step(s) = 0
        /\ \/ DayOf(d) = DayOf(s.anchor)
           \/ DayOf(d) = DaysIn[m] - 1 /\ DayOf(d) < DayOf(s.anchor)
    BY <1>4 DEF Falls
  <2>2. /\ m \in Months /\ FirstOf(m) <= d /\ d < FirstOf(m) + DaysIn[m]
        /\ n \in Months /\ FirstOf(n) <= s.anchor /\ s.anchor < FirstOf(n) + DaysIn[n]
    BY <1>1, MonthOfDate
  <2>3. /\ m \in Nat /\ n \in Nat /\ FirstOf(m) \in Int /\ FirstOf(n) \in Int
        /\ DaysIn[m] \in Nat /\ DaysIn[n] \in Nat /\ m \in 0 .. MonthCount
    BY <2>2, MonthFacts, FirstOfNext
  <2>4. DayOf(d) = d - FirstOf(m) /\ DayOf(s.anchor) = s.anchor - FirstOf(n) BY DEF DayOf
  <2> HIDE DEF m, n
  <2>6. n <= m
    <3> SUFFICES ASSUME m < n PROVE FALSE BY <2>3
    <3>1. n \in 0 .. MonthCount BY <2>2, MonthFacts
    <3>2. FirstOf(m) + DaysIn[m] <= FirstOf(n) BY <2>2, <3>1, LaterMonth
    <3> QED BY <1>1, <2>2, <2>3, <3>2
  <2>7. m - n \in Nat BY <2>3, <2>6
  <2>8. PICK i \in Nat : i * Step(s) = m - n BY <1>2, <2>1, <2>7, Multiple
  <2>9. n + (m - n) = m BY <2>3
  <2>10. OccurrenceAt(s, i) = FirstOf(m) + ClampedDay(s.anchor, m)
    BY <1>4, <2>2, <2>8, <2>9 DEF OccurrenceAt, MonthOccurrence, n
  <2>11. ClampedDay(s.anchor, m) = Earlier(DayOf(s.anchor), DaysIn[m] - 1) BY DEF ClampedDay
  <2>12. ClampedDay(s.anchor, m) = d - FirstOf(m)
    BY <1>1, <2>1, <2>2, <2>3, <2>4, <2>11 DEF Earlier
  <2>13. OccurrenceAt(s, i) = d BY <1>1, <2>3, <2>10, <2>12
  <2> QED BY <1>1, <2>13 DEF OnDay
<1> QED BY <1>3, <1>4

-----------------------------------------------------------------------------
(* No occurrence is left out.                                                *)

Proposed(r, d) == \E i \in DOMAIN items : items[i].rule = r /\ items[i].due = d

\* Before an occurrence that was proposed, every other one was.
NoGap ==
  \A i \in DOMAIN items, d \in Calendar :
    /\ items[i].rule # 0 /\ d <= items[i].due
    /\ OnDay(rules[items[i].rule].schedule, d)
    => Proposed(items[i].rule, d)

\* The anchor is the start, and neither ever changes.
SinceStart == \A r \in DOMAIN rules : rules[r].schedule.anchor = rules[r].schedule.start

GapInv == IInv /\ NoGap /\ SinceStart

LEMMA RuleAnchored ==
  ASSUME rules \in Seq(RecurringRules), SinceStart, NEW r \in DOMAIN rules
  PROVE  Anchored(rules[r].schedule)
<1>1. rules[r] \in RecurringRules OBVIOUS
<1>2. rules[r].schedule \in Schedules BY <1>1 DEF RecurringRules
<1>3. LastDate \in Int BY CalendarEnd
<1> QED BY <1>2, <1>3 DEF SinceStart, Schedules, Anchored, NoEnd, Calendar

\* A date that has come and that no item of the rule has is missing.
LEMMA MissingOrProposed ==
  ASSUME GapInv, ~DateEdits, NEW r \in DOMAIN rules, NEW d \in Calendar,
         OnDay(rules[r].schedule, d), d <= rules[r].schedule.end, d <= Today
  PROVE  d \in MissingDates(r) \/ Proposed(r, d)
<1> DEFINE s    == rules[r].schedule
           past == {x \in ExistingDates(r) : x <= Today}
<1>1. /\ rules \in Seq(RecurringRules) /\ items \in Seq(PendingItems) /\ r \in Nat /\ r # 0
      /\ Anchored(s)
  BY RuleAnchored DEF GapInv, IInv, PendingTypeOK
<1>2. \A x \in ExistingDates(r) : x \in Calendar /\ Proposed(r, x)
                                  /\ \E i \in DOMAIN items : items[i].rule = r /\ items[i].due = x
  <2> SUFFICES ASSUME NEW i \in DOMAIN items, items[i].rule = r
               PROVE  items[i].date \in Calendar /\ items[i].due = items[i].date
    BY DEF ExistingDates, Proposed
  <2>1. items[i] \in PendingItems BY <1>1
  <2> QED BY <1>1, <2>1 DEF PendingItems, GapInv, IInv, Undated
<1>3. CASE d \in ExistingDates(r) BY <1>2, <1>3
<1>4. Today \in Int
  <2>1. OriginDate \in Int BY PendingConstants DEF Calendar
  <2>2. now \in Times BY DEF GapInv, IInv, PendingTypeOK, TypeOK
  <2>3. Day(now) \in Int BY <2>2, DayRange, LedgerConstants DEF Times
  <2> QED BY <2>1, <2>3 DEF Today
<1>5. LastDate \in Nat /\ d \in Int BY CalendarEnd DEF Calendar
<1>6. s.start \in Calendar /\ s.start <= d BY <1>1 DEF Anchored, OnDay
<1>7. CASE d \notin ExistingDates(r) /\ past = {}
  <2>1. s.start - 1 \in Int /\ s.start - 1 < d BY <1>5, <1>6 DEF Calendar
  <2>2. d \in OccurrencesThrough(s, Today)
    BY <1>1, <1>4, <1>6, <2>1, WindowHas DEF OccurrencesThrough
  <2>3. MissingDates(r) = OccurrencesThrough(s, Today) \ ExistingDates(r)
    BY <1>7 DEF MissingDates
  <2> QED BY <1>7, <2>2, <2>3
<1>8. CASE d \notin ExistingDates(r) /\ past # {}
  <2>1. past \in SUBSET (0 .. LastDate) BY <1>2 DEF Calendar
  <2>2. Max(past) \in past BY <1>5, <1>8, <2>1, MaxUpTo
  <2>3. Max(past) \in Calendar /\ Max(past) \in Int BY <1>2, <2>2 DEF Calendar
  <2>4. MissingDates(r) = OccurrencesAfter(s, Max(past), Today) \ ExistingDates(r)
    BY <1>8 DEF MissingDates
  <2>5. Max(past) \in ExistingDates(r) BY <2>2
  <2> DEFINE last == Max(past)
  <2> HIDE DEF last, past
  <2>6. CASE d <= last
    <3>1. PICK i \in DOMAIN items : items[i].rule = r /\ items[i].due = last
      BY <1>2, <2>5 DEF last
    <3>2. items[i].rule # 0 /\ d <= items[i].due BY <1>1, <2>6, <3>1
    <3> QED BY <3>1, <3>2 DEF GapInv, NoGap
  <2>7. CASE last < d
    <3>1. s.end \in Int BY <1>1 DEF Anchored
    <3>2. ~(Earlier(s.end, Today) <= last)
      BY <1>4, <1>5, <2>3, <2>7, <3>1 DEF Earlier, last
    <3>3. d \in Window(s, last, last, Today)
      BY <1>1, <1>4, <1>5, <2>3, <2>7, WindowHas DEF last
    <3> QED BY <1>8, <2>4, <3>2, <3>3 DEF OccurrencesAfter, last
  <2> QED BY <1>5, <2>3, <2>6, <2>7 DEF last
<1> QED BY <1>3, <1>7, <1>8

LEMMA MissingIs ==
  ASSUME GapInv, NEW r \in DOMAIN rules, NEW d \in MissingDates(r)
  PROVE  d \in Calendar /\ d <= rules[r].schedule.end /\ d <= Today
<1>1. rules \in Seq(RecurringRules) /\ Anchored(rules[r].schedule)
  BY RuleAnchored DEF GapInv, IInv, PendingTypeOK
<1>2. d \in Calendar /\ d <= Earlier(rules[r].schedule.end, Today)
  BY DEF MissingDates, OccurrencesThrough, OccurrencesAfter, Window
<1>3. OriginDate \in Int BY PendingConstants DEF Calendar
<1>4. now \in Times BY DEF GapInv, IInv, PendingTypeOK, TypeOK
<1>5. Day(now) \in Int BY <1>4, DayRange, LedgerConstants DEF Times
<1>6. Today \in Int /\ rules[r].schedule.end \in Int /\ d \in Int
  BY <1>1, <1>2, <1>3, <1>5 DEF Today, Anchored, Calendar
<1> QED BY <1>2, <1>6 DEF Earlier

LEMMA CandidateAt ==
  ASSUME NEW r \in DOMAIN rules, NEW d
  PROVE  <<r, d>> \in Candidates <=> ~rules[r].archived /\ ~Blocked(r) /\ d \in MissingDates(r)
BY DEF Candidates

LEMMA CandidateParts ==
  ASSUME GapInv, NEW c \in Candidates
  PROVE  /\ c[1] \in DOMAIN rules /\ c[2] \in Calendar /\ c[2] \in MissingDates(c[1])
         /\ c = <<c[1], c[2]>> /\ ~rules[c[1]].archived /\ ~Blocked(c[1])
         /\ c[1] \in Int /\ c[2] \in Int /\ rules[c[1]].schedule.start \in Int
<1>1. PICK r \in DOMAIN rules : \E d \in MissingDates(r) : /\ c = <<r, d>>
                                                           /\ ~rules[r].archived /\ ~Blocked(r)
  BY DEF Candidates
<1>2. PICK d \in MissingDates(r) : c = <<r, d>> BY <1>1
<1>3. rules \in Seq(RecurringRules) /\ Anchored(rules[r].schedule)
  BY RuleAnchored DEF GapInv, IInv, PendingTypeOK
<1>4. d \in Calendar BY MissingIs
<1>5. r \in Int /\ d \in Int /\ rules[r].schedule.start \in Int
  BY <1>3, <1>4 DEF Anchored, Calendar
<1> QED BY <1>1, <1>2, <1>4, <1>5

LEMMA CandidatesFinite == ASSUME GapInv PROVE IsFiniteSet(Candidates)
<1>1. rules \in Seq(RecurringRules) BY DEF GapInv, IInv, PendingTypeOK
<1>2. Len(rules) \in Int /\ DOMAIN rules = 1 .. Len(rules) BY <1>1
<1>3. IsFiniteSet(DOMAIN rules) BY <1>2, 1 \in Int, FS_Interval
<1>4. IsFiniteSet(Calendar) BY CalendarEnd
<1>5. IsFiniteSet((DOMAIN rules) \X Calendar) BY <1>3, <1>4, FS_Product
<1>6. ASSUME NEW c \in Candidates PROVE c \in (DOMAIN rules) \X Calendar
  BY CandidateParts
<1>7. Candidates \in SUBSET ((DOMAIN rules) \X Calendar) BY <1>6
<1> QED BY <1>5, <1>7, FS_Subset

\* Within the budget: of two candidates the earlier one is generated first.
LEMMA BatchIsFirst ==
  ASSUME GapInv, NEW b \in Candidates, NEW c \in Batch, ComesBefore(b, c) PROVE b \in Batch
<1> DEFINE under(x) == {y \in Candidates : ComesBefore(y, x)}
<1>1. c \in Candidates /\ Cardinality(under(c)) < MaxPerCall BY DEF Batch, FirstFew, Rank
<1>2. under(b) \subseteq under(c)
  <2> SUFFICES ASSUME NEW y \in Candidates, ComesBefore(y, b) PROVE ComesBefore(y, c) OBVIOUS
  <2>1. /\ y[1] \in Int /\ y[2] \in Int /\ rules[y[1]].schedule.start \in Int
        /\ b[1] \in Int /\ b[2] \in Int /\ rules[b[1]].schedule.start \in Int
        /\ c[1] \in Int /\ c[2] \in Int /\ rules[c[1]].schedule.start \in Int
    BY <1>1, CandidateParts
  <2> QED BY <2>1 DEF ComesBefore
<1>3. under(c) \in SUBSET Candidates OBVIOUS
<1>4. IsFiniteSet(under(c)) BY <1>3, CandidatesFinite, FS_Subset
<1>5. Cardinality(under(b)) <= Cardinality(under(c)) /\ IsFiniteSet(under(b))
  BY <1>2, <1>4, FS_Subset
<1>6. Cardinality(under(b)) \in Nat /\ Cardinality(under(c)) \in Nat
  BY <1>4, <1>5, FS_CardinalityType
<1>7. Cardinality(under(b)) < MaxPerCall BY <1>1, <1>5, <1>6, PendingConstants
<1> QED BY <1>7 DEF Batch, FirstFew, Rank

\* A call that has budget left generates all there is.
LEMMA BatchIsAll == ASSUME GapInv, ~BudgetUsed PROVE Batch = Candidates
<1> SUFFICES ASSUME NEW c \in Candidates PROVE c \in Batch BY DEF Batch, FirstFew
<1> DEFINE under == {y \in Candidates : ComesBefore(y, c)}
<1>1. IsFiniteSet(Candidates) /\ under \in SUBSET Candidates BY CandidatesFinite
<1>2. Cardinality(under) <= Cardinality(Candidates) /\ IsFiniteSet(under) BY <1>1, FS_Subset
<1>3. Cardinality(under) \in Nat /\ Cardinality(Candidates) \in Nat /\ MaxPerCall \in Nat
  BY <1>1, <1>2, FS_CardinalityType, PendingConstants
<1>4. Cardinality(Candidates) < MaxPerCall BY <1>3 DEF BudgetUsed
<1>5. Cardinality(under) < MaxPerCall BY <1>2, <1>3, <1>4
<1> QED BY <1>5 DEF Batch, FirstFew, Rank

\* What does not generate keeps the items of rules and the dates of the rules.
LEMMA GapsKept ==
  ASSUME GapInv,
         \A i \in DOMAIN items : /\ i \in DOMAIN items' /\ items'[i].rule = items[i].rule
                                 /\ items'[i].due = items[i].due,
         \A i \in DOMAIN items' : i \notin DOMAIN items => items'[i].rule = 0,
         \A r \in DOMAIN rules :
           /\ r \in DOMAIN rules'
           /\ rules'[r].schedule.cadence = rules[r].schedule.cadence
           /\ rules'[r].schedule.interval = rules[r].schedule.interval
           /\ rules'[r].schedule.start = rules[r].schedule.start
           /\ rules'[r].schedule.anchor = rules[r].schedule.anchor,
         \A r \in DOMAIN rules' : r \notin DOMAIN rules =>
           rules'[r].schedule.anchor = rules'[r].schedule.start
  PROVE  NoGap' /\ SinceStart'
<1>1. SinceStart' BY DEF GapInv, SinceStart
<1>2. ASSUME NEW r \in DOMAIN rules, NEW d
      PROVE  OnDay(rules'[r].schedule, d) <=> OnDay(rules[r].schedule, d)
  BY DEF OnDay, OccurrenceAt, ByMonth, Step
<1>3. ASSUME NEW i \in DOMAIN items', NEW d \in Calendar, items'[i].rule # 0,
             d <= items'[i].due, OnDay(rules'[items'[i].rule].schedule, d)
      PROVE  \E k \in DOMAIN items' : items'[k].rule = items'[i].rule /\ items'[k].due = d
  <2>1. i \in DOMAIN items BY <1>3
  <2>2. items[i].rule \in DOMAIN rules /\ items'[i].rule = items[i].rule /\ items'[i].due = items[i].due
    BY <1>3, <2>1 DEF GapInv, IInv, PendingTypeOK
  <2>3. OnDay(rules[items[i].rule].schedule, d) BY <1>2, <1>3, <2>2
  <2>4. Proposed(items[i].rule, d) BY <1>3, <2>1, <2>2, <2>3 DEF GapInv, NoGap
  <2> QED BY <2>2, <2>4 DEF Proposed
<1> QED BY <1>1, <1>3 DEF NoGap, Proposed

\* A generation closes every gap before what it proposes.
LEMMA GenerateGaps ==
  ASSUME GapInv, ~DateEdits, GenerateDue PROVE NoGap' /\ SinceStart'
<1>1. /\ rules \in Seq(RecurringRules) /\ items \in Seq(PendingItems) /\ rules' = rules
      /\ DOMAIN items = 1 .. Len(items) /\ Len(items) \in Nat
  BY DEF GapInv, IInv, PendingTypeOK, GenerateDue, Generate
<1>2. PICK n \in 1 .. MaxItems : \E order \in [1 .. n -> Batch] :
        /\ n = Cardinality(Batch)
        /\ \A j, k \in 1 .. n : j < k => ComesBefore(order[j], order[k])
        /\ items' = items \o [k \in 1 .. n |-> Proposal(order[k])]
  BY DEF GenerateDue, Generate
<1>3. PICK order \in [1 .. n -> Batch] :
        /\ \A j, k \in 1 .. n : j < k => ComesBefore(order[j], order[k])
        /\ items' = items \o [k \in 1 .. n |-> Proposal(order[k])]
  BY <1>2
<1> DEFINE new == [k \in 1 .. n |-> Proposal(order[k])]
           Then(r, d) == \E i \in DOMAIN items' : items'[i].rule = r /\ items'[i].due = d
<1>4. n \in Nat /\ n = Cardinality(Batch) /\ \A k \in 1 .. n : order[k] \in Batch BY <1>2
<1>5. \A c \in Batch : c \in Candidates BY DEF Batch, FirstFew
<1>6. \A c \in Batch : \E k \in 1 .. n : order[k] = c
  <2>1. IsFiniteSet(Batch)
    <3>1. Batch \in SUBSET Candidates BY <1>5
    <3> QED BY <3>1, CandidatesFinite, FS_Subset
  <2>2. IsFiniteSet(1 .. n) /\ Cardinality(1 .. n) = Cardinality(Batch)
    <3>1. IsFiniteSet(1 .. n) /\ Cardinality(1 .. n) = IF 1 > n THEN 0 ELSE n - 1 + 1
      BY <1>4, 1 \in Int, FS_Interval
    <3> QED BY <1>4, <3>1
  <2>3. ASSUME NEW j \in 1 .. n, NEW k \in 1 .. n, j < k, order[j] = order[k] PROVE FALSE
    <3>1. ComesBefore(order[j], order[k]) BY <1>3, <2>3
    <3>2. order[j][1] \in Int /\ order[j][2] \in Int /\ rules[order[j][1]].schedule.start \in Int
      BY <1>4, <1>5, CandidateParts
    <3> QED BY <2>3, <3>1, <3>2 DEF ComesBefore
  <2>4. \A j, k \in 1 .. n : order[j] = order[k] => j = k
    <3> SUFFICES ASSUME NEW j \in 1 .. n, NEW k \in 1 .. n, order[j] = order[k], j # k
                 PROVE  FALSE
      OBVIOUS
    <3>1. j < k \/ k < j OBVIOUS
    <3> QED BY <2>3, <3>1
  <2> QED BY <2>1, <2>2, <2>4, ReachesAll
<1>7. \A k \in 1 .. n : new[k].rule = order[k][1] /\ new[k].due = order[k][2]
  BY <1>1, <1>4, ProposalTyped
<1>8. new \in Seq(PendingItems) /\ Len(new) = n
  <2>1. \A k \in 1 .. n : Proposal(order[k]) \in PendingItems BY <1>1, <1>4, ProposalTyped
  <2>2. new \in [1 .. n -> PendingItems] BY <2>1
  <2> QED BY <1>4, <2>2
<1>9. items' = items \o new BY <1>3
<1> HIDE DEF new
<1>10. /\ \A k \in DOMAIN items' :
            \/ k \in DOMAIN items /\ items'[k] = items[k]
            \/ k - Len(items) \in 1 .. n /\ items'[k] = new[k - Len(items)]
       /\ \A k \in DOMAIN items : k \in DOMAIN items' /\ items'[k] = items[k]
       /\ \A k \in 1 .. n : Len(items) + k \in DOMAIN items' /\ items'[Len(items) + k] = new[k]
  BY <1>1, <1>4, <1>8, <1>9
<1>11. \A r, d : Proposed(r, d) => Then(r, d) BY <1>10 DEF Proposed
<1>12. \A c \in Batch : Then(c[1], c[2])
  <2> SUFFICES ASSUME NEW k \in 1 .. n PROVE Then(order[k][1], order[k][2])
    BY <1>6
  <2>1. \E j \in DOMAIN items' : items'[j] = new[k] BY <1>10
  <2>2. new[k].rule = order[k][1] /\ new[k].due = order[k][2] BY <1>7
  <2> QED BY <2>1, <2>2
<1>13. ASSUME NEW k \in 1 .. n, NEW d \in Calendar, d <= order[k][2],
              OnDay(rules[order[k][1]].schedule, d)
       PROVE  Then(order[k][1], d)
  <2> DEFINE r == order[k][1]
             last == order[k][2]
  <2>1. order[k] \in Candidates BY <1>4, <1>5
  <2>2. /\ r \in DOMAIN rules /\ last \in MissingDates(r) /\ order[k] = <<r, last>>
        /\ ~rules[r].archived /\ ~Blocked(r) /\ last \in Int /\ r \in Int
        /\ rules[r].schedule.start \in Int
    BY <2>1, CandidateParts
  <2>3. last <= rules[r].schedule.end /\ last <= Today BY <2>2, MissingIs
  <2>4. d \in Int /\ rules[r].schedule.end \in Int /\ Today \in Int
    <3>1. Anchored(rules[r].schedule) BY <1>1, <2>2, RuleAnchored DEF GapInv
    <3>2. OriginDate \in Int BY PendingConstants DEF Calendar
    <3>3. now \in Times BY DEF GapInv, IInv, PendingTypeOK, TypeOK
    <3>4. Day(now) \in Int BY <3>3, DayRange, LedgerConstants DEF Times
    <3> QED BY <3>1, <3>2, <3>4 DEF Today, Anchored, Calendar
  <2>5. d <= rules[r].schedule.end /\ d <= Today BY <1>13, <2>2, <2>3, <2>4
  <2>6. d \in MissingDates(r) \/ Proposed(r, d) BY <1>13, <2>2, <2>5, MissingOrProposed
  <2>7. CASE Proposed(r, d) BY <1>11, <2>7
  <2>8. CASE d \in MissingDates(r)
    <3>1. <<r, d>> \in Candidates BY <2>2, <2>8, CandidateAt
    <3>2. <<r, d>> \in Batch
      <4>1. CASE d = last BY <1>4, <2>2, <4>1
      <4>2. CASE d # last
        <5>1. ComesBefore(<<r, d>>, order[k])
          BY <1>13, <2>2, <2>4, <4>2 DEF ComesBefore
        <5>2. order[k] \in Batch BY <1>4
        <5> HIDE DEF r, last
        <5> QED BY <3>1, <5>1, <5>2, BatchIsFirst
      <4> QED BY <4>1, <4>2
    <3>3. \A c \in Batch : c = <<r, d>> => Then(r, d) BY <1>12
    <3> QED BY <3>2, <3>3
  <2> QED BY <2>6, <2>7, <2>8
<1>14. ASSUME NEW i \in DOMAIN items', NEW d \in Calendar, items'[i].rule # 0,
              d <= items'[i].due, OnDay(rules[items'[i].rule].schedule, d)
       PROVE  Then(items'[i].rule, d)
  <2>1. CASE i \in DOMAIN items /\ items'[i] = items[i]
    <3>1. Proposed(items[i].rule, d) BY <1>14, <2>1 DEF GapInv, NoGap
    <3> QED BY <1>11, <2>1, <3>1
  <2>2. CASE i - Len(items) \in 1 .. n /\ items'[i] = new[i - Len(items)]
    <3> DEFINE k == i - Len(items)
    <3>1. k \in 1 .. n /\ items'[i].rule = order[k][1] /\ items'[i].due = order[k][2]
      BY <1>7, <2>2
    <3> HIDE DEF k
    <3> QED BY <1>13, <1>14, <3>1
  <2> QED BY <1>10, <2>1, <2>2
<1>15. NoGap' BY <1>1, <1>14 DEF NoGap, Proposed
<1> QED BY <1>1, <1>15 DEF GapInv, SinceStart

LEMMA ReplacedRule ==
  ASSUME GapInv, NEW r \in DOMAIN rules, NEW rule, rules' = [rules EXCEPT ![r] = rule],
         UNCHANGED items,
         rule.schedule.cadence = rules[r].schedule.cadence,
         rule.schedule.interval = rules[r].schedule.interval,
         rule.schedule.start = rules[r].schedule.start,
         rule.schedule.anchor = rules[r].schedule.anchor
  PROVE  NoGap' /\ SinceStart'
<1>1. rules \in Seq(RecurringRules) BY DEF GapInv, IInv, PendingTypeOK
<1>2. \A q \in DOMAIN rules : rules'[q] = IF q = r THEN rule ELSE rules[q] BY <1>1
<1>3. DOMAIN rules' = DOMAIN rules BY <1>1
<1> QED BY <1>2, <1>3, GapsKept

LEMMA ReplacedItem ==
  ASSUME GapInv, NEW i \in DOMAIN items, NEW item, items' = [items EXCEPT ![i] = item],
         UNCHANGED rules, item.rule = items[i].rule, item.due = items[i].due
  PROVE  NoGap' /\ SinceStart'
<1>1. \A k \in DOMAIN items : items'[k] = IF k = i THEN item ELSE items[k] OBVIOUS
<1>2. DOMAIN items' = DOMAIN items OBVIOUS
<1> QED BY <1>1, <1>2, GapsKept

LEMMA NextGapInv ==
  ASSUME ~DateEdits PROVE GapInv /\ [PendingNext]_allVars => GapInv'
<1> SUFFICES ASSUME GapInv, [PendingNext]_allVars PROVE NoGap' /\ SinceStart'
  BY NextIInv DEF GapInv
<1>1. rules \in Seq(RecurringRules) /\ items \in Seq(PendingItems)
  BY DEF GapInv, IInv, PendingTypeOK
<1>2. CASE rules' = rules /\ items' = items BY <1>2, GapsKept
<1>3. CASE LedgerStep BY <1>2, <1>3 DEF LedgerStep, pendingVars
<1>4. ASSUME NEW date \in DueDates, NEW p \in Payloads, CreatePending(date, p)
      PROVE  NoGap' /\ SinceStart'
  <2> DEFINE item == Item(0, 0, date, p)
  <2>1. items' = Append(items, item) /\ rules' = rules /\ item.rule = 0
    BY <1>4 DEF CreatePending, vars, Item
  <2> HIDE DEF item
  <2>2. /\ \A k \in DOMAIN items : k \in DOMAIN items' /\ items'[k] = items[k]
        /\ \A k \in DOMAIN items' : k \notin DOMAIN items => items'[k] = item
    BY <1>1, <2>1
  <2> QED BY <2>1, <2>2, GapsKept
<1>5. ASSUME NEW i \in DOMAIN items, SkipPending(i) PROVE NoGap' /\ SinceStart'
  <2>1. items[i] \in PendingItems BY <1>1
  <2>2. items' = [items EXCEPT ![i] = [items[i] EXCEPT !.status = "skipped"]] /\ rules' = rules
    BY <1>5, <2>1 DEF SkipPending, PendingItems
  <2>3. [items[i] EXCEPT !.status = "skipped"].rule = items[i].rule
        /\ [items[i] EXCEPT !.status = "skipped"].due = items[i].due
    BY <2>1 DEF PendingItems
  <2> QED BY <2>2, <2>3, ReplacedItem
<1>6. ASSUME NEW i \in DOMAIN items, NEW at \in EntryTimes, PostPending(i, at)
      PROVE  NoGap' /\ SinceStart'
  <2> DEFINE item == [items[i] EXCEPT !.status = "posted", !.activity = NewActivity]
  <2>1. items[i] \in PendingItems BY <1>1
  <2>2. items' = [items EXCEPT ![i] = item] /\ rules' = rules
    BY <1>6, <2>1 DEF PostPending, PendingItems
  <2>3. item.rule = items[i].rule /\ item.due = items[i].due BY <2>1 DEF PendingItems
  <2> HIDE DEF item
  <2> QED BY <2>2, <2>3, ReplacedItem
<1>7. ASSUME NEW i \in DOMAIN items, NEW date \in DueDates \cup {items[i].date},
             NEW p \in Payloads, UpdatePending(i, date, p)
      PROVE  NoGap' /\ SinceStart'
  <2> DEFINE item == [items[i] EXCEPT !.date = date, !.payload = p]
  <2>1. items[i] \in PendingItems BY <1>1
  <2>2. items' = [items EXCEPT ![i] = item] /\ rules' = rules
    BY <1>7, <2>1 DEF UpdatePending, PendingItems
  <2>3. item.rule = items[i].rule /\ item.due = items[i].due BY <2>1 DEF PendingItems
  <2> HIDE DEF item
  <2> QED BY <2>2, <2>3, ReplacedItem
<1>8. ASSUME NEW n \in NewRules, CreateRule(n) PROVE NoGap' /\ SinceStart'
  <2> DEFINE rule == Rule(n.schedule, n.payload)
  <2>1. rules' = Append(rules, rule) /\ items' = items BY <1>8 DEF CreateRule
  <2>2. rule.schedule.anchor = rule.schedule.start BY PendingConstants DEF Rule
  <2> HIDE DEF rule
  <2>3. /\ \A r \in DOMAIN rules : r \in DOMAIN rules' /\ rules'[r] = rules[r]
        /\ \A r \in DOMAIN rules' : r \notin DOMAIN rules => rules'[r] = rule
    BY <1>1, <2>1
  <2> QED BY <2>1, <2>2, <2>3, GapsKept
<1>9. ASSUME NEW r \in DOMAIN rules, ArchiveRule(r) PROVE NoGap' /\ SinceStart'
  <2> DEFINE rule == [rules[r] EXCEPT !.archived = ~@]
  <2>1. rules[r] \in RecurringRules BY <1>1
  <2>2. rules' = [rules EXCEPT ![r] = rule] /\ items' = items BY <1>9 DEF ArchiveRule
  <2>3. rule.schedule = rules[r].schedule BY <2>1 DEF RecurringRules
  <2> HIDE DEF rule
  <2> QED BY <2>2, <2>3, ReplacedRule
<1>10. ASSUME NEW r \in DOMAIN rules, NEW end \in DueDates \cup {NoEnd}, NEW p \in Payloads,
              UpdateRule(r, end, p)
       PROVE  NoGap' /\ SinceStart'
  <2> DEFINE schedule == [rules[r].schedule EXCEPT !.end = end]
             rule == [rules[r] EXCEPT !.schedule = schedule, !.payload = p, !.revision = @ + 1]
  <2>0. rules[r] \in RecurringRules BY <1>1
  <2>1. rules[r] \in RecurringRules /\ rules[r].schedule \in Schedules
    BY <2>0 DEF RecurringRules
  <2>2. rules' = [rules EXCEPT ![r] = rule] /\ items' = items
    BY <1>10, <2>1 DEF UpdateRule, RecurringRules
  <2>3. /\ schedule.cadence = rules[r].schedule.cadence
        /\ schedule.interval = rules[r].schedule.interval
        /\ schedule.start = rules[r].schedule.start
        /\ schedule.anchor = rules[r].schedule.anchor
    BY <2>1 DEF Schedules
  <2> HIDE DEF schedule
  <2>4. rule.schedule = schedule BY <2>1 DEF RecurringRules
  <2> HIDE DEF rule
  <2> QED BY <2>2, <2>3, <2>4, ReplacedRule
<1>11. CASE GenerateDue BY <1>11, GenerateGaps
<1>12. CASE UNCHANGED allVars BY <1>2, <1>12 DEF allVars, pendingVars
<1> QED BY <1>3, <1>4, <1>5, <1>6, <1>7, <1>8, <1>9, <1>10, <1>11, <1>12 DEF PendingNext

\* Where no one edits the date of a generated item, generation is complete: whatever
\* is posted, skipped, archived and restored, and however the end of a rule moves back
\* and forth, no occurrence up to today is proposed twice, and a call that does not
\* say that there are more leaves none out.  The occurrences are those of the calendar
\* (Falls); first_index_at_or_after finds them from an estimate.
THEOREM GenerationIsComplete == ~DateEdits => (PendingSpec => []GenerationComplete)
<1> SUFFICES ASSUME ~DateEdits PROVE PendingSpec => []GenerationComplete OBVIOUS
<1>1. PendingInit => GapInv
  <2> SUFFICES ASSUME PendingInit PROVE GapInv OBVIOUS
  <2>1. rules = <<>> /\ items = <<>> BY DEF PendingInit
  <2> QED BY <2>1, InitIInv DEF GapInv, NoGap, SinceStart
<1>2. GapInv /\ [PendingNext]_allVars => GapInv' BY NextGapInv
<1>3. GapInv => GenerationComplete
  <2> SUFFICES ASSUME GapInv PROVE GenerationComplete OBVIOUS
  <2>1. ProposedOnce BY DEF GapInv, IInv, OneItemPerDate, Undated, ProposedOnce
  <2>2. ASSUME ~BudgetUsed, NEW r \in DOMAIN rules, NEW d \in Calendar,
               ~rules[r].archived, ~Blocked(r), Falls(rules[r].schedule, d), d <= Today
        PROVE  <<r, d>> \in Batch \/ Proposed(r, d)
    <3>1. Anchored(rules[r].schedule) BY RuleAnchored DEF GapInv, IInv, PendingTypeOK
    <3>2. OnDay(rules[r].schedule, d) BY <2>2, <3>1, FallsOnDay
    <3>3. d <= rules[r].schedule.end BY <2>2 DEF Falls
    <3>4. d \in MissingDates(r) \/ Proposed(r, d) BY <2>2, <3>2, <3>3, MissingOrProposed
    <3>5. d \in MissingDates(r) => <<r, d>> \in Candidates BY <2>2, CandidateAt
    <3> QED BY <2>2, <3>4, <3>5, BatchIsAll
  <2> QED BY <2>1, <2>2 DEF GenerationComplete, Proposed
<1> QED BY <1>1, <1>2, <1>3, PTL DEF PendingSpec

-----------------------------------------------------------------------------
(* Reads beside a ledger that grows.                                         *)

LEMMA NextGrows == ASSUME TypeOK, [Next]_vars PROVE Grows(ledger, ledger')
<1>1. ledger \in Seq(ActivityType) BY TypeParts
<1>2. CASE ledger' = ledger BY <1>1, <1>2 DEF Grows
<1>3. CASE Posting
  <2>1. PICK kind \in Kinds \ {"reversal"}, legs \in Seq(LegType), at \in EntryTimes :
          at \in Times /\ Post(kind, legs, at)
    BY <1>3, PostingIsPost
  <2> QED BY <2>1, PostGrows
<1>4. CASE Reverse \/ Correct
  <2>1. PICK extras \in Seq(ActivityType) : PersistLedger(extras)
    BY <1>4, ReverseReplays, CorrectReplays
  <2>2. ledger' = ledger \o extras BY <2>1 DEF PersistLedger
  <2> QED BY <1>1, <2>2, AppendGrows
<1>5. ASSUME NEW e \in Endpoints, CreateAtZero(e) PROVE ledger' = ledger BY <1>5 DEF CreateAtZero
<1>6. ASSUME NEW x \in Archivable, Archive(x) PROVE ledger' = ledger BY <1>6 DEF Archive
<1> QED BY <1>2, <1>3, <1>4, <1>5, <1>6 DEF Next, RebuildSnapshots, Tick, vars

LEMMA NextKeepsChains ==
  ASSUME TypeOK, ChainsWellFormed, [Next]_vars PROVE ChainsWellFormed'
<1>1. CASE ledger' = ledger BY <1>1 DEF ChainsWellFormed
<1>2. ASSUME NEW e \in Endpoints, CreateAtZero(e) PROVE ledger' = ledger BY <1>2 DEF CreateAtZero
<1>3. ASSUME NEW x \in Archivable, Archive(x) PROVE ledger' = ledger BY <1>3 DEF Archive
<1> QED BY <1>1, <1>2, <1>3, PostingLinks, ReverseLinks, CorrectLinks
        DEF Next, RebuildSnapshots, Tick, vars

StateRows == [account : Accounts, at : Int, after : Nat]

ReadTypes == TypeOK /\ ChainsWellFormed /\ states \in Seq(StateRows)

LEMMA ReadsStep ==
  ASSUME ReadTypes, [QueriesNext]_queryVars
  PROVE  /\ ReadTypes' /\ Grows(ledger, ledger') /\ Grows(states, states')
         /\ \/ walk' = walk
            \/ Pages /\ UNCHANGED <<vars, states>>
<1>1. now \in Int /\ Len(ledger) \in Nat /\ states \in Seq(StateRows)
  BY TypeParts, LedgerConstants DEF ReadTypes, Times
<1>2. states' = states => Grows(states, states') BY <1>1 DEF Grows
<1>3. [Next]_vars => ReadTypes' \/ states' # states
  BY NextType, NextKeepsChains DEF ReadTypes
<1>4. [Next]_vars => Grows(ledger, ledger') BY NextGrows DEF ReadTypes
<1>5. CASE Command \/ Meanwhile \/ UNCHANGED queryVars
  <2>1. [Next]_vars BY <1>5 DEF Command, Meanwhile, Next, queryVars
  <2>2. states' = states /\ walk' = walk BY <1>5 DEF Command, Meanwhile, queryVars
  <2> QED BY <1>2, <1>3, <1>4, <2>1, <2>2
<1>6. ASSUME NEW a \in Archivable \cap Accounts, ArchiveAccount(a)
      PROVE  ReadTypes' /\ Grows(ledger, ledger') /\ Grows(states, states') /\ walk' = walk
  <2> DEFINE row == [account |-> a, at |-> now, after |-> Len(ledger)]
  <2>1. [Next]_vars BY <1>6 DEF ArchiveAccount, Next
  <2>2. TypeOK' /\ ChainsWellFormed' BY <2>1, NextType, NextKeepsChains DEF ReadTypes
  <2>3. states' = Append(states, row) /\ walk' = walk BY <1>6 DEF ArchiveAccount
  <2>4. row \in StateRows BY <1>1 DEF StateRows
  <2> HIDE DEF row
  <2>5. states' \in Seq(StateRows) /\ Grows(states, states') BY <1>1, <2>3, <2>4 DEF Grows
  <2> QED BY <1>4, <2>1, <2>2, <2>3, <2>5 DEF ReadTypes
<1>7. CASE Pages /\ UNCHANGED vars
  <2>1. states' = states
    BY <1>7 DEF Pages, ListActivities, GetAccountTimeline, Begin, NextPage, Leave
  <2> QED BY <1>2, <1>3, <1>4, <1>7, <2>1
<1> QED BY <1>5, <1>6, <1>7 DEF QueriesNext

-----------------------------------------------------------------------------
(* The keys of a list are in a strict order, and a page takes the first ones. *)

Keys == Int \X Int \X Int

LEMMA KeyOrder ==
  ASSUME NEW x \in Keys, NEW y \in Keys, NEW z \in Keys
  PROVE  /\ ~Precedes(x, x)
         /\ Precedes(x, y) /\ Precedes(y, z) => Precedes(x, z)
         /\ x = y \/ Precedes(x, y) \/ Precedes(y, x)
<1>1. /\ x = <<x[1], x[2], x[3]>> /\ y = <<y[1], y[2], y[3]>>
      /\ x[1] \in Int /\ x[2] \in Int /\ x[3] \in Int
      /\ y[1] \in Int /\ y[2] \in Int /\ y[3] \in Int
      /\ z[1] \in Int /\ z[2] \in Int /\ z[3] \in Int
  BY DEF Keys
<1> QED BY <1>1 DEF Precedes

Place(S, x) == Cardinality({y \in S : Precedes(x, y)})

LEMMA Places ==
  ASSUME NEW S \in SUBSET Keys, IsFiniteSet(S)
  PROVE  /\ Cardinality(S) \in Nat
         /\ \A x \in S : Place(S, x) \in 0 .. Cardinality(S) - 1
         /\ \A x, y \in S : Precedes(x, y) => Place(S, y) < Place(S, x)
<1>1. Cardinality(S) \in Nat BY FS_CardinalityType
<1> DEFINE above(x) == {y \in S : Precedes(x, y)}
<1>2. ASSUME NEW x \in S PROVE IsFiniteSet(above(x)) /\ Cardinality(above(x)) \in Nat
  <2>1. above(x) \in SUBSET S OBVIOUS
  <2>2. IsFiniteSet(above(x)) BY <2>1, FS_Subset
  <2> QED BY <2>2, FS_CardinalityType
<1>3. ASSUME NEW x \in S PROVE Cardinality(above(x)) < Cardinality(S)
  <2>1. above(x) \in SUBSET S /\ x \notin above(x) BY KeyOrder
  <2>2. Cardinality(above(x)) <= Cardinality(S)
        /\ (Cardinality(S) = Cardinality(above(x)) => S = above(x))
    BY <2>1, FS_Subset
  <2> QED BY <1>1, <1>2, <2>1, <2>2
<1>4. ASSUME NEW x \in S, NEW y \in S, Precedes(x, y)
      PROVE  Cardinality(above(y)) < Cardinality(above(x))
  <2>1. above(y) \in SUBSET above(x) BY <1>4, KeyOrder
  <2>2. y \in above(x) /\ y \notin above(y) BY <1>4, KeyOrder
  <2>3. Cardinality(above(y)) <= Cardinality(above(x))
        /\ (Cardinality(above(x)) = Cardinality(above(y)) => above(x) = above(y))
    BY <1>2, <2>1, FS_Subset
  <2> QED BY <1>2, <2>2, <2>3
<1>5. \A x \in S : Place(S, x) \in 0 .. Cardinality(S) - 1
  <2> SUFFICES ASSUME NEW x \in S PROVE Place(S, x) \in 0 .. Cardinality(S) - 1 OBVIOUS
  <2>1. Place(S, x) = Cardinality(above(x)) BY DEF Place
  <2> QED BY <1>1, <1>2, <1>3, <2>1
<1>6. \A x, y \in S : Precedes(x, y) => Place(S, y) < Place(S, x) BY <1>4 DEF Place
<1> QED BY <1>1, <1>5, <1>6

LEMMA NthIs ==
  ASSUME NEW S \in SUBSET Keys, IsFiniteSet(S), NEW n \in 1 .. Cardinality(S)
  PROVE  Nth(S, n) \in S /\ Place(S, Nth(S, n)) = n - 1
<1> DEFINE T == 0 .. Cardinality(S) - 1
           f == [x \in S |-> Place(S, x)]
<1>1. Cardinality(S) \in Nat /\ Cardinality(S) - 1 \in Int /\ n - 1 \in T BY Places
<1>2. IsFiniteSet(T) /\ Cardinality(T) = Cardinality(S)
  <2>1. IsFiniteSet(T) /\ Cardinality(T) = IF 0 > Cardinality(S) - 1 THEN 0
                                           ELSE Cardinality(S) - 1 - 0 + 1
    BY <1>1, 0 \in Int, FS_Interval
  <2> QED BY <1>1, <2>1
<1>3. f \in [S -> T] BY Places
<1>4. \A x, y \in S : f[x] = f[y] => x = y
  <2> SUFFICES ASSUME NEW x \in S, NEW y \in S, Place(S, x) = Place(S, y), x # y PROVE FALSE
    OBVIOUS
  <2>1. Precedes(x, y) \/ Precedes(y, x) BY KeyOrder
  <2>2. Place(S, x) \in Int /\ Place(S, y) \in Int BY Places
  <2>3. Place(S, x) < Place(S, y) \/ Place(S, y) < Place(S, x) BY <2>1, Places
  <2> QED BY <2>2, <2>3
<1>5. \A x \in S : f[x] = Place(S, x) OBVIOUS
<1> HIDE DEF T, f
<1>6. \A k \in T : \E x \in S : f[x] = k BY <1>2, <1>3, <1>4, ReachesAll
<1>7. \E x \in S : Place(S, x) = n - 1 BY <1>1, <1>5, <1>6
<1> QED BY <1>7, Zenon DEF Nth, Place

LEMMA PageIs ==
  ASSUME NEW S \in SUBSET Keys, IsFiniteSet(S)
  PROVE  /\ PageOf(S) \in Seq(Keys)
         /\ \A n \in DOMAIN PageOf(S) : PageOf(S)[n] \in S
         /\ \A m, n \in DOMAIN PageOf(S) : m < n => Precedes(PageOf(S)[n], PageOf(S)[m])
         /\ \A x \in S : \/ \E n \in DOMAIN PageOf(S) : PageOf(S)[n] = x
                         \/ /\ HasMore(S) /\ Len(PageOf(S)) > 0
                            /\ Precedes(x, PageOf(S)[Len(PageOf(S))])
         /\ HasMore(S) => Len(PageOf(S)) > 0
<1> DEFINE size == Min({PageLimit, Cardinality(S)})
           page == PageOf(S)
<1>1. Cardinality(S) \in Nat /\ PageLimit \in Nat /\ PageLimit > 0 BY Places, QueryConstants
<1>2. size \in {PageLimit, Cardinality(S)} /\ size <= PageLimit /\ size <= Cardinality(S)
  BY <1>1, MinOfTwo
<1> HIDE DEF size
<1>3. page = [n \in 1 .. size |-> Nth(S, n)] BY DEF PageOf, size
<1>4. size \in Nat /\ \A n \in 1 .. size : n \in 1 .. Cardinality(S) BY <1>1, <1>2
<1>5. \A n \in 1 .. size : page[n] \in S /\ page[n] \in Keys /\ Place(S, page[n]) = n - 1
  BY <1>3, <1>4, NthIs
<1>6. page \in Seq(Keys) /\ Len(page) = size /\ DOMAIN page = 1 .. size
  <2>1. page \in [1 .. size -> Keys] BY <1>3, <1>5
  <2> QED BY <1>4, <2>1
<1>7. HasMore(S) <=> Cardinality(S) > PageLimit BY DEF HasMore
<1> HIDE DEF page
<1>8. \A x, y \in S : Place(S, x) \in Int /\ (Place(S, x) < Place(S, y) => Precedes(y, x))
  <2> SUFFICES ASSUME NEW x \in S, NEW y \in S
               PROVE  Place(S, x) \in Int /\ (Place(S, x) < Place(S, y) => Precedes(y, x))
    OBVIOUS
  <2>1. Place(S, x) \in Int /\ Place(S, y) \in Int BY Places
  <2>2. x = y \/ Precedes(x, y) \/ Precedes(y, x) BY KeyOrder
  <2>3. Precedes(x, y) => Place(S, y) < Place(S, x) BY Places
  <2> QED BY <2>1, <2>2, <2>3
<1>9. ASSUME NEW m \in 1 .. size, NEW n \in 1 .. size, m < n PROVE Precedes(page[n], page[m])
  <2>1. Place(S, page[m]) < Place(S, page[n]) BY <1>4, <1>5, <1>9
  <2> QED BY <1>5, <1>8, <2>1
<1>10. ASSUME NEW x \in S
       PROVE  \/ \E n \in 1 .. size : page[n] = x
              \/ HasMore(S) /\ size > 0 /\ Precedes(x, page[size])
  <2> DEFINE k == Place(S, x)
  <2>1. k \in 0 .. Cardinality(S) - 1 BY Places
  <2> HIDE DEF k
  <2>2. CASE k < size
    <3>1. k + 1 \in 1 .. size BY <1>4, <2>1, <2>2
    <3>2. page[k + 1] \in S /\ Place(S, page[k + 1]) = (k + 1) - 1 BY <1>5, <3>1
    <3>3. Place(S, page[k + 1]) = Place(S, x) BY <2>1, <3>2 DEF k
    <3>4. x = page[k + 1]
      <4> SUFFICES ASSUME x # page[k + 1] PROVE FALSE OBVIOUS
      <4>1. x \in Keys /\ page[k + 1] \in Keys BY <3>2
      <4>2. Precedes(x, page[k + 1]) \/ Precedes(page[k + 1], x) BY <4>1, KeyOrder
      <4>3. Place(S, page[k + 1]) < Place(S, x) \/ Place(S, x) < Place(S, page[k + 1])
        BY <3>2, <4>2, Places
      <4> QED BY <1>8, <3>2, <3>3, <4>3
    <3> QED BY <3>1, <3>4
  <2>3. CASE size <= k
    <3>1. Cardinality(S) > PageLimit /\ size = PageLimit BY <1>1, <1>2, <2>1, <2>3
    <3>2. size \in 1 .. size BY <1>1, <3>1
    <3>3. Place(S, page[size]) = size - 1 /\ page[size] \in S BY <1>5, <3>2
    <3>4. Place(S, page[size]) < Place(S, x) BY <1>4, <2>1, <2>3, <3>3 DEF k
    <3> QED BY <1>1, <1>7, <1>8, <3>1, <3>3, <3>4
  <2> QED BY <1>4, <2>1, <2>2, <2>3
<1>11. HasMore(S) => size > 0 BY <1>1, <1>2, <1>7
<1>12. \A n \in DOMAIN page : page[n] \in S BY <1>5, <1>6
<1>13. \A m, n \in DOMAIN page : m < n => Precedes(page[n], page[m]) BY <1>6, <1>9
<1>14. \A x \in S : \/ \E n \in DOMAIN page : page[n] = x
                    \/ HasMore(S) /\ Len(page) > 0 /\ Precedes(x, page[Len(page)])
  BY <1>6, <1>10
<1> QED BY <1>6, <1>11, <1>12, <1>13, <1>14 DEF page

-----------------------------------------------------------------------------
(* What there is to list only grows.                                         *)

LEMMA RolesStay ==
  ASSUME ReadTypes, Grows(ledger, ledger'), NEW i \in DOMAIN ledger
  PROVE  /\ i \in DOMAIN ledger' /\ ledger'[i] = ledger[i] /\ ActivityKey(i)' = ActivityKey(i)
         /\ \A k : Role(i, k)' = Role(i, k)
<1>1. i \in DOMAIN ledger' /\ ledger'[i] = ledger[i] BY DEF Grows
<1>2. /\ ledger \in Seq(ActivityType) /\ ledger[i].reverses \in Nat /\ i \in Nat
      /\ ledger[i].kind = "reversal" <=> ledger[i].reverses # 0
      /\ ledger[i].reverses # 0 => ledger[i].reverses < i
  <2>1. ledger \in Seq(ActivityType) BY TypeParts DEF ReadTypes
  <2>2. ledger[i] \in ActivityType BY <2>1
  <2>3. Linked(ledger) BY ChainsAreLinks DEF ReadTypes
  <2> QED BY <2>1, <2>2, <2>3 DEF ActivityType, Linked, ReversalLink
<1>3. ledger[i].kind = "reversal" => ledger[i].reverses \in DOMAIN ledger BY <1>2
<1>4. ledger[i].kind = "reversal" => ledger'[ledger[i].reverses] = ledger[ledger[i].reverses]
  BY <1>3 DEF Grows
<1>5. \A k : Role(i, k)' = Role(i, k) BY <1>1, <1>4 DEF Role
<1> QED BY <1>1, <1>5 DEF ActivityKey

LEMMA ListGrows ==
  ASSUME ReadTypes, Grows(ledger, ledger'), NEW f PROVE Listed(f) \subseteq Listed(f)'
<1> SUFFICES ASSUME NEW i \in DOMAIN ledger, Passes(i, f)
             PROVE  i \in DOMAIN ledger' /\ Passes(i, f)' /\ ActivityKey(i)' = ActivityKey(i)
  BY DEF Listed
<1> QED BY RolesStay DEF Passes, Touches

LEMMA TimelineGrows ==
  ASSUME ReadTypes, Grows(ledger, ledger'), Grows(states, states'), NEW a
  PROVE  Timeline(a) \subseteq Timeline(a)'
<1>1. TouchingAccount(a) \subseteq TouchingAccount(a)'
  <2> SUFFICES ASSUME NEW i \in DOMAIN ledger, Touches(i, a)
               PROVE  i \in DOMAIN ledger' /\ Touches(i, a)' /\ ActivityKey(i)' = ActivityKey(i)
    BY DEF TouchingAccount
  <2> QED BY RolesStay DEF Touches
<1>2. StateChanges(a) \subseteq StateChanges(a)'
  <2> SUFFICES ASSUME NEW m \in DOMAIN states
               PROVE  m \in DOMAIN states' /\ states'[m] = states[m] /\ StateKey(m)' = StateKey(m)
    BY DEF StateChanges
  <2> QED BY DEF Grows, StateKey
<1> QED BY <1>1, <1>2 DEF Timeline, OriginKey, LegacyObservations, LegacyKey

LEMMA ActivityKeys ==
  ASSUME ReadTypes
  PROVE  \A S \in SUBSET (DOMAIN ledger) :
           /\ {ActivityKey(i) : i \in S} \in SUBSET Keys
           /\ IsFiniteSet({ActivityKey(i) : i \in S})
<1> SUFFICES ASSUME NEW S \in SUBSET (DOMAIN ledger)
             PROVE  /\ {ActivityKey(i) : i \in S} \in SUBSET Keys
                    /\ IsFiniteSet({ActivityKey(i) : i \in S})
  OBVIOUS
<1>1. ledger \in Seq(ActivityType) /\ DOMAIN ledger = 1 .. Len(ledger) /\ Len(ledger) \in Int
  BY TypeParts DEF ReadTypes
<1>2. IsFiniteSet(S) BY <1>1, 1 \in Int, FS_Interval, FS_Subset
<1>3. ASSUME NEW i \in S PROVE ActivityKey(i) \in Keys
  <2>1. ledger[i] \in ActivityType /\ i \in Int BY <1>1
  <2>2. ledger[i].at \in Int BY <2>1, LedgerConstants DEF ActivityType, Times
  <2> QED BY <2>1, <2>2, 0 \in Int DEF ActivityKey, Keys
<1> DEFINE f == [i \in S |-> ActivityKey(i)]
<1>4. IsFiniteSet({f[i] : i \in S}) BY <1>2, FiniteImage
<1>5. {f[i] : i \in S} = {ActivityKey(i) : i \in S} OBVIOUS
<1> QED BY <1>3, <1>4, <1>5

LEMMA ListedKeys ==
  ASSUME ReadTypes, NEW f PROVE Listed(f) \in SUBSET Keys /\ IsFiniteSet(Listed(f))
<1> DEFINE S == {j \in DOMAIN ledger : Passes(j, f)}
<1>1. S \in SUBSET (DOMAIN ledger) OBVIOUS
<1>2. Listed(f) = {ActivityKey(i) : i \in S} BY DEF Listed
<1> HIDE DEF S
<1> QED BY <1>1, <1>2, ActivityKeys

LEMMA TimelineKeys ==
  ASSUME ReadTypes, NEW a PROVE Timeline(a) \in SUBSET Keys /\ IsFiniteSet(Timeline(a))
<1>1. TouchingAccount(a) \in SUBSET Keys /\ IsFiniteSet(TouchingAccount(a))
  <2> DEFINE S == {j \in DOMAIN ledger : Touches(j, a)}
  <2>1. S \in SUBSET (DOMAIN ledger) OBVIOUS
  <2>2. TouchingAccount(a) = {ActivityKey(i) : i \in S} BY DEF TouchingAccount
  <2> HIDE DEF S
  <2> QED BY <2>1, <2>2, ActivityKeys
<1>2. LegacyObservations(a) \in SUBSET Keys /\ IsFiniteSet(LegacyObservations(a))
  <2> DEFINE S == {r \in LegacyRows : r.account = a}
             f == [row \in S |-> LegacyKey(row)]
  <2>1. S \in SUBSET LegacyRows /\ IsFiniteSet(LegacyRows) BY QueryConstants
  <2>2. IsFiniteSet(S) BY <2>1, FS_Subset
  <2>3. LegacyObservations(a) = {f[row] : row \in S} BY DEF LegacyObservations
  <2>4. \A row \in S : LegacyKey(row) \in Keys BY QueryConstants DEF LegacyKey, Keys
  <2>5. IsFiniteSet({f[row] : row \in S}) BY <2>2, FiniteImage
  <2> QED BY <2>3, <2>4, <2>5
<1>3. StateChanges(a) \in SUBSET Keys /\ IsFiniteSet(StateChanges(a))
  <2> DEFINE S == {m \in DOMAIN states : states[m].account = a /\ states[m].at > 0}
             f == [n \in S |-> StateKey(n)]
  <2>1. states \in Seq(StateRows) /\ DOMAIN states = 1 .. Len(states) /\ Len(states) \in Int
    BY DEF ReadTypes
  <2>2. IsFiniteSet(1 .. Len(states)) BY <2>1, 1 \in Int, FS_Interval
  <2>3. IsFiniteSet(S)
    <3>1. S \in SUBSET (1 .. Len(states)) BY <2>1
    <3> QED BY <2>2, <3>1, FS_Subset
  <2>4. StateChanges(a) = {f[n] : n \in S} BY DEF StateChanges
  <2>5. ASSUME NEW n \in S PROVE StateKey(n) \in Keys
    <3>1. states[n] \in StateRows /\ n \in Int BY <2>1
    <3> QED BY <3>1 DEF StateRows, StateKey, Keys
  <2>6. IsFiniteSet({f[n] : n \in S}) BY <2>3, FiniteImage
  <2> QED BY <2>4, <2>5, <2>6
<1>4. {OriginKey} \in SUBSET Keys /\ IsFiniteSet({OriginKey})
  <2>1. OriginKey \in Keys BY 0 \in Int DEF OriginKey, Keys
  <2>2. IsFiniteSet({OriginKey}) BY FS_Singleton
  <2> QED BY <2>1, <2>2
<1>5. IsFiniteSet({OriginKey} \cup TouchingAccount(a)) BY <1>1, <1>4, FS_Union
<1>6. IsFiniteSet({OriginKey} \cup TouchingAccount(a) \cup LegacyObservations(a))
  BY <1>2, <1>5, FS_Union
<1>7. IsFiniteSet(Timeline(a)) BY <1>3, <1>6, FS_Union DEF Timeline
<1> QED BY <1>1, <1>2, <1>3, <1>4, <1>7 DEF Timeline

-----------------------------------------------------------------------------
(* The walk.                                                                 *)

Walks ==
  [view : {"list", "timeline"}, filter : Filters \cup {Unset}, account : Accounts \cup {Unset},
   seen : Seq(Keys), more : BOOLEAN, begun : SUBSET Keys]

\* What the walk has listed is in order and is there; what it has not yet listed of
\* what it began with comes after the cursor.
WalkInv ==
  walk # NoWalk =>
    /\ walk \in Walks
    /\ \A m, n \in DOMAIN walk.seen : m < n => Precedes(walk.seen[n], walk.seen[m])
    /\ Seen \subseteq ItemsOf(walk)
    /\ walk.begun \subseteq ItemsOf(walk)
    /\ walk.more => Len(walk.seen) > 0
    /\ \A x \in walk.begun :
         x \in Seen \/ (walk.more /\ Precedes(x, NextCursor(walk)))

QueriesInv == ReadTypes /\ WalkInv

LEMMA ItemsKeys ==
  ASSUME ReadTypes, NEW w PROVE ItemsOf(w) \in SUBSET Keys /\ IsFiniteSet(ItemsOf(w))
BY ListedKeys, TimelineKeys DEF ItemsOf

LEMMA ItemsGrow ==
  ASSUME ReadTypes, Grows(ledger, ledger'), Grows(states, states'), walk' = walk
  PROVE  ItemsOf(walk) \subseteq ItemsOf(walk)'
<1>1. PICK w : w = walk OBVIOUS
<1>2. Listed(w.filter) \subseteq Listed(w.filter)' BY ListGrows
<1>3. Timeline(w.account) \subseteq Timeline(w.account)' BY TimelineGrows
<1>4. walk' = w BY <1>1
<1> QED BY <1>1, <1>2, <1>3, <1>4 DEF ItemsOf

\* Before a page is taken of `rest`, a part of all there is to list.
Ready(w, all, rest) ==
  /\ w \in Walks /\ all \in SUBSET Keys /\ IsFiniteSet(all) /\ rest \in SUBSET all
  /\ \A m, n \in DOMAIN w.seen : m < n => Precedes(w.seen[n], w.seen[m])
  /\ \A n \in DOMAIN w.seen : w.seen[n] \in all
  /\ \A x \in rest, n \in DOMAIN w.seen : Precedes(x, w.seen[n])
  /\ w.begun \subseteq all
  /\ \A x \in w.begun : x \in rest \/ \E n \in DOMAIN w.seen : w.seen[n] = x

\* After it.
Walked(v, w, all) ==
  /\ v \in Walks /\ v.view = w.view /\ v.filter = w.filter /\ v.account = w.account
  /\ \A m, n \in DOMAIN v.seen : m < n => Precedes(v.seen[n], v.seen[m])
  /\ \A n \in DOMAIN v.seen : v.seen[n] \in all
  /\ v.begun \subseteq all
  /\ v.more => Len(v.seen) > 0
  /\ \A x \in v.begun : \/ \E n \in DOMAIN v.seen : v.seen[n] = x
                        \/ v.more /\ Precedes(x, v.seen[Len(v.seen)])

WithPage(w, rest) == [w EXCEPT !.seen = @ \o PageOf(rest), !.more = HasMore(rest)]

\* A page continues a walk; a first page continues an empty one.
LEMMA PageContinues ==
  ASSUME NEW w, NEW all, NEW rest, Ready(w, all, rest)
  PROVE  Walked(WithPage(w, rest), w, all)
<1> DEFINE page == PageOf(rest)
           seen == w.seen \o page
           v    == WithPage(w, rest)
<1>0. /\ w \in Walks /\ all \in SUBSET Keys /\ IsFiniteSet(all) /\ rest \in SUBSET all
      /\ \A m, n \in DOMAIN w.seen : m < n => Precedes(w.seen[n], w.seen[m])
      /\ \A n \in DOMAIN w.seen : w.seen[n] \in all
      /\ \A x \in rest, n \in DOMAIN w.seen : Precedes(x, w.seen[n])
      /\ w.begun \subseteq all
      /\ \A x \in w.begun : x \in rest \/ \E n \in DOMAIN w.seen : w.seen[n] = x
  BY DEF Ready
<1>1. IsFiniteSet(rest) /\ rest \in SUBSET Keys BY <1>0, FS_Subset
<1>2. /\ page \in Seq(Keys)
      /\ \A n \in DOMAIN page : page[n] \in rest
      /\ \A m, n \in DOMAIN page : m < n => Precedes(page[n], page[m])
      /\ \A x \in rest : \/ \E n \in DOMAIN page : page[n] = x
                         \/ HasMore(rest) /\ Len(page) > 0 /\ Precedes(x, page[Len(page)])
      /\ HasMore(rest) => Len(page) > 0
  BY <1>1, PageIs
<1>3. w.seen \in Seq(Keys) BY <1>0 DEF Walks
<1> HIDE DEF page
<1>4. /\ seen \in Seq(Keys) /\ Len(seen) = Len(w.seen) + Len(page)
      /\ Len(seen) \in Nat /\ Len(w.seen) \in Nat /\ Len(page) \in Nat
      /\ \A n \in DOMAIN w.seen : n \in DOMAIN seen /\ seen[n] = w.seen[n]
      /\ \A n \in DOMAIN page : Len(w.seen) + n \in DOMAIN seen /\ seen[Len(w.seen) + n] = page[n]
      /\ \A n \in DOMAIN seen : \/ n \in DOMAIN w.seen /\ seen[n] = w.seen[n]
                                \/ /\ n > Len(w.seen) /\ n - Len(w.seen) \in DOMAIN page
                                   /\ seen[n] = page[n - Len(w.seen)]
  BY <1>2, <1>3
<1> HIDE DEF seen
<1>5. HasMore(rest) \in BOOLEAN BY DEF HasMore
<1>6. /\ v.seen = seen /\ v.more = HasMore(rest) /\ v.begun = w.begun /\ v.view = w.view
      /\ v.filter = w.filter /\ v.account = w.account
  BY <1>0 DEF Walks, seen, page, WithPage
<1>7. v \in Walks
  <2> DEFINE u == [w EXCEPT !.seen = seen]
  <2>1. u \in Walks BY <1>0, <1>4 DEF Walks
  <2>2. v = [u EXCEPT !.more = HasMore(rest)] BY <1>0 DEF Walks, seen, page, WithPage
  <2> HIDE DEF u
  <2> QED BY <1>5, <2>1, <2>2 DEF Walks
<1>8. \A n \in DOMAIN w.seen : n \in 1 .. Len(w.seen) BY <1>3
<1>9. ASSUME NEW m \in DOMAIN seen, NEW n \in DOMAIN seen, m < n PROVE Precedes(seen[n], seen[m])
  <2>0. m \in Int /\ n \in Int BY <1>4
  <2>1. CASE n \in DOMAIN w.seen /\ seen[n] = w.seen[n]
    <3>1. m \in DOMAIN w.seen /\ seen[m] = w.seen[m] BY <1>4, <1>8, <1>9, <2>0, <2>1
    <3> QED BY <1>0, <1>9, <2>1, <3>1
  <2>2. CASE n - Len(w.seen) \in DOMAIN page /\ seen[n] = page[n - Len(w.seen)]
    <3>1. CASE m \in DOMAIN w.seen /\ seen[m] = w.seen[m] BY <1>0, <1>2, <2>2, <3>1
    <3>2. CASE m - Len(w.seen) \in DOMAIN page /\ seen[m] = page[m - Len(w.seen)]
      <4>1. m - Len(w.seen) < n - Len(w.seen) BY <1>4, <1>9, <2>0
      <4> QED BY <1>2, <2>2, <3>2, <4>1
    <3> QED BY <1>4, <3>1, <3>2
  <2> QED BY <1>4, <2>1, <2>2
<1>10. \A n \in DOMAIN seen : seen[n] \in all BY <1>0, <1>2, <1>4
<1>11. ASSUME NEW x \in w.begun
       PROVE  \/ \E n \in DOMAIN seen : seen[n] = x
              \/ HasMore(rest) /\ Precedes(x, seen[Len(seen)])
  <2>1. CASE \E n \in DOMAIN w.seen : w.seen[n] = x BY <1>4, <2>1
  <2>2. CASE x \in rest
    <3>1. CASE \E n \in DOMAIN page : page[n] = x BY <1>4, <3>1
    <3>2. CASE HasMore(rest) /\ Len(page) > 0 /\ Precedes(x, page[Len(page)])
      <4>1. Len(page) \in DOMAIN page BY <1>2, <1>4, <3>2
      <4>2. seen[Len(seen)] = page[Len(page)] BY <1>4, <4>1
      <4> QED BY <3>2, <4>2
    <3> QED BY <1>2, <2>2, <3>1, <3>2
  <2> QED BY <1>0, <2>1, <2>2
<1>12. HasMore(rest) => Len(seen) > 0 BY <1>2, <1>4
<1> HIDE DEF v
<1>13. Walked(v, w, all) BY <1>0, <1>6, <1>7, <1>9, <1>10, <1>11, <1>12 DEF Walked
<1> QED BY <1>13 DEF v

\* Where nothing is written, what there is to list stays.
LEMMA ItemsStay ==
  ASSUME ledger' = ledger, states' = states, NEW v, NEW w, v.view = w.view,
         v.filter = w.filter, v.account = w.account, walk' = v
  PROVE  ItemsOf(walk)' = ItemsOf(w)
<1>1. \A i, k : Role(i, k)' = Role(i, k) BY DEF Role
<1>2. \A i : ActivityKey(i)' = ActivityKey(i) BY DEF ActivityKey
<1>3. \A f : Listed(f)' = Listed(f) BY <1>1, <1>2 DEF Listed, Passes, Touches
<1>4. \A a : Timeline(a)' = Timeline(a)
  BY <1>2 DEF Timeline, OriginKey, TouchingAccount, Touches, LegacyObservations, LegacyKey,
     StateChanges, StateKey
<1> QED BY <1>3, <1>4 DEF ItemsOf

LEMMA WalkedOn ==
  ASSUME ledger' = ledger, states' = states, NEW w, Walked(walk', w, ItemsOf(w)) PROVE WalkInv'
<1>1. PICK v : v = walk' OBVIOUS
<1>2. Walked(v, w, ItemsOf(w)) BY <1>1
<1>3. ItemsOf(walk)' = ItemsOf(w) BY <1>1, <1>2, ItemsStay DEF Walked
<1> QED BY <1>1, <1>2, <1>3 DEF WalkInv, Seen, NextCursor, Walked

\* The first page.
LEMMA BeginWalks ==
  ASSUME ReadTypes, NEW w \in Walks, w.seen = <<>>, ledger' = ledger, states' = states,
         walk' = WithPage([w EXCEPT !.begun = ItemsOf(w)], ItemsOf(w))
  PROVE  WalkInv'
<1> DEFINE u   == [w EXCEPT !.begun = ItemsOf(w)]
           all == ItemsOf(w)
<1>1. all \in SUBSET Keys /\ IsFiniteSet(all) BY ItemsKeys
<1>2. u \in Walks /\ u.seen = <<>> /\ u.begun = all /\ u.view = w.view
      /\ u.filter = w.filter /\ u.account = w.account
  BY <1>1 DEF Walks
<1>3. walk' = WithPage(u, all) OBVIOUS
<1> HIDE DEF u, all
<1>4. Ready(u, all, all) BY <1>1, <1>2 DEF Ready
<1>5. Walked(walk', u, all) BY <1>3, <1>4, PageContinues
<1>6. Walked(walk', w, all) BY <1>2, <1>5 DEF Walked
<1> QED BY <1>6, WalkedOn DEF all

\* A further page.
LEMMA NextPageWalks == ASSUME QueriesInv, NextPage, UNCHANGED vars PROVE WalkInv'
<1> DEFINE all  == ItemsOf(walk)
           rest == Below(all, NextCursor(walk))
<1>1. /\ walk # NoWalk /\ walk.more /\ walk' = WithPage(walk, rest)
      /\ ledger' = ledger /\ states' = states
  BY DEF NextPage, TakePage, WithPage, vars
<1>2. /\ walk \in Walks
      /\ \A m, n \in DOMAIN walk.seen : m < n => Precedes(walk.seen[n], walk.seen[m])
      /\ Seen \subseteq all /\ walk.begun \subseteq all
      /\ Len(walk.seen) > 0
      /\ \A x \in walk.begun : x \in Seen \/ Precedes(x, NextCursor(walk))
  BY <1>1 DEF QueriesInv, WalkInv
<1>3. all \in SUBSET Keys /\ IsFiniteSet(all) BY ItemsKeys DEF QueriesInv
<1>4. walk.seen \in Seq(Keys) /\ Len(walk.seen) \in DOMAIN walk.seen
  <2>1. walk.seen \in Seq(Keys) BY <1>2 DEF Walks
  <2> QED BY <1>2, <2>1
<1>5. \A x \in all : x \in rest <=> Precedes(x, NextCursor(walk)) BY DEF Below, IsBelow
<1>6. rest \in SUBSET all BY DEF Below
<1> HIDE DEF all, rest
<1>7. ASSUME NEW x \in rest, NEW n \in DOMAIN walk.seen PROVE Precedes(x, walk.seen[n])
  <2> DEFINE last == Len(walk.seen)
  <2>1. x \in Keys /\ walk.seen[n] \in Keys /\ walk.seen[last] \in Keys
        /\ n \in Int /\ last \in Int /\ n <= last
    BY <1>3, <1>4, <1>6
  <2>2. Precedes(x, walk.seen[last]) BY <1>5, <1>6 DEF NextCursor
  <2>3. CASE n = last BY <2>2, <2>3
  <2>4. CASE n < last
    <3>1. Precedes(walk.seen[last], walk.seen[n]) BY <1>2, <1>4, <2>4
    <3> QED BY <2>1, <2>2, <3>1, KeyOrder
  <2> QED BY <2>1, <2>3, <2>4
<1>8. Ready(walk, all, rest)
  <2>1. \A n \in DOMAIN walk.seen : walk.seen[n] \in all BY <1>2 DEF Seen
  <2>2. \A x \in walk.begun : x \in rest \/ \E n \in DOMAIN walk.seen : walk.seen[n] = x
    BY <1>2, <1>5 DEF Seen
  <2> QED BY <1>2, <1>3, <1>6, <1>7, <2>1, <2>2 DEF Ready
<1>9. PICK w : w = walk OBVIOUS
<1>10. Walked(walk', w, all) BY <1>1, <1>8, <1>9, PageContinues
<1> QED BY <1>1, <1>9, <1>10, WalkedOn DEF all

LEMMA PagesWalk == ASSUME QueriesInv, Pages, UNCHANGED vars PROVE WalkInv'
<1>0. ledger' = ledger BY DEF vars
<1>1. ASSUME NEW f \in Filters, ListActivities(f) PROVE WalkInv'
  <2> DEFINE w == [view |-> "list", filter |-> f, account |-> Unset,
                   seen |-> <<>>, more |-> TRUE, begun |-> {}]
  <2>1. w \in Walks /\ w.seen = <<>> BY DEF Walks
  <2>2. Begin(w) BY <1>1 DEF ListActivities
  <2> HIDE DEF w
  <2>3. states' = states /\ walk' = WithPage([w EXCEPT !.begun = ItemsOf(w)], ItemsOf(w))
    BY <2>2 DEF Begin, TakePage, WithPage
  <2> QED BY <1>0, <2>1, <2>3, BeginWalks DEF QueriesInv
<1>2. ASSUME NEW a \in Accounts, GetAccountTimeline(a) PROVE WalkInv'
  <2> DEFINE w == [view |-> "timeline", filter |-> Unset, account |-> a,
                   seen |-> <<>>, more |-> TRUE, begun |-> {}]
  <2>1. w \in Walks /\ w.seen = <<>> BY DEF Walks
  <2>2. Begin(w) BY <1>2 DEF GetAccountTimeline
  <2> HIDE DEF w
  <2>3. states' = states /\ walk' = WithPage([w EXCEPT !.begun = ItemsOf(w)], ItemsOf(w))
    BY <2>2 DEF Begin, TakePage, WithPage
  <2> QED BY <1>0, <2>1, <2>3, BeginWalks DEF QueriesInv
<1>3. CASE NextPage BY <1>3, NextPageWalks
<1>4. CASE Leave BY <1>4 DEF Leave, WalkInv
<1> QED BY <1>1, <1>2, <1>3, <1>4 DEF Pages

LEMMA NextQueriesInv == QueriesInv /\ [QueriesNext]_queryVars => QueriesInv'
<1> SUFFICES ASSUME QueriesInv, [QueriesNext]_queryVars PROVE QueriesInv' OBVIOUS
<1>1. /\ ReadTypes' /\ Grows(ledger, ledger') /\ Grows(states, states')
      /\ walk' = walk \/ (Pages /\ UNCHANGED <<vars, states>>)
  BY ReadsStep DEF QueriesInv
<1>2. CASE walk' = walk
  <2>1. ItemsOf(walk) \subseteq ItemsOf(walk)' BY <1>1, <1>2, ItemsGrow DEF QueriesInv
  <2>2. Seen' = Seen /\ NextCursor(walk)' = NextCursor(walk) BY <1>2 DEF Seen, NextCursor
  <2>3. WalkInv' BY <1>2, <2>1, <2>2 DEF QueriesInv, WalkInv
  <2> QED BY <1>1, <2>3 DEF QueriesInv
<1>3. CASE Pages /\ UNCHANGED <<vars, states>> BY <1>1, <1>3, PagesWalk DEF QueriesInv
<1> QED BY <1>1, <1>2, <1>3

LEMMA InitQueriesInv == QueriesInit => QueriesInv
<1> SUFFICES ASSUME QueriesInit PROVE QueriesInv OBVIOUS
<1>1. TypeOK BY InitType DEF QueriesInit
<1>2. ChainsWellFormed BY DEF QueriesInit, Init, ChainsWellFormed
<1>3. states \in Seq(StateRows) /\ walk = NoWalk BY DEF QueriesInit
<1> QED BY <1>1, <1>2, <1>3 DEF QueriesInv, ReadTypes, WalkInv

\* Whatever is posted, dated back, reversed, corrected, archived and rebuilt between
\* its pages, a walk through the Activity list or a timeline lists in order and once
\* what there is, and at its end everything that was there when it began.
THEOREM WalksListOnce == QueriesSpec => []PagesListOnce
<1>1. QueriesInv => PagesListOnce
  BY DEF QueriesInv, WalkInv, PagesListOnce
<1> QED BY <1>1, InitQueriesInv, NextQueriesInv, PTL DEF QueriesSpec

-----------------------------------------------------------------------------
(* Exports.                                                                  *)

Datasets == UNION {DatasetsAt[p] : p \in Destinations}
Files    == [dataset : Datasets, parts : Seq(Nat), synced : BOOLEAN]
Commands ==
  [phase : {"opened", "writing", "synced", "renamed"}, path : Destinations,
   dataset : Datasets, confirmed : BOOLEAN, snapshot : Nat]

\* At version v, a synced file holds every section at one version up to v.
Settled(file, v) == file \in Files /\ file.synced /\ Whole(file) /\ file.parts[1] <= v
Held(file, v)    == file = NoFile \/ Settled(file, v)

\* At version v, what the temporary file of a command in a phase holds.
Written(job, temp, v) ==
  /\ job.phase = "opened" => temp \in Files /\ temp.parts = <<>>
  /\ job.phase = "writing" =>
       /\ temp \in Files /\ job.snapshot <= v
       /\ \A n \in DOMAIN temp.parts : temp.parts[n] = job.snapshot
  /\ job.phase = "synced" => Settled(temp, v)

JobsAt(v)  == /\ jobs \in [Exporters -> Commands \cup {Idle}]
              /\ \A j \in Exporters : Written(jobs[j], temps[j], v)
TempsType  == temps \in [Exporters -> Files \cup {NoFile}]
DiskAt(v)  == /\ disk \in [Destinations -> [now : Files \cup {NoFile}, durable : Files \cup {NoFile}]]
              /\ \A p \in Destinations : Held(disk[p].now, v) /\ Held(disk[p].durable, v)

FilesAt(v) == JobsAt(v) /\ TempsType /\ DiskAt(v)
ExportInv  == ReadTypes /\ FilesAt(Version)

LEMMA SectionsAreSome == ASSUME NEW d PROVE Len(Parts(d)) \in Nat /\ Len(Parts(d)) >= 1
BY DEF Parts

\* A file stays settled while versions are committed.
LEMMA SettledStays ==
  ASSUME NEW v \in Nat, NEW w \in Nat, v <= w, NEW f, Settled(f, v) PROVE Settled(f, w)
<1>1. f.parts \in Seq(Nat) /\ Len(f.parts) = Len(Parts(f.dataset))
  BY DEF Settled, Files, Whole
<1>2. Len(f.parts) >= 1 BY <1>1, SectionsAreSome
<1>3. f.parts[1] \in Nat BY <1>1, <1>2
<1> QED BY <1>3 DEF Settled

\* A commit beside the exports.
LEMMA CommitKeeps ==
  ASSUME NEW v \in Nat, NEW w \in Nat, v <= w, FilesAt(v), UNCHANGED exportVars
  PROVE  FilesAt(w)'
<1>1. jobs' = jobs /\ temps' = temps /\ disk' = disk BY DEF exportVars
<1>2. ASSUME NEW p \in Destinations PROVE Held(disk[p].now, w) /\ Held(disk[p].durable, w)
  <2>1. Held(disk[p].now, v) /\ Held(disk[p].durable, v) BY DEF FilesAt, DiskAt
  <2> QED BY <2>1, SettledStays DEF Held
<1>3. ASSUME NEW j \in Exporters PROVE Written(jobs[j], temps[j], w)
  <2>1. Written(jobs[j], temps[j], v) BY DEF FilesAt, JobsAt
  <2>2. jobs[j].phase = "writing" => jobs[j].snapshot \in Nat
    <3>1. jobs[j] \in Commands \cup {Idle} BY DEF FilesAt, JobsAt
    <3> QED BY <3>1 DEF Commands, Idle
  <2> QED BY <2>1, <2>2, SettledStays DEF Written
<1>4. JobsAt(w)' BY <1>1, <1>3 DEF JobsAt, FilesAt
<1>5. TempsType' BY <1>1 DEF TempsType, FilesAt
<1>6. DiskAt(w)' BY <1>1, <1>2 DEF DiskAt, FilesAt
<1> QED BY <1>4, <1>5, <1>6 DEF FilesAt

\* A step of one command that changes its own job and file only.
LEMMA OwnStep ==
  ASSUME NEW v \in Nat, FilesAt(v), NEW j \in Exporters,
         NEW job \in Commands \cup {Idle}, NEW temp \in Files \cup {NoFile},
         Written(job, temp, v),
         jobs' = [jobs EXCEPT ![j] = job], temps' = [temps EXCEPT ![j] = temp], DiskAt(v)'
  PROVE  FilesAt(v)'
<1>1. jobs' \in [Exporters -> Commands \cup {Idle}] BY DEF FilesAt, JobsAt
<1>2. TempsType' BY DEF FilesAt, TempsType
<1>3. \A k \in Exporters : Written(jobs'[k], temps'[k], v)
  <2> SUFFICES ASSUME NEW k \in Exporters PROVE Written(jobs'[k], temps'[k], v) OBVIOUS
  <2>1. CASE k = j
    <3>1. jobs'[k] = job /\ temps'[k] = temp BY <2>1 DEF FilesAt, JobsAt, TempsType
    <3> QED BY <3>1
  <2>2. CASE k # j
    <3>1. jobs'[k] = jobs[k] /\ temps'[k] = temps[k] BY <2>2 DEF FilesAt, JobsAt, TempsType
    <3>2. Written(jobs[k], temps[k], v) BY DEF FilesAt, JobsAt
    <3> QED BY <3>1, <3>2
  <2> QED BY <2>1, <2>2
<1>4. JobsAt(v)' BY <1>1, <1>3 DEF JobsAt
<1> QED BY <1>2, <1>4 DEF FilesAt

LEMMA InPhase ==
  ASSUME NEW v \in Nat, FilesAt(v), NEW j \in Exporters, jobs[j].phase # "idle"
  PROVE  /\ jobs[j] \in Commands
         /\ Written(jobs[j], temps[j], v)
         /\ temps[j] \in Files \cup {NoFile}
BY DEF FilesAt, JobsAt, TempsType, Idle

LEMMA SameDisk ==
  ASSUME NEW v \in Nat, FilesAt(v), disk' = disk PROVE DiskAt(v)'
BY DEF FilesAt, DiskAt

LEMMA IdleWrites == ASSUME NEW v, NEW temp PROVE Written(Idle, temp, v)
BY DEF Written, Idle

LEMMA StartKeeps ==
  ASSUME NEW v \in Nat, FilesAt(v), NEW j \in Exporters, NEW p \in Destinations,
         NEW confirmed \in BOOLEAN, NEW d \in DatasetsAt[p], StartExport(j, p, d, confirmed)
  PROVE  FilesAt(v)'
<1> DEFINE job == [phase |-> "opened", path |-> p, dataset |-> d, confirmed |-> confirmed,
                   snapshot |-> 0]
           temp == File(d, <<>>, FALSE)
<1>1. d \in Datasets BY DEF Datasets
<1>2. job \in Commands BY <1>1 DEF Commands
<1>3. temp \in Files
  <2>1. <<>> \in Seq(Nat) OBVIOUS
  <2> QED BY <1>1, <2>1 DEF File, Files
<1>4. Written(job, temp, v) BY <1>3 DEF Written, File
<1>5. jobs' = [jobs EXCEPT ![j] = job] /\ temps' = [temps EXCEPT ![j] = temp] /\ disk' = disk
  BY DEF StartExport
<1> HIDE DEF job, temp
<1> QED BY <1>2, <1>3, <1>4, <1>5, SameDisk, OwnStep

LEMMA BeginReadKeeps ==
  ASSUME Version \in Nat, FilesAt(Version), NEW v, v = Version, NEW j \in Exporters, BeginRead(j)
  PROVE  FilesAt(v)'
<1> DEFINE job == [[jobs[j] EXCEPT !.phase = "writing"] EXCEPT !.snapshot = v]
<1>0. v \in Nat /\ FilesAt(v) OBVIOUS
<1>1. jobs[j].phase = "opened" BY DEF BeginRead
<1>2. jobs[j] \in Commands /\ Written(jobs[j], temps[j], v) BY <1>0, <1>1, InPhase
<1>3. temps[j] \in Files /\ temps[j].parts = <<>> BY <1>1, <1>2 DEF Written
<1>4. job \in Commands /\ job.phase = "writing" /\ job.snapshot = v BY <1>0, <1>2 DEF Commands
<1>5. jobs' = [jobs EXCEPT ![j] = job] /\ disk' = disk /\ temps' = temps
  BY <1>0 DEF BeginRead, FilesAt, JobsAt
<1>6. temps' = [temps EXCEPT ![j] = temps[j]] BY <1>5, <1>0 DEF FilesAt, TempsType
<1> HIDE DEF job
<1>7. Written(job, temps[j], v) BY <1>0, <1>3, <1>4 DEF Written
<1> QED BY <1>0, <1>3, <1>4, <1>5, <1>6, <1>7, SameDisk, OwnStep

LEMMA WriteSectionKeeps ==
  ASSUME NEW v \in Nat, FilesAt(v), NEW j \in Exporters, WriteSection(j) PROVE FilesAt(v)'
<1> DEFINE temp == [temps[j] EXCEPT !.parts = Append(temps[j].parts, jobs[j].snapshot)]
<1>1. jobs[j].phase = "writing" BY DEF WriteSection
<1>2. jobs[j] \in Commands /\ Written(jobs[j], temps[j], v) BY <1>1, InPhase
<1>3. /\ temps[j] \in Files /\ jobs[j].snapshot <= v /\ jobs[j].snapshot \in Nat
      /\ \A n \in DOMAIN temps[j].parts : temps[j].parts[n] = jobs[j].snapshot
  BY <1>1, <1>2 DEF Written, Commands
<1>4. temps[j].parts \in Seq(Nat) BY <1>3 DEF Files
<1>5. temp \in Files /\ temp.parts = Append(temps[j].parts, jobs[j].snapshot)
  <2>1. Append(temps[j].parts, jobs[j].snapshot) \in Seq(Nat) BY <1>3, <1>4
  <2> QED BY <1>3, <2>1 DEF Files
<1>6. temps' = [temps EXCEPT ![j] = temp] /\ jobs' = jobs /\ disk' = disk
  BY DEF WriteSection, Reads, FilesAt, TempsType
<1>7. jobs' = [jobs EXCEPT ![j] = jobs[j]] BY <1>6 DEF FilesAt, JobsAt
<1> HIDE DEF temp
<1>8. \A n \in DOMAIN temp.parts : temp.parts[n] = jobs[j].snapshot BY <1>3, <1>4, <1>5
<1>9. Written(jobs[j], temp, v) BY <1>1, <1>3, <1>5, <1>8 DEF Written
<1> QED BY <1>2, <1>5, <1>6, <1>7, <1>9, SameDisk, OwnStep

LEMMA SyncTempKeeps ==
  ASSUME NEW v \in Nat, FilesAt(v), NEW j \in Exporters, SyncTemp(j) PROVE FilesAt(v)'
<1> DEFINE temp == [temps[j] EXCEPT !.synced = TRUE]
           job == [jobs[j] EXCEPT !.phase = "synced"]
<1>1. jobs[j].phase = "writing" BY DEF SyncTemp
<1>2. jobs[j] \in Commands /\ Written(jobs[j], temps[j], v) BY <1>1, InPhase
<1>3. /\ temps[j] \in Files /\ jobs[j].snapshot <= v /\ jobs[j].snapshot \in Nat
      /\ \A n \in DOMAIN temps[j].parts : temps[j].parts[n] = jobs[j].snapshot
  BY <1>1, <1>2 DEF Written, Commands
<1>4. temp \in Files /\ temp.parts = temps[j].parts /\ temp.dataset = temps[j].dataset
      /\ temp.synced
  BY <1>3 DEF Files
<1>5. job \in Commands /\ job.phase = "synced" BY <1>2 DEF Commands
<1>6. temps' = [temps EXCEPT ![j] = temp] /\ jobs' = [jobs EXCEPT ![j] = job] /\ disk' = disk
  BY DEF SyncTemp, SetJob, FilesAt, TempsType, JobsAt
<1>7. Len(temp.parts) = Len(Parts(temp.dataset)) BY <1>4 DEF SyncTemp
<1> HIDE DEF temp, job
<1>8. temp.parts \in Seq(Nat) /\ 1 \in DOMAIN temp.parts
  <2>1. temp.parts \in Seq(Nat) BY <1>4 DEF Files
  <2>2. Len(temp.parts) >= 1 BY <1>7, SectionsAreSome
  <2> QED BY <2>1, <2>2
<1>9. Settled(temp, v) BY <1>3, <1>4, <1>7, <1>8 DEF Settled, Whole
<1>10. Written(job, temp, v) BY <1>5, <1>9 DEF Written
<1> QED BY <1>4, <1>5, <1>6, <1>10, SameDisk, OwnStep

LEMMA FailuresKeep ==
  ASSUME NEW v \in Nat, FilesAt(v), NEW j \in Exporters, FailWriting(j) \/ FailRename(j)
  PROVE  FilesAt(v)'
<1>1. CASE FailWriting(j)
  <2>1. jobs' = [jobs EXCEPT ![j] = Idle] /\ temps' = [temps EXCEPT ![j] = NoFile] /\ disk' = disk
    BY <1>1 DEF FailWriting, Answer, RemoveTemp
  <2> QED BY <2>1, IdleWrites, SameDisk, OwnStep
<1>2. CASE FailRename(j)
  <2>1. jobs' = [jobs EXCEPT ![j] = Idle] /\ temps' = [temps EXCEPT ![j] = temps[j]] /\ disk' = disk
    BY <1>2 DEF FailRename, Answer, FilesAt, TempsType
  <2>2. temps[j] \in Files \cup {NoFile} BY DEF FilesAt, TempsType
  <2> QED BY <2>1, <2>2, IdleWrites, SameDisk, OwnStep
<1> QED BY <1>1, <1>2

LEMMA ReplaceKeeps ==
  ASSUME NEW v \in Nat, FilesAt(v), NEW j \in Exporters, Replace(j) PROVE FilesAt(v)'
<1> DEFINE job == [jobs[j] EXCEPT !.phase = "renamed"]
           path == jobs[j].path
<1>1. jobs[j].phase = "synced" BY DEF Replace
<1>2. jobs[j] \in Commands /\ Written(jobs[j], temps[j], v) BY <1>1, InPhase
<1>3. Settled(temps[j], v) /\ temps[j] \in Files BY <1>1, <1>2 DEF Written, Settled
<1>4. path \in Destinations /\ job \in Commands /\ job.phase = "renamed" BY <1>2 DEF Commands
<1>5. jobs' = [jobs EXCEPT ![j] = job] /\ temps' = [temps EXCEPT ![j] = NoFile]
  BY DEF Replace, SetJob, RemoveTemp, FilesAt, JobsAt
<1>6. disk' = [disk EXCEPT ![path] = [disk[path] EXCEPT !.now = temps[j]]]
  BY DEF Replace, FilesAt, DiskAt
<1> HIDE DEF job, path
<1>7. DiskAt(v)'
  <2> DEFINE Entries == [now : Files \cup {NoFile}, durable : Files \cup {NoFile}]
             entry == [disk[path] EXCEPT !.now = temps[j]]
  <2>1. disk \in [Destinations -> Entries]
        /\ \A p \in Destinations : Held(disk[p].now, v) /\ Held(disk[p].durable, v)
    BY DEF FilesAt, DiskAt
  <2>2. entry \in Entries /\ entry.now = temps[j] /\ entry.durable = disk[path].durable
    <3>1. disk[path] \in Entries BY <1>4, <2>1
    <3> QED BY <1>3, <3>1
  <2>3. Held(entry.now, v) /\ Held(entry.durable, v) BY <1>3, <1>4, <2>1, <2>2 DEF Held
  <2>4. disk' = [disk EXCEPT ![path] = entry] BY <1>6
  <2> HIDE DEF entry
  <2>5. disk' \in [Destinations -> Entries] BY <2>1, <2>2, <2>4
  <2>6. \A p \in Destinations : Held(disk'[p].now, v) /\ Held(disk'[p].durable, v)
    <3> SUFFICES ASSUME NEW p \in Destinations
                 PROVE  Held(disk'[p].now, v) /\ Held(disk'[p].durable, v)
      OBVIOUS
    <3>1. CASE p = path BY <1>4, <2>1, <2>3, <2>4, <3>1
    <3>2. CASE p # path BY <1>4, <2>1, <2>4, <3>2
    <3> QED BY <3>1, <3>2
  <2> QED BY <2>5, <2>6 DEF DiskAt
<1>8. Written(job, NoFile, v) BY <1>4 DEF Written
<1> QED BY <1>4, <1>5, <1>7, <1>8, OwnStep

LEMMA SyncFolderKeeps ==
  ASSUME NEW v \in Nat, FilesAt(v), NEW j \in Exporters, SyncFolder(j) PROVE FilesAt(v)'
<1>1. jobs' = [jobs EXCEPT ![j] = Idle] /\ temps' = [temps EXCEPT ![j] = temps[j]]
  BY DEF SyncFolder, Answer, FilesAt, TempsType
<1>2. temps[j] \in Files \cup {NoFile} BY DEF FilesAt, TempsType
<1>3. DiskAt(v)'
  <2> DEFINE Entries == [now : Files \cup {NoFile}, durable : Files \cup {NoFile}]
             entry(p) == [disk[p] EXCEPT !.durable = disk[p].now]
  <2>1. CASE disk' = disk BY <2>1, SameDisk
  <2>2. CASE disk' = [p \in Destinations |-> entry(p)]
    <3>1. disk \in [Destinations -> Entries]
          /\ \A p \in Destinations : Held(disk[p].now, v) /\ Held(disk[p].durable, v)
      BY DEF FilesAt, DiskAt
    <3>2. \A p \in Destinations : /\ entry(p) \in Entries
                                  /\ entry(p).now = disk[p].now /\ entry(p).durable = disk[p].now
      BY <3>1
    <3>3. \A p \in Destinations : disk'[p] = entry(p) BY <2>2
    <3>4. disk' \in [Destinations -> Entries] BY <2>2, <3>2
    <3> QED BY <3>1, <3>2, <3>3, <3>4 DEF DiskAt
  <2> QED BY <2>1, <2>2 DEF SyncFolder
<1> QED BY <1>1, <1>2, <1>3, IdleWrites, OwnStep

\* A power failure tears only what was not synced, and every file at a path was.
LEMMA PowerFailureKeeps ==
  ASSUME NEW v \in Nat, FilesAt(v), PowerFailure PROVE FilesAt(v)'
<1>1. JobsAt(v)'
  <2>1. jobs' = [j \in Exporters |-> Idle] BY DEF PowerFailure
  <2> QED BY <2>1, IdleWrites DEF JobsAt
<1>2. TempsType' BY DEF PowerFailure, TempsType
<1>3. \A p \in Destinations : /\ Survivors(p) \subseteq {disk[p].now, disk[p].durable}
                              /\ \A f \in Survivors(p) : f \in Files \cup {NoFile} /\ Held(f, v)
  <2> SUFFICES ASSUME NEW p \in Destinations, NEW f \in Survivors(p)
               PROVE  f \in {disk[p].now, disk[p].durable} /\ f \in Files \cup {NoFile} /\ Held(f, v)
    OBVIOUS
  <2>1. Held(disk[p].now, v) /\ Held(disk[p].durable, v) BY DEF FilesAt, DiskAt
  <2>2. disk[p].now \in Files \cup {NoFile} /\ disk[p].durable \in Files \cup {NoFile}
    BY DEF FilesAt, DiskAt
  <2>3. \A g : Held(g, v) => Torn(g) = {g} BY DEF Held, Settled, Torn
  <2> QED BY <2>1, <2>2, <2>3 DEF Survivors
<1>4. PICK after \in [Destinations -> UNION {Survivors(p) : p \in Destinations}] :
        /\ \A p \in Destinations : after[p] \in Survivors(p)
        /\ disk' = [p \in Destinations |-> [now |-> after[p], durable |-> after[p]]]
  BY DEF PowerFailure
<1>5. \A p \in Destinations : after[p] \in Files \cup {NoFile} /\ Held(after[p], v)
  BY <1>3, <1>4
<1>6. DiskAt(v)' BY <1>4, <1>5 DEF DiskAt
<1> QED BY <1>1, <1>2, <1>6 DEF FilesAt

LEMMA ExportingKeeps ==
  ASSUME Version \in Nat, FilesAt(Version), NEW v, v = Version, Exporting PROVE FilesAt(v)'
<1>1. v \in Nat /\ FilesAt(v) OBVIOUS
<1>2. ASSUME NEW j \in Exporters, BeginRead(j) PROVE FilesAt(v)' BY <1>2, BeginReadKeeps
<1>3. CASE \E j \in Exporters, p \in Destinations, confirmed \in BOOLEAN :
             \E d \in DatasetsAt[p] : StartExport(j, p, d, confirmed)
  BY <1>1, <1>3, StartKeeps
<1> QED BY <1>1, <1>2, <1>3, WriteSectionKeeps, SyncTempKeeps, FailuresKeep, ReplaceKeeps,
           SyncFolderKeeps, PowerFailureKeeps DEF Exporting

LEMMA VersionType == ASSUME ReadTypes PROVE Version \in Nat
<1>1. ledger \in Seq(ActivityType) /\ states \in Seq(StateRows) BY TypeParts DEF ReadTypes
<1> QED BY <1>1 DEF Version

LEMMA VersionGrows ==
  ASSUME ReadTypes, [QueriesNext]_queryVars
  PROVE  Version \in Nat /\ Version' \in Nat /\ Version <= Version'
<1>1. ReadTypes' /\ Grows(ledger, ledger') /\ Grows(states, states') BY ReadsStep
<1>2. ledger \in Seq(ActivityType) /\ states \in Seq(StateRows) BY TypeParts DEF ReadTypes
<1>3. ledger' \in Seq(ActivityType) /\ states' \in Seq(StateRows)
  BY <1>1 DEF ReadTypes, TypeOK, ActivityType, LegType
<1> QED BY <1>1, <1>2, <1>3 DEF Version, Grows

LEMMA ExportInvStep == ASSUME ExportInv, [ExportNext]_<<queryVars, exportVars>> PROVE ExportInv'
<1>0. ReadTypes /\ FilesAt(Version) BY DEF ExportInv
<1>1. CASE [QueriesNext]_queryVars /\ UNCHANGED exportVars
  <2>1. Version \in Nat /\ Version' \in Nat /\ Version <= Version' BY <1>0, <1>1, VersionGrows
  <2>2. ReadTypes' BY <1>0, <1>1, ReadsStep
  <2>3. PICK v, w : v = Version /\ w = Version' OBVIOUS
  <2>4. FilesAt(w)' BY <1>0, <1>1, <2>1, <2>3, CommitKeeps
  <2> QED BY <2>2, <2>3, <2>4 DEF ExportInv, FilesAt, JobsAt, DiskAt
<1>2. CASE Exporting /\ UNCHANGED queryVars
  <2>1. Version \in Nat BY <1>0, VersionType
  <2>2. ReadTypes' BY <1>0, <1>2, ReadsStep
  <2>3. Version' = Version BY <1>2 DEF queryVars, vars, Version
  <2>4. PICK v : v = Version OBVIOUS
  <2>5. FilesAt(v)' BY <1>0, <1>2, <2>1, <2>4, ExportingKeeps
  <2> QED BY <2>2, <2>3, <2>4, <2>5 DEF ExportInv, FilesAt, JobsAt, DiskAt
<1> QED BY <1>1, <1>2 DEF ExportNext

LEMMA ExportInvInit == ASSUME QueriesInit, ExportInit PROVE ExportInv
<1>1. ReadTypes
  <2>1. TypeOK /\ states = <<>> BY InitType DEF QueriesInit
  <2>2. ChainsWellFormed BY DEF QueriesInit, Init, ChainsWellFormed
  <2> QED BY <2>1, <2>2 DEF ReadTypes
<1>2. Version \in Nat BY <1>1, VersionType
<1>3. PICK v : v = Version OBVIOUS
<1>4. JobsAt(v) BY IdleWrites DEF ExportInit, JobsAt
<1>5. TempsType BY DEF ExportInit, TempsType
<1>6. DiskAt(v) BY DEF ExportInit, DiskAt, Held
<1> QED BY <1>1, <1>3, <1>4, <1>5, <1>6 DEF ExportInv, FilesAt

\* Two exports run into one destination, each writing its temporary file section by
\* section, syncing and renaming it, and each may fail, be stopped or lose power at any
\* step: a file at a destination is a whole export of one committed version of the
\* database (application/export_service.rs export_canonical_json, finalize_replaced).
THEOREM ExportsAreWhole == ExportSpec => []DestinationIsWhole
<1>1. ExportInv => DestinationIsWhole
  BY DEF ExportInv, FilesAt, DiskAt, Held, Settled, DestinationIsWhole
<1> QED BY <1>1, ExportInvInit, ExportInvStep, PTL DEF ExportSpec

-----------------------------------------------------------------------------
(* What the household is worth.                                              *)

Quotes == (Nat \ {0}) \cup {NoQuote}

QuotesTyped ==
  /\ latest \in [Lines \X Sources -> Quotes]
  /\ preferred \in [Subjects -> Sources]

PortfolioInv == TypeOK /\ QuotesTyped

LEMMA QuoteConstants ==
  /\ \A offer \in Offers : /\ offer.line \in Lines /\ offer.source \in Sources
                           /\ offer.value \in Nat \ {0}
  /\ Scale \in Nat \ {0}
  /\ \A n \in Int : n # NoQuote
  /\ \A h \in Holdings : InstrumentOf[h] \in DOMAIN InstrumentFacts
<1>1. /\ Offers \subseteq [line : Lines, source : Sources, value : Nat \ {0}]
      /\ Scale \in Nat \ {0} /\ NoQuote \notin Int
      /\ {InstrumentOf[h] : h \in Holdings} \subseteq DOMAIN InstrumentFacts
  BY PortfolioConstants
<1> QED BY <1>1

LEMMA NextPortfolioInv == PortfolioInv /\ [PortfolioNext]_<<vars, quoteVars>> => PortfolioInv'
<1> SUFFICES ASSUME PortfolioInv, [PortfolioNext]_<<vars, quoteVars>> PROVE PortfolioInv' OBVIOUS
<1>1. TypeOK'
  <2>1. [Next]_vars BY DEF PortfolioNext
  <2> QED BY <2>1, NextType DEF PortfolioInv
<1>2. CASE UNCHANGED quoteVars BY <1>1, <1>2 DEF PortfolioInv, QuotesTyped, quoteVars
<1>3. ASSUME NEW offer \in Offers, RecordQuote(offer) PROVE QuotesTyped'
  BY <1>3, QuoteConstants DEF RecordQuote, PortfolioInv, QuotesTyped, Quotes
<1>4. ASSUME NEW s \in Subjects, NEW source \in Sources, Prefer(s, source) PROVE QuotesTyped'
  BY <1>4 DEF Prefer, PortfolioInv, QuotesTyped
<1> QED BY <1>1, <1>2, <1>3, <1>4 DEF PortfolioNext, Quoting, PortfolioInv

LEMMA InitPortfolioInv == Init /\ PortfolioInit => PortfolioInv
<1> SUFFICES ASSUME Init, PortfolioInit PROVE PortfolioInv OBVIOUS
<1>1. latest \in [Lines \X Sources -> Quotes] BY DEF PortfolioInit, Quotes
<1>2. preferred \in [Subjects -> Sources] BY DEF PortfolioInit, Sources
<1> QED BY <1>1, <1>2, InitType DEF PortfolioInv, QuotesTyped

LEMMA PairIsLine ==
  ASSUME NEW c \in Foreign, NEW line, line \in {<<c, Base>>, <<Base, c>>}
  PROVE  line \in Lines /\ SubjectOf(line) \in Subjects
<1>1. line \in Lines BY DEF Lines
<1>2. Len(line) = 2 /\ c \in {line[1], line[2]} OBVIOUS
<1>3. SubjectOf(line) \in Foreign
  <2>1. SubjectOf(line) = CHOOSE d \in Foreign : d \in {line[1], line[2]} BY <1>2 DEF SubjectOf
  <2> QED BY <1>2, <2>1
<1> QED BY <1>1, <1>3 DEF Subjects

LEMMA SelectedType ==
  ASSUME QuotesTyped, NEW line \in Lines, SubjectOf(line) \in Subjects
  PROVE  Selected(line) \in Quotes
BY DEF QuotesTyped, Selected

\* An amount has no value in the base currency only for want of both rates.
LEMMA WithoutRate ==
  ASSUME QuotesTyped, NEW native \in Int, NEW c, c = Base \/ c \in Foreign,
         ToBase(native, c) = NoQuote
  PROVE  c \in Foreign /\ Selected(<<c, Base>>) = NoQuote /\ Selected(<<Base, c>>) = NoQuote
<1>1. Scale \in Nat \ {0} /\ \A n \in Int : n # NoQuote BY QuoteConstants
<1>2. native * Scale \in Int BY <1>1
<1> DEFINE direct == Selected(<<c, Base>>)
           inverse == Selected(<<Base, c>>)
           units == native * Scale
<1>3. c # Base
  <2> SUFFICES ASSUME c = Base PROVE FALSE OBVIOUS
  <2>1. ToBase(native, c) = native * Scale BY DEF ToBase
  <2> QED BY <1>1, <1>2, <2>1
<1>4. c \in Foreign BY <1>3
<1>5. direct \in Quotes /\ inverse \in Quotes BY <1>4, PairIsLine, SelectedType
<1>6. direct = NoQuote
  <2> SUFFICES ASSUME direct # NoQuote PROVE FALSE OBVIOUS
  <2>1. ToBase(native, c) = units * direct BY <1>3 DEF ToBase
  <2> HIDE DEF units, direct
  <2>2. units * direct \in Int BY <1>2, <1>5 DEF Quotes, units
  <2> QED BY <1>1, <2>1, <2>2
<1>7. inverse = NoQuote
  <2> SUFFICES ASSUME inverse # NoQuote PROVE FALSE OBVIOUS
  <2>1. ToBase(native, c) = units \div inverse BY <1>3, <1>6 DEF ToBase
  <2> HIDE DEF units, inverse
  <2>2. units \div inverse \in Int BY <1>2, <1>5 DEF Quotes, units
  <2> QED BY <1>1, <2>1, <2>2
<1> QED BY <1>4, <1>6, <1>7

\* A component: its currency is the base or foreign, its base value the conversion.
LEMMA ComponentIs ==
  ASSUME PortfolioInv, NEW a \in Accounts, NEW part \in Components(a), part.known,
         part.base = NoQuote
  PROVE  /\ part.currency \in Foreign
         /\ Selected(<<part.currency, Base>>) = NoQuote
         /\ Selected(<<Base, part.currency>>) = NoQuote
<1>1. QuotesTyped /\ TypeOK BY DEF PortfolioInv
<1>2. ASSUME NEW e, NEW native, native \in Int \cup {NoQuote}, NEW c, c = Base \/ c \in Foreign,
             NEW country, NEW type, part = Component(e, native, c, country, type)
      PROVE  /\ part.currency \in Foreign
             /\ Selected(<<part.currency, Base>>) = NoQuote
             /\ Selected(<<Base, part.currency>>) = NoQuote
  <2>1. part.currency = c /\ native # NoQuote /\ ToBase(native, c) = NoQuote
    <3>1. part.currency = c BY <1>2 DEF Component
    <3>2. part = Component(e, native, c, country, type) BY <1>2
    <3>3. native # NoQuote
      <4> DEFINE known == native # NoQuote
                 base == IF native = NoQuote THEN NoQuote ELSE ToBase(native, c)
      <4>1. part = [of |-> e, currency |-> c, country |-> country, type |-> type,
                    known |-> known, base |-> base]
        BY <3>2 DEF Component
      <4> HIDE DEF known, base
      <4>2. part.known = known BY <4>1
      <4>3. known BY <4>2, Zenon
      <4> QED BY <4>3 DEF known
    <3>4. part.base = IF native = NoQuote THEN NoQuote ELSE ToBase(native, c)
      BY <3>2 DEF Component
    <3> QED BY <3>1, <3>3, <3>4
  <2>2. native \in Int BY <1>2, <2>1
  <2> QED BY <1>1, <1>2, <2>1, <2>2, WithoutRate
<1>3. \A e \in Endpoints : Current(e) \in Int BY <1>1, TypeParts DEF Current, RowType, Amount
<1>4. CASE \E h \in Holdings : part = HoldingComponent(h)
  <2>1. PICK h \in Holdings : part = HoldingComponent(h) BY <1>4
  <2> DEFINE i == InstrumentOf[h]
             price == Selected(<<i>>)
             native == IF price = NoQuote THEN NoQuote ELSE quantity[h] * price
  <2>2. i \in DOMAIN InstrumentFacts BY QuoteConstants
  <2>3. <<i>> \in Lines BY <2>2 DEF Lines
  <2>4. SubjectOf(<<i>>) \in Subjects
    <3>1. SubjectOf(<<i>>) = i BY DEF SubjectOf
    <3> QED BY <2>2, <3>1 DEF Subjects
  <2>5. price \in Quotes BY <1>1, <2>3, <2>4, SelectedType
  <2>6. quantity[h] \in Int BY <1>1, TypeParts DEF Amount
  <2>7. InstrumentFacts[i].currency = Base \/ InstrumentFacts[i].currency \in Foreign
    BY <2>2 DEF Foreign
  <2>8. part = Component(h, native, InstrumentFacts[i].currency, InstrumentFacts[i].country,
                         InstrumentFacts[i].type)
    BY <2>1 DEF HoldingComponent
  <2> HIDE DEF i, price
  <2>9. native \in Int \cup {NoQuote} BY <2>5, <2>6 DEF Quotes
  <2> HIDE DEF native
  <2> QED BY <1>2, <2>7, <2>8, <2>9
<1>5. \A e \in ValueEndpoints \cup CashEndpoints :
         CurrencyOf[e] = Base \/ CurrencyOf[e] \in Foreign
  BY DEF Foreign
<1>6. CASE \E e \in CashEndpoints : part = CashComponent(e)
  <2>1. PICK e \in CashEndpoints : part = CashComponent(e) BY <1>6
  <2>2. Current(e) \in Int BY <1>3 DEF Endpoints
  <2> QED BY <1>2, <1>5, <2>1, <2>2 DEF CashComponent
<1>7. CASE \E e \in ValueEndpoints : part = ValueComponent(e)
  <2>1. PICK e \in ValueEndpoints : part = ValueComponent(e) BY <1>7
  <2>2. Current(e) \in Int BY <1>3 DEF Endpoints
  <2> DEFINE native == IF Kept(e) THEN Current(e) ELSE NoQuote
  <2>3. native \in Int \cup {NoQuote} BY <2>2
  <2>4. part = Component(e, native, CurrencyOf[e], "unknown", "manual") BY <2>1 DEF ValueComponent
  <2> HIDE DEF native
  <2> QED BY <1>2, <1>5, <2>3, <2>4
<1> QED BY <1>4, <1>6, <1>7 DEF Components

LEMMA MissingIsAsked == PortfolioInv => MissingRateIsAsked
<1> SUFFICES ASSUME PortfolioInv PROVE MissingRateIsAsked OBVIOUS
<1> DEFINE values == Valuations
<1>1. \A v \in values : \E a \in Accounts : v.parts = Components(a) BY DEF Valuations, Shown
<1> HIDE DEF values
<1>2. ASSUME NEW c \in Unvalued(values), c.known
      PROVE  c.currency \in Required(values) /\ ShownQuote(c.currency) = NoQuote
  <2>1. PICK v \in Net(values) : c \in v.parts /\ c.base = NoQuote BY DEF Unvalued
  <2>2. v \in values BY DEF Net
  <2>3. PICK a \in Accounts : c \in Components(a) BY <1>1, <2>1, <2>2
  <2>4. /\ c.currency \in Foreign
        /\ Selected(<<c.currency, Base>>) = NoQuote
        /\ Selected(<<Base, c.currency>>) = NoQuote
    BY <1>2, <2>1, <2>3, ComponentIs
  <2>5. c.currency \in Required(values) BY <1>2, <2>1, <2>4 DEF Required
  <2>6. {line \in {<<Base, c.currency>>, <<c.currency, Base>>} : Selected(line) # NoQuote} = {}
    BY <2>4
  <2> QED BY <2>5, <2>6 DEF ShownQuote
<1> QED BY <1>2 DEF MissingRateIsAsked, values

\* A component that is not converted for want of a rate is named among the rates the
\* user is asked for, with no quote shown beside it (required_fx of
\* application/valuation_service.rs against the valuation of portfolio_service.rs).
THEOREM RatesAreAsked == PortfolioSpec => []MissingRateIsAsked
BY InitPortfolioInv, NextPortfolioInv, MissingIsAsked, PTL DEF PortfolioSpec

-----------------------------------------------------------------------------
(* What the legs of an Activity look like.                                   *)

\* The legs that the commands which move money construct.
Shape(kind, legs) ==
  /\ kind \in {"deposit", "income"} => \E e \in Endpoints, x \in Amounts : legs = <<Leg(e, x)>>
  /\ kind \in {"withdrawal", "fee"} => \E e \in Endpoints, x \in Amounts : legs = <<Leg(e, -x)>>
  /\ kind = "transfer" /\ legs[1].ep \notin Holdings =>
       \E d \in Endpoints, e \in Endpoints, x \in Amounts, y \in Amounts :
         \/ legs = <<Leg(d, -x), Leg(e, y)>>
         \/ \E f \in Amounts : legs = <<Leg(d, -x), Leg(e, y), Leg(d, -f)>>
  /\ kind = "debt_draw" =>
       \/ \E e \in Endpoints, x \in Amounts : legs = <<Leg(e, x)>>
       \/ \E d \in Endpoints, e \in Endpoints, x \in Amounts, y \in Amounts :
            legs = <<Leg(d, x), Leg(e, y)>>
  /\ kind = "debt_payment" =>
       \E d \in Endpoints, e \in Endpoints, x \in Amounts, y \in Amounts :
         \/ legs = <<Leg(d, -x), Leg(e, -y)>>
         \/ \E f \in Amounts : legs = <<Leg(d, -x), Leg(e, -y), Leg(e, -f)>>

Made(kind, legs) == Len(legs) >= 1 /\ Shape(kind, legs)

LEMMA FeeIs ==
  ASSUME NEW e \in Endpoints, NEW fee \in OptionalFee(e)
  PROVE  fee = <<>> \/ \E f \in Amounts : fee = <<Leg(e, -f)>>
BY DEF OptionalFee

\* A sequence of two legs, with the fee that a third one carries.
LEMMA FeeJoins ==
  ASSUME NEW a \in LegType, NEW b \in LegType, NEW c \in LegType
  PROVE  <<a, b>> \o <<>> = <<a, b>> /\ <<a, b>> \o <<c>> = <<a, b, c>>
<1> DEFINE s == <<a, b>> \o <<c>>
           t == <<a, b, c>>
<1>1. s \in Seq(LegType) /\ t \in Seq(LegType) OBVIOUS
<1>2. Len(s) = 3 /\ Len(t) = 3 OBVIOUS
<1>3. s[1] = t[1] /\ s[2] = t[2] /\ s[3] = t[3] OBVIOUS
<1> HIDE DEF s, t
<1>4. s = [j \in 1 .. 3 |-> s[j]] /\ t = [j \in 1 .. 3 |-> t[j]] BY <1>1, <1>2
<1>5. \A j \in 1 .. 3 : s[j] = t[j] BY <1>3
<1>6. s = t BY <1>4, <1>5
<1> QED BY <1>6 DEF s, t

LEMMA WithFee ==
  ASSUME NEW a \in LegType, NEW b \in LegType, NEW e \in Endpoints, NEW fee \in OptionalFee(e)
  PROVE  \/ <<a, b>> \o fee = <<a, b>>
         \/ \E f \in Amounts : <<a, b>> \o fee = <<a, b, Leg(e, -f)>>
<1>1. CASE fee = <<>> BY <1>1
<1>2. CASE \E f \in Amounts : fee = <<Leg(e, -f)>>
  <2>1. PICK f \in Amounts : fee = <<Leg(e, -f)>> BY <1>2
  <2>2. Leg(e, -f) \in LegType
    <3>1. f \in Int BY LedgerConstants
    <3>2. -f \in Int BY <3>1
    <3> QED BY <3>2, LegIs
  <2>3. <<a, b>> \o <<Leg(e, -f)>> = <<a, b, Leg(e, -f)>> BY <2>2, FeeJoins
  <2> QED BY <2>1, <2>3
<1> QED BY <1>1, <1>2, FeeIs

LEMMA CommandsMake ==
  ASSUME TypeOK, NEW kind \in Kinds \ {"reversal"}, NEW legs \in LegsOf(kind)
  PROVE  Made(kind, legs)
<1>a. Amounts \subseteq Int BY LedgerConstants
<1>b. FlowEndpoints \subseteq Endpoints /\ ValueOf("liability") \subseteq Endpoints
      /\ Holdings \subseteq Endpoints
  BY DEF FlowEndpoints, Endpoints, ValueOf
<1>c. \A e \in Endpoints, x \in Amounts : Leg(e, x) \in LegType /\ Leg(e, -x) \in LegType
  <2> SUFFICES ASSUME NEW e \in Endpoints, NEW x \in Amounts
               PROVE  Leg(e, x) \in LegType /\ Leg(e, -x) \in LegType
    OBVIOUS
  <2>1. x \in Int /\ -x \in Int BY <1>a
  <2> QED BY <2>1, LegIs
<1>d. legs \in Seq(LegType) BY CommandLegs
<1>1. CASE kind = "opening_adjustment"
  <2>1. legs \in OpeningLegs BY <1>1 DEF LegsOf
  <2>2. Len(legs) = 1 BY <2>1 DEF OpeningLegs
  <2> QED BY <1>1, <2>2 DEF Made, Shape
<1>2. ASSUME NEW S, legs \in TargetLegs(S) PROVE Len(legs) = 1 BY <1>2 DEF TargetLegs
<1>3. CASE kind \in {"balance_adjustment", "debt_adjustment", "manual_valuation", "position_adjustment"}
  <2>1. \E S : legs \in TargetLegs(S) BY <1>3 DEF LegsOf
  <2>2. Len(legs) = 1 BY <1>2, <2>1
  <2> QED BY <1>3, <2>2 DEF Made, Shape
<1>4. CASE kind \in {"deposit", "income"}
  <2>1. legs \in Inflow BY <1>4 DEF LegsOf
  <2>2. PICK e \in FlowEndpoints, x \in Amounts : legs = <<Leg(e, x)>> BY <2>1 DEF Inflow
  <2> QED BY <1>4, <1>b, <2>2 DEF Made, Shape
<1>5. CASE kind \in {"withdrawal", "fee"}
  <2>1. legs \in Outflow BY <1>5 DEF LegsOf
  <2>2. PICK e \in FlowEndpoints, x \in Amounts : legs = <<Leg(e, -x)>> BY <2>1 DEF Outflow
  <2> QED BY <1>5, <1>b, <2>2 DEF Made, Shape
<1>6. CASE kind = "transfer" /\ legs \in CashTransferLegs
  <2>1. PICK c \in FlowEndpoints \X FlowEndpoints \X Amounts \X Amounts :
          \E fee \in OptionalFee(c[1]) : legs = <<Leg(c[1], -c[3]), Leg(c[2], c[4])>> \o fee
    BY <1>6, Zenon DEF CashTransferLegs
  <2>2. PICK fee \in OptionalFee(c[1]) : legs = <<Leg(c[1], -c[3]), Leg(c[2], c[4])>> \o fee
    BY <2>1
  <2>3. c[1] \in Endpoints /\ c[2] \in Endpoints /\ c[3] \in Amounts /\ c[4] \in Amounts BY <1>b
  <2>4. \/ legs = <<Leg(c[1], -c[3]), Leg(c[2], c[4])>>
        \/ \E f \in Amounts : legs = <<Leg(c[1], -c[3]), Leg(c[2], c[4]), Leg(c[1], -f)>>
    BY <1>c, <2>2, <2>3, WithFee
  <2>5. Len(legs) >= 1
    <3>1. \A p, q, r : Len(<<p, q>>) >= 1 /\ Len(<<p, q, r>>) >= 1 OBVIOUS
    <3> QED BY <2>4, <3>1, Zenon
  <2>6. \E d \in Endpoints, e \in Endpoints, x \in Amounts, y \in Amounts :
          \/ legs = <<Leg(d, -x), Leg(e, y)>>
          \/ \E f \in Amounts : legs = <<Leg(d, -x), Leg(e, y), Leg(d, -f)>>
    BY <2>3, <2>4
  <2> QED BY <1>6, <2>5, <2>6 DEF Made, Shape
<1>7. CASE kind = "transfer" /\ legs \in PositionTransferLegs
  <2>1. PICK c \in Holdings \X Holdings \X Amounts : legs = <<Leg(c[1], -c[3]), Leg(c[2], c[3])>>
    BY <1>7 DEF PositionTransferLegs
  <2>2. Len(legs) = 2 /\ legs[1].ep \in Holdings BY <2>1 DEF Leg
  <2> QED BY <1>7, <2>2 DEF Made, Shape
<1>8. ASSUME NEW sign \in {1, -1}, legs \in TradeLegs(sign) PROVE Len(legs) >= 1
  <2>1. PICK c \in Holdings \X Amounts \X Prices :
          \E fee \in OptionalFee(SettlementOf[c[1]]) :
            legs = <<Leg(c[1], sign * c[2])>>
                     \o Settlement(c[1], -(sign * c[2] * c[3])) \o fee
    BY <1>8, Zenon DEF TradeLegs
  <2>2. PICK fee \in OptionalFee(SettlementOf[c[1]]) :
          legs = <<Leg(c[1], sign * c[2])>> \o Settlement(c[1], -(sign * c[2] * c[3])) \o fee
    BY <2>1
  <2> DEFINE a == Leg(c[1], sign * c[2])
             s == Settlement(c[1], -(sign * c[2] * c[3]))
  <2>3. s = <<>> \/ s = <<Leg(SettlementOf[c[1]], -(sign * c[2] * c[3]))>> BY DEF Settlement
  <2>5. fee = <<>> \/ \E f : fee = <<f>> BY DEF OptionalFee
  <2>6. legs = <<a>> \o s \o fee BY <2>2
  <2> HIDE DEF a, s
  <2>7. s = <<>> \/ \E x : s = <<x>> BY <2>3
  <2>8. Len(<<a>> \o s \o fee) >= 1
    <3>1. CASE s = <<>> BY <2>5, <3>1
    <3>2. CASE \E x : s = <<x>> BY <2>5, <3>2
    <3> QED BY <2>7, <3>1, <3>2
  <2> QED BY <2>6, <2>8
<1>9. CASE kind \in {"buy", "sell"}
  <2>1. \E sign \in {1, -1} : legs \in TradeLegs(sign) BY <1>9 DEF LegsOf
  <2>2. Len(legs) >= 1 BY <1>8, <2>1
  <2> QED BY <1>9, <2>2 DEF Made, Shape
<1>10. CASE kind = "debt_draw"
  <2>1. legs \in DebtDrawLegs BY <1>10 DEF LegsOf
  <2>2. \/ \E l \in ValueOf("liability"), x \in Amounts : legs = <<Leg(l, x)>>
        \/ \E c \in ValueOf("liability") \X FlowEndpoints \X Amounts \X Amounts :
             legs = <<Leg(c[1], c[3]), Leg(c[2], c[4])>>
    BY <2>1 DEF DebtDrawLegs
  <2>3. CASE \E l \in ValueOf("liability"), x \in Amounts : legs = <<Leg(l, x)>>
    <3>1. \E e \in Endpoints, x \in Amounts : legs = <<Leg(e, x)>> BY <1>b, <2>3
    <3>2. Len(legs) = 1 BY <3>1
    <3> QED BY <1>10, <3>1, <3>2 DEF Made, Shape
  <2>4. CASE \E c \in ValueOf("liability") \X FlowEndpoints \X Amounts \X Amounts :
               legs = <<Leg(c[1], c[3]), Leg(c[2], c[4])>>
    <3>1. PICK c \in ValueOf("liability") \X FlowEndpoints \X Amounts \X Amounts :
            legs = <<Leg(c[1], c[3]), Leg(c[2], c[4])>>
      BY <2>4
    <3>2. c[1] \in Endpoints /\ c[2] \in Endpoints /\ c[3] \in Amounts /\ c[4] \in Amounts BY <1>b
    <3>3. Len(legs) = 2 BY <3>1
    <3> QED BY <1>10, <3>1, <3>2, <3>3 DEF Made, Shape
  <2> QED BY <2>2, <2>3, <2>4
<1>11. CASE kind = "debt_payment"
  <2>0. legs \in DebtPaymentLegs BY <1>11 DEF LegsOf
  <2>1. PICK c \in ValueOf("liability") \X FlowEndpoints \X Amounts \X Amounts :
          \E fee \in OptionalFee(c[2]) : legs = <<Leg(c[1], -c[3]), Leg(c[2], -c[4])>> \o fee
    BY <2>0, Zenon DEF DebtPaymentLegs
  <2>2. PICK fee \in OptionalFee(c[2]) : legs = <<Leg(c[1], -c[3]), Leg(c[2], -c[4])>> \o fee
    BY <2>1
  <2>3. c[1] \in Endpoints /\ c[2] \in Endpoints /\ c[3] \in Amounts /\ c[4] \in Amounts BY <1>b
  <2>4. \/ legs = <<Leg(c[1], -c[3]), Leg(c[2], -c[4])>>
        \/ \E f \in Amounts : legs = <<Leg(c[1], -c[3]), Leg(c[2], -c[4]), Leg(c[2], -f)>>
    BY <1>c, <2>2, <2>3, WithFee
  <2>5. Len(legs) >= 1
    <3>1. \A p, q, r : Len(<<p, q>>) >= 1 /\ Len(<<p, q, r>>) >= 1 OBVIOUS
    <3> QED BY <2>4, <3>1, Zenon
  <2> QED BY <1>11, <2>3, <2>4, <2>5 DEF Made, Shape
<1>12. kind = "transfer" => legs \in CashTransferLegs \/ legs \in PositionTransferLegs
  BY DEF LegsOf
<1> QED BY <1>1, <1>3, <1>4, <1>5, <1>6, <1>7, <1>9, <1>10, <1>11, <1>12 DEF Kinds

Constructed(L) == \A i \in DOMAIN L : L[i].kind # "reversal" => Made(L[i].kind, L[i].legs)

LEMMA AppendMade ==
  ASSUME NEW L \in Seq(ActivityType), NEW a \in ActivityType, Constructed(L),
         a.kind # "reversal" => Made(a.kind, a.legs)
  PROVE  Constructed(Append(L, a)) /\ Append(L, a) \in Seq(ActivityType)
<1>1. \A i \in DOMAIN Append(L, a) : \/ i \in DOMAIN L /\ Append(L, a)[i] = L[i]
                                     \/ Append(L, a)[i] = a
  OBVIOUS
<1>2. Constructed(Append(L, a))
  <2> SUFFICES ASSUME NEW i \in DOMAIN Append(L, a), NEW b, b = Append(L, a)[i], b.kind # "reversal"
               PROVE  Made(b.kind, b.legs)
    BY DEF Constructed
  <2>1. CASE b = a BY <2>1
  <2>2. CASE i \in DOMAIN L /\ b = L[i] BY <2>2 DEF Constructed
  <2> QED BY <1>1, <2>1, <2>2
<1> QED BY <1>2

LEMMA NextConstructs ==
  ASSUME TypeOK, Constructed(ledger), [Next]_vars PROVE Constructed(ledger)'
<1>0. ledger \in Seq(ActivityType) /\ now \in Times BY TypeParts
<1>1. CASE ledger' = ledger BY <1>1 DEF Constructed
<1>2. ASSUME NEW kind \in Kinds \ {"reversal"}, NEW legs \in LegsOf(kind),
             NEW at \in EntryTimes, Post(kind, legs, at)
      PROVE  Constructed(ledger')
  <2> DEFINE a == Activity(kind, at, legs, 0, 0)
  <2>1. at \in Times BY <1>0, LedgerConstants DEF EntryTimes, Times
  <2>2. a \in ActivityType BY <2>1, CommandLegs, ActivityIs, 0 \in Nat
  <2>3. a.kind = kind /\ a.legs = legs BY DEF Activity
  <2>4. Made(a.kind, a.legs) BY <2>3, CommandsMake
  <2>5. ledger' = Append(ledger, a) BY <1>2 DEF Post
  <2> HIDE DEF a
  <2> QED BY <1>0, <2>2, <2>4, <2>5, AppendMade
<1>3. CASE Posting
  <2>1. CASE Opening
    <3>1. PICK legs \in OpeningLegs, at \in EntryTimes : Post("opening_adjustment", legs, at)
      BY <2>1 DEF Opening
    <3>2. "opening_adjustment" \in Kinds \ {"reversal"} BY DEF Kinds
    <3>3. legs \in LegsOf("opening_adjustment") BY <3>1 DEF LegsOf
    <3>4. Constructed(ledger') BY <1>2, <3>1, <3>2, <3>3
    <3> QED BY <3>4
  <2>2. ASSUME NEW kind \in Kinds \ {"reversal"}, PostKind(kind) PROVE Constructed(ledger')
    <3>1. PICK legs \in LegsOf(kind), at \in EntryTimes : Post(kind, legs, at)
      BY <2>2 DEF PostKind
    <3> QED BY <1>2, <3>1
  <2>3. Opening \/ \E kind \in Kinds \ {"reversal"} : PostKind(kind)
    BY <1>3
    DEF Posting, Kinds, BalanceAdjustment, DebtAdjustment, ManualValuation,
        PositionAdjustment, Deposit, Withdrawal, Income, Fee, Transfer, Buy, Sell, DebtDraw,
        DebtPayment
  <2> QED BY <2>1, <2>2, <2>3
<1>4. CASE Reverse
  <2>1. PICK i \in DOMAIN ledger, at \in 0 .. now : ReverseActivity(i, at) BY <1>4 DEF Reverse
  <2> DEFINE undo == Activity("reversal", at, InverseLegs(ledger[i].legs), i, 0)
  <2>2. at \in Times /\ i \in Nat BY <1>0, <2>1, LedgerConstants DEF Times
  <2>3. ledger[i].legs \in Seq(LegType)
    <3>1. ledger[i] \in ActivityType BY <1>0, <2>1
    <3> QED BY <3>1 DEF ActivityType
  <2>4. undo \in ActivityType
    BY <2>2, <2>3, InverseType, ActivityIs, 0 \in Nat, "reversal" \in Kinds DEF Kinds
  <2>5. undo.kind = "reversal" BY DEF Activity
  <2>6. ledger' = ledger \o <<undo>> BY <2>1 DEF ReverseActivity, PersistLedger
  <2> HIDE DEF undo
  <2>7. ledger' = Append(ledger, undo) BY <1>0, <2>4, <2>6
  <2> QED BY <1>0, <2>4, <2>5, <2>7, AppendMade
<1>5. CASE Correct
  <2>1. PICK i \in DOMAIN ledger, kind \in Kinds \ {"reversal"} :
          \E legs \in LegsOf(kind), at \in 0 .. now : CorrectActivity(i, kind, legs, at)
    BY <1>5 DEF Correct
  <2>2. PICK legs \in LegsOf(kind), at \in 0 .. now : CorrectActivity(i, kind, legs, at)
    BY <2>1
  <2> DEFINE undo == Activity("reversal", ledger[i].at, InverseLegs(ledger[i].legs), i, 0)
             redo == Activity(kind, at, legs, 0, i)
  <2>3. at \in Times /\ i \in Nat BY <1>0, <2>1, <2>2, LedgerConstants DEF Times
  <2>4. ledger[i].legs \in Seq(LegType) /\ ledger[i].at \in Times
    <3>1. ledger[i] \in ActivityType BY <1>0, <2>1
    <3> QED BY <3>1 DEF ActivityType
  <2>5. undo \in ActivityType
    BY <2>3, <2>4, InverseType, ActivityIs, 0 \in Nat, "reversal" \in Kinds DEF Kinds
  <2>6. redo \in ActivityType BY <2>3, CommandLegs, ActivityIs, 0 \in Nat
  <2>7. undo.kind = "reversal" /\ redo.kind = kind /\ redo.legs = legs BY DEF Activity
  <2>8. Made(redo.kind, redo.legs) BY <2>7, CommandsMake
  <2>9. ledger' = ledger \o <<undo, redo>> BY <2>2 DEF CorrectActivity, PersistLedger
  <2> HIDE DEF undo, redo
  <2>10. ledger' = Append(Append(ledger, undo), redo) BY <1>0, <2>5, <2>6, <2>9, AppendTwice
  <2>11. Constructed(Append(ledger, undo)) /\ Append(ledger, undo) \in Seq(ActivityType)
    BY <1>0, <2>5, <2>7, AppendMade
  <2> QED BY <2>6, <2>8, <2>10, <2>11, AppendMade
<1>6. ASSUME NEW e \in Endpoints, CreateAtZero(e) PROVE ledger' = ledger BY <1>6 DEF CreateAtZero
<1>7. ASSUME NEW x \in Archivable, Archive(x) PROVE ledger' = ledger BY <1>7 DEF Archive
<1> QED BY <1>1, <1>3, <1>4, <1>5, <1>6, <1>7 DEF Next, RebuildSnapshots, Tick, vars

\* What the reads of an Activity rest on.
LegsInv == ReadTypes /\ Constructed(ledger)

LEMMA LegsInvInit == QueriesInit => LegsInv
<1> SUFFICES ASSUME QueriesInit PROVE LegsInv OBVIOUS
<1>1. TypeOK /\ states = <<>> BY InitType DEF QueriesInit
<1>2. ChainsWellFormed /\ Constructed(ledger)
  BY DEF QueriesInit, Init, ChainsWellFormed, Constructed
<1> QED BY <1>1, <1>2 DEF LegsInv, ReadTypes

LEMMA LegsInvStep == LegsInv /\ [QueriesNext]_queryVars => LegsInv'
<1> SUFFICES ASSUME LegsInv, [QueriesNext]_queryVars PROVE LegsInv' OBVIOUS
<1>1. ReadTypes' BY ReadsStep DEF LegsInv
<1>2. [Next]_vars
  BY DEF QueriesNext, Command, Meanwhile, Next, ArchiveAccount, queryVars, vars
<1>3. Constructed(ledger)' BY <1>2, NextConstructs DEF LegsInv, ReadTypes
<1> QED BY <1>1, <1>3 DEF LegsInv

-----------------------------------------------------------------------------
(* What the page says of an Activity.                                        *)

\* Every Activity, a Reversal too, has a first leg.
LEMMA SomeLegs ==
  ASSUME LegsInv, NEW i \in DOMAIN ledger
  PROVE  /\ ledger[i] \in ActivityType /\ ledger[i].legs \in Seq(LegType)
         /\ Len(ledger[i].legs) >= 1
         /\ ledger[i].kind = "reversal" => /\ ledger[i].reverses \in DOMAIN ledger
                                           /\ ledger[ledger[i].reverses].kind # "reversal"
<1>1. ledger \in Seq(ActivityType) BY TypeParts DEF LegsInv, ReadTypes
<1>2. \A j \in DOMAIN ledger : ledger[j] \in ActivityType /\ ledger[j].legs \in Seq(LegType)
  <2>1. \A j \in DOMAIN ledger : ledger[j] \in ActivityType BY <1>1
  <2> QED BY <2>1 DEF ActivityType
<1>3. CASE ledger[i].kind # "reversal"
  BY <1>2, <1>3 DEF LegsInv, Constructed, Made
<1>4. CASE ledger[i].kind = "reversal"
  <2> DEFINE r == ledger[i].reverses
  <2>1. r # 0 /\ r < i /\ ledger[r].kind # "reversal"
        /\ ledger[i].legs = InverseLegs(ledger[r].legs)
    BY <1>4 DEF LegsInv, ReadTypes, ChainsWellFormed
  <2>2. r \in Nat BY <1>2 DEF ActivityType
  <2>3. r \in DOMAIN ledger BY <1>1, <2>1, <2>2
  <2>4. Len(ledger[r].legs) >= 1 /\ ledger[r].legs \in Seq(LegType)
    BY <1>2, <2>1, <2>3 DEF LegsInv, Constructed, Made
  <2> HIDE DEF r
  <2>5. DOMAIN ledger[i].legs = DOMAIN ledger[r].legs BY <2>1 DEF InverseLegs
  <2>6. Len(ledger[i].legs) = Len(ledger[r].legs) BY <1>2, <2>4, <2>5
  <2> QED BY <1>2, <1>4, <2>1, <2>3, <2>4, <2>6 DEF r
<1> QED BY <1>3, <1>4

LEMMA HeaderIsFirst == ASSUME LegsInv, NEW i \in DOMAIN ledger PROVE HeaderLeg(i) = 1
<1> DEFINE kind == ledger[i].kind
           principal == {k \in DOMAIN ledger[i].legs :
                      ~(kind \in Paired /\ Role(i, k) = "fee")}
<1>1. DOMAIN ledger[i].legs = 1 .. Len(ledger[i].legs) /\ Len(ledger[i].legs) \in Nat
      /\ Len(ledger[i].legs) >= 1
  BY SomeLegs
<1>2. 1 \in principal
  <2>1. kind \in Paired => Role(i, 1) # "fee" BY DEF Role, Roles, Paired
  <2> QED BY <1>1, <2>1
<1>3. \A k \in principal : k \in Nat /\ 1 <= k BY <1>1
<1> HIDE DEF principal
<1>4. Min(principal) = 1 BY <1>2, <1>3 DEF Min
<1> QED BY <1>2, <1>4 DEF HeaderLeg, principal

\* The two tables agree on the first leg of every kind of Activity.
LEMMA TablesAgree ==
  ASSUME LegsInv, NEW i \in DOMAIN ledger
  PROVE  ClassInSql(ledger[i].kind, Role(i, 1)) = Classify(ledger[i].kind, Role(i, 1))
<1>1. ledger[i].kind \in Kinds BY SomeLegs DEF ActivityType
<1>2. CASE ledger[i].kind # "reversal"
  <2> DEFINE kind == ledger[i].kind
             role == Role(i, 1)
  <2>1. role = Roles(kind)[1] BY <1>2 DEF Role
  <2>2. kind \in Kinds \ {"reversal"} BY <1>1, <1>2
  <2> HIDE DEF kind, role
  <2>3. kind \in Remeasurements => ClassInSql(kind, role) = Classify(kind, role)
    BY <2>1 DEF Roles, ClassInSql, Classify, Paired, Remeasurements
  <2>4. kind \in {"deposit", "withdrawal", "income", "fee", "transfer"} =>
          ClassInSql(kind, role) = Classify(kind, role)
    BY <2>1 DEF Roles, ClassInSql, Classify, Paired, Remeasurements
  <2>5. kind \in {"buy", "sell"} => ClassInSql(kind, role) = Classify(kind, role)
    BY <2>1 DEF Roles, ClassInSql, Classify, Paired, Remeasurements
  <2>6. kind \in {"debt_draw", "debt_payment"} => ClassInSql(kind, role) = Classify(kind, role)
    BY <2>1 DEF Roles, ClassInSql, Classify, Paired, Remeasurements
  <2>7. ClassInSql(kind, role) = Classify(kind, role)
    BY <2>2, <2>3, <2>4, <2>5, <2>6 DEF Kinds, Remeasurements
  <2> QED BY <2>7 DEF kind, role
<1>3. CASE ledger[i].kind = "reversal"
  <2> DEFINE source == ledger[ledger[i].reverses].kind
             role == Roles(source)[1]
  <2>1. source \in Kinds \ {"reversal"}
    <3>1. ledger[i].reverses \in DOMAIN ledger /\ source # "reversal" BY <1>3, SomeLegs
    <3> QED BY <3>1, SomeLegs DEF ActivityType
  <2>2. Role(i, 1) = role BY <1>3 DEF Role
  <2> HIDE DEF source
  <2>3. role \in {"destination", "source", "income", "fee", "holding", "liability", "adjustment"}
    BY <2>1 DEF Roles, Kinds
  <2> HIDE DEF role
  <2>4. ClassInSql("reversal", role) = InverseClass(role)
    BY <2>3 DEF ClassInSql, InverseClass, Paired, Remeasurements
  <2>5. Classify("reversal", role) = InverseClass(role) BY <2>3 DEF Classify, Paired, Remeasurements, InverseClass
  <2> QED BY <1>3, <2>2, <2>4, <2>5
<1> QED BY <1>2, <1>3

LEMMA HeaderIsFound ==
  ASSUME LegsInv, NEW i \in DOMAIN ledger
  PROVE  Passes(i, [from |-> 0, to |-> Day(Horizon), kind |-> Unset,
                    account |-> Unset, class |-> HeaderClass(i)])
<1>1. 0 <= Day(ledger[i].at) /\ Day(ledger[i].at) <= Day(Horizon)
  <2>1. ledger[i].at \in Times BY SomeLegs DEF ActivityType
  <2>2. ledger[i].at \in Int /\ Horizon \in Int /\ ledger[i].at <= Horizon
    BY <2>1, LedgerConstants DEF Times
  <2>3. Day(ledger[i].at) \in Times BY <2>1, DayRange
  <2> QED BY <2>2, <2>3, DayGrows DEF Times
<1>2. 1 \in DOMAIN ledger[i].legs BY SomeLegs
<1>3. ClassInSql(ledger[i].kind, Role(i, 1)) = HeaderClass(i)
  BY HeaderIsFirst, TablesAgree DEF HeaderClass
<1> QED BY <1>1, <1>2, <1>3 DEF Passes

LEMMA OfferedIsHead ==
  ASSUME LegsInv, NEW i \in DOMAIN ledger, Offered(i) PROVE ChainHead(i)
<1>1. ledger[i].kind # "reversal" /\ ledger[i].reverses = 0
  BY DEF Offered, LegsInv, ReadTypes, ChainsWellFormed
<1>2. {j \in DOMAIN ledger : ledger[j].reverses = ChainOriginal(i)} = {}
  BY <1>1 DEF Offered, ShownReversed, Chain, CorrectionLink
<1>3. ledger \in Seq(ActivityType) BY TypeParts DEF LegsInv, ReadTypes
<1>4. ASSUME NEW j \in DOMAIN ledger, ledger[j].corrects # 0
      PROVE  \E k \in DOMAIN ledger : ledger[k].reverses = ledger[j].corrects
  <2>1. j > 1 /\ ledger[j - 1].reverses = ledger[j].corrects
    BY <1>4 DEF LegsInv, ReadTypes, ChainsWellFormed
  <2>2. j - 1 \in DOMAIN ledger BY <1>3, <2>1
  <2> QED BY <2>1, <2>2
<1>5. ledger[i].corrects = 0 BY <1>1, <1>2, <1>4 DEF ChainOriginal
<1>6. ChainOriginal(i) = i BY <1>1, <1>5 DEF ChainOriginal
<1>7. ~Reversed(i) BY <1>2, <1>6 DEF Reversed
<1>8. ~Corrected(i)
  <2>1. i # 0 BY <1>3
  <2> QED BY <1>4, <1>7, <2>1 DEF Corrected, Reversed
<1> QED BY <1>1, <1>7, <1>8 DEF ChainHead

\* For any ledger, an Activity is found under the classification its header shows, though
\* the filter has a table of its own in SQL, and what the page offers to reverse or to
\* correct the ledger accepts (application/history_query_service.rs header_classification,
\* activity_detail_from; application/history_repositories.rs list_activities_filtered).
THEOREM HeadersAreTrue == QueriesSpec => []HeaderIsTrue
<1>1. LegsInv => HeaderIsTrue
  BY HeaderIsFound, OfferedIsHead DEF HeaderIsTrue
<1> QED BY <1>1, LegsInvInit, LegsInvStep, PTL DEF QueriesSpec

-----------------------------------------------------------------------------
(* A row that is exported and read again.                                    *)

LEMMA CellIs ==
  ASSUME NEW e \in Endpoints, NEW x \in Amounts
  PROVE  /\ Cell(Leg(e, x)) = [ep |-> e, amount |-> x]
         /\ Cell(Leg(e, -x)) = [ep |-> e, amount |-> x]
         /\ Cell(Leg(e, x)) # Unset /\ Cell(Leg(e, -x)) # Unset
<1>1. x \in Nat /\ x >= 1 BY LedgerConstants
<1>2. /\ Cell(Leg(e, x)) = [ep |-> e, amount |-> x]
      /\ Cell(Leg(e, -x)) = [ep |-> e, amount |-> x]
  BY <1>1 DEF Cell, Leg, Size
<1>3. [ep |-> e, amount |-> x] # Unset
  <2>1. [ep |-> e, amount |-> x] \in [ep : Endpoints, amount : Nat] BY <1>1
  <2> QED BY <2>1, ExportConstants
<1> QED BY <1>2, <1>3

LEMMA FindAt ==
  ASSUME NEW i, NEW roles, NEW k \in DOMAIN ledger[i].legs, k \in Nat, Role(i, k) \in roles,
         \A m \in DOMAIN ledger[i].legs : m # k => Role(i, m) \notin roles
  PROVE  Find(i, roles) = Cell(ledger[i].legs[k])
<1> DEFINE found == {m \in DOMAIN ledger[i].legs : Role(i, m) \in roles}
<1>1. found = {k} OBVIOUS
<1>2. Min({k}) = k BY DEF Min
<1> QED BY <1>1, <1>2 DEF Find

LEMMA FindNone ==
  ASSUME NEW i, NEW roles, \A m \in DOMAIN ledger[i].legs : Role(i, m) \notin roles
  PROVE  Find(i, roles) = Unset
BY DEF Find

LEMMA RowIs ==
  ASSUME LegsInv, NEW i \in Exported
  PROVE  LET kind == ledger[i].kind
             legs == ledger[i].legs
         IN  /\ kind # "reversal" /\ Shape(kind, legs)
             /\ \A k : Role(i, k) = Roles(kind)[k]
             /\ legs \in Seq(LegType)
<1>1. i \in DOMAIN ledger /\ ledger[i].kind # "reversal" BY DEF Exported
<1> QED BY <1>1, SomeLegs DEF LegsInv, Constructed, Made, Role

LEMMA OneLegReturns ==
  ASSUME LegsInv, NEW i \in Exported,
         ledger[i].kind \in {"deposit", "income", "withdrawal", "fee"}
  PROVE  Imported(Row(i)) = ledger[i].legs
<1> DEFINE kind == ledger[i].kind
           legs == ledger[i].legs
<1>1. Row(i) = [kind |-> kind, of |-> Cell(legs[1])] BY DEF Row, OneLegged
<1>2. CASE kind \in {"deposit", "income"}
  <2>1. PICK e \in Endpoints, x \in Amounts : legs = <<Leg(e, x)>> BY <1>2, RowIs DEF Shape
  <2>2. legs[1] = Leg(e, x) BY <2>1
  <2>3. Cell(legs[1]) = [ep |-> e, amount |-> x] BY <2>2, CellIs
  <2>4. Row(i).of = [ep |-> e, amount |-> x] /\ Row(i).kind = kind BY <1>1, <2>3
  <2>5. Imported(Row(i)) = <<Leg(e, x)>> BY <1>2, <2>4 DEF Imported, Remeasurements
  <2> QED BY <2>1, <2>5
<1>3. CASE kind \in {"withdrawal", "fee"}
  <2>1. PICK e \in Endpoints, x \in Amounts : legs = <<Leg(e, -x)>> BY <1>3, RowIs DEF Shape
  <2>2. legs[1] = Leg(e, -x) BY <2>1
  <2>3. Cell(legs[1]) = [ep |-> e, amount |-> x] BY <2>2, CellIs
  <2>4. Row(i).of = [ep |-> e, amount |-> x] /\ Row(i).kind = kind BY <1>1, <2>3
  <2>5. Imported(Row(i)) = <<Leg(e, -x)>> BY <1>3, <2>4 DEF Imported, Remeasurements
  <2> QED BY <2>1, <2>5
<1> QED BY <1>2, <1>3

LEMMA LegsAre ==
  ASSUME NEW e \in Endpoints, NEW x \in Amounts
  PROVE  Leg(e, x) \in LegType /\ Leg(e, -x) \in LegType
<1>1. x \in Int /\ -x \in Int BY LedgerConstants
<1> QED BY <1>1, LegIs

LEMMA TransferReturns ==
  ASSUME LegsInv, NEW i \in Exported, ledger[i].kind = "transfer",
         \A k \in DOMAIN ledger[i].legs : ledger[i].legs[k].ep \notin Holdings
  PROVE  Imported(Row(i)) = ledger[i].legs
<1> DEFINE legs == ledger[i].legs
           row == Row(i)
<1>0. legs[1].ep \notin Holdings
  <2>1. 1 \in DOMAIN legs BY SomeLegs DEF Exported
  <2> QED BY <2>1
<1>1. PICK d \in Endpoints, e \in Endpoints, x \in Amounts, y \in Amounts :
        \/ legs = <<Leg(d, -x), Leg(e, y)>>
        \/ \E f \in Amounts : legs = <<Leg(d, -x), Leg(e, y), Leg(d, -f)>>
  BY <1>0, RowIs DEF Shape
<1>2. \A k : Role(i, k) = <<"source", "destination", "fee">>[k] BY RowIs DEF Roles
<1>3. row = [kind |-> "transfer", from |-> Find(i, {"source"}), to |-> Find(i, {"destination"}),
             toHolding |-> Unset, fee |-> Find(i, {"fee"})]
  BY DEF Row, OneLegged
<1>4. legs[1] = Leg(d, -x) /\ legs[2] = Leg(e, y) /\ {1, 2} \subseteq DOMAIN legs BY <1>1
<1>5. DOMAIN legs \subseteq {1, 2, 3} BY <1>1
<1>6. Find(i, {"source"}) = Cell(legs[1]) /\ Find(i, {"destination"}) = Cell(legs[2])
  <2>1. /\ 1 \in DOMAIN legs /\ Role(i, 1) \in {"source"}
        /\ \A m \in DOMAIN legs : m # 1 => Role(i, m) \notin {"source"}
    BY <1>2, <1>4, <1>5
  <2>2. /\ 2 \in DOMAIN legs /\ Role(i, 2) \in {"destination"}
        /\ \A m \in DOMAIN legs : m # 2 => Role(i, m) \notin {"destination"}
    BY <1>2, <1>4, <1>5
  <2> QED BY <2>1, <2>2, FindAt
<1>7. row.from = [ep |-> d, amount |-> x] /\ row.to = [ep |-> e, amount |-> y]
      /\ row.kind = "transfer" /\ row.fee = Find(i, {"fee"})
  BY <1>3, <1>4, <1>6, CellIs
<1>8. d \notin Holdings BY <1>0, <1>4 DEF Leg
<1> HIDE DEF row
<1>9. Imported(row) = <<Leg(d, -x), Leg(e, y)>> \o FeeLegs(row, d)
  BY <1>7, <1>8 DEF Imported, TransferOf, Remeasurements
<1>10. Leg(d, -x) \in LegType /\ Leg(e, y) \in LegType BY LegsAre
<1>11. CASE legs = <<Leg(d, -x), Leg(e, y)>>
  <2>1. \A m \in DOMAIN legs : Role(i, m) \notin {"fee"} BY <1>2, <1>11
  <2>2. row.fee = Unset BY <1>7, <2>1, FindNone
  <2> QED BY <1>9, <1>10, <1>11, <2>2, FeeJoins DEF FeeLegs, row
<1>12. CASE \E f \in Amounts : legs = <<Leg(d, -x), Leg(e, y), Leg(d, -f)>>
  <2>1. PICK f \in Amounts : legs = <<Leg(d, -x), Leg(e, y), Leg(d, -f)>> BY <1>12
  <2>2. /\ 3 \in DOMAIN legs /\ Role(i, 3) \in {"fee"} /\ legs[3] = Leg(d, -f)
        /\ \A m \in DOMAIN legs : m # 3 => Role(i, m) \notin {"fee"}
    BY <1>2, <2>1
  <2>3. row.fee = Cell(Leg(d, -f)) BY <1>7, <2>2, FindAt
  <2>4. row.fee = [ep |-> d, amount |-> f] /\ row.fee # Unset BY <2>3, CellIs
  <2>5. FeeLegs(row, d) = <<Leg(d, -f)>> BY <2>4 DEF FeeLegs
  <2>6. Leg(d, -f) \in LegType BY LegsAre
  <2> QED BY <1>9, <1>10, <2>1, <2>5, <2>6, FeeJoins DEF row
<1> QED BY <1>1, <1>11, <1>12

LEMMA DrawReturns ==
  ASSUME LegsInv, NEW i \in Exported, ledger[i].kind = "debt_draw"
  PROVE  Imported(Row(i)) = ledger[i].legs
<1> DEFINE legs == ledger[i].legs
           row == Row(i)
<1>2. \A k : Role(i, k) = <<"liability", "destination">>[k] BY RowIs DEF Roles
<1>3. row = [kind |-> "debt_draw", of |-> Find(i, {"liability"}),
             cash |-> Find(i, {"destination", "source"}), fee |-> Find(i, {"fee"})]
  BY DEF Row, OneLegged, CashCell
<1>4. CASE \E e \in Endpoints, x \in Amounts : legs = <<Leg(e, x)>>
  <2>1. PICK e \in Endpoints, x \in Amounts : legs = <<Leg(e, x)>> BY <1>4
  <2>2. /\ 1 \in DOMAIN legs /\ Role(i, 1) \in {"liability"} /\ legs[1] = Leg(e, x)
        /\ \A m \in DOMAIN legs : m # 1 => Role(i, m) \notin {"liability"}
        /\ \A m \in DOMAIN legs : Role(i, m) \notin {"destination", "source"}
    BY <1>2, <2>1
  <2>3. row.of = Cell(Leg(e, x)) /\ row.cash = Unset /\ row.kind = "debt_draw"
    BY <1>3, <2>2, FindAt, FindNone
  <2> HIDE DEF row
  <2>4. row.of = [ep |-> e, amount |-> x] BY <2>3, CellIs
  <2> QED BY <2>1, <2>3, <2>4 DEF Imported, DebtDrawOf, Remeasurements, row
<1>5. CASE \E d \in Endpoints, e \in Endpoints, x \in Amounts, y \in Amounts :
             legs = <<Leg(d, x), Leg(e, y)>>
  <2>1. PICK d \in Endpoints, e \in Endpoints, x \in Amounts, y \in Amounts :
          legs = <<Leg(d, x), Leg(e, y)>>
    BY <1>5
  <2>2. /\ 1 \in DOMAIN legs /\ Role(i, 1) \in {"liability"} /\ legs[1] = Leg(d, x)
        /\ \A m \in DOMAIN legs : m # 1 => Role(i, m) \notin {"liability"}
        /\ 2 \in DOMAIN legs /\ Role(i, 2) \in {"destination", "source"} /\ legs[2] = Leg(e, y)
        /\ \A m \in DOMAIN legs : m # 2 => Role(i, m) \notin {"destination", "source"}
    BY <1>2, <2>1
  <2>3. row.of = Cell(Leg(d, x)) /\ row.cash = Cell(Leg(e, y)) /\ row.kind = "debt_draw"
    BY <1>3, <2>2, FindAt
  <2> HIDE DEF row
  <2>4. row.of = [ep |-> d, amount |-> x] /\ row.cash = [ep |-> e, amount |-> y] /\ row.cash # Unset
    BY <2>3, CellIs
  <2> QED BY <2>1, <2>3, <2>4 DEF Imported, DebtDrawOf, Remeasurements, row
<1> QED BY <1>4, <1>5, RowIs DEF Shape

LEMMA PaymentReturns ==
  ASSUME LegsInv, NEW i \in Exported, ledger[i].kind = "debt_payment", FeeFits(Row(i))
  PROVE  Imported(Row(i)) = ledger[i].legs
<1> DEFINE legs == ledger[i].legs
           row == Row(i)
<1>1. PICK d \in Endpoints, e \in Endpoints, x \in Amounts, y \in Amounts :
        \/ legs = <<Leg(d, -x), Leg(e, -y)>>
        \/ \E f \in Amounts : legs = <<Leg(d, -x), Leg(e, -y), Leg(e, -f)>>
  BY RowIs DEF Shape
<1>2. \A k : Role(i, k) = <<"liability", "source", "fee">>[k] BY RowIs DEF Roles
<1>3. row = [kind |-> "debt_payment", of |-> Find(i, {"liability"}),
             cash |-> Find(i, {"destination", "source"}), fee |-> Find(i, {"fee"})]
  BY DEF Row, OneLegged, CashCell
<1>4. legs[1] = Leg(d, -x) /\ legs[2] = Leg(e, -y) /\ {1, 2} \subseteq DOMAIN legs BY <1>1
<1>5. DOMAIN legs \subseteq {1, 2, 3} BY <1>1
<1>6. Find(i, {"liability"}) = Cell(legs[1]) /\ Find(i, {"destination", "source"}) = Cell(legs[2])
  <2>1. /\ 1 \in DOMAIN legs /\ Role(i, 1) \in {"liability"}
        /\ \A m \in DOMAIN legs : m # 1 => Role(i, m) \notin {"liability"}
    BY <1>2, <1>4, <1>5
  <2>2. /\ 2 \in DOMAIN legs /\ Role(i, 2) \in {"destination", "source"}
        /\ \A m \in DOMAIN legs : m # 2 => Role(i, m) \notin {"destination", "source"}
    BY <1>2, <1>4, <1>5
  <2> QED BY <2>1, <2>2, FindAt
<1>7. row.of = [ep |-> d, amount |-> x] /\ row.cash = [ep |-> e, amount |-> y] /\ row.cash # Unset
      /\ row.kind = "debt_payment" /\ row.fee = Find(i, {"fee"}) /\ FeeFits(row)
  BY <1>3, <1>4, <1>6, CellIs
<1> HIDE DEF row
<1>9. Imported(row) = <<Leg(d, -x), Leg(e, -y)>> \o FeeLegs(row, e)
  BY <1>7 DEF Imported, DebtPaymentOf, Remeasurements
<1>10. Leg(d, -x) \in LegType /\ Leg(e, -y) \in LegType BY LegsAre
<1>11. CASE legs = <<Leg(d, -x), Leg(e, -y)>>
  <2>1. \A m \in DOMAIN legs : Role(i, m) \notin {"fee"} BY <1>2, <1>11
  <2>2. row.fee = Unset BY <1>7, <2>1, FindNone
  <2> QED BY <1>9, <1>10, <1>11, <2>2, FeeJoins DEF FeeLegs, row
<1>12. CASE \E f \in Amounts : legs = <<Leg(d, -x), Leg(e, -y), Leg(e, -f)>>
  <2>1. PICK f \in Amounts : legs = <<Leg(d, -x), Leg(e, -y), Leg(e, -f)>> BY <1>12
  <2>2. /\ 3 \in DOMAIN legs /\ Role(i, 3) \in {"fee"} /\ legs[3] = Leg(e, -f)
        /\ \A m \in DOMAIN legs : m # 3 => Role(i, m) \notin {"fee"}
    BY <1>2, <2>1
  <2>3. row.fee = Cell(Leg(e, -f)) BY <1>7, <2>2, FindAt
  <2>4. row.fee = [ep |-> e, amount |-> f] /\ row.fee # Unset BY <2>3, CellIs
  <2>5. FeeLegs(row, e) = <<Leg(e, -f)>> BY <2>4 DEF FeeLegs
  <2>6. Leg(e, -f) \in LegType BY LegsAre
  <2> QED BY <1>9, <1>10, <2>1, <2>5, <2>6, FeeJoins DEF row
<1> QED BY <1>1, <1>11, <1>12

LEMMA RowsReturn == ASSUME LegsInv PROVE ExportRoundTrips
<1> SUFFICES ASSUME NEW i \in Exported, ledger[i].kind \in MoneyKinds,
                    \A k \in DOMAIN ledger[i].legs : ledger[i].legs[k].ep \notin Holdings,
                    ledger[i].kind = "debt_payment" => FeeFits(Row(i))
             PROVE  Imported(Row(i)) = ledger[i].legs
  BY DEF ExportRoundTrips
<1> QED BY OneLegReturns, TransferReturns, DrawReturns, PaymentReturns DEF MoneyKinds

\* An exported row of a money Activity, read as an import reads it, gives the legs of the
\* Activity it was written from, where its fee is in the currency an import takes it in
\* (application/export_service.rs activity_csv_record, post_command_from_input of
\* application/history_query_service.rs).
THEOREM RowsRoundTrip == ExportSpec => []ExportRoundTrips
<1>1. [ExportNext]_<<queryVars, exportVars>> => [QueriesNext]_queryVars BY DEF ExportNext
<1> QED BY <1>1, LegsInvInit, LegsInvStep, RowsReturn, PTL DEF ExportSpec
=============================================================================
