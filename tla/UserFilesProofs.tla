--------------------------- MODULE UserFilesProofs ---------------------------
(***************************************************************************)
(* Proofs about the files a user gives to the application.                   *)
(*                                                                         *)
(*   CsvImport     for any files, tokens, identities and bounds: types, that *)
(*                 an item leads to the fact it stands for, that an identity *)
(*                 is imported once, and that what is imported was previewed *)
(*   BackupBundle  what replaces the live database is what the user was      *)
(*                 shown, for every archive at the path and every            *)
(*                 interleaving                                              *)
(***************************************************************************)
EXTENDS CsvImport, BackupBundle, SumTheorems

-----------------------------------------------------------------------------
(* The first saved item of an identity.                                      *)

LEMMA MinOfNat ==
  ASSUME NEW S \in SUBSET Nat, S # {}
  PROVE  Min(S) \in S /\ \A n \in S : Min(S) <= n
<1>1. PICK m \in S : \A n \in S : ~(<<n, m>> \in Less)
  BY LessWellFounded, WFMin, Zenon
<1>2. ASSUME NEW n \in S PROVE m <= n
  <2>1. <<n, m>> \notin Less BY <1>1
  <2>2. n \in Nat /\ m \in Nat OBVIOUS
  <2> QED BY <2>1, <2>2 DEF Less
<1> QED BY <1>2 DEF Min

LEMMA KnownItem ==
  ASSUME items \in Seq(ImportItems), NEW id
  PROVE  /\ \A r \in Known(id) : \E k \in DOMAIN items : r = items[k] /\ items[k].id = id
         /\ Known(id) = {} => \A k \in DOMAIN items : items[k].id # id
<1> DEFINE mine == {k \in DOMAIN items : items[k].id = id}
<1>1. Known(id) = IF mine = {} THEN {} ELSE {items[Min(mine)]} BY DEF Known
<1>2. mine \in SUBSET Nat OBVIOUS
<1>3. mine # {} => Min(mine) \in mine BY <1>2, MinOfNat
<1> QED BY <1>1, <1>3

-----------------------------------------------------------------------------
(* What holds of a transaction while it applies its rows.                    *)

\* Every identity that is going to be saved is remembered for the rows to come.
Remembered(w) ==
  \A k \in DOMAIN w.planned : w.planned[k].id # None =>
    \E r \in w.seen : /\ r.id = w.planned[k].id /\ r.print = w.planned[k].print
                      /\ r.target = w.planned[k].target

\* No identity is remembered with two contents, or other than as it was saved.
Agreeing(w) ==
  /\ \A r, s \in w.seen : r.id = s.id => r.print = s.print /\ r.target = s.target
  /\ \A r \in w.seen, k \in DOMAIN items : items[k].id = r.id =>
       items[k].print = r.print /\ items[k].target = r.target

\* A fact is appended only under an identity nobody has had.
Fresh(w) ==
  \A j \in DOMAIN w.planned : w.planned[j].outcome = "committed" /\ w.planned[j].id # None =>
    /\ \A k \in DOMAIN items : items[k].id # w.planned[j].id
    /\ \A i \in DOMAIN w.planned : i # j /\ w.planned[i].id = w.planned[j].id =>
         w.planned[i].outcome # "committed"

\* Facts are only added, and what is remembered or planned leads to one of them.
Leading(w) ==
  /\ Len(facts) <= Len(w.facts) /\ \A n \in DOMAIN facts : w.facts[n] = facts[n]
  /\ \A r \in w.seen : r.target \in DOMAIN w.facts /\ w.facts[r.target] = r.print.fact
  /\ \A k \in DOMAIN w.planned :
       w.planned[k].target \in DOMAIN w.facts
       /\ w.facts[w.planned[k].target] = w.planned[k].print.fact

Sound(w) ==
  /\ w.content = w.stored.content
  /\ Remembered(w) /\ Agreeing(w) /\ Fresh(w) /\ Leading(w)

Applying(w) ==
  w \in [phase : {"applying"}, stored : Previews, content : Files,
         left : SUBSET (Nat \X CsvRows),
         seen : SUBSET [id : Identities, print : Prints, target : Nat],
         facts : Seq(CsvFacts), amount : [Accounts -> 0 .. MaxAmount],
         planned : Seq(ImportItems), failed : BOOLEAN]

InFlight == tx.phase = "applying" => Sound(tx)

IInv == TypeOK /\ ImportedOnce /\ Provenance /\ InFlight

LEMMA ApplyingTx == ASSUME TypeOK, tx.phase = "applying" PROVE Applying(tx)
BY DEF TypeOK, Transactions, NoTx, Applying

LEMMA InitIInv == Init => IInv
<1> SUFFICES ASSUME Init PROVE IInv OBVIOUS
<1> USE ImportConstants
<1>1. TypeOK
  <2>1. tx \in Transactions BY DEF Init, Transactions
  <2>2. amount \in [Accounts -> 0 .. MaxAmount] BY DEF Init
  <2> QED BY <2>1, <2>2 DEF Init, TypeOK, Days, Previews
<1>2. ImportedOnce BY DEF Init, ImportedOnce
<1>3. Provenance BY DEF Init, Provenance
<1>4. InFlight BY DEF Init, InFlight, NoTx
<1> QED BY <1>1, <1>2, <1>3, <1>4 DEF IInv

-----------------------------------------------------------------------------
(* A row: it is refused, recognised, or appended.                            *)

RecognisedAs(w, numbered, r) ==
  /\ numbered[2].id \notin {None, Half} /\ r \in Prior(numbered[2].id, w.seen)
  /\ \A s \in Prior(numbered[2].id, w.seen) : s.print = Fingerprint(numbered[2])

Unheard(w, numbered) ==
  /\ Parses(numbered[2]) /\ CheckReference(numbered[2]) /\ Appends(numbered[2], w.amount)
  /\ numbered[2].id # None =>
       numbered[2].id # Half /\ Prior(numbered[2].id, w.seen) = {}

LEMMA RowOutcome ==
  ASSUME NEW w, NEW numbered
  PROVE  \/ AfterRow(w, numbered) = Rejected(w, numbered)
         \/ \E r \in Prior(numbered[2].id, w.seen) :
              /\ RecognisedAs(w, numbered, r)
              /\ AfterRow(w, numbered) = Duplicate(w, numbered, r.target)
         \/ /\ Unheard(w, numbered)
            /\ AfterRow(w, numbered) = Committed(w, numbered)
<1> DEFINE row == numbered[2]
           prior == Prior(row.id, w.seen)
           action == ResolveIdentity(row, w.seen)
           match == \A r \in prior : r.print = Fingerprint(row)
<1> HIDE DEF row, prior, match
<1>1. CASE ~(Parses(row) /\ CheckReference(row)) BY <1>1 DEF AfterRow, row
<1>2. CASE Parses(row) /\ CheckReference(row)
  <2>1. CASE row.id \in {None, Half}
    <3>1. action # "duplicate" /\ (action = "accept" => row.id = None)
      BY <2>1 DEF ResolveIdentity
    <3>2. AfterRow(w, numbered) = IF action = "accept" /\ Appends(row, w.amount)
                                  THEN Committed(w, numbered) ELSE Rejected(w, numbered)
      BY <1>2, <3>1 DEF AfterRow, RowState, row
    <3> QED BY <1>2, <3>1, <3>2 DEF Unheard, row
  <2>2. CASE row.id \notin {None, Half}
    <3>1. action = IF prior = {} THEN "accept" ELSE IF match THEN "duplicate" ELSE "conflict"
      BY <2>2 DEF ResolveIdentity, prior, match
    <3>2. CASE prior = {}
      <4>1. AfterRow(w, numbered) = IF Appends(row, w.amount)
                                    THEN Committed(w, numbered) ELSE Rejected(w, numbered)
        BY <1>2, <3>1, <3>2 DEF AfterRow, RowState, row
      <4> QED BY <1>2, <2>2, <3>2, <4>1 DEF Unheard, row, prior
    <3>3. CASE prior # {} /\ match
      <4>1. AfterRow(w, numbered) = Duplicate(w, numbered, (CHOOSE r \in prior : TRUE).target)
        BY <1>2, <3>1, <3>3 DEF AfterRow, row, prior
      <4>2. (CHOOSE r \in prior : TRUE) \in prior BY <3>3
      <4> QED BY <2>2, <3>3, <4>1, <4>2 DEF RecognisedAs, match, row, prior
    <3>4. CASE prior # {} /\ ~match BY <1>2, <3>1, <3>4 DEF AfterRow, row
    <3> QED BY <3>2, <3>3, <3>4
  <2> QED BY <2>1, <2>2
<1> QED BY <1>1, <1>2

LEMMA RejectedSound ==
  ASSUME TypeOK, NEW w, Applying(w), Sound(w), NEW numbered \in w.left
  PROVE  LET v == Rejected(w, numbered) IN Applying(v) /\ Sound(v)
<1> DEFINE v == Rejected(w, numbered)
<1>1. /\ v.stored = w.stored /\ v.content = w.content /\ v.seen = w.seen /\ v.facts = w.facts
      /\ v.planned = w.planned
  BY DEF Rejected, Applying
<1>2. Applying(v) BY DEF Rejected, Applying
<1>3. Sound(v) BY <1>1 DEF Sound, Remembered, Agreeing, Fresh, Leading
<1> QED BY <1>2, <1>3

\* What bears an identity is a remembered row, or a saved item when no row does.
LEMMA PriorIs ==
  ASSUME TypeOK, NEW w, Applying(w), NEW id, NEW r \in Prior(id, w.seen)
  PROVE  \/ r \in w.seen /\ r.id = id
         \/ /\ \A s \in w.seen : s.id # id
            /\ \E k \in DOMAIN items : r = items[k] /\ items[k].id = id
<1>1. items \in Seq(ImportItems) BY DEF TypeOK
<1> QED BY <1>1, KnownItem DEF Prior

LEMMA DuplicateSound ==
  ASSUME IInv, NEW w, Applying(w), Sound(w), NEW numbered \in w.left,
         NEW r \in Prior(numbered[2].id, w.seen), RecognisedAs(w, numbered, r),
         \A n \in DOMAIN facts : w.facts[n] = facts[n]
  PROVE  LET v == Duplicate(w, numbered, r.target) IN Applying(v) /\ Sound(v)
<1> USE ImportConstants
<1> DEFINE row == numbered[2]
           v == Duplicate(w, numbered, r.target)
           record == [id |-> row.id, print |-> r.print, target |-> r.target]
           item == [row |-> numbered[1], id |-> row.id, print |-> r.print,
                    outcome |-> "exact_duplicate", target |-> r.target]
<1>1. TypeOK /\ ImportedOnce /\ Provenance BY DEF IInv
<1>2. r.print = Fingerprint(row) /\ row.id \notin {None, Half} BY DEF RecognisedAs
<1>3. numbered[1] \in Nat /\ row \in CsvRows /\ row.id \in Identities
  BY <1>2 DEF Applying, CsvRows
<1>4. \/ r \in w.seen /\ r.id = row.id
      \/ /\ \A s \in w.seen : s.id # row.id
         /\ \E k \in DOMAIN items : r = items[k] /\ items[k].id = row.id
  BY <1>1, PriorIs
<1>5. r.print \in Prints /\ r.target \in Nat
  <2>1. CASE r \in w.seen BY <2>1 DEF Applying
  <2>2. CASE \E k \in DOMAIN items : r = items[k]
    <3>1. items \in Seq(ImportItems) BY <1>1 DEF TypeOK
    <3>2. PICK k \in DOMAIN items : r = items[k] BY <2>2
    <3>3. r \in ImportItems BY <3>1, <3>2
    <3> QED BY <3>3 DEF ImportItems
  <2> QED BY <1>4, <2>1, <2>2
<1>6. r.target \in DOMAIN w.facts /\ w.facts[r.target] = r.print.fact
  <2>1. CASE r \in w.seen BY <2>1 DEF Sound, Leading
  <2>2. CASE \E k \in DOMAIN items : r = items[k]
    <3>1. r.target \in DOMAIN facts /\ facts[r.target] = r.print.fact
      BY <1>1, <2>2 DEF Provenance
    <3>2. facts \in Seq(CsvFacts) /\ w.facts \in Seq(CsvFacts) /\ Len(facts) <= Len(w.facts)
      BY <1>1 DEF TypeOK, Applying, Sound, Leading
    <3> QED BY <3>1, <3>2
  <2> QED BY <1>4, <2>1, <2>2
<1>7. v = [w EXCEPT !.left = @ \ {numbered}, !.seen = @ \cup {record},
                    !.planned = Append(@, item)]
  BY <1>2 DEF Duplicate, Seen, Planned
<1>8. record \in [id : Identities, print : Prints, target : Nat] /\ item \in ImportItems
  BY <1>3, <1>5 DEF ImportItems
<1> HIDE DEF record, item, v, row
<1>9. Applying(v)
  <2>1. w.seen \cup {record} \in SUBSET [id : Identities, print : Prints, target : Nat]
    BY <1>8 DEF Applying
  <2>2. Append(w.planned, item) \in Seq(ImportItems) BY <1>8 DEF Applying
  <2> QED BY <1>7, <2>1, <2>2 DEF Applying
<1>10. /\ v.stored = w.stored /\ v.content = w.content /\ v.seen = w.seen \cup {record}
       /\ v.facts = w.facts /\ v.planned = Append(w.planned, item)
  BY <1>7 DEF Applying
<1>11. /\ record.id = row.id /\ record.print = r.print /\ record.target = r.target
       /\ item.id = row.id /\ item.print = r.print /\ item.target = r.target
       /\ item.outcome # "committed"
  BY DEF record, item
<1>12. w.planned \in Seq(ImportItems) BY DEF Applying
<1>13. Remembered(v)
  <2> SUFFICES ASSUME NEW k \in DOMAIN v.planned, v.planned[k].id # None
               PROVE  \E s \in v.seen : /\ s.id = v.planned[k].id /\ s.print = v.planned[k].print
                                        /\ s.target = v.planned[k].target
    BY DEF Remembered
  <2>1. CASE k = Len(w.planned) + 1
    <3>1. v.planned[k] = item BY <1>10, <1>12, <2>1
    <3> QED BY <1>10, <1>11, <3>1
  <2>2. CASE k # Len(w.planned) + 1
    <3>1. k \in DOMAIN w.planned /\ v.planned[k] = w.planned[k] BY <1>10, <1>12, <2>2
    <3> QED BY <1>10, <3>1 DEF Sound, Remembered
  <2> QED BY <2>1, <2>2
<1>14. Agreeing(v)
  <2>1. \A s \in w.seen : s.id = row.id => s.print = r.print /\ s.target = r.target
    BY <1>4 DEF Sound, Agreeing
  <2>2. \A k \in DOMAIN items :
          items[k].id = row.id => items[k].print = r.print /\ items[k].target = r.target
    BY <1>1, <1>2, <1>4 DEF Sound, Agreeing, ImportedOnce
  <2> QED BY <1>10, <1>11, <2>1, <2>2 DEF Sound, Agreeing
<1>15. Fresh(v)
  <2> SUFFICES ASSUME NEW j \in DOMAIN v.planned, v.planned[j].outcome = "committed",
                      v.planned[j].id # None
               PROVE  /\ \A k \in DOMAIN items : items[k].id # v.planned[j].id
                      /\ \A i \in DOMAIN v.planned : i # j /\ v.planned[i].id = v.planned[j].id =>
                           v.planned[i].outcome # "committed"
    BY DEF Fresh
  <2>1. \A i \in DOMAIN v.planned :
          \/ v.planned[i] = item
          \/ i \in DOMAIN w.planned /\ v.planned[i] = w.planned[i]
    BY <1>10, <1>12
  <2>2. j \in DOMAIN w.planned /\ v.planned[j] = w.planned[j] BY <1>11, <2>1
  <2> QED BY <1>11, <2>1, <2>2 DEF Sound, Fresh
<1>16. Leading(v)
  <2>1. \A i \in DOMAIN v.planned :
          \/ v.planned[i] = item
          \/ i \in DOMAIN w.planned /\ v.planned[i] = w.planned[i]
    BY <1>10, <1>12
  <2> QED BY <1>6, <1>10, <1>11, <2>1 DEF Sound, Leading
<1>17. v.content = v.stored.content BY <1>10 DEF Sound
<1> QED BY <1>9, <1>13, <1>14, <1>15, <1>16, <1>17 DEF Sound, v

LEMMA CommittedSound ==
  ASSUME IInv, NEW w, Applying(w), Sound(w), NEW numbered \in w.left, Unheard(w, numbered)
  PROVE  Applying(Committed(w, numbered)) /\ Sound(Committed(w, numbered))
<1> USE ImportConstants
<1> DEFINE row == numbered[2]
           v == Committed(w, numbered)
           target == Len(w.facts) + 1
           new == IF row.id = None THEN {}
                  ELSE {[id |-> row.id, print |-> Fingerprint(row), target |-> target]}
           item == [row |-> numbered[1], id |-> row.id, print |-> Fingerprint(row),
                    outcome |-> "committed", target |-> target]
           level == [a \in Accounts |-> IF a = row.ref THEN w.amount[a] + row.amount
                                        ELSE w.amount[a]]
<1>1. TypeOK BY DEF IInv
<1>2. /\ numbered[1] \in Nat /\ row \in CsvRows /\ row.id \in Identities \cup {None}
      /\ row.at \in Days /\ row.amount \in Int /\ row.ref \in References
  BY DEF Applying, CsvRows, Unheard, Parses, Appends
<1>3. Fact(row) \in CsvFacts /\ Fingerprint(row) \in Prints
  BY <1>2 DEF Fact, CsvFacts, Fingerprint, Prints
<1>4. Fingerprint(row).fact = Fact(row) BY DEF Fingerprint
<1>5. level \in [Accounts -> 0 .. MaxAmount]
  <2>1. ASSUME NEW a \in Accounts PROVE level[a] \in 0 .. MaxAmount
    BY <1>2 DEF Applying, Unheard, Appends
  <2> QED BY <2>1
<1>6. /\ target \in Nat /\ w.facts \in Seq(CsvFacts) /\ w.planned \in Seq(ImportItems)
      /\ target \notin DOMAIN w.facts
  BY DEF Applying
<1>7. v = [w EXCEPT !.left = @ \ {numbered}, !.facts = Append(@, Fact(row)),
                    !.amount = level, !.seen = @ \cup new, !.planned = Append(@, item)]
  BY DEF Committed, Seen, Planned, RowState, Applying
<1>8. /\ new \subseteq [id : Identities, print : Prints, target : Nat]
      /\ item \in ImportItems
  BY <1>2, <1>3, <1>6 DEF ImportItems
<1>9. /\ \A r \in new : /\ r.id = row.id /\ r.print = Fingerprint(row) /\ r.target = target
                        /\ row.id # None
      /\ row.id # None => new # {}
      /\ item.id = row.id /\ item.print = Fingerprint(row) /\ item.target = target
  <2> DEFINE record == [id |-> row.id, print |-> Fingerprint(row), target |-> target]
  <2>1. new = IF row.id = None THEN {} ELSE {record} OBVIOUS
  <2>2. /\ record.id = row.id /\ record.print = Fingerprint(row) /\ record.target = target
        /\ item.id = row.id /\ item.print = Fingerprint(row) /\ item.target = target
    OBVIOUS
  <2> HIDE DEF record, new, item, row, target
  <2> QED BY <2>1, <2>2
<1>10. row.id # None => /\ \A r \in w.seen : r.id # row.id
                        /\ \A k \in DOMAIN items : items[k].id # row.id
  <2>1. items \in Seq(ImportItems) BY <1>1 DEF TypeOK
  <2> QED BY <2>1, KnownItem DEF Unheard, Prior
<1> HIDE DEF new, item, v, level, row, target
<1>11. /\ v.stored = w.stored /\ v.content = w.content /\ v.seen = w.seen \cup new
       /\ v.facts = Append(w.facts, Fact(row)) /\ v.planned = Append(w.planned, item)
  BY <1>7 DEF Applying
<1>12. Applying(v)
  <2>1. w.seen \cup new \in SUBSET [id : Identities, print : Prints, target : Nat]
    BY <1>8 DEF Applying
  <2>2. Append(w.planned, item) \in Seq(ImportItems) BY <1>8 DEF Applying
  <2>3. Append(w.facts, Fact(row)) \in Seq(CsvFacts) BY <1>3, <1>6
  <2> QED BY <1>5, <1>7, <2>1, <2>2, <2>3 DEF Applying
<1>13. /\ \A i \in DOMAIN v.planned :
            \/ i = Len(w.planned) + 1 /\ v.planned[i] = item
            \/ i \in DOMAIN w.planned /\ v.planned[i] = w.planned[i]
       /\ v.facts[target] = Fact(row) /\ target \in DOMAIN v.facts
       /\ \A n \in DOMAIN w.facts : n \in DOMAIN v.facts /\ v.facts[n] = w.facts[n]
       /\ Len(v.facts) = Len(w.facts) + 1
  BY <1>3, <1>6, <1>8, <1>11 DEF target
<1>14. Remembered(v)
  <2> SUFFICES ASSUME NEW k \in DOMAIN v.planned, v.planned[k].id # None
               PROVE  \E s \in v.seen : /\ s.id = v.planned[k].id /\ s.print = v.planned[k].print
                                        /\ s.target = v.planned[k].target
    BY DEF Remembered
  <2>1. CASE v.planned[k] = item BY <1>9, <1>11, <2>1
  <2>2. CASE k \in DOMAIN w.planned /\ v.planned[k] = w.planned[k]
    BY <1>11, <2>2 DEF Sound, Remembered
  <2> QED BY <1>13, <2>1, <2>2
<1>15. Agreeing(v) BY <1>9, <1>10, <1>11 DEF Sound, Agreeing
<1>16. Fresh(v)
  <2> SUFFICES ASSUME NEW j \in DOMAIN v.planned, v.planned[j].outcome = "committed",
                      v.planned[j].id # None
               PROVE  /\ \A k \in DOMAIN items : items[k].id # v.planned[j].id
                      /\ \A i \in DOMAIN v.planned : i # j /\ v.planned[i].id = v.planned[j].id =>
                           v.planned[i].outcome # "committed"
    BY DEF Fresh
  <2>1. row.id # None => \A i \in DOMAIN w.planned : w.planned[i].id # row.id
    BY <1>10 DEF Sound, Remembered
  <2>2. CASE j = Len(w.planned) + 1 /\ v.planned[j] = item
    BY <1>9, <1>10, <1>13, <2>1, <2>2
  <2>3. CASE j \in DOMAIN w.planned /\ v.planned[j] = w.planned[j]
    BY <1>9, <1>13, <2>1, <2>3 DEF Sound, Fresh
  <2> QED BY <1>13, <2>2, <2>3
<1>17. Leading(v)
  <2>1. facts \in Seq(CsvFacts) /\ Len(facts) \in Nat /\ Len(w.facts) \in Nat
    BY <1>1, <1>6 DEF TypeOK
  <2>2. Len(facts) <= Len(v.facts) /\ \A n \in DOMAIN facts : v.facts[n] = facts[n]
    BY <1>6, <1>13, <2>1 DEF Sound, Leading
  <2>3. \A r \in v.seen : r.target \in DOMAIN v.facts /\ v.facts[r.target] = r.print.fact
    BY <1>4, <1>9, <1>11, <1>13 DEF Sound, Leading
  <2>4. \A k \in DOMAIN v.planned : /\ v.planned[k].target \in DOMAIN v.facts
                                    /\ v.facts[v.planned[k].target] = v.planned[k].print.fact
    BY <1>4, <1>9, <1>13 DEF Sound, Leading
  <2> QED BY <2>2, <2>3, <2>4 DEF Leading
<1>18. v.content = v.stored.content BY <1>11 DEF Sound
<1> QED BY <1>12, <1>14, <1>15, <1>16, <1>17, <1>18 DEF Sound, v

-----------------------------------------------------------------------------
(* The steps.                                                                *)

LEMMA OpenSourceIInv == ASSUME IInv, OpenSource PROVE IInv'
<1> USE ImportConstants
<1>1. TypeOK /\ tx \in [phase : {"checked"}, stored : Previews]
  BY DEF IInv, TypeOK, OpenSource, Transactions, NoTx
<1>2. CASE SameFile(tx.stored)
  <2> DEFINE w == Work(tx.stored, file.content)
  <2>1. tx' = w /\ file.content = tx.stored.content BY <1>2 DEF OpenSource, SameFile
  <2>2. Applying(w)
    <3>1. file.content \in CsvFiles /\ file.content \in Files BY <1>1 DEF TypeOK, Previews
    <3>2. {<<n, file.content.rows[n]>> : n \in DOMAIN file.content.rows}
            \in SUBSET (Nat \X CsvRows)
      <4>1. file.content.rows \in Seq(CsvRows) BY <3>1 DEF CsvFiles
      <4> QED BY <4>1
    <3> QED BY <1>1, <3>1, <3>2 DEF Work, Applying, TypeOK
  <2>3. Sound(w)
    BY <1>1, <2>1 DEF Work, Sound, Remembered, Agreeing, Fresh, Leading, TypeOK
  <2>4. UNCHANGED <<today, file, previews, archived, facts, amount, items, batches>>
    BY DEF OpenSource, database
  <2> HIDE DEF w
  <2>5. TypeOK' BY <1>1, <2>1, <2>2, <2>4 DEF TypeOK, Transactions, Applying
  <2>6. InFlight'
    BY <2>1, <2>3, <2>4 DEF InFlight, Sound, Remembered, Agreeing, Fresh, Leading
  <2> QED BY <2>4, <2>5, <2>6 DEF IInv, ImportedOnce, Imported, Provenance
<1>3. CASE ~SameFile(tx.stored)
  <2>1. /\ tx' = NoTx
        /\ UNCHANGED <<today, file, previews, archived, facts, amount, items, batches>>
    BY <1>3 DEF OpenSource, database
  <2> QED BY <1>1, <2>1
          DEF IInv, TypeOK, Transactions, NoTx, InFlight, ImportedOnce, Imported, Provenance
<1> QED BY <1>2, <1>3

LEMMA ApplyRowIInv == ASSUME IInv, ApplyRow PROVE IInv'
<1>1. /\ TypeOK /\ tx.phase = "applying" /\ Sound(tx)
      /\ UNCHANGED <<today, file, previews, archived, facts, amount, items, batches>>
  BY DEF IInv, InFlight, ApplyRow, database
<1>2. Applying(tx) BY <1>1, ApplyingTx
<1>3. PICK numbered \in tx.left : tx' = AfterRow(tx, numbered)
  BY DEF ApplyRow, SortedFirst
<1>4. Applying(tx') /\ Sound(tx')
  <2>1. CASE tx' = Rejected(tx, numbered) BY <1>1, <1>2, <2>1, RejectedSound
  <2>2. ASSUME NEW r \in Prior(numbered[2].id, tx.seen), RecognisedAs(tx, numbered, r),
               tx' = Duplicate(tx, numbered, r.target)
        PROVE  Applying(tx') /\ Sound(tx')
    <3>1. \A n \in DOMAIN facts : tx.facts[n] = facts[n] BY <1>1 DEF Sound, Leading
    <3> QED BY <1>1, <1>2, <2>2, <3>1, DuplicateSound
  <2>3. CASE Unheard(tx, numbered) /\ tx' = Committed(tx, numbered)
    BY <1>1, <1>2, <2>3, CommittedSound
  <2> QED BY <1>3, <2>1, <2>2, <2>3, RowOutcome
<1>5. TypeOK' BY <1>1, <1>4 DEF TypeOK, Transactions, Applying
<1>6. InFlight'
  BY <1>1, <1>4 DEF InFlight, Sound, Remembered, Agreeing, Fresh, Leading
<1> QED BY <1>1, <1>5, <1>6 DEF IInv, ImportedOnce, Imported, Provenance

LEMMA CountType ==
  ASSUME NEW planned \in Seq(ImportItems), NEW outcome PROVE Count(planned, outcome) \in Nat
<1>1. IsFiniteSet(DOMAIN planned)
  <2>1. DOMAIN planned = 1 .. Len(planned) /\ Len(planned) \in Nat OBVIOUS
  <2> QED BY <2>1, FS_Interval
<1>2. IsFiniteSet({k \in DOMAIN planned : planned[k].outcome = outcome})
  BY <1>1, FS_Subset
<1> QED BY <1>2, FS_CardinalityType DEF Count

LEMMA FinishIInv == ASSUME IInv, FinishCommit PROVE IInv'
<1>1. /\ TypeOK /\ ImportedOnce /\ Provenance /\ tx.phase = "applying" /\ Sound(tx)
      /\ tx' = NoTx /\ UNCHANGED <<today, file, previews, archived>>
  BY DEF IInv, InFlight, FinishCommit
<1>2. Applying(tx) BY <1>1, ApplyingTx
<1>3. InFlight' BY <1>1 DEF InFlight, NoTx
<1>4. CASE ~Accepted
  <2>1. UNCHANGED <<facts, amount, items, batches>> BY <1>4 DEF FinishCommit
  <2> QED BY <1>1, <1>3, <2>1
          DEF IInv, TypeOK, Transactions, NoTx, ImportedOnce, Imported, Provenance
<1>5. CASE Accepted
  <2> DEFINE batch == [file |-> tx.content, last |-> Len(items) + Len(tx.planned),
                       committed |-> Count(tx.planned, "committed"),
                       duplicates |-> Count(tx.planned, "exact_duplicate")]
  <2>1. /\ facts' = tx.facts /\ amount' = tx.amount /\ items' = items \o tx.planned
        /\ batches' = Append(batches, batch)
    BY <1>5 DEF FinishCommit
  <2>2. /\ items \in Seq(ImportItems) /\ tx.planned \in Seq(ImportItems)
        /\ Len(items) \in Nat /\ Len(tx.planned) \in Nat
    BY <1>1, <1>2 DEF TypeOK, Applying
  <2>3. TypeOK'
    <3>1. batch \in ImportBatches
      BY <1>2, <2>2, CountType DEF ImportBatches, Applying
    <3> HIDE DEF batch
    <3>2. batches' \in Seq(ImportBatches) BY <1>1, <2>1, <3>1 DEF TypeOK
    <3>3. items' \in Seq(ImportItems) BY <2>1, <2>2
    <3>4. facts' \in Seq(CsvFacts) /\ amount' \in [Accounts -> 0 .. MaxAmount]
      BY <1>2, <2>1 DEF Applying
    <3> QED BY <1>1, <3>2, <3>3, <3>4 DEF TypeOK, Transactions
  <2>4. \A k \in DOMAIN items' :
          \/ k \in DOMAIN items /\ items'[k] = items[k]
          \/ /\ k - Len(items) \in DOMAIN tx.planned
             /\ items'[k] = tx.planned[k - Len(items)]
    BY <2>1, <2>2
  <2> HIDE DEF batch
  <2>5. Provenance'
    <3> SUFFICES ASSUME NEW k \in DOMAIN items'
                 PROVE  /\ items'[k].target \in DOMAIN tx.facts
                        /\ tx.facts[items'[k].target] = items'[k].print.fact
      BY <2>1 DEF Provenance
    <3>1. CASE k \in DOMAIN items /\ items'[k] = items[k]
      <4>1. facts \in Seq(CsvFacts) /\ tx.facts \in Seq(CsvFacts)
        BY <1>1, <1>2 DEF TypeOK, Applying
      <4> QED BY <1>1, <3>1, <4>1 DEF Provenance, Sound, Leading
    <3>2. CASE /\ k - Len(items) \in DOMAIN tx.planned
               /\ items'[k] = tx.planned[k - Len(items)]
      BY <1>1, <3>2 DEF Sound, Leading
    <3> QED BY <2>4, <3>1, <3>2
  <2>6. ImportedOnce'
    <3> SUFFICES ASSUME NEW j \in DOMAIN items', NEW k \in DOMAIN items',
                        items'[j].id = items'[k].id, items'[j].id # None
                 PROVE  /\ items'[j].print = items'[k].print
                        /\ items'[j].target = items'[k].target
                        /\ items'[j].outcome = "committed" /\ items'[k].outcome = "committed"
                             => j = k
      BY DEF ImportedOnce, Imported
    <3> DEFINE Old(n) == n \in DOMAIN items /\ items'[n] = items[n]
               New(n) == /\ n - Len(items) \in DOMAIN tx.planned
                         /\ items'[n] = tx.planned[n - Len(items)]
    <3>1. \A m, n \in DOMAIN items' : Old(m) /\ New(n) /\ items'[m].id = items'[n].id
            /\ items'[n].id # None =>
              /\ items'[m].print = items'[n].print /\ items'[m].target = items'[n].target
              /\ items'[n].outcome # "committed"
      BY <1>1 DEF Sound, Remembered, Agreeing, Fresh
    <3>2. CASE Old(j) /\ Old(k) BY <1>1, <3>2 DEF ImportedOnce, Imported
    <3>3. CASE Old(j) /\ New(k) BY <3>1, <3>3
    <3>4. CASE New(j) /\ Old(k) BY <3>1, <3>4
    <3>5. CASE New(j) /\ New(k)
      <4> DEFINE i == j - Len(items)
                 n == k - Len(items)
      <4>1. i \in DOMAIN tx.planned /\ n \in DOMAIN tx.planned BY <3>5
      <4>2. items'[j] = tx.planned[i] /\ items'[k] = tx.planned[n] BY <3>5
      <4>3. j \in Int /\ k \in Int /\ (i = n => j = k)
        <5>1. items' \in Seq(ImportItems) BY <2>1, <2>2
        <5> QED BY <2>2, <5>1
      <4> HIDE DEF i, n
      <4>4. /\ tx.planned[i].print = tx.planned[n].print
            /\ tx.planned[i].target = tx.planned[n].target
        BY <1>1, <4>1, <4>2 DEF Sound, Remembered, Agreeing
      <4>5. tx.planned[i].outcome = "committed" /\ tx.planned[n].outcome = "committed" => i = n
        BY <1>1, <4>1, <4>2 DEF Sound, Fresh
      <4> QED BY <4>2, <4>3, <4>4, <4>5
    <3>6. (Old(j) \/ New(j)) /\ (Old(k) \/ New(k)) BY <2>4
    <3> QED BY <3>2, <3>3, <3>4, <3>5, <3>6
  <2> QED BY <1>3, <2>3, <2>5, <2>6 DEF IInv
<1> QED BY <1>4, <1>5

\* Steps without a transaction, or that end one.
LEMMA IdleIInv ==
  ASSUME IInv, TypeOK', UNCHANGED items, tx'.phase # "applying",
         Len(facts) <= Len(facts'), \A n \in DOMAIN facts : facts'[n] = facts[n]
  PROVE  IInv'
<1>1. ImportedOnce' BY DEF IInv, ImportedOnce, Imported
<1>2. Provenance'
  <2>1. facts \in Seq(CsvFacts) /\ facts' \in Seq(CsvFacts) BY DEF IInv, TypeOK
  <2> QED BY <2>1 DEF IInv, Provenance
<1> QED BY <1>1, <1>2 DEF IInv, InFlight

LEMMA NextIInv == IInv /\ [Next]_vars => IInv'
<1> SUFFICES ASSUME IInv, [Next]_vars PROVE IInv' OBVIOUS
<1> USE ImportConstants
<1>1. TypeOK BY DEF IInv
<1>2. Len(facts) \in Nat BY <1>1 DEF TypeOK
\* A step that leaves the transaction and the database alone.
<1>3. ASSUME UNCHANGED <<database, tx>>, TypeOK' PROVE IInv'
  BY <1>3 DEF IInv, database, InFlight, Sound, Remembered, Agreeing, Fresh, Leading,
              ImportedOnce, Imported, Provenance
<1>4. CASE UNCHANGED vars BY <1>1, <1>3, <1>4 DEF vars, database, TypeOK
<1>5. ASSUME NEW t \in Tokens, Preview(t) PROVE IInv'
  <2>1. TypeOK' BY <1>1, <1>5 DEF TypeOK, Preview, database, Previews
  <2> QED BY <1>3, <1>5, <2>1 DEF Preview
<1>6. ASSUME NEW t \in Tokens, Expire(t) PROVE IInv'
  <2>1. TypeOK' BY <1>1, <1>6 DEF TypeOK, Expire, database
  <2> QED BY <1>3, <1>6, <2>1 DEF Expire
<1>7. ASSUME NEW t \in Tokens, BeginCommit(t) PROVE IInv'
  <2>1. tx' = [phase |-> "checked", stored |-> previews[t]] /\ previews[t] \in Previews
    BY <1>1, <1>7 DEF BeginCommit, TypeOK
  <2>2. TypeOK' BY <1>1, <1>7, <2>1 DEF TypeOK, BeginCommit, database, Transactions
  <2> QED BY <1>2, <1>7, <2>1, <2>2, IdleIInv DEF BeginCommit, database
<1>8. CASE OpenSource BY <1>8, OpenSourceIInv
<1>9. CASE ApplyRow BY <1>9, ApplyRowIInv
<1>10. CASE FinishCommit BY <1>10, FinishIInv
<1>11. CASE Rollback
  <2>1. TypeOK' BY <1>1, <1>11 DEF TypeOK, Rollback, database, Transactions
  <2> QED BY <1>2, <1>11, <2>1, IdleIInv DEF Rollback, database, NoTx
<1>12. CASE Restart
  <2>1. TypeOK' BY <1>1, <1>12 DEF TypeOK, Restart, database, Transactions
  <2> QED BY <1>2, <1>12, <2>1, IdleIInv DEF Restart, database, NoTx
<1>13. ASSUME NEW a \in Accounts, NEW x \in Posted, Post(a, x) PROVE IInv'
  <2>1. [ref |-> a, at |-> today, amount |-> x] \in CsvFacts
    BY <1>1 DEF CsvFacts, References, TypeOK
  <2>2. facts' = Append(facts, [ref |-> a, at |-> today, amount |-> x]) /\ tx' = NoTx
    BY <1>13 DEF Post
  <2>3. facts \in Seq(CsvFacts) BY <1>1 DEF TypeOK
  <2>4. /\ facts' \in Seq(CsvFacts) /\ Len(facts) <= Len(facts')
        /\ \A n \in DOMAIN facts : facts'[n] = facts[n]
    BY <2>1, <2>2, <2>3
  <2>5. amount' \in [Accounts -> 0 .. MaxAmount] BY <1>1, <1>13 DEF TypeOK, Post
  <2>6. TypeOK' BY <1>1, <1>13, <2>4, <2>5 DEF TypeOK, Post
  <2> QED BY <1>13, <2>2, <2>4, <2>6, IdleIInv DEF Post, NoTx
<1>14. ASSUME NEW r \in Archivable, Archive(r) PROVE IInv'
  <2>1. TypeOK' BY <1>1, <1>14 DEF TypeOK, Archive
  <2> QED BY <1>2, <1>14, <2>1, IdleIInv DEF Archive, NoTx
<1>15. CASE EditFile
  <2>1. TypeOK' BY <1>1, <1>15 DEF TypeOK, EditFile, database, Previews
  <2> QED BY <1>3, <1>15, <2>1 DEF EditFile
<1>16. CASE Midnight
  <2>1. TypeOK' BY <1>1, <1>16 DEF TypeOK, Midnight, database, Days
  <2> QED BY <1>3, <1>16, <2>1 DEF Midnight
<1> QED BY <1>4, <1>5, <1>6, <1>7, <1>8, <1>9, <1>10, <1>11, <1>12, <1>13, <1>14, <1>15,
           <1>16 DEF Next

-----------------------------------------------------------------------------

\* Every step of a commit, and of everyone else, keeps the invariant.
THEOREM Invariance == Spec => []IInv
<1> QED BY InitIInv, NextIInv, PTL DEF Spec

\* csv_import_service.rs keeps the types of what it saves; an account stays in range.
THEOREM TypeCorrect == Spec => []TypeOK
<1>1. IInv => TypeOK BY DEF IInv
<1> QED BY <1>1, Invariance, PTL

\* An item of an import leads to the fact its row stands for, for a row that was
\* recognised as one imported before too.
THEOREM ItemsLeadToFacts == Spec => []Provenance
<1>1. IInv => Provenance BY DEF IInv
<1> QED BY <1>1, Invariance, PTL

\* find_import_identity and the identities seen in the file see to it that an
\* identity is imported once, for any files and any order of commits.
THEOREM ImportsOnce == Spec => []ImportedOnce
<1>1. IInv => ImportedOnce BY DEF IInv
<1> QED BY <1>1, Invariance, PTL

\* The two comparisons of revalidate_csv_preview_token and open_csv_source see to
\* it that the file of an import is the one its token was issued for.
THEOREM ImportsWhatWasPreviewed == Spec => OnlyPreviewed
<1> DEFINE Step == batches' # batches => batches'[Len(batches')].file = tx.stored.content
<1>1. IInv /\ [Next]_vars => [Step]_vars
  <2> SUFFICES ASSUME IInv, Next, batches' # batches
               PROVE  batches'[Len(batches')].file = tx.stored.content
    OBVIOUS
  <2>1. FinishCommit
    BY DEF Next, Preview, Expire, BeginCommit, OpenSource, ApplyRow, Rollback, Restart, Post,
           Archive, EditFile, Midnight, database
  <2>2. tx.phase = "applying" /\ batches \in Seq(ImportBatches) /\ TypeOK
    BY <2>1 DEF FinishCommit, IInv, TypeOK
  <2>3. tx.content = tx.stored.content BY <2>2 DEF IInv, InFlight, Sound
  <2>4. PICK b : b.file = tx.content /\ batches' = Append(batches, b)
    BY <2>1 DEF FinishCommit
  <2>5. batches'[Len(batches')] = b BY <2>2, <2>4
  <2> QED BY <2>3, <2>4, <2>5
<1> QED BY <1>1, Invariance, PTL DEF Spec, OnlyPreviewed

-----------------------------------------------------------------------------
(* Restoring a bundle.  The path is read by selection, opening, comparison,  *)
(* hashing, and by the restore four more times.  What was read from a file   *)
(* is known to be in the selected one only if no other file has come to the  *)
(* path and nobody has rewritten it: the invariant says so conditionally     *)
(* (InspectionIn, RestoreIn), and the last comparison discharges it.         *)

FileType == [rewrites : Nat, archive : Archives]

\* The path names the file that came last, if any.
LastFile == path # Nobody => path = Len(contents)

SeenIn(c, s) == s.file \in DOMAIN c /\ s.rewrites <= c[s.file].rewrites
KeptIn(c, s) == c[s.file].rewrites = s.rewrites

\* What an inspection found in an archive.
Found(archive, manifest) ==
  /\ Opens(archive) /\ manifest = archive[1].holds
  /\ Matches(archive, manifest) /\ InspectCopy(archive[2].holds, manifest)
  /\ SameHousehold(archive[2].holds, manifest)

\* A reader opened the selected file or one that came after it.
ReaderIn(c, s, f) == SeenIn(c, s) /\ f \in DOMAIN c /\ s.file <= f

\* A token shows what its file holds for as long as nobody rewrites it.
GenuineIn(c, t) ==
  /\ SeenIn(c, t.source)
  /\ KeptIn(c, t.source) => Found(c[t.source.file].archive, t.shown)

\* What an inspection has read is in the selected file, if that is what it opened
\* and it is as it was.
InspectionIn(c, i) ==
  /\ i.at = "selected" => SeenIn(c, i.source)
  /\ i.at \in {"opened", "read", "compared"} => ReaderIn(c, i.source, i.file)
  /\ i.at = "opened" /\ i.file = i.source.file /\ KeptIn(c, i.source) =>
       Opens(c[i.file].archive) /\ i.manifest = c[i.file].archive[1].holds
  /\ i.at = "read" /\ i.file = i.source.file /\ KeptIn(c, i.source) =>
       Found(c[i.file].archive, i.manifest)
  /\ i.at = "compared" /\ KeptIn(c, i.source) => Found(c[i.source.file].archive, i.manifest)

\* What a restore has staged is in the file of its token, under the same condition,
\* and is what the token shows once the second comparison has been passed.
RestoreIn(c, r) ==
  /\ r.at # "idle" => GenuineIn(c, r.token)
  /\ r.at \in {"extract", "metadataAgain"} => ReaderIn(c, r.token.source, r.file)
  /\ r.at \in {"metadataAgain", "hashAgain", "replace"} =>
       r.staged.migration <= Supported /\ Consistent(r.staged)
  /\ r.at = "metadataAgain" /\ r.file = r.token.source.file /\ KeptIn(c, r.token.source) =>
       r.staged = c[r.file].archive[2].holds
  /\ r.at \in {"hashAgain", "replace"} =>
       r.staged = r.token.shown.digest /\ r.staged.household = r.token.shown.household

\* A backup that is written down is a copy of a whole database, or broken.
WriterTrue ==
  /\ writer.at \in {"writing", "written"} =>
       /\ InspectCopy(writer.database, Manifest(writer.database))
       /\ writer.database.migration = Supported
  /\ writer.at = "written" => writer.archive \in {Bundle(writer.database), Broken}

MadeIn(c, m) ==
  \A f \in m : c[f].rewrites = 0 => Found(c[f].archive, c[f].archive[1].holds)

ReplacedTrue ==
  replaced # Nobody =>
    /\ replaced.taken = replaced.shown.digest
    /\ replaced.taken.household = replaced.shown.household
    /\ replaced.taken.state = "sound" /\ Recognised(replaced.taken)

BundleInv ==
  /\ BundleTypeOK /\ LastFile /\ WriterTrue /\ ReplacedTrue
  /\ InspectionIn(contents, inspection) /\ RestoreIn(contents, restore)
  /\ token # Nobody => GenuineIn(contents, token)
  /\ MadeIn(contents, made)

-----------------------------------------------------------------------------
(* FileType that have come later or were rewritten                              *)

Later(c, d) ==
  /\ Len(c) <= Len(d)
  /\ \A f \in DOMAIN c : /\ c[f].rewrites <= d[f].rewrites
                         /\ d[f].rewrites = c[f].rewrites => d[f] = c[f]

LEMMA SeenLater ==
  ASSUME NEW c \in Seq(FileType), NEW d \in Seq(FileType), Later(c, d), NEW s \in Sources, SeenIn(c, s)
  PROVE  /\ SeenIn(d, s)
         /\ KeptIn(d, s) => KeptIn(c, s) /\ d[s.file] = c[s.file]
<1>1. s.file \in DOMAIN c /\ s.file \in DOMAIN d /\ s.rewrites \in Nat
  BY DEF SeenIn, Later, Sources
<1>2. c[s.file] \in FileType /\ d[s.file] \in FileType BY <1>1
<1>3. c[s.file].rewrites \in Nat /\ d[s.file].rewrites \in Nat BY <1>2 DEF FileType
<1>4. /\ s.rewrites <= c[s.file].rewrites /\ c[s.file].rewrites <= d[s.file].rewrites
      /\ d[s.file].rewrites = c[s.file].rewrites => d[s.file] = c[s.file]
  BY <1>1 DEF SeenIn, Later
<1>5. SeenIn(d, s) BY <1>1, <1>3, <1>4 DEF SeenIn
<1>6. KeptIn(d, s) => c[s.file].rewrites = s.rewrites /\ d[s.file].rewrites = c[s.file].rewrites
  BY <1>1, <1>3, <1>4 DEF KeptIn
<1> QED BY <1>4, <1>5, <1>6 DEF KeptIn

LEMMA ReaderLater ==
  ASSUME NEW c \in Seq(FileType), NEW d \in Seq(FileType), Later(c, d), NEW s \in Sources, NEW f \in Nat,
         ReaderIn(c, s, f)
  PROVE  ReaderIn(d, s, f)
<1>1. SeenIn(d, s) BY SeenLater DEF ReaderIn
<1>2. f \in DOMAIN d BY DEF ReaderIn, Later
<1> QED BY <1>1, <1>2 DEF ReaderIn

LEMMA GenuineLater ==
  ASSUME NEW c \in Seq(FileType), NEW d \in Seq(FileType), Later(c, d), NEW t \in InspectionTokens, GenuineIn(c, t)
  PROVE  GenuineIn(d, t)
<1>1. t.source \in Sources /\ SeenIn(c, t.source) BY DEF InspectionTokens, GenuineIn
<1>2. SeenIn(d, t.source) /\ (KeptIn(d, t.source) =>
        KeptIn(c, t.source) /\ d[t.source.file] = c[t.source.file])
  BY <1>1, SeenLater
<1> QED BY <1>2 DEF GenuineIn

LEMMA InspectionTyped ==
  ASSUME NEW i \in Inspections
  PROVE  /\ i.at \in {"idle", "selected", "opened", "read", "compared"}
         /\ i.at # "idle" => i.source \in Sources
         /\ i.at \in {"opened", "read", "compared"} => i.file \in Nat /\ i.manifest \in Manifests
BY DEF Inspections, Off

LEMMA RestoreTyped ==
  ASSUME NEW r \in Restorations
  PROVE  /\ r.at \in {"idle", "metadata", "hash", "open", "extract", "metadataAgain",
                      "hashAgain", "replace"}
         /\ r.at # "idle" => r.token \in InspectionTokens
         /\ r.at \in {"extract", "metadataAgain", "hashAgain", "replace"} => r.file \in Nat
         /\ r.at = "extract" => r.manifest \in Manifests
         /\ r.at \in {"metadataAgain", "hashAgain", "replace"} => r.staged \in Databases
BY DEF Restorations, Off

LEMMA InspectionLater ==
  ASSUME NEW c \in Seq(FileType), NEW d \in Seq(FileType), Later(c, d), NEW i \in Inspections,
         InspectionIn(c, i)
  PROVE  InspectionIn(d, i)
<1>1. CASE i.at = "idle" BY <1>1 DEF InspectionIn
<1>2. CASE i.at = "selected"
  <2>1. i.source \in Sources /\ SeenIn(c, i.source) BY <1>2, InspectionTyped DEF InspectionIn
  <2> QED BY <1>2, <2>1, SeenLater DEF InspectionIn
<1>3. CASE i.at \in {"opened", "read", "compared"}
  <2>1. i.source \in Sources /\ i.file \in Nat /\ ReaderIn(c, i.source, i.file)
    BY <1>3, InspectionTyped DEF InspectionIn
  <2>2. ReaderIn(d, i.source, i.file) BY <2>1, ReaderLater
  <2>3. KeptIn(d, i.source) => KeptIn(c, i.source) /\ d[i.source.file] = c[i.source.file]
    BY <2>1, SeenLater DEF ReaderIn
  <2> QED BY <1>3, <2>2, <2>3 DEF InspectionIn
<1> QED BY <1>1, <1>2, <1>3, InspectionTyped

LEMMA RestoreLater ==
  ASSUME NEW c \in Seq(FileType), NEW d \in Seq(FileType), Later(c, d), NEW r \in Restorations,
         RestoreIn(c, r)
  PROVE  RestoreIn(d, r)
<1>1. CASE r.at = "idle" BY <1>1 DEF RestoreIn
<1>2. CASE r.at # "idle"
  <2>1. r.token \in InspectionTokens /\ GenuineIn(c, r.token) BY <1>2, RestoreTyped DEF RestoreIn
  <2>2. GenuineIn(d, r.token) BY <2>1, GenuineLater
  <2>3. r.token.source \in Sources /\ SeenIn(c, r.token.source) BY <2>1 DEF InspectionTokens, GenuineIn
  <2>4. KeptIn(d, r.token.source) =>
          KeptIn(c, r.token.source) /\ d[r.token.source.file] = c[r.token.source.file]
    BY <2>3, SeenLater
  <2>5. r.at \in {"extract", "metadataAgain"} => ReaderIn(d, r.token.source, r.file)
    BY <2>3, RestoreTyped, ReaderLater DEF RestoreIn
  <2> QED BY <2>2, <2>4, <2>5 DEF RestoreIn
<1> QED BY <1>1, <1>2

LEMMA MadeLater ==
  ASSUME NEW c \in Seq(FileType), NEW d \in Seq(FileType), Later(c, d), NEW m \in SUBSET DOMAIN c,
         MadeIn(c, m)
  PROVE  MadeIn(d, m)
<1> SUFFICES ASSUME NEW f \in m, d[f].rewrites = 0 PROVE Found(d[f].archive, d[f].archive[1].holds)
  BY DEF MadeIn
<1>1. c[f] \in FileType OBVIOUS
<1>2. c[f].rewrites \in Nat /\ c[f].rewrites <= 0 BY <1>1 DEF FileType, Later
<1>3. c[f].rewrites = 0 /\ d[f] = c[f] BY <1>2 DEF Later
<1> QED BY <1>3 DEF MadeIn

-----------------------------------------------------------------------------
(* The steps                                                                 *)

Entries == [name : EntryNames, holds : Manifests \cup Databases]

LEMMA EntryTyped ==
  ASSUME NEW n \in EntryNames, NEW x \in Manifests \cup Databases
  PROVE  [name |-> n, holds |-> x] \in Entries
BY DEF Entries

LEMMA BrokenTyped == Broken \in Archives
<1>1. Archives = Seq(Entries) BY DEF Archives, Entries
<1> QED BY <1>1 DEF Broken

LEMMA BundleTyped ==
  ASSUME NEW d \in Databases, d.household # NoHousehold, d.migration # 0
  PROVE  /\ Manifest(d) \in Manifests /\ Bundle(d) \in Archives
         /\ InspectCopy(d, Manifest(d)) => Found(Bundle(d), Manifest(d))
<1>1. Manifest(d) \in Manifests BY DEF Manifest, Manifests, Databases
<1> DEFINE first == [name |-> "manifest.json", holds |-> Manifest(d)]
           second == [name |-> "nestworth.sqlite3", holds |-> d]
<1>2. first \in Entries /\ second \in Entries
  <2>1. Manifest(d) \in Manifests \cup Databases /\ d \in Manifests \cup Databases BY <1>1
  <2>2. "manifest.json" \in EntryNames /\ "nestworth.sqlite3" \in EntryNames BY DEF EntryNames
  <2> QED BY <2>1, <2>2, EntryTyped
<1>3. Bundle(d) = <<first, second>> BY DEF Bundle
<1>4. /\ first.name = "manifest.json" /\ first.holds = Manifest(d)
      /\ second.name = "nestworth.sqlite3" /\ second.holds = d
  OBVIOUS
<1> HIDE DEF first, second
<1>5. Bundle(d) \in Archives
  <2>1. Archives = Seq(Entries) BY DEF Archives, Entries
  <2> QED BY <1>2, <1>3, <2>1
<1>6. Len(Bundle(d)) = 2 /\ Bundle(d)[1] = first /\ Bundle(d)[2] = second BY <1>3
<1>7. Opens(Bundle(d)) BY <1>1, <1>4, <1>6 DEF Opens
<1>8. Matches(Bundle(d), Manifest(d)) /\ SameHousehold(d, Manifest(d))
  BY <1>4, <1>6, <1>7 DEF Matches, SameHousehold, Manifest
<1> QED BY <1>1, <1>4, <1>5, <1>6, <1>7, <1>8 DEF Found

LEMMA ArchiveTyped ==
  ASSUME NEW c \in Seq(FileType), NEW f \in DOMAIN c
  PROVE  c[f].archive \in Archives /\ c[f].rewrites \in Nat /\ c[f] \in FileType /\ f \in Nat \ {0}
<1>1. c[f] \in FileType OBVIOUS
<1> QED BY <1>1 DEF FileType

\* A step that only touches the files.
LEMMA FilesStep ==
  ASSUME BundleInv, contents' \in Seq(FileType), Later(contents, contents'),
         path' \in DOMAIN contents' \cup {Nobody}, path' # Nobody => path' = Len(contents'),
         UNCHANGED <<current, made, writer, inspection, token, restore, replaced>>
  PROVE  BundleInv'
<1>1. contents \in Seq(FileType) BY DEF BundleInv, BundleTypeOK, FileType
<1>2. made \subseteq DOMAIN contents /\ inspection \in Inspections /\ restore \in Restorations
  BY DEF BundleInv, BundleTypeOK
<1>3. made \subseteq DOMAIN contents' BY <1>1, <1>2 DEF Later
<1>4. BundleTypeOK' BY <1>3 DEF BundleInv, BundleTypeOK, FileType
<1>5. InspectionIn(contents', inspection) BY <1>1, <1>2, InspectionLater DEF BundleInv
<1>6. RestoreIn(contents', restore) BY <1>1, <1>2, RestoreLater DEF BundleInv
<1>7. token # Nobody => GenuineIn(contents', token)
  BY <1>1, GenuineLater DEF BundleInv, BundleTypeOK
<1>8. MadeIn(contents', made) BY <1>1, <1>2, MadeLater DEF BundleInv
<1>9. (LastFile /\ WriterTrue /\ ReplacedTrue)' BY DEF BundleInv, LastFile, WriterTrue, ReplacedTrue
<1> QED BY <1>4, <1>5, <1>6, <1>7, <1>8, <1>9 DEF BundleInv

LEMMA NewFileLater ==
  ASSUME BundleInv, NEW archive \in Archives, NewFile(archive)
  PROVE  /\ contents' \in Seq(FileType) /\ Later(contents, contents')
         /\ path' = Len(contents') /\ path' \in DOMAIN contents' /\ path' # Nobody
         /\ contents'[path'] = [rewrites |-> 0, archive |-> archive]
         /\ \A f \in DOMAIN contents : contents'[f] = contents[f]
         /\ path' \notin DOMAIN contents
<1>1. contents \in Seq(FileType) BY DEF BundleInv, BundleTypeOK, FileType
<1> DEFINE new == [rewrites |-> 0, archive |-> archive]
<1>2. new \in FileType BY DEF FileType
<1>3. contents' = Append(contents, new) /\ path' = Len(contents) + 1 BY DEF NewFile
<1> HIDE DEF new
<1>4. contents' \in Seq(FileType) BY <1>1, <1>2, <1>3
<1>5. /\ Len(contents') = Len(contents) + 1 /\ contents'[Len(contents) + 1] = new
      /\ \A f \in DOMAIN contents : contents'[f] = contents[f]
  BY <1>1, <1>2, <1>3
<1>6. \A f \in DOMAIN contents : contents[f].rewrites \in Nat BY <1>1, ArchiveTyped
<1>7. Later(contents, contents') BY <1>1, <1>5, <1>6 DEF Later
<1>8. Len(contents) \in Nat /\ DOMAIN contents = 1 .. Len(contents) /\ path' \in DOMAIN contents'
  BY <1>1, <1>3, <1>4, <1>5
<1>9. path' # Nobody BY <1>3, <1>8, BundleConstants
<1> QED BY <1>3, <1>4, <1>5, <1>7, <1>8, <1>9 DEF new

LEMMA ReplaceIInv == ASSUME BundleInv, ReplaceFile PROVE BundleInv'
<1>1. PICK archive \in Foreign : NewFile(archive) BY DEF ReplaceFile
<1>2. archive \in Archives BY BundleConstants
<1> QED BY <1>1, <1>2, NewFileLater, FilesStep DEF ReplaceFile

LEMMA RewriteIInv == ASSUME BundleInv, RewriteFile PROVE BundleInv'
<1>1. PICK archive \in Foreign \cup {Broken} :
        contents' = [contents EXCEPT ![path] = [rewrites |-> @.rewrites + 1, archive |-> archive]]
  BY DEF RewriteFile
<1>2. contents \in Seq(FileType) /\ path # Nobody /\ path \in DOMAIN contents /\ path = Len(contents)
  BY DEF BundleInv, BundleTypeOK, FileType, RewriteFile, LastFile
<1>3. archive \in Archives BY BundleConstants, BrokenTyped
<1> DEFINE new == [rewrites |-> contents[path].rewrites + 1, archive |-> archive]
<1>41. contents[path].rewrites \in Nat BY <1>2, ArchiveTyped
<1>4. new \in FileType /\ contents[path].rewrites \in Nat BY <1>3, <1>41 DEF FileType
<1>5. contents' = [contents EXCEPT ![path] = new] BY <1>1
<1>6. contents[path].rewrites < new.rewrites BY <1>4
<1> HIDE DEF new
<1>7. contents' \in Seq(FileType) BY <1>2, <1>4, <1>5
<1>8. /\ Len(contents') = Len(contents) /\ DOMAIN contents' = DOMAIN contents
      /\ contents'[path] = new /\ \A f \in DOMAIN contents \ {path} : contents'[f] = contents[f]
  BY <1>2, <1>4, <1>5
<1>9. \A f \in DOMAIN contents : contents[f].rewrites \in Nat BY <1>2, ArchiveTyped
<1>10. new.rewrites \in Nat BY <1>4 DEF FileType
<1>11. Later(contents, contents') BY <1>2, <1>6, <1>8, <1>9, <1>10 DEF Later
<1>12. UNCHANGED <<current, path, made, writer, inspection, token, restore, replaced>>
  BY DEF RewriteFile
<1> QED BY <1>2, <1>7, <1>8, <1>11, <1>12, FilesStep

LEMMA RemoveIInv == ASSUME BundleInv, RemoveFile PROVE BundleInv'
<1>1. contents \in Seq(FileType) BY DEF BundleInv, BundleTypeOK, FileType
<1>2. \A f \in DOMAIN contents : contents[f].rewrites \in Nat BY <1>1, ArchiveTyped
<1>3. contents' = contents /\ path' = Nobody
      /\ UNCHANGED <<current, made, writer, inspection, token, restore, replaced>>
  BY DEF RemoveFile
<1>4. Later(contents, contents') BY <1>1, <1>2, <1>3 DEF Later
<1> QED BY <1>1, <1>3, <1>4, FilesStep

-----------------------------------------------------------------------------

LEMMA CommitIInv == ASSUME BundleInv, Commit PROVE BundleInv'
<1>1. PICK h \in Households :
        current' = [current EXCEPT !.version = @ + 1,
                                   !.household = IF @ = NoHousehold THEN h ELSE @]
  BY DEF Commit
<1>2. current \in Databases BY DEF BundleInv, BundleTypeOK
<1> DEFINE household == IF current.household = NoHousehold THEN h ELSE current.household
           next == [current EXCEPT !.version = @ + 1]
<1>21. current' = [next EXCEPT !.household = household] BY <1>1, <1>2 DEF Databases
<1>22. next \in Databases BY <1>2 DEF Databases
<1>23. household \in Households \cup {NoHousehold} BY <1>2 DEF Databases
<1> HIDE DEF household, next
<1>3. current' \in Databases BY <1>21, <1>22, <1>23 DEF Databases
<1>4. UNCHANGED <<bundleFiles, writer, inspection, token, restore, replaced>> BY DEF Commit
<1> QED BY <1>3, <1>4 DEF BundleInv, bundleFiles, BundleTypeOK, LastFile, WriterTrue, ReplacedTrue

\* A step of a backup that leaves the files alone.
LEMMA WriterStep ==
  ASSUME BundleInv, writer' \in Writers, WriterTrue',
         UNCHANGED <<current, bundleFiles, inspection, token, restore, replaced>>
  PROVE  BundleInv'
BY DEF BundleInv, bundleFiles, BundleTypeOK, LastFile, ReplacedTrue

LEMMA WriterTyped ==
  ASSUME NEW w \in Writers
  PROVE  /\ w.at \in {"idle", "writing", "written"}
         /\ w.at \in {"writing", "written"} => w.database \in Databases
         /\ w.at = "written" => w.archive \in Archives
BY DEF Writers, Off

LEMMA CopyIInv == ASSUME BundleInv, CopyDatabase PROVE BundleInv'
<1>1. /\ writer' = [at |-> "writing", database |-> current]
      /\ InspectCopy(current, Manifest(current)) /\ current.migration = Supported
      /\ UNCHANGED <<current, bundleFiles, inspection, token, restore, replaced>>
  BY DEF CopyDatabase
<1>2. current \in Databases BY DEF BundleInv, BundleTypeOK
<1>3. writer' \in Writers /\ writer'.at = "writing" /\ writer'.database = current
  BY <1>1, <1>2 DEF Writers
<1>4. WriterTrue' BY <1>1, <1>3 DEF WriterTrue
<1> QED BY <1>1, <1>3, <1>4, WriterStep

LEMMA WrittenTyped ==
  ASSUME BundleInv, writer.at \in {"writing", "written"}
  PROVE  /\ writer.database \in Databases
         /\ Bundle(writer.database) \in Archives
         /\ Found(Bundle(writer.database), Manifest(writer.database))
<1>1. writer.database \in Databases BY WriterTyped DEF BundleInv, BundleTypeOK
<1>2. /\ InspectCopy(writer.database, Manifest(writer.database))
      /\ writer.database.migration = Supported
  BY DEF BundleInv, WriterTrue
<1>3. writer.database.household # NoHousehold /\ writer.database.migration # 0
  BY <1>2, BundleConstants DEF InspectCopy, Recognised
<1> QED BY <1>1, <1>2, <1>3, BundleTyped

LEMMA WriteIInv == ASSUME BundleInv, WriteBundle PROVE BundleInv'
<1>1. PICK archive \in {Bundle(writer.database), Broken} :
        writer' = [at |-> "written", database |-> writer.database, archive |-> archive]
  BY DEF WriteBundle
<1>2. /\ writer.at = "writing"
      /\ UNCHANGED <<current, bundleFiles, inspection, token, restore, replaced>>
  BY DEF WriteBundle
<1>3. writer.database \in Databases /\ archive \in Archives
  BY <1>1, <1>2, WrittenTyped, BrokenTyped
<1>4. writer' \in Writers /\ writer'.at = "written" /\ writer'.database = writer.database
      /\ writer'.archive = archive
  BY <1>1, <1>3 DEF Writers
<1>5. WriterTrue' BY <1>1, <1>2, <1>4 DEF BundleInv, WriterTrue
<1> QED BY <1>2, <1>4, <1>5, WriterStep

LEMMA FailBackupIInv == ASSUME BundleInv, FailBackup PROVE BundleInv'
<1>1. writer' = Off /\ UNCHANGED <<current, bundleFiles, inspection, token, restore, replaced>>
  BY DEF FailBackup
<1>2. writer' \in Writers /\ writer'.at = "idle" BY <1>1 DEF Writers, Off
<1>3. WriterTrue' BY <1>2 DEF WriterTrue
<1> QED BY <1>1, <1>2, <1>3, WriterStep

\* What was read back is the bundle, so the file that comes to the path is whole.
LEMMA PublishIInv == ASSUME BundleInv, PublishBundle PROVE BundleInv'
<1> DEFINE archive == writer.archive
<1>1. /\ writer.at = "written" /\ ReadBack /\ NewFile(archive) /\ made' = made \cup {path'}
      /\ writer' = Off /\ UNCHANGED <<current, inspection, token, restore, replaced>>
  BY DEF PublishBundle
<1>2. archive \in Archives BY <1>1, WriterTyped DEF BundleInv, BundleTypeOK
<1>3. archive = Bundle(writer.database)
  <2>1. archive # Broken BY <1>1 DEF ReadBack, Opens, Broken
  <2> QED BY <1>1, <2>1 DEF BundleInv, WriterTrue
<1>4. Found(archive, archive[1].holds)
  <2>1. Found(archive, Manifest(writer.database)) BY <1>1, <1>3, WrittenTyped
  <2> QED BY <2>1 DEF Found
<1> HIDE DEF archive
<1>5. /\ contents' \in Seq(FileType) /\ Later(contents, contents')
      /\ path' = Len(contents') /\ path' \in DOMAIN contents' /\ path' # Nobody
      /\ contents'[path'] = [rewrites |-> 0, archive |-> archive]
      /\ \A f \in DOMAIN contents : contents'[f] = contents[f]
  BY <1>1, <1>2, NewFileLater
<1>6. contents \in Seq(FileType) /\ made \subseteq DOMAIN contents
      /\ inspection \in Inspections /\ restore \in Restorations
  BY DEF BundleInv, BundleTypeOK, FileType
<1>7. writer' \in Writers /\ writer'.at = "idle" BY <1>1 DEF Writers, Off
<1>8. made' \subseteq DOMAIN contents' BY <1>1, <1>5, <1>6 DEF Later
<1>9. BundleTypeOK' BY <1>1, <1>5, <1>7, <1>8 DEF BundleInv, BundleTypeOK, FileType
<1>10. InspectionIn(contents', inspection) BY <1>5, <1>6, InspectionLater DEF BundleInv
<1>11. RestoreIn(contents', restore) BY <1>5, <1>6, RestoreLater DEF BundleInv
<1>12. token # Nobody => GenuineIn(contents', token)
  BY <1>5, <1>6, GenuineLater DEF BundleInv, BundleTypeOK
<1>13. MadeIn(contents', made')
  <2>1. MadeIn(contents', made) BY <1>5, <1>6, MadeLater DEF BundleInv
  <2>2. contents'[path'].archive = archive BY <1>5
  <2> QED BY <1>1, <1>4, <2>1, <2>2 DEF MadeIn
<1>14. (LastFile /\ WriterTrue /\ ReplacedTrue)'
  BY <1>1, <1>5, <1>7 DEF BundleInv, LastFile, WriterTrue, ReplacedTrue
<1> QED BY <1>1, <1>9, <1>10, <1>11, <1>12, <1>13, <1>14 DEF BundleInv

-----------------------------------------------------------------------------
(* Inspections                                                               *)

\* A step of an inspection that changes neither files nor tokens.
LEMMA InspectionStep ==
  ASSUME BundleInv, inspection' \in Inspections, InspectionIn(contents, inspection'),
         UNCHANGED <<current, bundleFiles, writer, token, restore, replaced>>
  PROVE  BundleInv'
BY DEF BundleInv, bundleFiles, BundleTypeOK, LastFile, WriterTrue, ReplacedTrue

LEMMA FilesTyped ==
  ASSUME BundleInv
  PROVE  /\ contents \in Seq(FileType)
         /\ path # Nobody => /\ path \in DOMAIN contents /\ path = Len(contents)
                             /\ path \in Nat \ {0} /\ contents[path].archive \in Archives
                             /\ contents[path].rewrites \in Nat
<1>1. contents \in Seq(FileType) BY DEF BundleInv, BundleTypeOK, FileType
<1>2. path # Nobody => path \in DOMAIN contents /\ path = Len(contents)
  BY DEF BundleInv, BundleTypeOK, LastFile
<1> QED BY <1>1, <1>2, ArchiveTyped

\* The file that was seen is at the path still, so nothing has come after it.
LEMMA SameSource ==
  ASSUME BundleInv, NEW s \in Sources, SeenIn(contents, s), Same(s)
  PROVE  path # Nobody /\ s.file = path /\ s.file = Len(contents) /\ KeptIn(contents, s)
<1>1. path = s.file /\ Metadata(path) = s BY DEF Same
<1>2. s.file \in Nat BY DEF Sources
<1>3. path # Nobody BY <1>1, <1>2, BundleConstants
<1>4. Metadata(path).rewrites = contents[path].rewrites BY DEF Metadata
<1> QED BY <1>1, <1>3, <1>4, FilesTyped DEF KeptIn

LEMMA SelectIInv == ASSUME BundleInv, SelectFile PROVE BundleInv'
<1>1. /\ path # Nobody /\ inspection' = [at |-> "selected", source |-> Metadata(path)]
      /\ UNCHANGED <<current, bundleFiles, writer, token, restore, replaced>>
  BY DEF SelectFile
<1>2. /\ Metadata(path) \in Sources /\ Metadata(path).file = path
      /\ Metadata(path).rewrites = contents[path].rewrites
  BY <1>1, FilesTyped DEF Metadata, Sources
<1>3. SeenIn(contents, Metadata(path)) BY <1>1, <1>2, FilesTyped DEF SeenIn
<1>4. inspection' \in Inspections /\ inspection'.at = "selected"
      /\ inspection'.source = Metadata(path)
  BY <1>1, <1>2 DEF Inspections
<1>5. InspectionIn(contents, inspection') BY <1>3, <1>4 DEF InspectionIn
<1> QED BY <1>1, <1>4, <1>5, InspectionStep

LEMMA OpenIInv == ASSUME BundleInv, OpenBundle PROVE BundleInv'
<1> DEFINE manifest == contents[path].archive[1].holds
<1>1. /\ inspection.at = "selected" /\ path # Nobody /\ Opens(contents[path].archive)
      /\ inspection' = [at |-> "opened", source |-> inspection.source, file |-> path,
                        manifest |-> manifest]
      /\ UNCHANGED <<current, bundleFiles, writer, token, restore, replaced>>
  BY DEF OpenBundle
<1>2. manifest \in Manifests BY <1>1 DEF Opens
<1>3. inspection.source \in Sources /\ SeenIn(contents, inspection.source)
  BY <1>1, InspectionTyped DEF BundleInv, BundleTypeOK, InspectionIn
<1>4. path \in DOMAIN contents /\ path \in Nat /\ path = Len(contents) BY <1>1, FilesTyped
<1>5. inspection.source.file <= path
  BY <1>3, <1>4, FilesTyped DEF SeenIn
<1> HIDE DEF manifest
<1>6. inspection' \in Inspections BY <1>1, <1>2, <1>3, <1>4 DEF Inspections
<1>7. /\ inspection'.at = "opened" /\ inspection'.source = inspection.source
      /\ inspection'.file = path /\ inspection'.manifest = manifest
  BY <1>1
<1>8. ReaderIn(contents, inspection'.source, inspection'.file)
  BY <1>3, <1>4, <1>5, <1>7 DEF ReaderIn
<1>9. InspectionIn(contents, inspection') BY <1>1, <1>7, <1>8 DEF InspectionIn, manifest
<1> QED BY <1>1, <1>6, <1>9, InspectionStep

LEMMA ReadTyped ==
  ASSUME NEW i \in Inspections, NEW step \in {"read", "compared"}, i.at \in {"opened", "read"}
  PROVE  LET j == [i EXCEPT !.at = step]
         IN  /\ j \in Inspections /\ j.at = step
             /\ j.source = i.source /\ j.file = i.file /\ j.manifest = i.manifest
<1>1. i \in [at : {"opened", "read", "compared"}, source : Sources, file : Nat, manifest : Manifests]
  BY DEF Inspections, Off
<1> QED BY <1>1 DEF Inspections

LEMMA ReadIInv == ASSUME BundleInv, ReadDatabase PROVE BundleInv'
<1> DEFINE archive == contents[inspection.file].archive
<1>1. /\ inspection.at = "opened"
      /\ Matches(archive, inspection.manifest)
      /\ InspectCopy(archive[2].holds, inspection.manifest)
      /\ SameHousehold(archive[2].holds, inspection.manifest)
      /\ inspection' = [inspection EXCEPT !.at = "read"]
      /\ UNCHANGED <<current, bundleFiles, writer, token, restore, replaced>>
  BY DEF ReadDatabase
<1>2. inspection \in Inspections /\ InspectionIn(contents, inspection) BY DEF BundleInv, BundleTypeOK
<1>3. /\ inspection' \in Inspections /\ inspection'.at = "read"
      /\ inspection'.source = inspection.source /\ inspection'.file = inspection.file
      /\ inspection'.manifest = inspection.manifest
  BY <1>1, <1>2, ReadTyped
<1> HIDE DEF archive
<1>4. ReaderIn(contents, inspection.source, inspection.file) BY <1>1, <1>2 DEF InspectionIn
<1>5. ASSUME inspection.file = inspection.source.file, KeptIn(contents, inspection.source)
      PROVE  Found(archive, inspection.manifest)
  BY <1>1, <1>2, <1>5 DEF InspectionIn, Found, archive
<1>6. InspectionIn(contents, inspection') BY <1>3, <1>4, <1>5 DEF InspectionIn, archive
<1> QED BY <1>1, <1>3, <1>6, InspectionStep

\* The comparison shows that the file that was opened is the one that was selected.
LEMMA CompareIInv == ASSUME BundleInv, CompareSource PROVE BundleInv'
<1>1. /\ inspection.at = "read" /\ Same(inspection.source)
      /\ inspection' = [inspection EXCEPT !.at = "compared"]
      /\ UNCHANGED <<current, bundleFiles, writer, token, restore, replaced>>
  BY DEF CompareSource
<1>2. inspection \in Inspections /\ InspectionIn(contents, inspection) BY DEF BundleInv, BundleTypeOK
<1>3. /\ inspection' \in Inspections /\ inspection'.at = "compared"
      /\ inspection'.source = inspection.source /\ inspection'.file = inspection.file
      /\ inspection'.manifest = inspection.manifest
  BY <1>1, <1>2, ReadTyped
<1>4. ReaderIn(contents, inspection.source, inspection.file) /\ inspection.source \in Sources
      /\ inspection.file \in Nat
  BY <1>1, <1>2, InspectionTyped DEF InspectionIn
<1>5. inspection.source.file = Len(contents) /\ KeptIn(contents, inspection.source)
  BY <1>1, <1>4, SameSource DEF ReaderIn
<1>6. inspection.file = inspection.source.file BY <1>4, <1>5, FilesTyped DEF ReaderIn
<1>7. Found(contents[inspection.source.file].archive, inspection.manifest)
  BY <1>1, <1>2, <1>5, <1>6 DEF InspectionIn
<1>8. InspectionIn(contents, inspection') BY <1>3, <1>4, <1>7 DEF InspectionIn
<1> QED BY <1>1, <1>3, <1>8, InspectionStep

LEMMA IdleInspection == Off \in Inspections /\ \A c : InspectionIn(c, Off)
BY DEF Inspections, Off, InspectionIn

LEMMA FailInspectionIInv == ASSUME BundleInv, FailInspection PROVE BundleInv'
BY IdleInspection, InspectionStep DEF FailInspection

\* A step that issues a token, or drops it.
LEMMA TokenStep ==
  ASSUME BundleInv, token' \in InspectionTokens \cup {Nobody}, token' # Nobody => GenuineIn(contents, token'),
         inspection' \in {inspection, Off},
         UNCHANGED <<current, bundleFiles, writer, restore, replaced>>
  PROVE  BundleInv'
<1>1. inspection' \in Inspections /\ InspectionIn(contents, inspection')
  BY IdleInspection DEF BundleInv, BundleTypeOK
<1> QED BY <1>1 DEF BundleInv, bundleFiles, BundleTypeOK, LastFile, WriterTrue, ReplacedTrue

LEMMA IssueIInv == ASSUME BundleInv, IssueToken PROVE BundleInv'
<1>1. /\ inspection.at = "compared" /\ path # Nobody
      /\ token' = [source |-> inspection.source, hash |-> contents[path].archive,
                   shown |-> inspection.manifest]
      /\ inspection' = Off
      /\ UNCHANGED <<current, bundleFiles, writer, restore, replaced>>
  BY DEF IssueToken
<1>2. inspection \in Inspections /\ InspectionIn(contents, inspection) BY DEF BundleInv, BundleTypeOK
<1>3. inspection.source \in Sources /\ inspection.manifest \in Manifests
      /\ contents[path].archive \in Archives
  BY <1>1, <1>2, InspectionTyped, FilesTyped
<1>4. token' \in InspectionTokens /\ token'.source = inspection.source /\ token'.shown = inspection.manifest
  BY <1>1, <1>3 DEF InspectionTokens
<1>5. GenuineIn(contents, token') BY <1>1, <1>2, <1>4 DEF InspectionIn, ReaderIn, GenuineIn
<1> QED BY <1>1, <1>4, <1>5, TokenStep

LEMMA ExpireIInv == ASSUME BundleInv, ExpireToken PROVE BundleInv'
BY TokenStep DEF ExpireToken

-----------------------------------------------------------------------------
(* Restores                                                                  *)

\* A step of a restore that changes nothing else.
LEMMA RestoreStep ==
  ASSUME BundleInv, restore' \in Restorations, RestoreIn(contents, restore'),
         UNCHANGED <<current, bundleFiles, writer, inspection, token, replaced>>
  PROVE  BundleInv'
BY DEF BundleInv, bundleFiles, BundleTypeOK, LastFile, WriterTrue, ReplacedTrue

LEMMA IdleRestore == Off \in Restorations /\ \A c : RestoreIn(c, Off)
BY DEF Restorations, Off, RestoreIn

LEMMA FailRestoreIInv == ASSUME BundleInv, FailRestore PROVE BundleInv'
BY IdleRestore, RestoreStep DEF FailRestore

LEMMA ConfirmIInv == ASSUME BundleInv, ConfirmRestore PROVE BundleInv'
<1>1. /\ token # Nobody /\ restore' = [at |-> "metadata", token |-> token]
      /\ UNCHANGED <<current, bundleFiles, writer, inspection, token, replaced>>
  BY DEF ConfirmRestore
<1>2. token \in InspectionTokens /\ GenuineIn(contents, token) BY <1>1 DEF BundleInv, BundleTypeOK
<1>3. restore' \in Restorations /\ restore'.at = "metadata" /\ restore'.token = token
  BY <1>1, <1>2 DEF Restorations
<1>4. RestoreIn(contents, restore') BY <1>2, <1>3 DEF RestoreIn
<1> QED BY <1>1, <1>3, <1>4, RestoreStep

LEMMA GoOnTyped ==
  ASSUME NEW r \in Restorations, NEW step \in {"hash", "open"}, r.at \in {"metadata", "hash"}
  PROVE  LET q == [r EXCEPT !.at = step]
         IN  q \in Restorations /\ q.at = step /\ q.token = r.token
<1>1. r \in [at : {"metadata", "hash", "open"}, token : InspectionTokens] BY DEF Restorations, Off
<1> QED BY <1>1 DEF Restorations

LEMMA GoOnAgainTyped ==
  ASSUME NEW r \in Restorations, NEW step \in {"hashAgain", "replace"},
         r.at \in {"metadataAgain", "hashAgain"}
  PROVE  LET q == [r EXCEPT !.at = step]
         IN  /\ q \in Restorations /\ q.at = step /\ q.token = r.token
             /\ q.file = r.file /\ q.staged = r.staged
<1>1. r \in [at : {"metadataAgain", "hashAgain", "replace"}, token : InspectionTokens, file : Nat,
             staged : Databases]
  BY DEF Restorations, Off
<1> QED BY <1>1 DEF Restorations

LEMMA FirstCheckIInv ==
  ASSUME BundleInv, NEW next \in {"hash", "open"}, restore.at \in {"metadata", "hash"}, GoOn(next),
         UNCHANGED <<current, bundleFiles, writer, inspection, token, replaced>>
  PROVE  BundleInv'
<1>1. restore \in Restorations /\ RestoreIn(contents, restore) BY DEF BundleInv, BundleTypeOK
<1>2. restore' \in Restorations /\ restore'.at = next /\ restore'.token = restore.token
  BY <1>1, GoOnTyped DEF GoOn
<1>3. RestoreIn(contents, restore') BY <1>1, <1>2 DEF RestoreIn
<1> QED BY <1>2, <1>3, RestoreStep

LEMMA OpenStagedIInv == ASSUME BundleInv, OpenStaged PROVE BundleInv'
<1> DEFINE manifest == contents[path].archive[1].holds
<1>1. /\ restore.at = "open" /\ path # Nobody /\ Opens(contents[path].archive)
      /\ restore' = [at |-> "extract", token |-> restore.token, file |-> path,
                     manifest |-> manifest]
      /\ UNCHANGED <<current, bundleFiles, writer, inspection, token, replaced>>
  BY DEF OpenStaged
<1>2. manifest \in Manifests BY <1>1 DEF Opens
<1>3. restore \in Restorations /\ RestoreIn(contents, restore) BY DEF BundleInv, BundleTypeOK
<1>4. restore.token \in InspectionTokens /\ GenuineIn(contents, restore.token)
  BY <1>1, <1>3, RestoreTyped DEF RestoreIn
<1>5. restore.token.source \in Sources /\ SeenIn(contents, restore.token.source)
  BY <1>4 DEF InspectionTokens, GenuineIn
<1>6. path \in DOMAIN contents /\ path \in Nat /\ path = Len(contents) BY <1>1, FilesTyped
<1>7. restore.token.source.file <= path BY <1>5, <1>6, FilesTyped DEF SeenIn
<1> HIDE DEF manifest
<1>8. restore' \in Restorations BY <1>1, <1>2, <1>4, <1>6 DEF Restorations
<1>9. /\ restore'.at = "extract" /\ restore'.token = restore.token
      /\ restore'.file = path /\ restore'.manifest = manifest
  BY <1>1
<1>10. ReaderIn(contents, restore'.token.source, restore'.file)
  BY <1>5, <1>6, <1>7, <1>9 DEF ReaderIn
<1>11. RestoreIn(contents, restore') BY <1>4, <1>9, <1>10 DEF RestoreIn, manifest
<1> QED BY <1>1, <1>8, <1>11, RestoreStep

LEMMA StageIInv == ASSUME BundleInv, StageDatabase PROVE BundleInv'
<1> DEFINE archive == contents[restore.file].archive
           d == archive[2].holds
<1>1. /\ restore.at = "extract"
      /\ Matches(archive, restore.manifest) /\ restore.manifest.migration <= Supported
      /\ InspectCopy(d, restore.manifest) /\ Consistent(d)
      /\ restore' = [at |-> AfterStaging, token |-> restore.token, file |-> restore.file,
                     staged |-> d]
      /\ UNCHANGED <<current, bundleFiles, writer, inspection, token, replaced>>
  BY DEF StageDatabase
<1>2. d \in Databases /\ d.migration <= Supported BY <1>1 DEF InspectCopy
<1>3. restore \in Restorations /\ RestoreIn(contents, restore) BY DEF BundleInv, BundleTypeOK
<1>4. restore.token \in InspectionTokens /\ restore.file \in Nat BY <1>1, <1>3, RestoreTyped
<1> HIDE DEF d
<1>5. restore' \in Restorations BY <1>1, <1>2, <1>4 DEF Restorations, AfterStaging
<1>6. /\ restore'.at = "metadataAgain" /\ restore'.token = restore.token
      /\ restore'.file = restore.file /\ restore'.staged = d
  BY <1>1 DEF AfterStaging
<1>7. GenuineIn(contents, restore.token)
      /\ ReaderIn(contents, restore.token.source, restore.file)
  BY <1>1, <1>3 DEF RestoreIn
<1>8. RestoreIn(contents, restore') BY <1>1, <1>2, <1>6, <1>7 DEF RestoreIn, d
<1> QED BY <1>1, <1>5, <1>8, RestoreStep

\* The second comparison: what was staged came out of the file of the token, which
\* nobody has rewritten, so it is what the token shows.
LEMMA SecondMetadataIInv ==
  ASSUME BundleInv, CheckMetadata("metadataAgain", "hashAgain") PROVE BundleInv'
<1>1. /\ restore.at = "metadataAgain" /\ Same(restore.token.source)
      /\ restore' = [restore EXCEPT !.at = "hashAgain"]
      /\ UNCHANGED <<current, bundleFiles, writer, inspection, token, replaced>>
  BY DEF CheckMetadata, GoOn
<1>2. restore \in Restorations /\ RestoreIn(contents, restore) BY DEF BundleInv, BundleTypeOK
<1>3. /\ restore' \in Restorations /\ restore'.at = "hashAgain"
      /\ restore'.token = restore.token /\ restore'.staged = restore.staged
  BY <1>1, <1>2, GoOnAgainTyped
<1>4. /\ restore.token \in InspectionTokens /\ restore.file \in Nat /\ restore.staged \in Databases
      /\ GenuineIn(contents, restore.token)
      /\ ReaderIn(contents, restore.token.source, restore.file)
      /\ restore.staged.migration <= Supported /\ Consistent(restore.staged)
  BY <1>1, <1>2, RestoreTyped DEF RestoreIn
<1>5. restore.token.source \in Sources BY <1>4 DEF InspectionTokens
<1>6. restore.token.source.file = Len(contents) /\ KeptIn(contents, restore.token.source)
  BY <1>1, <1>4, <1>5, SameSource DEF ReaderIn
<1>7. restore.file = restore.token.source.file BY <1>4, <1>5, <1>6, FilesTyped DEF ReaderIn
<1> DEFINE archive == contents[restore.file].archive
<1>8. Found(archive, restore.token.shown) BY <1>4, <1>6, <1>7 DEF GenuineIn
<1>9. restore.staged = archive[2].holds BY <1>1, <1>2, <1>6, <1>7 DEF RestoreIn
<1> HIDE DEF archive
<1>10. restore.staged = restore.token.shown.digest BY <1>8, <1>9 DEF Found, Matches
<1>11. restore.staged.household = restore.token.shown.household
  BY <1>4, <1>8, <1>9 DEF Found, SameHousehold, Recognised
<1>12. RestoreIn(contents, restore') BY <1>3, <1>4, <1>10, <1>11 DEF RestoreIn
<1> QED BY <1>1, <1>3, <1>12, RestoreStep

LEMMA SecondHashIInv == ASSUME BundleInv, CheckHash("hashAgain", "replace") PROVE BundleInv'
<1>1. /\ restore.at = "hashAgain" /\ restore' = [restore EXCEPT !.at = "replace"]
      /\ UNCHANGED <<current, bundleFiles, writer, inspection, token, replaced>>
  BY DEF CheckHash, GoOn
<1>2. restore \in Restorations /\ RestoreIn(contents, restore) BY DEF BundleInv, BundleTypeOK
<1>3. /\ restore' \in Restorations /\ restore'.at = "replace"
      /\ restore'.token = restore.token /\ restore'.staged = restore.staged
  BY <1>1, <1>2, GoOnAgainTyped
<1>4. RestoreIn(contents, restore') BY <1>1, <1>2, <1>3 DEF RestoreIn
<1> QED BY <1>1, <1>3, <1>4, RestoreStep

LEMMA ReplaceLiveIInv == ASSUME BundleInv, ReplaceLive PROVE BundleInv'
<1> DEFINE d == restore.staged
           manifest == restore.token.shown
<1>1. /\ restore.at = "replace" /\ current' = Migrated(d)
      /\ replaced' = [shown |-> manifest, taken |-> d]
      /\ restore' = Off /\ token' = Nobody /\ UNCHANGED <<bundleFiles, writer, inspection>>
  BY DEF ReplaceLive
<1>2. restore \in Restorations /\ RestoreIn(contents, restore) BY DEF BundleInv, BundleTypeOK
<1>3. /\ d \in Databases /\ manifest \in Manifests
      /\ d.migration <= Supported /\ Consistent(d)
      /\ d = manifest.digest /\ d.household = manifest.household
  BY <1>1, <1>2, RestoreTyped DEF RestoreIn, InspectionTokens
<1> HIDE DEF d, manifest
<1>4. current' \in Databases
  BY <1>1, <1>3, BundleConstants DEF Migrated, ExpectedObjects, Databases
<1>5. /\ replaced' \in [shown : Manifests, taken : Databases]
      /\ replaced'.taken = d /\ replaced'.shown = manifest
  BY <1>1, <1>3
<1>6. ReplacedTrue' BY <1>3, <1>5 DEF ReplacedTrue, Consistent, Recognised
<1>7. restore' \in Restorations /\ RestoreIn(contents, restore') BY <1>1, IdleRestore
<1>8. BundleTypeOK' BY <1>1, <1>4, <1>5, <1>7 DEF BundleInv, bundleFiles, BundleTypeOK
<1> QED BY <1>1, <1>6, <1>7, <1>8 DEF BundleInv, bundleFiles, LastFile, WriterTrue

-----------------------------------------------------------------------------

LEMMA InitBundleInv == BundleInit => BundleInv
<1> SUFFICES ASSUME BundleInit PROVE BundleInv OBVIOUS
<1>1. /\ current = [version |-> 0, household |-> NoHousehold, migration |-> Supported,
                    objects |-> ExpectedObjects(Supported), state |-> "sound"]
      /\ path = Nobody /\ contents = <<>> /\ made = {} /\ token = Nobody /\ replaced = Nobody
      /\ writer = Off /\ inspection = Off /\ restore = Off
  BY DEF BundleInit
<1>2. current \in Databases BY <1>1, BundleConstants DEF Databases, ExpectedObjects
<1>3. writer \in Writers /\ writer.at = "idle" BY <1>1 DEF Writers, Off
<1>4. BundleTypeOK BY <1>1, <1>2, <1>3, IdleInspection, IdleRestore DEF BundleTypeOK
<1> QED BY <1>1, <1>3, <1>4, IdleInspection, IdleRestore
        DEF BundleInv, LastFile, WriterTrue, ReplacedTrue, MadeIn

LEMMA NextBundleInv == BundleInv /\ [BundleNext]_bundleVars => BundleInv'
<1> SUFFICES ASSUME BundleInv, [BundleNext]_bundleVars PROVE BundleInv' OBVIOUS
<1>1. CASE Others BY <1>1, ReplaceIInv, RewriteIInv, RemoveIInv DEF Others
<1>2. CASE Commit BY <1>2, CommitIInv
<1>3. CASE Creates BY <1>3, CopyIInv, WriteIInv, PublishIInv, FailBackupIInv DEF Creates
<1>4. CASE Inspects
  BY <1>4, SelectIInv, OpenIInv, ReadIInv, CompareIInv, IssueIInv, FailInspectionIInv, ExpireIInv
     DEF Inspects
<1>5. CASE Restores
  <2>1. CASE CheckMetadata("metadata", "hash") BY <2>1, FirstCheckIInv DEF CheckMetadata
  <2>2. CASE CheckHash("hash", "open") BY <2>2, FirstCheckIInv DEF CheckHash
  <2> QED BY <1>5, <2>1, <2>2, ConfirmIInv, OpenStagedIInv, StageIInv, SecondMetadataIInv,
             SecondHashIInv, ReplaceLiveIInv, FailRestoreIInv DEF Restores
<1>6. CASE UNCHANGED bundleVars
  BY <1>6 DEF bundleVars, bundleFiles, BundleInv, BundleTypeOK, LastFile, WriterTrue, ReplacedTrue
<1> QED BY <1>1, <1>2, <1>3, <1>4, <1>5, <1>6 DEF BundleNext

\* Every step of the application and of others keeps the invariant.
THEOREM BundleInvariance == BundleSpec => []BundleInv
<1> QED BY InitBundleInv, NextBundleInv, PTL DEF BundleSpec

\* Files, tokens and what is under way keep their types.
THEOREM BundleTypesHold == BundleSpec => []BundleTypeOK
<1>1. BundleInv => BundleTypeOK BY DEF BundleInv
<1> QED BY <1>1, BundleInvariance, PTL

\* restore_backup replaces the live database by the one the user was shown, whatever
\* others do to the file between any two reads, and what create_backup has made
\* passes an inspection.
THEOREM OnlyShownIsRestored == BundleSpec => []RestoredIsShown
<1>1. BundleInv => RestoredIsShown
  BY DEF BundleInv, ReplacedTrue, MadeIn, Found, RestoredIsShown
<1> QED BY <1>1, BundleInvariance, PTL
=============================================================================
