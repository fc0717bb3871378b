------------------------------ MODULE CsvImport ------------------------------
(***************************************************************************)
(* Import of a CSV file in two steps: application/csv_preview_service.rs     *)
(* and csv_import_service.rs.                                               *)
(*                                                                         *)
(* A preview reads the file, checks every row against one snapshot of the    *)
(* database, writes nothing and issues a token that holds what identifies    *)
(* the file.  A commit takes the write lock, compares the file with the      *)
(* token, opens it again, applies its rows one after the other and saves     *)
(* them with their provenance, or nothing.  The file belongs to the user and *)
(* may change at any moment.                                                *)
(*                                                                         *)
(* A row appends one fact: an Activity of an account, a quote of an          *)
(* instrument or a level of a benchmark.  The fields of a row are its        *)
(* identity (source namespace and external id), reference, day and amount;   *)
(* Unreadable stands for any text that does not parse.                       *)
(***************************************************************************)
EXTENDS Integers, Sequences, FiniteSetsExt

CONSTANTS
  Accounts, Instruments, Benchmarks,
  Identities,   \* pairs of a source namespace and an external id
  None,         \* a row without identity
  Half,         \* a row with one half of an identity
  Unreadable,   \* a day or an amount that does not parse
  Files,        \* the contents the file may have: [template, rows]
  Stamps,       \* what the file system tells of the file: size, time, inode
  Tokens,       \* preview tokens
  Archivable,   \* bound on what is archived
  Posted,       \* bound on the amounts posted by hand
  MaxAmount,    \* cap of Money
  Horizon,      \* bound on the days
  MaxFacts,     \* bound on the facts
  MaxBatches    \* bound on the imports

References == Accounts \cup Instruments \cup Benchmarks
Days       == 0 .. Horizon

\* csv_template.rs: what the columns of a template are parsed into.
CsvRows ==
  [id : Identities \cup {None, Half}, ref : References,
   at : Days \cup {Unreadable}, amount : Int \cup {Unreadable}]
CsvFiles == [template : {"activity:v1", "quote:v1", "benchmark:v1"}, rows : Seq(CsvRows)]

ASSUME ImportConstants ==
  /\ Archivable \subseteq References /\ Posted \subseteq Int
  /\ MaxAmount \in Nat /\ Horizon \in Nat /\ MaxFacts \in Nat /\ MaxBatches \in Nat
  /\ Files \subseteq CsvFiles
  /\ None \notin Identities /\ Unreadable \notin Int

VARIABLES
  today,      \* the current local date
  file,       \* the file at the path: [stamp, content]
  previews,   \* csv_previews: token -> what the file was; no entry once expired
  archived,   \* archived accounts, instruments and benchmarks
  facts,      \* activities, quotes and benchmark observations, in order
  amount,     \* account -> its latest amount
  items,      \* import_items, in order
  batches,    \* import_batches, in order
  tx          \* the commit in progress

database == <<archived, facts, amount, items, batches>>
vars == <<today, file, previews, database, tx>>

Expired == [stamp |-> "none"]
NoTx    == [phase |-> "none"]

-----------------------------------------------------------------------------
(* Rows                                                                      *)

Fact(row) == [ref |-> row.ref, at |-> row.at, amount |-> row.amount]

\* Every persisted fact of the row, and its identity.
Fingerprint(row) == [id |-> row.id, fact |-> Fact(row)]

\* Amounts are parsed before references are looked up, and the days of Activities
\* and of levels too; the time of a quote is parsed when it is appended.
Parses(row) == row.amount # Unreadable /\ (row.ref \notin Instruments => row.at # Unreadable)

CheckReference(row) == row.ref \in References \ archived

\* An Activity leaves the account in range, is not in the future and not before
\* the History Origin, day 0.  `amounts` is the state it is posted to.
Appends(row, amounts) ==
  /\ row.at # Unreadable
  /\ row.ref \in Accounts =>
       /\ row.at \in 0 .. today
       /\ amounts[row.ref] + row.amount \in 0 .. MaxAmount

\* The first item saved under an identity.
Known(id) ==
  LET mine == {k \in DOMAIN items : items[k].id = id}
  IN  IF mine = {} THEN {} ELSE {items[Min(mine)]}

\* Mutant of Prior: rows of the same file are not looked at.
PriorSaved(id, seen) == Known(id)

\* What bears the identity: an earlier row of the file, or else a saved item.
Prior(id, seen) ==
  LET inFile == {r \in seen : r.id = id} IN IF inFile # {} THEN inFile ELSE Known(id)

ResolveIdentity(row, seen) ==
  CASE row.id = None -> "accept"
    [] row.id = Half -> "invalid"
    [] OTHER -> LET prior == Prior(row.id, seen)
                IN  IF prior = {} THEN "accept"
                    ELSE IF \A r \in prior : r.print = Fingerprint(row) THEN "duplicate"
                    ELSE "conflict"

-----------------------------------------------------------------------------
(* Preview                                                                   *)

Seen(row, target) == [id |-> row.id, print |-> Fingerprint(row), target |-> target]

\* A second Activity that looks like one without identity draws a warning and is
\* not checked further.
Warned(row, seen) ==
  row.id = None /\ row.ref \in Accounts /\ \E r \in seen : r.print = Fingerprint(row)

\* replay_activity, replay_quote, replay_benchmark: each row is checked alone,
\* against the snapshot; the rows before it have left nothing but their identity.
PreviewRow(row, seen) ==
  IF ~(Parses(row) /\ CheckReference(row)) THEN "invalid"
  ELSE LET action == ResolveIdentity(row, seen)
       IN  IF action = "accept" /\ row.ref \in Accounts /\ ~Warned(row, seen)
                                /\ ~Appends(row, amount)
           THEN "invalid" ELSE action

\* What the rows before the n-th one have left, in the order of the file.
SeenBefore(rows, n) ==
  LET seen[k \in 0 .. n - 1] ==
        IF k = 0 THEN {}
        ELSE IF Parses(rows[k]) /\ CheckReference(rows[k])
                /\ ResolveIdentity(rows[k], seen[k - 1]) \in {"accept", "duplicate"}
             THEN seen[k - 1] \cup {Seen(rows[k], 0)} ELSE seen[k - 1]
  IN  seen[n - 1]

\* can_commit: no row is in error.
CanCommit(rows) ==
  \A n \in DOMAIN rows : PreviewRow(rows[n], SeenBefore(rows, n)) \in {"accept", "duplicate"}

Preview(t) ==
  /\ previews[t] = Expired
  /\ previews' = [previews EXCEPT ![t] = [stamp |-> file.stamp, content |-> file.content]]
  /\ UNCHANGED <<today, file, database, tx>>

\* Thirty minutes have gone by.
Expire(t) ==
  /\ previews' = [previews EXCEPT ![t] = Expired]
  /\ UNCHANGED <<today, file, database, tx>>

-----------------------------------------------------------------------------
(* Commit                                                                    *)

\* Mutant of SameFile: the file system's word is taken for the content.
SameStamp(preview) == file.stamp = preview.stamp

\* The metadata and the SHA-256 of the file are those of the preview.
SameFile(preview) == file.stamp = preview.stamp /\ file.content = preview.content

\* revalidate_csv_preview_token, under the write lock.
BeginCommit(t) ==
  /\ tx = NoTx /\ Len(batches) < MaxBatches
  /\ previews[t] # Expired /\ SameFile(previews[t])
  /\ tx' = [phase |-> "checked", stored |-> previews[t]]
  /\ UNCHANGED <<today, file, previews, database>>

\* Activities are applied by date; rows of one date, and other facts, by number.
Before(content, p, q) ==
  LET DateOf(row) == IF row.at = Unreadable THEN Horizon + 1 ELSE row.at
  IN  IF content.template = "activity:v1" /\ DateOf(p[2]) # DateOf(q[2])
      THEN DateOf(p[2]) < DateOf(q[2]) ELSE p[1] < q[1]

SortedFirst(content, left) ==
  {numbered \in left : \A other \in left \ {numbered} : Before(content, numbered, other)}

\* What a transaction works with until it ends.
Work(stored, content) ==
  [phase |-> "applying", stored |-> stored, content |-> content,
   left |-> {<<n, content.rows[n]>> : n \in DOMAIN content.rows}, seen |-> {},
   facts |-> facts, amount |-> amount, planned |-> <<>>, failed |-> FALSE]

\* The file is read a second time, and compared a second time; what is applied
\* are the bytes of this reading.
OpenSource ==
  /\ tx.phase = "checked"
  /\ tx' = IF SameFile(tx.stored) THEN Work(tx.stored, file.content) ELSE NoTx
  /\ UNCHANGED <<today, file, previews, database>>

Planned(numbered, outcome, target) ==
  [row |-> numbered[1], id |-> numbered[2].id, print |-> Fingerprint(numbered[2]),
   outcome |-> outcome, target |-> target]

\* The rows before this one have been applied.
RowState(w) == w.amount

Rejected(w, numbered) == [w EXCEPT !.left = @ \ {numbered}, !.failed = TRUE]

Duplicate(w, numbered, target) ==
  [w EXCEPT !.left = @ \ {numbered}, !.seen = @ \cup {Seen(numbered[2], target)},
            !.planned = Append(@, Planned(numbered, "exact_duplicate", target))]

Committed(w, numbered) ==
  LET row    == numbered[2]
      target == Len(w.facts) + 1
  IN  [w EXCEPT !.left = @ \ {numbered},
                !.facts = Append(@, Fact(row)),
                !.amount = [a \in Accounts |-> IF a = row.ref THEN RowState(w)[a] + row.amount
                                               ELSE @[a]],
                !.seen = IF row.id = None THEN @ ELSE @ \cup {Seen(row, target)},
                !.planned = Append(@, Planned(numbered, "committed", target))]

\* commit_activity_row, commit_quote_row, commit_benchmark_row.  A row in error
\* does not stop those after it.
AfterRow(w, numbered) ==
  LET row    == numbered[2]
      action == ResolveIdentity(row, w.seen)
  IN  IF ~(Parses(row) /\ CheckReference(row)) THEN Rejected(w, numbered)
      ELSE CASE action = "duplicate" ->
                  Duplicate(w, numbered, (CHOOSE r \in Prior(row.id, w.seen) : TRUE).target)
             [] action = "accept" /\ Appends(row, RowState(w)) -> Committed(w, numbered)
             [] OTHER -> Rejected(w, numbered)

ApplyRow ==
  /\ tx.phase = "applying"
  /\ \E numbered \in SortedFirst(tx.content, tx.left) : tx' = AfterRow(tx, numbered)
  /\ UNCHANGED <<today, file, previews, database>>

Accepted == ~tx.failed

Count(planned, outcome) == Cardinality({k \in DOMAIN planned : planned[k].outcome = outcome})

\* The batch and its items are written with the facts, or none of them is.
FinishCommit ==
  /\ tx.phase = "applying" /\ tx.left = {}
  /\ IF Accepted
     THEN /\ Len(tx.facts) <= MaxFacts
          /\ facts' = tx.facts /\ amount' = tx.amount
          /\ items' = items \o tx.planned
          /\ batches' = Append(batches,
               [file |-> tx.content, last |-> Len(items) + Len(tx.planned),
                committed |-> Count(tx.planned, "committed"),
                duplicates |-> Count(tx.planned, "exact_duplicate")])
     ELSE UNCHANGED <<facts, amount, items, batches>>
  /\ tx' = NoTx
  /\ UNCHANGED <<today, file, previews, archived>>

\* Any write may fail.
Rollback ==
  /\ tx # NoTx
  /\ tx' = NoTx
  /\ UNCHANGED <<today, file, previews, database>>

\* The application ends: tokens are gone, and so is a transaction.
Restart ==
  /\ tx' = NoTx
  /\ previews' = [t \in Tokens |-> Expired]
  /\ UNCHANGED <<today, file, database>>

-----------------------------------------------------------------------------
(* The user, elsewhere                                                       *)

\* Other writers wait for the write lock.
Post(a, x) ==
  /\ tx = NoTx /\ Len(facts) < MaxFacts /\ a \notin archived
  /\ amount[a] + x \in 0 .. MaxAmount
  /\ facts' = Append(facts, [ref |-> a, at |-> today, amount |-> x])
  /\ amount' = [amount EXCEPT ![a] = @ + x]
  /\ UNCHANGED <<today, file, previews, archived, items, batches, tx>>

Archive(r) ==
  /\ tx = NoTx
  /\ archived' = IF r \in archived THEN archived \ {r} ELSE archived \cup {r}
  /\ UNCHANGED <<today, file, previews, facts, amount, items, batches, tx>>

EditFile ==
  /\ file' \in [stamp : Stamps, content : Files]
  /\ UNCHANGED <<today, previews, database, tx>>

Midnight ==
  /\ today < Horizon
  /\ today' = today + 1
  /\ UNCHANGED <<file, previews, database, tx>>

Init ==
  /\ today = 0
  /\ file \in [stamp : Stamps, content : Files]
  /\ previews = [t \in Tokens |-> Expired]
  /\ archived = {} /\ facts = <<>> /\ items = <<>> /\ batches = <<>>
  /\ amount = [a \in Accounts |-> 0]
  /\ tx = NoTx

Next ==
  \/ \E t \in Tokens : Preview(t) \/ Expire(t) \/ BeginCommit(t)
  \/ OpenSource \/ ApplyRow \/ FinishCommit \/ Rollback \/ Restart
  \/ \E a \in Accounts, x \in Posted : Post(a, x)
  \/ \E r \in Archivable : Archive(r)
  \/ EditFile \/ Midnight

Spec == Init /\ [][Next]_vars

-----------------------------------------------------------------------------
(* Properties                                                                *)

CsvFacts == [ref : References, at : Days, amount : Int]
Prints   == [id : Identities \cup {None}, fact : CsvFacts]
Previews == [stamp : Stamps, content : Files]

ImportItems ==
  [row : Nat, id : Identities \cup {None}, print : Prints,
   outcome : {"committed", "exact_duplicate"}, target : Nat]
ImportBatches == [file : Files, last : Nat, committed : Nat, duplicates : Nat]

Transactions ==
  {NoTx} \cup [phase : {"checked"}, stored : Previews]
  \cup [phase : {"applying"}, stored : Previews, content : Files,
        left : SUBSET (Nat \X CsvRows),
        seen : SUBSET [id : Identities, print : Prints, target : Nat],
        facts : Seq(CsvFacts), amount : [Accounts -> 0 .. MaxAmount],
        planned : Seq(ImportItems), failed : BOOLEAN]

TypeOK ==
  /\ today \in Days /\ file \in Previews
  /\ previews \in [Tokens -> Previews \cup {Expired}]
  /\ archived \subseteq References
  /\ facts \in Seq(CsvFacts) /\ amount \in [Accounts -> 0 .. MaxAmount]
  /\ items \in Seq(ImportItems) /\ batches \in Seq(ImportBatches)
  /\ tx \in Transactions

\* An item leads to the fact that has its content: the one its row appended, or
\* the one an equal row had appended before.
Provenance ==
  \A k \in DOMAIN items :
    items[k].target \in DOMAIN facts /\ facts[items[k].target] = items[k].print.fact

\* The items that say a fact was appended.
Imported == {k \in DOMAIN items : items[k].outcome = "committed"}

\* An identity is imported once: however often a file is committed, with one
\* token or with several, edited or restored in between, and if one row repeats
\* another.  A second content under the identity is never imported at all.
ImportedOnce ==
  \A j, k \in DOMAIN items : items[j].id = items[k].id /\ items[j].id # None =>
    /\ items[j].print = items[k].print /\ items[j].target = items[k].target
    /\ j \in Imported /\ k \in Imported => j = k

\* What is imported is what was previewed: the file of an import is the one its
\* token was issued for, whatever was done to the file while it was being read.
OnlyPreviewed ==
  [][batches' # batches =>
       batches'[Len(batches')].file = tx.stored.content]_vars

\* A preview without errors announces a commit that is accepted, and one with
\* errors a commit that is refused, as long as nothing changes in between.
PreviewDecides ==
  \A f \in Files :
    LET First(w) == CHOOSE numbered \in SortedFirst(f, w.left) : TRUE
        work[n \in 0 .. Len(f.rows)] ==
          IF n = 0 THEN Work(Expired, f) ELSE AfterRow(work[n - 1], First(work[n - 1]))
    IN  CanCommit(f.rows) <=> ~work[Len(f.rows)].failed
=============================================================================
