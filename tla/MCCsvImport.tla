----------------------------- MODULE MCCsvImport -----------------------------
(* Small files for the model checker.                                       *)
EXTENDS CsvImport, TLC

Row(id, ref, at, x) == [id |-> id, ref |-> ref, at |-> at, amount |-> x]
Deposit(id)  == Row(id, "bank", 0, 1)

File(template, rows) == [template |-> template, rows |-> rows]

\* Rows that only hold together, in the order of their dates; an identity that is
\* repeated; one whose content differs, in the same file and in another; the two
\* other templates; and rows in error.
SmallFiles ==
  {File("activity:v1", <<Row(None, "bank", 1, -1), Deposit("a")>>),
   File("activity:v1", <<Deposit("a"), Deposit("a")>>),
   File("activity:v1", <<Row("a", "bank", 1, 1), Deposit("b")>>),
   File("activity:v1", <<Deposit(None), Row(None, "bank", 0, Unreadable)>>),
   File("quote:v1", <<Row("c", "fund", 0, 1)>>),
   File("quote:v1", <<Row("c", "fund", 0, 1), Row(None, "fund", Unreadable, 1)>>),
   File("benchmark:v1", <<Row("c", "index", 1, 1), Row("c", "index", 1, 1)>>),
   File("benchmark:v1", <<Row(Half, "index", 1, 1)>>)}

\* Money that comes in and goes out again.
InAndOut == {File("activity:v1", <<Deposit(None), Row(None, "bank", 0, -1)>>)}

Symmetry == Permutations(Stamps)
=============================================================================
