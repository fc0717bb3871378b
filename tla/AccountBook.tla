----------------------------- MODULE AccountBook -----------------------------
(***************************************************************************)
(* What the ledger promises to its readers: a household keeps a book of     *)
(* entries; an entry is posted, taken back or amended, one command at a      *)
(* time; and the balance of every endpoint is its baseline plus what the     *)
(* entries in the book add to it, never below zero and never above the cap.  *)
(* Time, rows, replay and reversal records do not appear.                    *)
(***************************************************************************)
EXTENDS Integers, Sequences, FiniteSetsExt

CONSTANTS Endpoints, Origin, MaxAmount

VARIABLES entries,   \* the entries in the book: [id, legs]
          balance    \* endpoint -> its current amount

bookVars == <<entries, balance>>

EntryEffect(entry, e) ==
  MapThenSumSet(LAMBDA k : entry.legs[k].delta,
                {k \in DOMAIN entry.legs : entry.legs[k].ep = e})

Balance(book, e) == Origin[e] + MapThenSumSet(LAMBDA x : EntryEffect(x, e), book)

Init ==
  /\ entries = {}
  /\ balance = [e \in Endpoints |-> Origin[e]]

Balanced == balance' = [e \in Endpoints |-> Balance(entries', e)]
InRange  == \A e \in Endpoints : balance'[e] \in 0 .. MaxAmount

Enter == \E x \in entries' \ entries : entries' = entries \cup {x}
TakeBack == \E x \in entries : entries' = entries \ {x}
Amend == \E x \in entries, y \in entries' \ entries : entries' = (entries \ {x}) \cup {y}

Next == (Enter \/ TakeBack \/ Amend) /\ Balanced /\ InRange

Spec == Init /\ [][Next]_bookVars
=============================================================================
