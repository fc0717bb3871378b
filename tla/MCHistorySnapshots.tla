------------------------- MODULE MCHistorySnapshots -------------------------
(* Two loops of the trend page over a short calendar.                       *)
EXTENDS HistorySnapshots

CONSTANTS first, second

TwoLoops == {first, second}
=============================================================================
