---------------------------- MODULE MCDateSeries ----------------------------
(* Instances of DateSeries.  Day 4 is a Thursday and day 7 a Sunday.       *)
EXTENDS DateSeries

None == {}
FirstProduct == {1}
=============================================================================
