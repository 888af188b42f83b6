--------------------------- MODULE MCWindowSeries ---------------------------
(* Instances of WindowSeries.  Day 8 is a Monday, day 14 a Sunday.         *)
EXTENDS WindowSeries
=============================================================================
