--------------------------- MODULE MCDerivedViews ---------------------------
(* Instances of DerivedViews.  Day 7 is a Sunday.                          *)
EXTENDS DerivedViews
=============================================================================
