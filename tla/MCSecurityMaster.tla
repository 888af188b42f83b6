------------------------- MODULE MCSecurityMaster -------------------------
EXTENDS SecurityMaster

(* Two dates, two coupons the tolerance tells apart, and three kinds of    *)
(* interest, one with a coupon of its own.                                 *)
MCDays == 1..2
MCCoupons == {7000, 8000}
MCSpellings == {"Fixed", "zero interest", "variable-others"}
=============================================================================
