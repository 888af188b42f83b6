-------------------------- MODULE MCBitemporalRows --------------------------
(* Instances of BitemporalRows.                                            *)
EXTENDS BitemporalRows

CONSTANTS v1, v2

TwoValues == {v1, v2}
TwoSessions == {1, 2}
=============================================================================
