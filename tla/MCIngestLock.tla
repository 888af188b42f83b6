---------------------------- MODULE MCIngestLock ----------------------------
(* Instances of IngestLock.                                                *)
EXTENDS IngestLock

CONSTANTS p1, p2, p3

TwoPids == {p1, p2}
ThreePids == {p1, p2, p3}
=============================================================================
