-------------------------- MODULE MCUniverseCrawl --------------------------
(* Instances of UniverseCrawl: pages of four records, halved twice.        *)
EXTENDS UniverseCrawl

NoCapOrOne == {NoCap, 1}
=============================================================================
