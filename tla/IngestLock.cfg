CONSTANTS
    p1 = p1
    p2 = p2
    p3 = p3
    Pid <- TwoPids
    NoPid = NoPid
    MaxCrashes = 2
SPECIFICATION FairSpec
INVARIANTS HolderKeepsLock PostgresKeptForRun IInv
PROPERTIES IngestsAgain
