CONSTANTS
    NumRecords = 9
    MaxPageSize = 4
    LadderStep = 2
    MaxSkippedPages = 2
    MaxUnreachablePages = 2
    AssumeEndAfter = 2
    Caps <- NoCapOrOne
    MaxBroken = 1
    MaxFaults = 2
    MaxHollow = 1
SPECIFICATION CrawlFairSpec
INVARIANTS EveryRecordCounted LadderLosesOnlyBroken NoEmptySnapshot EndGuessedOnlyBlind OutageIsCheap
PROPERTIES PullEnds
CHECK_DEADLOCK FALSE
