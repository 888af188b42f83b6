CONSTANTS
    FirstDay = 8
    FirstAsOf = 13
    LastDay = 15
    MaxGapDays = 2
    SkipRetryDays = 1
    MaxLosses = 1
SPECIFICATION FairSpec
INVARIANTS IInv IncompleteDaysCovered
PROPERTIES WholeStaysWhole SessionsBecomeWhole
