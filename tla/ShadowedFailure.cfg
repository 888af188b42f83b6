CONSTANTS
    NumProducts = 1
    CountsWritten <- None
    MayParseEmpty <- None
    FirstDay = 5
    LastDay = 9
    MaxGapDays = 2
    SkipRetryDays = 1
    MaxLosses = 0
SPECIFICATION Spec
INVARIANTS EveryFailedDayCovered
