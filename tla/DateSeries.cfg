CONSTANTS
    NumProducts = 2
    CountsWritten <- FirstProduct
    MayParseEmpty <- FirstProduct
    FirstDay = 5
    LastDay = 8
    MaxGapDays = 1
    SkipRetryDays = 1
    MaxLosses = 1
SPECIFICATION Spec
INVARIANTS LoadedStaysSuccess NoSilentHole BackfillCoversUnsettled IInv
