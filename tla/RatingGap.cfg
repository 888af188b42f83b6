CONSTANTS
    i1 = i1
    i2 = i2
    v1 = v1
    v2 = v2
    NoValue = NoValue
    Isin <- OneIsin
    Value <- TwoValues
    Source <- OneSource
    Session <- OneSession
    FirstDay = 1
    LastDay = 3
    MaxWithdrawals = 1

SPECIFICATION Spec
INVARIANTS RatingInForceOnQuoteDate
