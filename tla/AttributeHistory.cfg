CONSTANTS
    i1 = i1
    i2 = i2
    v1 = v1
    v2 = v2
    NoValue = NoValue
    Isin <- TwoIsins
    Value <- OneValue
    Source <- TwoSources
    Session <- OneSession
    FirstDay = 1
    LastDay = 3
    MaxWithdrawals = 1
SYMMETRY IsinSymmetry
SPECIFICATION Spec
INVARIANTS IInv RowsTileTheDays
PROPERTIES ImplementsTimeline NoMassWithdrawal
