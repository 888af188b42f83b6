CONSTANTS
    v1 = v1
    v2 = v2
    NumKeys = 2
    Value <- TwoValues
    Session <- TwoSessions
    MaxClock = 5
SPECIFICATION Spec
CHECK_DEADLOCK FALSE
INVARIANTS IInv OneCurrentVersion BeliefAnswerable
PROPERTIES NothingForgotten
