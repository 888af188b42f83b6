CONSTANTS
    p1 = p1
    p2 = p2
    p3 = p3
    Pid <- ThreePids
    NoPid = NoPid
    MaxCrashes = 0
SPECIFICATION Spec
INVARIANTS NoOverlappingRuns
