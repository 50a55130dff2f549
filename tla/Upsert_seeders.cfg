SPECIFICATION Spec
CONSTANTS
    c1 = c1
    c2 = c2
    k1 = k1
    k2 = k2
    Caller = {c1, c2}
    Key = {k1, k2}
    Idle <- Nobody
    Setups <- TwoSeeders
    MaxFaults = 0
    MaxRuns = 1
    MaxRemoved = 0
INVARIANT NoDuplicates
CHECK_DEADLOCK FALSE
