SPECIFICATION Spec
CONSTANTS
    c1 = c1
    c2 = c2
    k1 = k1
    k2 = k2
    Caller = {c1, c2}
    Key = {k1, k2}
    Idle <- Nobody
    Setups <- Sound
    MaxFaults = 2
    MaxRuns = 3
    MaxRemoved = 1
INVARIANT TypeOK
INVARIANT NoDuplicates
INVARIANT RaceTolerated
INVARIANT CreatedOnce
INVARIANT SeedComplete
INVARIANT SeedsInOrder
CHECK_DEADLOCK FALSE
