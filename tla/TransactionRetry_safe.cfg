SPECIFICATION FairSpec
CONSTANTS
    N = 3
    SaveTries = 3
    Setups <- KeepTransaction
INVARIANT TypeOK
INVARIANT NoTransactionLeft
INVARIANT CancelStops
PROPERTY AtomicSpec
PROPERTY Returns
CHECK_DEADLOCK FALSE
