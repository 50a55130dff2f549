SPECIFICATION Spec
CONSTANTS
    N = 2
    SaveTries = 2
    Setups <- MySQLRetrying
INVARIANT OkMeansAll
CHECK_DEADLOCK FALSE
