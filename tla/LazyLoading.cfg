SPECIFICATION Spec
CONSTANTS
    Owner = {1, 2}
    Child = {3, 4}
    Setups <- Fields
    MaxWrites = 1
    MaxFaults = 1
    Gone = Gone
    Nil = Nil
    None = None
INVARIANT TypeOK
INVARIANT ItsOwnRow
INVARIANT CacheIsAQuery
INVARIANT EagerCovers
INVARIANT ReloadTold
