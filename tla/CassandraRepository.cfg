SPECIFICATION Spec
CONSTANTS
    Key <- Keys
    Caller = {"a", "b"}
    Reader = {"r"}
    Calls <- Changes
    Shapes <- Asked
    MaxFaults = 1
    None = None
CONSTRAINT Few
INVARIANT TypeOK
INVARIANT Told
INVARIANT PagesExact
PROPERTY RowsRemain
