SPECIFICATION Spec
CONSTANTS
    Field <- Kinds
    Level <- Schema
    Sortable <- Directed
    Calls <- Pairs
CHECK_DEADLOCK FALSE
INVARIANT FindMatches
