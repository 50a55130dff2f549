SPECIFICATION Spec
CONSTANTS
    Field <- Kinds
    Level <- Schema
    Sortable <- Directed
    Calls <- Requests
CHECK_DEADLOCK FALSE
INVARIANT TreeMeans
INVARIANT NothingLost
INVARIANT NothingExtra
INVARIANT SortedPages
