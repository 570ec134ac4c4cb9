CONSTANTS
    Reports = {1, 3, 9}
    Business = {1, 9}
    Rows <- MCRows
    Initial = 9
    MaxConns = 2
    MaxResends = 1
    None = None
SPECIFICATION Spec
CHECK_DEADLOCK FALSE
INVARIANTS
    StoredRight
PROPERTIES
    Drained
