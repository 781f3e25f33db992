SPECIFICATION Spec
CONSTANTS
    Index = {1, 2, 3}
    Vacant = 0
    Capacity = 7
    NULL = NULL
INVARIANTS
    SessionClosed
    WholeSnapshot
    CountersOfPort
PROPERTIES
    AlwaysSnapshot
