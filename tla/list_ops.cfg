CONSTANTS
    NULL = NULL
    Node = {n1, n2, n3, n4}
    List = {a, b}
    Tidy = {b}
    Pool = a
SPECIFICATION ReadySpec
INVARIANTS
    ListsExact
    AssertsHold
    WalkInPool
PROPERTIES
    ImplementsListSpec
    WalkEnds
