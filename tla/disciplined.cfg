CONSTANTS
    NULL = NULL
    THREAD_MAX_NUM = 3
    MaxCreates = 5
    MaskedCreate = TRUE
    Asserts = FALSE
    Joiners <- NobodyJoins
SPECIFICATION FairSpec
CHECK_DEADLOCK FALSE
INVARIANTS QueuesExact DrawnIsOwned
PROPERTIES ImplementsRoundRobin Served
