CONSTANTS
    NULL = NULL
    THREAD_MAX_NUM = 1
    MaxCreates = 2
    MaskedCreate = TRUE
    Asserts = TRUE
    Joiners <- NobodyJoins
SPECIFICATION Spec
CHECK_DEADLOCK FALSE
INVARIANT FreeIsReleased
