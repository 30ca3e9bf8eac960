CONSTANTS
    NULL = NULL
    THREAD_MAX_NUM = 1
    MaxCreates = 1
    MaskedCreate = TRUE
    Asserts = TRUE
    Joiners <- MainJoins
SPECIFICATION Spec
CHECK_DEADLOCK FALSE
INVARIANT JoinWaits
