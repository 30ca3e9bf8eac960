CONSTANTS
    NULL = NULL
    THREAD_MAX_NUM = 2
    MaxCreates = 2
    MaskedCreate = TRUE
    Asserts = TRUE
    Joiners <- AnyoneJoins
SPECIFICATION Spec
CHECK_DEADLOCK FALSE
INVARIANT NeverBack
