CONSTANTS
    NULL = NULL
    THREAD_MAX_NUM = 4
    MaxCreates = 2
    MaskedCreate = FALSE
    Asserts = TRUE
    Joiners <- MainJoins
    Rounds = 1
    Loops = 1
    TickInCreate = TRUE
SPECIFICATION AppSpec
CHECK_DEADLOCK FALSE
INVARIANT ThreadsKept
