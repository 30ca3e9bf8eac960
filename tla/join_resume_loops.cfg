CONSTANTS
    NULL = NULL
    THREAD_MAX_NUM = 2
    MaxCreates = 2
    MaskedCreate = TRUE
    Asserts = TRUE
    Joiners <- AnyoneJoins
SPECIFICATION FairSpec
CHECK_DEADLOCK FALSE
PROPERTY ResumeEnds
