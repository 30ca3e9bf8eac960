CONSTANTS
    NULL = NULL
    THREAD_MAX_NUM = 2
    MaxCreates = 3
    MaskedCreate = FALSE
    Asserts = TRUE
    Joiners <- AnyoneJoins
SPECIFICATION Spec
CHECK_DEADLOCK FALSE
INVARIANTS TypeOK ActiveIsRunning CreatorsHold IdleLast WaitQueueTails
