CONSTANTS
    NULL = NULL
    THREAD_MAX_NUM = 4
    MaxCreates = 2
    MaskedCreate = FALSE
    Asserts = TRUE
    Joiners <- MainJoins
    Rounds = 2
    Loops = 2
    TickInCreate = FALSE
SPECIFICATION AppFairSpec
CHECK_DEADLOCK FALSE
INVARIANTS ThreadsKept NeverBack TailsSet OneSender RefusedBehindMain
PROPERTIES UsesKernel ImplementsRoundRobin ResumeEnds Thread1Ends MainGoesOn
