CONSTANTS
    Worker = {w1, w2, w3}
    Main = Main
    Idle = Idle
    Busy = {Main, w1}
    OddStack = {w1}
    StackWords <- StackSizes
    Results <- RegisterFiles
    thread_t <- ThreadOffsets
    thread_ctx_t <- ContextOffsets
SPECIFICATION CoreFairSpec
CHECK_DEADLOCK FALSE
INVARIANTS MainAlive FramesSound
PROPERTIES Advances ContextKept StartsAtHandler EveryoneRuns
