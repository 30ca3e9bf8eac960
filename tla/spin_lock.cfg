CONSTANTS
    Thread = {t1, t2, t3}
    Plain = {1, 2}
    Irq = {3}
    IrqStore = {4, 5}
    NoLock = NoLock
    Mutexes = {m}
    NoMutex = NoMutex
SPECIFICATION MutexSpec
INVARIANTS
    Exclusive
    SectionsAlone
    NeverFrozen
    MaskLifted
    GivenOnce
