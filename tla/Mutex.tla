------------------------------- MODULE Mutex -------------------------------
(***************************************************************************)
(* The mutexes of hello_world/sys/mutex.c beside the spin locks, with      *)
(* which they share the core and its exclusive monitor.                    *)
(*                                                                         *)
(* The clients call the functions in any order, with interrupts enabled.   *)
(* The memory of a mutex is zero before mutex_init, as mutex.c:11 assumes. *)
(***************************************************************************)
EXTENDS SpinLock

CONSTANTS
    Mutexes,         \* the mutexes
    NoMutex          \* what a thread is in no call about

ASSUME MutexAssumption == NoMutex \notin Mutexes

VARIABLES
    lock,            \* lock[m]: mutex_t.lock is MUTEX_LOCKED
    about,           \* the mutex that a thread's call is about
    given            \* auxiliary: the calls on a mutex that have returned

mutexVars == <<lock, about, given>>

spinVars == <<word, primask, want, flags, held>>

MutexInit ==
    /\ Init
    /\ lock = [m \in Mutexes |-> FALSE]
    /\ about = [t \in Thread |-> NoMutex]
    /\ given = [m \in Mutexes |-> 0]

(* mutex_init runs the same sequence as mutex_lock.                         *)
mutex_lock(t, m) ==
    /\ At(t, "run") /\ ~primask
    /\ about' = [about EXCEPT ![t] = m]
    /\ Goto(t, "mutex_load")
    /\ UNCHANGED <<spinVars, core, cur, lock, given>>

mutex_init(t, m) == mutex_lock(t, m)

(* LDREX and CMP *)
MutexLoad(t) ==
    /\ At(t, "mutex_load")
    /\ monitor' = TRUE
    /\ Goto(t, IF lock[about[t]] THEN "mutex_wait" ELSE "mutex_store")
    /\ UNCHANGED <<spinVars, mutexVars, event, asleep, cur>>

MutexGiven(t) ==
    /\ lock' = [lock EXCEPT ![about[t]] = TRUE]
    /\ given' = [given EXCEPT ![about[t]] = @ + 1]
    /\ about' = [about EXCEPT ![t] = NoMutex]
    /\ monitor' = FALSE
    /\ Goto(t, "run")
    /\ UNCHANGED <<spinVars, event, asleep, cur>>

(* STREXNE, CMPNE and BEQ 2f, whose condition is tested on the result of    *)
(* the store: one that failed waits too, and BEQ 1b is never taken.         *)
(* Mutant: the result of the store is not looked at.                       *)
MutexStoreUnchecked(t) == At(t, "mutex_store") /\ MutexGiven(t)

MutexStore(t) ==
    /\ At(t, "mutex_store")
    /\ \/ monitor /\ MutexGiven(t)
       \/ /\ ~monitor
          /\ Goto(t, "mutex_wait")
          /\ UNCHANGED <<spinVars, mutexVars, core, cur>>

(* WFI, which the event register does not end, and B 1b *)
MutexWait(t) ==
    /\ At(t, "mutex_wait")
    /\ asleep' = TRUE
    /\ Goto(t, "mutex_load")
    /\ UNCHANGED <<spinVars, mutexVars, monitor, event, cur>>

(* The function has no body. *)
mutex_unlock(t, m) ==
    /\ At(t, "run") /\ ~primask
    /\ UNCHANGED <<spinVars, mutexVars, core, cur, pc>>

MutexStep(t) ==
    \/ \E m \in Mutexes : \/ mutex_init(t, m) \/ mutex_lock(t, m)
                          \/ mutex_unlock(t, m)
    \/ MutexLoad(t) \/ MutexStore(t) \/ MutexWait(t)

MutexNext ==
    \/ Next /\ UNCHANGED mutexVars
    \/ \E t \in Thread : MutexStep(t)

MutexSpec == MutexInit /\ [][MutexNext]_<<vars, mutexVars>>

-----------------------------------------------------------------------------
TypeOK ==
    /\ word \in [Lock -> BOOLEAN]
    /\ primask \in BOOLEAN /\ monitor \in BOOLEAN
    /\ event \in BOOLEAN /\ asleep \in BOOLEAN
    /\ cur \in Thread
    /\ pc \in [Thread -> {"run", "load", "wait", "store",
                         "mutex_load", "mutex_wait", "mutex_store"}]
    /\ want \in [Thread -> Lock \cup {NoLock}]
    /\ flags \in [Thread -> [Lock -> BOOLEAN]]
    /\ held \in [Thread -> SUBSET Lock]
    /\ lock \in [Mutexes -> BOOLEAN]
    /\ about \in [Thread -> Mutexes \cup {NoMutex}]
    /\ given \in [Mutexes -> Nat]

(* One call returns in the life of a mutex, wherever interrupts fall and    *)
(* whatever spin locks are taken in between: after mutex_init (mutex.c:9)  *)
(* every mutex_lock waits, also behind mutex_unlock (mutex.c:63).          *)
GivenOnce == \A m \in Mutexes : given[m] = IF lock[m] THEN 1 ELSE 0
=============================================================================
