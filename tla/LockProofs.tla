----------------------------- MODULE LockProofs -----------------------------
(***************************************************************************)
(* Proofs about SpinLock and Mutex, for any threads, locks and mutexes.    *)
(***************************************************************************)
EXTENDS Mutex, TLAPS

-----------------------------------------------------------------------------
(* The inductive invariant *)

(* A thread wants a lock exactly while it is inside a function that takes   *)
(* it, and it is above the locks the thread holds.                         *)
Asks ==
    \A t \in Thread : pc[t] \in {"load", "wait", "store"} <=> want[t] # NoLock

Ascending ==
    \A t \in Thread : want[t] \in Lock => \A k \in held[t] : k < want[t]

(* An armed monitor means that nothing has run since the load: the lock is  *)
(* still free when its store succeeds.                                     *)
Reserved == monitor /\ pc[cur] = "store" => ~word[want[cur]]

(* Interrupts are masked from the first instruction of a masked section.   *)
EntersMasked == \A t \in Thread : want[t] \in Masked => cur = t /\ primask

(* spin_lock and spin_lock_irq are called outside every masked section, so  *)
(* a lock of spin_lock_irq is the outermost of its section.                *)
CalledUnmasked ==
    \A t \in Thread : want[t] \in Plain \cup Irq => held[t] \cap Masked = {}

IrqOutermost ==
    \A t \in Thread :
        \A l \in held[t] \cap Irq, k \in held[t] \cap Masked : l <= k

(* The flags of a lock say whether it was taken inside a masked section.   *)
FlagsExact ==
    \A t \in Thread, l \in IrqStore :
        l \in held[t] \/ want[t] = l =>
            (flags[t][l] <=> \E k \in held[t] \cap Masked : k < l)

(* A thread in a call on a mutex names it, and made the call unmasked.       *)
InCall ==
    \A t \in Thread :
        pc[t] \in {"mutex_load", "mutex_wait", "mutex_store"} =>
            about[t] \in Mutexes /\ held[t] \cap Masked = {}

(* The monitor stays armed from a load to the store only if the thread has  *)
(* not been interrupted in between, and then the mutex is still free.      *)
Armed == monitor /\ pc[cur] = "mutex_store" => ~lock[about[cur]]

IInv ==
    /\ TypeOK
    /\ Exclusive
    /\ SectionsAlone
    /\ MaskLifted
    /\ NeverFrozen
    /\ Asks
    /\ Ascending
    /\ Reserved
    /\ EntersMasked
    /\ CalledUnmasked
    /\ IrqOutermost
    /\ FlagsExact
    /\ InCall
    /\ Armed
    /\ GivenOnce

-----------------------------------------------------------------------------
(* What SpinLockAssumption says of one lock: it is a number, and of one of  *)
(* the three kinds.                                                        *)
LEMMA LockFacts ==
    ASSUME NEW l \in Lock
    PROVE  /\ l \in Nat /\ l # NoLock
           /\ l \in Plain <=> l \notin Masked
           /\ l \in Irq => l \in Masked /\ l \notin IrqStore
           /\ l \in IrqStore => l \in Masked /\ l \notin Irq
BY SpinLockAssumption DEF Lock, Masked

(* No lock is held or wanted, and interrupts are on.                       *)
LEMMA InitInv ==
    ASSUME MutexInit
    PROVE  IInv
BY LockFacts DEF MutexInit, Init, IInv, TypeOK, InCall, Armed, GivenOnce,
    Exclusive, SectionsAlone, MaskLifted, NeverFrozen, Asks, Ascending,
    Reserved, EntersMasked, CalledUnmasked, IrqOutermost, FlagsExact, Lock,
    Masked

(* The calls: the new lock is above those held, and the mask and the flags  *)
(* are set before it is waited for.                                        *)
LEMMA LockStep ==
    ASSUME IInv, NEW t \in Thread, NEW l \in Lock, spin_lock(t, l),
           UNCHANGED mutexVars
    PROVE  IInv'
<1>1. TypeOK'
  BY DEF mutexVars, spin_lock, Calls, Goto, core, IInv, TypeOK
<1>2. Exclusive'
  BY DEF spin_lock, Calls, IInv, Exclusive
<1>3. SectionsAlone'
  BY DEF spin_lock, Calls, IInv, SectionsAlone
<1>4. MaskLifted'
  BY DEF spin_lock, IInv, MaskLifted
<1>5. NeverFrozen'
  BY DEF spin_lock, IInv, NeverFrozen
<1>6. Asks'
  BY LockFacts DEF spin_lock, Calls, Goto, IInv, TypeOK, Asks
<1>7. Ascending'
  BY DEF spin_lock, Calls, IInv, Ascending
<1>8. Reserved'
  BY DEF spin_lock, Calls, At, Goto, IInv, Reserved
<1>9. EntersMasked'
  BY LockFacts DEF spin_lock, Calls, IInv, EntersMasked
<1>10. CalledUnmasked'
  BY DEF spin_lock, Calls, IInv, SectionsAlone, CalledUnmasked
<1>11. IrqOutermost'
  BY DEF spin_lock, Calls, IInv, IrqOutermost
<1>12. FlagsExact'
  BY LockFacts DEF spin_lock, Calls, IInv, FlagsExact
<1>13. InCall' /\ Armed' /\ GivenOnce'
  BY DEF At, spin_lock, Calls, Goto, mutexVars, IInv, TypeOK,
      InCall, Armed, GivenOnce
<1> QED BY <1>1, <1>2, <1>3, <1>4, <1>5, <1>6, <1>7, <1>8, <1>9,
          <1>10, <1>11, <1>12, <1>13 DEF IInv

LEMMA LockIrqStep ==
    ASSUME IInv, NEW t \in Thread, NEW l \in Lock, spin_lock_irq(t, l),
           UNCHANGED mutexVars
    PROVE  IInv'
<1>1. TypeOK'
  BY DEF mutexVars, spin_lock_irq, irq_disable, Calls, Goto, core, IInv, TypeOK
<1>2. Exclusive'
  BY DEF spin_lock_irq, irq_disable, Calls, IInv, Exclusive
<1>3. SectionsAlone'
  BY DEF spin_lock_irq, irq_disable, Calls, IInv, SectionsAlone
<1>4. MaskLifted'
  BY DEF spin_lock_irq, irq_disable, Calls, At, Goto, IInv, TypeOK,
      MaskLifted, Masked
<1>5. NeverFrozen'
  BY DEF spin_lock_irq, irq_disable, Calls, At, Goto, core, IInv, NeverFrozen
<1>6. Asks'
  BY DEF spin_lock_irq, irq_disable, Calls, At, Goto, IInv, TypeOK, Asks,
      EntersMasked, Masked
<1>7. Ascending'
  BY DEF spin_lock_irq, irq_disable, Calls, IInv, Ascending
<1>8. Reserved'
  BY DEF spin_lock_irq, irq_disable, Calls, At, Goto, IInv, Reserved
<1>9. EntersMasked'
  BY DEF spin_lock_irq, irq_disable, Calls, At, IInv, EntersMasked
<1>10. CalledUnmasked'
  BY DEF spin_lock_irq, irq_disable, Calls, IInv, SectionsAlone, CalledUnmasked
<1>11. IrqOutermost'
  BY DEF spin_lock_irq, irq_disable, Calls, IInv, IrqOutermost
<1>12. FlagsExact'
  BY LockFacts DEF spin_lock_irq, irq_disable, Calls, IInv, FlagsExact
<1>13. InCall' /\ Armed' /\ GivenOnce'
  BY DEF At, spin_lock_irq, irq_disable, Calls, Goto, mutexVars, IInv, TypeOK,
      InCall, Armed, GivenOnce
<1> QED BY <1>1, <1>2, <1>3, <1>4, <1>5, <1>6, <1>7, <1>8, <1>9,
          <1>10, <1>11, <1>12, <1>13 DEF IInv

LEMMA LockStoreStep ==
    ASSUME IInv, NEW t \in Thread, NEW l \in Lock, spin_lock_irq_store(t, l),
           UNCHANGED mutexVars
    PROVE  IInv'
<1>1. TypeOK'
  BY DEF mutexVars, spin_lock_irq_store, irq_disable_store, Calls, Goto,
      core, IInv, TypeOK
<1>2. Exclusive'
  BY DEF spin_lock_irq_store, irq_disable_store, Calls, IInv, Exclusive
<1>3. SectionsAlone'
  BY DEF spin_lock_irq_store, irq_disable_store, Calls, IInv, SectionsAlone
<1>4. MaskLifted'
  BY DEF spin_lock_irq_store, irq_disable_store, Calls, At, Goto, IInv,
      TypeOK, MaskLifted, Masked
<1>5. NeverFrozen'
  BY DEF spin_lock_irq_store, irq_disable_store, Calls, At, Goto, core, IInv,
      NeverFrozen
<1>6. Asks'
  BY LockFacts DEF spin_lock_irq_store, irq_disable_store, Calls, Goto, IInv,
      TypeOK, Asks
<1>7. Ascending'
  BY DEF spin_lock_irq_store, irq_disable_store, Calls, IInv, Ascending
<1>8. Reserved'
  BY DEF spin_lock_irq_store, irq_disable_store, Calls, At, Goto, IInv,
      Reserved
<1>9. EntersMasked'
  BY DEF spin_lock_irq_store, irq_disable_store, Calls, At, IInv, EntersMasked
<1>10. CalledUnmasked'
  BY LockFacts DEF spin_lock_irq_store, irq_disable_store, Calls, IInv,
      CalledUnmasked
<1>11. IrqOutermost'
  BY DEF spin_lock_irq_store, irq_disable_store, Calls, IInv, IrqOutermost
<1>12. FlagsExact'
  BY DEF spin_lock_irq_store, irq_disable_store, Calls, At, IInv, TypeOK,
      SectionsAlone, MaskLifted, FlagsExact
<1>13. InCall' /\ Armed' /\ GivenOnce'
  BY DEF At, spin_lock_irq_store, irq_disable_store, Calls, Goto, mutexVars,
      IInv, TypeOK, InCall, Armed, GivenOnce
<1> QED BY <1>1, <1>2, <1>3, <1>4, <1>5, <1>6, <1>7, <1>8, <1>9,
          <1>10, <1>11, <1>12, <1>13 DEF IInv

(* The releases: the lock is the highest held, so the flags that are        *)
(* restored say whether a masked section is left.                          *)
LEMMA UnlockStep ==
    ASSUME IInv, NEW t \in Thread, NEW l \in Lock, spin_unlock(t, l),
           UNCHANGED mutexVars
    PROVE  IInv'
<1>1. TypeOK'
  BY DEF mutexVars, spin_unlock, Releases, IInv, TypeOK
<1>2. Exclusive'
  BY DEF spin_unlock, Releases, IInv, TypeOK, Exclusive
<1>3. SectionsAlone'
  BY DEF spin_unlock, Releases, IInv, SectionsAlone
<1>4. MaskLifted'
  BY LockFacts DEF spin_unlock, Releases, IInv, MaskLifted
<1>5. NeverFrozen'
  BY DEF spin_unlock, Releases, IInv, NeverFrozen
<1>6. Asks'
  BY DEF spin_unlock, Releases, IInv, Asks
<1>7. Ascending'
  BY DEF spin_unlock, Releases, IInv, Ascending
<1>8. Reserved'
  BY DEF spin_unlock, Releases, IInv, Reserved
<1>9. EntersMasked'
  BY DEF spin_unlock, Releases, IInv, EntersMasked
<1>10. CalledUnmasked'
  BY DEF spin_unlock, Releases, IInv, CalledUnmasked
<1>11. IrqOutermost'
  BY DEF spin_unlock, Releases, IInv, IrqOutermost
<1>12. FlagsExact'
  BY LockFacts DEF spin_unlock, Releases, IInv, FlagsExact
<1>13. InCall' /\ Armed' /\ GivenOnce'
  BY DEF At, spin_unlock, Releases, mutexVars, IInv, TypeOK,
      InCall, Armed, GivenOnce
<1> QED BY <1>1, <1>2, <1>3, <1>4, <1>5, <1>6, <1>7, <1>8, <1>9,
          <1>10, <1>11, <1>12, <1>13 DEF IInv

LEMMA UnlockIrqStep ==
    ASSUME IInv, NEW t \in Thread, NEW l \in Lock, spin_unlock_irq(t, l),
           UNCHANGED mutexVars
    PROVE  IInv'
<1>1. TypeOK'
  BY DEF mutexVars, spin_unlock_irq, irq_enable, Releases, IInv, TypeOK
<1>2. Exclusive'
  BY DEF spin_unlock_irq, irq_enable, Releases, IInv, TypeOK, Exclusive
<1>3. SectionsAlone'
  <2>1. ASSUME NEW k \in held'[t], k \in Masked
        PROVE  FALSE
    <3>1. k \in held[t] /\ k # l /\ k \in Lock
      BY DEF spin_unlock_irq, irq_enable, Releases, IInv, TypeOK
    <3>2. k <= l /\ l <= k
      BY <2>1, <3>1 DEF spin_unlock_irq, irq_enable, Releases, IInv,
          IrqOutermost
    <3> QED BY <3>1, <3>2, LockFacts
  <2>2. \A u \in Thread : u # t => held'[u] \cap Masked = {}
    BY DEF spin_unlock_irq, irq_enable, Releases, At, IInv, TypeOK,
        SectionsAlone
  <2> QED BY <2>1, <2>2 DEF SectionsAlone
<1>4. MaskLifted'
  BY DEF spin_unlock_irq, irq_enable, IInv, MaskLifted
<1>5. NeverFrozen'
  BY DEF spin_unlock_irq, irq_enable, IInv, NeverFrozen
<1>6. Asks'
  BY DEF spin_unlock_irq, irq_enable, Releases, IInv, Asks
<1>7. Ascending'
  BY DEF spin_unlock_irq, irq_enable, Releases, IInv, Ascending
<1>8. Reserved'
  BY DEF spin_unlock_irq, irq_enable, Releases, IInv, Reserved
<1>9. EntersMasked'
  BY LockFacts DEF spin_unlock_irq, irq_enable, Releases, At, IInv, Asks,
      EntersMasked, Lock
<1>10. CalledUnmasked'
  BY DEF spin_unlock_irq, irq_enable, Releases, IInv, CalledUnmasked
<1>11. IrqOutermost'
  BY DEF spin_unlock_irq, irq_enable, Releases, IInv, IrqOutermost
<1>12. FlagsExact'
  BY LockFacts DEF spin_unlock_irq, irq_enable, Releases, At, IInv, Asks,
      FlagsExact, Lock, Masked
<1>13. InCall' /\ Armed' /\ GivenOnce'
  BY DEF At, spin_unlock_irq, irq_enable, Releases, mutexVars, IInv, TypeOK,
      InCall, Armed, GivenOnce
<1> QED BY <1>1, <1>2, <1>3, <1>4, <1>5, <1>6, <1>7, <1>8, <1>9,
          <1>10, <1>11, <1>12, <1>13 DEF IInv

LEMMA UnlockRestoreStep ==
    ASSUME IInv, NEW t \in Thread, NEW l \in Lock, spin_unlock_irq_restore(t,
        l),
           UNCHANGED mutexVars
    PROVE  IInv'
<1>1. TypeOK'
  BY DEF mutexVars, spin_unlock_irq_restore, irq_enable_restore, Releases,
      IInv, TypeOK
<1>2. Exclusive'
  BY DEF spin_unlock_irq_restore, irq_enable_restore, Releases, IInv, TypeOK,
      Exclusive
<1>3. SectionsAlone'
  <2>1. cur = t /\ cur' = cur
    BY DEF spin_unlock_irq_restore, irq_enable_restore, Releases, At
  <2>2. ASSUME NEW k \in held'[t], k \in Masked
        PROVE  primask'
    <3>1. k \in held[t] /\ k # l /\ k \in Lock /\ k <= l
      BY DEF spin_unlock_irq_restore, irq_enable_restore, Releases, IInv,
          TypeOK
    <3>2. k < l
      BY <3>1, LockFacts
    <3> QED BY <2>2, <3>1, <3>2
            DEF spin_unlock_irq_restore, irq_enable_restore, Releases, IInv,
                FlagsExact
  <2>3. \A u \in Thread : u # t => held'[u] \cap Masked = {}
    BY <2>1 DEF spin_unlock_irq_restore, irq_enable_restore, Releases, IInv,
        TypeOK, SectionsAlone
  <2> QED BY <2>1, <2>2, <2>3 DEF SectionsAlone
<1>4. MaskLifted'
  <2>1. cur = t /\ cur' = cur
    BY DEF spin_unlock_irq_restore, irq_enable_restore, Releases, At
  <2> SUFFICES ASSUME primask'
               PROVE  held'[t] \cap Masked # {}
    BY <2>1 DEF MaskLifted
  <2>3. PICK k \in held[t] \cap Masked : k < l
    BY DEF spin_unlock_irq_restore, irq_enable_restore, Releases, IInv,
        FlagsExact
  <2>4. k \in held'[t]
    BY <2>3, LockFacts DEF spin_unlock_irq_restore, irq_enable_restore,
        Releases, IInv, TypeOK
  <2> QED BY <2>3, <2>4
<1>5. NeverFrozen'
  BY DEF spin_unlock_irq_restore, irq_enable_restore, Releases, At, IInv,
      NeverFrozen
<1>6. Asks'
  BY DEF spin_unlock_irq_restore, irq_enable_restore, Releases, IInv, Asks
<1>7. Ascending'
  BY DEF spin_unlock_irq_restore, irq_enable_restore, Releases, IInv, Ascending
<1>8. Reserved'
  BY DEF spin_unlock_irq_restore, irq_enable_restore, Releases, IInv, Reserved
<1>9. EntersMasked'
  BY LockFacts DEF spin_unlock_irq_restore, irq_enable_restore, Releases, At,
      IInv, Asks, EntersMasked, Lock
<1>10. CalledUnmasked'
  BY DEF spin_unlock_irq_restore, irq_enable_restore, Releases, IInv,
      CalledUnmasked
<1>11. IrqOutermost'
  BY DEF spin_unlock_irq_restore, irq_enable_restore, Releases, IInv,
      IrqOutermost
<1>12. FlagsExact'
  <2>1. want[t] = NoLock /\ want' = want
    BY DEF spin_unlock_irq_restore, Releases, At, IInv, TypeOK, Asks
  <2>2. flags' = [flags EXCEPT ![t][l] = FALSE]
        /\ held' = [held EXCEPT ![t] = @ \ {l}] /\ \A k \in held[t] : k <= l
    BY DEF spin_unlock_irq_restore, Releases
  <2> SUFFICES ASSUME NEW u \in Thread, NEW i \in IrqStore,
                      i \in held'[u] \/ want'[u] = i
               PROVE  flags'[u][i] <=> \E k \in held'[u] \cap Masked : k < i
    BY DEF FlagsExact
  <2>3. i \in Lock /\ i # NoLock
    BY LockFacts DEF Lock, Masked
  <2>4. CASE u = t
    <3>1. i # l /\ i <= l /\ i \in held[t]
      BY <2>1, <2>2, <2>3, <2>4 DEF IInv, TypeOK
    <3>2. flags'[t][i] = flags[t][i] /\ held'[t] = held[t] \ {l}
      BY <2>2, <2>3, <3>1 DEF IInv, TypeOK
    <3>3. ~(l < i)
      BY <2>3, <3>1, LockFacts
    <3>4. flags[t][i] <=> \E k \in held[t] \cap Masked : k < i
      BY <3>1 DEF IInv, FlagsExact
    <3> QED BY <2>4, <3>2, <3>3, <3>4
  <2>5. CASE u # t
    <3>1. flags'[u] = flags[u] /\ held'[u] = held[u] /\ want'[u] = want[u]
      BY <2>1, <2>2, <2>5 DEF IInv, TypeOK
    <3> QED BY <3>1 DEF IInv, FlagsExact
  <2> QED BY <2>4, <2>5
<1>13. InCall' /\ Armed' /\ GivenOnce'
  BY DEF At, spin_unlock_irq_restore, irq_enable_restore, Releases,
      mutexVars, IInv, TypeOK, InCall, Armed, GivenOnce
<1> QED BY <1>1, <1>2, <1>3, <1>4, <1>5, <1>6, <1>7, <1>8, <1>9,
          <1>10, <1>11, <1>12, <1>13 DEF IInv

(* The loop that takes a lock: an armed monitor reserves the word.          *)
LEMMA LoadStep ==
    ASSUME IInv, NEW t \in Thread, LoadExclusive(t),
           UNCHANGED mutexVars
    PROVE  IInv'
<1>1. TypeOK'
  BY DEF mutexVars, LoadExclusive, Goto, IInv, TypeOK
<1>2. Exclusive'
  BY DEF LoadExclusive, IInv, Exclusive
<1>3. SectionsAlone'
  BY DEF LoadExclusive, IInv, SectionsAlone
<1>4. MaskLifted'
  BY DEF LoadExclusive, Goto, IInv, TypeOK, MaskLifted
<1>5. NeverFrozen'
  BY LockFacts DEF LoadExclusive, At, Goto, IInv, TypeOK, Exclusive,
     SectionsAlone, MaskLifted, NeverFrozen, Asks, Ascending, CalledUnmasked,
     FlagsExact
<1>6. Asks'
  BY DEF LoadExclusive, At, Goto, IInv, TypeOK, Asks
<1>7. Ascending'
  BY DEF LoadExclusive, IInv, Ascending
<1>8. Reserved'
  BY DEF LoadExclusive, At, Goto, IInv, TypeOK, Reserved
<1>9. EntersMasked'
  BY DEF LoadExclusive, IInv, EntersMasked
<1>10. CalledUnmasked'
  BY DEF LoadExclusive, IInv, CalledUnmasked
<1>11. IrqOutermost'
  BY DEF LoadExclusive, IInv, IrqOutermost
<1>12. FlagsExact'
  BY DEF LoadExclusive, IInv, FlagsExact
<1>13. InCall' /\ Armed' /\ GivenOnce'
  BY DEF At, LoadExclusive, Goto, mutexVars, IInv, TypeOK,
      InCall, Armed, GivenOnce
<1> QED BY <1>1, <1>2, <1>3, <1>4, <1>5, <1>6, <1>7, <1>8, <1>9,
          <1>10, <1>11, <1>12, <1>13 DEF IInv

LEMMA WaitStep ==
    ASSUME IInv, NEW t \in Thread, WaitForEvent(t),
           UNCHANGED mutexVars
    PROVE  IInv'
<1>1. TypeOK'
  BY DEF mutexVars, WaitForEvent, Goto, IInv, TypeOK
<1>2. Exclusive'
  BY DEF WaitForEvent, IInv, Exclusive
<1>3. SectionsAlone'
  BY DEF WaitForEvent, IInv, SectionsAlone
<1>4. MaskLifted'
  BY DEF WaitForEvent, Goto, IInv, MaskLifted
<1>5. NeverFrozen'
  BY DEF WaitForEvent, At, IInv, NeverFrozen
<1>6. Asks'
  BY DEF WaitForEvent, At, Goto, IInv, Asks
<1>7. Ascending'
  BY DEF WaitForEvent, IInv, Ascending
<1>8. Reserved'
  BY DEF WaitForEvent, Goto, IInv, Reserved
<1>9. EntersMasked'
  BY DEF WaitForEvent, IInv, EntersMasked
<1>10. CalledUnmasked'
  BY DEF WaitForEvent, IInv, CalledUnmasked
<1>11. IrqOutermost'
  BY DEF WaitForEvent, IInv, IrqOutermost
<1>12. FlagsExact'
  BY DEF WaitForEvent, IInv, FlagsExact
<1>13. InCall' /\ Armed' /\ GivenOnce'
  BY DEF At, WaitForEvent, Goto, mutexVars, IInv, TypeOK,
      InCall, Armed, GivenOnce
<1> QED BY <1>1, <1>2, <1>3, <1>4, <1>5, <1>6, <1>7, <1>8, <1>9,
          <1>10, <1>11, <1>12, <1>13 DEF IInv

LEMMA StoreStep ==
    ASSUME IInv, NEW t \in Thread, StoreExclusive(t),
           UNCHANGED mutexVars
    PROVE  IInv'
<1>0. want[t] \in Lock
  BY DEF StoreExclusive, At, IInv, TypeOK, Asks
<1>1. TypeOK'
  <2>1. CASE monitor /\ Taken(t)
    <3>1. word' \in [Lock -> BOOLEAN]
      BY <2>1 DEF mutexVars, Taken, IInv, TypeOK
    <3>2. held' \in [Thread -> SUBSET Lock]
      BY <1>0, <2>1 DEF mutexVars, Taken, IInv, TypeOK
    <3>3. want' \in [Thread -> Lock \cup {NoLock}]
      BY <2>1 DEF mutexVars, Taken, IInv, TypeOK
    <3> QED BY <2>1, <3>1, <3>2, <3>3
            DEF mutexVars, StoreExclusive, Taken, Goto, IInv, TypeOK
  <2>2. CASE ~monitor
    BY <2>2 DEF mutexVars, StoreExclusive, Goto, IInv, TypeOK
  <2> QED BY <2>1, <2>2 DEF mutexVars, StoreExclusive
<1>2. Exclusive'
  <2>1. CASE monitor /\ Taken(t)
    <3>1. ~word[want[t]]
      BY <2>1 DEF StoreExclusive, At, IInv, Reserved
    <3>2. \A u \in Thread : want[t] \notin held[u]
      BY <1>0, <3>1 DEF IInv, Exclusive
    <3>3. \A u \in Thread : held'[u] =
            IF u = t THEN held[t] \cup {want[t]} ELSE held[u]
      BY <2>1 DEF Taken, IInv, TypeOK
    <3>4. \A k \in Lock : word'[k] <=> word[k] \/ k = want[t]
      BY <2>1 DEF Taken, IInv, TypeOK
    <3> QED BY <3>2, <3>3, <3>4 DEF IInv, Exclusive
  <2>2. CASE ~monitor
    BY <2>2 DEF StoreExclusive, IInv, Exclusive
  <2> QED BY <2>1, <2>2 DEF StoreExclusive
<1>3. SectionsAlone'
  BY DEF StoreExclusive, Taken, IInv, TypeOK, SectionsAlone, EntersMasked
<1>4. MaskLifted'
  BY DEF StoreExclusive, Taken, Goto, IInv, TypeOK, MaskLifted
<1>5. NeverFrozen'
  BY DEF StoreExclusive, Taken, Goto, IInv, TypeOK, NeverFrozen
<1>6. Asks'
  BY DEF StoreExclusive, Taken, At, Goto, IInv, TypeOK, Asks
<1>7. Ascending'
  BY LockFacts DEF StoreExclusive, Taken, IInv, TypeOK, Ascending, Reserved,
     EntersMasked
<1>8. Reserved'
  BY DEF StoreExclusive, Taken, IInv, Reserved
<1>9. EntersMasked'
  BY LockFacts DEF StoreExclusive, Taken, IInv, TypeOK, EntersMasked, Lock
<1>10. CalledUnmasked'
  BY LockFacts DEF StoreExclusive, Taken, IInv, TypeOK, CalledUnmasked, Lock,
     Masked
<1>11. IrqOutermost'
  BY LockFacts DEF StoreExclusive, Taken, At, IInv, TypeOK, Asks, Ascending,
     CalledUnmasked, IrqOutermost
<1>12. FlagsExact'
  <2>1. CASE monitor /\ Taken(t)
    <3>1. /\ flags' = flags
          /\ \A u \in Thread :
                held'[u] = IF u = t THEN held[t] \cup {want[t]} ELSE held[u]
          /\ \A u \in Thread : want'[u] = IF u = t THEN NoLock ELSE want[u]
      BY <2>1 DEF StoreExclusive, Taken, IInv, TypeOK
    <3>2. \A k \in held[t] : ~(want[t] < k)
      BY <1>0, LockFacts DEF IInv, TypeOK, Ascending
    <3> SUFFICES ASSUME NEW u \in Thread, NEW i \in IrqStore,
                        i \in held'[u] \/ want'[u] = i
                 PROVE  flags'[u][i] <=> \E k \in held'[u] \cap Masked : k < i
      BY DEF FlagsExact
    <3>3. i \in Lock /\ i # NoLock /\ i \in Nat /\ want[t] \in Nat
      BY <1>0, LockFacts DEF Lock, Masked
    <3>4. i \in held[u] \/ want[u] = i
      BY <3>1, <3>3
    <3>5. flags[u][i] <=> \E k \in held[u] \cap Masked : k < i
      BY <3>4 DEF IInv, FlagsExact
    <3>6. u = t => ~(want[t] < i)
      BY <3>2, <3>3, <3>4
    <3> QED BY <3>1, <3>5, <3>6
  <2>2. CASE ~monitor
    BY <2>2 DEF StoreExclusive, IInv, FlagsExact
  <2> QED BY <2>1, <2>2 DEF StoreExclusive
<1>13. InCall' /\ Armed' /\ GivenOnce'
  BY DEF At, StoreExclusive, Taken, Goto, mutexVars, IInv, TypeOK,
      InCall, Armed, GivenOnce
<1> QED BY <1>1, <1>2, <1>3, <1>4, <1>5, <1>6, <1>7, <1>8, <1>9,
          <1>10, <1>11, <1>12, <1>13 DEF IInv

(* An interrupt falls only outside the masked sections, so it can hand over *)
(* the core.                                                               *)
LEMMA InterruptStep ==
    ASSUME IInv, Interrupt, UNCHANGED mutexVars
    PROVE  IInv'
<1> USE DEF Interrupt, IInv, mutexVars
<1>1. TypeOK'
  BY DEF TypeOK
<1>2. Exclusive' /\ Asks' /\ Ascending' /\ Reserved'
  BY DEF Exclusive, Asks, Ascending, Reserved
<1>3. SectionsAlone' /\ EntersMasked' /\ MaskLifted' /\ NeverFrozen'
  BY DEF SectionsAlone, EntersMasked, MaskLifted, NeverFrozen
<1>4. CalledUnmasked' /\ IrqOutermost' /\ FlagsExact'
  BY DEF CalledUnmasked, IrqOutermost, FlagsExact
<1>5. InCall' /\ Armed' /\ GivenOnce'
  BY DEF InCall, Armed, GivenOnce
<1> QED BY <1>1, <1>2, <1>3, <1>4, <1>5

(* Calls on mutexes leave the locks alone, and only an unmasked thread      *)
(* sleeps in one.                                                          *)
LEMMA LocksAlone ==
    ASSUME IInv, NEW t \in Thread, At(t, pc[t]), UNCHANGED <<spinVars, cur>>,
           NEW label \in {"run", "mutex_load", "mutex_wait", "mutex_store"},
           pc[t] \in {"run", "mutex_load", "mutex_wait", "mutex_store"},
           pc' = [pc EXCEPT ![t] = label],
           monitor' /\ label = "mutex_store" => ~lock'[about'[t]],
           asleep' => pc[t] = "mutex_wait" \/ asleep
    PROVE  /\ Exclusive' /\ Asks' /\ Ascending' /\ Reserved'
           /\ SectionsAlone' /\ EntersMasked' /\ MaskLifted' /\ NeverFrozen'
           /\ CalledUnmasked' /\ IrqOutermost' /\ FlagsExact' /\ Armed'
<1> USE DEF At, spinVars, IInv
<1>1. /\ cur = t /\ cur' = t /\ ~asleep /\ pc'[t] = label
      /\ \A u \in Thread \ {t} : pc'[u] = pc[u]
      /\ want[t] = NoLock
  BY DEF TypeOK, Asks
<1>2. Exclusive' /\ Asks' /\ Ascending' /\ Reserved' /\ Armed'
  BY <1>1 DEF Exclusive, Asks, Ascending, Reserved, Armed
<1>3. SectionsAlone' /\ EntersMasked'
  BY <1>1 DEF SectionsAlone, EntersMasked
<1>4. MaskLifted'
  BY <1>1, LockFacts DEF MaskLifted, Masked, Lock
<1>5. NeverFrozen'
  <2>1. pc[t] = "mutex_wait" => ~primask
    BY <1>1, LockFacts DEF InCall, MaskLifted, Masked, Lock
  <2> QED BY <1>1, <2>1 DEF NeverFrozen
<1>6. CalledUnmasked' /\ IrqOutermost' /\ FlagsExact'
  BY DEF CalledUnmasked, IrqOutermost, FlagsExact
<1> QED BY <1>2, <1>3, <1>4, <1>5, <1>6

LEMMA MutexInv ==
    ASSUME IInv, NEW t \in Thread, MutexStep(t)
    PROVE  IInv'
<1> USE DEF mutexVars, spinVars, core, At, Goto
<1>1. ASSUME NEW m \in Mutexes, mutex_lock(t, m) PROVE IInv'
  <2>1. TypeOK'
    BY <1>1 DEF mutex_lock, IInv, TypeOK
  <2>2. InCall' /\ GivenOnce'
    BY <1>1 DEF mutex_lock, IInv, TypeOK, SectionsAlone, InCall, GivenOnce
  <2> QED BY <1>1, <2>1, <2>2, LocksAlone DEF mutex_lock, IInv
<1>2. ASSUME NEW m \in Mutexes, mutex_unlock(t, m) PROVE IInv'
  <2>1. TypeOK' /\ InCall' /\ GivenOnce'
    BY <1>2 DEF mutex_unlock, IInv, TypeOK, InCall, GivenOnce
  <2>2. pc' = [pc EXCEPT ![t] = "run"]
    BY <1>2 DEF mutex_unlock, IInv, TypeOK
  <2> QED BY <1>2, <2>1, <2>2, LocksAlone DEF mutex_unlock, IInv
<1>3. ASSUME MutexLoad(t) PROVE IInv'
  <2>1. TypeOK' /\ InCall' /\ GivenOnce'
    BY <1>3 DEF MutexLoad, IInv, TypeOK, InCall, GivenOnce
  <2>2. \/ pc' = [pc EXCEPT ![t] = "mutex_wait"]
        \/ pc' = [pc EXCEPT ![t] = "mutex_store"] /\ ~lock'[about'[t]]
    BY <1>3 DEF MutexLoad
  <2> QED BY <1>3, <2>1, <2>2, LocksAlone DEF MutexLoad, IInv
<1>4. ASSUME MutexWait(t) PROVE IInv'
  <2>1. TypeOK' /\ InCall' /\ GivenOnce'
    BY <1>4 DEF MutexWait, IInv, TypeOK, InCall, GivenOnce
  <2> QED BY <1>4, <2>1, LocksAlone DEF MutexWait, IInv
<1>5. ASSUME At(t, "mutex_store"), monitor, MutexGiven(t) PROVE IInv'
  <2>1. about[t] \in Mutexes /\ ~lock[about[t]] /\ given[about[t]] = 0
    BY <1>5 DEF IInv, InCall, Armed, GivenOnce
  <2>2. TypeOK'
    <3>1. given' = [given EXCEPT ![about[t]] = 1]
      BY <1>5, <2>1 DEF MutexGiven
    <3>2. given' \in [Mutexes -> Nat]
      BY <2>1, <3>1 DEF IInv, TypeOK
    <3>3. lock' \in [Mutexes -> BOOLEAN]
      BY <1>5, <2>1 DEF MutexGiven, IInv, TypeOK
    <3> QED BY <1>5, <3>2, <3>3 DEF MutexGiven, IInv, TypeOK
  <2>3. InCall' /\ GivenOnce'
    BY <1>5, <2>1 DEF MutexGiven, IInv, TypeOK, InCall, GivenOnce
  <2> QED BY <1>5, <2>2, <2>3, LocksAlone DEF MutexGiven, IInv
<1>6. ASSUME At(t, "mutex_store"), ~monitor, Goto(t, "mutex_wait"),
             UNCHANGED <<spinVars, mutexVars, core, cur>>
      PROVE  IInv'
  <2>1. TypeOK' /\ InCall' /\ GivenOnce'
    BY <1>6 DEF IInv, TypeOK, InCall, GivenOnce
  <2> QED BY <1>6, <2>1, LocksAlone DEF IInv
<1>7. MutexStore(t) => IInv'
  BY <1>5, <1>6 DEF MutexStore
<1> QED BY <1>1, <1>2, <1>3, <1>4, <1>7 DEF MutexStep, mutex_init

LEMMA NextInv ==
    ASSUME IInv, [MutexNext]_<<vars, mutexVars>>
    PROVE  IInv'
<1>1. CASE Interrupt /\ UNCHANGED mutexVars
  BY <1>1, InterruptStep
<1>2. ASSUME NEW t \in Thread, ThreadStep(t), UNCHANGED mutexVars
      PROVE  IInv'
  <2>1. ASSUME NEW l \in Lock,
               \/ spin_lock(t, l) \/ spin_unlock(t, l)
               \/ spin_lock_irq(t, l) \/ spin_unlock_irq(t, l)
               \/ spin_lock_irq_store(t, l) \/ spin_unlock_irq_restore(t, l)
        PROVE  IInv'
    BY <1>2, <2>1, LockStep, LockIrqStep, LockStoreStep,
       UnlockStep, UnlockIrqStep, UnlockRestoreStep
  <2>2. CASE LoadExclusive(t) \/ WaitForEvent(t) \/ StoreExclusive(t)
    BY <1>2, <2>2, LoadStep, WaitStep, StoreStep
  <2> QED BY <1>2, <2>1, <2>2 DEF ThreadStep
<1>3. CASE \E t \in Thread : MutexStep(t)
  BY <1>3, MutexInv
<1>4. CASE UNCHANGED <<vars, mutexVars>>
  BY <1>4 DEF vars, core, mutexVars, IInv, TypeOK, Exclusive, SectionsAlone,
     MaskLifted, NeverFrozen, Asks, Ascending, Reserved, EntersMasked,
     CalledUnmasked, IrqOutermost, FlagsExact, InCall, Armed, GivenOnce
<1> QED BY <1>1, <1>2, <1>3, <1>4 DEF MutexNext, Next

(* The inductive invariant holds in every reachable state.                 *)
THEOREM Invariance == MutexSpec => []IInv
BY InitInv, NextInv, PTL DEF MutexSpec

(* The locks of spin_lock.c exclude, wherever an interrupt falls between    *)
(* their load and their store, and a lock's word is set while it is held.   *)
THEOREM LocksExclude == MutexSpec => []Exclusive
<1>1. IInv => Exclusive
  BY DEF IInv
<1> QED BY <1>1, Invariance, PTL

(* A section entered with spin_lock_irq or spin_lock_irq_store is not       *)
(* preempted, and the mask is set inside such sections only, however they   *)
(* are nested (spin_unlock_irq_restore, spin_unlock_irq).                   *)
THEOREM MaskExact == MutexSpec => [](SectionsAlone /\ MaskLifted)
<1>1. IInv => SectionsAlone /\ MaskLifted
  BY DEF IInv
<1> QED BY <1>1, Invariance, PTL

(* The mask is lifted once no masked section is left, however they nest.    *)
THEOREM MaskAlwaysLifted == MutexSpec => []MaskLifted
BY MaskExact, PTL

(* The core never waits for an event with interrupts masked: the WFE of     *)
(* spin_lock is not reached under spin_lock_irq_store.                     *)
THEOREM CoreNeverFrozen == MutexSpec => []NeverFrozen
<1>1. IInv => NeverFrozen
  BY DEF IInv
<1> QED BY <1>1, Invariance, PTL

(* One call on a mutex returns in its whole life: the exclusive store lets  *)
(* nobody else past it, and nothing clears the word again (mutex.c).       *)
THEOREM OneCallReturns == MutexSpec => []GivenOnce
<1>1. IInv => GivenOnce
  BY DEF IInv
<1> QED BY <1>1, Invariance, PTL
=============================================================================
