----------------------------- MODULE SpinLock -----------------------------
(***************************************************************************)
(* The spin locks of hello_world/sys/spin_lock.c and the interrupt mask of *)
(* hello_world/sys/irq.h on the one core, at the grain of the instructions *)
(* between which an interrupt makes a difference: load-exclusive, wait,    *)
(* store-exclusive.                                                        *)
(*                                                                         *)
(* The clients use one pair of functions for each lock, take locks in      *)
(* ascending order and release the highest they hold.  With interrupts     *)
(* masked they take only locks whose release restores the mask, as         *)
(* spin_lock.h:27 demands of spin_lock.                                    *)
(***************************************************************************)
EXTENDS Naturals, FiniteSets

CONSTANTS
    Thread,
    Plain,           \* locks taken with spin_lock, released with spin_unlock
    Irq,             \* ... spin_lock_irq, spin_unlock_irq
    IrqStore,        \* ... spin_lock_irq_store, spin_unlock_irq_restore
    NoLock           \* what a thread wants that is about to take no lock

Masked == Irq \cup IrqStore          \* locks held with interrupts masked

Lock == Plain \cup Masked

ASSUME SpinLockAssumption ==
    /\ Lock \subseteq Nat /\ NoLock \notin Lock
    /\ Plain \cap Irq = {} /\ Plain \cap IrqStore = {} /\ Irq \cap IrqStore = {}

VARIABLES
    word,            \* word[l]: the lock word, TRUE for SPIN_LOCK_LOCKED
    primask,         \* interrupts are masked
    monitor,         \* the core's exclusive monitor is armed
    event,           \* the core's event register
    asleep,          \* the core waits in WFE
    cur,             \* the thread that has the core
    pc,              \* where each thread continues
    want,            \* the lock that a thread is about to take
    flags,           \* flags[t][l]: what irq_disable_store gave for l, if held
    held             \* the locks a thread has been given and not released

core == <<monitor, event, asleep>>

vars == <<word, primask, core, cur, pc, want, flags, held>>

Init ==
    /\ word = [l \in Lock |-> FALSE]
    /\ primask = FALSE
    /\ monitor = FALSE
    /\ event = FALSE
    /\ asleep = FALSE
    /\ cur \in Thread
    /\ pc = [t \in Thread |-> "run"]
    /\ want = [t \in Thread |-> NoLock]
    /\ flags = [t \in Thread |-> [l \in Lock |-> FALSE]]
    /\ held = [t \in Thread |-> {}]

(* The thread t executes its next instruction, which is at `label`.        *)
At(t, label) == cur = t /\ ~asleep /\ pc[t] = label

Goto(t, label) == pc' = [pc EXCEPT ![t] = label]

-----------------------------------------------------------------------------
(* irq.h.  irq_disable_store is MRS, then CPSID.  Mutants: in the other     *)
(* order; without CPSID; the mask is lifted whatever the flags say.        *)

irq_disable == primask' = TRUE

irq_enable == primask' = FALSE

irq_disable_store_late(t, l) ==
    /\ primask' = TRUE
    /\ flags' = [flags EXCEPT ![t][l] = TRUE]

irq_disable_store_unmasked(t, l) ==
    /\ flags' = [flags EXCEPT ![t][l] = primask]
    /\ UNCHANGED primask

irq_disable_store(t, l) ==
    /\ primask' = TRUE
    /\ flags' = [flags EXCEPT ![t][l] = primask]

irq_enable_restore_always(f) == primask' = FALSE

irq_enable_restore(f) == primask' = f

-----------------------------------------------------------------------------
(* Taking a lock *)

Calls(t, l) ==
    /\ At(t, "run")
    /\ \A k \in held[t] : k < l
    /\ want' = [want EXCEPT ![t] = l]
    /\ Goto(t, "load")
    /\ UNCHANGED <<word, core, cur, held>>

spin_lock(t, l) ==
    /\ l \in Plain /\ ~primask
    /\ Calls(t, l)
    /\ UNCHANGED <<primask, flags>>

spin_lock_irq(t, l) ==
    /\ l \in Irq /\ ~primask
    /\ Calls(t, l)
    /\ irq_disable
    /\ UNCHANGED flags

spin_lock_irq_store(t, l) ==
    /\ l \in IrqStore
    /\ Calls(t, l)
    /\ irq_disable_store(t, l)

(* LDREX and TEQ: a locked word is waited for with WFE, or, under           *)
(* spin_lock_irq, read again at once.                                      *)
LoadExclusive(t) ==
    /\ At(t, "load")
    /\ monitor' = TRUE
    /\ \/ ~word[want[t]] /\ Goto(t, "store")
       \/ word[want[t]] /\ Goto(t, IF want[t] \in Irq THEN "load" ELSE "wait")
    /\ UNCHANGED <<word, primask, event, asleep, cur, want, flags, held>>

(* WFE, and the branch back *)
WaitForEvent(t) ==
    /\ At(t, "wait")
    /\ Goto(t, "load")
    /\ asleep' = ~event
    /\ event' = FALSE
    /\ UNCHANGED <<word, primask, monitor, cur, want, flags, held>>

Taken(t) ==
    /\ word' = [word EXCEPT ![want[t]] = TRUE]
    /\ held' = [held EXCEPT ![t] = @ \cup {want[t]}]
    /\ want' = [want EXCEPT ![t] = NoLock]
    /\ monitor' = FALSE
    /\ Goto(t, "run")

(* STREX and TEQ.  Mutant: the result of the store is not looked at.       *)
StoreUnchecked(t) ==
    /\ At(t, "store")
    /\ Taken(t)
    /\ UNCHANGED <<primask, event, asleep, cur, flags>>

StoreExclusive(t) ==
    /\ At(t, "store")
    /\ \/ monitor /\ Taken(t)
       \/ ~monitor /\ Goto(t, "load") /\ UNCHANGED <<word, held, want, monitor>>
    /\ UNCHANGED <<primask, event, asleep, cur, flags>>

-----------------------------------------------------------------------------
(* Releasing a lock.  The flags of a lock are dead once it is released.     *)

Releases(t, l) ==
    /\ At(t, "run")
    /\ l \in held[t] /\ \A k \in held[t] : k <= l
    /\ word' = [word EXCEPT ![l] = FALSE]
    /\ held' = [held EXCEPT ![t] = @ \ {l}]
    /\ UNCHANGED <<monitor, asleep, cur, pc, want>>

(* DMB, STR, DSB and SEV *)
spin_unlock(t, l) ==
    /\ l \in Plain
    /\ Releases(t, l)
    /\ event' = TRUE
    /\ UNCHANGED <<primask, flags>>

(* There is no SEV here.                                                   *)
spin_unlock_irq(t, l) ==
    /\ l \in Irq
    /\ Releases(t, l)
    /\ irq_enable
    /\ UNCHANGED <<event, flags>>

spin_unlock_irq_restore(t, l) ==
    /\ l \in IrqStore
    /\ Releases(t, l)
    /\ event' = TRUE
    /\ irq_enable_restore(flags[t][l])
    /\ flags' = [flags EXCEPT ![t][l] = FALSE]

-----------------------------------------------------------------------------
(***************************************************************************)
(* An interrupt gives the core to any thread.  Entry into and return from  *)
(* an exception clear the monitor, set the event register and end a wait.  *)
(* It is taken only with PRIMASK clear, waiting in WFE or not.             *)
(***************************************************************************)
Interrupt ==
    /\ ~primask
    /\ cur' \in Thread
    /\ monitor' = FALSE
    /\ event' = TRUE
    /\ asleep' = FALSE
    /\ UNCHANGED <<word, primask, pc, want, flags, held>>

ThreadStep(t) ==
    \/ \E l \in Lock : \/ spin_lock(t, l) \/ spin_unlock(t, l)
                       \/ spin_lock_irq(t, l) \/ spin_unlock_irq(t, l)
                       \/ spin_lock_irq_store(t, l)
                       \/ spin_unlock_irq_restore(t, l)
    \/ LoadExclusive(t) \/ WaitForEvent(t) \/ StoreExclusive(t)

Next == Interrupt \/ \E t \in Thread : ThreadStep(t)

Spec == Init /\ [][Next]_vars

-----------------------------------------------------------------------------
(* A lock is held by one thread at a time, and its word says whether it is: *)
(* an interrupt between the load and the store of spin_lock does no harm.  *)
Exclusive ==
    /\ \A t, u \in Thread : t # u => held[t] \cap held[u] = {}
    /\ \A l \in Lock : word[l] <=> \E t \in Thread : l \in held[t]

(* A thread inside a masked section is never preempted, sections nested in *)
(* it and released before it included: it has the core and the mask is set. *)
SectionsAlone ==
    \A t \in Thread : held[t] \cap Masked # {} => cur = t /\ primask

(* The core never waits for an event with interrupts masked, although      *)
(* spin_lock_irq_store calls spin_lock with the mask set (spin_lock.h:27,   *)
(* "That would froze CPU").                                                *)
NeverFrozen == primask => ~asleep /\ pc[cur] # "wait"

(* The mask is lifted again once no masked section is left: it is set only *)
(* inside one, or while one is being entered.                              *)
MaskLifted ==
    primask => \/ held[cur] \cap Masked # {}
               \/ pc[cur] # "run" /\ want[cur] \in Masked
=============================================================================
