------------------------------- MODULE Kernel -------------------------------
(***************************************************************************)
(* The threads and the round-robin scheduler of hello_world/sys: thread.c, *)
(* scheduler.c and the context switch of pend_sv.S, on a single core.      *)
(*                                                                         *)
(* Grain.  A section between spin_lock_irq and spin_unlock_irq runs with   *)
(* PRIMASK set, and nothing else can run on the core until it clears it:   *)
(* such a section is one action, except the loop of sched_thread_end, one  *)
(* action per iteration with primask TRUE. thread_create and               *)
(* m_thread_cleanup take no lock: each of their loads and stores of        *)
(* shared memory is an action of its own, and SysTick may fall between     *)
(* any two. A list pointer that is loaded twice in a row, to be tested     *)
(* and to be used, is loaded once here (slist.c:31-32, 99-101).            *)
(*                                                                         *)
(* A thread's saved context is abstracted to pc[t], the point where it     *)
(* continues when PendSV installs it.  The clients are any threads that    *)
(* use the API from thread context; they call neither thread_join nor      *)
(* return from their handler with interrupts masked.                       *)
(*                                                                         *)
(* A failed assertion ends in an endless loop of the C library.  In a      *)
(* thread the others go on being scheduled around it; where interrupts are *)
(* masked, or in an interrupt handler, the core stops.                     *)
(***************************************************************************)
EXTENDS SList, FiniteSets

CONSTANTS
    THREAD_MAX_NUM,  \* number of thread objects besides main's and idle's
    MaxCreates,      \* bound: how many times clients call thread_create
    MaskedCreate,    \* whether clients mask interrupts around thread_create
    Asserts,         \* whether assert() is compiled in: not with -DNDEBUG
    Joiners          \* the threads that may call thread_join

Main    == 0         \* m_thread[0], taken by main_thread_init
Idle    == 1         \* m_thread[1], taken by idle_thread_init
Workers == 2 .. THREAD_MAX_NUM + 1
Thread  == 0 .. THREAD_MAX_NUM + 1

ASSUME KernelAssumption ==
    /\ THREAD_MAX_NUM \in Nat \ {0}
    /\ MaxCreates \in Nat
    /\ MaskedCreate \in BOOLEAN
    /\ Asserts \in BOOLEAN
    /\ Joiners \subseteq Thread \ {Idle}
    /\ NULL \notin Thread

VARIABLES
    free,            \* m_free_thread_pool
    ready,           \* m_thread_ready_pool
    waitq,           \* thread_t.wait_queue
    next,            \* thread_t.list_node.next
    status,          \* thread_t.ctx_ptr.status, the set of its flags
    cur,             \* g_current_thread
    nxt,             \* g_next_thread
    pendsv,          \* SCB ICSR.PENDSVSET
    primask,         \* the CPU's PRIMASK
    pc,              \* where each thread's context continues
    node,            \* thread_node of thread_create, or the thread it joins
    reg,             \* the status word loaded by an unlocked `|=` or `&=`
    ptr,             \* the list pointer loaded in thread_create
    handles,         \* the thread_t* values that thread_create has handed out
    creates          \* calls to thread_create so far, capped by MaxCreates

pools == <<free, ready, waitq, next>>
cpu   == <<cur, nxt, pendsv, primask>>
locals == <<node, reg, ptr>>
client == <<handles, creates>>
vars == <<pools, status, cpu, pc, locals, client>>

Queued == Thread \ {Idle}      \* the threads that lists may hold

Flags == {"NONE", "STARTING", "ACTIVE", "WAITING", "ENDED"}

(* Where a thread can be stopped for good: the assertions of thread.c:240, *)
(* thread.c:91 and slist.c:99, a return into nothing, a hard fault.        *)
Stuck == {"assert_none", "assert_false", "assert_tail", "lost", "halted"}

Labels == Stuck \cup
    {"unused", "idle", "run",
     "unlink", "empty", "untail", "follow", "advance", "check", "init",
     "detach", "test", "first", "link", "splice", "settail",
     "load", "mark", "reload", "start",
     "join", "joined", "endload", "endmark", "end", "resume", "dead"}

-----------------------------------------------------------------------------
(* thread_init, main_thread_init, idle_thread_init and scheduler_init, run  *)
(* by the startup code before any interrupt can switch threads.            *)
Init ==
    /\ free    = [head |-> 2, tail |-> THREAD_MAX_NUM + 1]
    /\ ready   = EmptyList
    /\ waitq   = [t \in Thread |-> EmptyList]
    /\ next    = [t \in Thread |-> IF t \in Workers /\ t + 1 \in Workers
                                     THEN t + 1 ELSE NULL]
    /\ status  = [t \in Thread |-> IF t = Main THEN {"ACTIVE"}
                                   ELSE IF t = Idle THEN {} ELSE {"NONE"}]
    /\ cur     = Main
    /\ nxt     = NULL
    /\ pendsv  = FALSE
    /\ primask = FALSE
    /\ pc      = [t \in Thread |-> IF t = Main THEN "run"
                                   ELSE IF t = Idle THEN "idle" ELSE "unused"]
    /\ node    = [t \in Thread |-> NULL]
    /\ reg     = [t \in Thread |-> {}]
    /\ ptr     = [t \in Thread |-> NULL]
    /\ handles = {}
    /\ creates = 0

(* Thread t executes at label l: it is installed and no switch is pending. *)
At(t, l) == cur = t /\ ~pendsv /\ pc[t] = l

Goto(t, l) == pc' = [pc EXCEPT ![t] = l]

-----------------------------------------------------------------------------
(* swap_threads, on the status words; the request itself is pendsv'.        *)
(* Mutants: the flag is set before it is cleared; it is never cleared.     *)
SwapSetsFirst(st, from, to) ==
    [st EXCEPT ![to] = @ \cup {"ACTIVE"}, ![from] = @ \ {"ACTIVE"}]

SwapNeverClears(st, from, to) == [st EXCEPT ![to] = @ \cup {"ACTIVE"}]

Swap(st, from, to) ==
    [st EXCEPT ![from] = @ \ {"ACTIVE"}, ![to] = @ \cup {"ACTIVE"}]

(* The status update of sched_ready_enqueu. *)
Enqueued(st, t) == [st EXCEPT ![t] = @ \cup {"WAITING"}]

(* ready_next_get: the thread it returns, and what it leaves of the ready   *)
(* pool and of the heap, from links n.  Mutants: no idle thread; the last  *)
(* ready thread overlooked; the head only peeked at.                       *)
ReadyNextOrNull == ready.head

ReadyNextUnlessLast == IF ready.head = ready.tail THEN Idle ELSE ready.head

PoppedPeek(n) == ready

ReadyNext == IF ready.head = NULL THEN Idle ELSE ready.head

Popped(n) == HeadGet(ready, n)

Detached(n) == IF ready.head = NULL THEN n ELSE [n EXCEPT ![ready.head] = NULL]

(***************************************************************************)
(* schedule(false) followed by swap_threads, from links n and statuses st, *)
(* when the ready pool is not empty: its head becomes g_next_thread and    *)
(* the current thread, unless it is the idle one, goes to the tail.        *)
(* Mutant: the current thread is not put back.                             *)
(***************************************************************************)
RotateDrops(n, st) ==
    /\ nxt' = ReadyNext
    /\ pendsv' = TRUE
    /\ ready' = Popped(n)
    /\ next' = Detached(n)
    /\ status' = Swap(st, cur, nxt')

Rotate(n, st) ==
    /\ nxt' = ReadyNext
    /\ pendsv' = TRUE
    /\ IF cur = Idle
         THEN /\ ready'  = Popped(n)
              /\ next'   = Detached(n)
              /\ status' = Swap(st, cur, nxt')
         ELSE /\ TailPutAssert(Popped(n))
              /\ ready'  = TailPut(Popped(n), cur)
              /\ next'   = TailPutLinks(Popped(n), Detached(n), cur)
              /\ status' = Swap(Enqueued(st, cur), cur, nxt')

(* SysTick_Handler, when schedule() finds a thread to switch to.  PendSV    *)
(* has the lower exception number: a pending switch is taken first.        *)
(* Mutants: it switches only when two threads are ready; it is not masked.  *)
SysTickForTwo ==
    /\ ~primask /\ ~pendsv
    /\ ready.head # ready.tail
    /\ Rotate(next, status)
    /\ UNCHANGED <<free, waitq, cur, primask, pc, locals, client>>

SysTickUnmasked ==
    /\ ~pendsv
    /\ ready.head # NULL
    /\ Rotate(next, status)
    /\ UNCHANGED <<free, waitq, cur, primask, pc, locals, client>>

SysTick ==
    /\ ~primask /\ ~pendsv
    /\ ready.head # NULL
    /\ Rotate(next, status)
    /\ UNCHANGED <<free, waitq, cur, primask, pc, locals, client>>

(* SysTick_Handler with nothing ready: schedule() returns false.            *)
SysTickIdle ==
    /\ ~primask /\ ~pendsv
    /\ ready.head = NULL
    /\ UNCHANGED vars

(* PendSV_Handler: save the current context, install g_next_thread.         *)
PendSV ==
    /\ pendsv /\ ~primask
    /\ cur' = nxt
    /\ pendsv' = FALSE
    /\ UNCHANGED <<pools, status, nxt, primask, pc, locals, client>>

-----------------------------------------------------------------------------
(* Client code masks interrupts with irq_disable_store / restores them with *)
(* irq_enable_restore, as main.c does through spin_lock_irq_store.         *)
MaskIrq(t) ==
    /\ At(t, "run") /\ ~primask
    /\ primask' = TRUE
    /\ UNCHANGED <<pools, status, cur, nxt, pendsv, pc, locals, client>>

UnmaskIrq(t) ==
    /\ At(t, "run") /\ primask
    /\ primask' = FALSE
    /\ UNCHANGED <<pools, status, cur, nxt, pendsv, pc, locals, client>>

-----------------------------------------------------------------------------
(* thread_create, up to the read of the free pool's head: with an empty     *)
(* pool it returns -ENOMEM.                                                *)
Create(t) ==
    /\ At(t, "run") /\ creates < MaxCreates
    /\ MaskedCreate => primask
    /\ creates' = creates + 1
    /\ IF free.head = NULL
         THEN UNCHANGED <<pc, node>>
         ELSE Goto(t, "unlink") /\ node' = [node EXCEPT ![t] = free.head]
    /\ UNCHANGED <<pools, status, cpu, reg, ptr, handles>>

(* slist_head_get(&m_free_thread_pool) compares the head with the tail ...  *)
CreateUnlink(t) ==
    /\ At(t, "unlink")
    /\ Goto(t, IF node[t] = free.tail THEN "empty" ELSE "follow")
    /\ UNCHANGED <<pools, status, cpu, locals, client>>

(* ... and resets the head and then the tail when the node was the last ... *)
CreateEmpty(t) ==
    /\ At(t, "empty")
    /\ free' = [free EXCEPT !.head = NULL]
    /\ Goto(t, "untail")
    /\ UNCHANGED <<ready, waitq, next, status, cpu, locals, client>>

CreateUntail(t) ==
    /\ At(t, "untail")
    /\ free' = [free EXCEPT !.tail = NULL]
    /\ Goto(t, "check")
    /\ UNCHANGED <<ready, waitq, next, status, cpu, locals, client>>

(* ... or moves the head to the node's successor.                           *)
CreateFollow(t) ==
    /\ At(t, "follow")
    /\ ptr' = [ptr EXCEPT ![t] = next[node[t]]]
    /\ Goto(t, "advance")
    /\ UNCHANGED <<pools, status, cpu, node, reg, client>>

CreateAdvance(t) ==
    /\ At(t, "advance")
    /\ free' = [free EXCEPT !.head = ptr[t]]
    /\ ptr' = [ptr EXCEPT ![t] = NULL]
    /\ Goto(t, "check")
    /\ UNCHANGED <<ready, waitq, next, status, cpu, node, reg, client>>

(* assert(ctx->status == THREAD_STATUS_NONE) *)
CreateCheck(t) ==
    /\ At(t, "check")
    /\ Goto(t, IF Asserts => status[node[t]] = {"NONE"} THEN "init"
                                                       ELSE "assert_none")
    /\ UNCHANGED <<pools, status, cpu, locals, client>>

(* thread_ctx_init: the object's context is set to start its handler. *)
CreateInit(t) ==
    /\ At(t, "init")
    /\ status' = [status EXCEPT ![node[t]] = {"STARTING"}]
    /\ pc' = [pc EXCEPT ![node[t]] = "run", ![t] = "detach"]
    /\ UNCHANGED <<pools, cpu, locals, client>>

CreateDetach(t) ==
    /\ At(t, "detach")
    /\ next' = [next EXCEPT ![node[t]] = NULL]
    /\ Goto(t, "test")
    /\ UNCHANGED <<free, ready, waitq, status, cpu, locals, client>>

(* sched_ready_enqueu without a lock: slist_tail_put tests the head, then   *)
(* writes head and tail, or loads the old tail, writes its link and then    *)
(* the tail.                                                               *)
CreateTest(t) ==
    /\ At(t, "test")
    /\ Goto(t, IF ready.head = NULL THEN "first" ELSE "link")
    /\ UNCHANGED <<pools, status, cpu, locals, client>>

CreateFirst(t) ==
    /\ At(t, "first")
    /\ ready' = [ready EXCEPT !.head = node[t]]
    /\ Goto(t, "settail")
    /\ UNCHANGED <<free, waitq, next, status, cpu, locals, client>>

CreateLink(t) ==
    /\ At(t, "link") /\ ready.tail # NULL
    /\ ptr' = [ptr EXCEPT ![t] = ready.tail]
    /\ Goto(t, "splice")
    /\ UNCHANGED <<pools, status, cpu, node, reg, client>>

CreateSplice(t) ==
    /\ At(t, "splice")
    /\ next' = [next EXCEPT ![ptr[t]] = node[t]]
    /\ ptr' = [ptr EXCEPT ![t] = NULL]
    /\ Goto(t, "settail")
    /\ UNCHANGED <<free, ready, waitq, status, cpu, node, reg, client>>

(* assert(list->tail != NULL); without it the null tail is written through  *)
(* and the fault stops the core.                                           *)
CreateNoTail(t) ==
    /\ At(t, "link") /\ ready.tail = NULL
    /\ Goto(t, IF Asserts THEN "assert_tail" ELSE "halted")
    /\ primask' = (primask \/ ~Asserts)
    /\ UNCHANGED <<pools, status, cur, nxt, pendsv, locals, client>>

CreateSetTail(t) ==
    /\ At(t, "settail")
    /\ ready' = [ready EXCEPT !.tail = node[t]]
    /\ Goto(t, "load")
    /\ UNCHANGED <<free, waitq, next, status, cpu, locals, client>>

(* status |= WAITING: the word is loaded, changed in a register and stored *)
(* back.                                                                   *)
CreateLoad(t) ==
    /\ At(t, "load")
    /\ reg' = [reg EXCEPT ![t] = status[node[t]]]
    /\ Goto(t, "mark")
    /\ UNCHANGED <<pools, status, cpu, node, ptr, client>>

CreateMark(t) ==
    /\ At(t, "mark")
    /\ status' = [status EXCEPT ![node[t]] = reg[t] \cup {"WAITING"}]
    /\ Goto(t, "reload")
    /\ UNCHANGED <<pools, cpu, locals, client>>

(* *thread is set, then status &= ~STARTING in the same way.  Mutant: it is *)
(* not set.                                                                *)
CreateReloadUnset(t) ==
    /\ At(t, "reload")
    /\ reg' = [reg EXCEPT ![t] = status[node[t]]]
    /\ Goto(t, "start")
    /\ UNCHANGED <<pools, status, cpu, node, ptr, client>>

CreateReload(t) ==
    /\ At(t, "reload")
    /\ handles' = handles \cup {node[t]}
    /\ reg' = [reg EXCEPT ![t] = status[node[t]]]
    /\ Goto(t, "start")
    /\ UNCHANGED <<pools, status, cpu, node, ptr, creates>>

CreateStart(t) ==
    /\ At(t, "start")
    /\ status' = [status EXCEPT ![node[t]] = reg[t] \ {"STARTING"}]
    /\ node' = [node EXCEPT ![t] = NULL]
    /\ reg' = [reg EXCEPT ![t] = {}]
    /\ Goto(t, "run")
    /\ UNCHANGED <<pools, cpu, ptr, client>>

-----------------------------------------------------------------------------
(* thread_join(u), its test of u's status, made without the lock.  It       *)
(* returns at once when u has no life or is the caller (-EDEADLK): neither *)
(* changes any state.                                                      *)
Join(t, u) ==
    /\ At(t, "run") /\ ~primask
    /\ status[u] \cap {"NONE", "ENDED"} = {} /\ u # t
    /\ node' = [node EXCEPT ![t] = u]
    /\ Goto(t, "join")
    /\ UNCHANGED <<pools, status, cpu, reg, ptr, client>>

(* sched_thread_join: the caller goes to u's wait queue, then schedule()    *)
(* puts it on the ready pool too; u, not the caller, is marked waiting.    *)
JoinLock(t) ==
    LET u      == node[t]
        links  == TailPutLinks(waitq[u], next, t)
        marked == [status EXCEPT ![u] = @ \cup {"WAITING"}]
    IN  /\ At(t, "join")
        /\ waitq' = [waitq EXCEPT ![u] = TailPut(@, t)]
        /\ IF ready.head = NULL
             THEN /\ next' = links
                  /\ status' = marked
                  /\ UNCHANGED <<ready, nxt, pendsv>>
             ELSE Rotate(links, marked)
        /\ Goto(t, "joined")
        /\ UNCHANGED <<free, cur, primask, locals, client>>

(* thread_join returns 0. *)
JoinReturn(t) ==
    /\ At(t, "joined")
    /\ node' = [node EXCEPT ![t] = NULL]
    /\ Goto(t, "run")
    /\ UNCHANGED <<pools, status, cpu, reg, ptr, client>>

-----------------------------------------------------------------------------
(* The thread's handler returns into m_thread_cleanup.  A thread already    *)
(* marked ended returns from there with no frame to return to.             *)
Cleanup(t) ==
    /\ t \in Workers /\ At(t, "run") /\ ~primask
    /\ Goto(t, IF "ENDED" \in status[t] THEN "lost" ELSE "endload")
    /\ UNCHANGED <<pools, status, cpu, locals, client>>

(* status |= ENDED: a load and a store.                                     *)
EndLoad(t) ==
    /\ At(t, "endload")
    /\ reg' = [reg EXCEPT ![t] = status[t]]
    /\ Goto(t, "endmark")
    /\ UNCHANGED <<pools, status, cpu, node, ptr, client>>

EndMark(t) ==
    /\ At(t, "endmark")
    /\ status' = [status EXCEPT ![t] = reg[t] \cup {"ENDED"}]
    /\ reg' = [reg EXCEPT ![t] = {}]
    /\ Goto(t, "end")
    /\ UNCHANGED <<pools, cpu, node, ptr, client>>

(* sched_thread_end takes the lock ... *)
EndLock(t) ==
    /\ At(t, "end")
    /\ primask' = TRUE
    /\ Goto(t, "resume")
    /\ UNCHANGED <<pools, status, cur, nxt, pendsv, locals, client>>

(* ... sched_threads_waiting_resume moves one waiter to the ready pool ... *)
EndResume(t) ==
    LET w == waitq[t].head
    IN  /\ At(t, "resume") /\ w # NULL /\ TailPutAssert(ready)
        /\ waitq' = [waitq EXCEPT ![t] = HeadGet(@, next)]
        /\ ready' = TailPut(ready, w)
        /\ next' = TailPutLinks(ready, [next EXCEPT ![w] = NULL], w)
        /\ status' = Enqueued(status, w)
        /\ UNCHANGED <<free, cpu, pc, locals, client>>

(* thread_free_put: what it makes of the free pool.                         *)
Freed(t) == TailPut(free, t)

(* ... and schedule(true), thread_free_put and the unlock end the thread.   *)
EndSwitch(t) ==
    LET links == [next EXCEPT ![t] = NULL]
    IN  /\ At(t, "resume") /\ waitq[t].head = NULL /\ TailPutAssert(free)
        /\ nxt' = ReadyNext
        /\ ready' = Popped(links)
        /\ free' = Freed(t)
        /\ next' = TailPutLinks(free, Detached(links), t)
        /\ status' = [Swap(status, t, nxt') EXCEPT ![t] = @ \cup {"ENDED"}]
        /\ pendsv' = TRUE
        /\ primask' = FALSE
        /\ Goto(t, "dead")
        /\ UNCHANGED <<waitq, cur, locals, client>>

(* sched_thread_end returns: a thread that has ended is installed again.    *)
(* assert(false), or an endless loop when it is compiled out.              *)
EndReturned(t) ==
    /\ At(t, "dead") /\ Asserts
    /\ Goto(t, "assert_false")
    /\ UNCHANGED <<pools, status, cpu, locals, client>>

(***************************************************************************)
(* slist_tail_put finds a null tail in SysTick or in a locked section, on  *)
(* the ready pool or on the free pool: the assertion, or else the write    *)
(* through the null pointer, stops the core.                               *)
(***************************************************************************)
RequeueFails(n) ==
    cur # Idle /\ ready.head # NULL /\ ~TailPutAssert(Popped(n))

LockedPutFails ==
    \/ ~primask /\ ~pendsv /\ RequeueFails(next)
    \/ At(cur, "join") /\ RequeueFails(TailPutLinks(waitq[node[cur]], next, cur))
    \/ At(cur, "resume") /\ ~TailPutAssert(IF waitq[cur].head # NULL
                                             THEN ready ELSE free)

Halt ==
    /\ LockedPutFails
    /\ primask' = TRUE
    /\ Goto(cur, "halted")
    /\ UNCHANGED <<pools, status, cur, nxt, pendsv, locals, client>>

-----------------------------------------------------------------------------
CreateStep(t) ==
    \/ CreateUnlink(t) \/ CreateEmpty(t)  \/ CreateUntail(t)
    \/ CreateFollow(t) \/ CreateAdvance(t)
    \/ CreateCheck(t)  \/ CreateInit(t)   \/ CreateDetach(t)
    \/ CreateTest(t)   \/ CreateFirst(t)
    \/ CreateLink(t)   \/ CreateNoTail(t) \/ CreateSplice(t)
    \/ CreateSetTail(t)
    \/ CreateLoad(t)   \/ CreateMark(t)   \/ CreateReload(t)
    \/ CreateStart(t)

EndStep(t) ==
    \/ EndLoad(t) \/ EndMark(t)
    \/ EndLock(t) \/ EndResume(t) \/ EndSwitch(t) \/ EndReturned(t)

(* The steps a thread takes once it is inside the kernel or masks the CPU.  *)
KernelStep(t) ==
    CreateStep(t) \/ JoinLock(t) \/ JoinReturn(t) \/ EndStep(t) \/ UnmaskIrq(t)

(* The calls its code decides to make. *)
ClientStep(t) ==
    \/ MaskIrq(t) \/ Create(t) \/ Cleanup(t)
    \/ t \in Joiners /\ \E u \in handles : Join(t, u)

Tick == SysTick \/ SysTickIdle

Next ==
    \/ Tick
    \/ PendSV
    \/ Halt
    \/ \E t \in Thread : KernelStep(t) \/ ClientStep(t)

Spec == Init /\ [][Next]_vars

(***************************************************************************)
(* Fairness.  A pending PendSV is taken and a thread that owns the core    *)
(* executes its next instruction (weak).  The timer's exception stays      *)
(* pending while PRIMASK is set and is taken as soon as it is cleared,     *)
(* however briefly (strong).  Nothing obliges a client to call anything.   *)
(***************************************************************************)
FairSpec ==
    /\ Spec
    /\ WF_vars(PendSV) /\ SF_vars(SysTick)
    /\ \A t \in Thread : WF_vars(KernelStep(t))

-----------------------------------------------------------------------------
(* What the properties speak of.                                            *)

(* The thread that has the core, or gets it as soon as PendSV runs. *)
Running == IF pendsv THEN nxt ELSE cur

Members(l) == Contents(l, next, THREAD_MAX_NUM + 2)

NoDuplicates(l) == Cardinality(Elems(Members(l))) = Len(Members(l))

(* The threads whose thread_create has not yet linked them, by any caller.  *)
BeingCreated == {node[c] : c \in {u \in Thread :
                    pc[u] \in {"detach", "test", "first", "link", "splice",
                               "settail"} \cup Stuck}}

(* Where thread_create has its object and is not yet done with it.          *)
Owning == {"init", "detach", "test", "first", "link", "splice", "settail",
           "load", "mark", "reload", "start"}

(* Where it is out of the free pool and not yet in the ready pool.          *)
Unlinked == {"check", "init", "detach", "test", "first", "link", "splice"}

(* The threads the scheduler has to look after. *)
Placed == {t \in Queued : pc[t] \notin {"unused", "dead"}} \ BeingCreated

-----------------------------------------------------------------------------
(* Every variable has its type; in particular the idle thread is in no list *)
(* and in no client's hands, and never leaves its loop (scheduler.c:162).  *)
TypeOK ==
    /\ free \in Lists(Queued) /\ ready \in Lists(Queued)
    /\ waitq \in [Thread -> Lists(Queued)]
    /\ next \in [Thread -> Queued \cup {NULL}]
    /\ status \in [Thread -> SUBSET Flags]
    /\ cur \in Thread /\ nxt \in Thread \cup {NULL}
    /\ pendsv \in BOOLEAN /\ primask \in BOOLEAN
    /\ pc \in [Thread -> Labels] /\ pc[Idle] = "idle"
    /\ node \in [Thread -> Queued \cup {NULL}]
    /\ reg \in [Thread -> SUBSET Flags]
    /\ ptr \in [Thread -> Queued \cup {NULL}]
    /\ handles \subseteq Queued
    /\ creates \in 0 .. MaxCreates

(* THREAD_STATUS_ACTIVE, "thread is currently executing" (thread.h:102), is *)
(* set for exactly the thread that has the core, between swap_threads and  *)
(* PendSV the one that is about to have it, whatever calls race.           *)
ActiveIsRunning == {t \in Thread : "ACTIVE" \in status[t]} = {Running}

(* A thread inside thread_create works on another thread's object, and the  *)
(* read-modify-writes of a status never bring a stale THREAD_STATUS_ACTIVE *)
(* back nor take it from the thread that has it, although they race with   *)
(* swap_threads (thread.c:238-249, 86).                                    *)
CreatorsHold ==
    \A t \in Thread :
        /\ pc[t] \in Owning => node[t] \in Queued \ {t}
        /\ pc[t] \in {"mark", "start"} => "ACTIVE" \notin reg[t]
        /\ pc[t] = "endmark" => "ACTIVE" \in reg[t]

(* The idle thread gets the core only when no thread is ready, and then     *)
(* none ever is (scheduler.h:17).                                          *)
IdleLast == Running = Idle => ready.head = NULL

(* assert(list->tail != NULL) never fails on a wait queue (slist.c:99),     *)
(* even when its nodes are in other lists as well.                         *)
WaitQueueTails == \A t \in Thread : TailPutAssert(waitq[t])

(* Outside critical sections the ready pool holds, once each, the live      *)
(* threads other than the running one, and the free pool, once each, the   *)
(* objects never used or ended (scheduler.c:32-38, thread.c:30-37).        *)
QueuesExact ==
    ~primask =>
        /\ NoDuplicates(ready) /\ Elems(Members(ready)) = Placed \ {Running}
        /\ NoDuplicates(free)
        /\ Elems(Members(free)) = {t \in Thread : pc[t] \in {"unused", "dead"}}

(* No live thread is forgotten: it runs, or it is in the ready pool, or it  *)
(* is in some thread's wait queue (scheduler.c:35-37).                     *)
ThreadsKept ==
    ~primask => Placed \subseteq
        {Running} \cup Elems(Members(ready))
                  \cup UNION {Elems(Members(waitq[u])) : u \in Thread}

(* thread_join: "function returns when the thread ends" (thread.h:162).     *)
JoinWaits ==
    \A t \in Thread : At(t, "joined") => "ENDED" \in status[node[t]]

(* What thread_create has drawn from the free pool is its own               *)
(* (thread.c:231-249): until it is linked nobody finds it in a pool, until  *)
(* thread_create is done it does not run, and no other call has drawn it,   *)
(* though the free pool is used without a lock and ended threads come back  *)
(* to it.  So it is if interrupts are masked around the call.              *)
DrawnIsOwned ==
    \A t \in Thread :
        /\ pc[t] \in Owning =>
              /\ node[t] \notin {cur, Running}
              /\ \A u \in Thread \ {t} : pc[u] \in Owning => node[u] # node[t]
        /\ pc[t] \in Unlinked =>
              node[t] \notin Elems(Members(free)) \cup Elems(Members(ready))

(* assert(ctx->status == THREAD_STATUS_NONE) holds in thread_create         *)
(* (thread.c:240): what the free pool hands out was released.              *)
FreeIsReleased == \A t \in Thread : pc[t] # "assert_none"

(* assert(false) in m_thread_cleanup is not reached, "we can't get back     *)
(* here" (thread.c:90-91).                                                 *)
NeverBack == \A t \in Thread : pc[t] # "assert_false"

(* assert(list->tail != NULL) holds in every slist_tail_put (slist.c:99).   *)
TailsSet == \A t \in Thread : pc[t] \notin {"assert_tail", "halted"}

(* Round robin serves every ready thread: one that is in the ready pool     *)
(* eventually gets the core (scheduler.c:25-39).                           *)
Served == \A t \in Queued : t \in Elems(Members(ready)) ~> Running = t

(* The loop of sched_threads_waiting_resume ends, and the interrupts it     *)
(* runs with are unmasked again (scheduler.c:253-269).                     *)
ResumeEnds == \A t \in Thread : pc[t] = "resume" ~> ~primask
=============================================================================
