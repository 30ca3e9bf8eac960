# A TLA+ model of the nordic-baremetal kernel

`hello_world/` is a small preemptive kernel for one Cortex-M4 core (nRF52833):
threads with a free pool of thread objects, a round-robin scheduler driven by
SysTick, a context switch in PendSV, `thread_join`, spin locks, a mutex and an
intrusive list under all of it. This directory holds its formal model, the
configurations that check it with TLC and the theorems that TLAPS proves.
Paths below are relative to `src/hello_world/`.

## Inventory

| part | state | operations | interacts by |
|---|---|---|---|
| list, `tools/slist.c` | head, tail of each list; `next` in each node | init, head/tail get, put, remove, peek | called by threads and scheduler; a node has one link, whatever lists it is put into |
| threads, `sys/thread.c` | free pool, each thread's status and wait queue | `thread_init`, `thread_create`, `thread_join`, `m_thread_cleanup`, `thread_free_put` | calls the scheduler; entered when a handler returns |
| scheduler, `sys/scheduler.c` | ready pool, `g_current_thread`, `g_next_thread` | `SysTick_Handler`, `schedule`, `swap_threads`, `sched_thread_end`, `sched_thread_join` | timer interrupt, request of PendSV |
| context switch, `sys/pend_sv.S` | the stacks, `g_current_thread` | `PendSV_Handler` | interrupt, taken as soon as PRIMASK allows |
| spin lock, `sys/spin_lock.c`, `sys/irq.h` | lock word, PRIMASK | with and without interrupt masking, with WFE or busy | used by scheduler and application |
| mutex, `sys/mutex.c` | lock word | init, lock, unlock (empty) | shares the exclusive monitor with the spin locks; no caller in the tree |
| UART and libc stubs, `drivers/uart.c`, `sys/syscalls.c` | one driver instance | init, blocking transmit, `_write` | `printf` of any thread |
| application, `main.c` | counters, a spin lock | creates two threads, joins the first in a loop | client of all |

What is hard about them:

* `thread_create` takes no lock at all, although SysTick works on the same
  pools and status words;
* the sections that do take a lock are atomic because they mask interrupts, so
  the interesting interleavings are those of the unlocked code, of requested
  but not yet taken switches, and of long sequences of calls;
* a node has one link, and `thread_join` puts a thread into two lists;
* an ended thread's object goes back to the pool while the thread still runs;
* assertions stop a thread, or the whole core when interrupts are masked;
* a context is written by one piece of code and read by another: the hardware,
  `PendSV_Handler` and `thread_ctx_init` must agree on two frames, on their
  alignment and on where the stack pointer is kept;
* `printf` reaches one UART driver from several threads, and the driver's test
  of its busy mark is not protected.

What makes each part correct: a list holds exactly what was put and not taken;
every live thread is running or queued, once, and an ended one never runs
again; status flags say what their comments say; ready threads are served in
turn; `thread_join` waits; locks exclude and are released; a switch is invisible
to the threads; a thread that prints is not disturbed while it transmits.

`PROJECT.json` lists these hazards at their lines with the property that
watches each.

## Modules

| module | what it is |
|---|---|
| `SList` | the list as operators over a (head, tail) pair and the links of all nodes: the operations the kernel uses |
| `Kernel` | threads, scheduler and context switch, one action per handler or critical section, and per memory access where the code takes no lock |
| `RoundRobin` | the abstract scheduler: a running thread and a queue |
| `KernelRoundRobin` | the refinement mapping from `Kernel` to `RoundRobin` |
| `KernelMC` | the clients that the configurations choose among |
| `Application` | `main.c` on top of `Kernel`, and the UART it prints through |
| `Context` | the two function frames: layout, writing, reading, forging |
| `Layout` | thread objects in memory: from a list node to its thread, and the offset by which the assembler finds a saved stack pointer |
| `Core` | the processor under `RoundRobin`: registers, stacks, exceptions, the timer |
| `CoreMC` | stacks and register files for TLC |
| `ListSpec` | what a list promises: sequences |
| `SListOps` | `slist.c` as clients see it: all operations on several lists that share nodes |
| `ReadyPool` | `sched_ready_remove`, iteration by iteration, on top of `SListOps` |
| `SpinLock` | `spin_lock.c` and `irq.h`, one action per instruction between which interrupts matter |
| `Mutex` | `mutex.c` in the same way, on top of `SpinLock` |
| `SListProofs` | lemmas on lists: what the pointer operations do to the sequence a list spells |
| `KernelProofs`, `PoolProofs` | theorems about `Kernel` for any client; about its pools for clients that mask `thread_create` |
| `RoundRobinProofs`, `CoreProofs` | about the abstract scheduler; about contexts |
| `SListOpsProofs` | about `SListOps` and `ReadyPool` |
| `LockProofs` | about `Mutex`, whose steps include those of `SpinLock` |
| `ApplicationProofs` | about the program of `main.c` |

### Kernel

*State.* `free` and `ready` are the two static pools, `waitq[t]` the wait queue
of thread `t`, `next[t]` the one link of its node. `status[t]` is the status
word as a set of flags (`READY` shares a bit with `STARTING`; `PENDING` is
never used). `cur`, `nxt`, `pendsv` and `primask` are `g_current_thread`,
`g_next_thread`, the PendSV request and PRIMASK. Thread 0 is the main thread
and thread 1 the idle thread, the first two objects that `thread_init` takes.
The saved context of a thread is `pc[t]`, the point where it continues; `node`,
`reg` and `ptr` are the local variable and the registers that live across a switch.
`handles` is what clients have been given.

*Grain.* A section under `spin_lock_irq` runs with interrupts masked on the
only core, so it is one action; `sched_thread_end` is one action per iteration
of its loop, which lets a loop that never ends show. `thread_create` is nineteen
actions, in source order: none both loads and stores what other threads or SysTick
write (`CreateInit` writes the context of the drawn object as one, `CreateReload`
fills in the caller's `*thread` with its load of the status). A `|=` or `&=`
outside a lock is a load and a store, in `thread_create` (`reg`) as in
`m_thread_cleanup` (`EndLoad`, `EndMark`); a list pointer on its way from memory
to memory is in `ptr`. The pair head-then-tail of a list is written in source
order too; a compiler may choose another one, or one instruction for both.

One thing is coarser. `slist_head_get` tests `list->head` and reads it again in
the next line, `slist_tail_put` asserts `list->tail` and reads it again; the
build does not optimise (`-O0`, `CMakeLists.txt:84`), so both are two loads. The
model loads once. Between the two, other threads may draw the last free object,
or empty the ready pool, so that the second load finds null where the first did
not; that window is not in the model, and the violations below need none of it.

*Interrupts.* `SysTick` may come between any two steps unless PRIMASK is set or
a switch is requested: with equal priorities the lower exception number,
PendSV, is taken first. `PendSV` is one action because the handler masks
interrupts. The tick counter is left out; the timer is in `Core`.

*Clients* call `thread_create` and `thread_join` in any order from any thread,
return from their handlers whenever they like, and mask interrupts with
`spin_lock_irq_store` in between; they do not call `thread_join` or return
inside a masked section. With `MaskedCreate` they call `thread_create` only with
interrupts masked, as the comment on `sched_ready_enqueu` demands of callers
(`main.c` does not). `Joiners` says who may call `thread_join`.

*Failures.* With `Asserts`, a failed assertion in a thread leaves that thread
in an endless loop that is still scheduled; in an interrupt handler or with
interrupts masked it stops the core (`Halt`). Without (`-DNDEBUG`, the release
flags of `cmake/arm-none-eabi.cmake`), the status check disappears and a write
through a null tail stops the core.

### RoundRobin

`running` and `queue`; `Create` appends, `Preempt` rotates, `Finish` takes the
next thread. `KernelRoundRobin` maps `running` to the thread that has the core
or is about to have it, and `queue` to the nodes a reader of the ready pool
would see. Since the main thread never ends, the idle thread never runs there.

### Application

`at[t]` is the point thread `t` has reached in its own code, which it executes
where its kernel label is `run`; `thread_create`, `thread_join` and the end of a
thread are `Kernel`'s actions, conjoined with what the caller does. `word` and
`flags` are the program's lock and its users' flags, `rounds` and `loops` the
counters that decide when thread_1 ends and when main begins to join it.
`sending` is the driver's busy mark. When `printf` hands its text to `_write` is
the C library's choice (`PrintBuffered`); a write fails while the driver is busy
or before it is initialised. The nrfx driver is not in the tree: that it waits
for the end of a transmission follows from the null handler (`uart.c:35`), that
nothing protects its test of the mark from the empty critical sections of
`nrfx_glue.h`.

`TickInCreate` says whether SysTick may come inside main's two calls of
`thread_create`. Without it the program is sound in the sense of the run's
properties; with it a thread can be lost, which the run `create_loses_thread`
shows on this program.

### Context, Layout and Core

A stack is a function from word offsets to words, a stack pointer a pair of
a thread (whose stack it points into) and an offset. A word is abstract:
`<<register, thread, a>>`, where `a` is the alignment bit of a stacked xPSR.
`Entry` and the exception return in `Return` are the processor's;
`PendSV_Handler` and `SysTick_Handler` run in handler mode. `running` is
`RoundRobin`'s, `cpu` is `g_current_thread`; PendSV is pending while they
differ, and goes first. `thread_create` writes the frames of `thread_ctx_init`
and saves the new thread's stack pointer through C's pointers;
`PendSV_Handler` goes through the offset symbol instead (`Layout`). A pointer
is a pair of a thread object and an offset in bytes, and the members' offsets
are parameters, so that the proofs hold for whatever the compiler chooses.

`Results[t]` are the register files thread `t`'s code may compute; with one it
also moves its stack pointer and writes words. `Room` is what a thread has to
leave free on its stack for one context and one word of alignment; nothing in
the kernel checks it. The main stack, on which handlers run, is not modelled;
neither are the FPU's registers: the build selects the hard-float ABI
(`CMakeLists.txt:76`), `pend_sv.S` saves none of them, and the model assumes that
threads do not use them.

`load`, `counting` and `tick` are the timer. `scheduler_init` writes `1 << 24`
to the 24-bit LOAD, that is 0; the period under way is the one
`nrfx_systick_init` has started, and the handler of its tick writes 65535 before
the counter would stay at zero for good.

### SListOps and ListSpec

One action per function of `slist.h`, on `list[l]` and the one link `next[n]` of
each node; the operators come from `SList`, which `Kernel` uses too. Nothing in
the C code enforces what a client has to observe, so the actions state it: a
node is put only while it is in no list, and `slist_next_*` is given a node of
the list it names. `seq[l]` is an auxiliary variable with what such a client
knows from its own calls; no pointer is computed from it, so it changes no
behaviour. `Tidy` are the lists whose clients put nodes with a null link only,
as the fixture of `tests/slist_test.cpp` means to (its `tear_down`, line 87, is
never called: CppUTest calls `teardown`). The clients of the other lists put a
node as it comes. `ret`, auxiliary too, is the last answer to a client of a tidy
list. `ListSpec` is the same interface on sequences, and does not mention links:
the tidy lists implement it, whatever links nodes bring from the others.

### ReadyPool

`thread`, `node` and `node_next` are the parameter and the locals of
`sched_ready_remove`. The head case is one action; otherwise one action per
iteration. While it walks, the other operations wait, as they would for
`m_sched_lock`. Its only caller in the tree is a branch that cannot be reached;
the clients here remove threads that are in the pool.

### SpinLock

`word` is the lock word, `primask` the interrupt mask, `monitor` the exclusive
monitor of the core, `event` and `asleep` its event register and WFE. A thread
goes through load, perhaps wait, and store; `Interrupt` may fall between any two
of them while PRIMASK is clear, clears the monitor as exception entry does, and
gives the core to any thread. `held[t]` is auxiliary; `flags[t][l]` is the local
variable of the caller of `spin_lock_irq_store`. The two instructions of
`irq_disable_store` are one action: PRIMASK is the same when an interrupt
between them returns. A release is one action too: for the two variants that
touch PRIMASK it runs masked to its last instruction.

Clients release the lock they took last, take locks in ascending order (no
lock is recursive, `spin_lock.h:44`), and with interrupts masked take only locks
of `spin_lock_irq_store`: `spin_unlock_irq` enables interrupts whatever they
were, and `spin_lock` may not be called then (`spin_lock.h:27`). The program
keeps to this: `main.c` uses `spin_lock_irq_store` and calls nothing of the
scheduler inside, which uses `spin_lock_irq`.

### Mutex

`mutex_init` and `mutex_lock` run the same instructions: load-exclusive, then
store-exclusive or WFI. The `BEQ 2f` in the IT block is taken on the result of
the *store* too, so a store that failed waits for an interrupt, which has in fact
just happened; `BEQ 1b` is never taken. `mutex_unlock` is empty. The memory of a
mutex is zero before `mutex_init`, as its comment assumes. `given` is auxiliary
and counts the calls that have returned.

## Runs

`PROJECT.json` names each run's module, configuration and properties.

| run | question | instance |
|---|---|---|
| `round_robin` | are threads never overtaken, does main stay in the round; are contexts kept and forged right, whatever the alignment; does the timer keep ticking? | 3 workers, main and one worker compute, one stack of an odd number of words |
| `disciplined` | under masked `thread_create` and no joins, are the pools exact, does the kernel implement `RoundRobin`, is every ready thread served, does a drawn object belong to its creator alone? | 3 workers, 5 creations, no assertions |
| `application` | is `main.c` a client of `Kernel`; do its threads take turns, is none lost, do they go on: repeated joins, the end of thread_1, printing from three threads? | 4 objects, 2 creations, thread_1 prints three times, main joins after two |
| `any_client` | what survives unlocked creation and arbitrary joins? | 2 workers, 3 creations |
| `join_returns_early` | does `thread_join` wait? no | 1 worker |
| `join_revives_dead` | can a thread get back behind its end? yes | 2 workers |
| `join_resume_loops` | does the resume loop end? not always | 2 workers |
| `create_reuse` | is an ended thread's object usable again? no | 1 worker |
| `create_loses_thread` | is `main.c`'s unlocked creation safe? no | the program, SysTick anywhere |
| `list_ops` | do the pointers spell what was put and not taken, do the assertions hold, does `sched_ready_remove` find its thread, whatever stale links nodes carry; does the list of careful clients implement `ListSpec`, answers included? | 4 nodes, the ready pool and one tidy list |
| `list_stale_link` | is the link of the last node null? not for clients that put a node as it came out of a list | 4 nodes, 2 lists |
| `spin_lock` | do locks exclude, are masked sections alone, is the mask lifted, does the core ever wait with interrupts masked, how many calls on a mutex return? | 3 threads, 2 + 1 + 2 locks, 1 mutex |

*Bounds.* `THREAD_MAX_NUM` is 4 in the code. Three workers give a ready pool
with a head, a middle and a tail behind a running thread; two are enough for
two creators on one free object, for a dead thread in a wait queue and for a
third thread behind a joiner. `MaxCreates` caps the calls of `thread_create`:
it exceeds the number of objects where reuse or an empty pool matters, and
three calls let two threads draw the last object together. Four nodes make a
list with a head, two inner nodes and a tail, and two lists let a node carry a
link from one to the other. Three threads let one be interrupted between load
and store while a second holds the lock and a third waits; two locks of
`spin_lock_irq_store` nest in each other, in the lock of `spin_lock_irq` and in
both plain ones; one mutex is enough, since mutexes share nothing but the monitor.
thread_1 prints 101 times and main 300 before it joins: both counts only decide
when a phase begins, so a few rounds show every interleaving of the phases. A
stack of even and of odd size makes the core align a frame or not, and an
exception of a thread with one more word in use the other way round. TLC reports a
deadlock where the core has really stopped, so deadlock is not checked;
liveness is, where it is claimed.

*Fairness* (`FairSpec`). A requested PendSV is taken and a thread that has the
core executes its next instruction: weak fairness. SysTick is strongly fair: its
exception stays pending while PRIMASK is set and is taken when the mask is
lifted, however short that moment. No client is obliged to call anything.

*Fairness in the application* (`AppFairSpec`). Here the clients are this program,
whose threads never stop by choice. Each thread's next step is strongly fair: it
may lose the core before it takes it, but a time slice is far longer than a
switch (`scheduler.c:80-82` demands it), so it gets there one of the next times.

*Fairness of the core* (`CoreFairSpec`). The timer counts, an exception that is
pending is entered and its handler goes on (weak, each). `Expire` happens in
thread mode only: by the same comment a period outlasts the handlers. Threads
need not do anything: preemption alone has to serve them. In `ReadyPool` the walk
goes on (weak), since its thread holds the lock with interrupts masked.

### What the violations show

* `thread_join` queues the caller on the target and, through `schedule(false)`,
  in the ready pool too. So it returns while the target runs
  (`join_returns_early`); the caller can end before it is resumed, and is then
  resumed dead (`join_revives_dead`); and the two lists share one link, which
  can come to point to its own node (`join_resume_loops`). `main.c`, with one
  joiner, escapes the last two (`application`) but not the first.
* `thread_create` refuses the object of any thread that has ended: the status
  stays `ENDED` and is never set back to `NONE` (`create_reuse`).
* `thread_create` does without the lock that the TODO at `thread.c:231` asks for.
  Two callers can draw the same object from the free pool when a tick falls
  between the load of its head and the store of the next one, and a caller
  stopped in `slist_tail_put` behind its test of the head can find the ready pool
  emptied when it goes on. The instance of `disciplined`, with `MaskedCreate =
  FALSE`, violates `DrawnIsOwned` (any assertions) and, with `Asserts = TRUE`,
  `TailsSet`; these are not runs of their own.
* Without a lock around it, a thread is lost when SysTick falls between the
  stores of `slist_tail_put`: `main.c`'s second call loses the first thread or
  the main thread itself (`create_loses_thread`). With `TickInCreate` the
  properties `NeverBack`, `OneSender`, `RefusedBehindMain`, `ResumeEnds` and
  `Thread1Ends` still hold; `TailsSet` and `MainGoesOn` fail, in schedules that
  need several ticks within the few instructions of one call.
* `slist_tail_put` leaves the new node's own link as it finds it, and
  `slist_head_get` does not clear it on the way out. A node put again carries its
  old link: the tail has a successor, which `slist_next_get` returns although it
  is in no list (`list_stale_link`). The kernel clears the links of the nodes it
  takes before it queues them, and nothing that it calls asks for a successor.

Other disagreements, seen while modelling and not run:

* `THREAD_STATUS_WAITING` is set on every ready thread and on the joined rather
  than the joining one (`thread.h:106`); `THREAD_STATUS_STARTING` is cleared only
  after the thread is queued (`thread.h:98`).
* `spin_unlock_irq_restore` does call SEV (`spin_lock.h:73`).
* `mutex_init` runs the lock sequence where its comment announces an ordinary
  store (`mutex.c:11`), so that the first `mutex_lock` after it waits for ever
  (`GivenOnce` is the positive statement of that). Both functions return by
  `BX LR` from inside a C function, and `mutex_init` does not declare the
  registers it changes (`mutex.c:34`); the models assume the compiler keeps
  nothing there.
* `sched_thread_end` clears the thread's link (`scheduler.c:225`) before it would
  call `sched_ready_remove`, which would cut off the threads behind it; the
  branch cannot be reached.
* The diagrams of `thread.h:61-76` draw the software frame in another order than
  the structure below them and than `STMDB` has; the code is consistent.
* `main` prints from `test_load32` before `uarte_init` (`main.c:212`, 215), since
  0xFAFA squared is below `g_limit`; it ignores the results of `uarte_init` and
  of `thread_create`.
* `uarte_tx` never writes back the number of bytes sent, as `uart.h:19` says.

## Proofs

Every invariant and action property of the passing runs is stated by a theorem,
for every value of the constants: any `THREAD_MAX_NUM` and `MaxCreates`, any
length of the program's loops, any threads, nodes, lists, locks, mutexes, stacks
and structure layouts. Three hypotheses occur, each on a constant that says what
a client or the build does: `Asserts`, `MaskedCreate` with `Joiners = {}`, and
`~TickInCreate`. Violation runs show that the last two are needed.

### Any client of the kernel (`KernelProofs`)

Unlocked or masked creation, any set of joiners.

* `TypesCorrect`: `TypeOK` is inductive once `Locals` is added (a requested
  switch has a target; a thread inside `thread_create` or `thread_join` holds an
  object, and never the idle thread's). It says in particular that the idle
  thread is in no list, which the scheduler's code relies on.
* `WaitQueuesSafe` and `IdleIsLast` need only the types.
* `ActiveTracksRunning` assumes `Asserts`. `ActiveIsRunning` is not inductive:
  `thread_create` stores back a status it loaded before, which would erase or
  revive the active flag. `CreatorsHold` is the strengthening: the object is
  not the caller's own and the loaded value lacks the flag; and what
  `m_thread_cleanup` has loaded of its own thread's status has it. The first is established
  by the assertion on the status in `thread_create`, since the caller's own
  status is active: the assertion matters for more than debugging.
  `CreatorsAlwaysHold` states it as a theorem of its own.

### The pools (`PoolProofs`)

`QueuesAreExact`, `ObjectsOwned`, `AssertionsHold` and `KernelIsRoundRobin` assume
`MaskedCreate` and `Joiners = {}`, with or without assertions. Without the first,
`create_loses_thread` shows a thread lost between two stores; with joins, the
runs `join_*` show ended threads coming back and lists that loop.

The invariant says which sequences the two pools hold, link by link, at every
label of `thread_create` (`FreeHolds`, `ReadyHolds`): inside it an object is in
neither pool, or the list is finished but for one pointer. `Posts` says who may be
where: only the thread that has the core is inside `thread_create`, a switch is
requested only while nobody is, and an object being created belongs to nobody
else. It is not inductive without `Disciplined` (creators are masked; no wait
queue is in use), and it is that part the hypotheses buy.

`Members`, what a reader of the list sees, is a walk along the links, written as
a recursive function over a bounded number of steps. `SListProofs` shows that a list which
`Holds` a sequence is walked as that sequence (`ContentsSpelled`): if not, there
is a least place at which the walk goes wrong, and the place before it
contradicts it. The natural numbers' least-element argument stands in for an
induction theorem. With it every step turns the queue as `RoundRobin` promises
(`Turn`): not at all, by a new thread at the end, by a rotation, or by taking its
head. In the middle of `slist_tail_put` the queue already shows the node that the
head points to (`Shown`), so the append happens at the store of the link or of the
head, and the store of the tail is a stutter.

### The program (`ApplicationProofs`)

`ProgramUsesKernel`, `OneSenderOnly` and `OnlyMainIsInTheWay` hold wherever SysTick
falls. Their invariant `ProgramInv` has five parts: `Objects` (the first
`thread_create` takes object 2, with nobody else about, the second object 3),
`Handed` (thread_1 is on object 2, and main has that handle before it joins),
`Paths` (where each thread is, in the kernel and in its own code), `Undisturbed`
(a worker inside the spin lock has the core, masked, with no switch requested) and
`Busy` (the driver's mark belongs to the thread that transmits; a worker that
has found it free still does). The workers print masked, so whoever finds the
mark set by another has met main, which prints without the lock.

`ProgramAssertionsHold`, `ProgramKeepsThreads` and `ProgramIsRoundRobin` assume
`~TickInCreate`, which `create_loses_thread` shows to be needed. Here the
hypotheses of `PoolProofs` are false: main does join, over and over, and its node is then
in thread_1's wait queue and in the ready pool at once, with one link. The
invariant `QueueInv` adds to `Posts` and the pools' contents `Waiters` (every wait
queue but thread_1's is empty, and that one holds nobody but main) and `Ordered`:
while thread_1 has the core, main is the last of the ready pool.
So, when thread_1 ends and resumes main, the write
into main's link falls behind the tail, where it is put right by the next one:
the joins are harmless, by the order of the three threads and not by the code
of `thread_join`. Most steps are shared with `PoolProofs`, whose lemma
`StepPools` covers every step but those of `thread_join` and of the resuming
(`Regular`).

### Locks, lists, cores

* `MainAlwaysAlive` and `TurnsAdvance` are about `RoundRobin`, with the
  invariant that the queue has distinct elements and holds the main thread
  unless that runs.
* `ListsAlwaysExact`, `AssertionsHold`, `SequencesImplemented` (`SListOpsProofs`):
  the inductive invariant is `ListsExact` (head, tail and links agree with
  `seq`) with `Separate` (no node twice, in one list or in two), without which a
  put into one list could cut another, and `TidyTails` (the last node of a tidy
  list has a null link). The pointer operations preserve `ListsExact` by two lemmas, one for
  inserting at any place and one for removing; the invariant compares neighbours
  and not walks. Every step then maps to the step of `ListSpec` of the same name.
* `WalkStaysInPool`: while `sched_ready_remove` walks, the lists keep the invariant
  of `SListOps` (its steps are steps of that module by construction), so the
  links that it reads are neighbours of `seq`, with the thread still ahead.
* `FramesAlwaysSound`, `ContextsKept`, `ThreadsBegin` (`CoreProofs`): the inductive invariant has four parts: `RoundRobin`'s own;
  `Machine` (stacks and registers are functions with the right domains);
  `OnCore` (the stack pointer lies in the current thread's stack, in handler
  mode on a hardware frame, with room below it); `SwitchedOut` (every other
  started thread has both frames, with a valid EXC_RETURN, inside its own
  stack). What a thread would find if it were resumed (`View`) is computed from
  its frames or from the registers. Lemmas on storing and loading a
  frame (`StoredFacts`, `LoadedFacts`) say which words change; then entry,
  switch and return each leave every thread's view as it was. The layout
  of the thread objects enters by `PointersAgree`: C's two nested members and
  the assembler's one offset are the same word, whatever the offsets are.
* `LocksExclude`, `MaskExact`, `MaskAlwaysLifted`, `CoreNeverFrozen`,
  `OneCallReturns` (`LockProofs`) are about `MutexSpec`, the
  specification the run checks: locks and mutexes on one monitor. Exclusion rests on `Reserved`
  (an armed monitor means that the loaded word is still free), and so does that
  one store on a mutex succeeds in its life. That the mask is right after
  any nesting rests on `FlagsExact` (the saved flags say whether an outer masked
  section is held) and `IrqOutermost`. With them, `spin_lock_irq_store` finds its
  lock free on one core, so the WFE in it is never reached.

### Only model-checked

All liveness under fairness, which is out of the prover's reach: `Served`,
`ResumeEnds`, `Thread1Ends`, `MainGoesOn`, `EveryoneRuns`, `WalkEnds`.

## Not modelled

* The nrfx drivers and CMSIS are not in the tree; what the program uses of them is
  in `Application` (UARTE) and `Core` (SysTick), marked external.
* `nrf_config/nrfx_config*.h` and `log/nrfx_log.h` are vendor templates, two
  fifths of the lines of the tree: macros without state.
* The functions of `main.c` that nothing calls (`test_load_64bit`,
  `test_store_64bit`, `test_load_32bit`, `test_store_32bit`, `foo`), and `bar`, which
  writes a variable only `foo` reads.
* `ready_next_remove` (`scheduler.c:136`) and `THREAD_CONTEXT_GET` have no users.
* `thread_init` has no caller in the tree; that the startup code runs it before
  `main`, with main on the process stack, is taken from its comments.
* The FPU's registers and the stack limit, which the code does not handle either.

## Plan

Done, in this order: the kernel, because everything else is its client or its
tool; the list against sequences; the spin locks; the application; the context
switch and the core; the mutex; the walk of the ready pool; theorems for
the invariants and action properties of every run. Left:

1. The step properties on which `ResumeEnds` and `Served` rest, as theorems: a
   resumed thread leaves the wait queue; a rotation moves every other thread forward.
2. What survives of the program's properties when SysTick does fall into
   `thread_create`: `NeverBack` holds in TLC then too.
3. A joiner of its own for the pools: `PoolProofs` for any single thread that
   joins, from the order that `ApplicationProofs` shows of main.
