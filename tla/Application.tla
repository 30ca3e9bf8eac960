---------------------------- MODULE Application ----------------------------
(***************************************************************************)
(* The program of main.c on top of the kernel, with the UART it prints     *)
(* through (drivers/uart.c, _write of sys/syscalls.c).                     *)
(*                                                                         *)
(* main creates thread_1 and thread_2, prints, and after some rounds joins *)
(* thread_1 over and over; thread_1 prints under the spin lock and ends;   *)
(* thread_2 prints under it for ever.  A thread's own code runs where its  *)
(* kernel label is "run", and at[t] is the point it has reached in it;     *)
(* thread_create, thread_join and the end of a thread are Kernel's steps.  *)
(*                                                                         *)
(* The C library decides when printf hands its buffer to _write.  The      *)
(* driver of nrfx is used without a handler, hence it waits for the end of *)
(* a transmission in nrfx_uarte_tx; it marks itself busy meanwhile.  Its   *)
(* test of that mark is not protected: nrfx_glue.h defines the critical    *)
(* sections away, and the assertion that it is initialised too.            *)
(***************************************************************************)
EXTENDS KernelMC

CONSTANTS
    Rounds,          \* bound: thread_1 prints Rounds + 1 times (101 in main.c)
    Loops,           \* bound: main prints Loops times (300) before it joins
    TickInCreate     \* whether SysTick falls into main's thread_create

ASSUME ApplicationAssumption ==
    /\ Rounds \in Nat /\ Loops \in Nat /\ TickInCreate \in BOOLEAN
    /\ THREAD_MAX_NUM >= 2 /\ MaxCreates = 2 /\ ~MaskedCreate
    /\ Joiners = {Main}

VARIABLES
    at,              \* the point each thread has reached in its own code
    handler,         \* the function each thread object was created for
    word,            \* `lock`, TRUE for SPIN_LOCK_LOCKED
    flags,           \* the `flags` of thread_1 and thread_2
    rounds,          \* `counter` of thread_1
    loops,           \* main_thread_entry_counter, capped by Loops + 1
    uart,            \* whether nrfx_uarte_init has succeeded
    sending          \* the thread whose data the driver is busy with, or NULL

lock  == <<word, flags>>
count == <<rounds, loops>>
line  == <<uart, sending>>
app   == <<at, handler, lock, count, line>>

AppInit ==
    /\ Init
    /\ at = [t \in Thread |-> IF t = Main THEN "test" ELSE "none"]
    /\ handler = [t \in Thread |-> "none"]
    /\ word = FALSE /\ flags = [t \in Thread |-> FALSE]
    /\ rounds = 0 /\ loops = 0
    /\ uart = FALSE /\ sending = NULL

(* Thread t executes its own code at point p; it goes on at q; it does so   *)
(* without touching the kernel.                                            *)
Here(t, p) == At(t, "run") /\ at[t] = p

Continue(t, q) == at' = [at EXCEPT ![t] = q]

Moves(t, p, q) == Here(t, p) /\ Continue(t, q) /\ UNCHANGED <<vars, handler>>

-----------------------------------------------------------------------------
(* test_store32 and test_load32: 0xFAFA squared does not exceed g_limit, so *)
(* that main prints, through a driver that is not initialised yet: that     *)
(* write fails, or waits for ever for a transmission that never starts.     *)
SelfTest ==
    /\ \E q \in {"init", "hung"} : Moves(Main, "test", q)
    /\ UNCHANGED <<lock, count, line>>

(* uarte_init; main does not look at its result. *)
uarte_init ==
    /\ Moves(Main, "init", "create")
    /\ uart' \in BOOLEAN
    /\ UNCHANGED <<lock, count, sending>>

(* The two calls of thread_create; main does not look at their results.     *)
AfterCreate == IF creates' = 2 THEN "loop" ELSE "create"

CreateCall ==
    /\ Here(Main, "create") /\ Create(Main)
    /\ Continue(Main, IF free.head = NULL THEN AfterCreate ELSE "create")
    /\ UNCHANGED <<handler, lock, count, line>>

CreateHandler ==
    /\ CreateInit(Main)
    /\ handler' = [handler EXCEPT ![node[Main]] =
                     IF creates = 1 THEN "thread_1" ELSE "thread_2"]
    /\ Continue(node[Main], "enter")
    /\ UNCHANGED <<lock, count, line>>

CreateInside ==
    /\ CreateStep(Main) /\ pc[Main] \notin {"init", "start"}
    /\ UNCHANGED app

CreateReturn ==
    /\ CreateStart(Main)
    /\ Continue(Main, AfterCreate)
    /\ UNCHANGED <<handler, lock, count, line>>

-----------------------------------------------------------------------------
(* printf, called by the thread t at "print", and where t goes on after it. *)
AfterPrint(t) ==
    IF t # Main THEN "leave" ELSE IF loops > Loops THEN "join" ELSE "loop"

(* The library keeps the text in its buffer.                                *)
PrintBuffered(t) ==
    /\ Moves(t, "print", AfterPrint(t))
    /\ UNCHANGED <<lock, count, line>>

(* _write, uarte_tx and nrfx_uarte_tx up to the test of the driver's mark.  *)
(* Busy, it returns NRFX_ERROR_BUSY, _write returns -1 and the text is     *)
(* lost; not initialised, it fails or waits for ever.                      *)
WriteFails(t) ==
    /\ ~uart \/ sending # NULL
    /\ \/ Moves(t, "print", AfterPrint(t))
       \/ ~uart /\ Moves(t, "print", "hung")
    /\ UNCHANGED <<lock, count, line>>

WriteTested(t) ==
    /\ uart /\ sending = NULL
    /\ Moves(t, "print", "send")
    /\ UNCHANGED <<lock, count, line>>

(* The driver marks itself busy and starts the transmission ... *)
Send(t) ==
    /\ Moves(t, "send", "tx")
    /\ sending' = t
    /\ UNCHANGED <<lock, count, uart>>

(* ... and sees its end.  Mutant: it leaves its mark. *)
SentStaysBusy(t) ==
    /\ Moves(t, "tx", AfterPrint(t))
    /\ UNCHANGED <<lock, count, line>>

Sent(t) ==
    /\ Moves(t, "tx", AfterPrint(t))
    /\ sending' = NULL
    /\ UNCHANGED <<lock, count, uart>>

-----------------------------------------------------------------------------
(* main's loop *)
MainLoop ==
    /\ Moves(Main, "loop", "print")
    /\ loops' = IF loops > Loops THEN loops ELSE loops + 1
    /\ UNCHANGED <<lock, rounds, line>>

(* thread_join(thr_1), which returns at once when thread_1 has ended.       *)
JoinCall ==
    LET thr_1 == CHOOSE t \in Workers : handler[t] = "thread_1"
    IN  /\ Here(Main, "join")
        /\ \/ Join(Main, thr_1) /\ UNCHANGED at
           \/ /\ status[thr_1] \cap {"NONE", "ENDED"} # {}
              /\ Moves(Main, "join", "loop")
        /\ UNCHANGED <<handler, lock, count, line>>

JoinReturned ==
    /\ JoinReturn(Main)
    /\ Continue(Main, "loop")
    /\ UNCHANGED <<handler, lock, count, line>>

-----------------------------------------------------------------------------
(* thread_1 and thread_2.  spin_lock_irq_store masks the interrupts and     *)
(* then takes the lock.  Mutant: without masking them.                     *)
EnterUnmasked(t) ==
    /\ Moves(t, "enter", "take")
    /\ flags' = [flags EXCEPT ![t] = primask]
    /\ UNCHANGED <<word, count, line>>

Enter(t) ==
    /\ Here(t, "enter") /\ Continue(t, "take")
    /\ primask' = TRUE
    /\ flags' = [flags EXCEPT ![t] = primask]
    /\ UNCHANGED <<pools, status, cur, nxt, pendsv, pc, locals, client>>
    /\ UNCHANGED <<handler, word, count, line>>

Take(t) ==
    /\ ~word
    /\ Moves(t, "take", "print")
    /\ word' = TRUE
    /\ UNCHANGED <<flags, count, line>>

(* spin_unlock_irq_restore, in the loop or after thread_1 decided to break  *)
(* it.  Mutant: the loop is left without unlocking.                        *)
LastRound(t) == handler[t] = "thread_1" /\ rounds >= Rounds

LeaveTo(t, locked) ==
    /\ Here(t, "leave")
    /\ Continue(t, IF LastRound(t) THEN "return" ELSE "enter")
    /\ rounds' = IF handler[t] = "thread_1" /\ ~LastRound(t)
                   THEN rounds + 1 ELSE rounds
    /\ word' = locked
    /\ primask' = flags[t]
    /\ UNCHANGED <<pools, status, cur, nxt, pendsv, pc, locals, client>>
    /\ UNCHANGED <<handler, flags, loops, line>>

LeaveLocked(t) == LeaveTo(t, LastRound(t))

Leave(t) == LeaveTo(t, FALSE)

(* thread_1 returns into m_thread_cleanup. *)
Return(t) == Here(t, "return") /\ Cleanup(t) /\ UNCHANGED app

-----------------------------------------------------------------------------
MainStep ==
    \/ SelfTest   \/ uarte_init
    \/ CreateCall \/ CreateHandler \/ CreateInside \/ CreateReturn
    \/ MainLoop   \/ JoinCall      \/ JoinReturned
    \/ JoinLock(Main) /\ UNCHANGED app

WorkerStep(t) ==
    \/ Enter(t) \/ Take(t) \/ Leave(t) \/ Return(t)
    \/ EndStep(t) /\ UNCHANGED app

Step(t) ==
    \/ PrintBuffered(t) \/ WriteFails(t) \/ WriteTested(t) \/ Send(t) \/ Sent(t)
    \/ t = Main /\ MainStep
    \/ t \in Workers /\ WorkerStep(t)

(* What the hardware does. *)
Interrupt ==
    /\ Tick \/ PendSV \/ Halt
    /\ TickInCreate \/ pc[Main] \in {"run", "join", "joined"}
    /\ UNCHANGED app

AppNext == Interrupt \/ \E t \in Thread : Step(t)

AppSpec == AppInit /\ [][AppNext]_<<vars, app>>

(***************************************************************************)
(* Fairness.  PendSV and SysTick as in Kernel.  Here the program, and no   *)
(* arbitrary client, decides what its threads do: a thread that gets the   *)
(* core again and again goes on (strong, since SysTick may take the core   *)
(* from it before it does), as a time slice is far longer than a switch    *)
(* (scheduler.c:80-83).                                                    *)
(***************************************************************************)
AppFairSpec ==
    /\ AppSpec
    /\ WF_<<vars, app>>(PendSV /\ UNCHANGED app)
    /\ SF_<<vars, app>>(SysTick /\ Interrupt)
    /\ \A t \in Thread : SF_<<vars, app>>(Step(t))

-----------------------------------------------------------------------------
AppTypeOK ==
    /\ at \in [Thread -> {"none", "test", "init", "hung", "create", "loop",
           "print", "send", "tx", "join", "enter", "take", "leave", "return"}]
    /\ handler \in [Thread -> {"none", "thread_1", "thread_2"}]
    /\ word \in BOOLEAN /\ flags \in [Thread -> BOOLEAN]
    /\ rounds \in 0 .. Rounds /\ loops \in 0 .. Loops + 1
    /\ uart \in BOOLEAN /\ sending \in Thread \cup {NULL}

(* The program is one of the clients that Kernel is written for: wherever   *)
(* SysTick falls, main's thr_1 is a handle that thread_create has given it  *)
(* by the time it is joined (main.c:220-236).                              *)
UsesKernel == Spec

(* The driver has one buffer and one busy mark, and the test of the mark is *)
(* not protected (uart.c:27, the TODO about several execution contexts):   *)
(* still, while a thread's data is sent it is that thread's mark, as those *)
(* that print from inside the lock cannot be interrupted.                  *)
OneSender == \A t \in Thread : at[t] = "tx" => sending = t

(* Output is lost only by thread_1 and thread_2 (main.c:172, 199), and only *)
(* when they interrupt main's transmission; main's own is never refused    *)
(* (uart.c:54, syscalls.c:21).                                             *)
RefusedBehindMain ==
    \A t \in Thread : Here(t, "print") /\ uart /\ sending # NULL
                        => sending = Main /\ t # Main

(* thread_1 ends: neither the lock nor the joins of main keep it from it    *)
(* (main.c:174, "After 100 repetitions break the loop and end thread").    *)
Thread1Ends ==
    \A t \in Workers : uart /\ handler[t] = "thread_1" ~> pc[t] = "dead"

(* main goes on printing, whatever its joins do to it (main.c:225-242).     *)
MainGoesOn == uart ~> Here(Main, "print")
=============================================================================
