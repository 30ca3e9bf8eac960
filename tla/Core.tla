------------------------------- MODULE Core -------------------------------
(***************************************************************************)
(* The Cortex-M4 core under the round-robin scheduler: its registers, the  *)
(* stacks of the threads, the exceptions that take it from one thread to   *)
(* another (PendSV_Handler of hello_world/sys/pend_sv.S, SysTick_Handler)  *)
(* and the timer that raises them.                                         *)
(*                                                                         *)
(* RoundRobin says which thread is to run; the core follows in steps:      *)
(* `running` is g_next_thread once a switch is requested, `cpu` is         *)
(* g_current_thread, and PendSV is pending while they differ.  Both        *)
(* exceptions have the same priority, so that neither preempts the other,  *)
(* and PendSV, which has the lower number, is served first.                *)
(***************************************************************************)
EXTENDS RoundRobin, Context, Layout

CONSTANTS
    StackWords,      \* the size of each thread's stack
    Results          \* the register files that each thread's code computes

Thread == Worker \cup {Main, Idle}

(* The words a thread's code leaves free: a saved context and a skipped     *)
(* word.  Nothing in the kernel checks it.                                 *)
Room == FUNCTION_FRAME_SIZE_TOTAL + 1

ASSUME CoreAssumption ==
    /\ StackWords \in [Thread -> Nat]
    /\ \A t \in Thread : StackWords[t] >= Room
    /\ \A t \in Thread : \A f \in Results[t] :
          f = [n \in Reg |-> f[n]] /\ f["xpsr"] = Padded(f["xpsr"], 0)

VARIABLES
    cpu,             \* g_current_thread
    mode,            \* the core's mode: thread or handler
    regs,            \* its registers
    psp,             \* its process stack pointer
    stack,           \* the words of each thread's stack
    stack_ptr,       \* thread_t.ctx_ptr.stack_ptr
    load,            \* SysTick->LOAD
    counting,        \* SysTick counts down to zero
    tick             \* the SysTick exception is pending

thread == <<running, queue>>
core   == <<cpu, mode, regs, psp>>
memory == <<stack, stack_ptr>>
timer  == <<load, counting, tick>>
coreVars == <<thread, core, memory, timer>>

(* SysTick->LOAD has 24 bits.                                               *)
Reload(value) == value % 2 ^ 24

(* The startup code runs main on its stack, thread_init prepares the idle   *)
(* thread, and scheduler_init starts the timer (nrfx_systick_init: with    *)
(* the longest period) and then writes 1 << 24 to LOAD.                    *)
CoreInit ==
    /\ Init
    /\ cpu = Main
    /\ mode = "thread"
    /\ regs = [n \in Reg |-> <<n, "main", 0>>]
    /\ psp = <<Main, StackWords[Main]>>
    /\ stack = [t \in Thread |-> IF t = Idle THEN InitStack(t, StackWords[t])
                                 ELSE [i \in 0 .. StackWords[t] - 1 |-> Unused]]
    /\ stack_ptr = [t \in Thread |-> <<t, IF t = Idle
                                      THEN InitOffset(StackWords[t]) ELSE 0>>]
    /\ load = Reload(2 ^ 24)
    /\ counting = TRUE
    /\ tick = FALSE

-----------------------------------------------------------------------------
(* The saved stack pointers, with `word` stored through the pointer ptr; and *)
(* what is loaded through it from such words.                              *)
StoredAt(ptr, word) ==
    [t \in Thread |-> IF ptr = CStackPtr(Object(t)) THEN word ELSE stack_ptr[t]]

LoadedAt(ptr, words) ==
    words[CHOOSE t \in Thread : ptr = CStackPtr(Object(t))]

-----------------------------------------------------------------------------
(* Thread mode *)

Executes == mode = "thread" /\ cpu = running

(* The words below a stack pointer are dead: the next exception may         *)
(* overwrite them.                                                         *)
Below(m, off) == [i \in DOMAIN m |-> IF i < off THEN Unused ELSE m[i]]

(* The thread's own code computes, and pushes or pops words.                *)
Work ==
    /\ Executes
    /\ \E f \in Results[cpu], off \in Room .. StackWords[cpu] :
          /\ regs' = f
          /\ psp' = <<cpu, off>>
          /\ stack' = [stack EXCEPT ![cpu] =
                [i \in DOMAIN @ |-> IF i < off THEN Unused
                                    ELSE IF i < psp[2] THEN f["r0"] ELSE @[i]]]
    /\ UNCHANGED <<thread, cpu, mode, stack_ptr, timer>>

(* It gets a node from the free pool, the object that contains it, and that *)
(* object's context.                                                       *)
thread_create(t) ==
    /\ Executes
    /\ Create(t)
    /\ stack' = [stack EXCEPT ![t] = InitStack(t, StackWords[t])]
    /\ stack_ptr' = StoredAt(CStackPtr(THREAD_OBJECT_GET(ListNode(t))),
                              <<t, InitOffset(StackWords[t])>>)
    /\ UNCHANGED <<core, timer>>

(* m_thread_cleanup: the thread asks for its successor.                     *)
thread_end ==
    /\ Executes
    /\ Finish
    /\ UNCHANGED <<core, memory, timer>>

-----------------------------------------------------------------------------
(* Exceptions *)

Entry ==
    /\ mode = "thread" /\ (tick \/ running # cpu)
    /\ mode' = "handler"
    /\ stack' = [stack EXCEPT ![psp[1]] = EntryStack(@, psp[2], regs)]
    /\ psp' = <<psp[1], EntryOffset(psp[2])>>
    /\ regs' = [regs EXCEPT !["lr"] = EXC_RETURN]
    /\ UNCHANGED <<thread, cpu, stack_ptr, timer>>

(* The registers a handler may use without saving them. *)
Scratch(r) == [n \in DOMAIN r |-> IF n \in {"r0", "r1", "r2", "r3", "r12"}
                                    THEN Unused ELSE r[n]]

(* It is entered behind PendSV, or ahead of it when it asks for it.         *)
(* Mutant: the period is not set again.                                    *)
SysTickOnce ==
    /\ mode = "handler" /\ tick /\ running = cpu
    /\ tick' = FALSE
    /\ Preempt \/ (queue = <<>> /\ UNCHANGED thread)
    /\ regs' = Scratch(regs)
    /\ UNCHANGED <<cpu, mode, psp, memory, load, counting>>

SysTick_Handler ==
    /\ mode = "handler" /\ tick /\ running = cpu
    /\ tick' = FALSE
    /\ Preempt \/ (queue = <<>> /\ UNCHANGED thread)
    /\ load' = Reload(65535)
    /\ regs' = Scratch(regs)
    /\ UNCHANGED <<cpu, mode, psp, memory, counting>>

(* STMDB on the stack of the thread that leaves, its new top to its context; *)
(* LDMIA from the context of the next one.  Mutant: the stack pointer is   *)
(* stored as it was before STMDB has moved it.                             *)
PendSVWith(saved) ==
    /\ mode = "handler" /\ running # cpu
    /\ LET top  == psp[2] - FUNCTION_FRAME_SW_STORED_SIZE
           next == LoadedAt(AsmStackPtr(Object(running)), stack_ptr')
       IN  /\ stack' = [stack EXCEPT ![psp[1]] =
                          Stored(@, top, sw_function_frame_t, regs)]
           /\ stack_ptr' = StoredAt(AsmStackPtr(Object(cpu)), <<psp[1], saved>>)
           /\ regs' = Scratch(Loaded(stack'[next[1]], next[2],
                                     sw_function_frame_t, regs))
           /\ psp' = <<next[1], next[2] + FUNCTION_FRAME_SW_STORED_SIZE>>
           /\ cpu' = running
    /\ UNCHANGED <<thread, mode, timer>>

PendSVSavesEarly == PendSVWith(psp[2])

PendSV_Handler == PendSVWith(psp[2] - FUNCTION_FRAME_SW_STORED_SIZE)

(* BX LR in PendSV_Handler or at the end of SysTick_Handler, when no        *)
(* exception is left to serve.                                             *)
Return ==
    /\ mode = "handler" /\ ~tick /\ running = cpu /\ regs["lr"] = EXC_RETURN
    /\ mode' = "thread"
    /\ LET m   == stack[psp[1]]
           off == ReturnOffset(m, psp[2])
       IN  /\ regs' = ReturnRegisters(m, psp[2], regs)
           /\ psp' = <<psp[1], off>>
           /\ stack' = [stack EXCEPT ![psp[1]] = Below(@, off)]
    /\ UNCHANGED <<thread, cpu, stack_ptr, timer>>

-----------------------------------------------------------------------------
(* The timer: it counts down to zero, which raises the exception, and is    *)
(* then loaded again unless LOAD is zero.  The period is long enough not   *)
(* to end while a handler runs, as scheduler.c:80-82 asks.                 *)
Expire ==
    /\ counting /\ mode = "thread"
    /\ counting' = FALSE
    /\ tick' = TRUE
    /\ UNCHANGED <<thread, core, memory, load>>

Restart ==
    /\ ~counting /\ load # 0
    /\ counting' = TRUE
    /\ UNCHANGED <<thread, core, memory, load, tick>>

-----------------------------------------------------------------------------
ThreadMode == Work \/ thread_end \/ \E t \in Worker : thread_create(t)

HandlerMode == SysTick_Handler \/ PendSV_Handler \/ Return

CoreNext == ThreadMode \/ Entry \/ HandlerMode \/ Expire \/ Restart

CoreSpec == CoreInit /\ [][CoreNext]_coreVars

(* The clock and the core never stop; a thread need not do anything.        *)
CoreFairSpec ==
    /\ CoreSpec
    /\ WF_coreVars(Expire) /\ WF_coreVars(Restart)
    /\ WF_coreVars(Entry)  /\ WF_coreVars(HandlerMode)

-----------------------------------------------------------------------------
(* The threads that have a context. *)
Started == Ready \cup {running, Idle}

(***************************************************************************)
(* What thread t finds when it executes its next instruction: its          *)
(* registers, its stack pointer and the words from there to the top of its *)
(* stack.  It reads them in the core, or in its frames as PendSV_Handler   *)
(* and the exception return would.                                         *)
(***************************************************************************)
Resumed(m, p, r) ==
    LET off == ReturnOffset(m[p[1]], p[2])
    IN  [regs |-> ReturnRegisters(m[p[1]], p[2], r), sp |-> <<p[1], off>>,
         live |-> [i \in off .. StackWords[p[1]] - 1 |-> m[p[1]][i]]]

View(t) ==
    IF t # cpu THEN
        Resumed(stack,
                <<stack_ptr[t][1],
                  stack_ptr[t][2] + FUNCTION_FRAME_SW_STORED_SIZE>>,
                Loaded(stack[stack_ptr[t][1]], stack_ptr[t][2],
                       sw_function_frame_t, [n \in Reg |-> Unused]))
    ELSE IF mode = "handler" THEN Resumed(stack, psp, regs)
    ELSE [regs |-> regs, sp |-> psp,
          live |-> [i \in psp[2] .. StackWords[psp[1]] - 1 |-> stack[psp[1]][i]]]

(* The core works on the stack of the current thread, every other thread's *)
(* context lies on its own, inside it, and the exception return finds a     *)
(* valid code in r14 (pend_sv.S:86-88).                                    *)
FramesSound ==
    /\ psp[1] = cpu
    /\ mode = "handler" => regs["lr"] = EXC_RETURN
    /\ \A t \in Started \ {cpu} :
          /\ stack_ptr[t][1] = t
          /\ stack_ptr[t][2] \in 0 .. StackWords[t] - FUNCTION_FRAME_SIZE_TOTAL

(* A switch is invisible to the threads: nothing but a thread's own code    *)
(* changes its registers, its stack pointer or the live words of its stack *)
(* (pend_sv.S:30-73).                                                      *)
ContextKept ==
    [][\A t \in Started \cap Started' :
          View(t)' # View(t) => Executes /\ mode' = "thread" /\ t = cpu]_coreVars

(* A created thread starts at its handler, with an empty stack and a return *)
(* into m_thread_cleanup (thread.c:157-180).                               *)
StartsAtHandler ==
    [][\A t \in Started' \ Started :
          View(t)' = [regs |-> InitRegisters(t), sp |-> <<t, StackWords[t]>>,
                      live |-> [i \in {} |-> Unused]]]_coreVars

(* A ready thread gets the core: the ticks keep coming, although            *)
(* scheduler_init writes a value to LOAD that does not fit into it         *)
(* (scheduler.c:106).                                                      *)
EveryoneRuns ==
    \A t \in Worker \cup {Main} : t \in Ready ~> cpu = t
=============================================================================
