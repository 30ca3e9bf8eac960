------------------------- MODULE KernelRoundRobin -------------------------
(***************************************************************************)
(* The kernel implements round robin scheduling, as long as its clients    *)
(* mask interrupts around thread_create and call no thread_join: the       *)
(* pointers and links of the ready pool are a FIFO queue, and every action *)
(* is one step of RoundRobin or none.                                      *)
(***************************************************************************)
EXTENDS Kernel

Abstract == INSTANCE RoundRobin WITH
    Worker  <- Workers,
    running <- Running,
    queue   <- Members(ready)

(* Threads get the core in the order in which they became ready, a created  *)
(* or a preempted thread goes to the end of the queue, an ended one leaves *)
(* it for good (scheduler.c:25-39, over thread_create, SysTick_Handler,    *)
(* sched_thread_end and PendSV_Handler).                                   *)
ImplementsRoundRobin == Abstract!Spec
=============================================================================
