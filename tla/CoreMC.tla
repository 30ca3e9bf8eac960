------------------------------ MODULE CoreMC ------------------------------
(***************************************************************************)
(* The core for TLC.  Busy threads compute one register file of their own  *)
(* and use up to one word of stack; stacks of an odd number of words make  *)
(* the core align its frames, as the idle thread's 49 words do.            *)
(***************************************************************************)
EXTENDS Core

CONSTANTS
    Busy,            \* the threads whose code is more than a loop
    OddStack         \* the workers with a stack of an odd number of words

StackSizes == [t \in Thread |-> IF t = Idle THEN 49
                                ELSE IF t \in OddStack THEN Room + 1 ELSE Room + 2]

RegisterFiles == [t \in Thread |-> IF t \in Busy
                    THEN {[n \in Reg |-> <<n, t, 0>>]} ELSE {}]

(* As arm-none-eabi-gcc lays the two structures out. *)
ThreadOffsets == [ctx_ptr |-> 0, wait_queue |-> 12, id |-> 20, list_node |-> 24]

ContextOffsets == [stack_ptr |-> 0, status |-> 4, list_node |-> 8]
=============================================================================
