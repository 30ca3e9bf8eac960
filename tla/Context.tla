------------------------------ MODULE Context ------------------------------
(***************************************************************************)
(* What a thread leaves on its stack when it is switched out: the two      *)
(* function frames of hello_world/sys/thread.h, how the core and           *)
(* PendSV_Handler write and read them, and how thread_ctx_init forges them *)
(* for a thread that has never run.                                        *)
(*                                                                         *)
(* Stacks are counted in words.  A word is a triple <<what, whose, a>>;    *)
(* `a` is used in a stacked xPSR only, for bit 9: whether the core skipped *)
(* a word to align the frame to 8 bytes.  A stack is a function from 0,    *)
(* its lowest word, upwards; a stack pointer is a pair of the stack's      *)
(* thread and an offset.                                                   *)
(***************************************************************************)
EXTENDS Naturals, Sequences

(* The members of hw_function_frame_t and sw_function_frame_t, in order; a  *)
(* register list of STMDB or LDMIA is in the same order.  r14 is lr.       *)
hw_function_frame_t == <<"r0", "r1", "r2", "r3", "r12", "lr", "pc", "xpsr">>

sw_function_frame_t ==
    <<"r4", "r5", "r6", "r7", "r8", "r9", "r10", "r11", "lr">>

Registers(frame) == {frame[k] : k \in DOMAIN frame}

Reg == Registers(hw_function_frame_t) \cup Registers(sw_function_frame_t)

FUNCTION_FRAME_HW_STORED_SIZE == 8
FUNCTION_FRAME_SW_STORED_SIZE == 9
FUNCTION_FRAME_SIZE_TOTAL ==
    FUNCTION_FRAME_HW_STORED_SIZE + FUNCTION_FRAME_SW_STORED_SIZE

Unused     == <<"unused", "", 0>>         \* a word nobody reads again
EXC_RETURN == <<"0xFFFFFFFD", "", 0>>     \* return to thread mode, with PSP
Cleanup    == <<"m_thread_cleanup", "", 0>>
Handler(t) == <<"handler", t, 0>>
Thumb      == <<"0x01000000", "", 0>>

(* xPSR as it is stacked by an exception that skipped p words. *)
Padded(w, p) == <<w[1], w[2], p>>

(* STMDB, and the hardware: the registers r of a frame go to m from `off`.  *)
Stored(m, off, frame, r) ==
    [i \in DOMAIN m |-> IF i \in off .. off + Len(frame) - 1
                          THEN r[frame[i - off + 1]] ELSE m[i]]

(* LDMIA, and the hardware: registers r after a frame at `off` is loaded.   *)
(* Mutant: in the order of the diagrams of thread.h:61-76, which draw the  *)
(* stack upside down.                                                      *)
OffsetReversed(frame, n) ==
    Len(frame) + 1 - CHOOSE k \in DOMAIN frame : frame[k] = n

Offset(frame, n) == CHOOSE k \in DOMAIN frame : frame[k] = n

Loaded(m, off, frame, r) ==
    [n \in DOMAIN r |-> IF n \in Registers(frame)
                          THEN m[off + Offset(frame, n) - 1] ELSE r[n]]

-----------------------------------------------------------------------------
(* Exception entry with the stack pointer at `off`: the core aligns it and  *)
(* stacks a frame, whose xPSR records whether it skipped a word.           *)
EntryPad(off) == off % 2

EntryOffset(off) == off - EntryPad(off) - FUNCTION_FRAME_HW_STORED_SIZE

EntryRegisters(off, r) == [r EXCEPT !["xpsr"] = Padded(@, EntryPad(off))]

EntryStack(m, off, r) ==
    Stored(m, EntryOffset(off), hw_function_frame_t, EntryRegisters(off, r))

(* Exception return from a frame at `off`.                                  *)
ReturnPad(m, off) == Loaded(m, off, hw_function_frame_t,
                            [n \in Reg |-> Unused])["xpsr"][3]

ReturnOffset(m, off) ==
    off + FUNCTION_FRAME_HW_STORED_SIZE + ReturnPad(m, off)

ReturnRegisters(m, off, r) ==
    [Loaded(m, off, hw_function_frame_t, r) EXCEPT !["xpsr"] = Padded(@, 0)]

-----------------------------------------------------------------------------
(* thread_ctx_init: both frames at the top of a stack of `size` words, and  *)
(* the stack pointer that PendSV_Handler will use.  Mutant: the frame that *)
(* the hardware pops lies below the other one.                             *)
HwFrameAtBottom(size) == size - FUNCTION_FRAME_SIZE_TOTAL

HwFrameAt(size) == size - FUNCTION_FRAME_HW_STORED_SIZE

InitOffset(size) == size - FUNCTION_FRAME_SIZE_TOTAL

InitRegisters(t) ==
    [n \in Reg |-> IF n = "pc" THEN Handler(t) ELSE IF n = "lr" THEN Cleanup
                   ELSE IF n = "xpsr" THEN Thumb ELSE <<n, "debug", 0>>]

InitStack(t, size) ==
    Stored(Stored([i \in 0 .. size - 1 |-> Unused],
                  HwFrameAt(size), hw_function_frame_t, InitRegisters(t)),
           InitOffset(size), sw_function_frame_t,
           [InitRegisters(t) EXCEPT !["lr"] = EXC_RETURN])
=============================================================================
