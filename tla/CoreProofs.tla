---------------------------- MODULE CoreProofs ----------------------------
(***************************************************************************)
(* Proofs about the context switch, for any threads, stack sizes and code. *)
(***************************************************************************)
EXTENDS Core, RoundRobinProofs

Frame == {hw_function_frame_t, sw_function_frame_t}

(* The registers that only the software frame holds. *)
Callee == {"r4", "r5", "r6", "r7", "r8", "r9", "r10", "r11"}

-----------------------------------------------------------------------------
(* Frames *)

LEMMA HwFacts ==
    /\ Len(hw_function_frame_t) = 8
    /\ DOMAIN hw_function_frame_t = 1 .. 8
    /\ Registers(hw_function_frame_t) =
          {"r0", "r1", "r2", "r3", "r12", "lr", "pc", "xpsr"}
BY DEF hw_function_frame_t, Registers

LEMMA SwFacts ==
    /\ Len(sw_function_frame_t) = 9
    /\ DOMAIN sw_function_frame_t = 1 .. 9
    /\ Registers(sw_function_frame_t) = Callee \cup {"lr"}
BY DEF sw_function_frame_t, Registers, Callee

LEMMA RegFacts ==
    /\ Reg = Registers(hw_function_frame_t) \cup Callee
    /\ Registers(hw_function_frame_t) \cap Callee = {}
    /\ Registers(sw_function_frame_t) \subseteq Reg
    /\ "xpsr" \in Reg /\ "lr" \in Reg /\ "pc" \in Reg
BY HwFacts, SwFacts DEF Reg, Callee

LEMMA OffsetFacts ==
    ASSUME NEW frame \in Frame, NEW n \in Registers(frame)
    PROVE  /\ Offset(frame, n) \in 1 .. Len(frame)
           /\ frame[Offset(frame, n)] = n
<1>1. DOMAIN frame = 1 .. Len(frame)
  BY HwFacts, SwFacts DEF Frame
<1>2. PICK k \in DOMAIN frame : frame[k] = n
  BY DEF Registers
<1>3. QED
  BY <1>1, <1>2 DEF Offset

LEMMA FrameEnds ==
    /\ Offset(hw_function_frame_t, "xpsr") = 8
    /\ Offset(sw_function_frame_t, "lr") = 9
<1>1. /\ hw_function_frame_t[8] = "xpsr"
      /\ \A k \in 1 .. 8 : hw_function_frame_t[k] = "xpsr" => k = 8
  BY DEF hw_function_frame_t
<1>2. /\ sw_function_frame_t[9] = "lr"
      /\ \A k \in 1 .. 9 : sw_function_frame_t[k] = "lr" => k = 9
  BY DEF sw_function_frame_t
<1>3. QED
  BY <1>1, <1>2, HwFacts, SwFacts DEF Offset

(* The words of a stack of `size` words.                                    *)
Words(m, size) == m = [i \in 0 .. size - 1 |-> m[i]]

File(r) == r = [n \in Reg |-> r[n]]

(* What is stored is read back from its place, and nothing else changes.    *)
Put(s, frame, len, m, off, size, r) ==
    /\ Words(s, size)
    /\ \A n \in Registers(frame) : s[off + Offset(frame, n) - 1] = r[n]
    /\ \A i \in 0 .. size - 1 : i < off \/ i >= off + len => s[i] = m[i]

LEMMA StoredFacts ==
    ASSUME NEW frame \in Frame, NEW m, NEW off \in Nat, NEW size \in Nat, NEW r,
           Words(m, size), off + Len(frame) <= size
    PROVE  Put(Stored(m, off, frame, r), frame, Len(frame), m, off, size, r)
<1>1. DOMAIN m = 0 .. size - 1
  BY DEF Words
<1>2. Len(frame) \in Nat
  BY HwFacts, SwFacts DEF Frame
<1>3. Words(Stored(m, off, frame, r), size)
  BY <1>1 DEF Words, Stored
<1>4. ASSUME NEW n \in Registers(frame)
      PROVE  Stored(m, off, frame, r)[off + Offset(frame, n) - 1] = r[n]
  <2>1. /\ Offset(frame, n) \in 1 .. Len(frame)
        /\ frame[Offset(frame, n)] = n
    BY OffsetFacts
  <2> DEFINE k == off + Offset(frame, n) - 1
  <2>2. k \in off .. off + Len(frame) - 1 /\ k - off + 1 = Offset(frame, n)
    BY <1>2, <2>1
  <2>3. k \in DOMAIN m
    BY <1>1, <1>2, <2>2
  <2>4. QED
    BY <2>1, <2>2, <2>3 DEF Stored
<1>5. ASSUME NEW i \in 0 .. size - 1, i < off \/ i >= off + Len(frame)
      PROVE  Stored(m, off, frame, r)[i] = m[i]
  BY <1>1, <1>2, <1>5 DEF Stored
<1>6. QED
  BY <1>3, <1>4, <1>5 DEF Put

LEMMA HwStored ==
    ASSUME NEW m, NEW off \in Nat, NEW size \in Nat, NEW r,
           Words(m, size), off + 8 <= size
    PROVE  Put(Stored(m, off, hw_function_frame_t, r), hw_function_frame_t, 8,
               m, off, size, r)
BY HwFacts, StoredFacts DEF Frame

LEMMA SwStored ==
    ASSUME NEW m, NEW off \in Nat, NEW size \in Nat, NEW r,
           Words(m, size), off + 9 <= size
    PROVE  Put(Stored(m, off, sw_function_frame_t, r), sw_function_frame_t, 9,
               m, off, size, r)
BY SwFacts, StoredFacts DEF Frame

Got(q, frame, m, off, r) ==
    /\ File(q)
    /\ \A n \in Registers(frame) : q[n] = m[off + Offset(frame, n) - 1]
    /\ \A n \in Reg \ Registers(frame) : q[n] = r[n]

LEMMA LoadedFacts ==
    ASSUME NEW frame \in Frame, NEW m, NEW off, NEW r, File(r)
    PROVE  Got(Loaded(m, off, frame, r), frame, m, off, r)
<1>1. DOMAIN r = Reg /\ Registers(frame) \subseteq Reg
  BY RegFacts DEF File, Frame
<1>2. QED
  BY <1>1 DEF Loaded, File, Got

(* An exception return reads the words of the hardware's frame and keeps    *)
(* the registers that are not in it.                                       *)
Returned(q, m, off, r) ==
    /\ File(q) /\ q["xpsr"] = Padded(m[off + 7], 0)
    /\ \A n \in Registers(hw_function_frame_t) \ {"xpsr"} :
          q[n] = m[off + Offset(hw_function_frame_t, n) - 1]
    /\ \A n \in Callee : q[n] = r[n]

LEMMA ReturnFacts ==
    ASSUME NEW m, NEW off \in Nat, NEW r, File(r)
    PROVE  /\ ReturnPad(m, off) = m[off + 7][3]
           /\ Returned(ReturnRegisters(m, off, r), m, off, r)
<1>1. hw_function_frame_t \in Frame /\ off + 8 - 1 = off + 7
  BY DEF Frame
<1>2. "xpsr" \in Registers(hw_function_frame_t) /\ "xpsr" \notin Callee
  BY HwFacts, RegFacts
<1>3. File([n \in Reg |-> Unused])
  BY DEF File
<1>4. ReturnPad(m, off) = m[off + 7][3]
  BY <1>1, <1>2, <1>3, LoadedFacts, FrameEnds DEF ReturnPad, Got
<1> DEFINE q == Loaded(m, off, hw_function_frame_t, r)
<1>5. /\ File(q) /\ q["xpsr"] = m[off + 7]
      /\ \A n \in Registers(hw_function_frame_t) :
            q[n] = m[off + Offset(hw_function_frame_t, n) - 1]
      /\ \A n \in Callee : q[n] = r[n]
  BY <1>1, <1>2, LoadedFacts, FrameEnds, RegFacts DEF Got
<1>6. ReturnRegisters(m, off, r) = [q EXCEPT !["xpsr"] = Padded(@, 0)]
  BY DEF ReturnRegisters
<1> HIDE DEF q
<1>7. QED
  BY <1>2, <1>4, <1>5, <1>6, RegFacts DEF File, Returned

(* Two states of the memory and of the registers from which an exception    *)
(* return finds the same words and the same other registers resume alike.  *)
LEMMA ResumedSame ==
    ASSUME NEW m, NEW m2, NEW t \in Thread, NEW off \in Nat, NEW r, NEW r2,
           StackWords[t] \in Nat, off + 8 <= StackWords[t],
           File(r), File(r2), \A n \in Callee : r[n] = r2[n],
           \A i \in 0 .. StackWords[t] - 1 : i >= off => m[t][i] = m2[t][i],
           m[t][off + 7][3] \in Nat
    PROVE  Resumed(m, <<t, off>>, r) = Resumed(m2, <<t, off>>, r2)
<1> DEFINE hw == hw_function_frame_t
           a == ReturnRegisters(m[t], off, r)
           b == ReturnRegisters(m2[t], off, r2)
<1>0. Returned(a, m[t], off, r) /\ Returned(b, m2[t], off, r2)
  BY ReturnFacts
<1> HIDE DEF a, b
<1>1. off + 7 \in 0 .. StackWords[t] - 1 /\ m[t][off + 7] = m2[t][off + 7]
  OBVIOUS
<1>2. ReturnPad(m[t], off) = ReturnPad(m2[t], off)
  BY <1>1, ReturnFacts
<1>3. ASSUME NEW n \in Registers(hw) \ {"xpsr"} PROVE a[n] = b[n]
  <2>1. Offset(hw, n) \in 1 .. 8
    BY OffsetFacts, HwFacts DEF Frame
  <2>2. /\ off + Offset(hw, n) - 1 \in 0 .. StackWords[t] - 1
        /\ off + Offset(hw, n) - 1 >= off
    BY <2>1
  <2>3. m[t][off + Offset(hw, n) - 1] = m2[t][off + Offset(hw, n) - 1]
    BY <2>2
  <2>4. QED
    BY <1>0, <2>3 DEF Returned
<1>4. \A n \in Callee \cup {"xpsr"} : a[n] = b[n]
  BY <1>0, <1>1 DEF Returned
<1>5. Reg = (Registers(hw) \ {"xpsr"}) \cup Callee \cup {"xpsr"}
  BY RegFacts, HwFacts
<1>6. a = b
  BY <1>0, <1>3, <1>4, <1>5 DEF File, Returned
<1> DEFINE back == ReturnOffset(m[t], off)
<1>7. back = ReturnOffset(m2[t], off) /\ back \in Nat /\ back >= off
  BY <1>1, <1>2, ReturnFacts DEF ReturnOffset, FUNCTION_FRAME_HW_STORED_SIZE
<1> HIDE DEF back
<1>8. [i \in back .. StackWords[t] - 1 |-> m[t][i]] =
      [i \in back .. StackWords[t] - 1 |-> m2[t][i]]
  BY <1>7
<1>9. QED
  BY <1>6, <1>7, <1>8 DEF Resumed, a, b, back

-----------------------------------------------------------------------------
(* The invariant *)

(* A frame stacked by an exception entry at `off` of the stack m: the       *)
(* return finds the thread's stack pointer above it.                       *)
HwFrame(m, size, off) ==
    /\ off \in Nat /\ off + 8 <= size
    /\ m[off + 7][3] \in {0, 1}
    /\ off + 8 + m[off + 7][3] \in Room .. size

(* Both frames, and a code in the lower one that the core returns by.       *)
Saved(m, size, off) ==
    /\ off \in Nat /\ HwFrame(m, size, off + 9)
    /\ m[off + 8] = EXC_RETURN

Machine ==
    /\ cpu \in Thread
    /\ mode \in {"thread", "handler"}
    /\ File(regs)
    /\ psp = <<cpu, psp[2]>>
    /\ stack = [t \in Thread |-> stack[t]]
    /\ \A t \in Thread : Words(stack[t], StackWords[t])
    /\ stack_ptr = [t \in Thread |-> stack_ptr[t]]

OnCore ==
    /\ mode = "thread" =>
          /\ psp[2] \in Room .. StackWords[cpu]
          /\ regs["xpsr"] = Padded(regs["xpsr"], 0)
    /\ mode = "handler" =>
          /\ HwFrame(stack[cpu], StackWords[cpu], psp[2])
          /\ regs["lr"] = EXC_RETURN

SwitchedOut ==
    \A t \in Started \ {cpu} :
        /\ stack_ptr[t] = <<t, stack_ptr[t][2]>>
        /\ Saved(stack[t], StackWords[t], stack_ptr[t][2])

IInv == Inv /\ Machine /\ OnCore /\ SwitchedOut

-----------------------------------------------------------------------------
(* The thread objects: C and assembler reach the same word, and a list node *)
(* leads back to its object.                                               *)

LEMMA PointersAgree ==
    ASSUME NEW t
    PROVE  /\ AsmStackPtr(Object(t)) = CStackPtr(Object(t))
           /\ THREAD_OBJECT_GET(ListNode(t)) = Object(t)
<1>1. /\ thread_t["ctx_ptr"] \in Nat /\ thread_t["list_node"] \in Nat
      /\ thread_ctx_t["stack_ptr"] \in Nat
  BY LayoutAssumption
<1>2. QED
  BY <1>1 DEF AsmStackPtr, CStackPtr, Object, Member, ListNode, CONTAINER_OF,
     THREAD_OBJECT_GET, thread_t_ctx_ptr_stack_ptr_OFFSET, GEN_ASM_OFFSET_NESTED_SYM

LEMMA PointersDiffer ==
    ASSUME NEW t, NEW u, CStackPtr(Object(t)) = CStackPtr(Object(u))
    PROVE  t = u
BY DEF CStackPtr, Object, Member

LEMMA StoredAtFacts ==
    ASSUME Machine, NEW t \in Thread, NEW word
    PROVE  StoredAt(CStackPtr(Object(t)), word) = [stack_ptr EXCEPT ![t] = word]
<1>1. \A u \in Thread : CStackPtr(Object(t)) = CStackPtr(Object(u)) <=> t = u
  BY PointersDiffer
<1>2. QED
  BY <1>1 DEF StoredAt, Machine

LEMMA LoadedAtFacts ==
    ASSUME NEW t \in Thread, NEW words
    PROVE  LoadedAt(CStackPtr(Object(t)), words) = words[t]
BY PointersDiffer DEF LoadedAt

LEMMA Sizes ==
    ASSUME NEW t \in Thread
    PROVE  StackWords[t] \in Nat /\ StackWords[t] >= 18 /\ Room = 18
BY CoreAssumption DEF Room, FUNCTION_FRAME_SIZE_TOTAL,
   FUNCTION_FRAME_HW_STORED_SIZE, FUNCTION_FRAME_SW_STORED_SIZE

LEMMA StartedThreads ==
    ASSUME Inv
    PROVE  /\ Started = Alive \cup {Idle} /\ Started \subseteq Thread
           /\ running \in Started /\ running # Idle
<1>1. Ready \subseteq Threads
  BY DEF Ready, Inv
<1>2. QED
  BY <1>1, RoundRobinAssumption DEF Started, Alive, Thread, Threads, Inv

LEMMA FramesFollow == IInv => FramesSound
<1> SUFFICES ASSUME IInv PROVE FramesSound
  OBVIOUS
<1>1. ASSUME NEW t \in Started \ {cpu}
      PROVE  /\ stack_ptr[t][1] = t
             /\ stack_ptr[t][2] \in 0 .. StackWords[t] - 17
  <2>1. t \in Thread
    BY StartedThreads DEF IInv
  <2>2. /\ stack_ptr[t] = <<t, stack_ptr[t][2]>>
        /\ Saved(stack[t], StackWords[t], stack_ptr[t][2])
    BY DEF IInv, SwitchedOut
  <2>3. stack_ptr[t][2] \in Nat /\ stack_ptr[t][2] + 9 + 8 <= StackWords[t]
    BY <2>2 DEF Saved, HwFrame
  <2>4. QED
    BY <2>1, <2>2, <2>3, Sizes
<1>2. psp[1] = cpu
  BY DEF IInv, Machine
<1>3. mode = "handler" => regs["lr"] = EXC_RETURN
  BY DEF IInv, OnCore
<1>4. FUNCTION_FRAME_SIZE_TOTAL = 17
  BY DEF FUNCTION_FRAME_SIZE_TOTAL, FUNCTION_FRAME_HW_STORED_SIZE,
     FUNCTION_FRAME_SW_STORED_SIZE
<1>5. QED
  BY <1>1, <1>2, <1>3, <1>4 DEF FramesSound

-----------------------------------------------------------------------------
(* The frames that thread_ctx_init forges *)

LEMMA InitStackFacts ==
    ASSUME NEW t, NEW size \in Nat, size >= 18
    PROVE  /\ Words(InitStack(t, size), size)
           /\ Saved(InitStack(t, size), size, size - 17)
           /\ InitStack(t, size)[size - 1] = Thumb
           /\ \A n \in Registers(hw_function_frame_t) :
                 InitStack(t, size)[size - 8 + Offset(hw_function_frame_t, n) - 1]
                    = InitRegisters(t)[n]
           /\ \A n \in Callee :
                 InitStack(t, size)[size - 17 + Offset(sw_function_frame_t, n) - 1]
                    = InitRegisters(t)[n]
<1> DEFINE blank == [i \in 0 .. size - 1 |-> Unused]
           upper == Stored(blank, size - 8, hw_function_frame_t, InitRegisters(t))
           lower == [InitRegisters(t) EXCEPT !["lr"] = EXC_RETURN]
           m == Stored(upper, size - 17, sw_function_frame_t, lower)
<1>1. InitStack(t, size) = m
  BY DEF InitStack, HwFrameAt, InitOffset, FUNCTION_FRAME_SIZE_TOTAL,
     FUNCTION_FRAME_HW_STORED_SIZE, FUNCTION_FRAME_SW_STORED_SIZE
<1>3. Put(upper, hw_function_frame_t, 8, blank, size - 8, size, InitRegisters(t))
  <2>1. Words(blank, size) /\ size - 8 \in Nat /\ size - 8 + 8 <= size
    BY DEF Words
  <2> HIDE DEF blank
  <2>2. QED
    BY <2>1, HwStored
<1> HIDE DEF blank, upper, lower
<1>4. Put(m, sw_function_frame_t, 9, upper, size - 17, size, lower)
  <2>1. size - 17 \in Nat /\ size - 17 + 9 <= size /\ Words(upper, size)
    BY <1>3 DEF Put
  <2>2. QED
    BY <2>1, SwStored
<1> HIDE DEF m
<1>5. ASSUME NEW n \in Registers(hw_function_frame_t)
      PROVE  m[size - 8 + Offset(hw_function_frame_t, n) - 1] = InitRegisters(t)[n]
  <2>1. Offset(hw_function_frame_t, n) \in 1 .. 8
    BY OffsetFacts, HwFacts DEF Frame
  <2>2. /\ size - 8 + Offset(hw_function_frame_t, n) - 1 \in 0 .. size - 1
        /\ size - 8 + Offset(hw_function_frame_t, n) - 1 >= size - 8
    BY <2>1
  <2>3. QED
    BY <1>3, <1>4, <2>2 DEF Put
<1>6. /\ InitRegisters(t)["xpsr"] = Thumb
      /\ "xpsr" \in Registers(hw_function_frame_t)
      /\ size - 8 + 8 - 1 = size - 1
  BY RegFacts, HwFacts DEF InitRegisters
<1>7. m[size - 1] = Thumb
  BY <1>5, <1>6, FrameEnds
<1>8. ASSUME NEW n \in Callee
      PROVE  m[size - 17 + Offset(sw_function_frame_t, n) - 1] = InitRegisters(t)[n]
  <2>1. n \in Registers(sw_function_frame_t) /\ n # "lr" /\ n \in Reg
    BY SwFacts, RegFacts DEF Callee
  <2>2. lower[n] = InitRegisters(t)[n]
    BY <2>1 DEF lower, InitRegisters
  <2>3. QED
    BY <1>4, <2>1, <2>2 DEF Put
<1>9. m[size - 17 + 8] = EXC_RETURN
  <2>1. lower["lr"] = EXC_RETURN /\ "lr" \in Registers(sw_function_frame_t)
    BY RegFacts, SwFacts DEF lower, InitRegisters
  <2>2. size - 17 + 9 - 1 = size - 17 + 8
    OBVIOUS
  <2>3. QED
    BY <1>4, <2>1, <2>2, FrameEnds DEF Put
<1>10. Saved(m, size, size - 17)
  <2>1. /\ size - 17 \in Nat /\ size - 17 + 9 + 7 = size - 1
        /\ size - 17 + 9 + 8 = size /\ size - 17 + 9 \in Nat
    OBVIOUS
  <2>2. m[size - 17 + 9 + 7][3] = 0
    <3>1. Thumb[3] = 0
      BY DEF Thumb
    <3>2. QED
      BY <1>7, <2>1, <3>1
  <2>3. Room = 18
    BY DEF Room, FUNCTION_FRAME_SIZE_TOTAL, FUNCTION_FRAME_HW_STORED_SIZE,
       FUNCTION_FRAME_SW_STORED_SIZE
  <2>4. HwFrame(m, size, size - 17 + 9)
    BY <2>1, <2>2, <2>3 DEF HwFrame
  <2>5. QED
    BY <1>9, <2>1, <2>4 DEF Saved
<1>11. QED
  BY <1>1, <1>4, <1>5, <1>7, <1>8, <1>10 DEF Put

LEMMA CoreInitInv == CoreInit => IInv
<1> SUFFICES ASSUME CoreInit PROVE IInv
  OBVIOUS
<1>1. Inv /\ Started = {Main, Idle} /\ Main \in Thread /\ Idle \in Thread
  BY InvInit DEF CoreInit, Init, Started, Ready, Thread
<1>2. \A t \in Thread : StackWords[t] \in Nat /\ StackWords[t] >= 18
  BY Sizes
<1>3. Machine
  <2>1. ASSUME NEW t \in Thread PROVE Words(stack[t], StackWords[t])
    <3>1. stack[t] = IF t = Idle THEN InitStack(t, StackWords[t])
                     ELSE [i \in 0 .. StackWords[t] - 1 |-> Unused]
      BY DEF CoreInit
    <3>2. Words([i \in 0 .. StackWords[t] - 1 |-> Unused], StackWords[t])
      BY DEF Words
    <3>3. QED
      BY <1>2, <3>1, <3>2, InitStackFacts
  <2>2. QED
    BY <1>1, <2>1 DEF Machine, CoreInit, File
<1>4. OnCore
  <2>1. psp[2] = StackWords[Main] /\ cpu = Main /\ mode = "thread"
    BY DEF CoreInit
  <2>2. regs["xpsr"] = Padded(regs["xpsr"], 0)
    BY RegFacts DEF CoreInit, Padded
  <2>3. QED
    BY <1>1, <1>2, <2>1, <2>2, Sizes DEF OnCore
<1>5. SwitchedOut
  <2>1. /\ Started \ {cpu} = {Idle} /\ stack[Idle] = InitStack(Idle, StackWords[Idle])
        /\ stack_ptr[Idle] = <<Idle, StackWords[Idle] - 17>>
    BY <1>1, RoundRobinAssumption
       DEF CoreInit, InitOffset, FUNCTION_FRAME_SIZE_TOTAL,
       FUNCTION_FRAME_HW_STORED_SIZE, FUNCTION_FRAME_SW_STORED_SIZE
  <2>2. QED
    BY <1>1, <1>2, <2>1, InitStackFacts DEF SwitchedOut
<1>6. QED
  BY <1>1, <1>3, <1>4, <1>5 DEF IInv

-----------------------------------------------------------------------------
(* What a thread sees, and the steps it does not notice *)

(* The registers in the lower frame of a thread that is switched out. *)
Lower(m, off) ==
    Loaded(m, off, sw_function_frame_t, [n \in Reg |-> Unused])

LEMMA ViewSaved ==
    ASSUME NEW t, t # cpu, stack_ptr[t] = <<t, stack_ptr[t][2]>>
    PROVE  View(t) = Resumed(stack, <<t, stack_ptr[t][2] + 9>>,
                             Lower(stack[t], stack_ptr[t][2]))
BY DEF View, Lower, FUNCTION_FRAME_SW_STORED_SIZE

LEMMA ViewEntered ==
    ASSUME mode = "handler"
    PROVE  View(cpu) = Resumed(stack, psp, regs)
BY DEF View

LEMMA ViewRunning ==
    ASSUME mode = "thread", psp[1] = cpu
    PROVE  View(cpu) = [regs |-> regs, sp |-> psp,
                        live |-> [i \in psp[2] .. StackWords[cpu] - 1
                                    |-> stack[cpu][i]]]
BY DEF View

LEMMA LowerFacts ==
    ASSUME NEW m, NEW off
    PROVE  /\ File(Lower(m, off))
           /\ \A n \in Callee :
                 Lower(m, off)[n] = m[off + Offset(sw_function_frame_t, n) - 1]
<1>1. File([n \in Reg |-> Unused])
  BY DEF File
<1>2. Got(Lower(m, off), sw_function_frame_t, m, off, [n \in Reg |-> Unused])
  BY <1>1, LoadedFacts DEF Lower, Frame
<1>3. QED
  BY <1>2, SwFacts DEF Got

(* A thread that stays switched out, on an untouched stack. *)
Untouched(t) ==
    t # cpu /\ t # cpu' /\ stack'[t] = stack[t] /\ stack_ptr'[t] = stack_ptr[t]

LEMMA OtherSame ==
    ASSUME NEW t, Untouched(t), stack_ptr[t] = <<t, stack_ptr[t][2]>>
    PROVE  View(t)' = View(t)
<1>1. View(t)' = Resumed(stack', <<t, stack_ptr[t][2] + 9>>,
                         Lower(stack[t], stack_ptr[t][2]))
  BY DEF Untouched, View, Lower, FUNCTION_FRAME_SW_STORED_SIZE
<1>2. View(t) = Resumed(stack, <<t, stack_ptr[t][2] + 9>>,
                        Lower(stack[t], stack_ptr[t][2]))
  BY ViewSaved DEF Untouched
<1>3. stack'[t] = stack[t]
  BY DEF Untouched
<1>4. QED
  BY <1>1, <1>2, <1>3 DEF Resumed

(* Nobody who was alive and stays so notices. *)
Unnoticed == \A t \in Started \cap Started' : View(t)' = View(t)

-----------------------------------------------------------------------------
(* The steps *)

(* A step after which everyone who is alive was so before. *)
Fewer == Inv' /\ Alive' \subseteq Alive

LEMMA FewerStarted ==
    ASSUME IInv, Fewer
    PROVE  Started' \subseteq Started
BY StartedThreads DEF IInv, Fewer, Started, Alive, Ready

(* thread_end and the timer leave the core and the memory alone. *)
LEMMA QuietStep ==
    ASSUME IInv, Fewer, UNCHANGED <<core, memory>>
    PROVE  IInv' /\ Unnoticed
<1>1. Started' \subseteq Started
  BY FewerStarted
<1> USE DEF core, memory
<1>2. Machine' /\ OnCore'
  BY DEF IInv, Machine, OnCore
<1>3. SwitchedOut'
  BY <1>1 DEF IInv, SwitchedOut
<1>4. Unnoticed
  BY DEF Unnoticed, View
<1>5. QED
  BY <1>2, <1>3, <1>4 DEF IInv, Fewer

(* SysTick_Handler spoils registers that are in the hardware's frame. *)
LEMMA ScratchFacts ==
    ASSUME NEW r, File(r)
    PROVE  /\ File(Scratch(r)) /\ Scratch(r)["lr"] = r["lr"]
           /\ \A n \in Callee : Scratch(r)[n] = r[n]
BY RegFacts DEF File, Scratch, Callee

LEMMA TickStep ==
    ASSUME IInv, Fewer, SysTick_Handler
    PROVE  IInv' /\ Unnoticed
<1>1. /\ mode = "handler" /\ regs' = Scratch(regs)
      /\ UNCHANGED <<cpu, mode, psp, stack, stack_ptr>>
  BY DEF SysTick_Handler, memory
<1>2. Started' \subseteq Started
  BY FewerStarted
<1>3. File(regs) /\ psp = <<cpu, psp[2]>> /\ cpu \in Thread
  BY DEF IInv, Machine
<1>4. HwFrame(stack[cpu], StackWords[cpu], psp[2]) /\ regs["lr"] = EXC_RETURN
  BY <1>1 DEF IInv, OnCore
<1>5. /\ File(regs') /\ regs'["lr"] = EXC_RETURN
      /\ \A n \in Callee : regs'[n] = regs[n]
  BY <1>1, <1>3, <1>4, ScratchFacts
<1>6. Machine'
  BY <1>1, <1>5 DEF IInv, Machine
<1>7. OnCore'
  BY <1>1, <1>4, <1>5 DEF OnCore
<1>8. SwitchedOut'
  BY <1>1, <1>2 DEF IInv, SwitchedOut
<1>9. View(cpu)' = View(cpu)
  <2>1. Resumed(stack, <<cpu, psp[2]>>, regs) = Resumed(stack, <<cpu, psp[2]>>, regs')
    BY <1>3, <1>4, <1>5, ResumedSame, Sizes DEF HwFrame
  <2>2. View(cpu)' = Resumed(stack, psp, regs')
    BY <1>1 DEF View
  <2>3. QED
    BY <1>1, <1>3, <2>1, <2>2, ViewEntered
<1>10. ASSUME NEW t \in Started \cap Started', t # cpu PROVE View(t)' = View(t)
  BY <1>1, <1>10, OtherSame DEF Untouched, IInv, SwitchedOut
<1>11. QED
  BY <1>1, <1>6, <1>7, <1>8, <1>9, <1>10 DEF IInv, Fewer, Unnoticed

(* An exception entry: the frame is pushed below the words in use.          *)
LEMMA EntryStep ==
    ASSUME IInv, Fewer, Entry
    PROVE  IInv' /\ Unnoticed
<1> DEFINE m    == stack[cpu]
           size == StackWords[cpu]
           pad  == EntryPad(psp[2])
           e    == EntryOffset(psp[2])
           r    == EntryRegisters(psp[2], regs)
           m2   == stack'[cpu]
<1>1. /\ mode = "thread" /\ mode' = "handler"
      /\ regs' = [regs EXCEPT !["lr"] = EXC_RETURN]
      /\ UNCHANGED <<cpu, stack_ptr>>
  BY DEF Entry
<1>2. /\ cpu \in Thread /\ File(regs) /\ psp = <<cpu, psp[2]>>
      /\ psp[2] \in 18 .. size /\ regs["xpsr"] = Padded(regs["xpsr"], 0)
      /\ size \in Nat /\ Words(m, size)
  BY <1>1, Sizes DEF IInv, Machine, OnCore
<1>3. /\ stack' = [stack EXCEPT ![cpu] = Stored(m, e, hw_function_frame_t, r)]
      /\ psp' = <<cpu, e>>
  <2>1. psp[1] = cpu
    BY <1>2
  <2>2. QED
    BY <2>1 DEF Entry, EntryStack
<1>4. pad \in {0, 1} /\ e \in Nat /\ e + 8 + pad = psp[2] /\ e + 8 <= size
  BY <1>2 DEF EntryPad, EntryOffset, FUNCTION_FRAME_HW_STORED_SIZE
<1>5. /\ \A t \in Thread \ {cpu} : stack'[t] = stack[t]
      /\ stack' = [t \in Thread |-> stack'[t]]
      /\ m2 = Stored(m, e, hw_function_frame_t, r)
  BY <1>2, <1>3 DEF IInv, Machine
<1>6. Put(m2, hw_function_frame_t, 8, m, e, size, r)
  BY <1>2, <1>4, <1>5, HwStored
<1>7. /\ r["xpsr"] = Padded(regs["xpsr"], pad)
      /\ \A n \in Registers(hw_function_frame_t) \ {"xpsr"} : r[n] = regs[n]
  BY <1>2, RegFacts DEF EntryRegisters, File
<1>8. /\ File(regs') /\ regs'["lr"] = EXC_RETURN
      /\ \A n \in Callee : regs'[n] = regs[n]
  BY <1>1, <1>2, RegFacts, HwFacts DEF File, Callee
<1> HIDE DEF m, size, pad, e, r, m2
<1>9. m2[e + 7] = Padded(regs["xpsr"], pad)
  <2>1. e + 8 - 1 = e + 7 /\ "xpsr" \in Registers(hw_function_frame_t)
    BY <1>4, HwFacts
  <2>2. QED
    BY <1>6, <1>7, <2>1, FrameEnds DEF Put
<1>10. m2[e + 7][3] = pad /\ Padded(m2[e + 7], 0) = regs["xpsr"]
  BY <1>2, <1>9 DEF Padded
<1>11. HwFrame(m2, size, e)
  BY <1>2, <1>4, <1>10, Sizes DEF HwFrame
<1>12. Machine'
  BY <1>1, <1>2, <1>3, <1>5, <1>6, <1>8 DEF IInv, Machine, Put, m2, size
<1>13. OnCore'
  BY <1>1, <1>3, <1>8, <1>11 DEF OnCore, m2, size
<1>14. SwitchedOut'
  <2>1. Started' \subseteq Started /\ Started \subseteq Thread
    BY FewerStarted, StartedThreads DEF IInv
  <2>2. QED
    BY <1>1, <1>5, <2>1 DEF IInv, SwitchedOut
<1>15. View(cpu)' = View(cpu)
  <2> DEFINE q == ReturnRegisters(m2, e, regs')
  <2>1. ReturnPad(m2, e) = pad /\ Returned(q, m2, e, regs')
    BY <1>4, <1>8, <1>10, ReturnFacts
  <2> HIDE DEF q
  <2>2. q = regs
    <3>1. ASSUME NEW n \in Registers(hw_function_frame_t) \ {"xpsr"}
          PROVE  q[n] = regs[n]
      BY <1>6, <1>7, <2>1 DEF Put, Returned
    <3>2. q["xpsr"] = regs["xpsr"] /\ \A n \in Callee : q[n] = regs[n]
      BY <1>8, <1>10, <2>1 DEF Returned
    <3>3. Reg = (Registers(hw_function_frame_t) \ {"xpsr"}) \cup Callee \cup {"xpsr"}
      BY RegFacts, HwFacts
    <3>4. QED
      BY <1>2, <2>1, <3>1, <3>2, <3>3 DEF Returned, File
  <2>3. ReturnOffset(m2, e) = psp[2]
    BY <1>4, <2>1 DEF ReturnOffset, FUNCTION_FRAME_HW_STORED_SIZE
  <2>4. [i \in psp[2] .. size - 1 |-> m2[i]] = [i \in psp[2] .. size - 1 |-> m[i]]
    BY <1>2, <1>4, <1>6 DEF Put
  <2>5. View(cpu)' = Resumed(stack', <<cpu, e>>, regs')
    BY <1>1, <1>3 DEF View
  <2>6. Resumed(stack', <<cpu, e>>, regs') =
            [regs |-> q, sp |-> <<cpu, psp[2]>>,
             live |-> [i \in psp[2] .. size - 1 |-> m2[i]]]
    BY <2>3 DEF Resumed, q, m2, size
  <2>7. View(cpu) = [regs |-> regs, sp |-> <<cpu, psp[2]>>,
                     live |-> [i \in psp[2] .. size - 1 |-> m[i]]]
    BY <1>1, <1>2, ViewRunning DEF m, size
  <2>8. QED
    BY <2>2, <2>4, <2>5, <2>6, <2>7
<1>16. ASSUME NEW t \in Started \cap Started', t # cpu PROVE View(t)' = View(t)
  <2>1. t \in Thread
    BY StartedThreads DEF IInv
  <2>2. QED
    BY <1>1, <1>5, <1>16, <2>1, OtherSame DEF Untouched, IInv, SwitchedOut
<1>17. QED
  BY <1>1, <1>12, <1>13, <1>14, <1>15, <1>16 DEF IInv, Fewer, Unnoticed

(* An exception return: what it drops lies below the words in use.          *)
LEMMA ReturnStep ==
    ASSUME IInv, Fewer, Return
    PROVE  IInv' /\ Unnoticed
<1> DEFINE m    == stack[cpu]
           size == StackWords[cpu]
           off  == ReturnOffset(m, psp[2])
           q    == ReturnRegisters(m, psp[2], regs)
<1>1. /\ mode = "handler" /\ mode' = "thread"
      /\ UNCHANGED <<cpu, stack_ptr>>
  BY DEF Return
<1>2. /\ cpu \in Thread /\ File(regs) /\ psp = <<cpu, psp[2]>>
      /\ HwFrame(m, size, psp[2]) /\ size \in Nat /\ Words(m, size)
  BY <1>1, Sizes DEF IInv, Machine, OnCore
<1>3. regs' = q /\ psp' = <<cpu, off>> /\ stack' = [stack EXCEPT ![cpu] = Below(m, off)]
  <2>1. psp[1] = cpu
    BY <1>2
  <2>2. QED
    BY <2>1 DEF Return
<1>4. /\ \A t \in Thread \ {cpu} : stack'[t] = stack[t]
      /\ stack' = [t \in Thread |-> stack'[t]]
      /\ stack'[cpu] = Below(m, off)
  BY <1>2, <1>3 DEF IInv, Machine
<1>5. ReturnPad(m, psp[2]) = m[psp[2] + 7][3] /\ Returned(q, m, psp[2], regs)
  BY <1>2, ReturnFacts DEF HwFrame
<1> HIDE DEF m, size, off, q
<1>6. off \in Room .. size /\ off \in Nat
  BY <1>2, <1>5, Sizes
     DEF HwFrame, ReturnOffset, FUNCTION_FRAME_HW_STORED_SIZE, off
<1>7. File(regs') /\ regs'["xpsr"] = Padded(regs'["xpsr"], 0)
  BY <1>3, <1>5 DEF Returned, Padded
<1>8. /\ Words(stack'[cpu], size)
      /\ \A i \in off .. size - 1 : stack'[cpu][i] = m[i]
  <2>1. DOMAIN m = 0 .. size - 1
    BY <1>2 DEF Words
  <2>2. QED
    BY <1>4, <1>6, <2>1 DEF Words, Below
<1>9. Machine'
  BY <1>1, <1>2, <1>3, <1>4, <1>7, <1>8 DEF IInv, Machine, size
<1>10. OnCore'
  BY <1>1, <1>3, <1>6, <1>7 DEF OnCore, size
<1>11. SwitchedOut'
  <2>1. Started' \subseteq Started /\ Started \subseteq Thread
    BY FewerStarted, StartedThreads DEF IInv
  <2>2. QED
    BY <1>1, <1>4, <2>1 DEF IInv, SwitchedOut
<1>12. View(cpu)' = View(cpu)
  <2>1. View(cpu) = Resumed(stack, <<cpu, psp[2]>>, regs)
    BY <1>1, <1>2, ViewEntered
  <2>2. Resumed(stack, <<cpu, psp[2]>>, regs) =
            [regs |-> q, sp |-> <<cpu, off>>,
             live |-> [i \in off .. size - 1 |-> m[i]]]
    BY DEF Resumed, m, off, q, size
  <2>3. View(cpu)' = [regs |-> q, sp |-> <<cpu, off>>,
                      live |-> [i \in off .. size - 1 |-> stack'[cpu][i]]]
    BY <1>1, <1>3 DEF View, size
  <2>4. [i \in off .. size - 1 |-> stack'[cpu][i]] = [i \in off .. size - 1 |-> m[i]]
    BY <1>8
  <2>5. QED
    BY <2>1, <2>2, <2>3, <2>4
<1>13. ASSUME NEW t \in Started \cap Started', t # cpu PROVE View(t)' = View(t)
  <2>1. t \in Thread
    BY StartedThreads DEF IInv
  <2>2. QED
    BY <1>1, <1>4, <1>13, <2>1, OtherSame DEF Untouched, IInv, SwitchedOut
<1>14. QED
  BY <1>1, <1>9, <1>10, <1>11, <1>12, <1>13 DEF IInv, Fewer, Unnoticed

(* The switch: one context is written below the words in use, and the core  *)
(* takes the other from where it was written, or forged.                   *)
LEMMA SwitchStep ==
    ASSUME IInv, Fewer, PendSV_Handler
    PROVE  IInv' /\ Unnoticed
<1> DEFINE m    == stack[cpu]
           size == StackWords[cpu]
           top  == psp[2] - 9
           off  == stack_ptr[running][2]
           old  == stack[running]
           q    == Loaded(old, off, sw_function_frame_t, regs)
<1>1. /\ mode = "handler" /\ mode' = "handler" /\ cpu' = running
      /\ running # cpu /\ running' = running /\ Started' = Started
  BY DEF PendSV_Handler, PendSVWith, thread, Started, Ready
<1>2. /\ cpu \in Thread /\ File(regs) /\ psp = <<cpu, psp[2]>>
      /\ HwFrame(m, size, psp[2]) /\ size \in Nat /\ Words(m, size)
      /\ regs["lr"] = EXC_RETURN
  BY <1>1, Sizes DEF IInv, Machine, OnCore
<1>3. /\ running \in Thread /\ stack_ptr[running] = <<running, off>>
      /\ Saved(old, StackWords[running], off)
  BY <1>1, StartedThreads DEF IInv, SwitchedOut
<1>4. /\ stack' = [stack EXCEPT ![cpu] = Stored(m, top, sw_function_frame_t, regs)]
      /\ stack_ptr' = [stack_ptr EXCEPT ![cpu] = <<cpu, top>>]
  <2>1. psp[1] = cpu
    BY <1>2
  <2>2. StoredAt(AsmStackPtr(Object(cpu)), <<psp[1], top>>)
          = [stack_ptr EXCEPT ![cpu] = <<cpu, top>>]
    BY <1>2, <2>1, PointersAgree, StoredAtFacts DEF IInv
  <2>3. QED
    BY <2>1, <2>2 DEF PendSV_Handler, PendSVWith, FUNCTION_FRAME_SW_STORED_SIZE
<1>5. /\ \A t \in Thread \ {cpu} : stack'[t] = stack[t] /\ stack_ptr'[t] = stack_ptr[t]
      /\ stack' = [t \in Thread |-> stack'[t]]
      /\ stack_ptr' = [t \in Thread |-> stack_ptr'[t]]
      /\ stack'[cpu] = Stored(m, top, sw_function_frame_t, regs)
      /\ stack_ptr'[cpu] = <<cpu, top>>
  BY <1>2, <1>4 DEF IInv, Machine
<1>6. regs' = Scratch(q) /\ psp' = <<running, off + 9>>
  <2>1. stack_ptr'[running] = <<running, off>> /\ stack'[running] = old
    BY <1>1, <1>3, <1>5
  <2>2. LoadedAt(AsmStackPtr(Object(running)), stack_ptr') = <<running, off>>
    BY <1>3, <2>1, PointersAgree, LoadedAtFacts
  <2>3. QED
    BY <2>1, <2>2 DEF PendSV_Handler, PendSVWith, FUNCTION_FRAME_SW_STORED_SIZE
<1>7. /\ top \in Nat /\ psp[2] \in Nat /\ top + 9 = psp[2]
      /\ psp[2] + 8 <= size /\ m[psp[2] + 7][3] \in {0, 1}
  BY <1>2, Sizes DEF HwFrame
<1>8. Put(stack'[cpu], sw_function_frame_t, 9, m, top, size, regs)
  BY <1>2, <1>5, <1>7, SwStored
<1>9. Got(q, sw_function_frame_t, old, off, regs)
  BY <1>2, LoadedFacts DEF Frame
<1>10. "lr" \in Registers(sw_function_frame_t) /\ Callee \subseteq Registers(sw_function_frame_t)
  BY SwFacts
<1> HIDE DEF m, size, top, off, old, q
<1>11. Saved(stack'[cpu], size, top)
  <2>1. stack'[cpu][top + 8] = EXC_RETURN
    <3>1. top + 9 - 1 = top + 8
      BY <1>7
    <3>2. QED
      BY <1>2, <1>8, <1>10, <3>1, FrameEnds DEF Put
  <2>2. /\ psp[2] + 7 \in 0 .. size - 1 /\ psp[2] + 7 >= top + 9
        /\ stack'[cpu][psp[2] + 7] = m[psp[2] + 7]
    BY <1>2, <1>7, <1>8 DEF Put
  <2>3. HwFrame(stack'[cpu], size, top + 9)
    BY <1>2, <1>7, <2>2 DEF HwFrame
  <2>4. QED
    BY <1>7, <2>1, <2>3 DEF Saved
<1>12. /\ File(regs') /\ regs'["lr"] = EXC_RETURN
       /\ \A n \in Callee : regs'[n] = old[off + Offset(sw_function_frame_t, n) - 1]
  <2>1. File(q) /\ \A n \in Registers(sw_function_frame_t) :
                       q[n] = old[off + Offset(sw_function_frame_t, n) - 1]
    BY <1>9 DEF Got
  <2>2. /\ File(regs') /\ regs'["lr"] = q["lr"]
        /\ \A n \in Callee : regs'[n] = q[n]
    BY <1>6, <2>1, ScratchFacts
  <2>3. off \in Nat /\ off + 9 - 1 = off + 8 /\ old[off + 8] = EXC_RETURN
    BY <1>3 DEF Saved
  <2>4. QED
    BY <1>10, <2>1, <2>2, <2>3, FrameEnds
<1>13. Machine'
  <2>1. \A t \in Thread : Words(stack'[t], StackWords[t])
    BY <1>5, <1>8 DEF IInv, Machine, Put, size
  <2>2. QED
    BY <1>1, <1>3, <1>5, <1>6, <1>12, <2>1 DEF Machine
<1>14. OnCore'
  <2>1. HwFrame(stack'[running], StackWords[running], off + 9)
    BY <1>1, <1>3, <1>5 DEF Saved, old
  <2>2. psp'[2] = off + 9
    BY <1>6
  <2>3. QED
    BY <1>1, <1>12, <2>1, <2>2 DEF OnCore
<1>15. SwitchedOut'
  <2> SUFFICES ASSUME NEW t \in Started \ {running}
               PROVE  /\ stack_ptr'[t] = <<t, stack_ptr'[t][2]>>
                      /\ Saved(stack'[t], StackWords[t], stack_ptr'[t][2])
    BY <1>1 DEF SwitchedOut
  <2>1. t \in Thread
    BY StartedThreads DEF IInv
  <2>2. CASE t = cpu
    <3>1. stack_ptr'[cpu][2] = top
      BY <1>5
    <3>2. QED
      BY <1>5, <1>11, <2>2, <3>1 DEF size
  <2>3. CASE t # cpu
    BY <1>5, <2>1, <2>3 DEF IInv, SwitchedOut
  <2>4. QED
    BY <2>2, <2>3
<1>16. ASSUME NEW t \in Started, t = cpu PROVE View(t)' = View(t)
  <2>1. View(t) = Resumed(stack, <<t, psp[2]>>, regs)
    BY <1>1, <1>2, <1>16, ViewEntered
  <2>2. View(t)' = Resumed(stack', <<t, psp[2]>>, Lower(stack'[t], top))
    <3>1. t # cpu' /\ stack_ptr'[t] = <<t, top>> /\ top + 9 = psp[2]
      BY <1>1, <1>5, <1>7, <1>16
    <3>2. QED
      BY <3>1 DEF View, Lower, FUNCTION_FRAME_SW_STORED_SIZE
  <2>3. /\ File(Lower(stack'[t], top))
        /\ \A n \in Callee : Lower(stack'[t], top)[n] = regs[n]
    <3>1. \A n \in Callee :
             stack'[t][top + Offset(sw_function_frame_t, n) - 1] = regs[n]
      BY <1>8, <1>10, <1>16 DEF Put
    <3>2. QED
      BY <3>1, LowerFacts
  <2>4. \A i \in 0 .. StackWords[t] - 1 : i >= psp[2] => stack[t][i] = stack'[t][i]
    BY <1>7, <1>8, <1>16 DEF Put, m, size
  <2>5. /\ t \in Thread /\ StackWords[t] \in Nat /\ psp[2] + 8 <= StackWords[t]
        /\ stack[t][psp[2] + 7][3] \in Nat
    BY <1>2, <1>7, <1>16 DEF size, m
  <2>6. Resumed(stack, <<t, psp[2]>>, regs) =
        Resumed(stack', <<t, psp[2]>>, Lower(stack'[t], top))
    BY <1>2, <1>7, <2>3, <2>4, <2>5, ResumedSame
  <2>7. QED
    BY <2>1, <2>2, <2>6
<1>17. ASSUME NEW t \in Started, t = running PROVE View(t)' = View(t)
  <2>1. View(t) = Resumed(stack, <<t, off + 9>>, Lower(old, off))
    BY <1>1, <1>3, <1>17, ViewSaved DEF old, off
  <2>2. View(t)' = Resumed(stack', <<t, off + 9>>, regs')
    BY <1>1, <1>6, <1>17 DEF View
  <2>3. /\ File(Lower(old, off))
        /\ \A n \in Callee : Lower(old, off)[n] = regs'[n]
    BY <1>12, LowerFacts
  <2>4. \A i \in 0 .. StackWords[t] - 1 : i >= off + 9 => stack[t][i] = stack'[t][i]
    BY <1>1, <1>3, <1>5, <1>17
  <2>5. /\ t \in Thread /\ StackWords[t] \in Nat /\ off + 9 \in Nat
        /\ off + 9 + 8 <= StackWords[t] /\ stack[t][off + 9 + 7][3] \in Nat
    BY <1>3, <1>17, Sizes DEF Saved, HwFrame, old
  <2>6. Resumed(stack, <<t, off + 9>>, Lower(old, off)) =
        Resumed(stack', <<t, off + 9>>, regs')
    BY <1>12, <2>3, <2>4, <2>5, ResumedSame
  <2>7. QED
    BY <2>1, <2>2, <2>6
<1>18. ASSUME NEW t \in Started, t # cpu, t # running PROVE View(t)' = View(t)
  <2>1. t \in Thread
    BY StartedThreads DEF IInv
  <2>2. QED
    BY <1>1, <1>5, <1>18, <2>1, OtherSame DEF Untouched, IInv, SwitchedOut
<1>19. QED
  BY <1>13, <1>14, <1>15, <1>16, <1>17, <1>18 DEF IInv, Fewer, Unnoticed

(* The thread's own code changes nothing that another thread sees.          *)
LEMMA WorkStep ==
    ASSUME IInv, Fewer, Work
    PROVE  /\ IInv'
           /\ \A t \in Started \cap Started' : t # cpu => View(t)' = View(t)
<1>1. /\ mode = "thread" /\ mode' = "thread" /\ UNCHANGED <<cpu, stack_ptr>>
  BY DEF Work, Executes
<1>2. PICK f \in Results[cpu], off \in Room .. StackWords[cpu] :
         /\ regs' = f /\ psp' = <<cpu, off>>
         /\ stack' = [stack EXCEPT ![cpu] =
               [i \in DOMAIN @ |-> IF i < off THEN Unused
                                   ELSE IF i < psp[2] THEN f["r0"] ELSE @[i]]]
  BY DEF Work
<1>3. /\ cpu \in Thread /\ Words(stack[cpu], StackWords[cpu])
      /\ File(regs') /\ regs'["xpsr"] = Padded(regs'["xpsr"], 0)
  BY <1>2, CoreAssumption DEF IInv, Machine, File
<1>4. /\ \A t \in Thread \ {cpu} : stack'[t] = stack[t]
      /\ stack' = [t \in Thread |-> stack'[t]]
      /\ Words(stack'[cpu], StackWords[cpu])
  BY <1>2, <1>3 DEF IInv, Machine, Words
<1>5. Started' \subseteq Started /\ Started \subseteq Thread
  BY FewerStarted, StartedThreads DEF IInv
<1>6. Machine' /\ OnCore'
  BY <1>1, <1>2, <1>3, <1>4 DEF IInv, Machine, OnCore
<1>7. SwitchedOut'
  BY <1>1, <1>4, <1>5 DEF IInv, SwitchedOut
<1>8. ASSUME NEW t \in Started \cap Started', t # cpu PROVE View(t)' = View(t)
  BY <1>1, <1>4, <1>5, <1>8, OtherSame DEF Untouched, IInv, SwitchedOut
<1>9. QED
  BY <1>6, <1>7, <1>8 DEF IInv, Fewer

(* A thread that is created was not alive: its stack is in no use.          *)
LEMMA CreateStep ==
    ASSUME IInv, Inv', NEW t \in Worker, thread_create(t), Alive' = Alive \cup {t}
    PROVE  /\ IInv' /\ Unnoticed
           /\ Started' \ Started = {t}
           /\ View(t)' = [regs |-> InitRegisters(t), sp |-> <<t, StackWords[t]>>,
                          live |-> [i \in {} |-> Unused]]
<1> DEFINE size == StackWords[t]
           m    == InitStack(t, size)
<1>1. /\ mode = "thread" /\ cpu = running /\ UNCHANGED <<cpu, mode, regs, psp>>
      /\ stack' = [stack EXCEPT ![t] = m]
      /\ stack_ptr' = [stack_ptr EXCEPT ![t] = <<t, size - 17>>]
  <2>1. t \in Thread
    BY DEF Thread
  <2>2. StoredAt(CStackPtr(THREAD_OBJECT_GET(ListNode(t))), <<t, size - 17>>)
          = [stack_ptr EXCEPT ![t] = <<t, size - 17>>]
    BY <2>1, PointersAgree, StoredAtFacts DEF IInv
  <2>3. QED
    BY <2>2
       DEF thread_create, Executes, core, InitOffset, FUNCTION_FRAME_SIZE_TOTAL,
       FUNCTION_FRAME_HW_STORED_SIZE, FUNCTION_FRAME_SW_STORED_SIZE
<1>2. /\ t \in Thread /\ t # cpu /\ t \notin Started
      /\ size \in Nat /\ size >= 18
  <2>1. t \in Thread /\ t # Idle
    BY RoundRobinAssumption DEF Thread
  <2>2. t \notin Ready /\ t # running
    BY DEF thread_create, Create
  <2>3. QED
    BY <1>1, <2>1, <2>2, Sizes DEF Started
<1>3. Started' = Started \cup {t} /\ Started \subseteq Thread
  BY StartedThreads DEF IInv, Started, Alive, Ready
<1>4. /\ stack'[t] = m /\ stack_ptr'[t] = <<t, size - 17>>
      /\ \A u \in Thread \ {t} : stack'[u] = stack[u] /\ stack_ptr'[u] = stack_ptr[u]
      /\ stack' = [u \in Thread |-> stack'[u]]
      /\ stack_ptr' = [u \in Thread |-> stack_ptr'[u]]
  BY <1>1, <1>2 DEF IInv, Machine
<1> HIDE DEF m, size
<1>5. /\ Words(m, size) /\ Saved(m, size, size - 17) /\ m[size - 1] = Thumb
      /\ \A n \in Registers(hw_function_frame_t) :
            m[size - 8 + Offset(hw_function_frame_t, n) - 1] = InitRegisters(t)[n]
      /\ \A n \in Callee :
            m[size - 17 + Offset(sw_function_frame_t, n) - 1] = InitRegisters(t)[n]
  BY <1>2, InitStackFacts DEF m
<1>6. Machine'
  BY <1>1, <1>2, <1>4, <1>5 DEF IInv, Machine, size
<1>7. OnCore'
  BY <1>1, <1>2, <1>4 DEF IInv, Machine, OnCore
<1>8. SwitchedOut'
  <2> SUFFICES ASSUME NEW u \in Started' \ {cpu}
               PROVE  /\ stack_ptr'[u] = <<u, stack_ptr'[u][2]>>
                      /\ Saved(stack'[u], StackWords[u], stack_ptr'[u][2])
    BY <1>1 DEF SwitchedOut
  <2>1. CASE u = t
    BY <1>4, <1>5, <2>1 DEF size
  <2>2. CASE u # t
    BY <1>3, <1>4, <2>2 DEF IInv, SwitchedOut
  <2>3. QED
    BY <2>1, <2>2
<1>9. Unnoticed
  <2> SUFFICES ASSUME NEW u \in Started PROVE View(u)' = View(u)
    BY DEF Unnoticed
  <2>1. u \in Thread /\ u # t /\ cpu \in Thread
    BY <1>2, <1>3 DEF IInv, Machine
  <2>2. CASE u = cpu
    <3>1. psp[1] = cpu /\ stack'[u] = stack[u]
      BY <1>4, <2>1 DEF IInv, Machine
    <3>2. QED
      BY <1>1, <2>2, <3>1 DEF View
  <2>3. CASE u # cpu
    BY <1>1, <1>4, <2>1, <2>3, OtherSame DEF Untouched, IInv, SwitchedOut
  <2>4. QED
    BY <2>2, <2>3
<1>10. View(t)' = [regs |-> InitRegisters(t), sp |-> <<t, size>>,
                   live |-> [i \in {} |-> Unused]]
  <2> DEFINE r == Lower(m, size - 17)
             q == ReturnRegisters(m, size - 8, r)
  <2>1. View(t)' = Resumed(stack', <<t, size - 8>>, r)
    <3>1. size - 17 + 9 = size - 8
      BY <1>2
    <3>2. QED
      BY <1>1, <1>2, <1>4, <3>1 DEF View, Lower, FUNCTION_FRAME_SW_STORED_SIZE
  <2>2. File(r) /\ \A n \in Callee : r[n] = InitRegisters(t)[n]
    BY <1>5, LowerFacts
  <2> HIDE DEF r
  <2>3. size - 8 \in Nat /\ size - 8 + 7 = size - 1
    BY <1>2
  <2>4. ReturnPad(m, size - 8) = Thumb[3] /\ Returned(q, m, size - 8, r)
    BY <1>5, <2>2, <2>3, ReturnFacts
  <2> HIDE DEF q
  <2>5. Thumb[3] = 0 /\ Padded(Thumb, 0) = Thumb
    BY DEF Thumb, Padded
  <2>6. q = InitRegisters(t)
    <3>1. \A n \in Registers(hw_function_frame_t) \ {"xpsr"} :
             q[n] = InitRegisters(t)[n]
      BY <1>5, <2>4 DEF Returned
    <3>2. q["xpsr"] = Thumb /\ \A n \in Callee : q[n] = InitRegisters(t)[n]
      BY <1>5, <2>2, <2>3, <2>4, <2>5 DEF Returned
    <3>3. Reg = (Registers(hw_function_frame_t) \ {"xpsr"}) \cup Callee \cup {"xpsr"}
      BY RegFacts, HwFacts
    <3>4. File(InitRegisters(t)) /\ InitRegisters(t)["xpsr"] = Thumb
      BY RegFacts DEF File, InitRegisters
    <3>5. QED
      BY <2>4, <3>1, <3>2, <3>3, <3>4 DEF Returned, File
  <2>7. ReturnOffset(m, size - 8) = size
    BY <1>2, <2>4, <2>5 DEF ReturnOffset, FUNCTION_FRAME_HW_STORED_SIZE
  <2>8. Resumed(stack', <<t, size - 8>>, r) =
           [regs |-> q, sp |-> <<t, size>>,
            live |-> [i \in size .. size - 1 |-> m[i]]]
    BY <1>4, <2>7 DEF Resumed, q, size
  <2>9. [i \in size .. size - 1 |-> m[i]] = [i \in {} |-> Unused]
    BY <1>2
  <2>10. QED
    BY <2>1, <2>6, <2>8, <2>9
<1>11. QED
  BY <1>2, <1>3, <1>6, <1>7, <1>8, <1>9, <1>10 DEF IInv, size

-----------------------------------------------------------------------------
(* A step of the core is a step of the scheduler, or none. *)
LEMMA SchedulerStep ==
    ASSUME [CoreNext]_coreVars
    PROVE  \/ \E t \in Worker : thread_create(t) /\ Create(t)
           \/ Preempt \/ Finish \/ UNCHANGED vars
BY DEF CoreNext, coreVars, vars, thread, ThreadMode, HandlerMode, Work,
   thread_create, thread_end, Entry, SysTick_Handler, PendSV_Handler, PendSVWith,
   Return, Expire, Restart

(* The steps that create no thread and are not a thread's own code.         *)
LEMMA SilentStep ==
    ASSUME IInv, Fewer, [CoreNext]_coreVars,
           ~Work, \A t \in Worker : ~thread_create(t)
    PROVE  IInv' /\ Unnoticed
<1>1. CASE thread_end \/ Expire \/ Restart \/ UNCHANGED coreVars
  BY <1>1, QuietStep DEF thread_end, Expire, Restart, coreVars
<1>2. CASE Entry
  BY <1>2, EntryStep
<1>3. CASE SysTick_Handler
  BY <1>3, TickStep
<1>4. CASE PendSV_Handler
  BY <1>4, SwitchStep
<1>5. CASE Return
  BY <1>5, ReturnStep
<1>6. QED
  BY <1>1, <1>2, <1>3, <1>4, <1>5 DEF CoreNext, ThreadMode, HandlerMode

(* What every step does. *)
Noticed ==
    \A t \in Started \cap Started' :
        View(t)' # View(t) => Executes /\ mode' = "thread" /\ t = cpu

Begun ==
    \A t \in Started' \ Started :
        View(t)' = [regs |-> InitRegisters(t), sp |-> <<t, StackWords[t]>>,
                    live |-> [i \in {} |-> Unused]]

LEMMA CoreStep ==
    ASSUME IInv, [CoreNext]_coreVars
    PROVE  IInv' /\ Noticed /\ Begun
<1>1. Inv' /\ [Next]_vars
  <2>1. [Next]_vars
    BY SchedulerStep DEF Next
  <2>2. QED
    BY <2>1, InvNext DEF IInv
<1>2. ASSUME NEW t \in Worker, thread_create(t) PROVE IInv' /\ Noticed /\ Begun
  <2>1. Alive' = Alive \cup {t}
    BY <1>2, AliveAfter DEF thread_create, IInv
  <2>2. /\ IInv' /\ Unnoticed /\ Started' \ Started = {t}
        /\ View(t)' = [regs |-> InitRegisters(t), sp |-> <<t, StackWords[t]>>,
                       live |-> [i \in {} |-> Unused]]
    BY <1>1, <1>2, <2>1, CreateStep
  <2>3. Noticed
    BY <2>2 DEF Unnoticed, Noticed
  <2>4. Begun
    BY <2>2 DEF Begun
  <2>5. QED
    BY <2>2, <2>3, <2>4
<1>3. ASSUME \A t \in Worker : ~thread_create(t) PROVE IInv' /\ Noticed /\ Begun
  <2>1. Fewer
    <3>1. Preempt \/ Finish \/ UNCHANGED vars
      BY <1>3, SchedulerStep
    <3>2. QED
      BY <1>1, <3>1, AliveAfter DEF Fewer, IInv
  <2>2. Begun
    BY <2>1, FewerStarted DEF Begun
  <2>3. CASE Work
    <3>1. /\ IInv'
          /\ \A t \in Started \cap Started' : t # cpu => View(t)' = View(t)
      BY <2>1, <2>3, WorkStep
    <3>2. Executes /\ mode' = "thread"
      BY <2>3 DEF Work, Executes
    <3>3. QED
      BY <2>2, <3>1, <3>2 DEF Noticed
  <2>4. CASE ~Work
    <3>1. IInv' /\ Unnoticed
      BY <1>3, <2>1, <2>4, SilentStep
    <3>2. QED
      BY <2>2, <3>1 DEF Unnoticed, Noticed
  <2>5. QED
    BY <2>3, <2>4
<1>4. QED
  BY <1>2, <1>3

(***************************************************************************)
(* At every step, the current thread runs on its own stack with room for a  *)
(* context, and every other started thread has a complete one on its own    *)
(* (thread.c:143-193, pend_sv.S:33-74).                                    *)
(***************************************************************************)
THEOREM CoreInvariance == CoreSpec => []IInv
<1>1. IInv /\ [CoreNext]_coreVars => IInv'
  BY CoreStep
<1>2. QED
  BY <1>1, CoreInitInv, PTL DEF CoreSpec

(***************************************************************************)
(* The core always works on the stack of the current thread, every other   *)
(* context lies inside its thread's own stack, and the exception return    *)
(* finds a valid code in r14, for any stacks that leave room for a frame.  *)
(***************************************************************************)
THEOREM FramesAlwaysSound == CoreSpec => []FramesSound
BY CoreInvariance, FramesFollow, PTL

(***************************************************************************)
(* The switch is invisible: entry, PendSV_Handler and return compose to    *)
(* the identity on the registers, the stack pointer and the live words of  *)
(* every thread, wherever in its code it was interrupted.                  *)
(***************************************************************************)
THEOREM ContextsKept == CoreSpec => ContextKept
<1>1. IInv /\ [CoreNext]_coreVars =>
         [\A t \in Started \cap Started' :
            View(t)' # View(t) => Executes /\ mode' = "thread" /\ t = cpu]_coreVars
  BY CoreStep DEF Noticed
<1>2. QED
  BY <1>1, CoreInvariance, PTL DEF CoreSpec, ContextKept

(* The frames that thread_ctx_init forges start a new thread at its handler, *)
(* with an empty stack and a return into m_thread_cleanup.                  *)
THEOREM ThreadsBegin == CoreSpec => StartsAtHandler
<1>1. IInv /\ [CoreNext]_coreVars =>
         [\A t \in Started' \ Started :
            View(t)' = [regs |-> InitRegisters(t), sp |-> <<t, StackWords[t]>>,
                        live |-> [i \in {} |-> Unused]]]_coreVars
  BY CoreStep DEF Begun
<1>2. QED
  BY <1>1, CoreInvariance, PTL DEF CoreSpec, StartsAtHandler
=============================================================================
