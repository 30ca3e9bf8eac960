------------------------- MODULE ApplicationProofs -------------------------
(***************************************************************************)
(* Proofs about the program of main.c, for any size of its loops and any   *)
(* number of thread objects from two on.                                   *)
(***************************************************************************)
EXTENDS Application, PoolProofs

-----------------------------------------------------------------------------
(* What main's two calls of thread_create have done, wherever SysTick fell. *)

(* The first call takes object 2 with nobody else in the program, the       *)
(* second object 3: what a thread_1 that has ended gives back is behind it. *)
Objects ==
    /\ creates = 0 \/ (creates = 1 /\ pc[Main] \in Drawing) =>
         /\ cur = Main /\ ~pendsv /\ ready = EmptyList
         /\ free = [head |-> 2, tail |-> THREAD_MAX_NUM + 1] /\ next[2] = 3
    /\ creates = 0 => pc[Main] = "run"
    /\ creates = 1 => pc[Main] # "empty"
    /\ creates = 1 /\ pc[Main] = "advance" => ptr[Main] = 3
    /\ creates = 1 /\ pc[Main] \notin Drawing => free.head = 3
    /\ pc[Main] \in Creating => creates # 0 /\ node[Main] = creates + 1

(* thread_1 runs on object 2, and main knows it before it goes on.          *)
Handed ==
    /\ \A t \in Thread : handler[t] = "thread_1" => t = 2
    /\ creates = 2 \/ (creates = 1 /\ pc[Main] \in {"start", "run"})
         => 2 \in handles
    /\ creates = 2 \/ (creates = 1 /\ pc[Main] \in
                         (Creating \ (Drawing \cup Taken)) \cup {"run"})
         => handler[2] = "thread_1"

(* Where each thread is in the kernel and in its own code.                  *)
Paths ==
    /\ \A t \in Thread \ {Main} : pc[t] \notin Creating \cup {"join", "joined"}
    /\ at[Main] \in {"loop", "print", "send", "tx", "join"} => creates = 2
    /\ pc[Main] \in Creating => at[Main] = "create"
    /\ pc[Main] \in {"join", "joined"} => at[Main] = "join"

(* A worker that has masked the interrupts keeps the core until it leaves.  *)
InLock == {"take", "print", "send", "tx", "leave"}

Undisturbed ==
    \A t \in Workers :
        at[t] \in InLock => cur = t /\ ~pendsv /\ primask /\ pc[t] = "run"

(* The mark of the driver is the thread's that transmits, and a worker that *)
(* has found it free still finds it free.                                  *)
Busy ==
    /\ \A t \in Thread : at[t] = "tx" <=> sending = t
    /\ sending # Idle
    /\ \A t \in Workers : at[t] = "send" => sending = NULL

ProgramInv ==
    /\ TypeOK /\ Locals /\ AppTypeOK
    /\ Objects /\ Handed /\ Paths
    /\ Undisturbed /\ Busy

-----------------------------------------------------------------------------
LEMMA ProgramFacts ==
    /\ Main = 0 /\ Main \in Thread /\ Main \notin Workers
    /\ Workers \subseteq Thread /\ 2 \in Workers /\ 3 \in Workers
    /\ THREAD_MAX_NUM \in Nat /\ THREAD_MAX_NUM + 1 # 2
    /\ NULL \notin Thread /\ Idle \in Thread /\ MaxCreates = 2 /\ ~MaskedCreate
    /\ Joiners = {Main} /\ Rounds \in Nat /\ Loops \in Nat
BY KernelAssumption, ApplicationAssumption DEF Main, Idle, Workers, Thread

LEMMA ProgramInit == AppInit => ProgramInv
<1> SUFFICES ASSUME AppInit PROVE ProgramInv
  OBVIOUS
<1> USE ProgramFacts DEF AppInit
<1>1. TypeOK /\ Locals
  BY InitTypes
<1>2. AppTypeOK
  <2>1. 0 \in 0 .. Rounds /\ 0 \in 0 .. Loops + 1
    OBVIOUS
  <2>2. QED
    BY <2>1 DEF AppTypeOK
<1>3. /\ creates = 0 /\ cur = Main /\ ~pendsv /\ ready = EmptyList
      /\ free = [head |-> 2, tail |-> THREAD_MAX_NUM + 1]
      /\ pc = [t \in Thread |-> IF t = Main THEN "run"
                                ELSE IF t = Idle THEN "idle" ELSE "unused"]
  BY DEF Init
<1>4. next[2] = 3
  <2>1. 2 \in Thread /\ 2 + 1 = 3
    OBVIOUS
  <2>2. QED
    BY <2>1 DEF Init
<1>5. pc[Main] = "run"
      /\ \A t \in Thread : pc[t] \in {"run", "idle", "unused"}
  BY <1>3
<1>6. Objects /\ Handed /\ Paths
  BY <1>3, <1>4, <1>5 DEF Objects, Handed, Paths, Creating
<1>7. Undisturbed /\ Busy
  BY DEF Undisturbed, Busy, InLock
<1>8. QED
  BY <1>1, <1>2, <1>6, <1>7 DEF ProgramInv

(* thread_1 is on object 2 when main joins it.                              *)
LEMMA JoinsFirst ==
    ASSUME ProgramInv, at[Main] = "join"
    PROVE  /\ (CHOOSE t \in Workers : handler[t] = "thread_1") = 2
           /\ 2 \in handles
<1>1. creates = 2
  BY DEF ProgramInv, Paths
<1>2. handler[2] = "thread_1" /\ 2 \in handles
      /\ \A t \in Thread : handler[t] = "thread_1" => t = 2
  BY <1>1 DEF ProgramInv, Handed
<1>3. QED
  BY <1>2, ProgramFacts

(* What the program asks of the kernel: main alone creates, and of all the  *)
(* joins there are only main's of thread_1.                                *)
Uses(t) ==
    \/ KernelStep(t) \/ MaskIrq(t) \/ Cleanup(t)
    \/ t = Main /\ (Create(Main) \/ (2 \in handles /\ Join(Main, 2)))

(* Every step of the program is one of them, one of the hardware, or leaves *)
(* the kernel alone.                                                       *)
LEMMA StepUses ==
    ASSUME ProgramInv, [AppNext]_<<vars, app>>
    PROVE  \/ Interrupt \/ UNCHANGED vars
           \/ \E t \in Thread : Uses(t)
<1> USE ProgramFacts
<1>2. ASSUME NEW t \in Thread,
             \/ PrintBuffered(t) \/ WriteFails(t) \/ WriteTested(t)
             \/ Send(t) \/ Sent(t) \/ Take(t)
      PROVE  UNCHANGED vars
  BY <1>2 DEF PrintBuffered, WriteFails, WriteTested, Send, Sent, Take, Moves
<1>3. CASE SelfTest \/ uarte_init \/ MainLoop
  BY <1>3 DEF SelfTest, uarte_init, MainLoop, Moves
<1>4. CASE CreateCall \/ CreateHandler \/ CreateInside \/ CreateReturn
           \/ JoinReturned \/ (JoinLock(Main) /\ UNCHANGED app)
  <2>1. KernelStep(Main) \/ Create(Main)
    BY <1>4 DEF CreateCall, CreateHandler, CreateInside, CreateReturn,
                JoinReturned, KernelStep, CreateStep
  <2>2. QED
    BY <2>1 DEF Uses
<1>5. CASE JoinCall
  <2>1. CASE Join(Main, CHOOSE t \in Workers : handler[t] = "thread_1")
    <3>1. at[Main] = "join"
      BY <1>5 DEF JoinCall, Here
    <3>2. Join(Main, 2) /\ 2 \in handles
      BY <2>1, <3>1, JoinsFirst
    <3>3. QED
      BY <3>2 DEF Uses
  <2>2. CASE Moves(Main, "join", "loop")
    BY <2>2 DEF Moves
  <2>3. QED
    BY <1>5, <2>1, <2>2 DEF JoinCall
<1>6. ASSUME NEW t \in Workers, Enter(t) \/ Leave(t)
      PROVE  UNCHANGED vars \/ Uses(t)
  <2>1. /\ At(t, "run") /\ primask' \in BOOLEAN /\ primask \in BOOLEAN
        /\ UNCHANGED <<pools, status, cur, nxt, pendsv, pc, locals, client>>
    BY <1>6 DEF Enter, Leave, LeaveTo, Here, ProgramInv, AppTypeOK, TypeOK
  <2>2. CASE primask' = primask
    BY <2>1, <2>2 DEF vars, cpu
  <2>3. CASE primask' # primask
    <3>1. MaskIrq(t) \/ UnmaskIrq(t)
      BY <2>1, <2>3 DEF MaskIrq, UnmaskIrq
    <3>2. QED
      BY <3>1 DEF Uses, KernelStep
  <2>4. QED
    BY <2>2, <2>3
<1>7. ASSUME NEW t \in Workers, Return(t) \/ (EndStep(t) /\ UNCHANGED app)
      PROVE  Uses(t)
  BY <1>7 DEF Return, Uses, KernelStep
<1>8. CASE UNCHANGED <<vars, app>>
  BY <1>8
<1>9. QED
  BY <1>2, <1>3, <1>4, <1>5, <1>6, <1>7, <1>8
     DEF AppNext, Step, MainStep, WorkerStep

LEMMA StepUsesKernel ==
    ASSUME ProgramInv, [AppNext]_<<vars, app>>
    PROVE  [Next]_vars
<1>1. ASSUME NEW t \in Thread, Uses(t) PROVE Next
  BY <1>1, ProgramFacts DEF Uses, Next, ClientStep
<1>2. Interrupt => Next
  BY DEF Interrupt, Next
<1>3. QED
  BY <1>1, <1>2, StepUses

-----------------------------------------------------------------------------
(* Where a thread goes on in its own code is always one of its points.      *)
LEMMA StepAppTypes ==
    ASSUME ProgramInv, [AppNext]_<<vars, app>>
    PROVE  AppTypeOK'
<1> USE ProgramFacts DEF ProgramInv, AppTypeOK, Continue
<1>1. ASSUME NEW t \in Thread,
             \/ PrintBuffered(t) \/ WriteFails(t) \/ WriteTested(t)
             \/ Send(t) \/ Sent(t)
      PROVE  AppTypeOK'
  BY <1>1 DEF PrintBuffered, WriteFails, WriteTested, Send, Sent, Moves,
              AfterPrint, lock, count, line
<1>2. CASE SelfTest \/ uarte_init \/ MainLoop
  BY <1>2 DEF SelfTest, uarte_init, MainLoop, Moves, lock, count, line
<1>3. CASE CreateCall \/ CreateReturn \/ JoinCall \/ JoinReturned
  BY <1>3 DEF CreateCall, CreateReturn, JoinCall, JoinReturned, AfterCreate,
              Moves, lock, count, line
<1>4. CASE CreateHandler
  BY <1>4 DEF CreateHandler, lock, count, line
<1>5. ASSUME NEW t \in Workers, Enter(t) \/ Take(t)
      PROVE  AppTypeOK'
  <2>1. flags' \in [Thread -> BOOLEAN]
    BY <1>5 DEF Enter, Take, TypeOK
  <2>2. at' \in [Thread -> {"none", "test", "init", "hung", "create", "loop",
           "print", "send", "tx", "join", "enter", "take", "leave", "return"}]
    BY <1>5 DEF Enter, Take, Moves
  <2>3. QED
    BY <1>5, <2>1, <2>2 DEF Enter, Take, Moves, count, line
<1>6. ASSUME NEW t \in Workers, Leave(t)
      PROVE  AppTypeOK'
  <2>1. rounds' \in 0 .. Rounds
    BY <1>6 DEF Leave, LeaveTo, LastRound
  <2>2. QED
    BY <1>6, <2>1 DEF Leave, LeaveTo, line
<1>7. CASE UNCHANGED app
  BY <1>7 DEF app, lock, count, line
<1>8. QED
  BY <1>1, <1>2, <1>3, <1>4, <1>5, <1>6, <1>7
     DEF AppNext, Step, MainStep, WorkerStep, CreateInside, Return, Interrupt

(* The steps that touch neither the pools nor main's calls.                 *)
Aside ==
    /\ UNCHANGED <<creates, handles, handler, node, ptr>>
    /\ UNCHANGED <<free, ready, next, cur, pendsv, pc>>
    /\ \/ at'[Main] = at[Main]
       \/ pc[Main] = "run" /\ creates = 2
       \/ pc[Main] = "run" /\ at'[Main] \in {"test", "init", "hung", "create"}

LEMMA AsideKeeps ==
    ASSUME ProgramInv, Aside
    PROVE  Objects' /\ Handed' /\ Paths'
<1> USE DEF ProgramInv, Aside
<1>1. Objects'
  BY DEF Objects
<1>2. Handed'
  BY DEF Handed
<1>3. Paths'
  BY DEF Paths, Creating
<1>4. QED
  BY <1>1, <1>2, <1>3

LEMMA AsideSteps ==
    ASSUME ProgramInv,
           \/ \E t \in Thread : \/ PrintBuffered(t) \/ WriteFails(t)
                                \/ WriteTested(t) \/ Send(t) \/ Sent(t)
           \/ SelfTest \/ uarte_init \/ MainLoop
           \/ JoinCall /\ UNCHANGED vars
           \/ \E t \in Workers : Enter(t) \/ Take(t) \/ Leave(t)
           \/ UNCHANGED <<vars, app>>
    PROVE  Aside
<1> USE ProgramFacts DEF ProgramInv, AppTypeOK
<1>1. ASSUME NEW t \in Thread,
             \/ PrintBuffered(t) \/ WriteFails(t) \/ WriteTested(t)
             \/ Send(t) \/ Sent(t)
      PROVE  Aside
  <2>1. /\ UNCHANGED <<vars, handler>> /\ pc[t] = "run"
        /\ at[t] \in {"print", "send", "tx"}
        /\ \A u \in Thread \ {t} : at'[u] = at[u]
    BY <1>1 DEF PrintBuffered, WriteFails, WriteTested, Send, Sent, Moves,
                Here, At, Continue
  <2>2. t = Main => creates = 2
    BY <2>1 DEF Paths
  <2>3. QED
    BY <2>1, <2>2 DEF Aside, vars, pools, cpu, locals, client
<1>2. CASE SelfTest \/ uarte_init \/ MainLoop
  <2>1. /\ UNCHANGED <<vars, handler>> /\ pc[Main] = "run"
        /\ at[Main] = "loop" \/ at'[Main] \in {"init", "hung", "create"}
    BY <1>2 DEF SelfTest, uarte_init, MainLoop, Moves, Here, At, Continue
  <2>2. at[Main] = "loop" => creates = 2
    BY DEF Paths
  <2>3. QED
    BY <2>1, <2>2 DEF Aside, vars, pools, cpu, locals, client
<1>3. CASE JoinCall /\ UNCHANGED vars
  <2>1. /\ at[Main] = "join" /\ pc[Main] = "run" /\ handler' = handler
    BY <1>3 DEF JoinCall, Here, At
  <2>2. creates = 2
    BY <2>1 DEF Paths
  <2>3. QED
    BY <1>3, <2>1, <2>2 DEF Aside, vars, pools, cpu, locals, client
<1>4. ASSUME NEW t \in Workers, Enter(t) \/ Take(t) \/ Leave(t)
      PROVE  Aside
  BY <1>4 DEF Enter, Take, Leave, LeaveTo, Moves, Here, Continue, Aside, vars,
              pools, cpu, locals, client
<1>5. CASE UNCHANGED <<vars, app>>
  BY <1>5 DEF Aside, vars, app, pools, cpu, locals, client
<1>6. QED
  BY <1>1, <1>2, <1>3, <1>4, <1>5

(* The steps of the hardware and of the workers: none is possible while     *)
(* main's first call has still to take its object.                         *)
Elsewhere ==
    /\ creates # 0 /\ ~(creates = 1 /\ pc[Main] \in Drawing)
    /\ UNCHANGED <<creates, handles, handler, at, node>>
    /\ free'.head = free.head \/ free.head = NULL
    /\ pc'[Main] \in {pc[Main], "halted"}
    /\ \A t \in Thread \ {Main} :
          pc'[t] \in {pc[t], "endload", "endmark", "end", "resume", "lost",
                      "dead", "assert_false", "halted"}

LEMMA ElsewhereKeeps ==
    ASSUME ProgramInv, Elsewhere
    PROVE  Objects' /\ Handed' /\ Paths'
<1> USE ProgramFacts DEF ProgramInv, Elsewhere
<1>1. creates \in 0 .. 2 /\ NULL # 3
  BY DEF TypeOK
<1>2. Objects'
  BY <1>1 DEF Objects, Creating, Drawing
<1>3. Handed'
  BY DEF Handed, Creating, Drawing, Taken
<1>4. Paths'
  BY DEF Paths, Creating
<1>5. QED
  BY <1>2, <1>3, <1>4

LEMMA ElsewhereSteps ==
    ASSUME ProgramInv,
           \/ UNCHANGED app /\ (SysTick \/ PendSV \/ Halt)
           \/ \E t \in Workers : Return(t) \/ (EndStep(t) /\ UNCHANGED app)
    PROVE  Elsewhere
<1> USE ProgramFacts DEF ProgramInv
<1> DEFINE Quiet == creates = 0 \/ (creates = 1 /\ pc[Main] \in Drawing)
<1>1. Quiet => /\ cur = Main /\ ~pendsv /\ ready.head = NULL
               /\ pc[Main] \in {"run"} \cup Drawing
  BY DEF Objects, EmptyList
<1>2. CASE UNCHANGED app /\ (SysTick \/ PendSV)
  <2>1. ~Quiet
    BY <1>1, <1>2 DEF SysTick, PendSV
  <2>2. UNCHANGED <<creates, handles, handler, at, node, free, pc>>
    BY <1>2 DEF SysTick, PendSV, app, locals, client, pools
  <2>3. QED
    BY <2>1, <2>2 DEF Elsewhere
<1>3. CASE UNCHANGED app /\ Halt
  <2>1. ~Quiet
    BY <1>1, <1>3 DEF Halt, LockedPutFails, RequeueFails, At, Drawing
  <2>2. /\ UNCHANGED <<creates, handles, handler, at, node, free>>
        /\ pc' = [pc EXCEPT ![cur] = "halted"]
    BY <1>3 DEF Halt, Goto, app, locals, client, pools
  <2>3. QED
    BY <2>1, <2>2 DEF Elsewhere, TypeOK
<1>4. ASSUME NEW t \in Workers, Return(t) \/ (EndStep(t) /\ UNCHANGED app)
      PROVE  Elsewhere
  <2>1. cur = t /\ ~Quiet
    BY <1>1, <1>4
       DEF Return, Cleanup, EndStep, EndLoad, EndMark, EndLock, EndResume,
           EndSwitch,
                      EndReturned, At, Drawing
  <2>2. UNCHANGED <<creates, handles, handler, at, node>>
    BY <1>4
       DEF Return, Cleanup, EndStep, EndLoad, EndMark, EndLock, EndResume,
           EndSwitch,
                EndReturned, app, locals, client
  <2>3. free' \in {free, TailPut(free, t)}
    BY <1>4
       DEF Return, Cleanup, EndStep, EndLoad, EndMark, EndLock, EndResume,
           EndSwitch, Freed,
                EndReturned, pools
  <2>4. free'.head = free.head \/ free.head = NULL
    BY <2>3 DEF TailPut, TypeOK, Lists
  <2>5. \E l \in {"endload", "endmark", "end", "lost", "resume", "dead",
                "assert_false"} :
           pc' = pc \/ pc' = [pc EXCEPT ![t] = l]
    BY <1>4
       DEF Return, Cleanup, EndStep, EndLoad, EndMark, EndLock, EndResume,
           EndSwitch,
                EndReturned, Goto
  <2>6. QED
    BY <2>1, <2>2, <2>4, <2>5 DEF Elsewhere, TypeOK
<1>5. QED
  BY <1>2, <1>3, <1>4

(* A call of thread_create: the first takes object 2, the second object 3.  *)
LEMMA CreateCallKeeps ==
    ASSUME ProgramInv, CreateCall
    PROVE  Objects' /\ Handed' /\ Paths'
<1> USE ProgramFacts DEF ProgramInv
<1>1. /\ pc[Main] = "run" /\ at[Main] = "create" /\ creates \in {0, 1}
      /\ creates' = creates + 1
      /\ UNCHANGED <<free, ready, next, cur, pendsv, handles, handler>>
  BY DEF CreateCall, Here, At, Create, pools, cpu, TypeOK
<1>2. free.head = creates + 2 /\ free.head # NULL
  BY <1>1 DEF Objects, Drawing
<1>3. /\ pc' = [pc EXCEPT ![Main] = "unlink"]
      /\ node' = [node EXCEPT ![Main] = creates + 2]
      /\ at' = [at EXCEPT ![Main] = "create"]
  BY <1>2 DEF CreateCall, Create, Goto, Continue
<1>4. pc'[Main] = "unlink" /\ node'[Main] = creates' + 1
      /\ at'[Main] = "create"
      /\ \A t \in Thread \ {Main} : pc'[t] = pc[t]
  BY <1>1, <1>3 DEF TypeOK, AppTypeOK
<1>5. Objects'
  BY <1>1, <1>4 DEF Objects, Creating, Drawing
<1>6. Handed'
  BY <1>1, <1>4 DEF Handed, Creating, Drawing, Taken
<1>7. Paths'
  BY <1>1, <1>4 DEF Paths, Creating
<1>8. QED
  BY <1>5, <1>6, <1>7

(* The object becomes thread_1's or thread_2's.                             *)
LEMMA CreateHandlerKeeps ==
    ASSUME ProgramInv, CreateHandler
    PROVE  Objects' /\ Handed' /\ Paths'
<1> USE ProgramFacts DEF ProgramInv
<1>1. /\ pc[Main] = "init" /\ at[Main] = "create"
      /\ creates \in {1, 2} /\ node[Main] = creates + 1
      /\ UNCHANGED <<free, ready, next, cur, pendsv, handles, creates, node>>
  BY DEF CreateHandler, CreateInit, At, pools, cpu, locals, client, Objects,
         Paths, Creating, TypeOK
<1>2. node[Main] \in Workers
  BY <1>1
<1>3. /\ pc' = [pc EXCEPT ![node[Main]] = "run", ![Main] = "detach"]
      /\ at' = [at EXCEPT ![node[Main]] = "enter"]
      /\ handler' = [handler EXCEPT ![node[Main]] =
                       IF creates = 1 THEN "thread_1" ELSE "thread_2"]
  BY DEF CreateHandler, CreateInit, Continue
<1>4. /\ pc'[Main] = "detach" /\ at'[Main] = "create"
      /\ \A t \in Thread \ {Main} : pc'[t] \in {pc[t], "run"}
  BY <1>1, <1>2, <1>3 DEF TypeOK, AppTypeOK
<1>5. Objects'
  BY <1>1, <1>4 DEF Objects, Creating, Drawing
<1>6. Handed'
  <2>1. CASE creates = 1
    <3>1. handler' = [handler EXCEPT ![2] = "thread_1"]
      BY <1>1, <1>3, <2>1
    <3>2. QED
      BY <1>1, <1>4, <2>1, <3>1 DEF Handed, AppTypeOK
  <2>2. CASE creates = 2
    <3>1. handler' = [handler EXCEPT ![3] = "thread_2"]
      BY <1>1, <1>3, <2>2
    <3>2. handler[2] = "thread_1" /\ 2 \in handles
      BY <2>2 DEF Handed
    <3>3. QED
      BY <1>1, <1>4, <2>2, <3>1, <3>2 DEF Handed, AppTypeOK
  <2>3. QED
    BY <1>1, <2>1, <2>2
<1>7. Paths'
  BY <1>1, <1>4 DEF Paths, Creating
<1>8. QED
  BY <1>5, <1>6, <1>7

(* The other steps of thread_create.                                       *)
LEMMA CreateInsideKeeps ==
    ASSUME ProgramInv, CreateInside
    PROVE  Objects' /\ Handed' /\ Paths'
<1> USE ProgramFacts DEF ProgramInv
<1>1. /\ pc[Main] \in Creating /\ at[Main] = "create" /\ creates \in {1, 2}
      /\ node[Main] = creates + 1 /\ node' = node /\ creates' = creates
      /\ UNCHANGED <<at, handler, cur, pendsv>>
  <2>1. pc[Main] \in Creating
    BY DEF CreateInside, CreateStep, CreateUnlink, CreateEmpty, CreateUntail,
       CreateFollow, CreateAdvance, CreateCheck, CreateInit, CreateDetach,
       CreateTest, CreateFirst, CreateLink, CreateNoTail, CreateSplice,
       CreateSetTail, CreateLoad, CreateMark, CreateReload,
       CreateStart, At, Creating
  <2>2. UNCHANGED <<node, creates, at, handler, cur, pendsv>>
    BY DEF CreateInside, CreateStep, CreateUnlink, CreateEmpty, CreateUntail,
       CreateFollow, CreateAdvance, CreateCheck, CreateInit, CreateDetach,
       CreateTest, CreateFirst, CreateLink, CreateNoTail, CreateSplice,
       CreateSetTail, CreateLoad, CreateMark, CreateReload,
       CreateStart, At, cpu, locals, client, app
  <2>3. QED
    BY <2>1, <2>2 DEF Objects, Paths, TypeOK
<1>2. PICK l \in (Creating \ {"unlink"})
                    \cup {"assert_none", "assert_tail", "halted"} :
         /\ pc' = [pc EXCEPT ![Main] = l]
         /\ l \in Drawing => pc[Main] \in Drawing
         /\ pc[Main] \in Drawing \cup Taken => l \in Drawing \cup Taken
         /\ creates = 1 /\ l = "start" => 2 \in handles'
         /\ handles \subseteq handles'
  <2>1. CASE CreateReload(Main)
    <3>1. /\ pc[Main] = "reload" /\ pc' = [pc EXCEPT ![Main] = "start"]
          /\ handles' = handles \cup {creates + 1}
      BY <1>1, <2>1 DEF CreateReload, At, Goto
    <3>2. /\ "start" \in Creating /\ "start" \notin Drawing
          /\ "reload" \notin Drawing \cup Taken
      BY DEF Creating, Drawing, Taken
    <3>3. creates = 1 => 2 \in handles'
      BY <3>1
    <3>4. QED
      BY <3>1, <3>2, <3>3
  <2>2. CASE CreateUnlink(Main) \/ CreateEmpty(Main) \/ CreateUntail(Main)
             \/ CreateFollow(Main) \/ CreateAdvance(Main) \/ CreateCheck(Main)
    <3>1. \E l \in {"empty", "follow", "advance"} \cup Taken :
             /\ pc' = [pc EXCEPT ![Main] = l]
             /\ l \in Drawing => pc[Main] \in Drawing
      BY <2>2 DEF CreateUnlink, CreateEmpty, CreateUntail, CreateFollow,
                  CreateAdvance, CreateCheck, Goto, At, Drawing, Taken
    <3>2. handles' = handles
      BY <2>2 DEF CreateUnlink, CreateEmpty, CreateUntail, CreateFollow,
                  CreateAdvance, CreateCheck, client
    <3>3. QED
      BY <3>1, <3>2 DEF Creating, Drawing, Taken
  <2>3. CASE CreateDetach(Main) \/ CreateTest(Main) \/ CreateFirst(Main)
             \/ CreateLink(Main) \/ CreateNoTail(Main) \/ CreateSplice(Main)
             \/ CreateSetTail(Main) \/ CreateLoad(Main) \/ CreateMark(Main)
    <3>1. pc[Main] \notin Drawing \cup Taken /\ handles' = handles
      BY <2>3 DEF CreateDetach, CreateTest, CreateFirst, CreateLink,
         CreateNoTail, CreateSplice, CreateSetTail, CreateLoad, CreateMark, At,
         Drawing, Taken, client
    <3>2. \E l \in {"test", "first", "link", "splice", "settail", "load",
                    "mark", "reload", "assert_tail", "halted"} :
             pc' = [pc EXCEPT ![Main] = l]
      BY <2>3 DEF CreateDetach, CreateTest, CreateFirst, CreateLink,
         CreateNoTail, CreateSplice, CreateSetTail, CreateLoad, CreateMark, Goto
    <3>3. QED
      BY <3>1, <3>2 DEF Creating, Drawing
  <2>4. QED
    BY <2>1, <2>2, <2>3
       DEF CreateInside, CreateStep, CreateInit, CreateStart, At
<1>3. pc'[Main] = l /\ \A t \in Thread \ {Main} : pc'[t] = pc[t]
  BY <1>2 DEF TypeOK
<1>4. creates = 1 =>
         IF l \in Drawing
           THEN /\ UNCHANGED <<free, ready, next>> /\ l # "empty"
                /\ l = "advance" => ptr'[Main] = 3
           ELSE free'.head = 3
  <2> SUFFICES ASSUME creates = 1
               PROVE  IF l \in Drawing
                        THEN /\ UNCHANGED <<free, ready, next>> /\ l # "empty"
                             /\ l = "advance" => ptr'[Main] = 3
                        ELSE free'.head = 3
    OBVIOUS
  <2>1. CASE pc[Main] \in Drawing
    <3>1. /\ node[Main] = 2 /\ next[2] = 3 /\ free.tail # 2
          /\ free \in Lists(Queued) /\ pc[Main] # "empty"
          /\ pc[Main] = "advance" => ptr[Main] = 3
      BY <1>1, <2>1 DEF Objects, TypeOK
    <3>2. CASE CreateUnlink(Main)
      <4>1. l = "follow"
        BY <1>3, <3>1, <3>2 DEF CreateUnlink, Goto, TypeOK
      <4>2. QED
        BY <3>2, <4>1 DEF CreateUnlink, pools, Drawing
    <3>3. CASE CreateFollow(Main)
      <4>1. l = "advance" /\ ptr'[Main] = 3
        BY <1>3, <3>1, <3>3 DEF CreateFollow, Goto, TypeOK
      <4>2. QED
        BY <3>3, <4>1 DEF CreateFollow, pools, Drawing
    <3>4. CASE CreateAdvance(Main)
      <4>1. l = "check" /\ free' = [free EXCEPT !.head = 3]
        BY <1>3, <3>1, <3>4 DEF CreateAdvance, At, Goto, TypeOK
      <4>2. QED
        BY <3>1, <4>1 DEF Drawing, Lists
    <3>5. CreateUnlink(Main) \/ CreateFollow(Main) \/ CreateAdvance(Main)
      BY <2>1, <3>1 DEF CreateInside, CreateStep, CreateEmpty, CreateUntail,
         CreateCheck, CreateInit, CreateDetach, CreateTest, CreateFirst,
         CreateLink, CreateNoTail, CreateSplice, CreateSetTail, CreateLoad,
         CreateMark, CreateReload, CreateStart, At, Drawing
    <3>6. QED
      BY <3>2, <3>3, <3>4, <3>5
  <2>2. CASE pc[Main] \notin Drawing
    <3>1. free'.head = free.head
      BY <2>2 DEF CreateInside, CreateStep, CreateUnlink, CreateEmpty,
         CreateUntail, CreateFollow, CreateAdvance, CreateCheck, CreateInit,
         CreateDetach, CreateTest, CreateFirst, CreateLink, CreateNoTail,
         CreateSplice, CreateSetTail, CreateLoad, CreateMark, CreateReload,
         CreateStart, At, pools, TypeOK, Lists, Drawing
    <3>2. QED
      BY <1>2, <2>2, <3>1 DEF Objects
  <2>3. QED
    BY <2>1, <2>2
<1>5. Objects'
  BY <1>1, <1>2, <1>4, <1>3 DEF Objects, Creating, Drawing
<1>6. Handed'
  BY <1>1, <1>2, <1>3 DEF Handed, Creating, Drawing, Taken
<1>7. Paths'
  BY <1>1, <1>2, <1>3 DEF Paths, Creating
<1>8. QED
  BY <1>5, <1>6, <1>7

(* Main returns from thread_create, and joins.                             *)
LEMMA MainKeeps ==
    ASSUME ProgramInv,
           \/ CreateReturn \/ JoinReturned \/ (JoinLock(Main) /\ UNCHANGED app)
           \/ JoinCall /\ ~UNCHANGED vars
    PROVE  Objects' /\ Handed' /\ Paths'
<1> USE ProgramFacts DEF ProgramInv
<1>1. CASE CreateReturn
  <2>1. /\ pc[Main] = "start" /\ creates \in {1, 2}
        /\ pc' = [pc EXCEPT ![Main] = "run"]
        /\ at' = [at EXCEPT ![Main] = IF creates = 2 THEN "loop" ELSE "create"]
        /\ UNCHANGED <<free, ready, next, cur, pendsv, handles, creates, handler>>
    BY <1>1 DEF CreateReturn, CreateStart, At, Goto, Continue, AfterCreate,
                pools, cpu, client, Objects, Creating, TypeOK
  <2>2. pc'[Main] = "run" /\ \A t \in Thread \ {Main} : pc'[t] = pc[t]
    BY <2>1 DEF TypeOK
  <2>3. Objects'
    BY <2>1, <2>2 DEF Objects, Creating, Drawing
  <2>4. Handed'
    BY <2>1, <2>2 DEF Handed, Creating, Drawing, Taken
  <2>5. Paths'
    BY <2>1, <2>2 DEF Paths, Creating, AppTypeOK
  <2>6. QED
    BY <2>3, <2>4, <2>5
<1>2. ASSUME creates = 2, UNCHANGED <<free, handles, creates, handler>>,
             NEW l \in {"run", "join", "joined"},
             pc' = [pc EXCEPT ![Main] = l],
             \/ at'[Main] = "join"
             \/ l = "run"
      PROVE  Objects' /\ Handed' /\ Paths'
  <2>1. pc'[Main] = l /\ \A t \in Thread \ {Main} : pc'[t] = pc[t]
    BY <1>2 DEF TypeOK
  <2>2. QED
    BY <1>2, <2>1 DEF Objects, Handed, Paths, Creating
<1>3. CASE JoinReturned
  <2>1. at[Main] = "join"
    BY <1>3 DEF JoinReturned, JoinReturn, At, Paths
  <2>2. QED
    BY <1>2, <1>3, <2>1 DEF JoinReturned, JoinReturn, Goto, pools, client, Paths
<1>4. CASE JoinLock(Main) /\ UNCHANGED app
  <2>1. at[Main] = "join"
    BY <1>4 DEF JoinLock, At, Paths
  <2>2. QED
    BY <1>2, <1>4, <2>1 DEF JoinLock, Goto, client, app, Paths
<1>5. CASE JoinCall /\ ~UNCHANGED vars
  <2>1. at[Main] = "join" /\ at' = at /\ handler' = handler
        /\ Join(Main, CHOOSE t \in Workers : handler[t] = "thread_1")
    BY <1>5 DEF JoinCall, Here, Moves
  <2>2. QED
    BY <1>2, <2>1 DEF Join, Goto, pools, client, Paths
<1>6. QED
  BY <1>1, <1>3, <1>4, <1>5

-----------------------------------------------------------------------------
(* The lock: a step of the hardware, or one that main or a worker outside   *)
(* the lock takes, finds no worker inside it, or is masked.                *)
LEMMA StepUndisturbed ==
    ASSUME ProgramInv, [AppNext]_<<vars, app>>
    PROVE  Undisturbed'
<1> USE ProgramFacts DEF ProgramInv
<1>1. ASSUME UNCHANGED at, UNCHANGED <<cur, pendsv, primask>>,
             \A t \in Workers : pc[t] = "run" => pc'[t] = "run"
      PROVE  Undisturbed'
  BY <1>1 DEF Undisturbed
<1>2. ASSUME NEW t \in Thread, cur = t,
             \A u \in Workers \ {t} : at'[u] \in InLock => at[u] \in InLock,
             t \in Workers => at'[t] \notin InLock
      PROVE  Undisturbed'
  BY <1>2 DEF Undisturbed
<1>3. CASE Interrupt
  <2>1. ASSUME NEW t \in Workers, at[t] \in InLock
        PROVE  FALSE
    <3>1. cur = t /\ ~pendsv /\ primask /\ pc[t] = "run"
      BY <2>1 DEF Undisturbed
    <3>2. SysTickIdle \/ Tick \/ PendSV \/ Halt
      BY <1>3 DEF Interrupt
    <3>3. QED
      BY <3>1, <3>2 DEF Tick, SysTick, SysTickIdle, PendSV, Halt,
                        LockedPutFails, At
  <2>2. QED
    BY <1>3, <2>1 DEF Interrupt, app, Undisturbed
<1>4. CASE SelfTest \/ uarte_init \/ MainLoop \/ JoinCall \/ JoinReturned
           \/ CreateCall \/ CreateReturn \/ CreateInside
           \/ (JoinLock(Main) /\ UNCHANGED app)
  <2>1. cur = Main
    BY <1>4 DEF SelfTest, uarte_init, MainLoop, JoinCall, JoinReturned,
       CreateCall, CreateReturn, CreateInside, Moves, Here, JoinReturn, Create,
       CreateStart, CreateStep, CreateUnlink, CreateEmpty, CreateUntail,
       CreateFollow, CreateAdvance, CreateCheck, CreateInit, CreateDetach,
       CreateTest, CreateFirst, CreateLink, CreateNoTail, CreateSplice,
       CreateSetTail, CreateLoad, CreateMark, CreateReload,
       JoinLock, At
  <2>2. \A t \in Workers : at'[t] = at[t]
    BY <1>4 DEF SelfTest, uarte_init, MainLoop, JoinCall, JoinReturned,
       CreateCall, CreateReturn, CreateInside, Moves, Continue, app, AppTypeOK
  <2>3. QED
    BY <1>2, <2>1, <2>2
<1>5. CASE CreateHandler
  <2>1. cur = Main /\ at' = [at EXCEPT ![node[Main]] = "enter"]
    BY <1>5 DEF CreateHandler, CreateInit, At, Continue
  <2>2. QED
    BY <1>2, <2>1 DEF AppTypeOK, InLock
<1>6. ASSUME NEW t \in Thread \ Workers,
             \/ PrintBuffered(t) \/ WriteFails(t) \/ WriteTested(t)
             \/ Send(t) \/ Sent(t)
      PROVE  Undisturbed'
  <2>1. cur = t /\ \A u \in Workers : at'[u] = at[u]
    BY <1>6 DEF PrintBuffered, WriteFails, WriteTested, Send, Sent, Moves,
                Here, At, Continue, AppTypeOK
  <2>2. QED
    BY <1>2, <2>1
<1>7. ASSUME NEW t \in Workers,
             \/ PrintBuffered(t) \/ WriteFails(t) \/ WriteTested(t)
             \/ Send(t) \/ Sent(t) \/ Take(t)
      PROVE  Undisturbed'
  <2>1. /\ UNCHANGED vars /\ cur = t /\ at[t] \in InLock
        /\ \A u \in Workers \ {t} : at'[u] = at[u]
    BY <1>7 DEF PrintBuffered, WriteFails, WriteTested, Send, Sent, Take, Moves,
                Here, At, Continue, AppTypeOK, InLock
  <2>2. QED
    BY <2>1 DEF Undisturbed, vars, cpu
<1>8. ASSUME NEW t \in Workers, Enter(t)
      PROVE  Undisturbed'
  <2>1. /\ cur = t /\ ~pendsv /\ pc[t] = "run" /\ primask'
        /\ UNCHANGED <<cur, pendsv, pc>>
        /\ \A u \in Workers \ {t} : at'[u] = at[u]
    BY <1>8 DEF Enter, Here, At, Continue, AppTypeOK
  <2>2. QED
    BY <2>1 DEF Undisturbed
<1>9. ASSUME NEW t \in Workers, Leave(t)
      PROVE  Undisturbed'
  <2>1. /\ cur = t /\ at'[t] \in {"return", "enter"}
        /\ \A u \in Workers \ {t} : at'[u] = at[u]
    BY <1>9 DEF Leave, LeaveTo, Here, At, Continue, AppTypeOK
  <2>2. at'[t] \notin InLock
    BY <2>1 DEF InLock
  <2>3. QED
    BY <1>2, <2>1, <2>2
<1>10. ASSUME NEW t \in Workers, Return(t) \/ (EndStep(t) /\ UNCHANGED app)
       PROVE  Undisturbed'
  <2>1. cur = t /\ at' = at /\ at[t] \notin InLock
    BY <1>10
       DEF Return, Here, Cleanup, EndStep, EndLoad, EndMark, EndLock,
           EndResume, EndSwitch,
                 EndReturned, At, app, Undisturbed, InLock
  <2>2. QED
    BY <1>2, <2>1
<1>11. CASE UNCHANGED <<vars, app>>
  BY <1>1, <1>11 DEF vars, app, cpu
<1>12. QED
  BY <1>3, <1>4, <1>5, <1>6, <1>7, <1>8, <1>9, <1>10, <1>11
     DEF AppNext, Step, MainStep, WorkerStep

(* The mark: nobody sets it for another, and while a worker prints nobody   *)
(* sets it at all.                                                         *)
LEMMA StepBusy ==
    ASSUME ProgramInv, [AppNext]_<<vars, app>>
    PROVE  Busy'
<1> USE ProgramFacts DEF ProgramInv
<1>1. ASSUME NEW t \in Thread, sending' = sending,
             at[t] # "tx", at'[t] \notin {"tx", "send"},
             \A u \in Thread \ {t} : at'[u] = at[u]
      PROVE  Busy'
  BY <1>1 DEF Busy
<1>2. CASE at' = at /\ sending' = sending
  BY <1>2 DEF Busy
<1>3. ASSUME NEW t \in Thread, PrintBuffered(t) \/ WriteFails(t)
      PROVE  Busy'
  BY <1>1, <1>3
     DEF PrintBuffered, WriteFails, Moves, Here, Continue, AfterPrint,
                    line, AppTypeOK
<1>4. ASSUME NEW t \in Thread, WriteTested(t)
      PROVE  Busy'
  BY <1>4 DEF WriteTested, Moves, Here, Continue, line, AppTypeOK, Busy
<1>5. ASSUME NEW t \in Thread, Send(t)
      PROVE  Busy'
  <2>0. t # Idle
    BY <1>5 DEF Send, Moves, Here, At, TypeOK
  <2>1. /\ cur = t /\ at[t] = "send" /\ sending' = t
        /\ at'[t] = "tx" /\ \A u \in Thread \ {t} : at'[u] = at[u]
    BY <1>5 DEF Send, Moves, Here, At, Continue, AppTypeOK
  <2>2. \A u \in Workers \ {t} : at[u] \notin InLock
    BY <2>1 DEF Undisturbed
  <2>3. \A u \in Thread \ {t} : at[u] # "tx"
    <3>1. ASSUME NEW u \in Thread \ {t}, at[u] = "tx" PROVE FALSE
      <4>1. t \in Workers => sending = NULL
        BY <2>1 DEF Busy
      <4>2. sending = u
        BY <3>1 DEF Busy
      <4>3. u \notin Workers
        BY <2>2, <3>1 DEF InLock
      <4>4. t \notin Workers
        BY <4>1, <4>2, <3>1
      <4>5. t = Main /\ u = Main
        BY <2>0, <4>2, <4>3, <4>4 DEF Busy, Thread, Workers, Main, Idle
      <4>6. QED
        BY <3>1, <4>5
    <3>2. QED
      BY <3>1
  <2>4. QED
    BY <2>0, <2>1, <2>2, <2>3 DEF Busy, InLock
<1>6. ASSUME NEW t \in Thread, Sent(t)
      PROVE  Busy'
  BY <1>6 DEF Sent, Moves, Here, Continue, AfterPrint, AppTypeOK, Busy
<1>7. CASE SelfTest \/ uarte_init \/ MainLoop \/ CreateCall \/ JoinCall
  BY <1>1, <1>2, <1>7 DEF SelfTest, uarte_init, MainLoop, CreateCall, JoinCall,
     Moves, Here, Continue, AfterCreate, line, AppTypeOK
<1>8. CASE CreateReturn \/ JoinReturned
  <2>1. at[Main] \in {"create", "join"}
    BY <1>8 DEF CreateReturn, CreateStart, JoinReturned, JoinReturn, At, Paths,
                Creating
  <2>2. QED
    BY <1>1, <1>8, <2>1 DEF CreateReturn, JoinReturned, Continue, AfterCreate,
                            line, AppTypeOK
<1>9. CASE CreateHandler
  <2>1. /\ cur = Main /\ at' = [at EXCEPT ![node[Main]] = "enter"]
        /\ pc[Main] = "init" /\ sending' = sending
    BY <1>9 DEF CreateHandler, CreateInit, At, Continue, line
  <2>2. node[Main] \in Workers
    BY <2>1 DEF Objects, Creating, TypeOK
  <2>3. at[node[Main]] # "tx"
    BY <2>1, <2>2 DEF Undisturbed, InLock
  <2>4. QED
    BY <1>1, <2>1, <2>2, <2>3 DEF AppTypeOK
<1>10. ASSUME NEW t \in Workers, Enter(t) \/ Take(t) \/ Leave(t)
       PROVE  Busy'
  BY <1>1, <1>10 DEF Enter, Take, Leave, LeaveTo, Moves, Here, Continue, line,
                     AppTypeOK
<1>11. CASE UNCHANGED app
  BY <1>2, <1>11 DEF app, line
<1>12. QED
  BY <1>3, <1>4, <1>5, <1>6, <1>7, <1>8, <1>9, <1>10, <1>11
     DEF AppNext, Step, MainStep, WorkerStep, CreateInside, Return, Interrupt

LEMMA StepProgram ==
    ASSUME ProgramInv, [AppNext]_<<vars, app>>
    PROVE  ProgramInv'
<1>1. TypeOK' /\ Locals'
  <2>1. TypeOK /\ Locals /\ [Next]_vars
    BY StepUsesKernel DEF ProgramInv
  <2>2. QED
    BY <2>1, StepTypes
<1>2. Objects' /\ Handed' /\ Paths'
  <2>1. \/ Aside \/ Elsewhere
        \/ CreateCall \/ CreateHandler \/ CreateInside
        \/ CreateReturn \/ JoinReturned \/ (JoinLock(Main) /\ UNCHANGED app)
        \/ JoinCall /\ ~UNCHANGED vars
    <3>1. CASE SysTickIdle /\ UNCHANGED app
      BY <3>1, AsideSteps DEF SysTickIdle
    <3>2. CASE UNCHANGED app /\ (SysTick \/ PendSV \/ Halt)
      BY <3>2, ElsewhereSteps
    <3>3. ASSUME NEW t \in Workers, WorkerStep(t) PROVE Aside \/ Elsewhere
      BY <3>3, AsideSteps, ElsewhereSteps DEF WorkerStep
    <3>4. ASSUME NEW t \in Thread,
                 \/ PrintBuffered(t) \/ WriteFails(t) \/ WriteTested(t)
                 \/ Send(t) \/ Sent(t)
          PROVE  Aside
      BY <3>4, AsideSteps
    <3>5. SelfTest \/ uarte_init \/ MainLoop \/ (JoinCall /\ UNCHANGED vars)
             \/ UNCHANGED <<vars, app>> => Aside
      BY AsideSteps
    <3>6. QED
      BY <3>1, <3>2, <3>3, <3>4, <3>5
         DEF AppNext, Interrupt, Tick, Step, MainStep
  <2>2. QED
    BY <2>1, AsideKeeps, ElsewhereKeeps, CreateCallKeeps, CreateHandlerKeeps,
       CreateInsideKeeps, MainKeeps
<1>3. QED
  BY <1>1, <1>2, StepAppTypes, StepUndisturbed, StepBusy DEF ProgramInv

(***************************************************************************)
(* Wherever SysTick falls, main's two threads are objects 2 and 3, main has *)
(* the handle of thread_1 before it joins, a worker inside the spin lock    *)
(* keeps the core (main.c:168-182, 190-201), and the driver's mark is the   *)
(* transmitting thread's.                                                  *)
(***************************************************************************)
THEOREM ProgramHolds == AppSpec => []ProgramInv
BY ProgramInit, StepProgram, PTL DEF AppSpec

(***************************************************************************)
(* The program of main.c uses the kernel as Kernel's clients do, wherever   *)
(* SysTick falls, so that what KernelProofs shows of any client holds of   *)
(* it: the handle that main joins is the one thread_create gave it.        *)
(***************************************************************************)
THEOREM ProgramUsesKernel == AppSpec => UsesKernel
<1>1. AppInit => Init
  BY DEF AppInit
<1>2. ProgramInv /\ [AppNext]_<<vars, app>> => [Next]_vars
  BY StepUsesKernel
<1>3. QED
  BY <1>1, <1>2, ProgramHolds, PTL DEF AppSpec, UsesKernel, Spec

(***************************************************************************)
(* The unprotected test of the driver's busy mark never lets two threads   *)
(* transmit, wherever SysTick falls: one of the two would be a worker, and  *)
(* from its test to the end of its transmission it has the core.           *)
(***************************************************************************)
THEOREM OneSenderOnly == AppSpec => []OneSender
<1>1. ProgramInv => OneSender
  BY DEF ProgramInv, Busy, OneSender
<1>2. QED
  BY <1>1, ProgramHolds, PTL

(***************************************************************************)
(* A write is refused only to a worker that interrupted main while it was   *)
(* transmitting; main's own writes never are.                              *)
(***************************************************************************)
THEOREM OnlyMainIsInTheWay == AppSpec => []RefusedBehindMain
<1>1. ProgramInv => RefusedBehindMain
  <2> SUFFICES ASSUME ProgramInv, NEW t \in Thread, Here(t, "print"),
                      sending # NULL
               PROVE  sending = Main /\ t # Main
    BY DEF RefusedBehindMain
  <2>1. sending \in Thread /\ at[sending] = "tx" /\ sending # Idle
    BY DEF ProgramInv, AppTypeOK, Busy
  <2>2. cur = t /\ at[t] = "print"
    BY DEF Here, At
  <2>3. sending \notin Workers
    BY <2>1, <2>2 DEF ProgramInv, Undisturbed, InLock
  <2>4. sending = Main
    BY <2>1, <2>3 DEF Thread, Workers, Main, Idle
  <2>5. QED
    BY <2>1, <2>2, <2>4
<1>2. QED
  BY <1>1, ProgramHolds, PTL
-----------------------------------------------------------------------------
(* The queue of the program, when no tick falls into main's thread_create.  *)

(* Who runs and who waits behind it: while thread_1 runs, on object 2, main *)
(* is the last of the queue.                                               *)
Order(t, s) ==
    \/ t = Main /\ s \in {<<>>, <<2>>, <<3>>, <<2, 3>>}
    \/ t = 2 /\ s \in {<<Main>>, <<3, Main>>}
    \/ t = 3 /\ s \in {<<Main>>, <<Main, 2>>}

Ordered == \E f, r \in Seq(Queued) :
              FreeHolds(f) /\ ReadyHolds(r) /\ Order(Running, Shown(r))

(* Only main joins, and only object 2.                                     *)
Waiters ==
    /\ \A t \in Thread \ {2} : waitq[t] = EmptyList
    /\ waitq[2] \in {EmptyList, [head |-> Main, tail |-> Main]}
    /\ pc[Main] \in {"join", "joined"} => node[Main] = 2

Others ==
    /\ creates < 2 => pc[3] = "unused"
    /\ pc[cur] = "resume" => primask
    /\ \A t \in Thread \ {Main} : pc[t] # "assert_none"

QueueInv == Posts /\ Ordered /\ Waiters /\ Others

LEMMA QueueInit == AppInit => QueueInv
<1> SUFFICES ASSUME AppInit PROVE QueueInv
  OBVIOUS
<1> USE ProgramFacts
<1>1. Init /\ Posts /\ Pools
  BY InitPools DEF AppInit
<1>2. /\ cur = Main /\ ~pendsv /\ ready = EmptyList /\ creates = 0
      /\ pc[Main] = "run" /\ pc[3] = "unused" /\ waitq = [t \in Thread |-> EmptyList]
      /\ \A t \in Thread : pc[t] \in {"run", "idle", "unused"}
  <2>1. 3 \in Thread /\ 3 # Main /\ 3 # Idle
    BY DEF Idle
  <2>2. QED
    BY <1>1, <2>1 DEF Init
<1>3. Ordered
  <2>1. PICK f \in Seq(Queued), r \in Seq(Queued) : FreeHolds(f) /\ ReadyHolds(r)
    BY <1>1 DEF Pools
  <2>2. r = <<>>
    <3> SUFFICES ASSUME r # <<>> PROVE FALSE
      OBVIOUS
    <3>1. ready.head = r[1] /\ r[1] \in Queued
      BY <1>2, <2>1 DEF ReadyHolds, Holds
    <3>2. QED
      BY <1>2, <3>1, ThreadFacts DEF EmptyList
  <2>3. Running = Main /\ Shown(r) = <<>>
    BY <1>2, <2>2 DEF Running, Shown
  <2>4. QED
    BY <2>1, <2>3 DEF Ordered, Order
<1>4. Waiters /\ Others
  BY <1>2 DEF Waiters, Others
<1>5. QED
  BY <1>1, <1>3, <1>4 DEF QueueInv

(* Sequences of one and of two.                                            *)
LEMMA ShortSequences ==
    ASSUME NEW a, NEW b
    PROVE  /\ Append(<<>>, a) = <<a>> /\ Append(<<a>>, b) = <<a, b>>
           /\ Tail(<<a>>) = <<>> /\ Tail(<<a, b>>) = <<b>>
           /\ <<a>>[1] = a /\ <<a, b>>[1] = a /\ <<a, b>>[2] = b
           /\ Elems(<<a>>) = {a} /\ Elems(<<a, b>>) = {a, b}
<1> DEFINE S == {a, b}
           q == Append(<<a>>, b)
<1>1. /\ <<a>> \in Seq(S) /\ Len(<<a>>) = 1 /\ <<a>>[1] = a /\ a \in S /\ b \in S
      /\ <<a, b>> \in Seq(S) /\ Len(<<a, b>>) = 2
      /\ <<a, b>>[1] = a /\ <<a, b>>[2] = b
  OBVIOUS
<1> HIDE DEF S
<1>2. q = <<a, b>>
  <2>1. /\ q \in Seq(S) /\ Len(q) = Len(<<a>>) + 1 /\ q[Len(<<a>>) + 1] = b
        /\ \A i \in 1 .. Len(<<a>>) : q[i] = <<a>>[i]
    BY <1>1, AppendProperties
  <2> HIDE DEF q
  <2>2. Len(q) = 2 /\ \A i \in 1 .. Len(q) : q[i] = <<a, b>>[i]
    BY <1>1, <2>1
  <2>3. QED
    BY <1>1, <2>1, <2>2, SeqEqual
<1>3. DOMAIN <<a>> = 1 .. 1 /\ DOMAIN <<a, b>> = 1 .. 2
  OBVIOUS
<1>4. Elems(<<a>>) = {a} /\ Elems(<<a, b>>) = {a, b}
  BY <1>1, <1>3 DEF Elems
<1>5. Append(<<>>, a) = <<a>> /\ Tail(<<a>>) = <<>> /\ Tail(<<a, b>>) = <<b>>
  OBVIOUS
<1>6. QED
  BY <1>1, <1>2, <1>4, <1>5

(* The head of the queue gets the core, and the thread that had it goes     *)
(* behind the others, or ends.                                             *)
LEMMA Rotated ==
    ASSUME NEW t, NEW s, Order(t, s), s # <<>>
    PROVE  /\ Order(s[1], Append(Tail(s), t))
           /\ t # Main => Order(s[1], Tail(s))
<1>1. ASSUME NEW x, s = <<x>>
      PROVE  s[1] = x /\ Tail(s) = <<>> /\ Append(Tail(s), t) = <<t>>
  <2>1. <<x>>[1] = x /\ Tail(<<x>>) = <<>> /\ Append(<<>>, t) = <<t>>
    BY ShortSequences
  <2>2. QED
    BY <1>1, <2>1
<1>2. ASSUME NEW x, NEW y, s = <<x, y>>
      PROVE  s[1] = x /\ Tail(s) = <<y>> /\ Append(Tail(s), t) = <<y, t>>
  <2>1. <<x, y>>[1] = x /\ Tail(<<x, y>>) = <<y>> /\ Append(<<y>>, t) = <<y, t>>
    BY ShortSequences
  <2>2. QED
    BY <1>2, <2>1
<1>3. CASE t = Main /\ s = <<2>>
  BY <1>1, <1>3 DEF Order
<1>4. CASE t = Main /\ s = <<3>>
  BY <1>1, <1>4 DEF Order
<1>5. CASE t = Main /\ s = <<2, 3>>
  BY <1>2, <1>5 DEF Order
<1>6. CASE t = 2 /\ s = <<Main>>
  BY <1>1, <1>6 DEF Order
<1>7. CASE t = 2 /\ s = <<3, Main>>
  BY <1>2, <1>7 DEF Order
<1>8. CASE t = 3 /\ s = <<Main>>
  BY <1>1, <1>8 DEF Order
<1>9. CASE t = 3 /\ s = <<Main, 2>>
  BY <1>2, <1>9 DEF Order
<1>10. QED
  BY <1>3, <1>4, <1>5, <1>6, <1>7, <1>8, <1>9 DEF Order

(* main puts a new thread behind the others; object 3 is linked once and    *)
(* after object 2.                                                         *)
LEMMA Linked ==
    ASSUME NEW s, Order(Main, s), NEW n, n \notin Elems(s),
           n = 3 \/ (n = 2 /\ 3 \notin Elems(s))
    PROVE  Order(Main, Append(s, n))
<1>1. Append(<<>>, n) = <<n>> /\ Append(<<2>>, n) = <<2, n>>
  BY ShortSequences
<1>2. Elems(<<2>>) = {2} /\ Elems(<<3>>) = {3} /\ Elems(<<2, 3>>) = {2, 3}
  BY ShortSequences
<1>3. s = <<>> \/ (s = <<2>> /\ n = 3)
  BY <1>2, ProgramFacts DEF Order
<1>4. QED
  BY <1>1, <1>3 DEF Order

LEMMA TurnOrder ==
    ASSUME NEW r, NEW q, Turn(r, q), Order(Running, Shown(r)),
           pc[cur] \in Linking =>
             /\ Running = Main
             /\ \/ node[cur] = 3
                \/ node[cur] = 2 /\ 3 \notin Elems(Shown(r))
    PROVE  Order(Running, Shown(q))'
<1>1. Main \notin Workers
  BY ProgramFacts
<1>2. Order(Running', Shown(q)')
  BY <1>1, Rotated, Linked DEF Turn
<1>3. QED
  BY <1>2 DEF Order

(* What a step does to it is what the scheduler promises.                  *)
Turns == \E r \in Seq(Queued) : ReadyHolds(r) /\ Moved(r)

(* Whoever is being linked, main does it.                                  *)
LEMMA LinkingIsMains ==
    ASSUME ProgramInv, QueueInv, NEW r, ReadyHolds(r), pc[cur] \in Linking
    PROVE  /\ Running = Main
           /\ node[cur] = 3 \/ (node[cur] = 2 /\ 3 \notin Elems(Shown(r)))
<1> USE ProgramFacts DEF ProgramInv, QueueInv
<1>1. pc[cur] \in Creating /\ pc[cur] \notin Calm
  BY DEF Linking, Creating, Calm
<1>2. cur = Main /\ Running = Main
  BY <1>1 DEF Paths, Posts, Running, TypeOK
<1>3. creates \in {1, 2} /\ node[cur] = creates + 1
  BY <1>1, <1>2 DEF Objects, TypeOK
<1>4. CASE creates = 1
  <2>1. node[cur] = 2 /\ 3 \in Spare
    BY <1>3, <1>4 DEF Others, Spare
  <2>2. 3 \notin Elems(r)
    BY <2>1 DEF ReadyHolds, Alive
  <2>3. Elems(<<node[cur]>>) = {node[cur]}
    BY ShortSequences
  <2>4. QED
    BY <1>2, <2>1, <2>2, <2>3 DEF Shown
<1>5. QED
  BY <1>2, <1>3, <1>4

LEMMA QueueRegular ==
    ASSUME ProgramInv, QueueInv, [Regular]_vars
    PROVE  Posts' /\ Ordered' /\ Turns
<1>1. PICK f \in Seq(Queued), r \in Seq(Queued) :
         FreeHolds(f) /\ ReadyHolds(r) /\ Order(Running, Shown(r))
  BY DEF QueueInv, Ordered
<1>2. Posts' /\ Moved(r)
  BY <1>1, StepPools DEF ProgramInv, QueueInv
<1>3. PICK g \in Seq(Queued), q \in Seq(Queued) :
         FreeHolds(g)' /\ ReadyHolds(q)' /\ Turn(r, q)
  BY <1>2 DEF Moved
<1>4. Order(Running, Shown(q))'
  BY <1>1, <1>3, LinkingIsMains, TurnOrder
<1>5. QED
  BY <1>1, <1>2, <1>3, <1>4 DEF Ordered, Turns

(* The write of main's thread_join to thread_1's wait queue is to main's    *)
(* own link, and main, in the core, is in no pool.                         *)
LEMMA QueueJoinLock ==
    ASSUME ProgramInv, QueueInv, NEW t \in Thread, JoinLock(t)
    PROVE  Posts' /\ Ordered' /\ Turns
<1> USE ProgramFacts DEF ProgramInv, QueueInv
<1>1. PICK f \in Seq(Queued), r \in Seq(Queued) :
         FreeHolds(f) /\ ReadyHolds(r) /\ Order(Running, Shown(r))
  BY DEF Ordered
<1>2. pc[t] = "join" /\ t = cur
  BY DEF JoinLock, At
<1>3. t = Main /\ node[t] = 2
  BY <1>2 DEF Paths, Waiters
<1>4. waitq[node[t]].head # NULL => waitq[node[t]].tail = t
  BY <1>3 DEF Waiters, EmptyList
<1>5. Posts' /\ Moved(r)
  BY <1>1, <1>4, JoinLockPools
<1>6. PICK g \in Seq(Queued), q \in Seq(Queued) :
         FreeHolds(g)' /\ ReadyHolds(q)' /\ Turn(r, q)
  BY <1>5 DEF Moved
<1>7. Order(Running, Shown(q))'
  BY <1>1, <1>2, <1>6, TurnOrder DEF Linking
<1>8. QED
  BY <1>1, <1>5, <1>6, <1>7 DEF Ordered, Turns

(* thread_1 resumes main, which is the last of the ready pool already.      *)
LEMMA QueueEndResume ==
    ASSUME ProgramInv, QueueInv, NEW t \in Thread, EndResume(t)
    PROVE  Posts' /\ Ordered' /\ Turns
<1> USE ProgramFacts DEF ProgramInv, QueueInv
<1>1. PICK f \in Seq(Queued), r \in Seq(Queued) :
         FreeHolds(f) /\ ReadyHolds(r) /\ Order(Running, Shown(r))
  BY DEF Ordered
<1>2. /\ pc[cur] = "resume" /\ t = cur /\ ~pendsv /\ waitq[t].head # NULL
  BY DEF EndResume, At
<1>3. t = 2 /\ waitq[t].head = Main /\ Running = 2
  BY <1>2 DEF Waiters, EmptyList, Running
<1>4. Shown(r) = r
  BY <1>2 DEF Shown
<1>5. r \in {<<Main>>, <<3, Main>>}
  BY <1>1, <1>3, <1>4 DEF Order
<1>6. r # <<>> /\ r[Len(r)] = Main
  <2>1. /\ <<Main>> # <<>> /\ Len(<<Main>>) = 1 /\ <<Main>>[1] = Main
        /\ <<3, Main>> # <<>> /\ Len(<<3, Main>>) = 2 /\ <<3, Main>>[2] = Main
    OBVIOUS
  <2>2. QED
    BY <1>5, <2>1
<1>7. Posts' /\ Moved(r)
  BY <1>1, <1>3, <1>6, EndResumePools
<1>8. PICK g \in Seq(Queued), q \in Seq(Queued) :
         FreeHolds(g)' /\ ReadyHolds(q)' /\ Turn(r, q)
  BY <1>7 DEF Moved
<1>9. Order(Running, Shown(q))'
  BY <1>1, <1>2, <1>8, TurnOrder DEF Linking
<1>10. QED
  BY <1>1, <1>7, <1>8, <1>9 DEF Ordered, Turns

(* An exception finds the thread that has the core outside thread_create,   *)
(* and no put fails in it or in a locked section.                          *)
LEMMA InterruptRegular ==
    ASSUME ~TickInCreate, ProgramInv, QueueInv, Interrupt
    PROVE  Regular /\ ~Halt
<1> USE ProgramFacts DEF ProgramInv, QueueInv
<1>1. ~primask => pc[cur] \in Calm
  <2>1. CASE cur = Main
    BY <2>1 DEF Interrupt, Calm
  <2>2. CASE cur # Main
    BY <2>2 DEF Posts, Paths, Others, TypeOK
  <2>3. QED
    BY <2>1, <2>2
<1>2. Pools
  BY DEF Ordered, Pools
<1>3. ~Halt
  <2> SUFFICES ASSUME LockedPutFails PROVE FALSE
    BY DEF Halt
  <2>1. /\ At(cur, "join")
        /\ RequeueFails(TailPutLinks(waitq[node[cur]], next, cur))
    BY <1>1, <1>2, PutsSucceed
  <2>2. cur = Main /\ node[cur] = 2
    BY <2>1 DEF At, Paths, Waiters, TypeOK
  <2>3. waitq[node[cur]].head # NULL => waitq[node[cur]].tail = cur
    BY <2>2 DEF Waiters, EmptyList
  <2>4. QED
    BY <1>2, <2>1, <2>3, JoinSucceeds
<1>4. QED
  BY <1>1, <1>3 DEF Interrupt, Tick, SysTick, Regular

LEMMA StepQueue ==
    ASSUME ~TickInCreate, ProgramInv, QueueInv, [AppNext]_<<vars, app>>
    PROVE  Posts' /\ Ordered' /\ Turns
<1>1. CASE Interrupt
  BY <1>1, InterruptRegular, QueueRegular
<1>2. CASE UNCHANGED vars
  BY <1>2, QueueRegular
<1>3. ASSUME NEW t \in Thread, Uses(t) PROVE Posts' /\ Ordered' /\ Turns
  <2>1. KernelStep(t) \/ ClientStep(t)
    BY <1>3, ProgramFacts DEF Uses, ClientStep
  <2>2. CASE ~JoinLock(t) /\ ~EndResume(t)
    BY <2>1, <2>2, QueueRegular DEF Regular
  <2>3. QED
    BY <2>2, QueueJoinLock, QueueEndResume
<1>4. QED
  BY <1>1, <1>2, <1>3, StepUses

(* What a step of the program in the kernel leaves alone.                  *)
LEMMA UsesSteps ==
    ASSUME ProgramInv, QueueInv, NEW t \in Thread, Uses(t)
    PROVE  /\ t = cur /\ cur' = cur /\ creates' \in {creates, creates + 1}
           /\ pc[t] # "unused" /\ (pc'[t] = "resume" => primask')
           /\ pc'[t] = "assert_none" => t = Main
           /\ \A u \in Thread \ {t} :
                 \/ pc'[u] = pc[u]
                 \/ /\ t = Main /\ u = creates + 1 /\ pc'[u] = "run"
                    /\ creates' = creates
           /\ ~Join(Main, 2) /\ ~JoinLock(t) /\ ~EndResume(t) =>
                 /\ waitq' = waitq /\ pc'[t] \notin {"join", "joined"}
                 /\ t # Main => pc'[Main] = pc[Main] /\ node'[Main] = node[Main]
<1> USE ProgramFacts DEF ProgramInv, QueueInv
<1>1. CASE CreateStep(t)
  <2>1. pc[t] \in Creating /\ t = cur /\ UNCHANGED <<cur, creates, waitq>>
    BY <1>1 DEF CreateStep, CreateUnlink, CreateEmpty, CreateUntail,
       CreateFollow, CreateAdvance, CreateCheck, CreateInit, CreateDetach,
       CreateTest, CreateFirst, CreateLink, CreateNoTail, CreateSplice,
       CreateSetTail, CreateLoad, CreateMark, CreateReload, CreateStart,
       At, Creating, cpu, pools, client
  <2>2. t = Main /\ node[Main] = creates + 1
    BY <2>1 DEF Paths, Objects
  <2>3. CASE CreateInit(t)
    <3>1. pc' = [pc EXCEPT ![creates + 1] = "run", ![Main] = "detach"]
      BY <2>2, <2>3 DEF CreateInit
    <3>2. pc'[Main] = "detach" /\ \A u \in Thread \ {Main} :
             pc'[u] = pc[u] \/ (u = creates + 1 /\ pc'[u] = "run")
      BY <3>1 DEF TypeOK
    <3>3. QED
      BY <2>1, <2>2, <3>2 DEF Creating
  <2>4. CASE ~CreateInit(t)
    <3>1. \E l \in (Creating \ {"unlink"})
                    \cup {"run", "assert_none", "assert_tail", "halted"} :
             pc' = [pc EXCEPT ![t] = l]
      BY <1>1, <2>4 DEF CreateStep, CreateUnlink, CreateEmpty, CreateUntail,
         CreateFollow, CreateAdvance, CreateCheck, CreateDetach, CreateTest,
         CreateFirst, CreateLink, CreateNoTail, CreateSplice, CreateSetTail,
         CreateLoad, CreateMark, CreateReload, CreateStart,
         Goto, Creating
    <3>2. QED
      BY <2>1, <2>2, <3>1 DEF Creating, TypeOK
  <2>5. QED
    BY <2>3, <2>4
<1>2. CASE MaskIrq(t) \/ UnmaskIrq(t)
  BY <1>2 DEF MaskIrq, UnmaskIrq, At, pools, client, locals
<1>3. CASE Cleanup(t) \/ EndLoad(t) \/ EndMark(t) \/ EndLock(t)
           \/ EndSwitch(t) \/ EndReturned(t) \/ JoinReturn(t)
  <2>1. /\ t = cur /\ pc[t] # "unused"
        /\ UNCHANGED <<cur, creates, waitq>>
        /\ \A u \in Thread \ {t} : node'[u] = node[u]
    BY <1>3
       DEF Cleanup, EndLoad, EndMark, EndLock, EndSwitch, EndReturned,
           JoinReturn, At, pools,
       cpu, client, locals, TypeOK
  <2>2. \E l \in {"endload", "endmark", "lost", "end", "resume", "dead",
                "assert_false", "run"} :
           pc' = [pc EXCEPT ![t] = l] /\ (l = "resume" => primask')
    BY <1>3
       DEF Cleanup, EndLoad, EndMark, EndLock, EndSwitch, EndReturned,
           JoinReturn, Goto
  <2>3. QED
    BY <2>1, <2>2 DEF TypeOK
<1>4. CASE JoinLock(t) \/ EndResume(t)
  <2>1. /\ t = cur /\ pc[t] \in {"join", "resume"}
        /\ UNCHANGED <<cur, creates, primask>>
    BY <1>4 DEF JoinLock, EndResume, At, cpu, client
  <2>2. pc' = pc \/ pc' = [pc EXCEPT ![t] = "joined"]
    BY <1>4 DEF JoinLock, EndResume, Goto
  <2>3. QED
    BY <1>4, <2>1, <2>2 DEF TypeOK, Others
<1>5. CASE t = Main /\ Create(Main)
  <2>1. /\ t = cur /\ pc[t] = "run" /\ creates' = creates + 1
        /\ UNCHANGED <<cur, waitq>>
    BY <1>5 DEF Create, At, pools, cpu
  <2>2. pc' = pc \/ pc' = [pc EXCEPT ![t] = "unlink"]
    BY <1>5 DEF Create, Goto
  <2>3. QED
    BY <1>5, <2>1, <2>2 DEF TypeOK
<1>6. CASE t = Main /\ Join(Main, 2)
  <2>1. t = cur /\ pc[t] = "run" /\ UNCHANGED <<cur, creates>>
        /\ pc' = [pc EXCEPT ![t] = "join"]
    BY <1>6 DEF Join, At, cpu, client, Goto
  <2>2. QED
    BY <1>6, <2>1 DEF TypeOK
<1>7. QED
  BY <1>1, <1>2, <1>3, <1>4, <1>5, <1>6 DEF Uses, KernelStep, EndStep

(* The wait queues: only object 2 is ever joined.                          *)
LEMMA StepWaiters ==
    ASSUME ProgramInv, QueueInv,
           \/ Interrupt \/ UNCHANGED vars
           \/ \E t \in Thread : Uses(t)
    PROVE  Waiters'
<1> USE ProgramFacts DEF ProgramInv, QueueInv
<1>1. CASE Interrupt \/ UNCHANGED vars
  <2>1. /\ UNCHANGED <<waitq, node>>
        /\ pc'[Main] \in {pc[Main], "halted"}
    BY <1>1 DEF Interrupt, Tick, SysTick, SysTickIdle, PendSV, Halt, Goto, vars,
                pools, locals, TypeOK
  <2>2. QED
    BY <2>1 DEF Waiters
<1>2. CASE Join(Main, 2)
  <2>1. /\ UNCHANGED waitq /\ node' = [node EXCEPT ![Main] = 2]
    BY <1>2 DEF Join, pools
  <2>2. QED
    BY <2>1 DEF Waiters, TypeOK
<1>3. ASSUME NEW t \in Thread, JoinLock(t) PROVE Waiters'
  <2>1. /\ pc[t] = "join" /\ UNCHANGED node
        /\ waitq' = [waitq EXCEPT ![node[t]] = TailPut(waitq[node[t]], t)]
    BY <1>3 DEF JoinLock, At, locals
  <2>2. t = Main /\ node[t] = 2
    BY <2>1 DEF Paths, Waiters
  <2>3. TailPut(waitq[2], Main) = [head |-> Main, tail |-> Main]
    <3>1. CASE waitq[2] = EmptyList
      BY <3>1 DEF TailPut, EmptyList
    <3>2. CASE waitq[2] = [head |-> Main, tail |-> Main]
      BY <3>2 DEF TailPut
    <3>3. QED
      BY <3>1, <3>2 DEF Waiters
  <2>4. /\ waitq'[2] = [head |-> Main, tail |-> Main]
        /\ \A u \in Thread \ {2} : waitq'[u] = waitq[u]
    BY <2>1, <2>2, <2>3 DEF TypeOK
  <2>5. QED
    BY <2>1, <2>2, <2>4 DEF Waiters
<1>4. ASSUME NEW t \in Thread, EndResume(t) PROVE Waiters'
  <2>1. /\ waitq[t].head # NULL /\ UNCHANGED <<node, pc>>
        /\ waitq' = [waitq EXCEPT ![t] = HeadGet(waitq[t], next)]
    BY <1>4 DEF EndResume, locals
  <2>2. t = 2 /\ waitq[t] = [head |-> Main, tail |-> Main]
    BY <2>1 DEF Waiters, EmptyList
  <2>3. HeadGet(waitq[t], next) = EmptyList
    BY <2>2 DEF HeadGet
  <2>4. /\ waitq'[2] = EmptyList
        /\ \A u \in Thread \ {2} : waitq'[u] = waitq[u]
    BY <2>1, <2>2, <2>3 DEF TypeOK
  <2>5. QED
    BY <2>1, <2>4 DEF Waiters
<1>5. ASSUME NEW t \in Thread, Uses(t),
             ~Join(Main, 2), ~JoinLock(t), ~EndResume(t)
      PROVE  Waiters'
  <2>1. /\ waitq' = waitq /\ pc'[t] \notin {"join", "joined"}
        /\ t # Main => pc'[Main] = pc[Main] /\ node'[Main] = node[Main]
    BY <1>5, UsesSteps
  <2>2. QED
    BY <2>1 DEF Waiters
<1>6. QED
  BY <1>1, <1>2, <1>3, <1>4, <1>5

LEMMA StepOthers ==
    ASSUME ~TickInCreate, ProgramInv, QueueInv,
           \/ Interrupt \/ UNCHANGED vars
           \/ \E t \in Thread : Uses(t)
    PROVE  Others'
<1> USE ProgramFacts DEF ProgramInv, QueueInv
<1>1. CASE Interrupt \/ UNCHANGED vars
  <2>1. ~Halt \/ UNCHANGED vars
    BY <1>1, InterruptRegular
  <2>2. /\ UNCHANGED <<pc, primask, creates>>
        /\ cur' = cur \/ (pendsv /\ cur' = nxt)
    BY <1>1, <2>1 DEF Interrupt, Tick, SysTick, SysTickIdle, PendSV, vars, cpu,
                      client
  <2>3. pc'[cur'] = "resume" => primask'
    BY <2>2, PoolFacts DEF Others, Posts, Running, Calm
  <2>4. QED
    BY <2>2, <2>3 DEF Others
<1>2. ASSUME NEW t \in Thread, Uses(t) PROVE Others'
  <2>1. /\ t = cur /\ cur' = cur /\ creates' \in {creates, creates + 1}
        /\ pc[t] # "unused" /\ (pc'[t] = "resume" => primask')
        /\ pc'[t] = "assert_none" => t = Main
        /\ \A u \in Thread \ {t} :
              \/ pc'[u] = pc[u]
              \/ t = Main /\ u = creates + 1 /\ pc'[u] = "run" /\ creates' = creates
    BY <1>2, UsesSteps
  <2>2. creates' < 2 => pc'[3] = "unused"
    BY <2>1 DEF Others, TypeOK
  <2>3. QED
    BY <2>1, <2>2 DEF Others
<1>3. QED
  BY <1>1, <1>2

LEMMA QueueHolds ==
    ASSUME ~TickInCreate
    PROVE  AppSpec => []QueueInv
<1>1. AppInit => QueueInv
  BY QueueInit
<1>2. ProgramInv /\ QueueInv /\ [AppNext]_<<vars, app>> => QueueInv'
  <2> SUFFICES ASSUME ProgramInv, QueueInv, [AppNext]_<<vars, app>>
               PROVE  QueueInv'
    OBVIOUS
  <2>1. Posts' /\ Ordered'
    BY StepQueue
  <2>2. Waiters' /\ Others'
    BY StepUses, StepWaiters, StepOthers
  <2>3. QED
    BY <2>1, <2>2 DEF QueueInv
<1>3. QED
  BY <1>1, <1>2, ProgramHolds, PTL DEF AppSpec

(***************************************************************************)
(* main.c survives its own misuse of thread_join: with no tick inside its   *)
(* two calls of thread_create, no list ever has a null tail when a node is  *)
(* put behind it, and no ended thread gets the core again (thread.c:91,     *)
(* slist.c:99), although main is in a wait queue and in the ready pool at   *)
(* once whenever it joins.                                                 *)
(***************************************************************************)
THEOREM ProgramAssertionsHold ==
    ASSUME ~TickInCreate
    PROVE  AppSpec => [](NeverBack /\ TailsSet)
<1>1. ProgramInv /\ QueueInv => NeverBack /\ TailsSet
  BY
     DEF ProgramInv, QueueInv, TypeOK, Posts, NeverBack, TailsSet, Calm,
         Creating
<1>2. QED
  BY <1>1, ProgramHolds, QueueHolds, PTL

(***************************************************************************)
(* No live thread of the program is forgotten by the scheduler: a walk      *)
(* along the links of the ready pool finds every one that does not run and  *)
(* is not being created (scheduler.c:32-38).                               *)
(***************************************************************************)
THEOREM ProgramKeepsThreads ==
    ASSUME ~TickInCreate
    PROVE  AppSpec => []ThreadsKept
<1>1. ProgramInv /\ QueueInv => ThreadsKept
  <2> SUFFICES ASSUME ProgramInv, QueueInv,
                      NEW t \in Placed, t # Running
               PROVE  t \in Elems(Members(ready))
    BY DEF ThreadsKept
  <2>1. PICK r \in Seq(Queued) : ReadyHolds(r)
    BY DEF QueueInv, Ordered
  <2>2. Members(ready) = Shown(r)
    BY <2>1, ReadyShown DEF Shows, ProgramInv, QueueInv
  <2>3. t \in Alive /\ t \notin BeingCreated
    BY DEF Placed, Alive, Spare
  <2>4. pc[cur] \in Linking => t # node[cur]
    BY <2>3 DEF BeingCreated, Linking, ProgramInv, TypeOK
  <2>5. t \in Elems(r)
    BY <2>1, <2>3, <2>4 DEF ReadyHolds
  <2>6. r # <<>>
    BY <2>5 DEF Elems
  <2>7. QED
    BY <2>2, <2>5, <2>6 DEF Shown
<1>2. QED
  BY <1>1, ProgramHolds, QueueHolds, PTL

(***************************************************************************)
(* The program implements the round-robin scheduler: main is in a wait      *)
(* queue and in the ready pool at once whenever it joins, and is resumed    *)
(* onto the pool it is in, and yet the queue along the links of the ready   *)
(* pool only ever turns, grows by a new thread or shrinks by an ended one.  *)
(***************************************************************************)
THEOREM ProgramIsRoundRobin ==
    ASSUME ~TickInCreate
    PROVE  AppSpec => ImplementsRoundRobin
<1>1. ProgramInv /\ QueueInv => TypeOK /\ Posts /\ Shows
  BY ReadyShown DEF ProgramInv, QueueInv
<1>2. AppInit /\ Shows => Abstract!Init
  BY InitRoundRobin DEF AppInit
<1>3. /\ ProgramInv /\ QueueInv /\ TypeOK /\ Posts /\ Shows /\ Shows'
      /\ [AppNext]_<<vars, app>>
      => [Abstract!Next]_(Abstract!vars)
  BY StepQueue, MovedRoundRobin DEF Turns
<1>4. QED
  BY <1>1, <1>2, <1>3, ProgramHolds, QueueHolds, PTL
     DEF AppSpec, ImplementsRoundRobin, Abstract!Spec
=============================================================================
