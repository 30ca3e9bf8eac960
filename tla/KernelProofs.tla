---------------------------- MODULE KernelProofs ----------------------------
(***************************************************************************)
(* The kernel's invariants under any clients: any number of threads, racing*)
(* thread_create calls and any joins.                                      *)
(*                                                                         *)
(* Locals strengthens TypeOK: a switch is pending only towards a thread,   *)
(* and a thread inside thread_create or thread_join holds a thread object, *)
(* never the idle thread's.                                                *)
(***************************************************************************)
EXTENDS Kernel, SListProofs

Creating == {"unlink", "empty", "untail", "follow", "advance", "check", "init",
             "detach", "test", "first", "link", "splice", "settail",
             "load", "mark", "reload", "start"}

Locals ==
    /\ pendsv => nxt # NULL
    /\ \A t \in Thread :
          pc[t] \in Creating \cup {"join", "joined"} => node[t] \in Queued

-----------------------------------------------------------------------------
(* The main thread may be queued, the idle thread may not.                *)
LEMMA ThreadFacts ==
    /\ Main \in Queued /\ Idle \in Thread /\ Idle \notin Queued
    /\ Workers \subseteq Queued /\ Queued \subseteq Thread
    /\ NULL \notin Thread /\ Thread \subseteq Nat
    /\ 2 \in Workers /\ THREAD_MAX_NUM + 1 \in Workers
BY KernelAssumption DEF Main, Idle, Workers, Thread, Queued

(* thread_init establishes the types.                                     *)
LEMMA InitTypes == Init => TypeOK /\ Locals
<1> SUFFICES ASSUME Init PROVE TypeOK /\ Locals
  OBVIOUS
<1> USE KernelAssumption, ThreadFacts
<1>1. /\ free \in Lists(Queued) /\ ready \in Lists(Queued)
      /\ waitq \in [Thread -> Lists(Queued)]
  BY DEF Init, Lists, EmptyList
<1>2. next \in [Thread -> Queued \cup {NULL}]
  <2> DEFINE succ(t) == IF t \in Workers /\ t + 1 \in Workers
                           THEN t + 1 ELSE NULL
  <2>1. \A t \in Thread : succ(t) \in Queued \cup {NULL}
    OBVIOUS
  <2>2. next = [t \in Thread |-> succ(t)]
    BY DEF Init
  <2> HIDE DEF succ
  <2>3. QED
    BY <2>1, <2>2
<1>3. /\ status \in [Thread -> SUBSET Flags]
      /\ reg \in [Thread -> SUBSET Flags]
  BY DEF Init, Flags
<1>4. /\ pc \in [Thread -> Labels] /\ pc[Idle] = "idle"
      /\ \A t \in Thread : pc[t] \in {"run", "idle", "unused"}
  BY DEF Init, Labels, Main, Idle
<1>5. /\ cur \in Thread /\ nxt \in Thread \cup {NULL}
      /\ node \in [Thread -> Queued \cup {NULL}]
      /\ ptr \in [Thread -> Queued \cup {NULL}]
      /\ handles \subseteq Queued
  BY DEF Init
<1>6. pendsv \in BOOLEAN /\ primask \in BOOLEAN
  BY DEF Init
<1>7. creates \in 0 .. MaxCreates
  BY DEF Init
<1>8. TypeOK
  BY <1>1, <1>2, <1>3, <1>4, <1>5, <1>6, <1>7 DEF TypeOK
<1>9. Locals
  BY <1>4 DEF Init, Locals, Creating
<1>10. QED
  BY <1>8, <1>9

(* ready_next_get: what it returns and what it leaves. *)
LEMMA PoppedTypes ==
    ASSUME TypeOK, NEW n \in [Thread -> Queued \cup {NULL}]
    PROVE  /\ ReadyNext \in Thread
           /\ Popped(n) \in Lists(Queued)
           /\ Detached(n) \in [Thread -> Queued \cup {NULL}]
<1> USE ThreadFacts
<1>1. ready \in Lists(Queued)
  BY DEF TypeOK
<1>2. ready.head \in Queued \cup {NULL}
  BY <1>1 DEF Lists
<1>3. ReadyNext \in Thread
  BY <1>2 DEF ReadyNext
<1>4. Popped(n) \in Lists(Queued)
  BY <1>1, HeadGetType DEF Popped
<1>5. Detached(n) \in [Thread -> Queued \cup {NULL}]
  BY <1>2 DEF Detached
<1>6. QED
  BY <1>3, <1>4, <1>5

(* swap_threads keeps the type of the status words.                       *)
LEMMA SwapType ==
    ASSUME NEW st \in [Thread -> SUBSET Flags], NEW s, NEW t
    PROVE  Swap(st, s, t) \in [Thread -> SUBSET Flags]
BY DEF Swap, Flags

(* schedule(false) with swap_threads. *)
LEMMA RotateTypes ==
    ASSUME TypeOK, NEW n \in [Thread -> Queued \cup {NULL}],
           NEW st \in [Thread -> SUBSET Flags], Rotate(n, st)
    PROVE  /\ ready' \in Lists(Queued)
           /\ next' \in [Thread -> Queued \cup {NULL}]
           /\ status' \in [Thread -> SUBSET Flags]
           /\ nxt' \in Thread /\ pendsv' = TRUE
<1> USE ThreadFacts
<1>1. nxt' \in Thread /\ pendsv' = TRUE
  BY PoppedTypes DEF Rotate
<1>2. CASE cur = Idle
  BY <1>1, <1>2, PoppedTypes, SwapType DEF Rotate
<1>3. CASE cur # Idle
  <2>1. cur \in Queued
    BY <1>3 DEF TypeOK, Queued
  <2>2. ready' = TailPut(Popped(n), cur)
        /\ next' = TailPutLinks(Popped(n), Detached(n), cur)
        /\ status' = Swap(Enqueued(st, cur), cur, nxt')
    BY <1>3 DEF Rotate
  <2>3. ready' \in Lists(Queued)
    BY <2>1, <2>2, PoppedTypes, TailPutType
  <2>4. next' \in [Thread -> Queued \cup {NULL}]
    BY <2>1, <2>2, PoppedTypes, TailPutLinksType
  <2>5. Enqueued(st, cur) \in [Thread -> SUBSET Flags]
    BY DEF Enqueued, Flags
  <2>6. QED
    BY <1>1, <2>2, <2>3, <2>4, <2>5, SwapType
<1>4. QED
  BY <1>2, <1>3
-----------------------------------------------------------------------------
(* Every step keeps the types. *)
LEMMA StepTypes ==
    ASSUME TypeOK, Locals, [Next]_vars
    PROVE  TypeOK' /\ Locals'
<1> USE ThreadFacts DEF TypeOK, Locals, Creating, Labels, Stuck,
                        pools, cpu, locals, client
<1>1. CASE SysTick
  BY <1>1, RotateTypes DEF SysTick
<1>2. CASE SysTickIdle
  BY <1>2 DEF SysTickIdle, vars
<1>3. CASE PendSV
  BY <1>3 DEF PendSV
<1>4. CASE Halt
  <2>1. cur # Idle
    BY <1>4 DEF Halt, LockedPutFails, RequeueFails, At
  <2>2. QED
    BY <1>4, <2>1 DEF Halt, Goto
<1>5. ASSUME NEW t \in Thread, MaskIrq(t) PROVE TypeOK' /\ Locals'
  BY <1>5 DEF MaskIrq, At
<1>6. ASSUME NEW t \in Thread, UnmaskIrq(t) PROVE TypeOK' /\ Locals'
  BY <1>6 DEF UnmaskIrq, At
<1>7. ASSUME NEW t \in Thread, Create(t) PROVE TypeOK' /\ Locals'
  <2>1. creates' \in 0 .. MaxCreates
    BY <1>7, KernelAssumption DEF Create
  <2>2. t \in Queued /\ pc[t] = "run"
    BY <1>7 DEF Create, At, Queued
  <2>3. CASE free.head = NULL
    BY <1>7, <2>1, <2>3 DEF Create
  <2>4. CASE free.head # NULL
    <3>1. free.head \in Queued
      BY <2>4 DEF Lists
    <3>2. /\ pc' = [pc EXCEPT ![t] = "unlink"]
          /\ node' = [node EXCEPT ![t] = free.head]
      BY <1>7, <2>4 DEF Create, Goto
    <3>3. /\ pc' \in [Thread -> Labels] /\ pc'[Idle] = "idle"
          /\ node' \in [Thread -> Queued \cup {NULL}]
      BY <2>2, <3>1, <3>2
    <3>4. Locals'
      BY <1>7, <2>2, <3>1, <3>2 DEF Create
    <3>5. QED
      BY <1>7, <2>1, <3>3, <3>4 DEF Create
  <2>5. QED
    BY <2>3, <2>4
<1>8. ASSUME NEW t \in Thread, CreateUnlink(t) PROVE TypeOK' /\ Locals'
  BY <1>8 DEF CreateUnlink, At, Goto
<1>9. ASSUME NEW t \in Thread, CreateEmpty(t) PROVE TypeOK' /\ Locals'
  BY <1>9 DEF CreateEmpty, Lists, At, Goto
<1>10. ASSUME NEW t \in Thread, CreateFollow(t) PROVE TypeOK' /\ Locals'
  BY <1>10 DEF CreateFollow, At, Goto
<1>11. ASSUME NEW t \in Thread, CreateAdvance(t) PROVE TypeOK' /\ Locals'
  BY <1>11 DEF CreateAdvance, Lists, At, Goto
<1>12. ASSUME NEW t \in Thread, CreateSplice(t) PROVE TypeOK' /\ Locals'
  BY <1>12 DEF CreateSplice, At, Goto
<1>13. ASSUME NEW t \in Thread, EndLoad(t) PROVE TypeOK' /\ Locals'
  BY <1>13 DEF EndLoad, At, Goto
<1>14. ASSUME NEW t \in Thread, EndMark(t) PROVE TypeOK' /\ Locals'
  BY <1>14 DEF EndMark, At, Goto, Flags
<1>15. ASSUME NEW t \in Thread, CreateUntail(t) PROVE TypeOK' /\ Locals'
  BY <1>15 DEF CreateUntail, Lists, At, Goto, Flags
<1>16. ASSUME NEW t \in Thread, CreateCheck(t) PROVE TypeOK' /\ Locals'
  BY <1>16 DEF CreateCheck, Lists, At, Goto, Flags
<1>17. ASSUME NEW t \in Thread, CreateInit(t) PROVE TypeOK' /\ Locals'
  BY <1>17 DEF CreateInit, Lists, At, Goto, Flags
<1>18. ASSUME NEW t \in Thread, CreateDetach(t) PROVE TypeOK' /\ Locals'
  BY <1>18 DEF CreateDetach, Lists, At, Goto, Flags
<1>19. ASSUME NEW t \in Thread, CreateTest(t) PROVE TypeOK' /\ Locals'
  BY <1>19 DEF CreateTest, Lists, At, Goto, Flags
<1>20. ASSUME NEW t \in Thread, CreateFirst(t) PROVE TypeOK' /\ Locals'
  BY <1>20 DEF CreateFirst, Lists, At, Goto, Flags
<1>21. ASSUME NEW t \in Thread, CreateLink(t) PROVE TypeOK' /\ Locals'
  BY <1>21 DEF CreateLink, Lists, At, Goto, Flags
<1>22. ASSUME NEW t \in Thread, CreateNoTail(t) PROVE TypeOK' /\ Locals'
  BY <1>22 DEF CreateNoTail, Lists, At, Goto, Flags
<1>23. ASSUME NEW t \in Thread, CreateSetTail(t) PROVE TypeOK' /\ Locals'
  BY <1>23 DEF CreateSetTail, Lists, At, Goto, Flags
<1>24. ASSUME NEW t \in Thread, CreateLoad(t) PROVE TypeOK' /\ Locals'
  BY <1>24 DEF CreateLoad, Lists, At, Goto, Flags
<1>25. ASSUME NEW t \in Thread, CreateMark(t) PROVE TypeOK' /\ Locals'
  BY <1>25 DEF CreateMark, Lists, At, Goto, Flags
<1>26. ASSUME NEW t \in Thread, CreateReload(t) PROVE TypeOK' /\ Locals'
  BY <1>26 DEF CreateReload, Lists, At, Goto, Flags
<1>27. ASSUME NEW t \in Thread, CreateStart(t) PROVE TypeOK' /\ Locals'
  BY <1>27 DEF CreateStart, Lists, At, Goto, Flags
<1>28. ASSUME NEW t \in Thread, JoinLock(t) PROVE TypeOK' /\ Locals'
  <2> DEFINE links  == TailPutLinks(waitq[node[t]], next, t)
             marked == [status EXCEPT ![node[t]] = @ \cup {"WAITING"}]
  <2>1. /\ t \in Queued /\ pc[t] = "join" /\ node[t] \in Queued
        /\ pc' = [pc EXCEPT ![t] = "joined"]
    BY <1>28 DEF JoinLock, At, Queued, Goto
  <2>2. links \in [Thread -> Queued \cup {NULL}]
    BY <2>1, TailPutLinksType
  <2>3. marked \in [Thread -> SUBSET Flags]
    BY DEF Flags
  <2>4. TailPut(waitq[node[t]], t) \in Lists(Queued)
    BY <2>1, TailPutType
  <2>5. waitq' \in [Thread -> Lists(Queued)]
    BY <1>28, <2>1, <2>4 DEF JoinLock
  <2>6. pc' \in [Thread -> Labels] /\ pc'[Idle] = "idle"
    BY <2>1
  <2>7. /\ ready' \in Lists(Queued)
        /\ next' \in [Thread -> Queued \cup {NULL}]
        /\ status' \in [Thread -> SUBSET Flags]
        /\ nxt' \in Thread \cup {NULL} /\ pendsv' \in BOOLEAN
        /\ pendsv' => nxt' # NULL
    <3>1. CASE ready.head = NULL
      BY <1>28, <3>1, <2>2, <2>3 DEF JoinLock
    <3>2. CASE ready.head # NULL
      <4>1. Rotate(links, marked)
        BY <1>28, <3>2 DEF JoinLock
      <4> HIDE DEF links, marked
      <4>2. QED
        BY <4>1, <2>2, <2>3, RotateTypes
    <3>3. QED
      BY <3>1, <3>2
  <2>8. Locals'
    BY <1>28, <2>1, <2>7 DEF JoinLock
  <2>9. QED
    BY <1>28, <2>5, <2>6, <2>7, <2>8 DEF JoinLock
<1>29. ASSUME NEW t \in Thread, JoinReturn(t) PROVE TypeOK' /\ Locals'
  BY <1>29 DEF JoinReturn, At, Goto
<1>30. ASSUME NEW t \in Thread, Cleanup(t) PROVE TypeOK' /\ Locals'
  BY <1>30 DEF Cleanup, At, Goto, Flags
<1>31. ASSUME NEW t \in Thread, EndLock(t) PROVE TypeOK' /\ Locals'
  BY <1>31 DEF EndLock, At, Goto
<1>32. ASSUME NEW t \in Thread, EndResume(t) PROVE TypeOK' /\ Locals'
  BY <1>32, TailPutType, TailPutLinksType, HeadGetType
     DEF EndResume, At, Lists, Enqueued, Flags
<1>33. ASSUME NEW t \in Thread, EndSwitch(t) PROVE TypeOK' /\ Locals'
  <2> DEFINE links == [next EXCEPT ![t] = NULL]
  <2>1. /\ t \in Queued /\ pc[t] = "resume"
        /\ pc' = [pc EXCEPT ![t] = "dead"]
    BY <1>33 DEF EndSwitch, At, Queued, Goto
  <2>2. links \in [Thread -> Queued \cup {NULL}]
    OBVIOUS
  <2>3. nxt' = ReadyNext /\ nxt' \in Thread
    BY <1>33, <2>2, PoppedTypes DEF EndSwitch
  <2>4. ready' \in Lists(Queued)
    BY <1>33, <2>2, PoppedTypes DEF EndSwitch
  <2>5. free' \in Lists(Queued)
    BY <1>33, <2>1, TailPutType DEF EndSwitch, Freed
  <2>6. next' \in [Thread -> Queued \cup {NULL}]
    <3>1. Detached(links) \in [Thread -> Queued \cup {NULL}]
      BY <2>2, PoppedTypes
    <3>2. next' = TailPutLinks(free, Detached(links), t)
      BY <1>33 DEF EndSwitch
    <3> HIDE DEF links
    <3>3. QED
      BY <2>1, <3>1, <3>2, TailPutLinksType
  <2>7. status' \in [Thread -> SUBSET Flags]
    <3>1. Swap(status, t, nxt') \in [Thread -> SUBSET Flags]
      BY SwapType
    <3>2. status' = [Swap(status, t, nxt') EXCEPT ![t] = @ \cup {"ENDED"}]
      BY <1>33 DEF EndSwitch
    <3>3. QED
      BY <3>1, <3>2 DEF Flags
  <2>8. pc' \in [Thread -> Labels] /\ pc'[Idle] = "idle"
    BY <2>1
  <2>9. Locals'
    BY <1>33, <2>1, <2>3 DEF EndSwitch
  <2>10. QED
    BY <1>33, <2>3, <2>4, <2>5, <2>6, <2>7, <2>8, <2>9 DEF EndSwitch
<1>34. ASSUME NEW t \in Thread, EndReturned(t) PROVE TypeOK' /\ Locals'
  BY <1>34 DEF EndReturned, At, Goto
<1>35. ASSUME NEW t \in Thread, NEW u \in handles, Join(t, u) PROVE TypeOK' /\ Locals'
  BY <1>35 DEF Join, At, Goto
<1>36. CASE UNCHANGED vars
  BY <1>36 DEF vars
<1>37. QED
  BY <1>1, <1>2, <1>3, <1>4, <1>5, <1>6, <1>7, <1>8, <1>9, <1>10, <1>11,
     <1>12, <1>13, <1>14, <1>15, <1>16, <1>17, <1>18, <1>19, <1>20, <1>21,
     <1>22, <1>23, <1>24, <1>25, <1>26, <1>27, <1>28, <1>29, <1>30, <1>31,
     <1>32, <1>33, <1>34, <1>35, <1>36
     DEF Next, Tick, KernelStep, ClientStep, CreateStep, EndStep
-----------------------------------------------------------------------------
(* Only thread_join and sched_threads_waiting_resume touch wait queues.     *)
LEMMA StepWaitQueues ==
    ASSUME TypeOK, Locals, WaitQueueTails, [Next]_vars
    PROVE  WaitQueueTails'
<1> USE ThreadFacts
<1>1. ASSUME NEW t \in Thread, JoinLock(t) PROVE WaitQueueTails'
  <2>1. t \in Queued /\ waitq' = [waitq EXCEPT ![node[t]] = TailPut(@, t)]
    BY <1>1 DEF JoinLock, At, TypeOK, Queued
  <2>2. \A u \in Thread : TailPutAssert(TailPut(waitq[u], t))
    BY <2>1, TailAssertKept DEF TypeOK, WaitQueueTails, Queued
  <2>3. QED
    BY <2>1, <2>2 DEF TypeOK, WaitQueueTails
<1>2. ASSUME NEW t \in Thread, EndResume(t) PROVE WaitQueueTails'
  <2>1. waitq' = [waitq EXCEPT ![t] = HeadGet(@, next)]
    BY <1>2 DEF EndResume
  <2>2. TailPutAssert(HeadGet(waitq[t], next))
    BY TailAssertKept DEF TypeOK, WaitQueueTails, Queued
  <2>3. QED
    BY <2>1, <2>2 DEF TypeOK, WaitQueueTails
<1>3. CASE UNCHANGED waitq
  BY <1>3 DEF WaitQueueTails
<1>4. ASSUME NEW t \in Thread, CreateStep(t) PROVE UNCHANGED waitq
  BY <1>4 DEF CreateStep, CreateUnlink, CreateEmpty, CreateUntail,
       CreateFollow, CreateAdvance, CreateCheck, CreateInit, CreateDetach,
       CreateTest, CreateFirst, CreateLink, CreateNoTail, CreateSplice,
       CreateSetTail, CreateLoad, CreateMark, CreateReload, CreateStart, pools
<1>5. ASSUME NEW t \in Thread,
             \/ JoinReturn(t) \/ UnmaskIrq(t) \/ ClientStep(t)
             \/ EndLoad(t) \/ EndMark(t) \/ EndLock(t) \/ EndSwitch(t)
             \/ EndReturned(t)
      PROVE  UNCHANGED waitq
  BY <1>5 DEF JoinReturn, UnmaskIrq, ClientStep, MaskIrq, Create, Cleanup,
              Join, EndLoad, EndMark, EndLock, EndSwitch, EndReturned, pools
<1>6. CASE Tick \/ PendSV \/ Halt \/ UNCHANGED vars
  BY <1>3, <1>6 DEF Tick, SysTick, SysTickIdle, PendSV, Halt, pools, vars
<1>7. QED
  BY <1>1, <1>2, <1>3, <1>4, <1>5, <1>6 DEF Next, KernelStep, EndStep

-----------------------------------------------------------------------------
(* A thread that takes a step runs, and is not the idle thread. *)
LEMMA Stepping ==
    ASSUME TypeOK, NEW t \in Thread, NEW l, At(t, l), l # "idle"
    PROVE  t \in Queued /\ t = cur /\ ~pendsv /\ Running = t
BY DEF At, TypeOK, Queued, Running

(* The steps that neither switch threads nor request a switch. *)
Staying(t) ==
    \/ CreateStep(t) \/ JoinReturn(t) \/ UnmaskIrq(t) \/ ClientStep(t)
    \/ EndLoad(t) \/ EndMark(t) \/ EndLock(t) \/ EndResume(t)
    \/ EndReturned(t)

(* A step after which the same thread has the core.                       *)
LEMMA StayingFacts ==
    ASSUME TypeOK, NEW t \in Thread, Staying(t)
    PROVE  t \in Queued /\ Running = t /\ Running' = t
<1>1. \E l \in Labels \ {"idle"} : At(t, l)
  BY DEF Staying, CreateStep, CreateUnlink, CreateEmpty, CreateUntail,
       CreateFollow, CreateAdvance, CreateCheck, CreateInit, CreateDetach,
       CreateTest, CreateFirst, CreateLink, CreateNoTail, CreateSplice,
       CreateSetTail, CreateLoad, CreateMark, CreateReload, CreateStart,
       JoinReturn, UnmaskIrq, ClientStep, MaskIrq, Create, Cleanup, Join,
       EndLoad, EndMark, EndLock, EndResume, EndReturned, Labels
<1>2. t \in Queued /\ t = cur /\ ~pendsv /\ Running = t
  BY <1>1, Stepping
<1>3. UNCHANGED <<cur, nxt, pendsv>>
  BY DEF Staying, CreateStep, CreateUnlink, CreateEmpty, CreateUntail,
       CreateFollow, CreateAdvance, CreateCheck, CreateInit, CreateDetach,
       CreateTest, CreateFirst, CreateLink, CreateNoTail, CreateSplice,
       CreateSetTail, CreateLoad, CreateMark, CreateReload, CreateStart,
       JoinReturn, UnmaskIrq, ClientStep, MaskIrq, Create, Cleanup, Join,
       EndLoad, EndMark, EndLock, EndResume, EndReturned, cpu
<1>4. QED
  BY <1>2, <1>3 DEF Running

(* The idle thread gets the core from an empty ready pool only. *)
LEMMA StepIdle ==
    ASSUME TypeOK, Locals, IdleLast, [Next]_vars
    PROVE  IdleLast'
<1> USE ThreadFacts
<1>1. ready.head # NULL => ReadyNext # Idle
  BY DEF ReadyNext, TypeOK, Lists
<1>2. CASE SysTick
  BY <1>1, <1>2 DEF SysTick, Rotate, IdleLast, Running
<1>3. CASE PendSV
  BY <1>3 DEF PendSV, IdleLast, Running, pools
<1>4. ASSUME NEW t \in Thread, Staying(t) PROVE IdleLast'
  BY <1>4, StayingFacts DEF IdleLast
<1>5. ASSUME NEW t \in Thread, JoinLock(t) PROVE IdleLast'
  <2>1. t # Idle /\ t = cur /\ ~pendsv /\ UNCHANGED cur
    BY <1>5, Stepping DEF JoinLock
  <2>2. CASE ready.head = NULL
    BY <1>5, <2>1, <2>2 DEF JoinLock, IdleLast, Running
  <2>3. CASE ready.head # NULL
    <3>1. nxt' = ReadyNext /\ pendsv'
      BY <1>5, <2>3 DEF JoinLock, Rotate
    <3>2. QED
      BY <1>1, <2>3, <3>1 DEF IdleLast, Running
  <2>4. QED
    BY <2>2, <2>3
<1>6. ASSUME NEW t \in Thread, EndSwitch(t) PROVE IdleLast'
  <2>1. nxt' = ReadyNext /\ pendsv'
    BY <1>6 DEF EndSwitch
  <2>2. ready.head = NULL => ready' = ready
    BY <1>6 DEF EndSwitch, Popped, HeadGet
  <2>3. QED
    BY <1>1, <2>1, <2>2 DEF IdleLast, Running
<1>7. CASE SysTickIdle \/ Halt \/ UNCHANGED vars
  BY <1>7 DEF SysTickIdle, Halt, vars, pools, cpu, IdleLast, Running
<1>8. QED
  BY <1>2, <1>3, <1>4, <1>5, <1>6, <1>7
     DEF Next, Tick, KernelStep, EndStep, Staying
-----------------------------------------------------------------------------
(* ActiveIsRunning, as a fact about each thread. *)
Marked(st, r) == \A t \in Thread : "ACTIVE" \in st[t] <=> t = r

(* The two ways to say that exactly r is active.                          *)
LEMMA MarkedIff ==
    ASSUME NEW st, NEW r \in Thread
    PROVE  {t \in Thread : "ACTIVE" \in st[t]} = {r} <=> Marked(st, r)
BY DEF Marked

(* The thread that has the core is a thread.                              *)
LEMMA RunningType == TypeOK /\ Locals => Running \in Thread
BY DEF TypeOK, Locals, Running

(* swap_threads moves the mark. *)
LEMMA SwapMarked ==
    ASSUME NEW st \in [Thread -> SUBSET Flags], NEW s \in Thread,
           NEW t \in Thread, Marked(st, s)
    PROVE  Marked(Swap(st, s, t), t)
BY DEF Marked, Swap

(* schedule() passes the active flag on to the thread that gets the core. *)
LEMMA RotateMarked ==
    ASSUME TypeOK, NEW n \in [Thread -> Queued \cup {NULL}],
           NEW st \in [Thread -> SUBSET Flags], Marked(st, cur), Rotate(n, st)
    PROVE  Marked(status', nxt')
<1>1. nxt' \in Thread /\ cur \in Thread
  BY RotateTypes DEF TypeOK
<1>2. CASE cur = Idle
  BY <1>1, <1>2, SwapMarked DEF Rotate
<1>3. CASE cur # Idle
  <2>1. Enqueued(st, cur) \in [Thread -> SUBSET Flags]
    BY DEF Enqueued, Flags
  <2>2. Marked(Enqueued(st, cur), cur)
    BY DEF Marked, Enqueued
  <2>3. status' = Swap(Enqueued(st, cur), cur, nxt')
    BY <1>3 DEF Rotate
  <2>4. QED
    BY <1>1, <2>1, <2>2, <2>3, SwapMarked
<1>4. QED
  BY <1>2, <1>3

(* The steps that change no status and request no switch. *)
LEMMA StatusSteps ==
    ASSUME TypeOK, NEW t \in Thread, Staying(t), Marked(status, t), CreatorsHold,
           Locals
    PROVE  Marked(status', t)
<1> USE DEF TypeOK, Marked
<1>1. CASE CreateInit(t)
  <2>1. node[t] # t
    BY <1>1 DEF CreateInit, At, CreatorsHold
  <2>2. QED
    BY <1>1, <2>1 DEF CreateInit
<1>2. CASE CreateMark(t)
  <2>1. node[t] # t /\ "ACTIVE" \notin reg[t]
    BY <1>2 DEF CreateMark, At, CreatorsHold, Owning
  <2>2. QED
    BY <1>2, <2>1 DEF CreateMark
<1>3. CASE CreateStart(t)
  <2>1. node[t] # t /\ "ACTIVE" \notin reg[t]
    BY <1>3 DEF CreateStart, At, CreatorsHold, Owning
  <2>2. QED
    BY <1>3, <2>1 DEF CreateStart
<1>4. CASE EndMark(t)
  <2>1. "ACTIVE" \in reg[t]
    BY <1>4 DEF EndMark, At, CreatorsHold
  <2>2. QED
    BY <1>4, <2>1 DEF EndMark
<1>5. CASE EndResume(t)
  BY <1>5 DEF EndResume, Enqueued
<1>6. CASE UNCHANGED status
  BY <1>6
<1>7. QED
  BY <1>1, <1>2, <1>3, <1>4, <1>5, <1>6
     DEF Staying, CreateStep, CreateUnlink, CreateEmpty, CreateUntail,
         CreateFollow, CreateAdvance, CreateCheck, CreateDetach, CreateTest,
         CreateFirst, CreateLink, CreateNoTail, CreateSplice, CreateSetTail,
         CreateLoad, CreateReload, JoinReturn, UnmaskIrq, ClientStep, MaskIrq,
         Create, Cleanup, Join, EndLoad, EndLock, EndReturned, pools

(* Every step keeps the active flag with the thread that has the core.    *)
LEMMA StepActive ==
    ASSUME TypeOK, Locals, ActiveIsRunning, CreatorsHold, [Next]_vars,
           TypeOK', Locals'
    PROVE  ActiveIsRunning'
<1>1. Running \in Thread /\ Running' \in Thread
  BY DEF TypeOK, Locals, Running
<1>2. Marked(status, Running)
  BY <1>1, MarkedIff DEF ActiveIsRunning
<1> SUFFICES Marked(status', Running')
  BY <1>1, MarkedIff DEF ActiveIsRunning
<1>3. CASE SysTick
  <2>1. Marked(status, cur) /\ Rotate(next, status)
    BY <1>2, <1>3 DEF SysTick, Running
  <2>2. pendsv' = TRUE
    BY <2>1 DEF Rotate
  <2>3. QED
    BY <2>1, <2>2, RotateMarked DEF TypeOK, Running
<1>4. CASE PendSV
  BY <1>2, <1>4 DEF PendSV, Running
<1>5. ASSUME NEW t \in Thread, Staying(t) PROVE Marked(status', Running')
  BY <1>2, <1>5, StayingFacts, StatusSteps
<1>6. ASSUME NEW t \in Thread, JoinLock(t) PROVE Marked(status', Running')
  <2> DEFINE links  == TailPutLinks(waitq[node[t]], next, t)
             marked == [status EXCEPT ![node[t]] = @ \cup {"WAITING"}]
  <2>1. /\ t \in Queued /\ t = cur /\ ~pendsv /\ Running = t
        /\ node[t] \in Queued /\ UNCHANGED cur
    BY <1>6, Stepping DEF JoinLock, Locals, At
  <2>2. links \in [Thread -> Queued \cup {NULL}]
    BY <2>1, TailPutLinksType, ThreadFacts DEF TypeOK
  <2>3. marked \in [Thread -> SUBSET Flags] /\ Marked(marked, cur)
    BY <1>2, <2>1 DEF TypeOK, Flags, Marked
  <2>4. CASE ready.head = NULL
    <3>1. status' = marked /\ Running' = t
      BY <1>6, <2>1, <2>4 DEF JoinLock, Running
    <3>2. QED
      BY <2>1, <2>3, <3>1
  <2>5. CASE ready.head # NULL
    <3>1. Rotate(links, marked)
      BY <1>6, <2>5 DEF JoinLock
    <3>2. Running' = nxt'
      BY <3>1 DEF Rotate, Running
    <3> HIDE DEF links, marked
    <3>3. QED
      BY <2>2, <2>3, <3>1, <3>2, RotateMarked
  <2>6. QED
    BY <2>4, <2>5
<1>7. ASSUME NEW t \in Thread, EndSwitch(t) PROVE Marked(status', Running')
  <2>1. t \in Queued /\ t = cur /\ ~pendsv /\ Running = t
    BY <1>7, Stepping DEF EndSwitch
  <2>2. nxt' \in Thread /\ Running' = nxt'
    BY <1>1, <1>7 DEF EndSwitch, Running
  <2>3. Swap(status, t, nxt') \in [Thread -> SUBSET Flags]
    BY SwapType DEF TypeOK
  <2>4. Marked(Swap(status, t, nxt'), nxt')
    BY <1>2, <2>1, <2>2, SwapMarked DEF TypeOK
  <2>5. status' = [Swap(status, t, nxt') EXCEPT ![t] = @ \cup {"ENDED"}]
    BY <1>7 DEF EndSwitch
  <2>6. QED
    BY <2>2, <2>3, <2>4, <2>5 DEF Marked
<1>8. CASE SysTickIdle \/ Halt \/ UNCHANGED vars
  BY <1>2, <1>8 DEF SysTickIdle, Halt, vars, cpu, Running
<1>9. QED
  BY <1>3, <1>4, <1>5, <1>6, <1>7, <1>8
     DEF Next, Tick, KernelStep, EndStep, Staying

-----------------------------------------------------------------------------
(* The labels at which CreatorsHold speaks of the register.                 *)
Loaded == {"mark", "start", "endmark"}

(* A step of t that leaves the other threads' labels alone disturbs only    *)
(* what CreatorsHold says of t.                                            *)
LEMMA OthersHold ==
    ASSUME TypeOK, CreatorsHold, NEW t \in Thread,
           \A u \in Thread \ {t} :
              /\ pc'[u] \in {pc[u], "run", "halted"}
              /\ node'[u] = node[u] /\ reg'[u] = reg[u],
           pc'[t] \in Owning => node'[t] \in Queued \ {t},
           pc'[t] \in {"mark", "start"} => "ACTIVE" \notin reg'[t],
           pc'[t] = "endmark" => "ACTIVE" \in reg'[t]
    PROVE  CreatorsHold'
BY DEF CreatorsHold, Owning, Loaded

(* Every step keeps the claim of the threads inside thread_create.        *)
LEMMA StepCreators ==
    ASSUME TypeOK, Locals, ActiveIsRunning, CreatorsHold, Asserts, [Next]_vars
    PROVE  CreatorsHold'
<1> USE DEF TypeOK, locals, Owning, Loaded
<1>1. Marked(status, Running)
  BY RunningType, MarkedIff DEF ActiveIsRunning
<1>2. ASSUME NEW t \in Thread, NEW l, At(t, l), pc[t] \in Owning
      PROVE  "ACTIVE" \notin status[node[t]]
  <2>1. Running = t /\ node[t] \in Queued \ {t}
    BY <1>2 DEF At, Running, CreatorsHold
  <2>2. QED
    BY <1>1, <2>1 DEF Marked, Queued
<1>3. ASSUME NEW t \in Thread, CreateCheck(t) PROVE CreatorsHold'
  <2>1. Running = t /\ pc[t] = "check" /\ node[t] \in Queued
    BY <1>3 DEF CreateCheck, At, Running, Locals, Creating
  <2>2. pc'[t] = "init" => "ACTIVE" \notin status[node[t]]
    BY <1>3 DEF CreateCheck, Goto
  <2>3. pc'[t] = "init" => node[t] # t
    BY <1>1, <2>1, <2>2 DEF Marked
  <2>4. pc'[t] \in {"init", "assert_none"}
    BY <1>3 DEF CreateCheck, Goto
  <2>5. QED
    BY <1>3, <2>1, <2>3, <2>4, OthersHold DEF CreateCheck, Goto
<1>4. ASSUME NEW t \in Thread, CreateInit(t) PROVE CreatorsHold'
  <2>1. pc[t] = "init" /\ node[t] \in Queued \ {t}
    BY <1>4 DEF CreateInit, At, CreatorsHold
  <2>2. pc'[t] = "detach"
        /\ \A u \in Thread \ {t} : pc'[u] \in {pc[u], "run"}
    BY <1>4, <2>1 DEF CreateInit
  <2>3. QED
    BY <1>4, <2>1, <2>2, OthersHold DEF CreateInit
<1>5. ASSUME NEW t \in Thread, CreateLoad(t) PROVE CreatorsHold'
  <2>1. pc[t] = "load" /\ node[t] \in Queued \ {t}
        /\ "ACTIVE" \notin status[node[t]]
    BY <1>2, <1>5 DEF CreateLoad, At, CreatorsHold
  <2>2. QED
    BY <1>5, <2>1, OthersHold DEF CreateLoad, Goto
<1>6. ASSUME NEW t \in Thread, CreateReload(t) PROVE CreatorsHold'
  <2>1. pc[t] = "reload" /\ node[t] \in Queued \ {t}
        /\ "ACTIVE" \notin status[node[t]]
    BY <1>2, <1>6 DEF CreateReload, At, CreatorsHold
  <2>2. QED
    BY <1>6, <2>1, OthersHold DEF CreateReload, Goto
<1>7. ASSUME NEW t \in Thread,
             \/ CreateDetach(t) \/ CreateTest(t) \/ CreateFirst(t)
             \/ CreateLink(t) \/ CreateNoTail(t) \/ CreateSplice(t)
             \/ CreateSetTail(t) \/ CreateMark(t)
      PROVE  CreatorsHold'
  <2>1. /\ node[t] \in Queued \ {t} /\ UNCHANGED <<node, reg>>
        /\ \E l \in Labels \ Loaded : pc' = [pc EXCEPT ![t] = l]
    BY <1>7 DEF CreateDetach, CreateTest, CreateFirst, CreateLink,
         CreateNoTail, CreateSplice, CreateSetTail, CreateMark, At, Goto, CreatorsHold,
         Labels, Stuck
  <2>2. QED
    BY <2>1, OthersHold
<1>8. ASSUME NEW t \in Thread,
             \/ CreateUnlink(t) \/ CreateEmpty(t) \/ CreateUntail(t)
             \/ CreateFollow(t) \/ CreateAdvance(t) \/ CreateStart(t)
             \/ Create(t) \/ JoinLock(t) \/ JoinReturn(t) \/ Cleanup(t)
             \/ EndMark(t) \/ EndLock(t) \/ EndSwitch(t) \/ EndReturned(t)
             \/ \E u \in handles : Join(t, u)
      PROVE  CreatorsHold'
  <2>1. /\ pc'[t] \notin Owning \cup Loaded
        /\ \A u \in Thread \ {t} :
              pc'[u] = pc[u] /\ node'[u] = node[u] /\ reg'[u] = reg[u]
    BY <1>8 DEF CreateUnlink, CreateEmpty, CreateUntail, CreateFollow,
         CreateAdvance, CreateStart, Create, JoinLock, JoinReturn, Cleanup,
         EndMark, EndLock, EndSwitch, EndReturned, Join, At, Goto
  <2>2. QED
    BY <2>1, OthersHold
<1>9. CASE UNCHANGED <<pc, node, reg>>
  BY <1>9 DEF CreatorsHold
<1>10. ASSUME NEW t \in Thread, MaskIrq(t) \/ UnmaskIrq(t) \/ EndResume(t)
       PROVE  UNCHANGED <<pc, node, reg>>
  BY <1>10 DEF MaskIrq, UnmaskIrq, EndResume
<1>11. CASE Halt
  <2>1. pc' = [pc EXCEPT ![cur] = "halted"] /\ UNCHANGED <<node, reg>>
    BY <1>11 DEF Halt, Goto
  <2>2. QED
    BY <2>1, OthersHold
<1>12. CASE Tick \/ PendSV \/ UNCHANGED vars
  BY <1>9, <1>12 DEF Tick, SysTick, SysTickIdle, PendSV, vars
<1>13. ASSUME NEW t \in Thread, EndLoad(t) PROVE CreatorsHold'
  <2>1. pc[t] = "endload" /\ "ACTIVE" \in status[t]
    BY <1>1, <1>13 DEF EndLoad, At, Running, Marked
  <2>2. QED
    BY <1>13, <2>1, OthersHold DEF EndLoad, Goto
<1>14. QED
  BY <1>3, <1>4, <1>5, <1>6, <1>7, <1>8, <1>9, <1>10, <1>11, <1>12, <1>13
     DEF Next, KernelStep, ClientStep, CreateStep, EndStep
-----------------------------------------------------------------------------
(* thread_init establishes the invariants.                                *)
LEMMA InitInvariants ==
    Init => ActiveIsRunning /\ CreatorsHold /\ IdleLast /\ WaitQueueTails
<1> SUFFICES ASSUME Init
             PROVE  ActiveIsRunning /\ CreatorsHold /\ IdleLast /\ WaitQueueTails
  OBVIOUS
<1>1. Running = Main /\ Main \in Thread
  BY ThreadFacts DEF Init, Running
<1>2. Marked(status, Main)
  BY DEF Init, Marked
<1>3. ActiveIsRunning
  BY <1>1, <1>2, MarkedIff DEF ActiveIsRunning
<1>4. \A t \in Thread : pc[t] \in {"run", "idle", "unused"}
  BY DEF Init
<1>5. CreatorsHold
  BY <1>4 DEF CreatorsHold, Owning
<1>6. IdleLast /\ WaitQueueTails
  BY DEF Init, EmptyList, IdleLast, WaitQueueTails, TailPutAssert
<1>7. QED
  BY <1>3, <1>5, <1>6

(***************************************************************************)
(* Every variable keeps its type and the idle thread stays out of every    *)
(* list, whatever the clients do and however their calls interleave.       *)
(***************************************************************************)
THEOREM TypesCorrect == Spec => [](TypeOK /\ Locals)
<1>1. Init => TypeOK /\ Locals
  BY InitTypes
<1>2. TypeOK /\ Locals /\ [Next]_vars => (TypeOK /\ Locals)'
  BY StepTypes
<1>3. QED
  BY <1>1, <1>2, PTL DEF Spec

(* The assertion of slist_tail_put never fails on a wait queue. *)
THEOREM WaitQueuesSafe == Spec => []WaitQueueTails
<1>1. Init => WaitQueueTails
  BY InitInvariants
<1>2. TypeOK /\ Locals /\ WaitQueueTails /\ [Next]_vars => WaitQueueTails'
  BY StepWaitQueues
<1>3. QED
  BY <1>1, <1>2, TypesCorrect, PTL DEF Spec

(* The idle thread runs only when no thread is ready. *)
THEOREM IdleIsLast == Spec => []IdleLast
<1>1. Init => IdleLast
  BY InitInvariants
<1>2. TypeOK /\ Locals /\ IdleLast /\ [Next]_vars => IdleLast'
  BY StepIdle
<1>3. QED
  BY <1>1, <1>2, TypesCorrect, PTL DEF Spec

(***************************************************************************)
(* With assertions compiled in, THREAD_STATUS_ACTIVE is set for exactly    *)
(* the thread that has the core, and no read-modify-write that races with  *)
(* swap_threads restores or erases it.  The two facts need each other: a   *)
(* status is stored only for another thread's object, and another thread's *)
(* object is not active.                                                   *)
(***************************************************************************)
THEOREM ActiveTracksRunning ==
    ASSUME Asserts
    PROVE  Spec => [](ActiveIsRunning /\ CreatorsHold)
<1>1. Init => ActiveIsRunning /\ CreatorsHold
  BY InitInvariants
<1>2. /\ TypeOK /\ Locals /\ ActiveIsRunning /\ CreatorsHold
      /\ [Next]_vars /\ TypeOK' /\ Locals'
      => (ActiveIsRunning /\ CreatorsHold)'
  BY StepActive, StepCreators
<1>3. QED
  BY <1>1, <1>2, TypesCorrect, PTL DEF Spec

(* The other half: no thread_create in progress works on a thread that has  *)
(* the core or had it since.                                               *)
THEOREM CreatorsAlwaysHold ==
    ASSUME Asserts
    PROVE  Spec => []CreatorsHold
BY ActiveTracksRunning, PTL
=============================================================================
