----------------------------- MODULE PoolProofs -----------------------------
(***************************************************************************)
(* The free pool and the ready pool, link by link: which sequences of      *)
(* threads they hold at every step of the kernel, for any number of        *)
(* threads and of creations.                                               *)
(***************************************************************************)
EXTENDS KernelRoundRobin, KernelProofs

(* Labels of thread_create: the object is the head of the free pool; it is  *)
(* out of that pool and not yet set up; it is set up and not yet in the    *)
(* ready pool.                                                             *)
Drawing == {"unlink", "empty", "follow", "advance"}
Taken   == {"untail", "check", "init", "assert_none"}
Linking == {"detach", "test", "first", "link", "splice", "settail"}

(* Labels of a thread that ends, up to its last switch.                    *)
Ending == {"endload", "endmark", "end", "resume"}

(* Labels at which a thread can be switched out for good or for a while.    *)
Calm == {"unused", "idle", "run", "join", "joined",
         "endload", "endmark", "end", "lost", "dead"}

Spare == {t \in Thread : pc[t] \in {"unused", "dead"}}
Alive == Queued \ Spare

(* Who is where in its code, as far as the pools depend on it.             *)
Posts ==
    /\ Running \in Alive
    /\ pendsv => nxt # cur /\ pc[cur] \in Calm
    /\ \A t \in Thread \ {cur} : pc[t] \in Calm
    /\ pc[cur] \in Creating \cup Calm \cup {"resume", "assert_none"}
    /\ \A t \in Thread :
          pc[t] \in {"unused", "dead"} \cup Ending => t \in Workers
    /\ pc[cur] \in Creating \cup {"assert_none"} =>
          node[cur] \in Workers \ {cur}
    /\ pc[cur] \in Drawing \cup Taken => node[cur] \in Spare
    /\ pc[cur] \in Creating \ (Drawing \cup Taken) => pc[node[cur]] = "run"

(* The free pool holds f. *)
FreeHolds(f) ==
    LET l == pc[cur]  n == node[cur]
    IN  /\ Once(f)
        /\ Elems(f) = Spare \ (IF l \in Taken THEN {n} ELSE {})
        /\ Holds(IF l = "untail" THEN [free EXCEPT !.tail = NULL] ELSE free,
                 next, f)
        /\ l \in Drawing => f # <<>> /\ n = f[1]
        /\ l = "empty" => n = free.tail
        /\ l \in {"follow", "advance"} => n # free.tail
        /\ l = "advance" => ptr[cur] = next[n]

(* The ready pool holds r. *)
ReadyHolds(r) ==
    LET l == pc[cur]  n == node[cur]
    IN  /\ Once(r)
        /\ Elems(r) = Alive \ ({Running} \cup IF l \in Linking THEN {n} ELSE {})
        /\ IF l = "settail"
             THEN /\ Holds([ready EXCEPT !.tail = n], next, Append(r, n))
                  /\ ready.tail = IF r = <<>> THEN NULL ELSE r[Len(r)]
             ELSE Holds(ready, next, r)
        /\ l = "first" => r = <<>>
        /\ l \in {"link", "splice"} => r # <<>>
        /\ l = "splice" => ptr[cur] = ready.tail
        /\ l \in Linking \ {"detach"} => next[n] = NULL

Pools == \E f, r \in Seq(Queued) : FreeHolds(f) /\ ReadyHolds(r)

(* The queue as a walk along the links shows it: a node is in it when the   *)
(* head or the tail points to it.                                          *)
Shown(r) == IF pc[cur] = "settail" /\ r = <<>> THEN <<node[cur]>> ELSE r

(* What a step may do to the queue: nothing, or what the scheduler promises. *)
Turn(r, q) ==
    \/ /\ Running' = Running /\ Shown(q)' = Shown(r)
    \/ /\ Running' = Running /\ Shown(q)' = Append(Shown(r), node[cur])
       /\ node[cur] \in Workers /\ pc[cur] \in Linking
       /\ node[cur] \notin Elems(Shown(r)) \cup {Running}
    \/ /\ Shown(r) # <<>> /\ Running' = Shown(r)[1]
       /\ Shown(q)' = Append(Tail(Shown(r)), Running)
    \/ /\ Shown(r) # <<>> /\ Running' = Shown(r)[1] /\ Running \in Workers
       /\ Shown(q)' = Tail(Shown(r))

Moved(r) ==
    \E g, q \in Seq(Queued) : FreeHolds(g)' /\ ReadyHolds(q)' /\ Turn(r, q)

(* What clients that mask interrupts around thread_create and join nobody   *)
(* add to it.                                                              *)
Disciplined ==
    /\ pc[cur] \in Creating \cup {"resume", "assert_none"} => primask
    /\ waitq = [t \in Thread |-> EmptyList]
    /\ \A t \in Thread :
          /\ pc[t] \notin {"join", "joined"}
          /\ pc[t] \notin Creating \cup {"assert_none"} => node[t] = NULL

-----------------------------------------------------------------------------
(* Plain consequences of the definitions.                                  *)
LEMMA PoolFacts ==
    ASSUME TypeOK, Posts
    PROVE  /\ Spare \subseteq Workers /\ Spare \subseteq Queued
           /\ Alive \subseteq Queued /\ Spare \cap Alive = {}
           /\ NULL \notin Queued /\ Queued \subseteq Thread
           /\ Running \in Queued /\ cur \in Thread
           /\ ~pendsv => cur = Running /\ cur \in Alive
                         /\ pc[cur] \notin {"unused", "dead"}
<1>1. Spare \subseteq Workers
  BY DEF Spare, Posts
<1>2. Running \in Alive /\ (~pendsv => Running = cur)
  BY DEF Posts, Running
<1>3. Spare \cap Alive = {} /\ Alive \subseteq Queued /\ cur \in Thread
  BY DEF Alive, TypeOK
<1>4. Workers \subseteq Queued /\ Queued \subseteq Thread /\ NULL \notin Queued
  BY ThreadFacts
<1>5. ASSUME ~pendsv
      PROVE  cur = Running /\ cur \in Alive
             /\ pc[cur] \notin {"unused", "dead"}
  <2>1. cur = Running /\ cur \in Alive
    BY <1>2, <1>5
  <2>2. cur \notin Spare /\ cur \in Queued
    BY <2>1, <1>3
  <2>3. pc[cur] \notin {"unused", "dead"}
    BY <1>3, <2>2 DEF Spare
  <2>4. QED
    BY <2>1, <2>3
<1>6. QED
  BY <1>1, <1>2, <1>3, <1>4, <1>5

(* A step that leaves the queue alone.                                     *)
LEMMA Unturned ==
    ASSUME NEW g \in Seq(Queued), NEW r \in Seq(Queued), FreeHolds(g)',
           ReadyHolds(r)', Running' = Running, pc[cur] # "settail",
           pc'[cur'] # "settail"
    PROVE  Moved(r)
<1>1. Shown(r)' = Shown(r)
  BY DEF Shown
<1>2. QED
  BY <1>1 DEF Moved, Turn

(* A step of the thread that has the core, at a label where it is alive.    *)
LEMMA SpareKept ==
    ASSUME TypeOK, NEW l, pc' = [pc EXCEPT ![cur] = l],
           {pc[cur], l} \cap {"unused", "dead"} = {}
    PROVE  Spare' = Spare /\ Alive' = Alive
BY DEF TypeOK, Spare, Alive

-----------------------------------------------------------------------------
(* ready_next_get takes the head of the ready pool; the free pool is as it  *)
(* was.                                                                    *)
LEMMA PopOrder ==
    ASSUME TypeOK, NEW n \in [Thread -> Queued \cup {NULL}],
           NEW f \in Seq(Queued), NEW r \in Seq(Queued), Once(f), Once(r),
           Elems(f) \cap Elems(r) = {}, r # <<>>,
           Holds(free, n, f), Holds(ready, n, r)
    PROVE  /\ ReadyNext = r[1] /\ r[1] \in Elems(r) /\ ready.head # NULL
           /\ Tail(r) \in Seq(Queued) /\ Once(Tail(r))
           /\ Elems(Tail(r)) = Elems(r) \ {r[1]}
           /\ Holds(free, Detached(n), f)
           /\ Holds(Popped(n), Detached(n), Tail(r))
           /\ Holds(Popped(n), n, Tail(r))
           /\ Popped(n) \in Lists(Queued)
           /\ Detached(n) \in [Thread -> Queued \cup {NULL}]
<1>1. NULL \notin Queued /\ ready \in Lists(Queued)
  BY ThreadFacts DEF TypeOK
<1>2. /\ Tail(r) \in Seq(Queued) /\ Once(Tail(r))
      /\ Elems(Tail(r)) = Elems(r) \ {r[1]}
      /\ r[1] \in Elems(r) /\ r[1] \in Queued
  BY ElemsOfTail
<1>3. ready.head = r[1] /\ ready.head # NULL
  BY <1>1, <1>2 DEF Holds
<1>4. Holds(Popped(n), n, Tail(r))
  BY <1>1, HeadGone DEF Popped
<1>5. Detached(n) = [n EXCEPT ![r[1]] = NULL] /\ ReadyNext = r[1]
  BY <1>3 DEF Detached, ReadyNext
<1>6. r[1] \notin Elems(Tail(r)) /\ r[1] \notin Elems(f)
  BY <1>2
<1>7. Holds(Popped(n), [n EXCEPT ![r[1]] = NULL], Tail(r))
  BY <1>2, <1>4, <1>6, LinkWritten
<1>8. Holds(free, [n EXCEPT ![r[1]] = NULL], f)
  BY <1>6, LinkWritten
<1>9. QED
  BY <1>2, <1>3, <1>4, <1>5, <1>7, <1>8, PoppedTypes

(* schedule(false) then puts the current thread behind the others.          *)
LEMMA RotateOrder ==
    ASSUME TypeOK, NEW n \in [Thread -> Queued \cup {NULL}], NEW st,
           NEW f \in Seq(Queued), NEW r \in Seq(Queued), Once(f), Once(r),
           Elems(f) \cap Elems(r) = {}, cur \in Queued,
           cur \notin Elems(f) \cup Elems(r),
           Holds(free, n, f), Holds(ready, n, r), ready.head # NULL,
           Rotate(n, st)
    PROVE  /\ r # <<>> /\ nxt' = r[1] /\ pendsv' = TRUE
           /\ nxt' \in Elems(r)
           /\ Append(Tail(r), cur) \in Seq(Queued)
           /\ Once(Append(Tail(r), cur))
           /\ Elems(Append(Tail(r), cur)) = (Elems(r) \ {nxt'}) \cup {cur}
           /\ Holds(free, next', f)
           /\ Holds(ready', next', Append(Tail(r), cur))
<1> DEFINE u == Tail(r)
<1>1. cur # Idle /\ NULL \notin Queued /\ Queued \subseteq Thread
  BY ThreadFacts
<1>2. r # <<>>
  BY DEF Holds, EmptyList
<1>3. /\ ReadyNext = r[1] /\ r[1] \in Elems(r)
      /\ u \in Seq(Queued) /\ Once(u) /\ Elems(u) = Elems(r) \ {r[1]}
      /\ Holds(free, Detached(n), f) /\ Holds(Popped(n), Detached(n), u)
      /\ Popped(n) \in Lists(Queued)
      /\ Detached(n) \in [Thread -> Queued \cup {NULL}]
  BY <1>2, PopOrder
<1> HIDE DEF u
<1>4. /\ nxt' = r[1] /\ pendsv' = TRUE
      /\ ready' = TailPut(Popped(n), cur)
      /\ next' = TailPutLinks(Popped(n), Detached(n), cur)
  BY <1>1, <1>3 DEF Rotate
<1>5. cur \notin Elems(u) /\ Elems(u) \cap Elems(f) = {}
  BY <1>3
<1>6. /\ Append(u, cur) \in Seq(Queued) /\ Once(Append(u, cur))
      /\ Elems(Append(u, cur)) = (Elems(r) \ {r[1]}) \cup {cur}
  BY <1>3, <1>5, ElemsOfAppend
<1>7. Holds(ready', next', Append(u, cur))
  BY <1>1, <1>3, <1>4, <1>5, TailAdded
<1>8. Holds(free, next', f)
  BY <1>1, <1>3, <1>4, <1>5, TailAddedElsewhere
<1>9. QED
  BY <1>2, <1>3, <1>4, <1>6, <1>7, <1>8 DEF u

(* A tick that falls outside thread_create. *)
LEMMA TickPools ==
    ASSUME TypeOK, Posts, NEW f \in Seq(Queued), NEW r \in Seq(Queued),
           FreeHolds(f), ReadyHolds(r), SysTick, pc[cur] \in Calm
    PROVE  Posts' /\ Moved(r)
<1>1. /\ ~pendsv /\ ready.head # NULL /\ Rotate(next, status)
      /\ UNCHANGED <<free, cur, pc, node>>
  BY DEF SysTick, locals
<1>2. /\ cur = Running /\ cur \in Alive /\ Alive \subseteq Queued
      /\ Spare \cap Alive = {}
  BY <1>1, PoolFacts
<1>3. pc[cur] \notin Drawing \cup Taken \cup Linking \cup Creating
                     \cup {"resume", "assert_none"}
  BY DEF Calm, Drawing, Taken, Linking, Creating
<1>4. /\ Once(f) /\ Elems(f) = Spare /\ Holds(free, next, f)
      /\ Once(r) /\ Elems(r) = Alive \ {cur} /\ Holds(ready, next, r)
  BY <1>2, <1>3 DEF FreeHolds, ReadyHolds, Drawing, Taken, Linking
<1>5. PICK q \in Seq(Queued) :
      /\ r # <<>> /\ nxt' = r[1] /\ q = Append(Tail(r), cur)
      /\ nxt' \in Elems(r) /\ pendsv' = TRUE /\ Once(q)
      /\ Elems(q) = (Elems(r) \ {nxt'}) \cup {cur}
      /\ Holds(free, next', f) /\ Holds(ready', next', q)
  <2>1. Elems(f) \cap Elems(r) = {} /\ cur \notin Elems(f) \cup Elems(r)
        /\ cur \in Queued /\ next \in [Thread -> Queued \cup {NULL}]
    BY <1>2, <1>4 DEF TypeOK
  <2>2. QED
    BY <1>1, <1>4, <2>1, RotateOrder
<1>6. Running' = nxt' /\ nxt' \in Alive /\ nxt' # cur
  BY <1>4, <1>5 DEF Running
<1>7. Spare' = Spare /\ Alive' = Alive
  BY <1>1 DEF Spare, Alive
<1>8. Posts'
  BY <1>1, <1>6, <1>7 DEF Posts
<1>9. FreeHolds(f)' /\ ReadyHolds(q)'
  <2>1. Elems(q) = Alive \ {nxt'}
    BY <1>2, <1>4, <1>5, <1>6
  <2>2. pc'[cur'] \notin Drawing \cup Taken \cup Linking
    BY <1>1, <1>3 DEF Drawing, Taken, Linking, Creating
  <2>3. QED
    BY <1>1, <1>4, <1>5, <1>6, <1>7, <2>1, <2>2
       DEF FreeHolds, ReadyHolds, Drawing, Taken, Linking
<1>10. QED
  BY <1>1, <1>2, <1>3, <1>5, <1>6, <1>8, <1>9 DEF Shown, Creating, Moved, Turn

(* PendSV installs the thread that has been chosen; the one it replaces was *)
(* outside thread_create, and so is its successor.                         *)
LEMMA PendSVPools ==
    ASSUME TypeOK, Posts, NEW f \in Seq(Queued), NEW r \in Seq(Queued),
           FreeHolds(f), ReadyHolds(r), PendSV
    PROVE  Posts' /\ Moved(r)
<1>1. /\ pendsv /\ cur' = nxt /\ ~pendsv'
      /\ UNCHANGED <<free, ready, next, pc, node>>
  BY DEF PendSV, locals, pools
<1>2. Running = nxt /\ Running' = nxt /\ nxt # cur /\ nxt \in Queued
  BY <1>1, PoolFacts DEF Running, Posts
<1>3. Spare' = Spare /\ Alive' = Alive
  BY <1>1 DEF Spare, Alive
<1>4. \A t \in Thread : pc[t] \in Calm
  BY <1>1 DEF Posts
<1>5. pc[nxt] \in Calm /\ pc[cur] \in Calm
  BY <1>2, <1>4, PoolFacts
<1>6. Posts'
  BY <1>1, <1>2, <1>3, <1>4, <1>5
     DEF Posts, Creating, Drawing, Taken, Calm, Ending
<1>7. FreeHolds(f)' /\ ReadyHolds(r)'
  BY <1>1, <1>2, <1>3, <1>5
     DEF FreeHolds, ReadyHolds, Calm, Drawing, Taken, Linking
<1>8. QED
  BY <1>1, <1>2, <1>5, <1>6, <1>7, Unturned DEF Calm

-----------------------------------------------------------------------------
(* A step of the thread that has the core, to a label where it is alive.    *)
LEMMA PostsMoved ==
    ASSUME TypeOK, Posts, ~pendsv,
           NEW l \in Creating \cup Calm \cup {"resume", "assert_none"},
           l \notin {"unused", "dead"},
           pc' = [pc EXCEPT ![cur] = l], UNCHANGED <<cur, nxt, pendsv>>,
           l \in Ending => cur \in Workers,
           l \in Creating \cup {"assert_none"} => node'[cur] \in Workers \ {cur},
           l \in Drawing \cup Taken => node'[cur] \in Spare,
           l \in Creating \ (Drawing \cup Taken) => pc[node'[cur]] = "run"
    PROVE  /\ Posts' /\ Spare' = Spare /\ Alive' = Alive /\ Running' = Running
           /\ pc'[cur'] = l /\ cur' = cur /\ cur = Running
<1>1. /\ cur \in Thread /\ cur = Running /\ cur \in Alive /\ Alive \subseteq Queued
      /\ pc[cur] \notin {"unused", "dead"}
  BY PoolFacts
<1>2. pc'[cur'] = l /\ \A t \in Thread \ {cur} : pc'[t] = pc[t]
  BY <1>1 DEF TypeOK
<1>3. Spare' = Spare /\ Alive' = Alive
  BY <1>1, SpareKept
<1>4. Running' = Running
  BY DEF Running
<1>5. Posts'
  BY <1>1, <1>2, <1>3, <1>4, ThreadFacts DEF Posts
<1>6. QED
  BY <1>1, <1>2, <1>3, <1>4, <1>5

(* Labels that mean nothing to the pools: the thread is not in thread_create *)
(* or has done with the lists there.                                       *)
Plain == (Calm \ {"unused", "dead"}) \cup
         {"resume", "load", "mark", "reload", "start"}

LEMMA PlainMoved ==
    ASSUME TypeOK, Posts, NEW f \in Seq(Queued), NEW r \in Seq(Queued),
           FreeHolds(f), ReadyHolds(r), ~pendsv, pc[cur] \in Plain, NEW l \in Plain,
           pc' = [pc EXCEPT ![cur] = l],
           UNCHANGED <<free, ready, next, cur, nxt, pendsv>>,
           l \in Ending => cur \in Workers,
           l \in Creating => pc[cur] \in Creating /\ node'[cur] = node[cur]
    PROVE  Posts' /\ Moved(r)
<1>1. l \notin {"dead", "unused", "assert_none"}
               \cup Drawing \cup Taken \cup Linking
      /\ pc[cur] \notin Drawing \cup Taken \cup Linking
      /\ l \in Creating \cup Calm \cup {"resume"}
  BY DEF Plain, Calm, Creating, Drawing, Taken, Linking
<1>2. l \in Creating => /\ node'[cur] \in Workers \ {cur}
                        /\ pc[node'[cur]] = "run"
  BY <1>1 DEF Posts
<1>3. /\ Posts' /\ Spare' = Spare /\ Alive' = Alive /\ Running' = Running
      /\ pc'[cur'] = l
  BY <1>1, <1>2, PostsMoved
<1>4. FreeHolds(f)' /\ ReadyHolds(r)'
  BY <1>1, <1>3 DEF FreeHolds, ReadyHolds, Drawing, Taken, Linking
<1>5. QED
  BY <1>1, <1>3, <1>4, Unturned DEF Linking

-----------------------------------------------------------------------------
(* thread_create, step by step *)

(* It reads the head of the free pool ... *)
LEMMA CreatePools ==
    ASSUME TypeOK, Posts, NEW f \in Seq(Queued), NEW r \in Seq(Queued),
           FreeHolds(f), ReadyHolds(r), NEW t \in Thread, Create(t)
    PROVE  Posts' /\ Moved(r)
<1>1. /\ t = cur /\ ~pendsv /\ pc[cur] = "run"
      /\ UNCHANGED <<free, ready, next, cur, nxt, pendsv>>
  BY DEF Create, At, pools, cpu
<1>2. CASE free.head = NULL
  <2>1. UNCHANGED <<pc, node, Spare, Alive, Running>>
    BY <1>1, <1>2 DEF Create, Spare, Alive, Running
  <2>2. Posts'
    BY <1>1, <2>1 DEF Posts
  <2>3. FreeHolds(f)' /\ ReadyHolds(r)'
    BY <1>1, <2>1 DEF FreeHolds, ReadyHolds
  <2>4. QED
    BY <1>1, <2>1, <2>2, <2>3, Unturned
<1>3. CASE free.head # NULL
  <2>1. /\ pc' = [pc EXCEPT ![cur] = "unlink"]
        /\ node' = [node EXCEPT ![cur] = free.head]
    BY <1>1, <1>3 DEF Create, Goto
  <2>2. /\ Once(f) /\ Elems(f) = Spare /\ Holds(free, next, f)
        /\ Once(r) /\ Elems(r) = Alive \ {Running} /\ Holds(ready, next, r)
    BY <1>1 DEF FreeHolds, ReadyHolds, Drawing, Taken, Linking
  <2>3. f # <<>> /\ free.head = f[1] /\ f[1] \in Elems(f)
    BY <1>3, <2>2, ElemsOfTail DEF Holds, EmptyList
  <2>4. /\ node'[cur] = f[1] /\ cur \in Thread /\ cur \notin Spare
        /\ f[1] \in Spare /\ f[1] \in Workers
    BY <1>1, <2>1, <2>2, <2>3, PoolFacts DEF TypeOK
  <2>5. /\ Posts' /\ Spare' = Spare /\ Alive' = Alive /\ Running' = Running
        /\ pc'[cur'] = "unlink" /\ cur' = cur
    BY <1>1, <2>1, <2>4, PostsMoved DEF Creating, Drawing, Taken, Calm, Ending
  <2>6. FreeHolds(f)' /\ ReadyHolds(r)'
    BY <1>1, <2>2, <2>3, <2>4, <2>5
       DEF FreeHolds, ReadyHolds, Drawing, Taken, Linking
  <2>7. QED
    BY <1>1, <2>5, <2>6, Unturned
<1>4. QED
  BY <1>2, <1>3

(* ... compares it with the tail, and loads its link when another follows,  *)
LEMMA CreateUnlinkPools ==
    ASSUME TypeOK, Posts, NEW f \in Seq(Queued), NEW r \in Seq(Queued),
           FreeHolds(f), ReadyHolds(r), NEW t \in Thread,
           CreateUnlink(t) \/ CreateFollow(t)
    PROVE  Posts' /\ Moved(r)
<1>1. PICK l \in {"empty", "follow", "advance"} :
        /\ t = cur /\ ~pendsv /\ cur \in Thread
        /\ pc[cur] \in {"unlink", "follow"}
        /\ pc' = [pc EXCEPT ![cur] = l]
        /\ UNCHANGED <<free, ready, next, cur, nxt, pendsv, node>>
        /\ l = "empty" => node[cur] = free.tail
        /\ l = "follow" => node[cur] # free.tail
        /\ l = "advance" => /\ pc[cur] = "follow"
                            /\ ptr' = [ptr EXCEPT ![cur] = next[node[cur]]]
  BY DEF CreateUnlink, CreateFollow, At, Goto, cpu, locals, pools
<1>2. /\ Once(f) /\ Elems(f) = Spare /\ Holds(free, next, f)
      /\ f # <<>> /\ node[cur] = f[1]
      /\ pc[cur] = "follow" => node[cur] # free.tail
      /\ Once(r) /\ Elems(r) = Alive \ {Running} /\ Holds(ready, next, r)
  BY <1>1 DEF FreeHolds, ReadyHolds, Drawing, Taken, Linking
<1>3. l = "advance" => ptr'[cur] = next[node[cur]]
  BY <1>1 DEF TypeOK
<1>4. node[cur] \in Workers \ {cur} /\ node[cur] \in Spare
  BY <1>1 DEF Posts, Creating, Drawing
<1>5. /\ Posts' /\ Spare' = Spare /\ Alive' = Alive /\ Running' = Running
      /\ pc'[cur'] = l
  BY <1>1, <1>4, PostsMoved DEF Creating, Drawing, Taken, Ending
<1>6. FreeHolds(f)' /\ ReadyHolds(r)'
  BY <1>1, <1>2, <1>3, <1>5 DEF FreeHolds, ReadyHolds, Drawing, Taken, Linking
<1>7. QED
  BY <1>1, <1>5, <1>6, Unturned

(* ... takes it off, the tail pointer last when it was the only node ...     *)
LEMMA CreateEmptyPools ==
    ASSUME TypeOK, Posts, NEW f \in Seq(Queued), NEW r \in Seq(Queued),
           FreeHolds(f), ReadyHolds(r), NEW t \in Thread,
           CreateEmpty(t) \/ CreateAdvance(t)
    PROVE  Posts' /\ Moved(r)
<1>1. /\ t = cur /\ ~pendsv /\ pc[cur] \in {"empty", "advance"}
      /\ UNCHANGED <<ready, next, cur, nxt, pendsv, node>>
  BY DEF CreateEmpty, CreateAdvance, At, cpu, locals
<1>2. /\ Once(f) /\ Elems(f) = Spare /\ Holds(free, next, f)
      /\ f # <<>> /\ node[cur] = f[1]
      /\ Once(r) /\ Elems(r) = Alive \ {Running} /\ Holds(ready, next, r)
  BY <1>1 DEF FreeHolds, ReadyHolds, Drawing, Taken, Linking
<1>3. PICK g \in Seq(Queued) :
        /\ Once(g) /\ Elems(g) = Spare \ {node[cur]}
        /\ Holds(HeadGet(free, next), next, g)
  <2>1. NULL \notin Queued /\ free \in Lists(Queued)
    BY PoolFacts DEF TypeOK
  <2>2. Holds(HeadGet(free, next), next, Tail(f))
    BY <1>2, <2>1, HeadGone
  <2>3. Tail(f) \in Seq(Queued) /\ Once(Tail(f)) /\ Elems(Tail(f)) = Spare \ {node[cur]}
    BY <1>2, ElemsOfTail
  <2>4. QED
    BY <2>2, <2>3
<1>4. free.head = node[cur] /\ free.head # NULL /\ free \in Lists(Queued)
  BY <1>2, PoolFacts DEF Holds, TypeOK
<1>5. node[cur] \in Workers \ {cur} /\ node[cur] \in Spare
  BY <1>1 DEF Posts, Creating, Drawing
<1>6. CASE CreateEmpty(t)
  <2>1. /\ free' = [free EXCEPT !.head = NULL]
        /\ pc' = [pc EXCEPT ![cur] = "untail"] /\ node[cur] = free.tail
    BY <1>1, <1>6 DEF CreateEmpty, At, Goto, FreeHolds
  <2>2. [free' EXCEPT !.tail = NULL] = EmptyList /\ HeadGet(free, next) = EmptyList
    <3>1. HeadGet(free, next) = EmptyList
      BY <1>4, <2>1 DEF HeadGet
    <3>2. PICK h, k : free = [head |-> h, tail |-> k]
      BY <1>4 DEF Lists
    <3>3. free' = [head |-> NULL, tail |-> k]
      BY <2>1, <3>2
    <3>4. [free' EXCEPT !.tail = NULL] = [head |-> NULL, tail |-> NULL]
      BY <3>3
    <3>5. QED
      BY <3>1, <3>4 DEF EmptyList
  <2>3. /\ Posts' /\ Spare' = Spare /\ Alive' = Alive /\ Running' = Running
        /\ pc'[cur'] = "untail"
    BY <1>1, <1>5, <2>1, PostsMoved DEF Creating, Drawing, Taken, Calm, Ending
  <2>4. FreeHolds(g)' /\ ReadyHolds(r)'
    BY <1>1, <1>2, <1>3, <2>2, <2>3
       DEF FreeHolds, ReadyHolds, Drawing, Taken, Linking
  <2>5. QED
    BY <1>1, <2>3, <2>4, Unturned
<1>7. CASE CreateAdvance(t)
  <2>1. /\ free' = [free EXCEPT !.head = next[node[cur]]]
        /\ pc' = [pc EXCEPT ![cur] = "check"] /\ node[cur] # free.tail
    BY <1>1, <1>7 DEF CreateAdvance, At, Goto, FreeHolds
  <2>2. free' = HeadGet(free, next)
    BY <1>4, <2>1 DEF HeadGet
  <2>3. /\ Posts' /\ Spare' = Spare /\ Alive' = Alive /\ Running' = Running
        /\ pc'[cur'] = "check"
    BY <1>1, <1>5, <2>1, PostsMoved DEF Creating, Drawing, Taken, Calm, Ending
  <2>4. FreeHolds(g)' /\ ReadyHolds(r)'
    BY <1>1, <1>2, <1>3, <2>1, <2>2, <2>3
       DEF FreeHolds, ReadyHolds, Drawing, Taken, Linking
  <2>5. QED
    BY <1>1, <2>3, <2>4, Unturned
<1>8. QED
  BY <1>6, <1>7

(* ... resets that pointer, checks the status ...                           *)
LEMMA CreateTakenPools ==
    ASSUME TypeOK, Posts, NEW f \in Seq(Queued), NEW r \in Seq(Queued),
           FreeHolds(f), ReadyHolds(r), NEW t \in Thread, CreateUntail(t) \/ CreateCheck(t)
    PROVE  Posts' /\ Moved(r)
<1>1. PICK l \in {"check", "init", "assert_none"} :
        /\ t = cur /\ ~pendsv /\ pc[cur] \in {"untail", "check"}
        /\ pc' = [pc EXCEPT ![cur] = l]
        /\ UNCHANGED <<ready, next, cur, nxt, pendsv, node>>
        /\ free' = IF pc[cur] = "untail" THEN [free EXCEPT !.tail = NULL] ELSE free
  BY DEF CreateUntail, CreateCheck, At, Goto, cpu, locals, pools
<1>2. /\ Once(f) /\ Elems(f) = Spare \ {node[cur]} /\ Holds(free', next, f)
      /\ Once(r) /\ Elems(r) = Alive \ {Running} /\ Holds(ready, next, r)
  BY <1>1 DEF FreeHolds, ReadyHolds, Drawing, Taken, Linking
<1>3. node[cur] \in Workers \ {cur} /\ node[cur] \in Spare
  BY <1>1 DEF Posts, Creating, Drawing, Taken
<1>4. /\ Posts' /\ Spare' = Spare /\ Alive' = Alive /\ Running' = Running
      /\ pc'[cur'] = l
  BY <1>1, <1>3, PostsMoved DEF Creating, Drawing, Taken, Calm, Ending
<1>5. FreeHolds(f)' /\ ReadyHolds(r)'
  BY <1>1, <1>2, <1>4 DEF FreeHolds, ReadyHolds, Drawing, Taken, Linking
<1>6. QED
  BY <1>1, <1>4, <1>5, Unturned

(* ... sets up the context, which makes the object a thread ...             *)
LEMMA CreateInitPools ==
    ASSUME TypeOK, Posts, NEW f \in Seq(Queued), NEW r \in Seq(Queued),
           FreeHolds(f), ReadyHolds(r), NEW t \in Thread, CreateInit(t)
    PROVE  Posts' /\ Moved(r)
<1>1. /\ t = cur /\ ~pendsv /\ pc[cur] = "init" /\ cur \in Thread
      /\ pc' = [pc EXCEPT ![node[cur]] = "run", ![cur] = "detach"]
      /\ UNCHANGED <<free, ready, next, cur, nxt, pendsv, node>>
  BY DEF CreateInit, At, cpu, locals, pools
<1>2. /\ Once(f) /\ Elems(f) = Spare \ {node[cur]} /\ Holds(free, next, f)
      /\ Once(r) /\ Elems(r) = Alive \ {Running} /\ Holds(ready, next, r)
  BY <1>1 DEF FreeHolds, ReadyHolds, Drawing, Taken, Linking
<1>3. node[cur] \in Workers \ {cur} /\ node[cur] \in Spare
  BY <1>1 DEF Posts, Creating, Drawing, Taken
<1>4. /\ pc'[cur'] = "detach" /\ pc'[node[cur]] = "run"
      /\ \A u \in Thread \ {cur, node[cur]} : pc'[u] = pc[u]
  BY <1>1, <1>3, ThreadFacts DEF TypeOK
<1>5. Spare' = Spare \ {node[cur]} /\ Alive' = Alive \cup {node[cur]}
  <2>1. \A u \in Thread : u \in Spare' <=> u \in Spare /\ u # node[cur]
    BY <1>1, <1>4 DEF Spare
  <2>2. Spare \subseteq Thread /\ Spare' \subseteq Thread
    BY DEF Spare
  <2>3. QED
    BY <1>3, <2>1, <2>2, PoolFacts DEF Alive
<1>6. Running' = Running /\ Running = cur /\ cur \in Alive
  BY <1>1, PoolFacts DEF Running
<1>7. Posts'
  BY <1>1, <1>3, <1>4, <1>5, <1>6
     DEF Posts, Creating, Drawing, Taken, Calm, Ending
<1>8. node[cur] \notin Alive
  BY <1>3, PoolFacts
<1>9. FreeHolds(f)' /\ ReadyHolds(r)'
  BY <1>1, <1>2, <1>4, <1>5, <1>6, <1>8
     DEF FreeHolds, ReadyHolds, Drawing, Taken, Linking
<1>10. QED
  BY <1>1, <1>4, <1>6, <1>7, <1>9, Unturned

(* ... and cuts the old link, which neither pool uses any more.             *)
LEMMA CreateDetachPools ==
    ASSUME TypeOK, Posts, NEW f \in Seq(Queued), NEW r \in Seq(Queued),
           FreeHolds(f), ReadyHolds(r), NEW t \in Thread, CreateDetach(t)
    PROVE  Posts' /\ Moved(r)
<1>1. /\ t = cur /\ ~pendsv /\ pc[cur] = "detach"
      /\ pc' = [pc EXCEPT ![cur] = "test"]
      /\ next' = [next EXCEPT ![node[cur]] = NULL]
      /\ UNCHANGED <<free, ready, cur, nxt, pendsv, node>>
  BY DEF CreateDetach, At, Goto, cpu, locals
<1>2. /\ node[cur] \in Workers \ {cur} /\ pc[node[cur]] = "run"
      /\ node[cur] \in Thread
  BY <1>1, ThreadFacts DEF Posts, Creating, Drawing, Taken
<1>3. /\ Once(f) /\ Elems(f) = Spare /\ Holds(free, next, f)
      /\ Once(r) /\ Elems(r) = Alive \ {Running, node[cur]}
      /\ Holds(ready, next, r)
  BY <1>1 DEF FreeHolds, ReadyHolds, Drawing, Taken, Linking
<1>4. node[cur] \notin Spare
  BY <1>2 DEF Spare
<1>5. Holds(free, next', f) /\ Holds(ready, next', r) /\ next'[node[cur]] = NULL
  <2>1. node[cur] \notin Elems(f) /\ node[cur] \notin Elems(r)
    BY <1>3, <1>4
  <2>2. next'[node[cur]] = NULL
    BY <1>1, <1>2 DEF TypeOK
  <2>3. QED
    BY <1>1, <1>3, <2>1, <2>2, LinkWritten
<1>6. /\ Posts' /\ Spare' = Spare /\ Alive' = Alive /\ Running' = Running
      /\ pc'[cur'] = "test"
  BY <1>1, <1>2, PostsMoved DEF Creating, Drawing, Taken, Calm, Ending
<1>7. FreeHolds(f)' /\ ReadyHolds(r)'
  BY <1>1, <1>3, <1>5, <1>6 DEF FreeHolds, ReadyHolds, Drawing, Taken, Linking
<1>8. QED
  BY <1>1, <1>6, <1>7, Unturned

(* What the pools are while a thread is about to be linked.                *)
LEMMA LinkingFacts ==
    ASSUME TypeOK, Posts, ~pendsv, NEW f \in Seq(Queued), NEW r \in Seq(Queued),
           FreeHolds(f), ReadyHolds(r),
           pc[cur] \in Linking \ {"detach"}
    PROVE  /\ node[cur] \in Workers \ {cur} /\ pc[node[cur]] = "run"
           /\ node[cur] \in Thread /\ node[cur] \in Queued /\ node[cur] # NULL
           /\ next[node[cur]] = NULL
           /\ Once(f) /\ Elems(f) = Spare /\ Holds(free, next, f)
           /\ Once(r) /\ Elems(r) = Alive \ {Running, node[cur]}
           /\ pc[cur] # "settail" => Holds(ready, next, r)
           /\ node[cur] \notin Elems(f) /\ node[cur] \notin Elems(r)
           /\ node[cur] \in Alive /\ node[cur] # Running
           /\ Elems(f) \cap Elems(r) = {}
<1>1. /\ node[cur] \in Workers \ {cur} /\ pc[node[cur]] = "run"
      /\ node[cur] \in Thread /\ node[cur] \in Queued /\ node[cur] # NULL
  BY ThreadFacts DEF Posts, Creating, Drawing, Taken, Linking
<1>2. /\ Once(f) /\ Elems(f) = Spare /\ Holds(free, next, f)
      /\ Once(r) /\ Elems(r) = Alive \ {Running, node[cur]}
      /\ pc[cur] # "settail" => Holds(ready, next, r)
      /\ next[node[cur]] = NULL
  BY DEF FreeHolds, ReadyHolds, Drawing, Taken, Linking
<1>3. node[cur] \notin Spare /\ node[cur] \in Alive
  BY <1>1 DEF Spare, Alive
<1>4. node[cur] # Running /\ Spare \cap Alive = {}
  BY <1>1, PoolFacts
<1>5. QED
  BY <1>1, <1>2, <1>3, <1>4

(* slist_tail_put on the ready pool: it tests the head ...                  *)
LEMMA CreateTestPools ==
    ASSUME TypeOK, Posts, NEW f \in Seq(Queued), NEW r \in Seq(Queued),
           FreeHolds(f), ReadyHolds(r), NEW t \in Thread, CreateTest(t)
    PROVE  Posts' /\ Moved(r)
<1>1. PICK l \in {"first", "link"} :
        /\ t = cur /\ ~pendsv /\ pc[cur] = "test"
        /\ pc' = [pc EXCEPT ![cur] = l]
        /\ l = "first" <=> ready.head = NULL
        /\ UNCHANGED <<free, ready, next, cur, nxt, pendsv, node>>
  BY DEF CreateTest, At, Goto, cpu, locals, pools
<1>2. /\ node[cur] \in Workers \ {cur} /\ pc[node[cur]] = "run"
      /\ next[node[cur]] = NULL
      /\ Once(f) /\ Elems(f) = Spare /\ Holds(free, next, f)
      /\ Once(r) /\ Elems(r) = Alive \ {Running, node[cur]}
      /\ Holds(ready, next, r)
  BY <1>1, LinkingFacts DEF Linking
<1>3. ready.head = NULL <=> r = <<>>
  <2>1. r # <<>> => r[1] \in Queued /\ NULL \notin Queued
    BY <1>2, ElemsOfTail, PoolFacts
  <2>2. QED
    BY <1>2, <2>1 DEF Holds, EmptyList
<1>4. /\ Posts' /\ Spare' = Spare /\ Alive' = Alive /\ Running' = Running
      /\ pc'[cur'] = l
  BY <1>1, <1>2, PostsMoved DEF Creating, Drawing, Taken, Calm, Ending
<1>5. FreeHolds(f)' /\ ReadyHolds(r)'
  BY <1>1, <1>2, <1>3, <1>4 DEF FreeHolds, ReadyHolds, Drawing, Taken, Linking
<1>6. QED
  BY <1>1, <1>4, <1>5, Unturned

(* ... writes the head of an empty pool ...                                 *)
LEMMA CreateFirstPools ==
    ASSUME TypeOK, Posts, NEW f \in Seq(Queued), NEW r \in Seq(Queued),
           FreeHolds(f), ReadyHolds(r), NEW t \in Thread, CreateFirst(t)
    PROVE  Posts' /\ Moved(r)
<1>1. /\ t = cur /\ ~pendsv /\ pc[cur] = "first"
      /\ pc' = [pc EXCEPT ![cur] = "settail"]
      /\ ready' = [ready EXCEPT !.head = node[cur]]
      /\ UNCHANGED <<free, next, cur, nxt, pendsv, node>>
  BY DEF CreateFirst, At, Goto, cpu, locals
<1>2. /\ node[cur] \in Workers \ {cur} /\ pc[node[cur]] = "run"
      /\ next[node[cur]] = NULL
      /\ Once(f) /\ Elems(f) = Spare /\ Holds(free, next, f)
      /\ Once(r) /\ Elems(r) = Alive \ {Running, node[cur]}
      /\ Holds(ready, next, r)
  BY <1>1, LinkingFacts DEF Linking
<1>3. r = <<>> /\ ready = [head |-> NULL, tail |-> NULL]
  BY <1>1, <1>2 DEF ReadyHolds, Holds, EmptyList
<1>4. ready' = [head |-> node[cur], tail |-> NULL]
  BY <1>1, <1>3
<1>5. [ready' EXCEPT !.tail = node[cur]] = [head |-> node[cur], tail |-> node[cur]]
  BY <1>4
<1>6. Holds([ready' EXCEPT !.tail = node[cur]], next, Append(r, node[cur]))
  BY <1>3, <1>5 DEF Holds
<1>7. /\ Posts' /\ Spare' = Spare /\ Alive' = Alive /\ Running' = Running
      /\ pc'[cur'] = "settail"
  BY <1>1, <1>2, PostsMoved DEF Creating, Drawing, Taken, Calm, Ending
<1>8. FreeHolds(f)' /\ ReadyHolds(r)'
  BY <1>1, <1>2, <1>3, <1>4, <1>6, <1>7
     DEF FreeHolds, ReadyHolds, Drawing, Taken, Linking
<1>9. Turn(r, r)
  <2>1. node[cur] # Running
    BY <1>1, <1>2, PoolFacts
  <2>2. Shown(r) = <<>> /\ Shown(r)' = <<node[cur]>> /\ Elems(<<>>) = {}
    BY <1>1, <1>3, <1>7 DEF Shown, Elems
  <2>3. <<node[cur]>> = Append(<<>>, node[cur])
    OBVIOUS
  <2>4. QED
    BY <1>1, <1>2, <1>7, <2>1, <2>2, <2>3 DEF Turn, Linking
<1>10. QED
  BY <1>7, <1>8, <1>9 DEF Moved

(* ... or loads the tail pointer, which is never null ...                   *)
LEMMA CreateLinkPools ==
    ASSUME TypeOK, Posts, NEW f \in Seq(Queued), NEW r \in Seq(Queued),
           FreeHolds(f), ReadyHolds(r), NEW t \in Thread,
           CreateLink(t) \/ CreateNoTail(t)
    PROVE  Posts' /\ Moved(r) /\ ~CreateNoTail(t)
<1>1. t = cur /\ ~pendsv /\ pc[cur] = "link" /\ cur \in Thread
  BY DEF CreateLink, CreateNoTail, At
<1>2. /\ node[cur] \in Workers \ {cur} /\ pc[node[cur]] = "run"
      /\ next[node[cur]] = NULL
      /\ Once(f) /\ Elems(f) = Spare /\ Holds(free, next, f)
      /\ Once(r) /\ Elems(r) = Alive \ {Running, node[cur]}
      /\ Holds(ready, next, r)
  BY <1>1, LinkingFacts DEF Linking
<1>3. r # <<>> /\ ready.tail # NULL
  <2>1. r # <<>> /\ ready.tail = r[Len(r)] /\ Len(r) \in 1 .. Len(r)
    BY <1>1, <1>2 DEF ReadyHolds, Holds
  <2>2. r[Len(r)] \in Queued
    BY <2>1
  <2>3. QED
    BY <2>1, <2>2, PoolFacts
<1>4. CreateLink(t) /\ ~CreateNoTail(t)
  BY <1>3 DEF CreateNoTail
<1>5. /\ pc' = [pc EXCEPT ![cur] = "splice"]
      /\ ptr' = [ptr EXCEPT ![cur] = ready.tail]
      /\ UNCHANGED <<free, ready, next, cur, nxt, pendsv, node>>
  BY <1>1, <1>4 DEF CreateLink, Goto, cpu, pools
<1>6. ptr'[cur] = ready.tail
  BY <1>1, <1>5 DEF TypeOK
<1>7. /\ Posts' /\ Spare' = Spare /\ Alive' = Alive /\ Running' = Running
      /\ pc'[cur'] = "splice"
  BY <1>1, <1>2, <1>5, PostsMoved DEF Creating, Drawing, Taken, Ending
<1>8. FreeHolds(f)' /\ ReadyHolds(r)'
  BY <1>2, <1>3, <1>5, <1>6, <1>7
     DEF FreeHolds, ReadyHolds, Drawing, Taken, Linking
<1>9. QED
  BY <1>1, <1>4, <1>5, <1>7, <1>8, Unturned

(* ... and writes the link of the last node ...                             *)
LEMMA CreateSplicePools ==
    ASSUME TypeOK, Posts, NEW f \in Seq(Queued), NEW r \in Seq(Queued),
           FreeHolds(f), ReadyHolds(r), NEW t \in Thread, CreateSplice(t)
    PROVE  Posts' /\ Moved(r)
<1>1. t = cur /\ ~pendsv /\ pc[cur] = "splice"
  BY DEF CreateSplice, At
<1>2. /\ node[cur] \in Workers \ {cur} /\ pc[node[cur]] = "run"
      /\ node[cur] \in Queued /\ next[node[cur]] = NULL /\ node[cur] \in Thread
      /\ Once(f) /\ Elems(f) = Spare /\ Holds(free, next, f)
      /\ Once(r) /\ Elems(r) = Alive \ {Running, node[cur]}
      /\ Holds(ready, next, r)
      /\ node[cur] \notin Elems(r) /\ Elems(f) \cap Elems(r) = {}
  BY <1>1, LinkingFacts DEF Linking
<1>3. /\ r # <<>> /\ ready.head = r[1] /\ ready.tail = r[Len(r)]
      /\ Len(r) \in 1 .. Len(r) /\ 1 \in 1 .. Len(r)
  BY <1>1, <1>2 DEF ReadyHolds, Holds
<1>4. /\ ready.tail \in Elems(r) /\ ready.tail # NULL /\ ready.head # NULL
      /\ ready.tail # node[cur] /\ ready \in Lists(Queued)
      /\ next \in [Thread -> Queued \cup {NULL}] /\ NULL \notin Queued
      /\ Queued \subseteq Thread
  <2>1. ready.tail \in Elems(r) /\ r[1] \in Queued /\ r[Len(r)] \in Queued
    BY <1>3 DEF Elems
  <2>2. QED
    BY <1>2, <1>3, <2>1, PoolFacts DEF TypeOK
<1>5. ptr[cur] = ready.tail
  BY <1>1 DEF ReadyHolds
<1>6. /\ pc' = [pc EXCEPT ![cur] = "settail"]
      /\ next' = [next EXCEPT ![ready.tail] = node[cur]]
      /\ UNCHANGED <<free, ready, cur, nxt, pendsv, node>>
  BY <1>1, <1>5 DEF CreateSplice, Goto, cpu
<1>7. /\ next' = TailPutLinks(ready, next, node[cur])
      /\ [ready EXCEPT !.tail = node[cur]] = TailPut(ready, node[cur])
  BY <1>4, <1>6 DEF TailPutLinks, TailPut
<1>8. Holds([ready EXCEPT !.tail = node[cur]], next', Append(r, node[cur]))
  <2>1. Holds(TailPut(ready, node[cur]), TailPutLinks(ready, next, node[cur]),
              Append(r, node[cur]))
    BY <1>2, <1>4, TailAdded
  <2>2. QED
    BY <1>7, <2>1
<1>9. Holds(free, next', f) /\ next'[node[cur]] = NULL
  <2>1. Holds(free, next', f)
    BY <1>2, <1>4, <1>7, TailAddedElsewhere
  <2>2. QED
    BY <1>2, <1>4, <1>6, <2>1
<1>10. /\ Posts' /\ Spare' = Spare /\ Alive' = Alive /\ Running' = Running
       /\ pc'[cur'] = "settail"
  BY <1>1, <1>2, <1>6, PostsMoved DEF Creating, Drawing, Taken, Calm, Ending
<1>11. FreeHolds(f)' /\ ReadyHolds(r)'
  BY <1>2, <1>3, <1>6, <1>8, <1>9, <1>10
     DEF FreeHolds, ReadyHolds, Drawing, Taken, Linking
<1>12. QED
  BY <1>1, <1>3, <1>10, <1>11 DEF Moved, Turn, Shown

(* ... and moves the tail pointer, which makes the new thread the last one. *)
LEMMA CreateSetTailPools ==
    ASSUME TypeOK, Posts, NEW f \in Seq(Queued), NEW r \in Seq(Queued),
           FreeHolds(f), ReadyHolds(r), NEW t \in Thread, CreateSetTail(t)
    PROVE  Posts' /\ Moved(r)
<1>1. /\ t = cur /\ ~pendsv /\ pc[cur] = "settail"
      /\ pc' = [pc EXCEPT ![cur] = "load"]
      /\ ready' = [ready EXCEPT !.tail = node[cur]]
      /\ UNCHANGED <<free, next, cur, nxt, pendsv, node>>
  BY DEF CreateSetTail, At, Goto, cpu, locals
<1>2. /\ node[cur] \in Workers \ {cur} /\ pc[node[cur]] = "run"
      /\ node[cur] \in Queued /\ node[cur] \in Alive /\ node[cur] # Running
      /\ Once(f) /\ Elems(f) = Spare /\ Holds(free, next, f)
      /\ Once(r) /\ Elems(r) = Alive \ {Running, node[cur]}
      /\ node[cur] \notin Elems(r)
  BY <1>1, LinkingFacts DEF Linking
<1>3. Holds(ready', next, Append(r, node[cur]))
  BY <1>1 DEF ReadyHolds
<1>4. PICK q \in Seq(Queued) :
        /\ q = Append(r, node[cur]) /\ Once(q) /\ Elems(q) = Alive \ {Running}
        /\ Holds(ready', next, q)
  <2>1. /\ Append(r, node[cur]) \in Seq(Queued) /\ Once(Append(r, node[cur]))
        /\ Elems(Append(r, node[cur])) = Elems(r) \cup {node[cur]}
    BY <1>2, ElemsOfAppend
  <2>2. Elems(r) \cup {node[cur]} = Alive \ {Running}
    BY <1>2
  <2>3. QED
    BY <1>3, <2>1, <2>2
<1>5. /\ Posts' /\ Spare' = Spare /\ Alive' = Alive /\ Running' = Running
      /\ pc'[cur'] = "load"
  BY <1>1, <1>2, PostsMoved DEF Creating, Drawing, Taken, Calm, Ending
<1>6. FreeHolds(f)' /\ ReadyHolds(q)'
  BY <1>1, <1>2, <1>4, <1>5 DEF FreeHolds, ReadyHolds, Drawing, Taken, Linking
<1>7. Turn(r, q)
  <2>1. Shown(q)' = q
    BY <1>5 DEF Shown
  <2>2. CASE r = <<>>
    <3>1. q = <<node[cur]>> /\ Shown(r) = <<node[cur]>>
      BY <1>1, <1>4, <2>2 DEF Shown
    <3>2. QED
      BY <1>5, <2>1, <3>1 DEF Turn
  <2>3. CASE r # <<>>
    <3>1. Shown(r) = r
      BY <2>3 DEF Shown
    <3>2. QED
      BY <1>1, <1>2, <1>4, <1>5, <2>1, <3>1 DEF Turn, Linking
  <2>4. QED
    BY <2>2, <2>3
<1>8. QED
  BY <1>5, <1>6, <1>7 DEF Moved

-----------------------------------------------------------------------------
(* A thread ends: it goes to the free pool, and the head of the ready pool, *)
(* which cannot be empty as the main thread never ends, gets the core.     *)
LEMMA EndSwitchPools ==
    ASSUME TypeOK, Posts, NEW f \in Seq(Queued), NEW r \in Seq(Queued),
           FreeHolds(f), ReadyHolds(r), NEW t \in Thread, EndSwitch(t)
    PROVE  Posts' /\ Moved(r)
<1> DEFINE links == [next EXCEPT ![cur] = NULL]
           u == Tail(r)
<1>1. /\ t = cur /\ ~pendsv /\ pc[cur] = "resume"
      /\ nxt' = ReadyNext /\ ready' = Popped(links)
      /\ free' = TailPut(free, cur)
      /\ next' = TailPutLinks(free, Detached(links), cur)
      /\ pc' = [pc EXCEPT ![cur] = "dead"] /\ pendsv' /\ UNCHANGED <<cur, node>>
  BY DEF EndSwitch, At, Goto, Freed, locals
<1>2. /\ cur \in Workers /\ cur \in Queued /\ cur \in Thread /\ cur \in Alive
      /\ cur = Running /\ Alive \subseteq Queued /\ Spare \cap Alive = {}
      /\ Queued \subseteq Thread /\ NULL \notin Queued
  BY <1>1, ThreadFacts, PoolFacts DEF Posts, Ending
<1>3. /\ Once(f) /\ Elems(f) = Spare /\ Holds(free, next, f)
      /\ Once(r) /\ Elems(r) = Alive \ {cur} /\ Holds(ready, next, r)
  BY <1>1, <1>2 DEF FreeHolds, ReadyHolds, Drawing, Taken, Linking
<1>4. Main \in Alive /\ Main # cur
  <2>1. Main \notin Workers /\ Main \in Queued
    BY ThreadFacts DEF Workers, Main
  <2>2. QED
    BY <1>2, <2>1, PoolFacts DEF Alive
<1>5. r # <<>>
  BY <1>3, <1>4 DEF Elems
<1>6. /\ Holds(free, links, f) /\ Holds(ready, links, r)
      /\ links \in [Thread -> Queued \cup {NULL}]
  <2>1. cur \notin Elems(f) /\ cur \notin Elems(r)
    BY <1>2, <1>3
  <2>2. links \in [Thread -> Queued \cup {NULL}]
    BY <1>2 DEF TypeOK
  <2>3. QED
    BY <1>3, <2>1, <2>2, LinkWritten
<1> HIDE DEF links
<1>7. /\ ReadyNext = r[1] /\ r[1] \in Elems(r)
      /\ u \in Seq(Queued) /\ Once(u) /\ Elems(u) = Elems(r) \ {r[1]}
      /\ Holds(free, Detached(links), f)
      /\ Holds(Popped(links), Detached(links), u)
      /\ Detached(links) \in [Thread -> Queued \cup {NULL}]
  <2>1. Elems(f) \cap Elems(r) = {}
    BY <1>2, <1>3
  <2>2. QED
    BY <1>3, <1>5, <1>6, <2>1, PopOrder
<1> HIDE DEF u
<1>8. cur \notin Elems(f) /\ Elems(f) \cap Elems(u) = {}
  BY <1>2, <1>3, <1>7
<1>9. /\ Holds(free', next', Append(f, cur)) /\ Holds(ready', next', u)
  <2>1. free \in Lists(Queued)
    BY DEF TypeOK
  <2>2. Holds(free', next', Append(f, cur))
    BY <1>1, <1>2, <1>3, <1>7, <1>8, <2>1, TailAdded
  <2>3. Holds(ready', next', u)
    BY <1>1, <1>2, <1>7, <1>8, TailAddedElsewhere
  <2>4. QED
    BY <2>2, <2>3
<1>10. PICK g \in Seq(Queued), q \in Seq(Queued) :
         /\ q = Tail(r) /\ Once(g) /\ Elems(g) = Spare \cup {cur} /\ Holds(free', next', g)
         /\ Once(q) /\ Elems(q) = Alive \ {cur, nxt'} /\ Holds(ready', next', q)
  <2>1. /\ Append(f, cur) \in Seq(Queued) /\ Once(Append(f, cur))
        /\ Elems(Append(f, cur)) = Elems(f) \cup {cur}
    BY <1>2, <1>3, <1>8, ElemsOfAppend
  <2>2. Elems(u) = Alive \ {cur, nxt'}
    BY <1>1, <1>3, <1>7
  <2>3. QED
    BY <1>3, <1>7, <1>9, <2>1, <2>2 DEF u
<1>11. Spare' = Spare \cup {cur} /\ Alive' = Alive \ {cur}
  <2>1. \A v \in Thread : v \in Spare' <=> v \in Spare \/ v = cur
    BY <1>1, <1>2 DEF Spare, TypeOK
  <2>2. Spare \subseteq Thread /\ Spare' \subseteq Thread
    BY DEF Spare
  <2>3. QED
    BY <1>2, <2>1, <2>2 DEF Alive
<1>12. Running' = nxt' /\ nxt' \in Alive' /\ nxt' # cur
  BY <1>1, <1>3, <1>7, <1>11 DEF Running
<1>13. pc'[cur'] = "dead" /\ \A v \in Thread \ {cur} : pc'[v] = pc[v]
  BY <1>1, <1>2 DEF TypeOK
<1>14. Posts'
  BY <1>1, <1>2, <1>12, <1>13 DEF Posts, Creating, Drawing, Taken, Calm, Ending
<1>15. FreeHolds(g)' /\ ReadyHolds(q)'
  BY <1>1, <1>10, <1>11, <1>12, <1>13
     DEF FreeHolds, ReadyHolds, Drawing, Taken, Linking
<1>16. Turn(r, q)
  <2>1. Shown(r) = r /\ Shown(q)' = q
    BY <1>1, <1>13 DEF Shown
  <2>2. Running' = r[1]
    BY <1>1, <1>7, <1>12
  <2>3. QED
    BY <1>2, <1>5, <1>10, <2>1, <2>2 DEF Turn
<1>17. QED
  BY <1>14, <1>15, <1>16 DEF Moved

(* A list that holds a sequence passes the assertion of slist_tail_put, and *)
(* so does what is left of it without its head.                            *)
LEMMA HoldsTail ==
    ASSUME NEW S, NULL \notin S, NEW s \in Seq(S), NEW l, NEW n, Holds(l, n, s)
    PROVE  TailPutAssert(l)
<1>1. CASE s = <<>>
  BY <1>1 DEF Holds, EmptyList, TailPutAssert
<1>2. CASE s # <<>>
  <2>1. Len(s) \in 1 .. Len(s)
    BY <1>2
  <2>2. l.tail = s[Len(s)] /\ s[Len(s)] \in S
    BY <1>2, <2>1 DEF Holds
  <2>3. QED
    BY <2>2 DEF TailPutAssert
<1>3. QED
  BY <1>1, <1>2

(* No put fails in an interrupt or in a locked section, except perhaps one  *)
(* of thread_join.                                                         *)
LEMMA PutsSucceed ==
    ASSUME TypeOK, Posts, Pools, LockedPutFails,
           ~primask /\ ~pendsv => pc[cur] \in Calm
    PROVE  /\ At(cur, "join")
           /\ RequeueFails(TailPutLinks(waitq[node[cur]], next, cur))
<1>1. PICK f \in Seq(Queued), r \in Seq(Queued) : FreeHolds(f) /\ ReadyHolds(r)
  BY DEF Pools
<1>2. NULL \notin Queued /\ next \in [Thread -> Queued \cup {NULL}]
  BY PoolFacts DEF TypeOK
<1>3. ASSUME pc[cur] \in Calm \cup {"resume"}, ~pendsv
      PROVE  /\ Once(f) /\ Elems(f) = Spare /\ Holds(free, next, f)
             /\ Once(r) /\ Elems(r) = Alive \ {cur} /\ Holds(ready, next, r)
             /\ Elems(f) \cap Elems(r) = {}
  <2>1. cur = Running /\ Spare \cap Alive = {}
    BY <1>3, PoolFacts
  <2>2. QED
    BY <1>1, <1>3, <2>1 DEF FreeHolds, ReadyHolds, Calm, Drawing, Taken, Linking
<1>4. CASE ~primask /\ ~pendsv /\ RequeueFails(next)
  <2>1. r # <<>>
    BY <1>3, <1>4 DEF RequeueFails, Holds, EmptyList
  <2>2. Holds(Popped(next), next, Tail(r)) /\ Tail(r) \in Seq(Queued)
    BY <1>2, <1>3, <1>4, <2>1, PopOrder
  <2>3. TailPutAssert(Popped(next))
    BY <1>2, <2>2, HoldsTail
  <2>4. QED
    BY <1>4, <2>3 DEF RequeueFails
<1>5. CASE At(cur, "resume") /\ ~TailPutAssert(IF waitq[cur].head # NULL
                                                THEN ready ELSE free)
  <2>1. TailPutAssert(ready) /\ TailPutAssert(free)
    BY <1>2, <1>3, <1>5, HoldsTail DEF At
  <2>2. QED
    BY <1>5, <2>1
<1>6. QED
  BY <1>4, <1>5 DEF LockedPutFails

-----------------------------------------------------------------------------
(* The steps that keep the pools whoever waits for whom: no tick falls into *)
(* thread_create, no put fails, and the locked sections of thread_join and  *)
(* of the resuming of waiters are left aside.                              *)
Regular ==
    \/ SysTick /\ pc[cur] \in Calm
    \/ SysTickIdle \/ PendSV
    \/ \E t \in Thread :
          /\ KernelStep(t) \/ ClientStep(t)
          /\ ~JoinLock(t) /\ ~EndResume(t)

LEMMA StepPools ==
    ASSUME TypeOK, Posts, NEW f \in Seq(Queued), NEW r \in Seq(Queued),
           FreeHolds(f), ReadyHolds(r), [Regular]_vars
    PROVE  Posts' /\ Moved(r)
<1>1. CASE SysTick /\ pc[cur] \in Calm
  BY <1>1, TickPools
<1>2. CASE PendSV
  BY <1>2, PendSVPools
<1>3. CASE SysTickIdle \/ UNCHANGED vars
  <2>1. UNCHANGED <<free, ready, next, cur, nxt, pendsv, pc, node, ptr>>
    BY <1>3 DEF SysTickIdle, vars, pools, cpu, locals
  <2>2. UNCHANGED <<Spare, Alive, Running>>
    BY <2>1 DEF Spare, Alive, Running
  <2>3. Posts' /\ FreeHolds(f)' /\ ReadyHolds(r)' /\ Shown(r)' = Shown(r)
    BY <2>1, <2>2 DEF Posts, FreeHolds, ReadyHolds, Shown
  <2>4. QED
    BY <2>2, <2>3 DEF Moved, Turn
<1>4. ASSUME NEW t \in Thread, CreateStep(t) PROVE Posts' /\ Moved(r)
  <2>1. CASE CreateUnlink(t) \/ CreateEmpty(t) \/ CreateUntail(t)
             \/ CreateFollow(t) \/ CreateAdvance(t) \/ CreateCheck(t)
             \/ CreateInit(t) \/ CreateDetach(t) \/ CreateTest(t)
             \/ CreateFirst(t) \/ CreateLink(t) \/ CreateNoTail(t)
             \/ CreateSplice(t) \/ CreateSetTail(t)
    BY <2>1, CreateUnlinkPools, CreateEmptyPools, CreateTakenPools,
       CreateInitPools,
       CreateDetachPools, CreateTestPools, CreateFirstPools, CreateLinkPools,
       CreateSplicePools, CreateSetTailPools
  <2>2. ASSUME CreateLoad(t) \/ CreateMark(t) \/ CreateReload(t) \/ CreateStart(t)
        PROVE  Posts' /\ Moved(r)
    <3>1. /\ t = cur /\ ~pendsv /\ pc[cur] \in {"load", "mark", "reload", "start"}
          /\ UNCHANGED <<free, ready, next, cur, nxt, pendsv>>
      BY <2>2 DEF CreateLoad, CreateMark, CreateReload, CreateStart, At,
                  pools, cpu
    <3>2. PICK l \in {"mark", "reload", "start", "run"} :
            /\ pc' = [pc EXCEPT ![cur] = l]
            /\ l # "run" => node' = node
      BY <2>2, <3>1 DEF CreateLoad, CreateMark, CreateReload, CreateStart, Goto,
                        locals
    <3>3. QED
      BY <3>1, <3>2, PlainMoved DEF Plain, Creating, Calm, Ending
  <2>3. QED
    BY <1>4, <2>1, <2>2 DEF CreateStep
<1>5. ASSUME NEW t \in Thread, Create(t) PROVE Posts' /\ Moved(r)
  BY <1>5, CreatePools
<1>6. ASSUME NEW t \in Thread, EndSwitch(t) PROVE Posts' /\ Moved(r)
  BY <1>6, EndSwitchPools
<1>7. ASSUME NEW t \in Thread, EndReturned(t) PROVE FALSE
  <2>1. ~pendsv /\ pc[cur] = "dead"
    BY <1>7 DEF EndReturned, At
  <2>2. QED
    BY <2>1, PoolFacts
<1>8. ASSUME NEW t \in Thread, MaskIrq(t) \/ UnmaskIrq(t)
      PROVE  Posts' /\ Moved(r)
  <2>1. /\ ~pendsv /\ pc[cur] = "run" /\ cur \in Thread
        /\ UNCHANGED <<free, ready, next, cur, nxt, pendsv, pc>>
    BY <1>8 DEF MaskIrq, UnmaskIrq, At, pools, TypeOK
  <2>2. pc' = [pc EXCEPT ![cur] = "run"]
    BY <2>1 DEF TypeOK
  <2>3. QED
    BY <2>1, <2>2, PlainMoved DEF Plain, Creating, Calm, Ending
<1>9. ASSUME NEW t \in Thread,
             \/ JoinReturn(t) \/ Cleanup(t)
             \/ EndLoad(t) \/ EndMark(t) \/ EndLock(t)
             \/ \E u \in handles : Join(t, u)
      PROVE  Posts' /\ Moved(r)
  <2>1. /\ t = cur /\ ~pendsv /\ pc[cur] \in Plain /\ cur \in Thread
        /\ UNCHANGED <<free, ready, next, cur, nxt, pendsv>>
    BY <1>9 DEF JoinReturn, EndLoad, EndMark, EndLock, Cleanup, Join, At,
                pools, cpu, Plain, Calm
  <2>2. PICK l \in {"run", "join", "lost"} \cup Ending :
          /\ pc' = [pc EXCEPT ![cur] = l]
          /\ l \in Ending => cur \in Workers
    BY <1>9, <2>1 DEF JoinReturn, EndLoad, EndMark, EndLock, Cleanup, Join,
                      Goto, Posts, At, Ending
  <2>3. QED
    BY <2>1, <2>2, PlainMoved DEF Plain, Creating, Calm, Ending
<1>10. QED
  BY <1>1, <1>2, <1>3, <1>4, <1>5, <1>6, <1>7, <1>8, <1>9
     DEF Regular, KernelStep, ClientStep, EndStep

(* thread_join's write to a wait queue where the caller is already last, or *)
(* which is empty, is to the caller's own link: no pool depends on it.      *)
LEMMA JoinLinks ==
    ASSUME TypeOK, Posts, NEW f \in Seq(Queued), NEW r \in Seq(Queued),
           FreeHolds(f), ReadyHolds(r), At(cur, "join"),
           NEW l, l.head # NULL => l.tail = cur,
           NEW n, n = TailPutLinks(l, next, cur)
    PROVE  /\ n \in [Thread -> Queued \cup {NULL}]
           /\ Once(f) /\ Elems(f) = Spare /\ Holds(free, n, f)
           /\ Once(r) /\ Elems(r) = Alive \ {cur} /\ Holds(ready, n, r)
           /\ Elems(f) \cap Elems(r) = {}
           /\ cur \notin Elems(f) \cup Elems(r)
           /\ cur = Running /\ cur \in Queued /\ cur \in Alive
<1>1. ~pendsv /\ pc[cur] = "join"
  BY DEF At
<1>2. /\ cur = Running /\ cur \in Alive /\ Alive \subseteq Queued
      /\ Spare \cap Alive = {} /\ Queued \subseteq Thread
  BY <1>1, PoolFacts
<1>3. /\ Once(f) /\ Elems(f) = Spare /\ Holds(free, next, f)
      /\ Once(r) /\ Elems(r) = Alive \ {cur} /\ Holds(ready, next, r)
  BY <1>1, <1>2 DEF FreeHolds, ReadyHolds, Drawing, Taken, Linking
<1>4. cur \notin Elems(f) /\ cur \notin Elems(r)
  BY <1>2, <1>3
<1>5. n = next \/ n = [next EXCEPT ![cur] = cur]
  BY DEF TailPutLinks
<1>6. n \in [Thread -> Queued \cup {NULL}]
  BY <1>2, <1>5 DEF TypeOK
<1>7. /\ Holds(free, [next EXCEPT ![cur] = cur], f)
      /\ Holds(ready, [next EXCEPT ![cur] = cur], r)
  BY <1>3, <1>4, LinkWritten
<1>8. QED
  BY <1>2, <1>3, <1>4, <1>5, <1>6, <1>7

(* Then no put fails in thread_join ...                                     *)
LEMMA JoinSucceeds ==
    ASSUME TypeOK, Posts, Pools, At(cur, "join"),
           NEW l, l.head # NULL => l.tail = cur
    PROVE  ~RequeueFails(TailPutLinks(l, next, cur))
<1> DEFINE n == TailPutLinks(l, next, cur)
<1> SUFFICES ASSUME RequeueFails(n) PROVE FALSE
  OBVIOUS
<1>1. PICK f \in Seq(Queued), r \in Seq(Queued) : FreeHolds(f) /\ ReadyHolds(r)
  BY DEF Pools
<1>2. /\ n \in [Thread -> Queued \cup {NULL}]
      /\ Once(f) /\ Holds(free, n, f) /\ Once(r) /\ Holds(ready, n, r)
      /\ Elems(f) \cap Elems(r) = {}
  BY <1>1, JoinLinks
<1> HIDE DEF n
<1>3. ready.head # NULL /\ ~TailPutAssert(Popped(n))
  BY DEF RequeueFails
<1>4. r # <<>>
  BY <1>2, <1>3 DEF Holds, EmptyList
<1>5. Holds(Popped(n), n, Tail(r)) /\ Tail(r) \in Seq(Queued)
  BY <1>1, <1>2, <1>4, PopOrder
<1>6. QED
  BY <1>3, <1>5, HoldsTail, ThreadFacts

(* ... and its step is a rotation of the ready pool, or none.               *)
LEMMA JoinLockPools ==
    ASSUME TypeOK, Posts, NEW f \in Seq(Queued), NEW r \in Seq(Queued),
           FreeHolds(f), ReadyHolds(r), NEW t \in Thread, JoinLock(t),
           waitq[node[t]].head # NULL => waitq[node[t]].tail = t
    PROVE  Posts' /\ Moved(r)
<1> DEFINE n == TailPutLinks(waitq[node[cur]], next, cur)
<1>1. /\ t = cur /\ ~pendsv /\ pc[cur] = "join" /\ At(cur, "join")
      /\ pc' = [pc EXCEPT ![cur] = "joined"]
      /\ UNCHANGED <<free, cur, node>>
  BY DEF JoinLock, At, Goto, locals
<1>2. /\ n \in [Thread -> Queued \cup {NULL}]
      /\ Once(f) /\ Elems(f) = Spare /\ Holds(free, n, f)
      /\ Once(r) /\ Elems(r) = Alive \ {cur} /\ Holds(ready, n, r)
      /\ Elems(f) \cap Elems(r) = {}
      /\ cur \notin Elems(f) \cup Elems(r)
      /\ cur = Running /\ cur \in Queued /\ cur \in Alive
  BY <1>1, JoinLinks
<1>3. Spare' = Spare /\ Alive' = Alive /\ pc'[cur] = "joined"
      /\ \A u \in Thread \ {cur} : pc'[u] = pc[u]
  BY <1>1, SpareKept DEF TypeOK
<1>4. CASE ready.head = NULL
  <2>1. next' = n /\ UNCHANGED <<ready, nxt, pendsv>>
    BY <1>1, <1>4 DEF JoinLock
  <2>2. Posts' /\ Running' = Running /\ pc'[cur'] = "joined"
    BY <1>1, <2>1, PostsMoved DEF Calm, Creating, Drawing, Taken, Ending
  <2>3. FreeHolds(f)' /\ ReadyHolds(r)'
    BY <1>1, <1>2, <1>3, <2>1, <2>2
       DEF FreeHolds, ReadyHolds, Drawing, Taken, Linking
  <2>4. QED
    BY <1>1, <2>2, <2>3, Unturned
<1>5. CASE ready.head # NULL
  <2>1. \E st : Rotate(n, st)
    BY <1>1, <1>5 DEF JoinLock
  <2> HIDE DEF n
  <2>2. PICK q \in Seq(Queued) :
        /\ r # <<>> /\ nxt' = r[1] /\ q = Append(Tail(r), cur)
        /\ nxt' \in Elems(r) /\ pendsv' = TRUE /\ Once(q)
        /\ Elems(q) = (Elems(r) \ {nxt'}) \cup {cur}
        /\ Holds(free, next', f) /\ Holds(ready', next', q)
    BY <1>2, <1>5, <2>1, RotateOrder
  <2>3. Running' = nxt' /\ nxt' \in Alive /\ nxt' # cur
    BY <1>2, <2>2 DEF Running
  <2>4. Posts'
    <3>1. "joined" \in Calm /\ "joined" \notin Creating \cup Drawing \cup Taken
          /\ "joined" \notin {"assert_none", "resume", "unused", "dead"} \cup Ending
      BY DEF Calm, Creating, Drawing, Taken, Ending
    <3>2. \A u \in Thread : /\ pc'[u] \in {pc[u], "joined"}
                            /\ u # cur => pc[u] \in Calm
      BY <1>1, <1>3 DEF Posts
    <3>3. Running' \in Alive' /\ (pendsv' => nxt' # cur')
      BY <1>1, <1>3, <2>3
    <3>4. /\ \A u \in Thread \ {cur'} : pc'[u] \in Calm
          /\ pc'[cur'] = "joined"
          /\ \A u \in Thread :
                pc'[u] \in {"unused", "dead"} \cup Ending => u \in Workers
      BY <1>1, <1>3, <3>1, <3>2 DEF Posts
    <3>5. QED
      BY <3>1, <3>3, <3>4 DEF Posts
  <2>5. FreeHolds(f)' /\ ReadyHolds(q)'
    <3>1. Elems(q) = Alive \ {nxt'}
      BY <1>2, <2>2, <2>3
    <3>2. pc'[cur'] = "joined"
      BY <1>1, <1>3
    <3>3. QED
      BY <1>1, <1>2, <1>3, <2>2, <2>3, <3>1, <3>2
         DEF FreeHolds, ReadyHolds, Drawing, Taken, Linking
  <2>6. Turn(r, q)
    <3>1. Shown(r) = r /\ Shown(q)' = q
      BY <1>1, <1>3 DEF Shown
    <3>2. QED
      BY <1>2, <2>2, <2>3, <3>1 DEF Turn
  <2>7. QED
    BY <2>4, <2>5, <2>6 DEF Moved
<1>6. QED
  BY <1>4, <1>5

(* The waiter that is put on the ready pool is already the last one there: *)
(* its link to itself is behind the tail.                                  *)
LEMMA EndResumePools ==
    ASSUME TypeOK, Posts, NEW f \in Seq(Queued), NEW r \in Seq(Queued),
           FreeHolds(f), ReadyHolds(r), NEW t \in Thread, EndResume(t),
           r # <<>>, waitq[t].head = r[Len(r)]
    PROVE  Posts' /\ Moved(r)
<1> DEFINE w == waitq[t].head
           n == [next EXCEPT ![w] = NULL]
<1>1. /\ t = cur /\ ~pendsv /\ pc[cur] = "resume" /\ w # NULL
      /\ ready' = TailPut(ready, w) /\ next' = TailPutLinks(ready, n, w)
      /\ UNCHANGED <<free, cur, nxt, pendsv, pc, node>>
  BY DEF EndResume, At, cpu, locals
<1>2. /\ cur = Running /\ Spare \cap Alive = {} /\ NULL \notin Queued
  BY <1>1, PoolFacts
<1>3. /\ Once(f) /\ Elems(f) = Spare /\ Holds(free, next, f)
      /\ Once(r) /\ Elems(r) = Alive \ {cur} /\ Holds(ready, next, r)
  BY <1>1, <1>2 DEF FreeHolds, ReadyHolds, Drawing, Taken, Linking
<1>4. /\ ready.head # NULL /\ ready.tail = w /\ w \in Elems(r)
      /\ w \notin Elems(f)
  <2>1. Len(r) \in 1 .. Len(r) /\ 1 \in 1 .. Len(r)
    OBVIOUS
  <2>2. r[1] \in Queued /\ r[Len(r)] \in Elems(r)
    BY <2>1 DEF Elems
  <2>3. QED
    BY <1>2, <1>3, <2>2 DEF Holds
<1> HIDE DEF w
<1>5. Holds(free, n, f) /\ Holds(ready, n, r)
  <2>1. w \notin Elems(f) /\ w = r[Len(r)]
    BY <1>4 DEF w
  <2>2. QED
    BY <1>3, <2>1, LinkWritten
<1>6. ready' = ready /\ next' = [n EXCEPT ![w] = w]
  BY <1>1, <1>4 DEF TailPut, TailPutLinks, TypeOK, Lists
<1> HIDE DEF n
<1>7. Holds(free, next', f) /\ Holds(ready', next', r)
  <2>1. w \notin Elems(f) /\ w = r[Len(r)]
    BY <1>4 DEF w
  <2>2. Holds(free, [n EXCEPT ![w] = w], f) /\ Holds(ready, [n EXCEPT ![w] = w], r)
    BY <1>3, <1>5, <2>1, LinkWritten
  <2>3. QED
    BY <1>6, <2>2
<1>8. UNCHANGED <<Spare, Alive, Running>>
  BY <1>1 DEF Spare, Alive, Running
<1>9. Posts'
  BY <1>1, <1>8 DEF Posts
<1>10. FreeHolds(f)' /\ ReadyHolds(r)'
  BY <1>1, <1>2, <1>3, <1>7, <1>8
     DEF FreeHolds, ReadyHolds, Drawing, Taken, Linking
<1>11. QED
  BY <1>1, <1>8, <1>9, <1>10, Unturned

(* Clients that mask interrupts around thread_create and join nobody keep   *)
(* it so.                                                                  *)
LEMMA StepDisciplined ==
    ASSUME MaskedCreate, Joiners = {}, TypeOK, Posts, Pools, Disciplined,
           [Next]_vars, ~Halt
    PROVE  Disciplined'
<1> DEFINE Inside == Creating \cup {"resume", "assert_none"}
           Mine(l, n) == /\ l \notin {"join", "joined"}
                         /\ l \notin Creating \cup {"assert_none"} => n = NULL
<1>1. ASSUME NEW t \in Thread, t = cur, cur' = cur, UNCHANGED waitq,
             pc'[t] \in Inside => primask', Mine(pc'[t], node'[t]),
             \A u \in Thread \ {t} :
               node'[u] = node[u] /\ pc'[u] \in {pc[u], "run"}
      PROVE  Disciplined'
  <2>1. ASSUME NEW u \in Thread \ {t} PROVE Mine(pc'[u], node'[u])
    <3>1. pc[u] \in Calm
      BY <1>1 DEF Posts
    <3>2. node[u] = NULL /\ pc[u] \notin {"join", "joined"}
      BY <3>1 DEF Disciplined, Calm, Creating
    <3>3. QED
      BY <1>1, <3>1, <3>2 DEF Calm
  <2>2. QED
    BY <1>1, <2>1 DEF Disciplined
<1>2. CASE SysTick \/ SysTickIdle \/ UNCHANGED vars
  <2>1. UNCHANGED <<waitq, cur, primask, pc, node>>
    BY <1>2 DEF SysTick, SysTickIdle, vars, pools, cpu, locals
  <2>2. QED
    BY <2>1 DEF Disciplined
<1>3. CASE PendSV
  <2>1. UNCHANGED <<waitq, primask, pc, node>> /\ cur' = nxt /\ pendsv
    BY <1>3 DEF PendSV, pools, locals
  <2>2. pc[nxt] \in Calm
    <3>1. nxt \in Thread \ {cur}
      BY <2>1, PoolFacts DEF Posts, Running
    <3>2. QED
      BY <3>1 DEF Posts
  <2>3. QED
    BY <2>1, <2>2 DEF Disciplined, Calm, Creating
<1>4. ASSUME NEW t \in Thread, CreateStep(t) PROVE Disciplined'
  <2>1. /\ t = cur /\ UNCHANGED <<waitq, cur>> /\ pc[t] \in Creating
        /\ primask
    BY <1>4 DEF CreateStep, CreateUnlink, CreateEmpty, CreateUntail,
       CreateFollow, CreateAdvance, CreateCheck, CreateInit, CreateDetach,
       CreateTest, CreateFirst, CreateLink, CreateNoTail, CreateSplice,
       CreateSetTail, CreateLoad, CreateMark, CreateReload, CreateStart,
       At, Creating, pools, cpu, Disciplined
  <2>2. CASE CreateStart(t)
    BY <1>1, <2>1, <2>2 DEF CreateStart, Goto, TypeOK, cpu, Creating
  <2>3. CASE CreateInit(t)
    <3>1. node[t] # t
      BY <2>1, <2>3 DEF CreateInit, At, Posts, Creating
    <3>2. /\ pc'[t] = "detach" /\ node' = node /\ primask' = primask
          /\ \A u \in Thread \ {t} : pc'[u] \in {pc[u], "run"}
      BY <2>3, <3>1 DEF CreateInit, locals, cpu, TypeOK
    <3>3. QED
      BY <1>1, <2>1, <3>2 DEF Creating
  <2>4. CASE ~CreateStart(t) /\ ~CreateInit(t)
    <3>1. ~CreateNoTail(t)
      BY CreateLinkPools DEF Pools
    <3>2. node' = node /\ primask' = TRUE
          /\ \E l \in Creating \cup {"assert_none"} :
                pc' = [pc EXCEPT ![t] = l]
      BY <1>4, <2>1, <2>4, <3>1
         DEF CreateStep, CreateUnlink, CreateEmpty, CreateUntail,
             CreateFollow, CreateAdvance, CreateCheck, CreateDetach,
             CreateTest, CreateFirst, CreateLink, CreateSplice,
             CreateSetTail, CreateLoad, CreateMark, CreateReload,
             Goto, Creating, cpu, locals
    <3>3. QED
      BY <1>1, <2>1, <3>2 DEF TypeOK, Creating
  <2>5. QED
    BY <2>2, <2>3, <2>4
<1>5. ASSUME NEW t \in Thread, MaskIrq(t) \/ UnmaskIrq(t) PROVE Disciplined'
  <2>1. UNCHANGED <<waitq, cur, pc, node>> /\ t = cur /\ pc[cur] = "run"
    BY <1>5 DEF MaskIrq, UnmaskIrq, At, pools, locals
  <2>2. QED
    BY <2>1 DEF Disciplined, Creating
<1>6. ASSUME NEW t \in Thread, Create(t) PROVE Disciplined'
  <2>1. /\ t = cur /\ UNCHANGED <<waitq, cur, primask>> /\ pc[t] = "run"
        /\ primask /\ node[t] = NULL
    BY <1>6 DEF Create, At, Disciplined, pools, cpu, Creating
  <2>2. CASE free.head = NULL
    BY <1>6, <2>1, <2>2 DEF Create, Disciplined
  <2>3. CASE free.head # NULL
    <3>1. /\ pc' = [pc EXCEPT ![t] = "unlink"]
          /\ node' = [node EXCEPT ![t] = free.head]
      BY <1>6, <2>3 DEF Create, Goto
    <3>2. QED
      BY <1>1, <2>1, <3>1 DEF TypeOK, Creating
  <2>4. QED
    BY <2>2, <2>3
<1>7. ASSUME NEW t \in Thread,
             \/ Cleanup(t) \/ EndLoad(t) \/ EndMark(t) \/ EndLock(t)
             \/ EndSwitch(t)
      PROVE  Disciplined'
  <2>1. /\ t = cur /\ UNCHANGED <<waitq, cur, node>> /\ node[t] = NULL
        /\ \E l \in {"lost", "endload", "endmark", "end", "resume", "dead"} :
              pc' = [pc EXCEPT ![t] = l] /\ (l = "resume" => primask')
    BY <1>7
       DEF Cleanup, EndLoad, EndMark, EndLock, EndSwitch, At, Goto,
           Disciplined, pools, cpu,
                locals, Creating
  <2>2. QED
    BY <1>1, <2>1 DEF TypeOK, Creating
<1>8. ASSUME NEW t \in Thread,
             \/ JoinLock(t) \/ JoinReturn(t) \/ EndResume(t) \/ EndReturned(t)
             \/ t \in Joiners
      PROVE  FALSE
  <2>1. ~pendsv => pc[cur] # "dead"
    BY PoolFacts
  <2>2. QED
    BY <1>8, <2>1 DEF JoinLock, JoinReturn, EndResume, EndReturned, At,
                      Disciplined, EmptyList
<1>9. QED
  BY <1>2, <1>3, <1>4, <1>5, <1>6, <1>7, <1>8
     DEF Next, Tick, KernelStep, ClientStep, EndStep

(* No put fails for them, and no tick falls into thread_create.             *)
LEMMA StepRegular ==
    ASSUME TypeOK, Posts, Pools, Disciplined, [Next]_vars
    PROVE  ~Halt /\ [Regular]_vars
<1>1. ~primask => pc[cur] \in Calm
  BY DEF Posts, Disciplined
<1>2. ~At(cur, "join")
  BY DEF At, Disciplined, TypeOK
<1>3. ~Halt
  BY <1>1, <1>2, PutsSucceed DEF Halt
<1>4. SysTick => pc[cur] \in Calm
  BY <1>1 DEF SysTick
<1>5. \A t \in Thread : ~JoinLock(t) /\ ~EndResume(t)
  BY DEF JoinLock, EndResume, At, Disciplined, EmptyList
<1>6. QED
  BY <1>3, <1>4, <1>5 DEF Next, Tick, Regular

(* thread_init fills the free pool. *)
LEMMA InitPools == Init => Posts /\ Pools /\ Disciplined
<1> SUFFICES ASSUME Init PROVE Posts /\ Pools /\ Disciplined
  OBVIOUS
<1> DEFINE N == THREAD_MAX_NUM
           f == [i \in 1 .. N |-> i + 1]
           r == <<>>
<1>1. /\ N \in Nat \ {0} /\ Main = 0 /\ Idle = 1 /\ Workers = 2 .. N + 1
      /\ Thread = 0 .. N + 1 /\ Queued = Thread \ {1}
  BY KernelAssumption DEF Main, Idle, Workers, Thread, Queued
<1>2. /\ cur = Main /\ ~pendsv /\ pc[Main] = "run" /\ Running = Main
      /\ \A t \in Thread : pc[t] = IF t = Main THEN "run"
                                   ELSE IF t = Idle THEN "idle" ELSE "unused"
  BY <1>1 DEF Init, Running
<1>3. Spare = Workers /\ Alive = {Main}
  <2>1. \A t \in Thread : t \in Spare <=> t \in Workers
    BY <1>1, <1>2 DEF Spare
  <2>2. Spare \subseteq Thread /\ Workers \subseteq Thread
    BY <1>1 DEF Spare
  <2>3. Spare = Workers
    BY <2>1, <2>2
  <2>4. QED
    BY <1>1, <2>3 DEF Alive
<1>4. Posts
  <2>1. \A t \in Thread : pc[t] = "unused" => t \in Workers
    BY <1>1, <1>2
  <2>2. \A t \in Thread : pc[t] \in {"run", "idle", "unused"}
    BY <1>2
  <2>3. QED
    BY <1>2, <1>3, <2>1, <2>2 DEF Posts, Calm, Creating, Drawing, Taken, Ending
<1>5. Disciplined
  BY <1>2 DEF Init, Disciplined, Creating
<1>6. f \in Seq(Queued) /\ Len(f) = N /\ Once(f) /\ Elems(f) = Workers
  <2>1. f \in [1 .. N -> Queued]
    BY <1>1
  <2>2. f \in Seq(Queued) /\ Len(f) = N
    BY <1>1, <2>1
  <2>3. Once(f)
    BY <1>1, <2>2 DEF Once
  <2>4. ASSUME NEW w \in Workers PROVE w \in Elems(f)
    <3>1. w - 1 \in 1 .. N /\ w = f[w - 1]
      BY <1>1
    <3>2. QED
      BY <3>1 DEF Elems
  <2>5. ASSUME NEW w \in Elems(f) PROVE w \in Workers
    BY <1>1 DEF Elems
  <2>6. QED
    BY <2>2, <2>3, <2>4, <2>5
<1>7. Holds(free, next, f)
  <2>1. free.head = f[1] /\ free.tail = f[Len(f)] /\ f # <<>>
    <3>1. f[1] = 2 /\ f[N] = N + 1
      BY <1>1
    <3>2. free = [head |-> 2, tail |-> N + 1]
      BY DEF Init
    <3>3. f # <<>>
      BY <1>1, <1>6
    <3> HIDE DEF f
    <3>4. QED
      BY <1>6, <3>1, <3>2, <3>3
  <2>2. ASSUME NEW i \in 1 .. Len(f) - 1 PROVE next[f[i]] = f[i + 1]
    <3>1. /\ f[i] = i + 1 /\ f[i + 1] = i + 2
          /\ i + 1 \in Workers /\ i + 1 + 1 \in Workers /\ i + 1 \in Thread
      BY <1>1, <1>6
    <3>2. QED
      BY <3>1 DEF Init
  <2>3. QED
    BY <2>1, <2>2 DEF Holds
<1> HIDE DEF f
<1>8. FreeHolds(f)
  BY <1>2, <1>3, <1>6, <1>7 DEF FreeHolds, Drawing, Taken
<1>9. ReadyHolds(r)
  <2>1. Once(r) /\ Elems(r) = {} /\ Len(r) = 0
    BY DEF Once, Elems
  <2>2. ready = EmptyList
    BY DEF Init
  <2>3. Holds(ready, next, r)
    BY <2>1, <2>2 DEF Holds
  <2>4. QED
    BY <1>2, <1>3, <2>1, <2>3 DEF ReadyHolds, Linking
<1>10. r \in Seq(Queued)
  OBVIOUS
<1> HIDE DEF r
<1>11. QED
  BY <1>4, <1>5, <1>6, <1>8, <1>9, <1>10 DEF Pools

(* A pool has no more nodes than there are threads, and Contents reads what *)
(* it holds.                                                               *)
LEMMA PoolContents ==
    ASSUME NEW s \in Seq(Queued), Once(s), NEW l, NEW n, Spells(l, n, s)
    PROVE  Contents(l, n, THREAD_MAX_NUM + 2) = s
<1>1. NULL \notin Queued
  BY ThreadFacts
<1>2. IsFiniteSet(Elems(s)) /\ Cardinality(Elems(s)) = Len(s)
  BY OnceCardinality
<1>3. Elems(s) \subseteq Thread
  <2>1. DOMAIN s = 1 .. Len(s) /\ \A i \in 1 .. Len(s) : s[i] \in Queued
    OBVIOUS
  <2>2. Queued \subseteq Thread
    BY ThreadFacts
  <2>3. QED
    BY <2>1, <2>2 DEF Elems
<1>4. IsFiniteSet(Thread) /\ Cardinality(Thread) = THREAD_MAX_NUM + 2
  <2>1. 0 \in Int /\ THREAD_MAX_NUM + 1 \in Int
        /\ THREAD_MAX_NUM + 1 - 0 + 1 = THREAD_MAX_NUM + 2 /\ ~(0 > THREAD_MAX_NUM + 1)
    BY KernelAssumption
  <2>2. IsFiniteSet(0 .. THREAD_MAX_NUM + 1)
        /\ Cardinality(0 .. THREAD_MAX_NUM + 1) = THREAD_MAX_NUM + 2
    BY <2>1, FS_Interval
  <2>3. QED
    BY <2>2 DEF Thread
<1>5. Len(s) <= THREAD_MAX_NUM + 2 /\ THREAD_MAX_NUM + 2 \in Nat
  <2>1. Len(s) <= THREAD_MAX_NUM + 2
    BY <1>2, <1>3, <1>4, FS_Subset
  <2>2. THREAD_MAX_NUM + 2 \in Nat
    BY KernelAssumption
  <2>3. QED
    BY <2>1, <2>2
<1>6. QED
  BY <1>1, <1>5, ContentsSpelled

(* Between the link and the tail pointer, the walk still ends at the old    *)
(* tail; between the head and the tail pointer, at the new node.           *)
LEMMA TailBehind ==
    ASSUME NEW r \in Seq(Queued), Once(r), NEW x \in Queued, x \notin Elems(r),
           NEW l \in Lists(Queued), NEW n, n[x] = NULL,
           Holds([l EXCEPT !.tail = x], n, Append(r, x)),
           l.tail = IF r = <<>> THEN NULL ELSE r[Len(r)]
    PROVE  Contents(l, n, THREAD_MAX_NUM + 2) = IF r = <<>> THEN <<x>> ELSE r
<1>1. /\ Append(r, x) # <<>> /\ Len(Append(r, x)) = Len(r) + 1
      /\ \A i \in 1 .. Len(r) : Append(r, x)[i] = r[i]
      /\ Append(r, x)[Len(r) + 1] = x /\ Len(r) \in Nat
  BY ElemsOfAppend
<1>2. l.head = Append(r, x)[1]
  BY <1>1 DEF Holds, Lists
<1>3. CASE r = <<>>
  <2>1. <<x>> \in Seq(Queued) /\ Len(<<x>>) = 1 /\ <<x>> # <<>> /\ <<x>>[1] = x
    OBVIOUS
  <2>2. l.head = x
    BY <1>1, <1>2, <1>3
  <2>3. Once(<<x>>) /\ Spells(l, n, <<x>>)
    BY <2>1, <2>2 DEF Once, Spells
  <2>4. QED
    BY <1>3, <2>1, <2>3, PoolContents
<1>4. CASE r # <<>>
  <2>1. l.head = r[1] /\ l.tail = r[Len(r)]
    BY <1>1, <1>2, <1>4
  <2>2. ASSUME NEW i \in 1 .. Len(r) - 1
        PROVE  r[i] # l.tail /\ n[r[i]] = r[i + 1]
    <3>1. i \in 1 .. Len(r) /\ i + 1 \in 1 .. Len(r) /\ Len(r) \in 1 .. Len(r)
          /\ i # Len(r) /\ i \in 1 .. Len(Append(r, x)) - 1
      BY <1>1
    <3>2. n[Append(r, x)[i]] = Append(r, x)[i + 1]
      BY <3>1 DEF Holds
    <3>3. QED
      BY <1>1, <2>1, <3>1, <3>2 DEF Once
  <2>3. Spells(l, n, r)
    BY <1>4, <2>1, <2>2 DEF Spells
  <2>4. QED
    BY <1>4, <2>3, PoolContents
<1>5. QED
  BY <1>3, <1>4

(* The queue of the refinement mapping.                                    *)
Shows == \A r \in Seq(Queued) : ReadyHolds(r) => Members(ready) = Shown(r)

LEMMA ReadyShown == TypeOK /\ Posts => Shows
<1> SUFFICES ASSUME TypeOK, Posts, NEW r \in Seq(Queued), ReadyHolds(r)
             PROVE  Members(ready) = Shown(r)
  BY DEF Shows
<1>1. Once(r) /\ ready \in Lists(Queued)
  BY DEF ReadyHolds, TypeOK
<1>2. CASE pc[cur] = "settail"
  <2>1. node[cur] \in Queued /\ node[cur] \notin Elems(r)
    BY <1>2, ThreadFacts DEF Posts, Creating, ReadyHolds, Linking
  <2>2. /\ next[node[cur]] = NULL
        /\ Holds([ready EXCEPT !.tail = node[cur]], next, Append(r, node[cur]))
        /\ ready.tail = IF r = <<>> THEN NULL ELSE r[Len(r)]
    BY <1>2 DEF ReadyHolds, Linking
  <2>3. QED
    BY <1>1, <1>2, <2>1, <2>2, TailBehind DEF Members, Shown
<1>3. CASE pc[cur] # "settail"
  <2>1. Spells(ready, next, r)
    BY <1>1, <1>3, HoldsSpells DEF ReadyHolds
  <2>2. QED
    BY <1>1, <1>3, <2>1, PoolContents DEF Members, Shown
<1>4. QED
  BY <1>2, <1>3

-----------------------------------------------------------------------------
(* What a walk finds in a pool that holds s.                               *)
LEMMA PoolExact ==
    ASSUME NEW s \in Seq(Queued), Once(s), NEW l, Holds(l, next, s)
    PROVE  Members(l) = s /\ NoDuplicates(l) /\ Elems(Members(l)) = Elems(s)
<1>1. Members(l) = s
  BY HoldsSpells, PoolContents DEF Members
<1>2. Cardinality(Elems(s)) = Len(s)
  BY OnceCardinality
<1>3. QED
  BY <1>1, <1>2 DEF NoDuplicates

LEMMA ExactPools ==
    ASSUME TypeOK, Posts, Pools, Disciplined
    PROVE  QueuesExact
<1> SUFFICES ASSUME ~primask
             PROVE  /\ NoDuplicates(ready)
                    /\ Elems(Members(ready)) = Placed \ {Running}
                    /\ NoDuplicates(free) /\ Elems(Members(free)) = Spare
  BY DEF QueuesExact, Spare
<1>1. PICK f \in Seq(Queued), r \in Seq(Queued) : FreeHolds(f) /\ ReadyHolds(r)
  BY DEF Pools
<1>2. pc[cur] \in Calm /\ \A t \in Thread : pc[t] \in Calm
  BY DEF Posts, Disciplined
<1>3. /\ Once(f) /\ Elems(f) = Spare /\ Holds(free, next, f)
      /\ Once(r) /\ Elems(r) = Alive \ {Running} /\ Holds(ready, next, r)
  BY <1>1, <1>2 DEF FreeHolds, ReadyHolds, Calm, Drawing, Taken, Linking
<1>4. Placed = Alive
  <2>1. \A t \in Thread : node[t] = NULL
    BY <1>2 DEF Disciplined, Calm, Creating
  <2>2. BeingCreated \subseteq {NULL}
    BY <2>1 DEF BeingCreated
  <2>3. QED
    BY <2>2, ThreadFacts DEF Placed, Alive, Spare
<1>5. QED
  BY <1>3, <1>4, PoolExact

(* At any label of thread_create.                                          *)
LEMMA OwnedObject ==
    ASSUME TypeOK, Posts, Pools
    PROVE  DrawnIsOwned
<1> SUFFICES ASSUME NEW t \in Thread, pc[t] \in Owning \cup Unlinked
             PROVE  /\ node[t] \notin {cur, Running}
                    /\ \A u \in Thread \ {t} : pc[u] \notin Owning
                    /\ pc[t] \in Unlinked =>
                          node[t] \notin Elems(Members(free))
                                         \cup Elems(Members(ready))
  BY DEF DrawnIsOwned
<1>1. t = cur /\ pc[cur] \in Creating /\ \A u \in Thread \ {t} : pc[u] \notin Owning
  BY DEF Posts, Owning, Unlinked, Calm, Creating
<1>2. ~pendsv /\ Running = cur /\ node[t] \in Workers \ {cur}
  BY <1>1, PoolFacts DEF Posts, Owning, Unlinked, Calm
<1>3. ASSUME pc[t] \in Unlinked
      PROVE  node[t] \notin Elems(Members(free)) \cup Elems(Members(ready))
  <2>1. PICK f \in Seq(Queued), r \in Seq(Queued) : FreeHolds(f) /\ ReadyHolds(r)
    BY DEF Pools
  <2>2. pc[cur] \notin Drawing \cup {"untail", "settail"}
        /\ pc[cur] \in Taken \cup Linking
    BY <1>1, <1>3 DEF Unlinked, Drawing, Taken, Linking
  <2>3. /\ Once(f) /\ Holds(free, next, f)
        /\ Once(r) /\ Holds(ready, next, r)
    BY <2>1, <2>2 DEF FreeHolds, ReadyHolds
  <2>4. node[cur] \notin Elems(f) \cup Elems(r)
    <3>1. CASE pc[cur] \in Taken
      <4>1. node[cur] \in Spare /\ pc[cur] \notin Linking
        BY <3>1 DEF Posts, Taken, Linking
      <4>2. QED
        BY <2>1, <3>1, <4>1 DEF FreeHolds, ReadyHolds, Alive
    <3>2. CASE pc[cur] \in Linking
      <4>1. pc[node[cur]] = "run"
        BY <1>1, <3>2 DEF Posts, Drawing, Taken, Linking
      <4>2. node[cur] \notin Spare
        BY <4>1 DEF Spare
      <4>3. QED
        BY <2>1, <3>2, <4>2 DEF FreeHolds, ReadyHolds
    <3>3. QED
      BY <2>2, <3>1, <3>2
  <2>5. Elems(Members(free)) = Elems(f) /\ Elems(Members(ready)) = Elems(r)
    BY <2>3, PoolExact
  <2>6. QED
    BY <1>1, <2>4, <2>5
<1>4. QED
  BY <1>1, <1>2, <1>3

(* What a step may do to the queue is what the abstract scheduler does.     *)
LEMMA MovedRoundRobin ==
    ASSUME TypeOK, Posts, Shows, Shows', NEW r \in Seq(Queued), ReadyHolds(r),
           Moved(r)
    PROVE  [Abstract!Next]_(Abstract!vars)
<1>1. Members(ready) = Shown(r) /\ Running # Idle
  BY PoolFacts DEF Shows, Queued
<1>2. PICK q \in Seq(Queued) : ReadyHolds(q)' /\ Turn(r, q)
  BY DEF Moved
<1>3. Members(ready)' = Shown(q)'
  BY <1>2 DEF Shows
<1>4. CASE Running' = Running /\ Shown(q)' = Shown(r)
  BY <1>1, <1>3, <1>4 DEF Abstract!vars
<1>5. CASE /\ Running' = Running /\ Shown(q)' = Append(Shown(r), node[cur])
           /\ node[cur] \in Workers
           /\ node[cur] \notin Elems(Shown(r)) \cup {Running}
  <2>1. Abstract!Create(node[cur])
    BY <1>1, <1>3, <1>5 DEF Abstract!Create, Abstract!Ready, Elems
  <2>2. QED
    BY <1>5, <2>1 DEF Abstract!Next
<1>6. CASE /\ Shown(r) # <<>> /\ Running' = Shown(r)[1]
           /\ Shown(q)' = Append(Tail(Shown(r)), Running)
  BY <1>1, <1>3, <1>6 DEF Abstract!Next, Abstract!Preempt
<1>7. CASE /\ Shown(r) # <<>> /\ Running' = Shown(r)[1] /\ Running \in Workers
           /\ Shown(q)' = Tail(Shown(r))
  BY <1>1, <1>3, <1>7 DEF Abstract!Next, Abstract!Finish, Abstract!Succeeded
<1>8. QED
  BY <1>2, <1>4, <1>5, <1>6, <1>7 DEF Turn

LEMMA InitRoundRobin == Init /\ Shows => Abstract!Init
<1> SUFFICES ASSUME Init, Shows PROVE Abstract!Init
  OBVIOUS
<1>1. Running = Main /\ Posts /\ Pools
  BY InitPools DEF Init, Running
<1>2. <<>> \in Seq(Queued) /\ ReadyHolds(<<>>)
  <2>1. PICK r \in Seq(Queued) : ReadyHolds(r)
    BY <1>1 DEF Pools
  <2>2. ready.head = NULL /\ pc[cur] = "run" /\ Main \in Thread
    BY ThreadFacts DEF Init, EmptyList
  <2>3. r = <<>>
    <3> SUFFICES ASSUME r # <<>> PROVE FALSE
      OBVIOUS
    <3>1. ready.head = r[1] /\ r[1] \in Queued
      BY <2>1, <2>2 DEF ReadyHolds, Holds
    <3>2. QED
      BY <2>2, <3>1, ThreadFacts
  <2>4. QED
    BY <2>1, <2>3
<1>3. Members(ready) = <<>>
  <2>1. Shown(<<>>) = <<>>
    BY ThreadFacts DEF Init, Shown
  <2>2. QED
    BY <1>2, <2>1 DEF Shows
<1>4. QED
  BY <1>1, <1>3 DEF Abstract!Init

(***************************************************************************)
(* The pools hold what they should at every step, for any number of thread *)
(* objects and of calls, when clients mask interrupts around thread_create *)
(* and do not join.                                                        *)
(***************************************************************************)
THEOREM PoolsHeld ==
    ASSUME MaskedCreate, Joiners = {}
    PROVE  Spec => [](Posts /\ Pools /\ Disciplined)
<1>1. Init => Posts /\ Pools /\ Disciplined
  BY InitPools
<1>2. TypeOK /\ Posts /\ Pools /\ Disciplined /\ [Next]_vars
        => (Posts /\ Pools /\ Disciplined)'
  <2> SUFFICES ASSUME TypeOK, Posts, Pools, Disciplined, [Next]_vars
               PROVE  Posts' /\ Pools' /\ Disciplined'
    OBVIOUS
  <2>1. PICK f \in Seq(Queued), r \in Seq(Queued) : FreeHolds(f) /\ ReadyHolds(r)
    BY DEF Pools
  <2>3. Posts' /\ Moved(r)
    BY <2>1, StepRegular, StepPools
  <2>4. Disciplined'
    BY StepRegular, StepDisciplined
  <2>5. QED
    BY <2>3, <2>4 DEF Moved, Pools
<1>3. QED
  BY <1>1, <1>2, TypesCorrect, PTL DEF Spec

(* Outside critical sections every live thread but the running one is in    *)
(* the ready pool, once, and every other object in the free pool, once.     *)
THEOREM QueuesAreExact ==
    ASSUME MaskedCreate, Joiners = {}
    PROVE  Spec => []QueuesExact
<1>1. TypeOK /\ Posts /\ Pools /\ Disciplined => QueuesExact
  BY ExactPools
<1>2. QED
  BY <1>1, PoolsHeld, TypesCorrect, PTL

(* The object that thread_create has drawn is its caller's alone until it   *)
(* is linked, and does not run before thread_create is done.               *)
THEOREM ObjectsOwned ==
    ASSUME MaskedCreate, Joiners = {}
    PROVE  Spec => []DrawnIsOwned
<1>1. TypeOK /\ Posts /\ Pools => DrawnIsOwned
  BY OwnedObject
<1>2. QED
  BY <1>1, PoolsHeld, TypesCorrect, PTL

(* m_thread_cleanup's assert(false) is not reached, no list ever has a null *)
(* tail when a node is put behind it, and nothing faults.                  *)
THEOREM AssertionsHold ==
    ASSUME MaskedCreate, Joiners = {}
    PROVE  Spec => [](NeverBack /\ TailsSet)
<1>1. TypeOK /\ Posts => NeverBack /\ TailsSet
  BY DEF TypeOK, Posts, NeverBack, TailsSet, Calm, Creating
<1>2. QED
  BY <1>1, PoolsHeld, TypesCorrect, PTL

(* The kernel implements the round-robin scheduler: the queue that a walk   *)
(* along the links of the ready pool finds is the queue of RoundRobin.     *)
THEOREM KernelIsRoundRobin ==
    ASSUME MaskedCreate, Joiners = {}
    PROVE  Spec => ImplementsRoundRobin
<1>1. TypeOK /\ Posts => Shows
  BY ReadyShown
<1>2. Init /\ Shows => Abstract!Init
  BY InitRoundRobin
<1>3. /\ TypeOK /\ Posts /\ Pools /\ Disciplined /\ Shows /\ Shows'
      /\ [Next]_vars
      => [Abstract!Next]_(Abstract!vars)
  BY StepRegular, StepPools, MovedRoundRobin DEF Pools
<1>4. QED
  BY <1>1, <1>2, <1>3, PoolsHeld, TypesCorrect, PTL
     DEF Spec, ImplementsRoundRobin, Abstract!Spec
=============================================================================
