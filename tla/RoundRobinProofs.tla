-------------------------- MODULE RoundRobinProofs --------------------------
(***************************************************************************)
(* The scheduler's promise, for any set of threads: the queue never holds  *)
(* a thread twice nor the one that runs, and the main thread is always one *)
(* or the other, so that the idle thread has nothing to wait for.          *)
(***************************************************************************)
EXTENDS RoundRobin, TLAPS

Threads == Worker \cup {Main}

(* The queue after its head has left. *)
LEMMA TailFacts ==
    ASSUME NEW S, NEW s \in Seq(S), s # <<>>
    PROVE  /\ Head(s) = s[1] /\ Head(s) \in S
           /\ Tail(s) \in Seq(S) /\ Len(s) \in Nat \ {0}
           /\ Len(Tail(s)) = Len(s) - 1
           /\ \A i \in 1 .. Len(s) - 1 : Tail(s)[i] = s[i + 1]
OBVIOUS

(* The queue after a thread has joined it. *)
LEMMA AppendFacts ==
    ASSUME NEW S, NEW s \in Seq(S), NEW e \in S
    PROVE  /\ Append(s, e) \in Seq(S) /\ Len(s) \in Nat
           /\ Len(Append(s, e)) = Len(s) + 1
           /\ \A i \in 1 .. Len(s) : Append(s, e)[i] = s[i]
           /\ Append(s, e)[Len(s) + 1] = e
OBVIOUS

(* An injective sequence, without its head. *)
Distinct(s) == \A i, j \in 1 .. Len(s) : s[i] = s[j] => i = j

Members(s) == {s[i] : i \in 1 .. Len(s)}

LEMMA TailDistinct ==
    ASSUME NEW S, NEW s \in Seq(S), s # <<>>, Distinct(s)
    PROVE  /\ Distinct(Tail(s)) /\ Head(s) \notin Members(Tail(s))
           /\ Members(s) = Members(Tail(s)) \cup {Head(s)}
<1> USE TailFacts
<1>1. \A i \in 1 .. Len(Tail(s)) :
         i + 1 \in 1 .. Len(s) /\ Tail(s)[i] = s[i + 1]
  OBVIOUS
<1>2. Distinct(Tail(s))
  <2> SUFFICES ASSUME NEW i \in 1 .. Len(Tail(s)), NEW j \in 1 .. Len(Tail(s)),
                      Tail(s)[i] = Tail(s)[j]
               PROVE  i = j
    BY DEF Distinct
  <2>1. i + 1 = j + 1
    BY <1>1 DEF Distinct
  <2>2. QED
    BY <2>1
<1>3. Head(s) \notin Members(Tail(s))
  <2> SUFFICES ASSUME NEW i \in 1 .. Len(Tail(s)), Head(s) = Tail(s)[i]
               PROVE  FALSE
    BY DEF Members
  <2>1. 1 \in 1 .. Len(s) /\ s[1] = s[i + 1]
    BY <1>1
  <2>2. QED
    BY <1>1, <2>1 DEF Distinct
<1>4. Members(s) = Members(Tail(s)) \cup {Head(s)}
  <2>1. ASSUME NEW x \in Members(s) PROVE x \in Members(Tail(s)) \cup {Head(s)}
    <3>1. PICK i \in 1 .. Len(s) : x = s[i]
      BY DEF Members
    <3>2. CASE i = 1
      BY <3>1, <3>2
    <3>3. CASE i # 1
      <4>1. i - 1 \in 1 .. Len(Tail(s)) /\ Tail(s)[i - 1] = s[i]
        BY <1>1, <3>3
      <4>2. QED
        BY <3>1, <4>1 DEF Members
    <3>4. QED
      BY <3>2, <3>3
  <2>2. Members(Tail(s)) \subseteq Members(s)
    BY <1>1 DEF Members
  <2>3. Head(s) \in Members(s)
    BY DEF Members
  <2>4. QED
    BY <2>1, <2>2, <2>3
<1>5. QED
  BY <1>2, <1>3, <1>4

LEMMA AppendDistinct ==
    ASSUME NEW S, NEW s \in Seq(S), NEW e \in S, Distinct(s), e \notin Members(s)
    PROVE  /\ Distinct(Append(s, e))
           /\ Members(Append(s, e)) = Members(s) \cup {e}
<1> DEFINE a == Append(s, e)
<1>1. /\ Len(s) \in Nat /\ Len(a) = Len(s) + 1 /\ a[Len(s) + 1] = e
      /\ \A i \in 1 .. Len(s) : a[i] = s[i]
  BY AppendFacts
<1> HIDE DEF a
<1>2. \A i \in 1 .. Len(s) : a[i] # e
  BY <1>1 DEF Members
<1>3. Distinct(a)
  BY <1>1, <1>2 DEF Distinct
<1>4. Members(a) = Members(s) \cup {e}
  <2>1. Members(a) \subseteq Members(s) \cup {e}
    BY <1>1 DEF Members
  <2>2. Members(s) \subseteq Members(a)
    <3> SUFFICES ASSUME NEW i \in 1 .. Len(s) PROVE s[i] \in Members(a)
      BY DEF Members
    <3>1. i \in 1 .. Len(a) /\ a[i] = s[i]
      BY <1>1
    <3>2. QED
      BY <3>1 DEF Members
  <2>3. e \in Members(a)
    <3>1. Len(s) + 1 \in 1 .. Len(a)
      BY <1>1
    <3>2. QED
      BY <1>1, <3>1 DEF Members
  <2>4. QED
    BY <2>1, <2>2, <2>3
<1>5. QED
  BY <1>3, <1>4 DEF a

-----------------------------------------------------------------------------
(* The invariant: besides the properties, the running thread is a thread    *)
(* and not the idle one.                                                   *)
Inv ==
    /\ running \in Threads
    /\ queue \in Seq(Threads)
    /\ running \notin Members(queue)
    /\ Distinct(queue)
    /\ Main \in Members(queue) \cup {running}

LEMMA ReadyMembers ==
    ASSUME queue \in Seq(Threads) PROVE Ready = Members(queue)
BY DEF Ready, Members

LEMMA InvInit == Init => Inv
<1> SUFFICES ASSUME Init PROVE Inv
  OBVIOUS
<1>1. Len(queue) = 0 /\ queue \in Seq(Threads)
  BY DEF Init
<1>2. Members(queue) = {} /\ Distinct(queue)
  BY <1>1 DEF Members, Distinct
<1>3. QED
  BY <1>1, <1>2 DEF Init, Inv, Threads

LEMMA InvNext == Inv /\ [Next]_vars => Inv'
<1> SUFFICES ASSUME Inv, [Next]_vars PROVE Inv'
  OBVIOUS
<1> USE DEF Inv
<1>1. ASSUME NEW t \in Worker, Create(t) PROVE Inv'
  <2>1. t \notin Members(queue) /\ t # running
    BY <1>1, ReadyMembers DEF Create
  <2>2. queue' = Append(queue, t) /\ running' = running /\ t \in Threads
    BY <1>1 DEF Create, Threads
  <2>3. QED
    BY <2>1, <2>2, AppendDistinct, AppendFacts
<1>2. CASE Preempt
  <2>1. /\ queue # <<>> /\ running' = Head(queue)
        /\ queue' = Append(Tail(queue), running)
    BY <1>2 DEF Preempt
  <2>2. /\ Tail(queue) \in Seq(Threads) /\ Distinct(Tail(queue))
        /\ Members(queue) = Members(Tail(queue)) \cup {Head(queue)}
        /\ Head(queue) \notin Members(Tail(queue)) /\ Head(queue) \in Threads
    BY <2>1, TailDistinct, TailFacts
  <2>3. /\ queue' \in Seq(Threads) /\ Distinct(queue')
        /\ Members(queue') = Members(Tail(queue)) \cup {running}
    <3> DEFINE rest == Tail(queue)
    <3>1. rest \in Seq(Threads) /\ Distinct(rest) /\ running \notin Members(rest)
      BY <2>2
    <3>2. queue' = Append(rest, running)
      BY <2>1
    <3> HIDE DEF rest
    <3>3. queue' \in Seq(Threads)
      BY <3>1, <3>2, AppendFacts
    <3>4. Distinct(queue') /\ Members(queue') = Members(rest) \cup {running}
      BY <3>1, <3>2, AppendDistinct
    <3>5. QED
      BY <3>3, <3>4 DEF rest
  <2>4. QED
    BY <2>1, <2>2, <2>3
<1>3. CASE Finish
  <2>1. running # Main
    BY <1>3, RoundRobinAssumption DEF Finish
  <2>2. queue # <<>>
    <3>1. ASSUME queue = <<>> PROVE FALSE
      BY <2>1, <3>1 DEF Members
    <3>2. QED
      BY <3>1
  <2>3. running' = Head(queue) /\ queue' = Tail(queue)
    BY <1>3, <2>2 DEF Finish, Succeeded
  <2>4. QED
    BY <2>1, <2>2, <2>3, TailDistinct, TailFacts
<1>4. CASE UNCHANGED vars
  BY <1>4 DEF vars
<1>5. QED
  BY <1>1, <1>2, <1>3, <1>4 DEF Next

(* Who is alive, running or ready, after each action. *)
Alive == Ready \cup {running}

LEMMA AliveAfter ==
    ASSUME Inv
    PROVE  /\ \A t \in Worker : Create(t) => Alive' = Alive \cup {t}
           /\ Preempt \/ Finish \/ UNCHANGED vars => Alive' \subseteq Alive
<1> USE DEF Inv
<1>1. Ready = Members(queue) /\ (queue' \in Seq(Threads) => Ready' = Members(queue'))
  BY DEF Ready, Members
<1>2. ASSUME NEW t \in Worker, Create(t) PROVE Alive' = Alive \cup {t}
  <2>1. t \notin Members(queue) /\ queue' = Append(queue, t) /\ running' = running
    BY <1>1, <1>2 DEF Create
  <2>2. t \in Threads
    BY DEF Threads
  <2>3. queue' \in Seq(Threads) /\ Members(queue') = Members(queue) \cup {t}
    BY <2>1, <2>2, AppendFacts, AppendDistinct
  <2>4. QED
    BY <1>1, <2>1, <2>3 DEF Alive
<1>3. ASSUME Preempt PROVE Alive' \subseteq Alive
  <2> DEFINE rest == Tail(queue)
  <2>1. /\ queue # <<>> /\ running' = Head(queue)
        /\ queue' = Append(rest, running)
    BY <1>3 DEF Preempt
  <2>2. /\ rest \in Seq(Threads) /\ Distinct(rest)
        /\ Members(queue) = Members(rest) \cup {Head(queue)}
    BY <2>1, TailDistinct, TailFacts
  <2> HIDE DEF rest
  <2>3. /\ queue' \in Seq(Threads)
        /\ Members(queue') = Members(rest) \cup {running}
    BY <2>1, <2>2, AppendFacts, AppendDistinct
  <2>4. QED
    BY <1>1, <2>1, <2>2, <2>3 DEF Alive
<1>4. ASSUME Finish PROVE Alive' \subseteq Alive
  <2>1. queue # <<>>
    BY <1>4, RoundRobinAssumption DEF Finish, Members
  <2>2. running' = Head(queue) /\ queue' = Tail(queue)
    BY <1>4, <2>1 DEF Finish, Succeeded
  <2>3. QED
    BY <1>1, <2>1, <2>2, TailDistinct, TailFacts DEF Alive
<1>5. ASSUME UNCHANGED vars PROVE Alive' = Alive
  BY <1>5 DEF vars, Alive, Ready
<1>6. QED
  BY <1>2, <1>3, <1>4, <1>5

(* The main thread is never lost, and the idle thread never runs. *)
THEOREM MainAlwaysAlive == Spec => [](MainAlive /\ running # Idle)
<1>1. Inv => MainAlive /\ running # Idle
  BY ReadyMembers, RoundRobinAssumption DEF Inv, MainAlive, Threads
<1>2. QED
  BY <1>1, InvInit, InvNext, PTL DEF Spec

(* Whenever the core changes hands, every thread behind the head of the     *)
(* queue is one place nearer to it.                                        *)
THEOREM TurnsAdvance == Spec => Advances
<1>1. ASSUME Inv, [Next]_vars, running' # running, NEW i \in 2 .. Len(queue)
      PROVE  queue'[i - 1] = queue[i]
  <2> USE DEF Inv
  <2>1. ~UNCHANGED vars /\ \A t \in Worker : ~Create(t)
    BY <1>1 DEF vars, Create
  <2>2. queue # <<>>
    BY <1>1
  <2> DEFINE rest == Tail(queue)
  <2>3. /\ rest \in Seq(Threads) /\ Len(rest) = Len(queue) - 1
        /\ i - 1 \in 1 .. Len(rest) /\ rest[i - 1] = queue[(i - 1) + 1]
    BY <1>1, <2>2, TailFacts
  <2> HIDE DEF rest
  <2>4. CASE Preempt
    <3>1. queue' = Append(rest, running)
      BY <2>4 DEF Preempt, rest
    <3>2. QED
      BY <2>3, <3>1, AppendFacts
  <2>5. CASE Finish
    BY <2>2, <2>3, <2>5 DEF Finish, Succeeded, rest
  <2>6. QED
    BY <1>1, <2>1, <2>4, <2>5 DEF Next
<1>2. Inv /\ [Next]_vars =>
         [running' # running =>
            \A i \in 2 .. Len(queue) : queue'[i - 1] = queue[i]]_vars
  BY <1>1
<1>3. QED
  BY <1>2, InvInit, InvNext, PTL DEF Spec, Advances
=============================================================================
