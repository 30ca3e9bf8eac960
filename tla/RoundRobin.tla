---------------------------- MODULE RoundRobin ----------------------------
(***************************************************************************)
(* What the scheduler promises its clients (the comment at the head of     *)
(* hello_world/sys/scheduler.c, lines 25-39): one thread runs, the others  *)
(* wait in a queue in first-in first-out order, and the idle thread runs   *)
(* when there is nothing else to do.                                       *)
(*                                                                         *)
(* There are no interrupts here, no lists and no flags: admitting,         *)
(* preempting and ending a thread are single steps.                        *)
(***************************************************************************)
EXTENDS Naturals, Sequences

CONSTANTS
    Worker,          \* the threads that clients create and end
    Main,            \* the thread the system starts with, which never ends
    Idle             \* the thread that runs when no other can

ASSUME RoundRobinAssumption == Main # Idle /\ {Main, Idle} \cap Worker = {}

VARIABLES
    running,         \* the thread that has the core
    queue            \* the ready threads, the next one to run first

vars == <<running, queue>>

Ready == {queue[i] : i \in DOMAIN queue}

Init ==
    /\ running = Main
    /\ queue = <<>>

(* The thread that runs admits a new one, at the end of the queue.         *)
Create(t) ==
    /\ running # Idle
    /\ t \notin Ready \cup {running}
    /\ queue' = Append(queue, t)
    /\ UNCHANGED running

(* The time slice is over.  Mutant: the preempted thread is the next again. *)
PreemptToFront ==
    /\ running # Idle
    /\ queue # <<>>
    /\ running' = Head(queue)
    /\ queue' = <<running>> \o Tail(queue)

Preempt ==
    /\ running # Idle
    /\ queue # <<>>
    /\ running' = Head(queue)
    /\ queue' = Append(Tail(queue), running)

(* The running thread ends; the head of the queue succeeds it or, when the  *)
(* queue is empty, the idle thread.  Mutant: the main thread ends too.     *)
Succeeded ==
    IF queue = <<>> THEN running' = Idle /\ UNCHANGED queue
                    ELSE running' = Head(queue) /\ queue' = Tail(queue)

FinishAny == Succeeded

Finish == running \in Worker /\ Succeeded

Next == (\E t \in Worker : Create(t)) \/ Preempt \/ Finish

Spec == Init /\ [][Next]_vars

-----------------------------------------------------------------------------
TypeOK ==
    /\ running \in Worker \cup {Main, Idle}
    /\ queue \in Seq(Worker \cup {Main})

(* The main thread is never lost, so that the idle thread never runs        *)
(* (scheduler.c:29-33).                                                    *)
MainAlive == Main \in Ready \cup {running}

(* Each time the core changes hands, every other ready thread is one place  *)
(* nearer to it: none waits for more than the length of the queue.         *)
Advances ==
    [][running' # running =>
         \A i \in 2 .. Len(queue) : queue'[i - 1] = queue[i]]_vars
=============================================================================
