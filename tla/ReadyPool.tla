----------------------------- MODULE ReadyPool -----------------------------
(***************************************************************************)
(* sched_ready_remove of hello_world/sys/scheduler.c, iteration by         *)
(* iteration: the only code that walks a list.  The scheduler's lock keeps *)
(* the other operations out until it returns, and a client removes only    *)
(* threads that are in the ready pool.                                     *)
(***************************************************************************)
EXTENDS SListOps

CONSTANT Pool        \* m_thread_ready_pool

ASSUME ReadyPoolAssumption == Pool \in List

VARIABLES
    thread,          \* the thread to be removed, NULL outside the function
    node,            \* the local variables of the function
    node_next

walk == <<thread, node, node_next>>

poolVars == <<vars, walk>>

ReadyInit ==
    /\ Init
    /\ thread = NULL /\ node = NULL /\ node_next = NULL

Returns == thread' = NULL /\ node' = NULL /\ node_next' = NULL

sched_ready_remove(n) ==
    /\ thread = NULL /\ n \in Range(seq[Pool])
    /\ \/ /\ list[Pool].head = n
          /\ slist_head_remove(Pool)
          /\ UNCHANGED walk
       \/ /\ list[Pool].head # n
          /\ thread' = n
          /\ node' = list[Pool].head
          /\ node_next' = next[list[Pool].head]
          /\ UNCHANGED vars

Found ==
    /\ thread # NULL /\ node_next = thread
    /\ \E i \in DOMAIN seq[Pool] :
          seq[Pool][i] = node /\ slist_next_remove(Pool, i)
    /\ Returns

(* Mutant: the node is not moved along. *)
AdvanceNextOnly ==
    /\ thread # NULL /\ node_next # thread
    /\ IF next[node_next] = NULL THEN Returns
       ELSE node_next' = next[node_next] /\ UNCHANGED <<thread, node>>
    /\ UNCHANGED vars

Advance ==
    /\ thread # NULL /\ node_next # thread
    /\ IF next[node_next] = NULL THEN Returns
       ELSE /\ node' = node_next
            /\ node_next' = next[node_next]
            /\ UNCHANGED thread
    /\ UNCHANGED vars

Walk == Found \/ Advance

ReadyNext ==
    \/ thread = NULL /\ Next /\ UNCHANGED walk
    \/ \E n \in Node : sched_ready_remove(n)
    \/ Walk

(* The thread that walks holds the lock with interrupts masked: it goes on. *)
ReadySpec == ReadyInit /\ [][ReadyNext]_poolVars /\ WF_poolVars(Walk)

-----------------------------------------------------------------------------
(* The walk stays in the pool: node and node_next are neighbours, and the   *)
(* thread is still ahead, so that neither is NULL when it is followed      *)
(* (scheduler.c:194-208).                                                  *)
WalkInPool ==
    thread # NULL =>
        \E i, j \in DOMAIN seq[Pool] :
            /\ i < j /\ seq[Pool][j] = thread
            /\ seq[Pool][i] = node /\ seq[Pool][i + 1] = node_next

(* Every walk ends, and its thread is then in no list.                      *)
WalkEnds ==
    \A n \in Node : thread = n ~> thread = NULL /\ n \notin Listed
=============================================================================
