----------------------------- MODULE SListOps -----------------------------
(***************************************************************************)
(* Lists of hello_world/tools/slist.c over one set of nodes, with clients  *)
(* that call every operation of the interface in any order.                *)
(*                                                                         *)
(* What a client has to observe is nowhere enforced: a node is put only    *)
(* while it is in no list, and slist_next_*() is given a node of the list  *)
(* it names.  `seq` is an auxiliary variable with what a client that keeps *)
(* to this knows from its own calls; no pointer is computed from it, nor   *)
(* from `ret`, the answers.  Whether clients clear the link of a node      *)
(* before they put it is up to each list's clients, too.                   *)
(***************************************************************************)
EXTENDS SList, SequencesExt

CONSTANTS
    Node,            \* the nodes
    List,            \* the lists that share them
    Tidy             \* the lists whose clients put a node with a null link

ASSUME SListOpsAssumption ==
    /\ NULL \notin Node
    /\ Tidy \subseteq List

VARIABLES
    list,            \* slist_t of each list
    next,            \* the link of each node
    ret,             \* auxiliary: the last answer to a client of a tidy list
    seq              \* auxiliary: the nodes of each list, head first

vars == <<list, next, ret, seq>>

Listed == UNION {Range(seq[l]) : l \in List}

(* A node that a client of list l may put. *)
Loose(l) == {n \in Node \ Listed : l \in Tidy => next[n] = NULL}

Answers(l, p) == ret' = IF l \in Tidy THEN p ELSE ret

Init ==
    /\ list = [l \in List |-> EmptyList]
    /\ next = [n \in Node |-> NULL]
    /\ ret = NULL
    /\ seq = [l \in List |-> <<>>]

(* slist_init on a list in use: its nodes are loose, their links remain.   *)
ListInit(l) ==
    /\ list' = [list EXCEPT ![l] = EmptyList]
    /\ seq' = [seq EXCEPT ![l] = <<>>]
    /\ UNCHANGED <<next, ret>>

(* The client writes a null link into a node it holds.                     *)
ClearLink(n) ==
    /\ n \notin Listed
    /\ next' = [next EXCEPT ![n] = NULL]
    /\ UNCHANGED <<list, ret, seq>>

slist_head_put(l, n) ==
    /\ n \in Loose(l)
    /\ list' = [list EXCEPT ![l] = HeadPut(list[l], n)]
    /\ next' = HeadPutLinks(list[l], next, n)
    /\ seq' = [seq EXCEPT ![l] = InsertAt(seq[l], 1, n)]
    /\ UNCHANGED ret

slist_tail_put(l, n) ==
    /\ n \in Loose(l)
    /\ list' = [list EXCEPT ![l] = TailPut(list[l], n)]
    /\ next' = TailPutLinks(list[l], next, n)
    /\ seq' = [seq EXCEPT ![l] = InsertAt(seq[l], Len(seq[l]) + 1, n)]
    /\ UNCHANGED ret

(* Behind the i-th node. *)
slist_next_put(l, i, n) ==
    /\ n \in Loose(l)
    /\ list' = [list EXCEPT ![l] = NextPut(list[l], seq[l][i], n)]
    /\ next' = NextPutLinks(list[l], next, seq[l][i], n)
    /\ seq' = [seq EXCEPT ![l] = InsertAt(seq[l], i + 1, n)]
    /\ UNCHANGED ret

(* What the client believes to be left when the i-th node is taken.        *)
Without(l, i) == IF i \in DOMAIN seq[l] THEN RemoveAt(seq[l], i) ELSE seq[l]

HeadTaken(l) ==
    /\ list' = [list EXCEPT ![l] = HeadGet(list[l], next)]
    /\ seq' = [seq EXCEPT ![l] = Without(l, 1)]
    /\ UNCHANGED next

slist_head_get(l) == HeadTaken(l) /\ Answers(l, list[l].head)

slist_head_remove(l) == HeadTaken(l) /\ UNCHANGED ret

(* The successor of the i-th node is taken. *)
NextTaken(l, i) ==
    /\ list' = [list EXCEPT ![l] = NextGet(list[l], next, seq[l][i])]
    /\ next' = NextGetLinks(list[l], next, seq[l][i])
    /\ seq' = [seq EXCEPT ![l] = Without(l, i + 1)]

slist_next_get(l, i) == NextTaken(l, i) /\ Answers(l, next[seq[l][i]])

slist_next_remove(l, i) == NextTaken(l, i) /\ UNCHANGED ret

Peeked(l, p) == Answers(l, p) /\ UNCHANGED <<list, next, seq>>

slist_head_peek(l) == Peeked(l, list[l].head)

slist_tail_peek(l) == Peeked(l, list[l].tail)

slist_next_peek(l, i) == Peeked(l, next[seq[l][i]])

Next ==
    \/ \E l \in List :
          \/ ListInit(l)
          \/ \E n \in Node : slist_head_put(l, n) \/ slist_tail_put(l, n)
          \/ slist_head_get(l) \/ slist_head_remove(l)
          \/ slist_head_peek(l) \/ slist_tail_peek(l)
          \/ \E i \in DOMAIN seq[l] :
                \/ slist_next_get(l, i) \/ slist_next_remove(l, i)
                \/ slist_next_peek(l, i)
                \/ \E n \in Node : slist_next_put(l, i, n)
    \/ \E n \in Node : ClearLink(n)

Spec == Init /\ [][Next]_vars

-----------------------------------------------------------------------------

TypeOK ==
    /\ list \in [List -> Lists(Node)]
    /\ next \in [Node -> Node \cup {NULL}]
    /\ ret \in Node \cup {NULL}
    /\ seq \in [List -> Seq(Node)]

(* A node is in one list at most, and once: the clients' discipline.       *)
Separate ==
    /\ \A l \in List : \A i, j \in DOMAIN seq[l] :
          seq[l][i] = seq[l][j] => i = j
    /\ \A l, m \in List : l # m =>
          \A i \in DOMAIN seq[l], j \in DOMAIN seq[m] : seq[l][i] # seq[m][j]

Represents(lst, links, s) ==
    /\ s = <<>> => lst = EmptyList
    /\ s # <<>> => lst.head = s[1] /\ lst.tail = s[Len(s)]
    /\ \A i \in 1 .. Len(s) - 1 : links[s[i]] = s[i + 1]

(***************************************************************************)
(* After any calls on lists that share nodes, the head, the tail and the   *)
(* links of each list spell exactly the nodes that were put into it and    *)
(* not taken: no operation of slist.c loses a node, leaves a stale tail or *)
(* writes a link that another list needs, whatever stale links loose nodes *)
(* and tails carry.                                                        *)
(***************************************************************************)
ListsExact == \A l \in List : Represents(list[l], next, seq[l])

(* The assertions of slist.c that depend on the list hold at every call:   *)
(* only the tail has no successor, and a list with a head has a tail.      *)
AssertsHold ==
    \A l \in List :
        /\ TailPutAssert(list[l])
        /\ \A i \in DOMAIN seq[l] : NextGetAssert(list[l], next, seq[l][i])

(* slist_next_get and slist_next_peek answer NULL for the tail of a list    *)
(* (slist.c:132, "node is list->tail"; slist_test.cpp:197): its link is     *)
(* null.                                                                   *)
TailHasNoNext ==
    \A l \in List : seq[l] # <<>> => next[seq[l][Len(seq[l])]] = NULL

(* Clients that clear the link of a node they put see sequences, whatever   *)
(* links the clients of other lists leave in the nodes they share: every   *)
(* operation answers with the node at its position, or NULL.               *)
ListAbs == INSTANCE ListSpec WITH List <- Tidy, seq <- [l \in Tidy |-> seq[l]]

ImplementsListSpec == ListAbs!Spec
=============================================================================
