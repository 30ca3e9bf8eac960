------------------------------- MODULE SList -------------------------------
(***************************************************************************)
(* The intrusive single linked list of hello_world/tools/slist.c.          *)
(*                                                                         *)
(* A list is the pair of its head and tail pointers; the nodes' own `next` *)
(* fields are kept in one function, the heap, because a node belongs to    *)
(* whatever list reaches it and nothing in the C code says which one that  *)
(* is.  An operation that writes both is two operators: one for the list,  *)
(* one for the heap.                                                       *)
(***************************************************************************)
EXTENDS Naturals, Sequences

CONSTANT NULL        \* the null slist_node_t pointer

Lists(Node) == [head : Node \cup {NULL}, tail : Node \cup {NULL}]

(* slist_init *)
EmptyList == [head |-> NULL, tail |-> NULL]

(***************************************************************************)
(* slist_head_get and slist_head_remove: the node taken is l.head.  The    *)
(* one-element test compares head with tail; the node's own link is left   *)
(* as it was.  Mutants: the head is not reset with the tail; the head is   *)
(* not removed at all.                                                     *)
(***************************************************************************)
HeadGetKeepsHead(l, next) ==
    IF l.head = NULL THEN l
    ELSE IF l.head = l.tail THEN [l EXCEPT !.tail = NULL]
    ELSE [l EXCEPT !.head = next[l.head]]

HeadPeek(l, next) == l

HeadGet(l, next) ==
    IF l.head = NULL THEN l
    ELSE IF l.head = l.tail THEN EmptyList
    ELSE [l EXCEPT !.head = next[l.head]]

(* slist_tail_put; the new node's own link is not written. *)
TailPut(l, node) ==
    IF l.head = NULL THEN [head |-> node, tail |-> node]
                     ELSE [l EXCEPT !.tail = node]

(* Mutant: the old tail is not linked to the new one. *)
TailPutUnlinked(l, next, node) == next

TailPutLinks(l, next, node) ==
    IF l.head = NULL THEN next ELSE [next EXCEPT ![l.tail] = node]

(* assert(list->tail != NULL), the only assertion of slist_tail_put that    *)
(* depends on the state of the list.                                       *)
TailPutAssert(l) == l.head = NULL \/ l.tail # NULL

(* slist_head_put *)
HeadPut(l, node) ==
    IF l.head = NULL THEN [head |-> node, tail |-> node]
                     ELSE [l EXCEPT !.head = node]

HeadPutLinks(l, next, node) ==
    IF l.head = NULL THEN next ELSE [next EXCEPT ![node] = l.head]

(***************************************************************************)
(* slist_next_get and slist_next_remove take the successor of `node`; when *)
(* there is none, they assert that `node` is the tail.  Mutant: the tail   *)
(* pointer stays with the node that is taken.                              *)
(***************************************************************************)
NextGetKeepsTail(l, next, node) == l

NextGet(l, next, node) ==
    IF next[node] # NULL /\ next[node] = l.tail THEN [l EXCEPT !.tail = node]
                                                ELSE l

NextGetLinks(l, next, node) ==
    IF next[node] = NULL THEN next
    ELSE IF next[node] = l.tail THEN [next EXCEPT ![node] = NULL]
    ELSE [next EXCEPT ![node] = next[next[node]]]

NextGetAssert(l, next, node) == next[node] = NULL => node = l.tail

(* slist_next_put: behind the tail it is slist_tail_put. *)
NextPut(l, node, new) == IF l.tail = node THEN TailPut(l, new) ELSE l

NextPutLinks(l, next, node, new) ==
    IF l.tail = node THEN TailPutLinks(l, next, new)
    ELSE IF next[node] # NULL THEN [next EXCEPT ![node] = new, ![new] = next[node]]
    ELSE [next EXCEPT ![node] = new]

(***************************************************************************)
(* The nodes that repeated slist_head_get would return, in order, at most  *)
(* n of them: the contents of the list as its users see it.  The walk ends *)
(* at the tail pointer, whatever the tail's own link holds.                *)
(***************************************************************************)
Contents(l, next, n) ==
    LET node[i \in 1 .. n] ==
          IF i = 1 THEN l.head
          ELSE LET prev == node[i - 1]
               IN  IF prev \in {NULL, l.tail} THEN NULL ELSE next[prev]
        len == CHOOSE k \in 0 .. n :
                 \A i \in 1 .. n : i <= k <=> node[i] # NULL
    IN  [i \in 1 .. len |-> node[i]]

(* The elements of a sequence. *)
Elems(s) == {s[i] : i \in DOMAIN s}
=============================================================================
