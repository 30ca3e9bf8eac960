----------------------------- MODULE ListSpec -----------------------------
(***************************************************************************)
(* What hello_world/tools/slist.h promises of its lists, without pointers: *)
(* each list is a sequence of nodes, and a call answers with the node at a *)
(* position of it, or with NULL when there is none.                        *)
(***************************************************************************)
EXTENDS Naturals, SequencesExt

CONSTANTS List, Node, NULL

VARIABLES
    seq,             \* the nodes of each list, head first
    ret              \* the answer of the last call that gave one

vars == <<seq, ret>>

Listed == UNION {Range(seq[l]) : l \in List}

At(l, i) == IF i \in DOMAIN seq[l] THEN seq[l][i] ELSE NULL

Without(l, i) == IF i \in DOMAIN seq[l] THEN RemoveAt(seq[l], i) ELSE seq[l]

Init ==
    /\ seq = [l \in List |-> <<>>]
    /\ ret = NULL

(* slist_init *)
Clear(l) ==
    /\ seq' = [seq EXCEPT ![l] = <<>>]
    /\ UNCHANGED ret

(* slist_head_put, slist_tail_put, slist_next_put: a node of no list.      *)
Put(l, i, n) ==
    /\ n \notin Listed
    /\ seq' = [seq EXCEPT ![l] = InsertAt(@, i, n)]
    /\ UNCHANGED ret

(* slist_head_get, slist_next_get *)
Get(l, i) ==
    /\ ret' = At(l, i)
    /\ seq' = [seq EXCEPT ![l] = Without(l, i)]

(* slist_head_remove, slist_next_remove *)
Drop(l, i) ==
    /\ seq' = [seq EXCEPT ![l] = Without(l, i)]
    /\ UNCHANGED ret

(* slist_head_peek, slist_tail_peek, slist_next_peek *)
Peek(l, i) ==
    /\ ret' = At(l, i)
    /\ UNCHANGED seq

Next ==
    \E l \in List :
        \/ Clear(l)
        \/ \E i \in 0 .. Len(seq[l]) + 1 :
              \/ Get(l, i) \/ Drop(l, i) \/ Peek(l, i)
              \/ i > 0 /\ \E n \in Node : Put(l, i, n)

Spec == Init /\ [][Next]_vars
=============================================================================
