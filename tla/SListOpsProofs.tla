-------------------------- MODULE SListOpsProofs --------------------------
(***************************************************************************)
(* The operations of slist.c keep every list exact and implement sequences *)
(* for any nodes and any lists.                                            *)
(***************************************************************************)
EXTENDS ReadyPool, SListProofs, SequenceTheorems

(***************************************************************************)
(* The elements of a sequence after an insertion or a removal, and the     *)
(* links that spell it, first for plain functions and a length.            *)
(***************************************************************************)
InsertedAt(t, s, n, i, e) ==
    \A k \in 1 .. n + 1 : t[k] = IF k < i THEN s[k]
                                 ELSE IF k = i THEN e ELSE s[k - 1]

RemovedAt(t, s, n, i) ==
    \A k \in 1 .. n - 1 : t[k] = IF k < i THEN s[k] ELSE s[k + 1]

Linked(links, s, n) == \A k \in 1 .. n - 1 : links[s[k]] = s[k + 1]

Segment(a, s, from, n) == \A k \in 1 .. n : a[k] = s[from + k]

Glued(t, a, b, m, n) ==
    \A k \in 1 .. n : t[k] = IF k <= m THEN a[k] ELSE b[k - m]

KeptBut(links2, links, s, n, j) ==
    \A k \in 1 .. n - 1 : k # j => links2[s[k]] = links[s[k]]

OneToOne(s, n) == \A j, k \in 1 .. n : s[j] = s[k] => j = k

(* An insertion, as the pieces of the old sequence glued together.         *)
LEMMA InsertedPieces ==
    ASSUME NEW n \in Nat, NEW i \in 1 .. n + 1, NEW s, NEW e, NEW t,
           NEW before, NEW front, NEW after,
           Segment(before, s, 0, i - 1), Glued(front, before, <<e>>, i - 1, i),
           Segment(after, s, i - 1, n - i + 1), Glued(t, front, after, i, n + 1)
    PROVE  InsertedAt(t, s, n, i, e)
<1> SUFFICES ASSUME NEW k \in 1 .. n + 1
             PROVE  t[k] = IF k < i THEN s[k] ELSE IF k = i THEN e ELSE s[k - 1]
  BY DEF InsertedAt
<1>1. CASE k < i
  BY <1>1 DEF Segment, Glued
<1>2. CASE k = i
  BY <1>2 DEF Glued
<1>3. CASE k > i
  <2>1. k - i \in 1 .. n - i + 1 /\ i - 1 + (k - i) = k - 1
    BY <1>3
  <2>2. QED
    BY <1>3, <2>1 DEF Segment, Glued
<1>4. QED
  BY <1>1, <1>2, <1>3

(* A removal, as the pieces of the old sequence glued together.            *)
LEMMA RemovedPieces ==
    ASSUME NEW n \in Nat, NEW i \in 1 .. n, NEW s, NEW t,
           NEW before, NEW after,
           Segment(before, s, 0, i - 1), Segment(after, s, i, n - i),
           Glued(t, before, after, i - 1, n - 1)
    PROVE  RemovedAt(t, s, n, i)
<1> SUFFICES ASSUME NEW k \in 1 .. n - 1
             PROVE  t[k] = IF k < i THEN s[k] ELSE s[k + 1]
  BY DEF RemovedAt
<1>1. CASE k < i
  BY <1>1 DEF Segment, Glued
<1>2. CASE k >= i
  <2>1. k - (i - 1) \in 1 .. n - i /\ i + (k - (i - 1)) = k + 1
    BY <1>2
  <2>2. QED
    BY <1>2, <2>1 DEF Segment, Glued
<1>3. QED
  BY <1>1, <1>2

(* The two links that have to be written for an insertion.                 *)
LEMMA LinkedInsert ==
    ASSUME NEW n \in Nat, NEW i \in 1 .. n + 1, NEW s, NEW t, NEW e,
           NEW links, NEW links2,
           Linked(links, s, n), InsertedAt(t, s, n, i, e),
           i <= n => links2[e] = s[i],
           i > 1 => links2[s[i - 1]] = e,
           KeptBut(links2, links, s, n, i - 1)
    PROVE  Linked(links2, t, n + 1)
<1> SUFFICES ASSUME NEW k \in 1 .. n
             PROVE  links2[t[k]] = t[k + 1]
  BY DEF Linked
<1>1. t[k] = (IF k < i THEN s[k] ELSE IF k = i THEN e ELSE s[k - 1])
      /\ t[k + 1] = (IF k + 1 < i THEN s[k + 1] ELSE IF k + 1 = i THEN e ELSE s[k])
  BY DEF InsertedAt
<1>2. CASE k < i - 1
  BY <1>1, <1>2 DEF Linked, KeptBut
<1>3. CASE k = i - 1
  BY <1>1, <1>3
<1>4. CASE k = i
  BY <1>1, <1>4
<1>5. CASE k > i
  <2>1. k - 1 \in 1 .. n - 1 /\ k - 1 # i - 1 /\ k - 1 + 1 = k
    BY <1>5
  <2>2. links2[s[k - 1]] = s[k]
    BY <2>1 DEF Linked, KeptBut
  <2>3. QED
    BY <1>1, <1>5, <2>2
<1>6. QED
  BY <1>2, <1>3, <1>4, <1>5

(* The one link that has to be written for a removal.                      *)
LEMMA LinkedRemove ==
    ASSUME NEW n \in Nat, NEW i \in 1 .. n, NEW s, NEW t, NEW links, NEW links2,
           Linked(links, s, n), RemovedAt(t, s, n, i),
           i > 1 /\ i < n => links2[s[i - 1]] = s[i + 1],
           KeptBut(links2, links, s, n, i - 1)
    PROVE  Linked(links2, t, n - 1)
<1> SUFFICES ASSUME NEW k \in 1 .. n - 2
             PROVE  links2[t[k]] = t[k + 1]
  BY DEF Linked
<1>1. t[k] = (IF k < i THEN s[k] ELSE s[k + 1])
      /\ t[k + 1] = (IF k + 1 < i THEN s[k + 1] ELSE s[k + 2])
  BY DEF RemovedAt
<1>2. CASE k < i - 1
  BY <1>1, <1>2 DEF Linked, KeptBut
<1>3. CASE k = i - 1
  BY <1>1, <1>3
<1>4. CASE k > i - 1
  <2>1. k + 1 \in 1 .. n - 1 /\ k + 1 # i - 1 /\ k + 1 + 1 = k + 2
    BY <1>4
  <2>2. links2[s[k + 1]] = s[k + 2]
    BY <2>1 DEF Linked, KeptBut
  <2>3. QED
    BY <1>1, <1>4, <2>2
<1>5. QED
  BY <1>2, <1>3, <1>4

(* The other parts of the new sequences that the invariant speaks of.      *)
LEMMA InsertedOneToOne ==
    ASSUME NEW n \in Nat, NEW i \in 1 .. n + 1, NEW s, NEW t, NEW e,
           InsertedAt(t, s, n, i, e), OneToOne(s, n),
           \A k \in 1 .. n : s[k] # e
    PROVE  /\ OneToOne(t, n + 1)
           /\ \A k \in 1 .. n + 1 : t[k] = e \/ \E j \in 1 .. n : t[k] = s[j]
           /\ t[1] = IF i = 1 THEN e ELSE s[1]
           /\ t[n + 1] = IF i = n + 1 THEN e ELSE s[n]
<1> DEFINE From(k) == IF k < i THEN k ELSE k - 1
<1>1. ASSUME NEW k \in 1 .. n + 1, k # i
      PROVE  From(k) \in 1 .. n /\ t[k] = s[From(k)]
  BY <1>1 DEF InsertedAt
<1>2. t[i] = e
  BY DEF InsertedAt
<1>3. OneToOne(t, n + 1)
  <2> SUFFICES ASSUME NEW j \in 1 .. n + 1, NEW k \in 1 .. n + 1, t[j] = t[k]
               PROVE  j = k
    BY DEF OneToOne
  <2>1. CASE j = i \/ k = i
    BY <2>1, <1>1, <1>2
  <2>2. CASE j # i /\ k # i
    <3>1. From(j) = From(k)
      BY <2>2, <1>1 DEF OneToOne
    <3>2. QED
      BY <2>2, <3>1
  <2>3. QED
    BY <2>1, <2>2
<1>4. \A k \in 1 .. n + 1 : t[k] = e \/ \E j \in 1 .. n : t[k] = s[j]
  BY <1>1, <1>2
<1>5. t[1] = IF i = 1 THEN e ELSE s[1]
  BY DEF InsertedAt
<1>6. t[n + 1] = IF i = n + 1 THEN e ELSE s[n]
  BY DEF InsertedAt
<1>7. QED
  BY <1>3, <1>4, <1>5, <1>6

(* The same of a removal.                                                  *)
LEMMA RemovedOneToOne ==
    ASSUME NEW n \in Nat, NEW i \in 1 .. n, NEW s, NEW t,
           RemovedAt(t, s, n, i), OneToOne(s, n)
    PROVE  /\ OneToOne(t, n - 1)
           /\ \A k \in 1 .. n - 1 : \E j \in 1 .. n : t[k] = s[j]
           /\ n > 1 => /\ t[1] = IF i = 1 THEN s[2] ELSE s[1]
                       /\ t[n - 1] = IF i = n THEN s[n - 1] ELSE s[n]
<1> DEFINE From(k) == IF k < i THEN k ELSE k + 1
<1>1. ASSUME NEW k \in 1 .. n - 1
      PROVE  From(k) \in 1 .. n /\ t[k] = s[From(k)]
  BY DEF RemovedAt
<1>2. OneToOne(t, n - 1)
  <2> SUFFICES ASSUME NEW j \in 1 .. n - 1, NEW k \in 1 .. n - 1, t[j] = t[k]
               PROVE  j = k
    BY DEF OneToOne
  <2>1. From(j) = From(k)
    BY <1>1 DEF OneToOne
  <2>2. QED
    BY <2>1
<1>3. \A k \in 1 .. n - 1 : \E j \in 1 .. n : t[k] = s[j]
  BY <1>1
<1>4. n > 1 => /\ t[1] = IF i = 1 THEN s[2] ELSE s[1]
              /\ t[n - 1] = IF i = n THEN s[n - 1] ELSE s[n]
  BY DEF RemovedAt
<1>5. QED
  BY <1>2, <1>3, <1>4

-----------------------------------------------------------------------------
GluedSeqs(a, b, S) ==
    /\ a \o b \in Seq(S)
    /\ Len(a \o b) = Len(a) + Len(b)
    /\ Glued(a \o b, a, b, Len(a), Len(a) + Len(b))

(* Concatenation of sequences glues them.                                  *)
LEMMA Gluing ==
    ASSUME NEW S, NEW a \in Seq(S), NEW b \in Seq(S)
    PROVE  GluedSeqs(a, b, S)
BY ConcatProperties DEF GluedSeqs, Glued

(* InsertAt and RemoveAt do what InsertedAt and RemovedAt say.             *)
LEMMA InsertAtElements ==
    ASSUME NEW S, NEW s \in Seq(S), NEW i \in 1 .. Len(s) + 1, NEW e \in S
    PROVE  /\ InsertAt(s, i, e) \in Seq(S)
           /\ Len(InsertAt(s, i, e)) = Len(s) + 1
           /\ InsertedAt(InsertAt(s, i, e), s, Len(s), i, e)
<1> DEFINE before == SubSeq(s, 1, i - 1)
           after  == SubSeq(s, i, Len(s))
<1>1. before \in Seq(S) /\ Len(before) = i - 1 /\ Segment(before, s, 0, i - 1)
  BY SubSeqProperties, LenProperties DEF Segment
<1>2. after \in Seq(S) /\ Len(after) = Len(s) - i + 1
      /\ Segment(after, s, i - 1, Len(s) - i + 1)
  BY SubSeqProperties, LenProperties DEF Segment
<1>3. <<e>> \in Seq(S) /\ Len(<<e>>) = 1
  OBVIOUS
<1> HIDE DEF before, after
<1>4. GluedSeqs(before, <<e>>, S)
  BY <1>1, <1>3, Gluing
<1> DEFINE front == before \o <<e>>
<1>5. front \in Seq(S) /\ Len(front) = i /\ Glued(front, before, <<e>>, i - 1, i)
  BY <1>1, <1>3, <1>4 DEF GluedSeqs
<1> HIDE DEF front
<1>6. GluedSeqs(front, after, S)
  BY <1>2, <1>5, Gluing
<1>7. Len(s) \in Nat
  OBVIOUS
<1>8. /\ front \o after \in Seq(S)
      /\ Len(front \o after) = Len(s) + 1
      /\ Glued(front \o after, front, after, i, Len(s) + 1)
  <2>1. i + (Len(s) - i + 1) = Len(s) + 1
    BY <1>7
  <2>2. QED
    BY <1>2, <1>5, <1>6, <2>1 DEF GluedSeqs
<1>9. InsertedAt(front \o after, s, Len(s), i, e)
  BY <1>1, <1>2, <1>5, <1>7, <1>8, InsertedPieces
<1>10. InsertAt(s, i, e) = front \o after
  BY DEF InsertAt, front, before, after
<1>11. QED
  BY <1>8, <1>9, <1>10

(* RemoveAt takes the i-th element out.                                    *)
LEMMA RemoveAtElements ==
    ASSUME NEW S, NEW s \in Seq(S), NEW i \in 1 .. Len(s)
    PROVE  /\ RemoveAt(s, i) \in Seq(S)
           /\ Len(RemoveAt(s, i)) = Len(s) - 1
           /\ RemovedAt(RemoveAt(s, i), s, Len(s), i)
<1> DEFINE before == SubSeq(s, 1, i - 1)
           after  == SubSeq(s, i + 1, Len(s))
<1>1. before \in Seq(S) /\ Len(before) = i - 1 /\ Segment(before, s, 0, i - 1)
  BY SubSeqProperties, LenProperties DEF Segment
<1>2. after \in Seq(S) /\ Len(after) = Len(s) - i
      /\ Segment(after, s, i, Len(s) - i)
  BY SubSeqProperties, LenProperties DEF Segment
<1>3. RemoveAt(s, i) = before \o after
  BY DEF RemoveAt
<1> HIDE DEF before, after
<1>4. GluedSeqs(before, after, S)
  BY <1>1, <1>2, Gluing
<1>5. Len(s) \in Nat
  OBVIOUS
<1>6. /\ before \o after \in Seq(S)
      /\ Len(before \o after) = Len(s) - 1
      /\ Glued(before \o after, before, after, i - 1, Len(s) - 1)
  <2>1. i - 1 + (Len(s) - i) = Len(s) - 1
    BY <1>5
  <2>2. QED
    BY <1>1, <1>2, <1>4, <2>1 DEF GluedSeqs
<1>7. RemovedAt(before \o after, s, Len(s), i)
  BY <1>1, <1>2, <1>5, <1>6, RemovedPieces
<1>8. QED
  BY <1>3, <1>6, <1>7

-----------------------------------------------------------------------------
(* In a list whose clients clear links, the last node has none. *)
TidyTails ==
    \A l \in Tidy : seq[l] # <<>> => next[seq[l][Len(seq[l])]] = NULL

(***************************************************************************)
(* The inductive invariant.  An insertion or a removal writes the link of  *)
(* the node before the place, if any, and of the node itself; what that    *)
(* does to the invariant does not depend on which operation it is.         *)
(***************************************************************************)
IInv ==
    /\ TypeOK
    /\ Separate
    /\ ListsExact
    /\ TidyTails

(* The two ways to say what a list represents.                             *)
LEMMA RepresentsLinked ==
    ASSUME NEW lst, NEW links, NEW s \in Seq(Node)
    PROVE  Represents(lst, links, s) <=>
             /\ Len(s) = 0 => lst = EmptyList
             /\ Len(s) > 0 => lst.head = s[1] /\ lst.tail = s[Len(s)]
             /\ Linked(links, s, Len(s))
BY DEF Represents, Linked

(* The two ways to say that lists are separate.                            *)
LEMMA SeparateParts ==
    ASSUME seq \in [List -> Seq(Node)]
    PROVE  Separate <=>
             /\ \A l \in List : OneToOne(seq[l], Len(seq[l]))
             /\ \A l, m \in List : l # m =>
                  \A i \in 1 .. Len(seq[l]), j \in 1 .. Len(seq[m]) :
                    seq[l][i] # seq[m][j]
BY DEF Separate, OneToOne

(* A listed node has a place in a list.                                    *)
LEMMA ListedElements ==
    ASSUME seq \in [List -> Seq(Node)], NEW n
    PROVE  n \in Listed <=>
             \E l \in List : \E i \in 1 .. Len(seq[l]) : n = seq[l][i]
BY DEF Listed, Range

(* A list that is not operated on: none of its links is written.           *)
LEMMA OtherList ==
    ASSUME NEW lst, NEW links, NEW links2, NEW s \in Seq(Node),
           Represents(lst, links, s),
           \A k \in 1 .. Len(s) : links2[s[k]] = links[s[k]]
    PROVE  Represents(lst, links2, s)
BY DEF Represents

(* A step that inserts a loose node keeps the invariant.                   *)
LEMMA InsertStep ==
    ASSUME IInv, NEW l \in List, NEW i \in 1 .. Len(seq[l]) + 1, NEW n \in Loose(l),
           NEW lst \in Lists(Node),
           list' = [list EXCEPT ![l] = lst],
           seq' = [seq EXCEPT ![l] = InsertAt(seq[l], i, n)],
           next' \in [Node -> Node \cup {NULL}], ret' \in Node \cup {NULL},
           \A x \in Node : x = n \/ (i > 1 /\ x = seq[l][i - 1])
                            \/ next'[x] = next[x],
           i <= Len(seq[l]) => next'[n] = seq[l][i],
           i = Len(seq[l]) + 1 => next'[n] = next[n],
           i > 1 => next'[seq[l][i - 1]] = n,
           lst.head = IF i = 1 THEN n ELSE list[l].head,
           lst.tail = IF i = Len(seq[l]) + 1 THEN n ELSE list[l].tail
    PROVE  IInv'
<1> DEFINE s == seq[l]
           t == InsertAt(seq[l], i, n)
           N == Len(seq[l])
<1>1. n \in Node /\ n \notin Listed /\ (l \in Tidy => next[n] = NULL)
  BY DEF Loose
<1>2. s \in Seq(Node) /\ N \in Nat /\ N = Len(s)
  BY DEF IInv, TypeOK
<1>3. t \in Seq(Node) /\ Len(t) = N + 1 /\ InsertedAt(t, s, N, i, n)
  BY <1>1, <1>2, InsertAtElements
<1>4. seq' \in [List -> Seq(Node)] /\ seq'[l] = t
      /\ \A m \in List : m # l => seq'[m] = seq[m]
  BY <1>3 DEF IInv, TypeOK
<1>5. TypeOK'
  BY <1>4 DEF IInv, TypeOK
<1>6. \A m \in List : \A k \in 1 .. Len(seq[m]) : seq[m][k] # n /\ seq[m][k] \in Node
  BY <1>1, ListedElements DEF IInv, TypeOK
<1>7. /\ \A m \in List : OneToOne(seq[m], Len(seq[m]))
      /\ \A m, p \in List : m # p =>
           \A j \in 1 .. Len(seq[m]), k \in 1 .. Len(seq[p]) : seq[m][j] # seq[p][k]
  BY SeparateParts DEF IInv, TypeOK
<1> HIDE DEF s, t, N
<1>8. /\ OneToOne(t, N + 1)
      /\ \A k \in 1 .. N + 1 : t[k] = n \/ \E j \in 1 .. N : t[k] = s[j]
      /\ t[1] = IF i = 1 THEN n ELSE s[1]
      /\ t[N + 1] = IF i = N + 1 THEN n ELSE s[N]
  <2>1. OneToOne(s, N) /\ (\A k \in 1 .. N : s[k] # n) /\ i \in 1 .. N + 1
    BY <1>6, <1>7 DEF s, N
  <2>2. N \in Nat /\ InsertedAt(t, s, N, i, n)
    BY <1>2, <1>3
  <2>3. QED
    BY <2>1, <2>2, InsertedOneToOne
<1>9. Separate'
  <2>1. \A m \in List : OneToOne(seq'[m], Len(seq'[m]))
    BY <1>3, <1>4, <1>7, <1>8
  <2>2. ASSUME NEW m \in List, m # l,
               NEW j \in 1 .. Len(seq[m]), NEW k \in 1 .. N + 1
        PROVE  seq[m][j] # t[k]
    <3>1. CASE t[k] = n
      BY <1>6, <3>1
    <3>2. CASE \E h \in 1 .. N : t[k] = s[h]
      BY <1>7, <2>2, <3>2 DEF s, N
    <3>3. QED
      BY <1>8, <3>1, <3>2
  <2>3. ASSUME NEW m \in List, NEW p \in List, m # p,
               NEW j \in 1 .. Len(seq'[m]), NEW k \in 1 .. Len(seq'[p])
        PROVE  seq'[m][j] # seq'[p][k]
    <3>1. CASE m # l /\ p # l
      BY <1>4, <1>7, <2>3, <3>1
    <3>2. CASE m = l
      BY <1>3, <1>4, <2>2, <2>3, <3>2
    <3>3. CASE p = l
      BY <1>3, <1>4, <2>2, <2>3, <3>3
    <3>4. QED
      BY <3>1, <3>2, <3>3
  <2>4. \A m \in List : DOMAIN seq'[m] = 1 .. Len(seq'[m])
    BY <1>4
  <2>5. ASSUME NEW m \in List, NEW j \in DOMAIN seq'[m], NEW k \in DOMAIN seq'[m],
               seq'[m][j] = seq'[m][k]
        PROVE  j = k
    <3>1. j \in 1 .. Len(seq'[m]) /\ k \in 1 .. Len(seq'[m])
      BY <2>4
    <3>2. QED
      BY <2>1, <2>5, <3>1 DEF OneToOne
  <2>6. ASSUME NEW m \in List, NEW p \in List, m # p,
               NEW j \in DOMAIN seq'[m], NEW k \in DOMAIN seq'[p]
        PROVE  seq'[m][j] # seq'[p][k]
    <3>1. j \in 1 .. Len(seq'[m]) /\ k \in 1 .. Len(seq'[p])
      BY <2>4
    <3>2. QED
      BY <2>3, <2>6, <3>1
  <2>7. QED
    BY <2>5, <2>6, Zenon DEF Separate
<1>10. ASSUME NEW m \in List, m # l
       PROVE  \A k \in 1 .. Len(seq[m]) : next'[seq[m][k]] = next[seq[m][k]]
  <2> SUFFICES ASSUME NEW k \in 1 .. Len(seq[m])
               PROVE  next'[seq[m][k]] = next[seq[m][k]]
    OBVIOUS
  <2>1. seq[m][k] # n /\ seq[m][k] \in Node
    BY <1>6
  <2>2. i > 1 => seq[m][k] # seq[l][i - 1]
    BY <1>2, <1>7, <1>10 DEF N
  <2>3. QED
    BY <2>1, <2>2
<1>11. KeptBut(next', next, s, N, i - 1)
       /\ (i <= N => next'[s[N]] = next[s[N]])
  <2>1. ASSUME NEW k \in 1 .. N, k # i - 1
        PROVE  next'[s[k]] = next[s[k]]
    <3>1. s[k] # n /\ s[k] \in Node
      BY <1>6 DEF s, N
    <3>2. i > 1 => s[k] # seq[l][i - 1]
      BY <1>2, <1>7, <2>1 DEF s, N, OneToOne
    <3>3. QED
      BY <3>1, <3>2
  <2>2. QED
    BY <1>2, <2>1 DEF KeptBut, N
<1>12. ListsExact'
  <2>1. ASSUME NEW m \in List, m # l
        PROVE  Represents(list'[m], next', seq'[m])
    <3>1. list'[m] = list[m] /\ seq'[m] = seq[m] /\ seq[m] \in Seq(Node)
      BY <1>4, <2>1 DEF IInv, TypeOK
    <3>2. Represents(list[m], next, seq[m])
      BY DEF IInv, ListsExact
    <3>3. QED
      BY <1>10, <2>1, <3>1, <3>2, OtherList
  <2>2. Represents(lst, next', t)
    <3>1. Represents(list[l], next, s)
      BY DEF IInv, ListsExact, s
    <3>2. Linked(next, s, N) /\ (N > 0 => list[l].head = s[1] /\ list[l].tail = s[N])
      BY <1>2, <3>1, RepresentsLinked
    <3>3. Linked(next', t, N + 1)
      <4>1. (i <= N => next'[n] = s[i]) /\ (i > 1 => next'[s[i - 1]] = n)
            /\ i \in 1 .. N + 1
        BY DEF s, N
      <4>2. QED
        BY <1>2, <1>3, <1>11, <3>2, <4>1, LinkedInsert
    <3>4. lst.head = t[1] /\ lst.tail = t[N + 1]
      <4>1. lst.head = (IF i = 1 THEN n ELSE list[l].head)
            /\ lst.tail = (IF i = N + 1 THEN n ELSE list[l].tail)
            /\ i \in 1 .. N + 1
        BY DEF N
      <4>2. i # 1 \/ i # N + 1 => N > 0
        BY <1>2, <4>1
      <4>3. QED
        BY <1>8, <3>2, <4>1, <4>2
    <3>5. QED
      BY <1>2, <1>3, <3>3, <3>4, RepresentsLinked
  <2>3. list'[l] = lst
    BY DEF IInv, TypeOK
  <2>4. QED
    BY <1>4, <2>1, <2>2, <2>3 DEF ListsExact
<1>13. TidyTails'
  <2>1. ASSUME NEW m \in Tidy, m # l, seq[m] # <<>>
        PROVE  next'[seq[m][Len(seq[m])]] = NULL
    <3>1. m \in List /\ seq[m] \in Seq(Node) /\ Len(seq[m]) \in 1 .. Len(seq[m])
      BY <2>1, SListOpsAssumption DEF IInv, TypeOK
    <3>2. QED
      BY <1>10, <2>1, <3>1 DEF IInv, TidyTails
  <2>2. ASSUME l \in Tidy
        PROVE  next'[t[N + 1]] = NULL
    <3>1. CASE i = N + 1
      BY <1>1, <1>8, <2>2, <3>1 DEF N
    <3>2. CASE i # N + 1
      <4>1. i <= N /\ N > 0 /\ s # <<>> /\ i \in 1 .. N + 1
        BY <1>2, <3>2 DEF N
      <4>2. next[s[N]] = NULL
        BY <1>2, <2>2, <4>1 DEF IInv, TidyTails, s
      <4>3. QED
        BY <1>8, <1>11, <3>2, <4>1, <4>2
    <3>3. QED
      BY <3>1, <3>2
  <2>3. QED
    BY <1>3, <1>4, <2>1, <2>2, SListOpsAssumption DEF TidyTails
<1>14. QED
  BY <1>5, <1>9, <1>12, <1>13 DEF IInv

(* A step that takes a node out keeps the invariant.                       *)
LEMMA RemoveStep ==
    ASSUME IInv, NEW l \in List, NEW i \in 1 .. Len(seq[l]), NEW lst \in Lists(Node),
           list' = [list EXCEPT ![l] = lst],
           seq' = [seq EXCEPT ![l] = RemoveAt(seq[l], i)],
           next' \in [Node -> Node \cup {NULL}], ret' \in Node \cup {NULL},
           \A x \in Node : (i > 1 /\ x = seq[l][i - 1]) \/ next'[x] = next[x],
           i > 1 /\ i < Len(seq[l]) => next'[seq[l][i - 1]] = seq[l][i + 1],
           i > 1 /\ i = Len(seq[l]) => next'[seq[l][i - 1]] = NULL,
           Len(seq[l]) = 1 => lst = EmptyList,
           Len(seq[l]) > 1 => lst.head = IF i = 1 THEN seq[l][2] ELSE list[l].head,
           Len(seq[l]) > 1 =>
             lst.tail = IF i = Len(seq[l]) THEN seq[l][i - 1] ELSE list[l].tail
    PROVE  IInv'
<1> DEFINE s == seq[l]
           t == RemoveAt(seq[l], i)
           N == Len(seq[l])
<1>1. s \in Seq(Node) /\ N \in Nat /\ N = Len(s) /\ N > 0
  BY DEF IInv, TypeOK
<1>2. t \in Seq(Node) /\ Len(t) = N - 1 /\ RemovedAt(t, s, N, i)
  BY <1>1, RemoveAtElements
<1>3. seq' \in [List -> Seq(Node)] /\ seq'[l] = t
      /\ \A m \in List : m # l => seq'[m] = seq[m]
  BY <1>2 DEF IInv, TypeOK
<1>4. TypeOK'
  BY <1>3 DEF IInv, TypeOK
<1>5. \A m \in List : \A k \in 1 .. Len(seq[m]) : seq[m][k] \in Node
  BY DEF IInv, TypeOK
<1>6. /\ \A m \in List : OneToOne(seq[m], Len(seq[m]))
      /\ \A m, p \in List : m # p =>
           \A j \in 1 .. Len(seq[m]), k \in 1 .. Len(seq[p]) : seq[m][j] # seq[p][k]
  BY SeparateParts DEF IInv, TypeOK
<1> HIDE DEF s, t, N
<1>7. /\ OneToOne(t, N - 1)
      /\ \A k \in 1 .. N - 1 : \E j \in 1 .. N : t[k] = s[j]
      /\ N > 1 => /\ t[1] = IF i = 1 THEN s[2] ELSE s[1]
                  /\ t[N - 1] = IF i = N THEN s[N - 1] ELSE s[N]
  <2>1. OneToOne(s, N) /\ i \in 1 .. N
    BY <1>6 DEF s, N
  <2>2. N \in Nat /\ RemovedAt(t, s, N, i)
    BY <1>1, <1>2
  <2>3. QED
    BY <2>1, <2>2, RemovedOneToOne
<1>8. Separate'
  <2>1. \A m \in List : OneToOne(seq'[m], Len(seq'[m]))
    BY <1>2, <1>3, <1>6, <1>7
  <2>2. ASSUME NEW m \in List, m # l,
               NEW j \in 1 .. Len(seq[m]), NEW k \in 1 .. N - 1
        PROVE  seq[m][j] # t[k]
    BY <1>6, <1>7, <2>2 DEF s, N
  <2>3. ASSUME NEW m \in List, NEW p \in List, m # p,
               NEW j \in 1 .. Len(seq'[m]), NEW k \in 1 .. Len(seq'[p])
        PROVE  seq'[m][j] # seq'[p][k]
    <3>1. CASE m # l /\ p # l
      BY <1>3, <1>6, <2>3, <3>1
    <3>2. CASE m = l
      BY <1>2, <1>3, <2>2, <2>3, <3>2
    <3>3. CASE p = l
      BY <1>2, <1>3, <2>2, <2>3, <3>3
    <3>4. QED
      BY <3>1, <3>2, <3>3
  <2>4. \A m \in List : DOMAIN seq'[m] = 1 .. Len(seq'[m])
    BY <1>3
  <2>5. ASSUME NEW m \in List, NEW j \in DOMAIN seq'[m], NEW k \in DOMAIN seq'[m],
               seq'[m][j] = seq'[m][k]
        PROVE  j = k
    <3>1. j \in 1 .. Len(seq'[m]) /\ k \in 1 .. Len(seq'[m])
      BY <2>4
    <3>2. QED
      BY <2>1, <2>5, <3>1 DEF OneToOne
  <2>6. ASSUME NEW m \in List, NEW p \in List, m # p,
               NEW j \in DOMAIN seq'[m], NEW k \in DOMAIN seq'[p]
        PROVE  seq'[m][j] # seq'[p][k]
    <3>1. j \in 1 .. Len(seq'[m]) /\ k \in 1 .. Len(seq'[p])
      BY <2>4
    <3>2. QED
      BY <2>3, <2>6, <3>1
  <2>7. QED
    BY <2>5, <2>6, Zenon DEF Separate
<1>9. ASSUME NEW m \in List, m # l
      PROVE  \A k \in 1 .. Len(seq[m]) : next'[seq[m][k]] = next[seq[m][k]]
  <2> SUFFICES ASSUME NEW k \in 1 .. Len(seq[m])
               PROVE  next'[seq[m][k]] = next[seq[m][k]]
    OBVIOUS
  <2>1. seq[m][k] \in Node /\ (i > 1 => seq[m][k] # seq[l][i - 1])
    BY <1>1, <1>5, <1>6, <1>9 DEF N
  <2>2. QED
    BY <2>1
<1>10. ASSUME NEW k \in 1 .. N, k # i - 1
       PROVE  next'[s[k]] = next[s[k]]
  <2>1. s[k] \in Node /\ (i > 1 => s[k] # seq[l][i - 1])
    BY <1>1, <1>5, <1>6, <1>10 DEF s, N, OneToOne
  <2>2. QED
    BY <2>1
<1>11. ListsExact'
  <2>1. ASSUME NEW m \in List, m # l
        PROVE  Represents(list'[m], next', seq'[m])
    <3>1. list'[m] = list[m] /\ seq'[m] = seq[m] /\ seq[m] \in Seq(Node)
      BY <1>3, <2>1 DEF IInv, TypeOK
    <3>2. Represents(list[m], next, seq[m])
      BY DEF IInv, ListsExact
    <3>3. QED
      BY <1>9, <2>1, <3>1, <3>2, OtherList
  <2>2. Represents(lst, next', t)
    <3>1. Represents(list[l], next, s)
      BY DEF IInv, ListsExact, s
    <3>2. Linked(next, s, N) /\ list[l].head = s[1] /\ list[l].tail = s[N]
      BY <1>1, <3>1, RepresentsLinked
    <3>3. Linked(next', t, N - 1)
      <4>1. (i > 1 /\ i < N => next'[s[i - 1]] = s[i + 1]) /\ i \in 1 .. N
        BY DEF s, N
      <4>2. KeptBut(next', next, s, N, i - 1)
        BY <1>1, <1>10 DEF KeptBut
      <4>3. N \in Nat /\ RemovedAt(t, s, N, i)
        BY <1>1, <1>2
      <4>4. QED
        BY <3>2, <4>1, <4>2, <4>3, LinkedRemove
    <3>4. N > 1 => lst.head = t[1] /\ lst.tail = t[N - 1]
      BY <1>7, <3>2 DEF s, N
    <3>5. N = 1 => lst = EmptyList
      BY DEF N
    <3>6. QED
      BY <1>1, <1>2, <3>3, <3>4, <3>5, RepresentsLinked
  <2>3. list'[l] = lst
    BY DEF IInv, TypeOK
  <2>4. QED
    BY <1>3, <2>1, <2>2, <2>3 DEF ListsExact
<1>12. TidyTails'
  <2>1. ASSUME NEW m \in Tidy, m # l, seq[m] # <<>>
        PROVE  next'[seq[m][Len(seq[m])]] = NULL
    <3>1. m \in List /\ seq[m] \in Seq(Node) /\ Len(seq[m]) \in 1 .. Len(seq[m])
      BY <2>1, SListOpsAssumption DEF IInv, TypeOK
    <3>2. QED
      BY <1>9, <2>1, <3>1 DEF IInv, TidyTails
  <2>2. ASSUME l \in Tidy
        PROVE  N > 1 => next'[t[N - 1]] = NULL
    <3>1. CASE i = N
      BY <1>7, <3>1 DEF N, s
    <3>2. CASE i # N
      <4>1. s # <<>> /\ i \in 1 .. N
        BY <1>1 DEF N
      <4>2. next[s[N]] = NULL
        BY <1>1, <2>2, <4>1 DEF IInv, TidyTails, s
      <4>3. N # i - 1 /\ N \in 1 .. N
        BY <1>1, <4>1
      <4>4. QED
        BY <1>7, <1>10, <3>2, <4>2, <4>3
    <3>3. QED
      BY <3>1, <3>2
  <2>3. t # <<>> => N > 1
    BY <1>1, <1>2
  <2>4. QED
    BY <1>2, <1>3, <2>1, <2>2, <2>3, SListOpsAssumption DEF TidyTails
<1>13. QED
  BY <1>4, <1>8, <1>11, <1>12 DEF IInv

(* A call that finds no successor of the last node may still follow that    *)
(* node's stale link, and write it.                                        *)
LEMMA TailTouched ==
    ASSUME IInv, NEW l \in List, seq[l] # <<>>,
           UNCHANGED <<list, seq>>,
           next' \in [Node -> Node \cup {NULL}], ret' \in Node \cup {NULL},
           \A x \in Node : x = seq[l][Len(seq[l])] \/ next'[x] = next[x],
           l \in Tidy => next' = next
    PROVE  IInv'
<1>1. TypeOK' /\ Separate'
  BY DEF IInv, TypeOK, Separate
<1>2. ASSUME NEW m \in List
      PROVE  Represents(list[m], next', seq[m])
  <2> DEFINE s == seq[m]
  <2>1. s \in Seq(Node) /\ Represents(list[m], next, s)
    BY DEF IInv, TypeOK, ListsExact
  <2>2. ASSUME NEW k \in 1 .. Len(s) - 1
        PROVE  next'[s[k]] = next[s[k]]
    <3>1. k \in 1 .. Len(s) /\ s[k] \in Node /\ Len(s) \in Nat
      BY <2>1
    <3>2. s[k] # seq[l][Len(seq[l])]
      <4>1. Len(seq[l]) \in 1 .. Len(seq[l])
        BY DEF IInv, TypeOK
      <4>2. /\ OneToOne(seq[m], Len(seq[m]))
            /\ m # l => \A i \in 1 .. Len(seq[m]), j \in 1 .. Len(seq[l]) :
                         seq[m][i] # seq[l][j]
        BY SeparateParts DEF IInv, TypeOK
      <4>3. CASE m = l
        BY <3>1, <4>1, <4>2, <4>3 DEF OneToOne
      <4>4. CASE m # l
        BY <3>1, <4>1, <4>2, <4>4
      <4>5. QED
        BY <4>3, <4>4
    <3>3. QED
      BY <3>1, <3>2
  <2>3. QED
    BY <2>1, <2>2 DEF Represents
<1>3. ListsExact'
  BY <1>2 DEF ListsExact
<1>4. ASSUME NEW m \in Tidy, seq[m] # <<>>
      PROVE  next'[seq[m][Len(seq[m])]] = NULL
  <2>1. m \in List /\ Len(seq[m]) \in 1 .. Len(seq[m])
        /\ Len(seq[l]) \in 1 .. Len(seq[l]) /\ seq[m] \in Seq(Node)
    BY <1>4, SListOpsAssumption DEF IInv, TypeOK
  <2>2. next[seq[m][Len(seq[m])]] = NULL /\ seq[m][Len(seq[m])] \in Node
    BY <1>4, <2>1 DEF IInv, TidyTails
  <2>3. m # l => seq[m][Len(seq[m])] # seq[l][Len(seq[l])]
    BY <2>1, SeparateParts DEF IInv, TypeOK
  <2>4. QED
    BY <1>4, <2>2, <2>3
<1>5. QED
  BY <1>1, <1>3, <1>4 DEF IInv, TidyTails

-----------------------------------------------------------------------------
(* What the invariant says of the pointers that the operations test.       *)
LEMMA Pointers ==
    ASSUME IInv, NEW l \in List
    PROVE  /\ seq[l] \in Seq(Node) /\ Len(seq[l]) \in Nat
           /\ list[l] \in Lists(Node)
           /\ list[l].head = NULL <=> Len(seq[l]) = 0
           /\ Len(seq[l]) = 0 => list[l] = EmptyList
           /\ Len(seq[l]) > 0 => /\ list[l].head = seq[l][1]
                                 /\ list[l].tail = seq[l][Len(seq[l])]
           /\ \A i \in 1 .. Len(seq[l]) : seq[l][i] \in Node /\ seq[l][i] # NULL
           /\ \A i, j \in 1 .. Len(seq[l]) : seq[l][i] = seq[l][j] => i = j
           /\ \A i \in 1 .. Len(seq[l]) - 1 : next[seq[l][i]] = seq[l][i + 1]
<1>1. seq[l] \in Seq(Node) /\ Len(seq[l]) \in Nat /\ list[l] \in Lists(Node)
  BY DEF IInv, TypeOK
<1>2. \A i \in 1 .. Len(seq[l]) : seq[l][i] \in Node /\ seq[l][i] # NULL
  BY <1>1, SListOpsAssumption
<1>3. Represents(list[l], next, seq[l])
  BY DEF IInv, ListsExact
<1>4. OneToOne(seq[l], Len(seq[l]))
  BY SeparateParts DEF IInv, TypeOK
<1>5. Len(seq[l]) = 0 => list[l] = EmptyList
  BY <1>1, <1>3 DEF Represents
<1>6. Len(seq[l]) > 0 => /\ list[l].head = seq[l][1]
                         /\ list[l].tail = seq[l][Len(seq[l])]
  BY <1>1, <1>3 DEF Represents
<1>7. list[l].head = NULL <=> Len(seq[l]) = 0
  BY <1>1, <1>2, <1>5, <1>6 DEF EmptyList
<1>8. QED
  BY <1>1, <1>2, <1>3, <1>4, <1>5, <1>6, <1>7 DEF Represents, OneToOne

(* A node that a client may put is in no list.                             *)
LEMMA LooseNode ==
    ASSUME IInv, NEW m \in List, NEW n \in Loose(m)
    PROVE  n \in Node /\ \A l \in List : \A i \in 1 .. Len(seq[l]) : seq[l][i] # n
BY ListedElements DEF IInv, TypeOK, Loose

(* slist_head_put                                                          *)
LEMMA HeadPutKeeps ==
    ASSUME IInv, NEW l \in List, NEW n \in Node, slist_head_put(l, n)
    PROVE  IInv'
<1> DEFINE lst == HeadPut(list[l], n)
<1>1. n \in Loose(l) /\ (\A i \in 1 .. Len(seq[l]) : seq[l][i] # n)
  BY LooseNode DEF slist_head_put
<1>2. /\ seq[l] \in Seq(Node) /\ Len(seq[l]) \in Nat
      /\ list[l] \in Lists(Node)
      /\ list[l].head = NULL <=> Len(seq[l]) = 0
      /\ Len(seq[l]) > 0 => list[l].head = seq[l][1]
  BY Pointers
<1>3. /\ lst \in Lists(Node) /\ lst.head = n
      /\ lst.tail = IF 1 = Len(seq[l]) + 1 THEN n ELSE list[l].tail
  BY <1>2 DEF HeadPut, Lists
<1>4. /\ next' = HeadPutLinks(list[l], next, n)
      /\ list' = [list EXCEPT ![l] = lst]
      /\ seq' = [seq EXCEPT ![l] = InsertAt(seq[l], 1, n)]
      /\ ret' = ret
      /\ next \in [Node -> Node \cup {NULL}] /\ ret \in Node \cup {NULL}
  BY DEF slist_head_put, IInv, TypeOK
<1>5. /\ next' \in [Node -> Node \cup {NULL}]
      /\ \A x \in Node : x = n \/ next'[x] = next[x]
      /\ 1 <= Len(seq[l]) => next'[n] = seq[l][1]
      /\ 1 = Len(seq[l]) + 1 => next'[n] = next[n]
  BY <1>2, <1>4 DEF HeadPutLinks, Lists
<1> HIDE DEF lst
<1>6. 1 \in 1 .. Len(seq[l]) + 1 /\ ~(1 > 1)
  BY <1>2
<1>7. QED
  BY <1>1, <1>3, <1>4, <1>5, <1>6, InsertStep

(* slist_tail_put                                                          *)
LEMMA TailPutKeeps ==
    ASSUME IInv, NEW l \in List, NEW n \in Node, slist_tail_put(l, n)
    PROVE  IInv'
<1> DEFINE lst == TailPut(list[l], n)
           j   == Len(seq[l]) + 1
<1>1. n \in Loose(l) /\ (\A i \in 1 .. Len(seq[l]) : seq[l][i] # n)
  BY LooseNode DEF slist_tail_put
<1>2. /\ seq[l] \in Seq(Node) /\ Len(seq[l]) \in Nat
      /\ list[l] \in Lists(Node)
      /\ list[l].head = NULL <=> Len(seq[l]) = 0
      /\ Len(seq[l]) > 0 => list[l].tail = seq[l][Len(seq[l])]
      /\ \A i \in 1 .. Len(seq[l]) : seq[l][i] \in Node
  BY Pointers
<1>3. /\ lst \in Lists(Node) /\ lst.tail = n
      /\ lst.head = IF j = 1 THEN n ELSE list[l].head
  BY <1>2 DEF TailPut, Lists
<1>4. /\ next' = TailPutLinks(list[l], next, n)
      /\ list' = [list EXCEPT ![l] = lst]
      /\ seq' = [seq EXCEPT ![l] = InsertAt(seq[l], j, n)]
      /\ ret' = ret
      /\ next \in [Node -> Node \cup {NULL}] /\ ret \in Node \cup {NULL}
  BY DEF slist_tail_put, IInv, TypeOK
<1>5. /\ next' \in [Node -> Node \cup {NULL}]
      /\ \A x \in Node : x = n \/ (j > 1 /\ x = seq[l][j - 1]) \/ next'[x] = next[x]
      /\ j > 1 => next'[seq[l][j - 1]] = n
      /\ next'[n] = next[n]
  <2>1. CASE Len(seq[l]) = 0
    BY <1>2, <1>4, <2>1 DEF TailPutLinks
  <2>2. CASE Len(seq[l]) > 0
    <3> DEFINE last == seq[l][Len(seq[l])]
    <3>1. next' = [next EXCEPT ![last] = n]
      <4>1. list[l].head # NULL /\ list[l].tail = last
        BY <1>2, <2>2
      <4>2. QED
        BY <1>4, <4>1 DEF TailPutLinks
    <3>2. seq[l][Len(seq[l])] \in Node /\ seq[l][Len(seq[l])] # n /\ j - 1 = Len(seq[l])
      BY <1>1, <1>2, <2>2
    <3>3. QED
      BY <1>4, <2>2, <3>1, <3>2
  <2>3. QED
    BY <1>2, <2>1, <2>2
<1>6. j \in 1 .. Len(seq[l]) + 1 /\ j = Len(seq[l]) + 1 /\ ~(j <= Len(seq[l]))
  BY <1>2
<1> HIDE DEF lst, j
<1>7. QED
  BY <1>1, <1>3, <1>4, <1>5, <1>6, InsertStep

(* slist_next_put                                                          *)
LEMMA NextPutKeeps ==
    ASSUME IInv, NEW l \in List, NEW k \in DOMAIN seq[l], NEW n \in Node,
           slist_next_put(l, k, n)
    PROVE  IInv'
<1> DEFINE lst == NextPut(list[l], seq[l][k], n)
           prev == seq[l][k]
           N == Len(seq[l])
           i == k + 1
<1>1. n \in Loose(l) /\ (\A h \in 1 .. N : seq[l][h] # n)
  BY LooseNode DEF slist_next_put
<1>2. /\ seq[l] \in Seq(Node) /\ N \in Nat
      /\ list[l] \in Lists(Node)
      /\ list[l].head = NULL <=> N = 0
      /\ N > 0 => list[l].tail = seq[l][N]
      /\ \A h \in 1 .. N : seq[l][h] \in Node /\ seq[l][h] # NULL
      /\ \A h, j \in 1 .. N : seq[l][h] = seq[l][j] => h = j
      /\ \A h \in 1 .. N - 1 : next[seq[l][h]] = seq[l][h + 1]
  BY Pointers
<1>3. k \in 1 .. N /\ N > 0 /\ i > 1 /\ i - 1 = k
  BY <1>2
<1>4. /\ list[l].head # NULL
      /\ prev \in Node /\ prev # n
      /\ list[l].tail = prev <=> k = N
      /\ k < N => next[prev] = seq[l][i] /\ next[prev] # NULL
  BY <1>1, <1>2, <1>3
<1>5. /\ list' = [list EXCEPT ![l] = lst]
      /\ next' = NextPutLinks(list[l], next, prev, n)
      /\ seq' = [seq EXCEPT ![l] = InsertAt(seq[l], i, n)]
      /\ ret' = ret
      /\ next \in [Node -> Node \cup {NULL}] /\ ret \in Node \cup {NULL}
  BY DEF slist_next_put, IInv, TypeOK
<1> HIDE DEF prev
<1>6. /\ lst \in Lists(Node)
      /\ lst.head = IF i = 1 THEN n ELSE list[l].head
      /\ lst.tail = IF i = N + 1 THEN n ELSE list[l].tail
  <2>1. CASE k = N
    <3>1. lst = [list[l] EXCEPT !.tail = n]
      BY <1>4, <2>1 DEF NextPut, TailPut, prev
    <3>2. QED
      BY <1>2, <1>3, <2>1, <3>1 DEF Lists
  <2>2. CASE k # N
    <3>1. lst = list[l]
      BY <1>4, <2>2 DEF NextPut, prev
    <3>2. QED
      BY <1>2, <1>3, <2>2, <3>1
  <2>3. QED
    BY <2>1, <2>2
<1>7. /\ next' \in [Node -> Node \cup {NULL}]
      /\ \A x \in Node : x = n \/ (i > 1 /\ x = prev) \/ next'[x] = next[x]
      /\ i <= N => next'[n] = seq[l][i]
      /\ i = N + 1 => next'[n] = next[n]
      /\ i > 1 => next'[prev] = n
  <2>1. CASE k = N
    <3>1. next' = [next EXCEPT ![prev] = n]
      BY <1>4, <1>5, <2>1 DEF NextPutLinks, TailPutLinks
    <3>2. QED
      BY <1>2, <1>3, <1>4, <1>5, <2>1, <3>1
  <2>2. CASE k # N
    <3>1. next' = [next EXCEPT ![prev] = n, ![n] = next[prev]] /\ k < N
      BY <1>2, <1>3, <1>4, <1>5, <2>2 DEF NextPutLinks
    <3>2. QED
      BY <1>2, <1>3, <1>4, <1>5, <2>2, <3>1
  <2>3. QED
    BY <2>1, <2>2
<1>8. i \in 1 .. N + 1 /\ prev = seq[l][i - 1]
  BY <1>2, <1>3 DEF prev
<1> HIDE DEF lst, i
<1>9. QED
  BY <1>1, <1>5, <1>6, <1>7, <1>8, InsertStep

(* slist_head_get and slist_head_remove, on an empty list too.             *)
LEMMA HeadTakenKeeps ==
    ASSUME IInv, NEW l \in List, HeadTaken(l), ret' \in Node \cup {NULL}
    PROVE  IInv'
<1> DEFINE lst == HeadGet(list[l], next)
           N == Len(seq[l])
<1>1. /\ seq[l] \in Seq(Node) /\ N \in Nat
      /\ list[l] \in Lists(Node)
      /\ list[l].head = NULL <=> N = 0
      /\ N > 0 => list[l].head = seq[l][1] /\ list[l].tail = seq[l][N]
      /\ \A h \in 1 .. N : seq[l][h] \in Node /\ seq[l][h] # NULL
      /\ \A h, j \in 1 .. N : seq[l][h] = seq[l][j] => h = j
      /\ \A h \in 1 .. N - 1 : next[seq[l][h]] = seq[l][h + 1]
  BY Pointers
<1>2. /\ list' = [list EXCEPT ![l] = lst]
      /\ next' = next
      /\ next \in [Node -> Node \cup {NULL}]
      /\ seq' = [seq EXCEPT ![l] = Without(l, 1)]
  BY DEF HeadTaken, IInv, TypeOK
<1>3. lst \in Lists(Node)
  <2>1. list[l] \in Lists(Node) /\ Node \in SUBSET Node
        /\ next \in [Node -> Node \cup {NULL}]
    BY <1>1, <1>2
  <2>2. QED
    BY <2>1, HeadGetType
<1>4. CASE N = 0
  <2>1. lst = list[l]
    BY <1>1, <1>4 DEF HeadGet
  <2>2. Without(l, 1) = seq[l]
    BY <1>1, <1>4 DEF Without
  <2>3. list' = list /\ seq' = seq
    BY <1>2, <2>1, <2>2 DEF IInv, TypeOK
  <2>4. QED
    BY <1>2, <2>3
       DEF IInv, TypeOK, Separate, ListsExact, Represents, TidyTails
<1>5. CASE N > 0
  <2>1. seq' = [seq EXCEPT ![l] = RemoveAt(seq[l], 1)]
    <3>1. 1 \in DOMAIN seq[l]
      BY <1>1, <1>5
    <3>2. QED
      BY <1>2, <3>1 DEF Without
  <2>2. list[l].head # NULL /\ (list[l].head = list[l].tail <=> N = 1)
        /\ (N > 1 => next[list[l].head] = seq[l][2])
    <3>1. list[l].head = seq[l][1] /\ list[l].tail = seq[l][N] /\ 1 \in 1 .. N
          /\ N \in 1 .. N
      BY <1>1, <1>5
    <3>2. seq[l][1] # NULL /\ (seq[l][1] = seq[l][N] <=> N = 1)
      BY <1>1, <3>1
    <3>3. N > 1 => next[seq[l][1]] = seq[l][2]
      <4>1. N > 1 => 1 \in 1 .. N - 1 /\ 1 + 1 = 2
        BY <1>1
      <4>2. QED
        BY <1>1, <4>1
    <3>4. QED
      BY <3>1, <3>2, <3>3
  <2>3. N = 1 => lst = EmptyList
    BY <2>2 DEF HeadGet
  <2>4. N > 1 => lst = [list[l] EXCEPT !.head = seq[l][2]]
    BY <2>2 DEF HeadGet
  <2>5. N > 1 => lst.head = (IF 1 = 1 THEN seq[l][2] ELSE list[l].head)
                 /\ lst.tail = IF 1 = N THEN seq[l][1 - 1] ELSE list[l].tail
    BY <1>1, <2>4 DEF Lists
  <2>6. 1 \in 1 .. N /\ ~(1 > 1)
    BY <1>1, <1>5
  <2>7. \A x \in Node : (1 > 1 /\ x = seq[l][1 - 1]) \/ next'[x] = next[x]
    BY <1>2
  <2> HIDE DEF lst
  <2>8. QED
    BY <1>2, <1>3, <2>1, <2>3, <2>5, <2>6, <2>7, RemoveStep
<1>6. QED
  BY <1>1, <1>4, <1>5

(* slist_next_get and slist_next_remove, for the last prev too.            *)
LEMMA NextTakenKeeps ==
    ASSUME IInv, NEW l \in List, NEW k \in DOMAIN seq[l], NextTaken(l, k),
           ret' \in Node \cup {NULL}
    PROVE  IInv'
<1> DEFINE lst == NextGet(list[l], next, seq[l][k])
           prev == seq[l][k]
           N == Len(seq[l])
           i == k + 1
<1>1. /\ seq[l] \in Seq(Node) /\ N \in Nat
      /\ list[l] \in Lists(Node)
      /\ N > 0 => list[l].head = seq[l][1] /\ list[l].tail = seq[l][N]
      /\ \A h \in 1 .. N : seq[l][h] \in Node /\ seq[l][h] # NULL
      /\ \A h, j \in 1 .. N : seq[l][h] = seq[l][j] => h = j
      /\ \A h \in 1 .. N - 1 : next[seq[l][h]] = seq[l][h + 1]
  BY Pointers
<1>2. k \in 1 .. N /\ N > 0 /\ i > 1 /\ i - 1 = k /\ prev \in Node
  BY <1>1
<1>3. /\ list' = [list EXCEPT ![l] = lst]
      /\ next' = NextGetLinks(list[l], next, prev)
      /\ next \in [Node -> Node \cup {NULL}]
      /\ seq' = [seq EXCEPT ![l] = Without(l, i)]
  BY DEF NextTaken, IInv, TypeOK
<1>4. CASE k = N
  <2>1. list[l].tail = prev
    BY <1>1, <1>2, <1>4
  <2> HIDE DEF prev
  <2>2. lst = list[l]
    <3>1. lst = [list[l] EXCEPT !.tail = prev] \/ lst = list[l]
      BY DEF NextGet, prev
    <3>2. QED
      BY <1>1, <2>1, <3>1 DEF Lists
  <2>3. Without(l, i) = seq[l]
    BY <1>1, <1>4 DEF Without
  <2>4. UNCHANGED <<list, seq>>
    BY <1>3, <2>2, <2>3 DEF IInv, TypeOK
  <2>5. /\ next' \in [Node -> Node \cup {NULL}]
        /\ \A x \in Node : x = prev \/ next'[x] = next[x]
        /\ next[prev] = NULL => next' = next
    <3>1. next[prev] = NULL \/ (next[prev] \in Node /\ next[prev] # NULL)
      BY <1>2, <1>3
    <3>2. QED
      BY <1>2, <1>3, <3>1 DEF NextGetLinks
  <2>6. seq[l] # <<>> /\ prev = seq[l][Len(seq[l])]
    BY <1>1, <1>2, <1>4 DEF prev
  <2>7. l \in Tidy => next' = next
    BY <2>5, <2>6 DEF IInv, TidyTails
  <2>8. QED
    BY <2>4, <2>5, <2>6, <2>7, TailTouched
<1>5. CASE k < N
  <2>1. /\ next[prev] = seq[l][i] /\ next[prev] # NULL /\ next[prev] \in Node
        /\ next[prev] = list[l].tail <=> i = N
        /\ i # N => next[next[prev]] = seq[l][i + 1]
        /\ i \in 1 .. N
    <3>1. k \in 1 .. N - 1 /\ i \in 1 .. N /\ N \in 1 .. N
      BY <1>1, <1>2, <1>5
    <3>2. next[prev] = seq[l][i]
      BY <1>1, <3>1
    <3>3. seq[l][i] # NULL /\ seq[l][i] \in Node /\ (seq[l][i] = list[l].tail <=> i = N)
      BY <1>1, <1>2, <3>1
    <3>4. i # N => next[seq[l][i]] = seq[l][i + 1]
      <4>1. i # N => i \in 1 .. N - 1
        BY <1>1, <3>1
      <4>2. QED
        BY <1>1, <4>1
    <3>5. QED
      BY <3>1, <3>2, <3>3, <3>4
  <2> HIDE DEF prev
  <2>2. seq' = [seq EXCEPT ![l] = RemoveAt(seq[l], i)]
    <3>1. i \in DOMAIN seq[l]
      BY <1>1, <2>1
    <3>2. QED
      BY <1>3, <3>1 DEF Without
  <2>3. lst = IF i = N THEN [list[l] EXCEPT !.tail = prev] ELSE list[l]
    BY <2>1 DEF NextGet, prev
  <2>4. next' = [next EXCEPT ![prev] = IF i = N THEN NULL ELSE seq[l][i + 1]]
    <3>1. CASE i = N
      BY <1>3, <2>1, <3>1 DEF NextGetLinks
    <3>2. CASE i # N
      <4>1. next' = [next EXCEPT ![prev] = next[next[prev]]]
        BY <1>3, <2>1, <3>2 DEF NextGetLinks
      <4>2. QED
        BY <2>1, <3>2, <4>1
    <3>3. QED
      BY <3>1, <3>2
  <2>5. /\ next' \in [Node -> Node \cup {NULL}]
        /\ \A x \in Node : (i > 1 /\ x = seq[l][i - 1]) \/ next'[x] = next[x]
        /\ i > 1 /\ i < N => next'[seq[l][i - 1]] = seq[l][i + 1]
        /\ i > 1 /\ i = N => next'[seq[l][i - 1]] = NULL
    <3>1. prev = seq[l][i - 1] /\ (i < N => seq[l][i + 1] \in Node)
      BY <1>1, <1>2 DEF prev
    <3>2. next'[prev] = (IF i = N THEN NULL ELSE seq[l][i + 1])
          /\ \A x \in Node : x = prev \/ next'[x] = next[x]
      BY <1>2, <1>3, <2>4
    <3>3. next' \in [Node -> Node \cup {NULL}]
      BY <1>1, <1>2, <1>3, <2>1, <2>4, <3>1
    <3>4. QED
      BY <1>1, <1>2, <3>1, <3>2, <3>3
  <2>6. /\ lst \in Lists(Node)
        /\ N = 1 => lst = EmptyList
        /\ N > 1 => lst.head = IF i = 1 THEN seq[l][2] ELSE list[l].head
        /\ N > 1 => lst.tail = IF i = N THEN seq[l][i - 1] ELSE list[l].tail
    <3>1. prev = seq[l][i - 1] /\ N # 1 /\ i # 1
      BY <1>1, <1>2, <1>5 DEF prev
    <3>2. QED
      BY <1>1, <1>2, <2>3, <3>1 DEF Lists
  <2> HIDE DEF lst, i
  <2>7. QED
    BY <1>3, <2>1, <2>2, <2>5, <2>6, RemoveStep
<1>6. QED
  BY <1>1, <1>2, <1>4, <1>5

-----------------------------------------------------------------------------
(* The invariant holds after any calls.                                    *)
LEMMA IInvHolds == Spec => []IInv
<1>1. Init => IInv
  <2> SUFFICES ASSUME Init PROVE IInv
    OBVIOUS
  <2>1. TypeOK
    BY DEF Init, TypeOK, Lists, EmptyList
  <2>2. \A l \in List : seq[l] = <<>> /\ Len(seq[l]) = 0 /\ DOMAIN seq[l] = {}
                        /\ list[l] = EmptyList
    BY DEF Init
  <2>3. Separate /\ TidyTails
    BY <2>2, SListOpsAssumption DEF Separate, TidyTails
  <2>4. ListsExact
    BY <2>2 DEF ListsExact, Represents
  <2>5. QED
    BY <2>1, <2>3, <2>4 DEF IInv
<1>2. IInv /\ [Next]_vars => IInv'
  <2> SUFFICES ASSUME IInv, [Next]_vars
               PROVE  IInv'
    OBVIOUS
  <2>1. ASSUME NEW l \in List, ListInit(l)
        PROVE  IInv'
    <3>1. /\ TypeOK'
          /\ seq'[l] = <<>> /\ list'[l] = EmptyList /\ next' = next
          /\ \A m \in List : m # l => seq'[m] = seq[m] /\ list'[m] = list[m]
      BY <2>1 DEF ListInit, IInv, TypeOK, Lists, EmptyList
    <3>2. Represents(EmptyList, next, <<>>)
      BY DEF Represents
    <3>3. ListsExact'
      BY <3>1, <3>2 DEF IInv, ListsExact
    <3>4. DOMAIN seq'[l] = {}
      BY <3>1
    <3>5. Separate'
      BY <3>1, <3>4 DEF IInv, Separate
    <3>6. TidyTails'
      BY <3>1, SListOpsAssumption DEF IInv, TidyTails
    <3>7. QED
      BY <3>1, <3>3, <3>5, <3>6 DEF IInv
  <2>2. ASSUME NEW n \in Node, ClearLink(n)
        PROVE  IInv'
    <3>1. \A l \in List : \A i \in 1 .. Len(seq[l]) : next'[seq[l][i]] = next[seq[l][i]]
      BY <2>2, ListedElements DEF ClearLink, IInv, TypeOK
    <3>2. TypeOK' /\ Separate' /\ list' = list /\ seq' = seq
      BY <2>2 DEF ClearLink, IInv, TypeOK, Separate
    <3>3. ASSUME NEW l \in List
          PROVE  Represents(list[l], next', seq[l])
      BY <3>1, OtherList DEF IInv, TypeOK, ListsExact
    <3>4. TidyTails'
      <4> SUFFICES ASSUME NEW l \in Tidy, seq[l] # <<>>
                   PROVE  next'[seq[l][Len(seq[l])]] = NULL
        BY <3>2 DEF TidyTails
      <4>1. l \in List /\ Len(seq[l]) \in 1 .. Len(seq[l])
        BY SListOpsAssumption DEF IInv, TypeOK
      <4>2. QED
        BY <3>1, <4>1 DEF IInv, TidyTails
    <3>5. QED
      BY <3>2, <3>3, <3>4 DEF IInv, ListsExact
  <2>3. ASSUME NEW l \in List, slist_head_get(l) \/ slist_head_remove(l)
        PROVE  IInv'
    <3>1. HeadTaken(l) /\ ret' \in Node \cup {NULL}
      BY <2>3 DEF slist_head_get, slist_head_remove, Answers, IInv, TypeOK, Lists
    <3>2. QED
      BY <3>1, HeadTakenKeeps
  <2>4. ASSUME NEW l \in List, NEW i \in DOMAIN seq[l],
               slist_next_get(l, i) \/ slist_next_remove(l, i)
        PROVE  IInv'
    <3>1. NextTaken(l, i) /\ ret' \in Node \cup {NULL}
      BY <2>4 DEF slist_next_get, slist_next_remove, Answers, IInv, TypeOK
    <3>2. QED
      BY <3>1, NextTakenKeeps
  <2>5. ASSUME NEW l \in List, NEW p \in Node \cup {NULL}, Peeked(l, p)
        PROVE  IInv'
    BY <2>5 DEF Peeked, Answers, IInv, TypeOK, Separate, ListsExact, TidyTails
  <2>6. ASSUME NEW l \in List, slist_head_peek(l) \/ slist_tail_peek(l)
        PROVE  IInv'
    <3>1. list[l].head \in Node \cup {NULL} /\ list[l].tail \in Node \cup {NULL}
      BY DEF IInv, TypeOK, Lists
    <3>2. QED
      BY <2>5, <2>6, <3>1 DEF slist_head_peek, slist_tail_peek
  <2>7. ASSUME NEW l \in List, NEW i \in DOMAIN seq[l], slist_next_peek(l, i)
        PROVE  IInv'
    <3>1. next[seq[l][i]] \in Node \cup {NULL}
      BY DEF IInv, TypeOK
    <3>2. QED
      BY <2>5, <2>7, <3>1 DEF slist_next_peek
  <2>8. CASE UNCHANGED vars
    BY <2>8 DEF vars, IInv, TypeOK, Separate, ListsExact, TidyTails
  <2>9. QED
    BY <2>1, <2>2, <2>3, <2>4, <2>6, <2>7, <2>8,
       HeadPutKeeps, TailPutKeeps, NextPutKeeps DEF Next
<1>3. QED
  BY <1>1, <1>2, PTL DEF Spec

(***************************************************************************)
(* After any calls of clients that put a node into one list at a time,     *)
(* each list of slist.c spells the nodes put into it and not taken, in     *)
(* order, whatever stale links other nodes carry.                          *)
(***************************************************************************)
THEOREM ListsAlwaysExact == Spec => []ListsExact
<1>1. IInv => ListsExact
  BY DEF IInv
<1>2. QED
  BY <1>1, IInvHolds, PTL

(* No assertion of slist.c that depends on a list fails for such clients.  *)
THEOREM AssertionsHold == Spec => []AssertsHold
<1>1. IInv => AssertsHold
  <2> SUFFICES ASSUME IInv, NEW l \in List
               PROVE  /\ TailPutAssert(list[l])
                      /\ \A i \in DOMAIN seq[l] :
                           NextGetAssert(list[l], next, seq[l][i])
    BY DEF AssertsHold
  <2>1. /\ seq[l] \in Seq(Node) /\ Len(seq[l]) \in Nat
        /\ list[l].head = NULL <=> Len(seq[l]) = 0
        /\ Len(seq[l]) > 0 => list[l].tail = seq[l][Len(seq[l])]
        /\ \A i \in 1 .. Len(seq[l]) : seq[l][i] # NULL
        /\ \A i \in 1 .. Len(seq[l]) - 1 : next[seq[l][i]] = seq[l][i + 1]
    BY Pointers
  <2>2. TailPutAssert(list[l])
    BY <2>1 DEF TailPutAssert
  <2>3. ASSUME NEW i \in DOMAIN seq[l], next[seq[l][i]] = NULL
        PROVE  seq[l][i] = list[l].tail
    <3>1. i \in 1 .. Len(seq[l])
      BY <2>1
    <3>2. CASE i = Len(seq[l])
      BY <2>1, <3>1, <3>2
    <3>3. CASE i # Len(seq[l])
      <4>1. i \in 1 .. Len(seq[l]) - 1 /\ i + 1 \in 1 .. Len(seq[l])
        BY <2>1, <3>1, <3>3
      <4>2. QED
        BY <2>1, <2>3, <4>1
    <3>4. QED
      BY <3>2, <3>3
  <2>4. QED
    BY <2>2, <2>3 DEF NextGetAssert
<1>2. QED
  BY <1>1, IInvHolds, PTL

-----------------------------------------------------------------------------
(* The answers of the calls.                                               *)
LEMMA AnswersRight ==
    ASSUME IInv, NEW l \in Tidy
    PROVE  /\ list[l].head = ListAbs!At(l, 1)
           /\ list[l].tail = ListAbs!At(l, Len(seq[l]))
           /\ \A i \in DOMAIN seq[l] : next[seq[l][i]] = ListAbs!At(l, i + 1)
<1>1. /\ seq[l] \in Seq(Node) /\ Len(seq[l]) \in Nat
      /\ Len(seq[l]) = 0 => list[l] = EmptyList
      /\ Len(seq[l]) > 0 => /\ list[l].head = seq[l][1]
                            /\ list[l].tail = seq[l][Len(seq[l])]
      /\ \A i \in 1 .. Len(seq[l]) - 1 : next[seq[l][i]] = seq[l][i + 1]
  BY Pointers, SListOpsAssumption
<1>2. DOMAIN seq[l] = 1 .. Len(seq[l])
  BY <1>1
<1>3. list[l].head = ListAbs!At(l, 1) /\ list[l].tail = ListAbs!At(l, Len(seq[l]))
  <2>1. CASE Len(seq[l]) = 0
    BY <1>1, <1>2, <2>1 DEF ListAbs!At, EmptyList
  <2>2. CASE Len(seq[l]) > 0
    <3>1. 1 \in DOMAIN seq[l] /\ Len(seq[l]) \in DOMAIN seq[l]
      BY <1>1, <1>2, <2>2
    <3>2. QED
      BY <1>1, <2>2, <3>1 DEF ListAbs!At
  <2>3. QED
    BY <1>1, <2>1, <2>2
<1>4. ASSUME NEW i \in DOMAIN seq[l]
      PROVE  next[seq[l][i]] = ListAbs!At(l, i + 1)
  <2>1. CASE i = Len(seq[l])
    <3>1. i + 1 \notin DOMAIN seq[l] /\ seq[l] # <<>>
      BY <1>1, <1>2, <2>1
    <3>2. QED
      BY <2>1, <3>1 DEF ListAbs!At, IInv, TidyTails
  <2>2. CASE i # Len(seq[l])
    <3>1. i + 1 \in DOMAIN seq[l] /\ i \in 1 .. Len(seq[l]) - 1
      BY <1>1, <1>2, <2>2
    <3>2. QED
      BY <1>1, <3>1 DEF ListAbs!At
  <2>3. QED
    BY <2>1, <2>2
<1>5. QED
  BY <1>3, <1>4

(***************************************************************************)
(* For clients that clear the link of a node before they put it, slist.c   *)
(* implements sequences, whatever links the clients of other lists leave:  *)
(* every call answers with the node at its position, or NULL, and leaves   *)
(* the sequence that it should.                                            *)
(***************************************************************************)
THEOREM SequencesImplemented == Spec => ImplementsListSpec
<1>1. Init => ListAbs!Init
  BY SListOpsAssumption DEF Init, ListAbs!Init
<1>2. IInv /\ [Next]_vars => [ListAbs!Next]_(ListAbs!vars)
  <2> SUFFICES ASSUME IInv, [Next]_vars
               PROVE  [ListAbs!Next]_(ListAbs!vars)
    OBVIOUS
  <2> DEFINE Positions(l) == 0 .. Len(seq[l]) + 1
             abs == [l \in Tidy |-> seq[l]]
  <2>1. \A l \in List : /\ Len(seq[l]) \in Nat /\ DOMAIN seq[l] = 1 .. Len(seq[l])
                        /\ 0 \in Positions(l) /\ 1 \in Positions(l)
                        /\ Len(seq[l]) \in Positions(l)
                        /\ Len(seq[l]) + 1 \in Positions(l)
                        /\ Len(seq[l]) + 1 > 0
                        /\ \A i \in DOMAIN seq[l] : i + 1 \in Positions(l) /\ i + 1 > 0
    BY DEF IInv, TypeOK
  <2> HIDE DEF Positions
  <2>2. /\ \A q, i : RemoveAt(q, i) = ListAbs!RemoveAt(q, i)
        /\ \A q, i, n : InsertAt(q, i, n) = ListAbs!InsertAt(q, i, n)
        /\ \A l \in Tidy : l \in List /\ abs[l] = seq[l]
        /\ \A l \in Tidy : \A i : Without(l, i) = ListAbs!Without(l, i)
        /\ ListAbs!Listed \subseteq Listed
    BY SListOpsAssumption
       DEF RemoveAt, ListAbs!RemoveAt, InsertAt, ListAbs!InsertAt,
           Without, ListAbs!Without, Listed, ListAbs!Listed, Range, ListAbs!Range
  <2>11. ASSUME NEW l \in Tidy, NEW q, seq' = [seq EXCEPT ![l] = q]
         PROVE  abs' = [abs EXCEPT ![l] = q]
    BY <2>11, SListOpsAssumption DEF IInv, TypeOK
  <2>12. ASSUME NEW l \in List \ Tidy, UNCHANGED ret,
                NEW q, seq' = [seq EXCEPT ![l] = q]
         PROVE  UNCHANGED ListAbs!vars
    BY <2>12, SListOpsAssumption DEF IInv, TypeOK, ListAbs!vars
  <2>3. ASSUME NEW l \in Tidy, ListInit(l)
        PROVE  ListAbs!Next
    <3>1. abs' = [abs EXCEPT ![l] = <<>>] /\ UNCHANGED ret
      BY <2>3, <2>11 DEF ListInit
    <3>2. ListAbs!Clear(l)
      BY <3>1 DEF ListAbs!Clear
    <3>3. QED
      BY <3>2 DEF ListAbs!Next
  <2>4. ASSUME NEW l \in Tidy, NEW n \in Node, NEW i \in Positions(l), i > 0,
               n \in Loose(l), seq' = [seq EXCEPT ![l] = InsertAt(seq[l], i, n)],
               UNCHANGED ret
        PROVE  ListAbs!Next
    <3>1. abs' = [abs EXCEPT ![l] = InsertAt(abs[l], i, n)] /\ abs[l] = seq[l]
      BY <2>2, <2>4, <2>11
    <3>2. n \notin ListAbs!Listed
      BY <2>2, <2>4 DEF Loose
    <3>3. ListAbs!Put(l, i, n)
      BY <2>2, <2>4, <3>1, <3>2 DEF ListAbs!Put
    <3>4. QED
      BY <2>4, <3>1, <3>3 DEF ListAbs!Next, Positions
  <2>5. ASSUME NEW l \in Tidy, NEW i \in Positions(l),
               seq' = [seq EXCEPT ![l] = Without(l, i)],
               ret' = ListAbs!At(l, i) \/ UNCHANGED ret
        PROVE  ListAbs!Next
    <3>1. abs' = [abs EXCEPT ![l] = ListAbs!Without(l, i)] /\ abs[l] = seq[l]
      <4>1. i \in Nat
        BY <2>1, <2>2 DEF Positions
      <4>2. QED
        BY <2>2, <2>5, <2>11, <4>1
    <3>2. ListAbs!Get(l, i) \/ ListAbs!Drop(l, i)
      BY <2>5, <3>1 DEF ListAbs!Get, ListAbs!Drop
    <3>3. QED
      BY <2>5, <3>1, <3>2 DEF ListAbs!Next, Positions
  <2>6. ASSUME NEW l \in Tidy, NEW i \in Positions(l), Peeked(l, ListAbs!At(l, i))
        PROVE  ListAbs!Next
    <3>1. ListAbs!Peek(l, i) /\ abs[l] = seq[l]
      BY <2>2, <2>6 DEF ListAbs!Peek, Peeked, Answers
    <3>2. QED
      BY <2>6, <3>1 DEF ListAbs!Next, Positions
  <2>7. ASSUME NEW l \in Tidy,
               \/ \E n \in Node : slist_head_put(l, n) \/ slist_tail_put(l, n)
               \/ slist_head_get(l) \/ slist_head_remove(l)
               \/ slist_head_peek(l) \/ slist_tail_peek(l)
        PROVE  ListAbs!Next
    <3>1. ASSUME NEW n \in Node, slist_head_put(l, n)
          PROVE  ListAbs!Next
      <4>1. /\ n \in Loose(l) /\ 1 \in Positions(l) /\ 1 > 0
            /\ seq' = [seq EXCEPT ![l] = InsertAt(seq[l], 1, n)]
            /\ UNCHANGED ret
        BY <2>1, <2>2, <3>1 DEF slist_head_put
      <4>2. QED
        BY <2>4, <4>1
    <3>2. ASSUME NEW n \in Node, slist_tail_put(l, n)
          PROVE  ListAbs!Next
      <4> DEFINE i == Len(seq[l]) + 1
      <4>1. /\ n \in Loose(l) /\ i \in Positions(l) /\ i > 0
            /\ seq' = [seq EXCEPT ![l] = InsertAt(seq[l], i, n)]
            /\ UNCHANGED ret
        BY <2>1, <2>2, <3>2 DEF slist_tail_put
      <4> HIDE DEF i
      <4>2. QED
        BY <2>4, <4>1
    <3>3. CASE slist_head_get(l) \/ slist_head_remove(l)
      BY <2>1, <2>2, <2>5, <3>3, AnswersRight
         DEF slist_head_get, slist_head_remove, HeadTaken, Answers
    <3>4. CASE slist_head_peek(l) \/ slist_tail_peek(l)
      BY <2>1, <2>2, <2>6, <3>4, AnswersRight DEF slist_head_peek, slist_tail_peek
    <3>5. QED
      BY <2>7, <3>1, <3>2, <3>3, <3>4
  <2>8. ASSUME NEW l \in Tidy, NEW i \in DOMAIN seq[l],
               \/ slist_next_get(l, i) \/ slist_next_remove(l, i)
               \/ slist_next_peek(l, i)
               \/ \E n \in Node : slist_next_put(l, i, n)
        PROVE  ListAbs!Next
    <3>1. CASE slist_next_get(l, i) \/ slist_next_remove(l, i)
      BY <2>1, <2>2, <2>5, <3>1, AnswersRight
         DEF slist_next_get, slist_next_remove, NextTaken, Answers
    <3>2. CASE slist_next_peek(l, i)
      BY <2>1, <2>2, <2>6, <3>2, AnswersRight DEF slist_next_peek
    <3>3. ASSUME NEW n \in Node, slist_next_put(l, i, n)
          PROVE  ListAbs!Next
      BY <2>1, <2>2, <2>4, <3>3 DEF slist_next_put
    <3>4. QED
      BY <2>8, <3>1, <3>2, <3>3
  <2>9. ASSUME (\E n \in Node : ClearLink(n)) \/ UNCHANGED vars
        PROVE  UNCHANGED ListAbs!vars
    BY <2>9 DEF ClearLink, vars, ListAbs!vars
  <2>13. ASSUME NEW l \in List \ Tidy,
                \/ ListInit(l)
                \/ \E n \in Node : slist_head_put(l, n) \/ slist_tail_put(l, n)
                \/ slist_head_get(l) \/ slist_head_remove(l)
                \/ slist_head_peek(l) \/ slist_tail_peek(l)
                \/ \E i \in DOMAIN seq[l] :
                      \/ slist_next_get(l, i) \/ slist_next_remove(l, i)
                      \/ slist_next_peek(l, i)
                      \/ \E n \in Node : slist_next_put(l, i, n)
         PROVE  UNCHANGED ListAbs!vars
    <3>1. UNCHANGED ret /\ (UNCHANGED seq \/ \E q : seq' = [seq EXCEPT ![l] = q])
      BY <2>13 DEF ListInit, slist_head_put, slist_tail_put, slist_head_get,
                   slist_head_remove, slist_head_peek, slist_tail_peek,
                   slist_next_get, slist_next_remove, slist_next_peek,
                   slist_next_put, HeadTaken, NextTaken, Peeked, Answers
    <3>2. QED
      BY <2>12, <3>1 DEF ListAbs!vars
  <2>10. QED
    BY <2>3, <2>7, <2>8, <2>9, <2>13, SListOpsAssumption DEF Next
<1>3. QED
  BY <1>1, <1>2, IInvHolds, PTL DEF Spec, ImplementsListSpec, ListAbs!Spec

-----------------------------------------------------------------------------
(* The walk of sched_ready_remove, for any threads and any other lists. *)

LEMMA PoolStep ==
    ASSUME [ReadyNext]_poolVars
    PROVE  [Next]_vars
<1>1. ASSUME NEW n \in Node, sched_ready_remove(n) PROVE [Next]_vars
  BY <1>1, ReadyPoolAssumption DEF sched_ready_remove, Next
<1>2. ASSUME Walk PROVE [Next]_vars
  BY <1>2, ReadyPoolAssumption DEF Walk, Found, Advance, Next
<1>3. QED
  BY <1>1, <1>2 DEF ReadyNext, poolVars

(* sched_ready_remove is made of the operations of slist.c: however its walk *)
(* goes, the ready pool and the other lists see a client of that list.     *)
LEMMA ReadyIsClient == ReadySpec => Spec
<1>1. ReadyInit => Init
  BY DEF ReadyInit
<1>2. [ReadyNext]_poolVars => [Next]_vars
  BY PoolStep
<1>3. QED
  BY <1>1, <1>2, PTL DEF ReadySpec, Spec

LEMMA PoolInvariance == ReadySpec => []IInv
BY ReadyIsClient, IInvHolds, PTL

(* A walk that has reached node i of the pool, with the thread at j.        *)
Reached(i, j) ==
    /\ i \in DOMAIN seq[Pool] /\ j \in DOMAIN seq[Pool]
    /\ i < j /\ seq[Pool][j] = thread
    /\ seq[Pool][i] = node /\ seq[Pool][i + 1] = node_next

LEMMA PoolFacts ==
    ASSUME IInv
    PROVE  /\ Len(seq[Pool]) \in Nat /\ DOMAIN seq[Pool] = 1 .. Len(seq[Pool])
           /\ \A i \in DOMAIN seq[Pool] : seq[Pool][i] \in Node
           /\ Len(seq[Pool]) > 0 => list[Pool].head = seq[Pool][1]
           /\ \A i \in 1 .. Len(seq[Pool]) - 1 :
                 next[seq[Pool][i]] = seq[Pool][i + 1]
<1>1. seq[Pool] \in Seq(Node) /\ Represents(list[Pool], next, seq[Pool])
  BY ReadyPoolAssumption DEF IInv, TypeOK, ListsExact
<1>2. QED
  BY <1>1 DEF Represents

(* The first node of the walk is the head, and the thread is behind it.     *)
LEMMA WalkStarts ==
    ASSUME IInv, WalkInPool, NEW n \in Node, sched_ready_remove(n)
    PROVE  WalkInPool'
<1>1. CASE list[Pool].head = n
  BY <1>1 DEF sched_ready_remove, walk, WalkInPool
<1>2. CASE list[Pool].head # n
  <2>1. /\ thread' = n /\ node' = list[Pool].head
        /\ node_next' = next[list[Pool].head] /\ seq' = seq
    BY <1>2 DEF sched_ready_remove, vars
  <2>2. PICK j \in DOMAIN seq[Pool] : seq[Pool][j] = n
    BY DEF sched_ready_remove, Range
  <2>3. /\ 1 \in DOMAIN seq[Pool] /\ 1 < j
        /\ seq[Pool][1] = list[Pool].head /\ seq[Pool][1 + 1] = next[list[Pool].head]
    BY <1>2, <2>2, PoolFacts
  <2>4. QED
    BY <2>1, <2>2, <2>3 DEF WalkInPool
<1>3. QED
  BY <1>1, <1>2

(* Each further one is the next node, and not yet past the thread.          *)
LEMMA WalkGoesOn ==
    ASSUME IInv, WalkInPool, Advance
    PROVE  WalkInPool'
<1>1. PICK i, j \in DOMAIN seq[Pool] : Reached(i, j)
  BY DEF Advance, WalkInPool, Reached
<1>2. node_next # thread /\ seq' = seq
  BY DEF Advance, vars
<1>3. /\ i + 1 \in DOMAIN seq[Pool] /\ i + 1 < j
      /\ next[node_next] = seq[Pool][(i + 1) + 1] /\ next[node_next] # NULL
  <2>1. i + 1 # j
    BY <1>1, <1>2 DEF Reached
  <2>2. /\ i \in Nat /\ j \in Nat /\ i + 1 < j /\ j <= Len(seq[Pool])
        /\ i + 1 \in 1 .. Len(seq[Pool]) - 1 /\ (i + 1) + 1 \in DOMAIN seq[Pool]
        /\ i + 1 \in DOMAIN seq[Pool]
    BY <1>1, <2>1, PoolFacts DEF Reached
  <2>3. next[node_next] = seq[Pool][(i + 1) + 1]
    BY <1>1, <2>2, PoolFacts DEF Reached
  <2>4. next[node_next] # NULL
    BY <2>2, <2>3, PoolFacts, SListOpsAssumption
  <2>5. QED
    BY <2>2, <2>3, <2>4
<1>4. thread' = thread /\ node' = node_next /\ node_next' = next[node_next]
  BY <1>2, <1>3 DEF Advance
<1>5. QED
  BY <1>1, <1>2, <1>3, <1>4 DEF Reached, WalkInPool

(***************************************************************************)
(* The walk follows the pool from its head and meets its thread before the *)
(* end: no NULL is followed, and nothing but the thread is taken out.      *)
(***************************************************************************)
THEOREM WalkStaysInPool == ReadySpec => []WalkInPool
<1>1. ReadyInit => WalkInPool
  BY DEF ReadyInit, WalkInPool
<1>2. IInv /\ WalkInPool /\ [ReadyNext]_poolVars => WalkInPool'
  <2> SUFFICES ASSUME IInv, WalkInPool, [ReadyNext]_poolVars
               PROVE  WalkInPool'
    OBVIOUS
  <2>1. CASE UNCHANGED poolVars
    BY <2>1 DEF poolVars, vars, walk, WalkInPool
  <2>2. CASE thread = NULL /\ Next /\ UNCHANGED walk
    BY <2>2 DEF walk, WalkInPool
  <2>3. ASSUME NEW n \in Node, sched_ready_remove(n) PROVE WalkInPool'
    BY <2>3, WalkStarts
  <2>4. CASE Found
    BY <2>4 DEF Found, Returns, WalkInPool
  <2>5. CASE Advance
    BY <2>5, WalkGoesOn
  <2>6. QED
    BY <2>1, <2>2, <2>3, <2>4, <2>5 DEF ReadyNext, Walk
<1>3. QED
  BY <1>1, <1>2, PoolInvariance, PTL DEF ReadySpec
=============================================================================
