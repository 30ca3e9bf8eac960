---------------------------- MODULE SListProofs ----------------------------
(***************************************************************************)
(* What the operations of the list do to the types of its pointers, to the *)
(* assertion of slist_tail_put, and to the sequence of its nodes.          *)
(***************************************************************************)
EXTENDS SList, SequenceTheorems, FiniteSetTheorems, WellFoundedInduction, TLAPS

(* slist_head_get leaves a list of the same nodes. *)
LEMMA HeadGetType ==
    ASSUME NEW T, NEW S \in SUBSET T, NEW l \in Lists(S),
           NEW next \in [T -> S \cup {NULL}]
    PROVE  HeadGet(l, next) \in Lists(S)
<1>1. CASE l.head = NULL
  BY <1>1 DEF HeadGet, Lists
<1>2. CASE l.head # NULL /\ l.head = l.tail
  BY <1>2 DEF HeadGet, Lists, EmptyList
<1>3. CASE l.head # NULL /\ l.head # l.tail
  <2>1. HeadGet(l, next) = [l EXCEPT !.head = next[l.head]]
    BY <1>3 DEF HeadGet
  <2>2. l.head \in T /\ next[l.head] \in S \cup {NULL}
    BY <1>3 DEF Lists
  <2>3. QED
    BY <2>1, <2>2 DEF Lists
<1>4. QED
  BY <1>1, <1>2, <1>3

(* slist_tail_put adds a node of the same kind to the list ... *)
LEMMA TailPutType ==
    ASSUME NEW S, NEW l \in Lists(S), NEW n \in S
    PROVE  TailPut(l, n) \in Lists(S)
BY DEF TailPut, Lists

(* ... and to the links. *)
LEMMA TailPutLinksType ==
    ASSUME NEW T, NEW S, NEW l \in Lists(S),
           NEW next \in [T -> S \cup {NULL}], NEW n \in S
    PROVE  TailPutLinks(l, next, n) \in [T -> S \cup {NULL}]
BY DEF TailPutLinks, Lists

(* slist_init, slist_head_get and slist_tail_put keep the assertion of      *)
(* slist_tail_put true, whatever the links are.                            *)
LEMMA TailAssertKept ==
    ASSUME NEW S, NEW l \in Lists(S), TailPutAssert(l), NEW next, NEW n \in S,
           NULL \notin S
    PROVE  /\ TailPutAssert(EmptyList)
           /\ TailPutAssert(HeadGet(l, next))
           /\ TailPutAssert(TailPut(l, n))
<1>1. TailPutAssert(EmptyList)
  BY DEF TailPutAssert, EmptyList
<1>2. TailPutAssert(HeadGet(l, next))
  <2>1. CASE l.head = NULL
    BY <2>1 DEF HeadGet, TailPutAssert
  <2>2. CASE l.head # NULL /\ l.head = l.tail
    BY <2>2, <1>1 DEF HeadGet
  <2>3. CASE l.head # NULL /\ l.head # l.tail
    BY <2>3 DEF HeadGet, TailPutAssert, Lists
  <2>4. QED
    BY <2>1, <2>2, <2>3
<1>3. TailPutAssert(TailPut(l, n))
  BY DEF TailPut, TailPutAssert, Lists
<1>4. QED
  BY <1>1, <1>2, <1>3

-----------------------------------------------------------------------------
(* A non-empty set of natural numbers has a least element.                 *)
LEMMA LeastNatural ==
    ASSUME NEW T \in SUBSET Nat, T # {}
    PROVE  \E x \in T : \A y \in T : x <= y
<1> DEFINE R == OpToRel(<, Nat)
<1>1. IsWellFoundedOn(R, Nat)
  BY NatLessThanWellFounded
<1>2. \A x, y \in Nat : x < y => <<x, y>> \in R
  BY DEF OpToRel
<1> HIDE DEF R
<1>3. PICK x \in T : \A y \in T : ~ (<<y, x>> \in R)
  BY <1>1, WFMin
<1>4. \A y \in T : ~ (y < x)
  BY <1>2, <1>3
<1>5. \A y \in T : x <= y
  BY <1>4
<1>6. QED
  BY <1>5

(***************************************************************************)
(* Head, tail and links l, next hold the nodes of s, in this order; what   *)
(* the link of the last one holds does not matter.                         *)
(***************************************************************************)
Holds(l, next, s) ==
    /\ s = <<>> => l = EmptyList
    /\ s # <<>> => l.head = s[1] /\ l.tail = s[Len(s)]
    /\ \A i \in 1 .. Len(s) - 1 : next[s[i]] = s[i + 1]

Once(s) == \A i, j \in 1 .. Len(s) : s[i] = s[j] => i = j

(* The walk along the links that Contents takes sees s and then ends.       *)
Spells(l, next, s) ==
    /\ s = <<>> => l.head = NULL
    /\ s # <<>> => /\ l.head = s[1]
                   /\ s[Len(s)] = l.tail \/ next[s[Len(s)]] = NULL
    /\ \A i \in 1 .. Len(s) - 1 : s[i] # l.tail /\ next[s[i]] = s[i + 1]

LEMMA HoldsSpells ==
    ASSUME NEW S, NEW s \in Seq(S), NEW l, NEW next, Holds(l, next, s), Once(s)
    PROVE  Spells(l, next, s)
<1>1. \A i \in 1 .. Len(s) - 1 : s[i] # s[Len(s)] /\ s # <<>>
  BY DEF Once
<1>2. s = <<>> => l.head = NULL
  BY DEF Holds, EmptyList
<1>3. QED
  BY <1>1, <1>2 DEF Holds, Spells

(***************************************************************************)
(* The recursive function in Contents, and that only one function meets    *)
(* its definition: two that do cannot differ at a least place.             *)
(***************************************************************************)
Follow(l, next, prev) == IF prev \in {NULL, l.tail} THEN NULL ELSE next[prev]

IsWalk(f, l, next, n) ==
    f = [i \in 1 .. n |-> IF i = 1 THEN l.head ELSE Follow(l, next, f[i - 1])]

LEMMA WalkUnique ==
    ASSUME NEW l, NEW next, NEW n \in Nat,
           NEW f, NEW g, IsWalk(f, l, next, n), IsWalk(g, l, next, n)
    PROVE  f = g
<1> DEFINE Bad == {i \in 1 .. n : f[i] # g[i]}
<1>1. /\ f = [i \in 1 .. n |-> f[i]] /\ g = [i \in 1 .. n |-> g[i]]
  BY DEF IsWalk
<1>2. \A i \in 1 .. n :
        /\ f[i] = IF i = 1 THEN l.head ELSE Follow(l, next, f[i - 1])
        /\ g[i] = IF i = 1 THEN l.head ELSE Follow(l, next, g[i - 1])
  BY DEF IsWalk
<1>3. Bad = {}
  <2> SUFFICES ASSUME Bad # {} PROVE FALSE
    OBVIOUS
  <2>1. Bad \in SUBSET Nat
    OBVIOUS
  <2> HIDE DEF Bad
  <2>2. PICK x \in Bad : \A y \in Bad : x <= y
    BY <2>1, LeastNatural
  <2>3. x \in 1 .. n /\ f[x] # g[x]
    BY DEF Bad
  <2>4. x # 1
    BY <1>2, <2>3
  <2>5. x - 1 \in 1 .. n /\ x - 1 \notin Bad
    BY <2>2, <2>3, <2>4
  <2>6. f[x - 1] = g[x - 1]
    BY <2>5 DEF Bad
  <2>7. QED
    BY <1>2, <2>3, <2>4, <2>6
<1>4. \A i \in 1 .. n : f[i] = g[i]
  BY <1>3
<1>5. QED
  BY <1>1, <1>4

(* Contents returns the sequence that the walk sees.                       *)
LEMMA ContentsSpelled ==
    ASSUME NEW S, NULL \notin S, NEW s \in Seq(S), NEW l, NEW next,
           NEW n \in Nat, Len(s) <= n, Spells(l, next, s)
    PROVE  Contents(l, next, n) = s
<1> DEFINE g == [i \in 1 .. n |-> IF i <= Len(s) THEN s[i] ELSE NULL]
           node == CHOOSE f : IsWalk(f, l, next, n)
           len == CHOOSE k \in 0 .. n : \A i \in 1 .. n : i <= k <=> node[i] # NULL
<1>1. Len(s) \in Nat /\ \A i \in 1 .. Len(s) : s[i] \in S
  OBVIOUS
<1>2. IsWalk(g, l, next, n)
  <2>1. ASSUME NEW i \in 1 .. n
        PROVE  g[i] = IF i = 1 THEN l.head ELSE Follow(l, next, g[i - 1])
    <3>1. CASE i = 1
      BY <1>1, <3>1 DEF Spells
    <3>2. CASE i # 1 /\ i <= Len(s)
      <4>1. i - 1 \in 1 .. Len(s) - 1 /\ g[i - 1] = s[i - 1] /\ g[i] = s[i]
        BY <1>1, <3>2
      <4>2. s[i - 1] # l.tail /\ s[i - 1] # NULL /\ next[s[i - 1]] = s[i]
        BY <1>1, <4>1 DEF Spells
      <4>3. QED
        BY <3>2, <4>1, <4>2 DEF Follow
    <3>3. CASE i # 1 /\ i = Len(s) + 1
      <4>1. i - 1 = Len(s) /\ g[i - 1] = s[Len(s)] /\ g[i] = NULL /\ s # <<>>
        BY <1>1, <3>3
      <4>2. s[Len(s)] = l.tail \/ next[s[Len(s)]] = NULL
        BY <4>1 DEF Spells
      <4>3. QED
        BY <3>3, <4>1, <4>2 DEF Follow
    <3>4. CASE i # 1 /\ i > Len(s) + 1
      <4>1. g[i - 1] = NULL /\ g[i] = NULL
        BY <1>1, <3>4
      <4>2. QED
        BY <3>4, <4>1 DEF Follow
    <3>5. QED
      BY <1>1, <3>1, <3>2, <3>3, <3>4
  <2>2. QED
    BY <2>1 DEF IsWalk
<1>3. node = g
  <2> HIDE DEF g
  <2>1. IsWalk(node, l, next, n)
    BY <1>2
  <2> HIDE DEF node
  <2>2. QED
    BY <1>2, <2>1, WalkUnique
<1>4. Contents(l, next, n) = [i \in 1 .. len |-> node[i]]
  BY DEF Contents, IsWalk, Follow
<1>5. \A i \in 1 .. n : node[i] = IF i <= Len(s) THEN s[i] ELSE NULL
  <2> HIDE DEF node
  <2>1. QED
    BY <1>3
<1> HIDE DEF node
<1>6. \A i \in 1 .. n : i <= Len(s) <=> node[i] # NULL
  BY <1>1, <1>5
<1>7. len = Len(s)
  <2>1. ASSUME NEW k \in 0 .. n,
               \A i \in 1 .. n : i <= k <=> node[i] # NULL
        PROVE  k = Len(s)
    <3>1. CASE k < Len(s)
      <4>1. k + 1 \in 1 .. n /\ k + 1 <= Len(s) /\ ~(k + 1 <= k)
        BY <1>1, <3>1
      <4>2. QED
        BY <1>6, <2>1, <4>1
    <3>2. CASE k > Len(s)
      <4>1. k \in 1 .. n /\ ~(k <= Len(s)) /\ k <= k
        BY <1>1, <3>2
      <4>2. QED
        BY <1>6, <2>1, <4>1
    <3>3. QED
      BY <1>1, <3>1, <3>2
  <2>2. QED
    BY <1>1, <1>6, <2>1
<1> HIDE DEF len
<1>8. Contents(l, next, n) = [i \in 1 .. Len(s) |-> s[i]]
  BY <1>1, <1>4, <1>5, <1>7
<1>9. QED
  BY <1>8

-----------------------------------------------------------------------------
(* The elements of the sequences that the operations make.                 *)
LEMMA ElemsOfAppend ==
    ASSUME NEW S, NEW s \in Seq(S), NEW x \in S
    PROVE  /\ Append(s, x) \in Seq(S) /\ Append(s, x) # <<>>
           /\ Len(Append(s, x)) = Len(s) + 1
           /\ Append(s, x)[Len(s) + 1] = x
           /\ \A i \in 1 .. Len(s) : Append(s, x)[i] = s[i]
           /\ Elems(Append(s, x)) = Elems(s) \cup {x}
           /\ Once(s) /\ x \notin Elems(s) => Once(Append(s, x))
<1>1. /\ Append(s, x) \in Seq(S) /\ Append(s, x) # <<>>
      /\ Len(Append(s, x)) = Len(s) + 1
      /\ Append(s, x)[Len(s) + 1] = x
      /\ \A i \in 1 .. Len(s) : Append(s, x)[i] = s[i]
      /\ Len(s) \in Nat
  OBVIOUS
<1>2. Elems(Append(s, x)) = Elems(s) \cup {x}
  <2>1. \A i \in 1 .. Len(s) + 1 : i \in 1 .. Len(s) \/ i = Len(s) + 1
    BY <1>1
  <2>2. DOMAIN s = 1 .. Len(s) /\ DOMAIN Append(s, x) = 1 .. Len(s) + 1
    BY <1>1
  <2>3. ASSUME NEW e PROVE e \in Elems(Append(s, x)) <=> e \in Elems(s) \cup {x}
    BY <1>1, <2>1, <2>2 DEF Elems
  <2>4. QED
    BY <2>3
<1>3. ASSUME Once(s), x \notin Elems(s) PROVE Once(Append(s, x))
  <2>1. \A i \in 1 .. Len(s) : s[i] # x
    BY <1>3 DEF Elems
  <2>2. QED
    BY <1>1, <1>3, <2>1 DEF Once
<1>4. QED
  BY <1>1, <1>2, <1>3

LEMMA ElemsOfTail ==
    ASSUME NEW S, NEW s \in Seq(S), s # <<>>, Once(s)
    PROVE  /\ Tail(s) \in Seq(S) /\ Len(Tail(s)) = Len(s) - 1
           /\ \A i \in 1 .. Len(s) - 1 : Tail(s)[i] = s[i + 1]
           /\ s[1] \in Elems(s) /\ s[1] \in S
           /\ Elems(Tail(s)) = Elems(s) \ {s[1]}
           /\ Once(Tail(s))
<1>1. /\ Tail(s) \in Seq(S) /\ Len(Tail(s)) = Len(s) - 1
      /\ \A i \in 1 .. Len(s) - 1 : Tail(s)[i] = s[i + 1]
      /\ Len(s) \in Nat /\ 1 \in 1 .. Len(s)
  OBVIOUS
<1>2. s[1] \in Elems(s) /\ s[1] \in S
  BY <1>1 DEF Elems
<1>3. Elems(Tail(s)) = Elems(s) \ {s[1]}
  <2>1. DOMAIN s = 1 .. Len(s) /\ DOMAIN Tail(s) = 1 .. Len(s) - 1
    BY <1>1
  <2>2. ASSUME NEW e \in Elems(Tail(s)) PROVE e \in Elems(s) \ {s[1]}
    <3>1. PICK i \in 1 .. Len(s) - 1 : e = s[i + 1]
      BY <1>1, <2>1 DEF Elems
    <3>2. i + 1 \in 1 .. Len(s) /\ i + 1 # 1
      BY <1>1
    <3>3. QED
      BY <1>1, <2>1, <3>1, <3>2 DEF Elems, Once
  <2>3. ASSUME NEW e \in Elems(s) \ {s[1]} PROVE e \in Elems(Tail(s))
    <3>1. PICK i \in 1 .. Len(s) : e = s[i] /\ i # 1
      BY <2>1, <2>3 DEF Elems
    <3>2. i - 1 \in 1 .. Len(s) - 1 /\ Tail(s)[i - 1] = s[i]
      BY <1>1, <3>1
    <3>3. QED
      BY <2>1, <3>1, <3>2 DEF Elems
  <2>4. QED
    BY <2>2, <2>3
<1>4. Once(Tail(s))
  <2>1. ASSUME NEW i \in 1 .. Len(s) - 1, NEW j \in 1 .. Len(s) - 1,
               Tail(s)[i] = Tail(s)[j]
        PROVE  i = j
    <3>1. i + 1 \in 1 .. Len(s) /\ j + 1 \in 1 .. Len(s) /\ s[i + 1] = s[j + 1]
      BY <1>1, <2>1
    <3>2. i + 1 = j + 1
      BY <3>1 DEF Once
    <3>3. QED
      BY <3>2
  <2>2. QED
    BY <1>1, <2>1 DEF Once
<1>5. QED
  BY <1>1, <1>2, <1>3, <1>4

(* The elements of a sequence without repetition are as many as its places. *)
LEMMA OnceCardinality ==
    ASSUME NEW S, NEW s \in Seq(S), Once(s)
    PROVE  IsFiniteSet(Elems(s)) /\ Cardinality(Elems(s)) = Len(s)
<1>1. Len(s) \in Nat /\ DOMAIN s = 1 .. Len(s)
  OBVIOUS
<1>2. s \in Bijection(1 .. Len(s), Elems(s))
  <2>1. s \in [1 .. Len(s) -> Elems(s)]
    BY <1>1 DEF Elems
  <2>2. s \in Injection(1 .. Len(s), Elems(s))
    BY <2>1 DEF Once, Injection, IsInjective
  <2>3. s \in Surjection(1 .. Len(s), Elems(s))
    BY <1>1, <2>1 DEF Surjection, Elems
  <2>4. QED
    BY <2>2, <2>3 DEF Bijection
<1>3. IsFiniteSet(1 .. Len(s)) /\ Cardinality(1 .. Len(s)) = Len(s)
  BY <1>1, FS_Interval
<1>4. ExistsBijection(1 .. Len(s), Elems(s))
  BY <1>2 DEF ExistsBijection
<1>5. QED
  BY <1>3, <1>4, FS_Bijection

-----------------------------------------------------------------------------
(* slist_head_get takes the first node.                                    *)
LEMMA HeadGone ==
    ASSUME NEW S, NULL \notin S, NEW s \in Seq(S), s # <<>>, Once(s),
           NEW l \in Lists(S), NEW next, Holds(l, next, s)
    PROVE  Holds(HeadGet(l, next), next, Tail(s))
<1> DEFINE n == Len(s)
<1>0. n \in Nat /\ n >= 1
  OBVIOUS
<1>1. l.head = s[1] /\ l.tail = s[n] /\ n \in Nat /\ n >= 1
      /\ 1 \in 1 .. n /\ n \in 1 .. n
  BY <1>0 DEF Holds
<1>2. s[1] # NULL
  BY <1>1
<1>3. CASE n = 1
  <2>1. Tail(s) \in Seq(S) /\ Len(Tail(s)) = 0
    BY <1>3, ElemsOfTail
  <2>2. Tail(s) = <<>>
    BY <2>1, EmptySeq
  <2>3. HeadGet(l, next) = EmptyList
    BY <1>1, <1>2, <1>3 DEF HeadGet
  <2>4. QED
    BY <2>2, <2>3 DEF Holds
<1>4. CASE n > 1
  <2>1. l.head # l.tail
    BY <1>1, <1>4 DEF Once
  <2>2. HeadGet(l, next) = [l EXCEPT !.head = s[2]]
    BY <1>1, <1>2, <1>4, <2>1 DEF HeadGet, Holds
  <2>3. /\ Tail(s) # <<>> /\ Tail(s)[1] = s[2]
        /\ Tail(s)[Len(Tail(s))] = s[Len(s)]
    <3>1. Len(Tail(s)) = n - 1 /\ Tail(s) \in Seq(S)
          /\ \A i \in 1 .. n - 1 : Tail(s)[i] = s[i + 1]
      BY ElemsOfTail
    <3>2. 1 \in 1 .. n - 1 /\ n - 1 \in 1 .. n - 1 /\ n - 1 + 1 = n /\ 1 + 1 = 2
      BY <1>0, <1>4
    <3>3. Tail(s) # <<>>
      BY <1>0, <1>4, <3>1
    <3>4. QED
      BY <3>1, <3>2, <3>3
  <2>4. \A i \in 1 .. Len(Tail(s)) - 1 : next[Tail(s)[i]] = Tail(s)[i + 1]
    <3>1. ASSUME NEW i \in 1 .. Len(Tail(s)) - 1
          PROVE  next[Tail(s)[i]] = Tail(s)[i + 1]
      <4>1. Tail(s)[i] = s[i + 1] /\ Tail(s)[i + 1] = s[i + 2]
            /\ i + 1 \in 1 .. Len(s) - 1 /\ i + 1 + 1 = i + 2
        BY <1>1, ElemsOfTail
      <4>2. QED
        BY <4>1 DEF Holds
    <3>2. QED
      BY <3>1
  <2>5. QED
    BY <1>1, <2>2, <2>3, <2>4 DEF Holds, Lists
<1> HIDE DEF n
<1>5. n = 1 \/ n > 1
  BY <1>0
<1>6. QED
  BY <1>3, <1>4, <1>5

(* Writing the link of a node that is not in a list, or of its last one,    *)
(* leaves the list as it is.                                               *)
LEMMA LinkWritten ==
    ASSUME NEW S, NEW s \in Seq(S), Once(s), NEW l, NEW next, Holds(l, next, s),
           NEW x, NEW v, x \notin Elems(s) \/ (s # <<>> /\ x = s[Len(s)])
    PROVE  Holds(l, [next EXCEPT ![x] = v], s)
<1>1. ASSUME NEW i \in 1 .. Len(s) - 1
      PROVE  [next EXCEPT ![x] = v][s[i]] = s[i + 1]
  <2>1. i \in 1 .. Len(s) /\ Len(s) \in 1 .. Len(s) /\ i # Len(s)
    OBVIOUS
  <2>2. s[i] # x
    BY <2>1 DEF Elems, Once
  <2>3. [next EXCEPT ![x] = v][s[i]] = next[s[i]]
    BY <2>2
  <2>4. QED
    BY <2>3 DEF Holds
<1>2. QED
  BY <1>1 DEF Holds

(* slist_tail_put appends a node that is in no place of the list yet.       *)
LEMMA TailAdded ==
    ASSUME NEW S, NULL \notin S, NEW T, S \subseteq T, NEW s \in Seq(S), Once(s),
           NEW V, NEW l \in Lists(S), NEW next \in [T -> V], Holds(l, next, s),
           NEW x \in S, x \notin Elems(s)
    PROVE  Holds(TailPut(l, x), TailPutLinks(l, next, x), Append(s, x))
<1> DEFINE n == Len(s)
<1>1. n \in Nat /\ \A i \in 1 .. n : s[i] \in S
  OBVIOUS
<1>2. /\ Append(s, x) # <<>> /\ Len(Append(s, x)) = n + 1
      /\ Append(s, x)[n + 1] = x
      /\ \A i \in 1 .. n : Append(s, x)[i] = s[i]
  BY ElemsOfAppend
<1>3. CASE n = 0
  <2>1. s = <<>> /\ l.head = NULL
    BY <1>3 DEF Holds, EmptyList
  <2>2. TailPut(l, x) = [head |-> x, tail |-> x]
    BY <2>1 DEF TailPut
  <2>3. Append(s, x)[1] = x /\ Len(Append(s, x)) = 1
    BY <1>2, <1>3
  <2>4. QED
    BY <1>2, <2>2, <2>3 DEF Holds
<1>4. CASE n > 0
  <2>1. s # <<>> /\ l.head = s[1] /\ l.tail = s[n] /\ s[1] # NULL
        /\ n \in 1 .. n /\ 1 \in 1 .. n
    BY <1>1, <1>4 DEF Holds
  <2>2. /\ TailPut(l, x) = [l EXCEPT !.tail = x]
        /\ TailPutLinks(l, next, x) = [next EXCEPT ![s[n]] = x]
    BY <2>1 DEF TailPut, TailPutLinks
  <2>3. Holds(l, [next EXCEPT ![s[n]] = x], s)
    BY <2>1, LinkWritten
  <2>4. [next EXCEPT ![s[n]] = x][s[n]] = x
    BY <1>1, <2>1
  <2>5. ASSUME NEW i \in 1 .. n
        PROVE  [next EXCEPT ![s[n]] = x][Append(s, x)[i]] = Append(s, x)[i + 1]
    <3>1. CASE i = n
      BY <1>2, <2>4, <3>1
    <3>2. CASE i < n
      <4>1. i \in 1 .. n - 1 /\ i + 1 \in 1 .. n
        BY <1>1, <3>2
      <4>2. QED
        BY <1>2, <2>3, <4>1 DEF Holds
    <3>3. QED
      BY <1>1, <3>1, <3>2
  <2>6. TailPut(l, x).head = Append(s, x)[1] /\ TailPut(l, x).tail = x
    BY <1>2, <2>1, <2>2 DEF Lists
  <2>7. QED
    BY <1>1, <1>2, <2>2, <2>5, <2>6 DEF Holds
<1>5. QED
  BY <1>1, <1>3, <1>4

(* ... and no other list notices, as long as it has no node in common with  *)
(* this one.                                                               *)
LEMMA TailAddedElsewhere ==
    ASSUME NEW S, NULL \notin S, NEW s \in Seq(S), NEW u \in Seq(S), Once(u),
           Elems(s) \cap Elems(u) = {}, NEW l, NEW m, NEW next,
           Holds(l, next, s), Holds(m, next, u), NEW x
    PROVE  Holds(m, TailPutLinks(l, next, x), u)
<1>1. CASE s = <<>>
  BY <1>1 DEF Holds, EmptyList, TailPutLinks
<1>2. CASE s # <<>>
  <2>1. Len(s) \in 1 .. Len(s) /\ l.tail = s[Len(s)]
    BY <1>2 DEF Holds
  <2>2. l.tail \notin Elems(u)
    BY <2>1 DEF Elems
  <2>3. Holds(m, [next EXCEPT ![l.tail] = x], u)
    BY <2>2, LinkWritten
  <2>4. QED
    BY <2>3 DEF TailPutLinks
<1>3. QED
  BY <1>1, <1>2
=============================================================================
