----------------------------- MODULE ListProofs -----------------------------
(***************************************************************************)
(* The doubly linked list stays well linked and implements a sequence, for *)
(* any number of nodes.  The inductive invariant names the chain: the      *)
(* nodes p[1], p[2], ... in their order.                                   *)
(***************************************************************************)
EXTENDS List, FiniteSetTheorems, WellFoundedInduction, TLAPS

NodeT == [data : Data \cup {NULL}, prev : Node \cup {NULL}, next : Node \cup {NULL}]
ListT == [head : Node \cup {NULL}, tail : Node \cup {NULL}, count : Nat]

\* p lists the nodes of the list l in their order, and the links of nd follow it.
Chain(l, nd, p) ==
  /\ p \in [1 .. l.count -> Node]
  /\ \A i, j \in 1 .. l.count : p[i] = p[j] => i = j
  /\ l.head = IF l.count = 0 THEN NULL ELSE p[1]
  /\ l.tail = IF l.count = 0 THEN NULL ELSE p[l.count]
  /\ \A i \in 1 .. l.count : /\ nd[p[i]].next = IF i = l.count THEN NULL ELSE p[i + 1]
                             /\ nd[p[i]].prev = IF i = 1 THEN NULL ELSE p[i - 1]
                             /\ nd[p[i]].data \in Data

\* The nodes on the chain
On(p) == {p[i] : i \in DOMAIN p}

\* The inductive invariant
ListInv ==
  /\ node \in [Node -> NodeT]
  /\ live \subseteq Node
  /\ list = NULL => live = lost
  /\ list # NULL => /\ list \in ListT
                    /\ \E p : Chain(list, node, p) /\ live = On(p) \cup lost /\ On(p) \cap lost = {}

----------------------------------------------------------------------------
(* The natural numbers *)

\* A set of natural numbers has a least element.
LEMMA LeastNatural ==
  ASSUME NEW T, T \subseteq Nat, T # {}
  PROVE  \E x \in T : \A y \in T : x <= y
<1> DEFINE R == OpToRel(<, Nat)
<1>1. IsWellFoundedOn(R, Nat)
  BY NatLessThanWellFounded
<1>2. \A x, y \in Nat : x < y => <<x, y>> \in R
  BY DEF OpToRel
<1> HIDE DEF R
<1>3. \E x \in T : \A y \in T : ~(<<y, x>> \in R)
  BY <1>1, WFMin
<1>4. PICK x \in T : \A y \in T : ~(<<y, x>> \in R)
  BY <1>3
<1>5. ASSUME NEW y \in T PROVE x <= y
  <2>1. x \in Nat /\ y \in Nat /\ ~(y < x)
    BY <1>2, <1>4
  <2> QED BY <2>1
<1> QED BY <1>5

\* Induction, with the set of the numbers that have the property.
LEMMA InductionSet ==
  ASSUME NEW S, 0 \in S, \A n \in Nat : n \in S => n + 1 \in S
  PROVE  Nat \subseteq S
<1> SUFFICES ASSUME Nat \ S # {} PROVE FALSE
  OBVIOUS
<1>1. PICK x \in Nat \ S : \A y \in Nat \ S : x <= y
  BY LeastNatural
<1>2. x # 0 /\ x - 1 \in Nat /\ x - 1 \in S
  BY <1>1
<1>3. (x - 1) + 1 \in S
  BY <1>2
<1> QED BY <1>1, <1>3

----------------------------------------------------------------------------
(* Walking the chain *)

\* Nth (the walk of list_at, list_remove and list_insert) finds the nodes of the
\* chain in their order, and NULL behind its end.
LEMMA NthOnChain ==
  ASSUME NEW p, list \in ListT, Chain(list, node, p), NEW n \in Nat
  PROVE  Nth(n) = IF n < list.count THEN p[n + 1] ELSE NULL
<1> DEFINE D(w) == [i \in 0 .. n |-> IF i = 0 THEN list.head
                                    ELSE IF w[i - 1] = NULL THEN NULL ELSE node[w[i - 1]].next]
           v == [i \in 0 .. n |-> IF i < list.count THEN p[i + 1] ELSE NULL]
           w == CHOOSE w : w = D(w)
<1>1. Nth(n) = w[n]
  BY DEF Nth
<1>2. v = D(v)
  <2>1. ASSUME NEW i \in 0 .. n PROVE v[i] = D(v)[i]
    <3>1. CASE i = 0
      BY <3>1 DEF Chain, ListT
    <3>2. CASE i > 0 /\ i - 1 < list.count
      <4>1. i - 1 \in 0 .. n /\ v[i - 1] = p[i] /\ i \in 1 .. list.count
        BY <3>2 DEF ListT
      <4>2. p[i] # NULL /\ node[p[i]].next = IF i = list.count THEN NULL ELSE p[i + 1]
        BY <4>1, ListAssumption DEF Chain
      <4>3. D(v)[i] = node[p[i]].next
        BY <3>2, <4>1, <4>2
      <4> QED BY <4>1, <4>2, <4>3 DEF ListT
    <3>3. CASE i > 0 /\ ~(i - 1 < list.count)
      BY <3>3 DEF ListT
    <3> QED BY <3>1, <3>2, <3>3
  <2> QED BY <2>1
<1>3. w = D(w)
  BY <1>2
<1> HIDE DEF w
<1> DEFINE S == {i \in Nat : i <= n => w[i] = v[i]}
<1>4. Nat \subseteq S
  <2>1. 0 \in S
    <3>1. w[0] = D(w)[0] /\ v[0] = D(v)[0]
      BY <1>2, <1>3
    <3> QED BY <3>1
  <2>2. ASSUME NEW i \in Nat, i \in S PROVE i + 1 \in S
    <3>1. CASE i + 1 <= n
      <4>1. w[i] = v[i]
        BY <2>2, <3>1
      <4>2. w[i + 1] = D(w)[i + 1] /\ v[i + 1] = D(v)[i + 1]
        BY <1>2, <1>3
      <4> HIDE DEF v
      <4>3. D(w)[i + 1] = D(v)[i + 1]
        BY <3>1, <4>1
      <4> QED BY <4>2, <4>3
    <3> QED BY <3>1
  <2> HIDE DEF S
  <2> QED BY <2>1, <2>2, InductionSet
<1>5. w[n] = v[n]
  <2>1. n \in S
    BY <1>4
  <2> QED BY <2>1
<1> QED BY <1>1, <1>5

----------------------------------------------------------------------------
(* Changing the chain *)

\* s with x put behind its k-th element, and s without its k-th element
Ins(s, n, k, x) == [i \in 1 .. n + 1 |-> IF i <= k THEN s[i] ELSE IF i = k + 1 THEN x ELSE s[i - 1]]
Del(s, n, k) == [i \in 1 .. n - 1 |-> IF i < k THEN s[i] ELSE s[i + 1]]

\* nd2 is nd with the link from car to cdr, and back.
Chained(nd, car, cdr, nd2) ==
  /\ nd2 \in [Node -> NodeT]
  /\ \A n \in Node : /\ nd2[n].next = IF n = car THEN cdr ELSE nd[n].next
                     /\ nd2[n].prev = IF n = cdr THEN car ELSE nd[n].prev
                     /\ nd2[n].data = nd[n].data

\* NULL is not on a chain.
LEMMA ChainNodes ==
  ASSUME NEW l, NEW nd, NEW p, Chain(l, nd, p)
  PROVE  \A i \in 1 .. l.count : p[i] \in Node /\ p[i] # NULL
<1>1. p \in [1 .. l.count -> Node]
  BY DEF Chain
<1>2. NULL \notin Node
  BY ListAssumption
<1> QED BY <1>1, <1>2

\* What chain does to the fields of the nodes
LEMMA ChainFields ==
  ASSUME NEW nd \in [Node -> NodeT], NEW car \in Node \cup {NULL}, NEW cdr \in Node \cup {NULL}
  PROVE  Chained(nd, car, cdr, chain(nd, car, cdr))
<1> DEFINE c == chain(nd, car, cdr)
<1>1. ASSUME NEW n \in Node
      PROVE  /\ c[n] \in NodeT
             /\ c[n].next = IF n = car THEN cdr ELSE nd[n].next
             /\ c[n].prev = IF n = cdr THEN car ELSE nd[n].prev
             /\ c[n].data = nd[n].data
  <2>1. c[n] = [nd[n] EXCEPT !.next = IF n = car THEN cdr ELSE nd[n].next,
                             !.prev = IF n = cdr THEN car ELSE nd[n].prev]
    BY DEF chain
  <2>2. nd[n] \in NodeT
    OBVIOUS
  <2> HIDE DEF c
  <2> QED BY <2>1, <2>2 DEF NodeT
<1>2. c = [n \in Node |-> c[n]]
  BY DEF chain
<1> HIDE DEF c
<1>3. c \in [Node -> NodeT]
  BY <1>1, <1>2
<1>4. Chained(nd, car, cdr, c)
  BY <1>1, <1>3 DEF Chained
<1> QED BY <1>4 DEF c

\* l2 and nd2 are l and nd with the node new linked in behind the k-th of the chain.
LinksIn(l, nd, p, k, new, ptr, l2, nd2) ==
  /\ l2.count = l.count + 1
  /\ l2.head = IF k = 0 THEN new ELSE l.head
  /\ l2.tail = IF k = l.count THEN new ELSE l.tail
  /\ nd2[new].data = ptr
  /\ nd2[new].prev = IF k = 0 THEN NULL ELSE p[k]
  /\ nd2[new].next = IF k = l.count THEN NULL ELSE p[k + 1]
  /\ \A n \in Node \ {new} :
       /\ nd2[n].data = nd[n].data
       /\ nd2[n].next = IF k > 0 /\ n = p[k] THEN new ELSE nd[n].next
       /\ nd2[n].prev = IF k < l.count /\ n = p[k + 1] THEN new ELSE nd[n].prev

\* l2 and nd2 are l and nd with the k-th node of the chain taken out.
LinksOut(l, nd, p, k, l2, nd2) ==
  /\ l2.count = l.count - 1
  /\ l2.head = IF k = 1 THEN nd[p[k]].next ELSE l.head
  /\ l2.tail = IF k = l.count THEN nd[p[k]].prev ELSE l.tail
  /\ \A n \in Node \ {p[k]} :
       /\ nd2[n].data = nd[n].data
       /\ nd2[n].next = IF n = nd[p[k]].prev THEN nd[p[k]].next ELSE nd[n].next
       /\ nd2[n].prev = IF n = nd[p[k]].next THEN nd[p[k]].prev ELSE nd[n].prev

\* The new node, with its datum, stands behind the k-th of the chain.
LinkedIn(l, nd, p, k, new, ptr, l2, nd2) ==
  /\ Chain(l2, nd2, Ins(p, l.count, k, new))
  /\ On(Ins(p, l.count, k, new)) = On(p) \cup {new}
  /\ [i \in 1 .. l2.count |-> nd2[Ins(p, l.count, k, new)[i]].data]
       = Ins([i \in 1 .. l.count |-> nd[p[i]].data], l.count, k, ptr)

\* A node that is linked in behind the k-th of the chain is its next node.
LEMMA LinkIn ==
  ASSUME NEW l \in ListT, NEW nd \in [Node -> NodeT], NEW p, Chain(l, nd, p),
         NEW k \in 0 .. l.count, NEW new \in Node, new \notin On(p), NEW ptr \in Data,
         NEW l2, NEW nd2, LinksIn(l, nd, p, k, new, ptr, l2, nd2)
  PROVE  LinkedIn(l, nd, p, k, new, ptr, l2, nd2)
<1> DEFINE q == Ins(p, l.count, k, new)
           c == l.count
<1>1. c \in Nat /\ l2.count = c + 1 /\ k \in 0 .. c
  BY DEF ListT, LinksIn
<1>2. /\ p \in [1 .. c -> Node]
      /\ \A i, j \in 1 .. c : p[i] = p[j] => i = j
      /\ l.head = IF c = 0 THEN NULL ELSE p[1]
      /\ l.tail = IF c = 0 THEN NULL ELSE p[c]
      /\ \A i \in 1 .. c : /\ nd[p[i]].next = IF i = c THEN NULL ELSE p[i + 1]
                           /\ nd[p[i]].prev = IF i = 1 THEN NULL ELSE p[i - 1]
                           /\ nd[p[i]].data \in Data
  BY DEF Chain
<1>3. /\ DOMAIN q = 1 .. c + 1
      /\ \A i \in 1 .. c + 1 : q[i] = IF i <= k THEN p[i] ELSE IF i = k + 1 THEN new ELSE p[i - 1]
      /\ q \in [1 .. c + 1 -> Node]
  <2>1. q = [i \in 1 .. c + 1 |-> IF i <= k THEN p[i] ELSE IF i = k + 1 THEN new ELSE p[i - 1]]
    BY DEF Ins
  <2>2. ASSUME NEW i \in 1 .. c + 1
        PROVE  (IF i <= k THEN p[i] ELSE IF i = k + 1 THEN new ELSE p[i - 1]) \in Node
    <3> HIDE DEF q, c
    <3> QED BY <1>1, <1>2
  <2> HIDE DEF q, c
  <2> QED BY <2>1, <2>2
<1>4. \A i \in 1 .. c : p[i] # new
  BY <1>2 DEF On
<1> HIDE DEF q, c
<1>5. ASSUME NEW i \in 1 .. c + 1, NEW j \in 1 .. c + 1, q[i] = q[j] PROVE i = j
  <2>1. CASE i <= k
    BY <1>1, <1>2, <1>3, <1>4, <1>5, <2>1
  <2>2. CASE i = k + 1
    BY <1>1, <1>2, <1>3, <1>4, <1>5, <2>2
  <2>3. CASE i > k + 1
    <3>1. q[i] = p[i - 1] /\ i - 1 \in 1 .. c
      BY <1>1, <1>3, <2>3
    <3>2. CASE j <= k
      <4>1. q[j] = p[j] /\ j \in 1 .. c /\ j # i - 1
        BY <1>1, <1>3, <2>3, <3>2
      <4>2. \A a, b \in 1 .. c : p[a] = p[b] => a = b
        BY <1>2
      <4> QED BY <1>5, <3>1, <4>1, <4>2
    <3>3. CASE j = k + 1
      <4>1. q[j] = new
        BY <1>1, <1>3, <3>3
      <4> QED BY <1>4, <1>5, <3>1, <4>1
    <3>4. CASE j > k + 1
      <4>1. q[j] = p[j - 1] /\ j - 1 \in 1 .. c
        BY <1>1, <1>3, <3>4
      <4>2. \A a, b \in 1 .. c : p[a] = p[b] => a = b
        BY <1>2
      <4>3. i - 1 = j - 1
        BY <1>5, <3>1, <4>1, <4>2
      <4> QED BY <4>3
    <3> QED BY <1>1, <3>2, <3>3, <3>4
  <2> QED BY <1>1, <2>1, <2>2, <2>3
<1>6. /\ l2.head = IF l2.count = 0 THEN NULL ELSE q[1]
      /\ l2.tail = IF l2.count = 0 THEN NULL ELSE q[l2.count]
  <2>0. /\ l2.head = IF k = 0 THEN new ELSE l.head
        /\ l2.tail = IF k = c THEN new ELSE l.tail
    BY DEF c, LinksIn
  <2>1. l2.head = q[1]
    BY <1>1, <1>2, <1>3, <2>0
  <2>2. l2.tail = q[c + 1]
    BY <1>1, <1>2, <1>3, <2>0
  <2> QED BY <1>1, <2>1, <2>2
<1>7. ASSUME NEW i \in 1 .. c + 1
      PROVE  /\ nd2[q[i]].next = IF i = c + 1 THEN NULL ELSE q[i + 1]
             /\ nd2[q[i]].prev = IF i = 1 THEN NULL ELSE q[i - 1]
             /\ nd2[q[i]].data = IF i <= k THEN nd[p[i]].data ELSE IF i = k + 1 THEN ptr ELSE nd[p[i - 1]].data
  <2>0. /\ nd2[new].data = ptr
        /\ nd2[new].prev = IF k = 0 THEN NULL ELSE p[k]
        /\ nd2[new].next = IF k = c THEN NULL ELSE p[k + 1]
        /\ \A n \in Node \ {new} :
            /\ nd2[n].data = nd[n].data
            /\ nd2[n].next = IF k > 0 /\ n = p[k] THEN new ELSE nd[n].next
            /\ nd2[n].prev = IF k < c /\ n = p[k + 1] THEN new ELSE nd[n].prev
    BY DEF c, LinksIn
  <2>1. CASE i = k + 1
    BY <1>1, <1>2, <1>3, <2>0, <2>1
  <2>2. CASE i <= k
    <3>1. q[i] = p[i] /\ p[i] \in Node \ {new} /\ i \in 1 .. c
      BY <1>1, <1>2, <1>3, <1>4, <2>2
    <3>2. nd2[q[i]].next = IF i = c + 1 THEN NULL ELSE q[i + 1]
      <4>1. CASE i = k
        BY <1>1, <1>3, <2>0, <3>1, <4>1
      <4>2. CASE i < k
        <5>1. p[i] # p[k] /\ i # c
          BY <1>1, <1>2, <3>1, <4>2
        <5> QED BY <1>1, <1>2, <1>3, <2>0, <3>1, <4>2, <5>1
      <4> QED BY <2>2, <4>1, <4>2
    <3>3. nd2[q[i]].prev = IF i = 1 THEN NULL ELSE q[i - 1]
      <4>1. k < c => p[i] # p[k + 1]
        BY <1>1, <1>2, <2>2, <3>1
      <4> QED BY <1>1, <1>2, <1>3, <2>0, <2>2, <3>1, <4>1
    <3> QED BY <2>0, <2>2, <3>1, <3>2, <3>3
  <2>3. CASE i > k + 1
    <3>1. q[i] = p[i - 1] /\ p[i - 1] \in Node \ {new} /\ i - 1 \in 1 .. c
      BY <1>1, <1>2, <1>3, <1>4, <2>3
    <3>2. nd2[q[i]].prev = IF i = 1 THEN NULL ELSE q[i - 1]
      <4>1. CASE i = k + 2
        BY <1>1, <1>3, <2>0, <3>1, <4>1
      <4>2. CASE i > k + 2
        <5>1. p[i - 1] # p[k + 1] /\ i # 1
          BY <1>1, <1>2, <3>1, <4>2
        <5> QED BY <1>1, <1>2, <1>3, <2>0, <3>1, <4>2, <5>1
      <4> QED BY <2>3, <4>1, <4>2
    <3>3. nd2[q[i]].next = IF i = c + 1 THEN NULL ELSE q[i + 1]
      <4>1. k > 0 => p[i - 1] # p[k]
        BY <1>1, <1>2, <2>3, <3>1
      <4> QED BY <1>1, <1>2, <1>3, <2>0, <2>3, <3>1, <4>1
    <3> QED BY <1>1, <2>0, <2>3, <3>1, <3>2, <3>3
  <2> QED BY <1>1, <2>1, <2>2, <2>3
<1>8. ASSUME NEW i \in 1 .. c + 1 PROVE nd2[q[i]].data \in Data
  <2>1. CASE i <= k
    <3>1. nd2[q[i]].data = nd[p[i]].data /\ i \in 1 .. c
      BY <1>1, <1>7, <2>1
    <3> QED BY <1>2, <3>1
  <2>2. CASE i = k + 1
    BY <1>1, <1>7, <2>2
  <2>3. CASE i > k + 1
    <3>1. nd2[q[i]].data = nd[p[i - 1]].data /\ i - 1 \in 1 .. c
      BY <1>1, <1>7, <2>3
    <3> QED BY <1>2, <3>1
  <2> QED BY <1>1, <2>1, <2>2, <2>3
<1>9. Chain(l2, nd2, q)
  BY <1>1, <1>3, <1>5, <1>6, <1>7, <1>8 DEF Chain
<1>10. On(q) = On(p) \cup {new}
  <2>1. On(q) = {q[i] : i \in 1 .. c + 1} /\ On(p) = {p[i] : i \in 1 .. c}
    BY <1>2, <1>3 DEF On
  <2>2. ASSUME NEW i \in 1 .. c PROVE p[i] \in On(q)
    <3>1. CASE i <= k
      BY <1>1, <1>3, <2>1, <3>1
    <3>2. CASE i > k
      <4>1. i + 1 \in 1 .. c + 1 /\ q[i + 1] = p[i]
        BY <1>1, <1>3, <3>2
      <4> QED BY <2>1, <4>1
    <3> QED BY <1>1, <3>1, <3>2
  <2>3. new \in On(q)
    <3>1. k + 1 \in 1 .. c + 1 /\ q[k + 1] = new
      BY <1>1, <1>3
    <3> QED BY <2>1, <3>1
  <2>4. ASSUME NEW i \in 1 .. c + 1 PROVE q[i] \in On(p) \cup {new}
    <3>1. CASE i <= k
      BY <1>1, <1>3, <2>1, <3>1
    <3>2. CASE i > k + 1
      <4>1. q[i] = p[i - 1] /\ i - 1 \in 1 .. c
        BY <1>1, <1>3, <3>2
      <4> QED BY <2>1, <4>1
    <3>3. CASE i = k + 1
      BY <1>1, <1>3, <3>3
    <3> QED BY <1>1, <3>1, <3>2, <3>3
  <2> QED BY <2>1, <2>2, <2>3, <2>4
<1>11. [i \in 1 .. l2.count |-> nd2[q[i]].data] = Ins([i \in 1 .. c |-> nd[p[i]].data], c, k, ptr)
  <2> DEFINE s == [i \in 1 .. c |-> nd[p[i]].data]
  <2>1. ASSUME NEW i \in 1 .. c + 1
        PROVE nd2[q[i]].data = IF i <= k THEN s[i] ELSE IF i = k + 1 THEN ptr ELSE s[i - 1]
    BY <1>1, <1>7
  <2> HIDE DEF s
  <2>2. [i \in 1 .. l2.count |-> nd2[q[i]].data] = Ins(s, c, k, ptr)
    BY <1>1, <2>1 DEF Ins
  <2> QED BY <2>2 DEF s
<1> QED BY <1>9, <1>10, <1>11 DEF q, c, LinkedIn

\* A node that is unlinked leaves the chain of the others.
LEMMA LinkOut ==
  ASSUME NEW l \in ListT, NEW nd \in [Node -> NodeT], NEW p, Chain(l, nd, p),
         NEW k \in 1 .. l.count, NEW l2, NEW nd2, LinksOut(l, nd, p, k, l2, nd2)
  PROVE  /\ Chain(l2, nd2, Del(p, l.count, k))
         /\ On(Del(p, l.count, k)) = On(p) \ {p[k]}
         /\ [i \in 1 .. l2.count |-> nd2[Del(p, l.count, k)[i]].data]
              = Del([i \in 1 .. l.count |-> nd[p[i]].data], l.count, k)
<1> DEFINE q == Del(p, l.count, k)
           c == l.count
<1>1. c \in Nat /\ l2.count = c - 1 /\ k \in 1 .. c
  BY DEF ListT, LinksOut
<1>2. /\ p \in [1 .. c -> Node]
      /\ \A i, j \in 1 .. c : p[i] = p[j] => i = j
      /\ l.head = IF c = 0 THEN NULL ELSE p[1]
      /\ l.tail = IF c = 0 THEN NULL ELSE p[c]
      /\ \A i \in 1 .. c : /\ nd[p[i]].next = IF i = c THEN NULL ELSE p[i + 1]
                           /\ nd[p[i]].prev = IF i = 1 THEN NULL ELSE p[i - 1]
                           /\ nd[p[i]].data \in Data
  BY DEF Chain
<1>3. /\ DOMAIN q = 1 .. c - 1
      /\ \A i \in 1 .. c - 1 : q[i] = IF i < k THEN p[i] ELSE p[i + 1]
      /\ q \in [1 .. c - 1 -> Node]
  <2>1. q = [i \in 1 .. c - 1 |-> IF i < k THEN p[i] ELSE p[i + 1]]
    BY DEF Del
  <2>2. ASSUME NEW i \in 1 .. c - 1 PROVE (IF i < k THEN p[i] ELSE p[i + 1]) \in Node
    <3> HIDE DEF q, c
    <3> QED BY <1>1, <1>2
  <2> HIDE DEF q, c
  <2> QED BY <2>1, <2>2
<1>4. /\ nd[p[k]].next = IF k = c THEN NULL ELSE p[k + 1]
      /\ nd[p[k]].prev = IF k = 1 THEN NULL ELSE p[k - 1]
  BY <1>1, <1>2
<1>5. \A n \in Node \ {p[k]} :
         /\ nd2[n].data = nd[n].data
         /\ nd2[n].next = IF k > 1 /\ n = p[k - 1] THEN nd[p[k]].next ELSE nd[n].next
         /\ nd2[n].prev = IF k < c /\ n = p[k + 1] THEN nd[p[k]].prev ELSE nd[n].prev
  <2> HIDE DEF q, c
  <2> QED BY <1>1, <1>4, ListAssumption DEF LinksOut
<1>6. /\ l2.head = IF k = 1 THEN nd[p[k]].next ELSE l.head
      /\ l2.tail = IF k = c THEN nd[p[k]].prev ELSE l.tail
  BY DEF LinksOut
<1> HIDE DEF q, c
<1>7. ASSUME NEW i \in 1 .. c - 1, NEW j \in 1 .. c - 1, q[i] = q[j] PROVE i = j
  <2> DEFINE x == IF i < k THEN i ELSE i + 1
             y == IF j < k THEN j ELSE j + 1
  <2>1. x \in 1 .. c /\ y \in 1 .. c /\ (x = y => i = j)
    BY ONLY <1>1, i \in 1 .. c - 1, j \in 1 .. c - 1
  <2>2. q[i] = p[x] /\ q[j] = p[y]
    BY ONLY <1>3, i \in 1 .. c - 1, j \in 1 .. c - 1
  <2> HIDE DEF x, y
  <2>3. \A a, b \in 1 .. c : p[a] = p[b] => a = b
    BY ONLY <1>2
  <2>4. p[x] = p[y]
    BY ONLY <1>7, <2>2
  <2>5. x = y
    BY ONLY <2>1, <2>3, <2>4, Zenon
  <2> QED BY ONLY <2>1, <2>5
<1>8. /\ l2.head = IF l2.count = 0 THEN NULL ELSE q[1]
      /\ l2.tail = IF l2.count = 0 THEN NULL ELSE q[l2.count]
  <2>1. CASE c = 1
    <3>1. k = 1 /\ k = c /\ l2.count = 0
      BY <1>1, <2>1
    <3> QED BY <1>4, <1>6, <3>1
  <2>2. CASE c > 1
    <3>1. l2.head = q[1]
      BY <1>1, <1>2, <1>3, <1>4, <1>6, <2>2
    <3>2. l2.tail = q[c - 1]
      BY <1>1, <1>2, <1>3, <1>4, <1>6, <2>2
    <3> QED BY <1>1, <2>2, <3>1, <3>2
  <2> QED BY <1>1, <2>1, <2>2
<1>9. ASSUME NEW i \in 1 .. c - 1
      PROVE  /\ nd2[q[i]].next = IF i = c - 1 THEN NULL ELSE q[i + 1]
             /\ nd2[q[i]].prev = IF i = 1 THEN NULL ELSE q[i - 1]
             /\ nd2[q[i]].data = IF i < k THEN nd[p[i]].data ELSE nd[p[i + 1]].data
  <2>1. CASE i < k
    <3>1. q[i] = p[i] /\ p[i] \in Node \ {p[k]} /\ i \in 1 .. c
      BY <1>1, <1>2, <1>3, <2>1
    <3>2. nd2[q[i]].next = IF i = c - 1 THEN NULL ELSE q[i + 1]
      <4>1. CASE i = k - 1
        BY <1>1, <1>3, <1>4, <1>5, <3>1, <4>1
      <4>2. CASE i < k - 1
        <5>1. p[i] # p[k - 1] /\ i # c /\ i # c - 1
          BY <1>1, <1>2, <3>1, <4>2
        <5>2. nd2[q[i]].next = nd[p[i]].next
          BY <1>5, <3>1, <5>1
        <5>3. q[i + 1] = p[i + 1]
          BY <1>1, <1>3, <4>2
        <5> QED BY <1>2, <3>1, <5>1, <5>2, <5>3
      <4> QED BY <1>1, <2>1, <4>1, <4>2
    <3>3. nd2[q[i]].prev = IF i = 1 THEN NULL ELSE q[i - 1]
      <4>1. k < c => p[i] # p[k + 1]
        BY <1>1, <1>2, <2>1, <3>1
      <4> QED BY <1>1, <1>2, <1>3, <1>5, <2>1, <3>1, <4>1
    <3> QED BY <1>5, <2>1, <3>1, <3>2, <3>3
  <2>2. CASE i >= k
    <3>1. q[i] = p[i + 1] /\ p[i + 1] \in Node \ {p[k]} /\ i + 1 \in 1 .. c
      BY <1>1, <1>2, <1>3, <2>2
    <3>2. nd2[q[i]].prev = IF i = 1 THEN NULL ELSE q[i - 1]
      <4>1. CASE i = k
        BY <1>1, <1>3, <1>4, <1>5, <3>1, <4>1
      <4>2. CASE i > k
        <5>1. p[i + 1] # p[k + 1] /\ i # 1
          BY <1>1, <1>2, <3>1, <4>2
        <5> QED BY <1>1, <1>2, <1>3, <1>5, <3>1, <4>2, <5>1
      <4> QED BY <1>1, <2>2, <4>1, <4>2
    <3>3. nd2[q[i]].next = IF i = c - 1 THEN NULL ELSE q[i + 1]
      <4>1. k > 1 => p[i + 1] # p[k - 1]
        BY <1>1, <1>2, <2>2, <3>1
      <4> QED BY <1>1, <1>2, <1>3, <1>5, <2>2, <3>1, <4>1
    <3> QED BY <1>1, <1>5, <2>2, <3>1, <3>2, <3>3
  <2> QED BY <1>1, <2>1, <2>2
<1>10. ASSUME NEW i \in 1 .. c - 1 PROVE nd2[q[i]].data \in Data
  <2>1. CASE i < k
    <3>1. nd2[q[i]].data = nd[p[i]].data /\ i \in 1 .. c
      BY <1>1, <1>9, <2>1
    <3> QED BY <1>2, <3>1
  <2>2. CASE i >= k
    <3>1. nd2[q[i]].data = nd[p[i + 1]].data /\ i + 1 \in 1 .. c
      BY <1>1, <1>9, <2>2
    <3> QED BY <1>2, <3>1
  <2> QED BY <1>1, <2>1, <2>2
<1>11. Chain(l2, nd2, q)
  BY <1>1, <1>3, <1>7, <1>8, <1>9, <1>10 DEF Chain
<1>12. On(q) = On(p) \ {p[k]}
  <2>1. On(q) = {q[i] : i \in 1 .. c - 1} /\ On(p) = {p[i] : i \in 1 .. c}
    BY <1>2, <1>3 DEF On
  <2>2. ASSUME NEW i \in 1 .. c, p[i] # p[k] PROVE p[i] \in On(q)
    <3>1. CASE i < k
      <4>1. q[i] = p[i] /\ i \in 1 .. c - 1
        BY <1>1, <1>3, <3>1
      <4> QED BY <2>1, <4>1
    <3>2. CASE i > k
      <4>1. i - 1 \in 1 .. c - 1 /\ q[i - 1] = p[i]
        BY <1>1, <1>3, <3>2
      <4> QED BY <2>1, <4>1
    <3> QED BY <1>1, <2>2, <3>1, <3>2
  <2>3. ASSUME NEW i \in 1 .. c - 1 PROVE q[i] \in On(p) \ {p[k]}
    <3>1. CASE i < k
      <4>1. q[i] = p[i] /\ i \in 1 .. c /\ p[i] # p[k]
        BY <1>1, <1>2, <1>3, <3>1
      <4> QED BY <2>1, <4>1
    <3>2. CASE i >= k
      <4>1. q[i] = p[i + 1] /\ i + 1 \in 1 .. c /\ p[i + 1] # p[k]
        BY <1>1, <1>2, <1>3, <3>2
      <4> QED BY <2>1, <4>1
    <3> QED BY <1>1, <3>1, <3>2
  <2> QED BY <2>1, <2>2, <2>3
<1>13. [i \in 1 .. l2.count |-> nd2[q[i]].data] = Del([i \in 1 .. c |-> nd[p[i]].data], c, k)
  <2> DEFINE s == [i \in 1 .. c |-> nd[p[i]].data]
  <2>1. ASSUME NEW i \in 1 .. c - 1
        PROVE nd2[q[i]].data = IF i < k THEN s[i] ELSE s[i + 1]
    BY <1>1, <1>9
  <2> HIDE DEF s
  <2>2. [i \in 1 .. l2.count |-> nd2[q[i]].data] = Del(s, c, k)
    BY <1>1, <2>1 DEF Del
  <2> QED BY <2>2 DEF s
<1> QED BY <1>11, <1>12, <1>13 DEF q, c

----------------------------------------------------------------------------
(* The operations on the nodes *)

\* A new node has its datum and no links.
LEMMA AllocFields ==
  ASSUME NEW nd \in [Node -> NodeT], NEW new \in Node, NEW ptr \in Data
  PROVE  /\ listnode_alloc(nd, new, ptr) \in [Node -> NodeT]
         /\ listnode_alloc(nd, new, ptr)[new] = [data |-> ptr, prev |-> NULL, next |-> NULL]
         /\ \A n \in Node \ {new} : listnode_alloc(nd, new, ptr)[n] = nd[n]
<1> DEFINE r == [data |-> ptr, prev |-> NULL, next |-> NULL]
<1>1. r \in NodeT
  BY DEF NodeT
<1>2. [NoNode EXCEPT !.data = ptr] = r
  BY DEF NoNode
<1>3. listnode_alloc(nd, new, ptr) = [nd EXCEPT ![new] = r]
  BY <1>2 DEF listnode_alloc
<1> HIDE DEF r
<1>4. listnode_alloc(nd, new, ptr)[new] = r
  BY <1>3
<1> QED BY <1>1, <1>3, <1>4 DEF r

\* list_append links the node in behind the last.
LEMMA AppendLinks ==
  ASSUME list \in ListT, node \in [Node -> NodeT], NEW p, Chain(list, node, p),
         NEW new \in Node, new \notin On(p), NEW ptr \in Data, AppendNode(new, ptr)
  PROVE  /\ list' \in ListT /\ node' \in [Node -> NodeT]
         /\ LinksIn(list, node, p, list.count, new, ptr, list', node')
<1> DEFINE c == list.count
           nd == listnode_alloc(node, new, ptr)
<1>1. c \in Nat /\ list.tail \in Node \cup {NULL} /\ list.head \in Node \cup {NULL}
  BY DEF ListT
<1>2. /\ nd \in [Node -> NodeT]
      /\ nd[new] = [data |-> ptr, prev |-> NULL, next |-> NULL]
      /\ \A n \in Node \ {new} : nd[n] = node[n]
  BY AllocFields
<1> HIDE DEF nd
<1>3. node' = chain(nd, list.tail, new)
  BY DEF AppendNode, nd
<1>4. /\ node' \in [Node -> NodeT]
      /\ \A n \in Node : /\ node'[n].next = IF n = list.tail THEN new ELSE nd[n].next
                         /\ node'[n].prev = IF n = new THEN list.tail ELSE nd[n].prev
                         /\ node'[n].data = nd[n].data
  <2>1. list.tail \in Node \cup {NULL} /\ new \in Node \cup {NULL}
    BY <1>1
  <2>2. Chained(nd, list.tail, new, node')
    BY <1>2, <1>3, <2>1, ChainFields
  <2> QED BY <2>2 DEF Chained
<1>5. /\ list.tail = IF c = 0 THEN NULL ELSE p[c]
      /\ list.head = IF c = 0 THEN NULL ELSE p[1]
      /\ list.tail # new
      /\ c # 0 => p[1] \in Node /\ p[c] \in Node
  <2>1. /\ list.tail = IF c = 0 THEN NULL ELSE p[c]
        /\ list.head = IF c = 0 THEN NULL ELSE p[1]
        /\ p \in [1 .. c -> Node]
    BY DEF Chain
  <2> HIDE DEF c
  <2>2. c # 0 => c \in 1 .. c /\ 1 \in 1 .. c
    BY <1>1
  <2>3. c # 0 => p[c] \in On(p) /\ p[c] \in Node /\ p[1] \in Node
    BY <2>1, <2>2 DEF On
  <2> QED BY <2>1, <2>3, ListAssumption
<1>6. /\ list' \in ListT
      /\ list'.count = c + 1 /\ list'.tail = new
      /\ list'.head = IF c = 0 THEN new ELSE list.head
  <2> DEFINE e == IF c = 0 THEN new ELSE list.head
  <2>1. list.head = NULL <=> c = 0
    BY <1>5, ListAssumption
  <2>2. list' = [list EXCEPT !.tail = new, !.count = c + 1, !.head = e]
    BY <2>1 DEF AppendNode
  <2>3. e \in Node \cup {NULL} /\ c + 1 \in Nat
    BY <1>1
  <2>4. list \in [head : Node \cup {NULL}, tail : Node \cup {NULL}, count : Nat]
    BY DEF ListT
  <2> HIDE DEF c, e
  <2>5. /\ list' \in [head : Node \cup {NULL}, tail : Node \cup {NULL}, count : Nat]
        /\ list'.count = c + 1 /\ list'.tail = new /\ list'.head = e
    BY <2>2, <2>3, <2>4
  <2> QED BY <2>5 DEF ListT, e
<1>7. LinksIn(list, node, p, c, new, ptr, list', node')
  <2>1. /\ node'[new].data = ptr
        /\ node'[new].prev = IF c = 0 THEN NULL ELSE p[c]
        /\ node'[new].next = NULL
    <3>1. new \in Node
      BY <1>1
    <3> HIDE DEF c
    <3> QED BY ONLY <1>2, <1>4, <1>5, <3>1
  <2>2. \A n \in Node \ {new} :
          /\ node'[n].data = node[n].data
          /\ node'[n].next = IF c > 0 /\ n = p[c] THEN new ELSE node[n].next
          /\ node'[n].prev = node[n].prev
    <3> HIDE DEF c
    <3> QED BY <1>1, <1>2, <1>4, <1>5, ListAssumption
  <2> HIDE DEF c
  <2>3. /\ list'.count = list.count + 1
        /\ list'.head = IF c = 0 THEN new ELSE list.head
        /\ list'.tail = IF c = list.count THEN new ELSE list.tail
    BY <1>6 DEF c
  <2>4. c = list.count /\ ~(c < list.count)
    BY <1>1 DEF c
  <2> QED BY <2>1, <2>2, <2>3, <2>4 DEF LinksIn
<1> QED BY <1>4, <1>6, <1>7

\* list_prepend links the node in before the first.
LEMMA PrependLinks ==
  ASSUME list \in ListT, node \in [Node -> NodeT], NEW p, Chain(list, node, p),
         NEW new \in Node, new \notin On(p), NEW ptr \in Data, PrependNode(new, ptr)
  PROVE  /\ list' \in ListT /\ node' \in [Node -> NodeT]
         /\ LinksIn(list, node, p, 0, new, ptr, list', node')
<1> DEFINE c == list.count
           nd == listnode_alloc(node, new, ptr)
<1>1. c \in Nat /\ list.tail \in Node \cup {NULL} /\ list.head \in Node \cup {NULL}
  BY DEF ListT
<1>2. /\ nd \in [Node -> NodeT]
      /\ nd[new] = [data |-> ptr, prev |-> NULL, next |-> NULL]
      /\ \A n \in Node \ {new} : nd[n] = node[n]
  BY AllocFields
<1> HIDE DEF nd
<1>3. node' = chain(nd, new, list.head)
  BY DEF PrependNode, nd
<1>4. /\ node' \in [Node -> NodeT]
      /\ \A n \in Node : /\ node'[n].next = IF n = new THEN list.head ELSE nd[n].next
                         /\ node'[n].prev = IF n = list.head THEN new ELSE nd[n].prev
                         /\ node'[n].data = nd[n].data
  <2>1. list.head \in Node \cup {NULL} /\ new \in Node \cup {NULL}
    BY <1>1
  <2>2. Chained(nd, new, list.head, node')
    BY <1>2, <1>3, <2>1, ChainFields
  <2> QED BY <2>2 DEF Chained
<1>5. /\ list.tail = IF c = 0 THEN NULL ELSE p[c]
      /\ list.head = IF c = 0 THEN NULL ELSE p[1]
      /\ list.head # new
      /\ c # 0 => p[1] \in Node /\ p[c] \in Node
  <2>1. /\ list.tail = IF c = 0 THEN NULL ELSE p[c]
        /\ list.head = IF c = 0 THEN NULL ELSE p[1]
        /\ p \in [1 .. c -> Node]
    BY DEF Chain
  <2> HIDE DEF c
  <2>2. c # 0 => c \in 1 .. c /\ 1 \in 1 .. c
    BY <1>1
  <2>3. c # 0 => p[1] \in On(p) /\ p[c] \in Node /\ p[1] \in Node
    BY <2>1, <2>2 DEF On
  <2> QED BY <2>1, <2>3, ListAssumption
<1>6. /\ list' \in ListT
      /\ list'.count = c + 1 /\ list'.head = new
      /\ list'.tail = IF c = 0 THEN new ELSE list.tail
  <2> DEFINE e == IF c = 0 THEN new ELSE list.tail
  <2>1. list.tail = NULL <=> c = 0
    BY <1>5, ListAssumption
  <2>2. list' = [list EXCEPT !.head = new, !.count = c + 1, !.tail = e]
    BY <2>1 DEF PrependNode
  <2>3. e \in Node \cup {NULL} /\ c + 1 \in Nat
    BY <1>1
  <2>4. list \in [head : Node \cup {NULL}, tail : Node \cup {NULL}, count : Nat]
    BY DEF ListT
  <2> HIDE DEF c, e
  <2>5. /\ list' \in [head : Node \cup {NULL}, tail : Node \cup {NULL}, count : Nat]
        /\ list'.count = c + 1 /\ list'.head = new /\ list'.tail = e
    BY <2>2, <2>3, <2>4
  <2> QED BY <2>5 DEF ListT, e
<1>7. LinksIn(list, node, p, 0, new, ptr, list', node')
  <2>1. /\ node'[new].data = ptr
        /\ node'[new].prev = NULL
        /\ node'[new].next = IF c = 0 THEN NULL ELSE p[1]
    <3>1. new \in Node
      BY <1>1
    <3> HIDE DEF c
    <3> QED BY ONLY <1>2, <1>4, <1>5, <3>1
  <2>2. \A n \in Node \ {new} :
          /\ node'[n].data = node[n].data
          /\ node'[n].next = node[n].next
          /\ node'[n].prev = IF 0 < c /\ n = p[1] THEN new ELSE node[n].prev
    <3> HIDE DEF c
    <3>1. 0 < c <=> c # 0
      BY ONLY <1>1
    <3>2. NULL \notin Node
      BY ListAssumption
    <3>3. \A n \in Node : n = list.head <=> 0 < c /\ n = p[1]
      BY ONLY <1>5, <3>1, <3>2
    <3> QED BY ONLY <1>2, <1>4, <3>3
  <2> HIDE DEF c
  <2>3. /\ list'.count = list.count + 1
        /\ list'.head = new
        /\ list'.tail = IF 0 = list.count THEN new ELSE list.tail
    BY <1>6 DEF c
  <2>4. c = list.count /\ p[0 + 1] = p[1]
    BY DEF c
  <2> QED BY ONLY <2>1, <2>2, <2>3, <2>4 DEF LinksIn
<1> QED BY <1>4, <1>6, <1>7

\* list_insert links the node in before a node that is not the first.
LEMMA InsertLinks ==
  ASSUME list \in ListT, node \in [Node -> NodeT], NEW p, Chain(list, node, p),
         NEW new \in Node, new \notin On(p), NEW ptr \in Data,
         NEW k \in 1 .. list.count - 1, InsertNode(new, ptr, p[k + 1])
  PROVE  /\ list' \in ListT /\ node' \in [Node -> NodeT]
         /\ LinksIn(list, node, p, k, new, ptr, list', node')
<1> DEFINE c == list.count
           nd == listnode_alloc(node, new, ptr)
           nd1 == chain(nd, p[k], new)
<1>1. c \in Nat /\ k \in 1 .. c - 1 /\ k \in 1 .. c /\ k + 1 \in 1 .. c /\ k + 1 # 1 /\ k # k + 1
      /\ (k + 1) - 1 = k /\ k > 0 /\ k < c /\ k # c
  BY DEF ListT
<1>2. /\ p[k] \in Node /\ p[k + 1] \in Node /\ p[k] # p[k + 1]
      /\ p[k] # new /\ p[k + 1] # new
      /\ node[p[k + 1]].prev = p[k]
  <2>1. /\ p \in [1 .. c -> Node]
        /\ \A i, j \in 1 .. c : p[i] = p[j] => i = j
        /\ \A i \in 1 .. c : node[p[i]].prev = IF i = 1 THEN NULL ELSE p[i - 1]
    BY DEF Chain
  <2> HIDE DEF c
  <2>2. node[p[k + 1]].prev = p[k]
    BY <1>1, <2>1
  <2>3. p[k] # new /\ p[k + 1] # new
    BY <1>1, <2>1 DEF On
  <2>4. p[k] \in Node /\ p[k + 1] \in Node
    BY <1>1, <2>1
  <2>5. p[k] # p[k + 1]
    BY <1>1, <2>1
  <2> QED BY <2>2, <2>3, <2>4, <2>5
<1>3. /\ nd \in [Node -> NodeT]
      /\ nd[new] = [data |-> ptr, prev |-> NULL, next |-> NULL]
      /\ \A n \in Node \ {new} : nd[n] = node[n]
  BY AllocFields
<1>4. node' = chain(chain(nd, nd[p[k + 1]].prev, new), new, p[k + 1])
  BY DEF InsertNode
<1> HIDE DEF nd, c
<1>5. nd[p[k + 1]].prev = p[k]
  BY <1>2, <1>3
<1>6. /\ nd1 \in [Node -> NodeT]
      /\ \A n \in Node : /\ nd1[n].next = IF n = p[k] THEN new ELSE nd[n].next
                         /\ nd1[n].prev = IF n = new THEN p[k] ELSE nd[n].prev
                         /\ nd1[n].data = nd[n].data
  <2>1. new \in Node \cup {NULL} /\ p[k] \in Node \cup {NULL}
    BY <1>2
  <2>2. Chained(nd, p[k], new, nd1)
    BY <1>3, <2>1, ChainFields
  <2> HIDE DEF nd1
  <2> QED BY <2>2 DEF Chained
<1>7. node' = chain(nd1, new, p[k + 1])
  BY <1>4, <1>5
<1> HIDE DEF nd1
<1>8. /\ node' \in [Node -> NodeT]
      /\ \A n \in Node : /\ node'[n].next = IF n = new THEN p[k + 1] ELSE nd1[n].next
                         /\ node'[n].prev = IF n = p[k + 1] THEN new ELSE nd1[n].prev
                         /\ node'[n].data = nd1[n].data
  <2>1. new \in Node \cup {NULL} /\ p[k + 1] \in Node \cup {NULL}
    BY <1>2
  <2>2. Chained(nd1, new, p[k + 1], node')
    BY <1>6, <1>7, <2>1, ChainFields
  <2> QED BY <2>2 DEF Chained
<1>9. list' \in ListT /\ list'.count = c + 1 /\ list'.head = list.head /\ list'.tail = list.tail
  <2>1. list' = [list EXCEPT !.count = c + 1]
    BY DEF InsertNode, c
  <2> QED BY <1>1, <2>1 DEF ListT
<1>10. /\ node'[new].data = ptr
       /\ node'[new].prev = p[k]
       /\ node'[new].next = p[k + 1]
  BY ONLY <1>2, <1>3, <1>6, <1>8
<1>11. \A n \in Node \ {new} :
          /\ node'[n].data = node[n].data
          /\ node'[n].next = IF n = p[k] THEN new ELSE node[n].next
          /\ node'[n].prev = IF n = p[k + 1] THEN new ELSE node[n].prev
  BY ONLY <1>2, <1>3, <1>6, <1>8
<1>12. c = list.count
  BY DEF c
<1>13. LinksIn(list, node, p, k, new, ptr, list', node')
  BY ONLY <1>1, <1>9, <1>10, <1>11, <1>12 DEF LinksIn
<1> QED BY <1>8, <1>9, <1>13

\* list_unchain takes its node out of the chain.
LEMMA UnchainLinks ==
  ASSUME list \in ListT, node \in [Node -> NodeT], NEW p, Chain(list, node, p),
         NEW k \in 1 .. list.count, list_unchain(p[k])
  PROVE  /\ list' \in ListT /\ node' \in [Node -> NodeT]
         /\ LinksOut(list, node, p, k, list', node')
<1> DEFINE c == list.count
           prev == node[p[k]].prev
           next == node[p[k]].next
           nd == chain(node, prev, next)
<1>1. c \in Nat /\ k \in 1 .. c /\ c - 1 \in Nat
  BY DEF ListT
<1>2. /\ p[k] \in Node
      /\ prev \in Node \cup {NULL} /\ next \in Node \cup {NULL}
      /\ prev = IF k = 1 THEN NULL ELSE p[k - 1]
      /\ next = IF k = c THEN NULL ELSE p[k + 1]
  <2>1. /\ p \in [1 .. c -> Node]
        /\ \A i \in 1 .. c : /\ node[p[i]].next = IF i = c THEN NULL ELSE p[i + 1]
                             /\ node[p[i]].prev = IF i = 1 THEN NULL ELSE p[i - 1]
    BY DEF Chain
  <2>2. p[k] \in Node
    BY <1>1, <2>1
  <2>3. node[p[k]] \in NodeT
    BY <2>2
  <2>4. prev \in Node \cup {NULL} /\ next \in Node \cup {NULL}
    BY <2>3 DEF NodeT
  <2> QED BY <1>1, <2>1, <2>2, <2>4
<1>3. /\ node' = [nd EXCEPT ![p[k]] = NoNode]
      /\ list' = [list EXCEPT !.head = IF prev = NULL THEN next ELSE list.head,
                              !.tail = IF next = NULL THEN prev ELSE list.tail,
                              !.count = c - 1]
  BY DEF list_unchain, listnode_free
<1>4. NoNode \in NodeT
  BY DEF NoNode, NodeT
<1>5. /\ nd \in [Node -> NodeT]
      /\ \A n \in Node : /\ nd[n].next = IF n = prev THEN next ELSE node[n].next
                         /\ nd[n].prev = IF n = next THEN prev ELSE node[n].prev
                         /\ nd[n].data = node[n].data
  <2> HIDE DEF prev, next
  <2>1. Chained(node, prev, next, nd)
    BY <1>2, ChainFields
  <2> HIDE DEF nd
  <2> QED BY <2>1 DEF Chained
<1> HIDE DEF nd
<1>6. p \in [1 .. c -> Node]
  BY DEF Chain
<1> HIDE DEF c, prev, next
<1>7. prev = NULL <=> k = 1
  <2>1. k # 1 => p[k - 1] \in Node
    BY ONLY <1>1, <1>6
  <2> QED BY ONLY <1>2, <2>1, ListAssumption
<1>8. next = NULL <=> k = c
  <2>1. k # c => p[k + 1] \in Node
    BY ONLY <1>1, <1>6
  <2> QED BY ONLY <1>2, <2>1, ListAssumption
<1>9. node' \in [Node -> NodeT]
  BY <1>2, <1>3, <1>4, <1>5
<1>10. \A n \in Node \ {p[k]} : /\ node'[n].data = node[n].data
                                /\ node'[n].next = IF n = prev THEN next ELSE node[n].next
                                /\ node'[n].prev = IF n = next THEN prev ELSE node[n].prev
  BY <1>3, <1>5
<1>11. /\ list' \in ListT /\ list'.count = c - 1
       /\ list'.head = IF k = 1 THEN next ELSE list.head
       /\ list'.tail = IF k = c THEN prev ELSE list.tail
  BY <1>1, <1>2, <1>3, <1>7, <1>8 DEF ListT
<1>12. LinksOut(list, node, p, k, list', node')
  BY <1>10, <1>11 DEF LinksOut, c, prev, next
<1> QED BY <1>9, <1>11, <1>12

----------------------------------------------------------------------------
(* What the chain says of the list *)

\* A chain has no more nodes than there are, and its nodes are as many as the count.
LEMMA CountOfChain ==
  ASSUME NEW l \in ListT, NEW nd, NEW p, Chain(l, nd, p)
  PROVE  /\ l.count \in Nat /\ Cardinality(Node) \in Nat
         /\ l.count <= Cardinality(Node)
         /\ Cardinality(On(p)) = l.count
         /\ On(p) \subseteq Node
<1> DEFINE c == l.count
<1>1. c \in Nat
  BY DEF ListT
<1>2. p \in [1 .. c -> Node] /\ \A i, j \in 1 .. c : p[i] = p[j] => i = j
  BY DEF Chain
<1>3. On(p) = {p[i] : i \in 1 .. c} /\ On(p) \subseteq Node
  BY <1>2 DEF On
<1> HIDE DEF c
<1>4. p \in Bijection(1 .. c, On(p))
  BY <1>2, <1>3 DEF Bijection, Injection, Surjection, IsInjective
<1>5. ExistsBijection(1 .. c, On(p))
  BY <1>4 DEF ExistsBijection
<1>6. Cardinality(On(p)) = c
  BY <1>1, <1>5, FS_CountingElements
<1>7. IsFiniteSet(Node)
  BY ListAssumption
<1>8. Cardinality(On(p)) <= Cardinality(Node)
  BY <1>3, <1>7, FS_Subset
<1>9. Cardinality(Node) \in Nat
  BY <1>7, FS_CardinalityType
<1> QED BY <1>1, <1>3, <1>6, <1>8, <1>9 DEF c

\* A list_t is not NULL.
LEMMA ListNotNull ==
  ASSUME NEW l \in ListT, NEW nd, NEW p, Chain(l, nd, p)
  PROVE  l # NULL
<1>1. l.count \in 0 .. Cardinality(Node)
  BY CountOfChain
<1>2. l \in [head : Node \cup {NULL}, tail : Node \cup {NULL}, count : {l.count}]
  BY DEF ListT
<1> QED BY <1>1, <1>2, NullAssumption

\* The sequence that the chain holds
Held(l, nd, p) == [i \in 1 .. l.count |-> nd[p[i]].data]

LEMMA HeldType ==
  ASSUME NEW l \in ListT, NEW nd, NEW p, Chain(l, nd, p)
  PROVE  /\ Held(l, nd, p) \in [1 .. l.count -> Data]
         /\ Held(l, nd, p) \in Seq(Data)
         /\ Len(Held(l, nd, p)) = l.count
         /\ Held(l, nd, p) # NULL
<1> DEFINE c == l.count
           s == Held(l, nd, p)
<1>1. c \in Nat /\ c \in 0 .. Cardinality(Node)
  BY CountOfChain
<1>2. s \in [1 .. c -> Data]
  BY DEF Chain, Held
<1> HIDE DEF c, s
<1>3. s \in Seq(Data) /\ Len(s) = c
  BY <1>1, <1>2
<1>4. s # NULL
  BY <1>1, <1>2, NullAssumption
<1> QED BY <1>2, <1>3, <1>4 DEF c, s

\* Content is that sequence.
ContentIsHeld ==
  \A p : list \in ListT /\ Chain(list, node, p) => Content = Held(list, node, p)

LEMMA ContentFacts == ContentIsHeld
<1> SUFFICES ASSUME NEW p, list \in ListT, Chain(list, node, p)
             PROVE  Content = Held(list, node, p)
  BY DEF ContentIsHeld
<1>1. list # NULL /\ list.count \in Nat
  BY ListNotNull, CountOfChain
<1>2. Content = [i \in 1 .. list.count |-> Datum(Nth(i - 1))]
  BY <1>1 DEF Content
<1>3. ASSUME NEW i \in 1 .. list.count PROVE Datum(Nth(i - 1)) = node[p[i]].data
  <2>1. i - 1 \in Nat /\ i - 1 < list.count /\ (i - 1) + 1 = i
    BY <1>1
  <2>2. Nth(i - 1) = p[i]
    BY <2>1, NthOnChain
  <2>3. p[i] # NULL
    BY ListAssumption DEF Chain
  <2> QED BY <2>2, <2>3 DEF Datum
<1> QED BY <1>2, <1>3 DEF Held

\* The nodes that a walk from the head reaches are those of the chain.
LEMMA ReachableIsOn ==
  ASSUME NEW p, list \in ListT, Chain(list, node, p)
  PROVE  Reachable = On(p)
<1> DEFINE c == list.count
<1>1. list # NULL /\ c \in Nat /\ Cardinality(Node) \in Nat /\ c <= Cardinality(Node)
  BY ListNotNull, CountOfChain
<1>2. Reachable = {Nth(i) : i \in 0 .. Cardinality(Node) - 1} \ {NULL}
  BY <1>1 DEF Reachable, Steps
<1>3. p \in [1 .. c -> Node] /\ On(p) = {p[i] : i \in 1 .. c}
  BY DEF Chain, On
<1>4. \A i \in Nat : Nth(i) = IF i < c THEN p[i + 1] ELSE NULL
  BY NthOnChain
<1> HIDE DEF c
<1>5. ASSUME NEW i \in 0 .. Cardinality(Node) - 1, Nth(i) # NULL PROVE Nth(i) \in On(p)
  <2>1. i \in Nat /\ i < c /\ i + 1 \in 1 .. c /\ Nth(i) = p[i + 1]
    BY <1>1, <1>4, <1>5
  <2> QED BY <1>3, <2>1
<1>6. ASSUME NEW i \in 1 .. c PROVE p[i] \in Reachable
  <2>1. i - 1 \in Nat /\ i - 1 < c /\ i - 1 \in 0 .. Cardinality(Node) - 1 /\ (i - 1) + 1 = i
    BY <1>1
  <2>2. Nth(i - 1) = p[i]
    BY <1>4, <2>1
  <2>3. p[i] # NULL
    BY <1>3, ListAssumption
  <2> QED BY <1>2, <2>1, <2>2, <2>3
<1> QED BY <1>2, <1>3, <1>5, <1>6

\* FirstWith is the first node of the chain with the datum.
LEMMA FirstOnChain ==
  ASSUME NEW p, list \in ListT, Chain(list, node, p), NEW ptr \in Data
  PROVE  \/ /\ FirstWith(ptr) = NULL
            /\ \A i \in 1 .. list.count : node[p[i]].data # ptr
         \/ \E k \in 1 .. list.count : /\ FirstWith(ptr) = p[k]
                                       /\ node[p[k]].data = ptr
                                       /\ \A j \in 1 .. k - 1 : node[p[j]].data # ptr
<1> DEFINE c == list.count
           hits == {i \in Steps : Nth(i) # NULL /\ node[Nth(i)].data = ptr}
           least == CHOOSE i \in hits : \A j \in hits : i <= j
<1>1. c \in Nat /\ Cardinality(Node) \in Nat /\ c <= Cardinality(Node)
  BY CountOfChain
<1>2. \A i \in Nat : Nth(i) = IF i < c THEN p[i + 1] ELSE NULL
  BY NthOnChain
<1>3. \A i \in 1 .. c : p[i] \in Node /\ p[i] # NULL
  BY ListAssumption DEF Chain
<1>4. FirstWith(ptr) = IF hits = {} THEN NULL ELSE Nth(least)
  BY DEF FirstWith
<1>5. hits \subseteq Nat
  BY <1>1 DEF Steps
<1>6. ASSUME NEW i \in 1 .. c PROVE i - 1 \in hits <=> node[p[i]].data = ptr
  <2> HIDE DEF c
  <2>1. i - 1 \in Nat /\ i - 1 < c /\ i - 1 \in 0 .. Cardinality(Node) - 1 /\ (i - 1) + 1 = i
    BY <1>1
  <2>2. Nth(i - 1) = p[i] /\ p[i] # NULL
    BY <1>2, <1>3, <2>1
  <2> QED BY <2>1, <2>2 DEF Steps
<1>7. ASSUME NEW i \in hits PROVE i + 1 \in 1 .. c /\ Nth(i) = p[i + 1]
  <2> HIDE DEF c
  <2>1. i \in Nat /\ Nth(i) # NULL
    BY <1>5
  <2> QED BY <1>1, <1>2, <2>1
<1> HIDE DEF c, hits
<1>8. CASE hits = {}
  <2>1. \A i \in 1 .. c : node[p[i]].data # ptr
    BY <1>6, <1>8
  <2> QED BY <1>4, <1>8, <2>1 DEF c
<1>9. CASE hits # {}
  <2>1. \E i \in hits : \A j \in hits : i <= j
    BY <1>5, <1>9, LeastNatural
  <2>2. least \in hits /\ \A j \in hits : least <= j
    BY <2>1
  <2> HIDE DEF least
  <2>3. least \in Nat /\ least + 1 \in 1 .. c /\ FirstWith(ptr) = p[least + 1] /\ (least + 1) - 1 = least
    BY <1>4, <1>5, <1>7, <1>9, <2>2
  <2>4. node[p[least + 1]].data = ptr
    BY <1>6, <2>2, <2>3
  <2>5. ASSUME NEW j \in 1 .. (least + 1) - 1 PROVE node[p[j]].data # ptr
    <3>1. j \in 1 .. c /\ ~(least <= j - 1)
      BY <1>1, <2>3
    <3> QED BY <1>6, <2>2, <3>1
  <2> QED BY <2>3, <2>4, <2>5 DEF c
<1> QED BY <1>8, <1>9

----------------------------------------------------------------------------
(* The operations on sequences *)

LEMMA SeqAppend ==
  ASSUME NEW s \in Seq(Data), NEW d \in Data
  PROVE  Append(s, d) = Ins(s, Len(s), Len(s), d)
<1> DEFINE n == Len(s)
           t == Append(s, d)
<1>1. n \in Nat
  OBVIOUS
<1>2. t \in Seq(Data) /\ Len(t) = n + 1
  OBVIOUS
<1>3. \A i \in 1 .. n + 1 : t[i] = IF i <= n THEN s[i] ELSE d
  OBVIOUS
<1> HIDE DEF n, t
<1>4. \A i \in 1 .. n + 1 : Ins(s, n, n, d)[i] = IF i <= n THEN s[i] ELSE d
  BY <1>1 DEF Ins
<1>5. Ins(s, n, n, d) = [i \in 1 .. n + 1 |-> Ins(s, n, n, d)[i]]
  BY DEF Ins
<1>6. t = [i \in 1 .. n + 1 |-> t[i]]
  BY <1>1, <1>2
<1>7. t = Ins(s, n, n, d)
  BY <1>3, <1>4, <1>5, <1>6
<1> QED BY <1>7 DEF n, t

\* A datum put behind the k-th element; k = 0 is the front.
LEMMA SeqInsert ==
  ASSUME NEW s \in Seq(Data), NEW d \in Data, NEW k \in 0 .. Len(s)
  PROVE  SubSeq(s, 1, k) \o <<d>> \o SubSeq(s, k + 1, Len(s)) = Ins(s, Len(s), k, d)
<1> DEFINE n == Len(s)
           a == SubSeq(s, 1, k)
           b == SubSeq(s, k + 1, n)
           ad == a \o <<d>>
           t == ad \o b
<1>1. n \in Nat /\ k \in 0 .. n
  OBVIOUS
<1>2. a \in Seq(Data) /\ Len(a) = k /\ \A i \in 1 .. k : a[i] = s[i]
  OBVIOUS
<1>3. b \in Seq(Data) /\ Len(b) = n - k /\ \A i \in 1 .. n - k : b[i] = s[k + i]
  OBVIOUS
<1> HIDE DEF n, a, b
<1>4. ad \in Seq(Data) /\ Len(ad) = k + 1
  BY <1>1, <1>2
<1>5. \A i \in 1 .. k : ad[i] = s[i]
  BY <1>1, <1>2
<1>6. ad[k + 1] = d
  BY <1>1, <1>2
<1> HIDE DEF ad
<1>7. t \in Seq(Data) /\ Len(t) = n + 1
  <2>1. ad \in Seq(Data) /\ b \in Seq(Data)
    BY <1>3, <1>4
  <2>2. t \in Seq(Data)
    BY <2>1
  <2>3. Len(t) = Len(ad) + Len(b)
    BY <2>1
  <2> HIDE DEF t
  <2> QED BY <1>1, <1>3, <1>4, <2>2, <2>3
<1>8. \A i \in 1 .. k + 1 : t[i] = ad[i]
  BY <1>1, <1>3, <1>4
<1>9. ASSUME NEW i \in k + 2 .. n + 1 PROVE t[i] = s[i - 1]
  <2>1. t[i] = b[i - (k + 1)]
    <3>1. i \in Len(ad) + 1 .. Len(ad) + Len(b) /\ Len(ad) = k + 1
      BY ONLY <1>1, <1>3, <1>4, i \in k + 2 .. n + 1
    <3>2. \A x, y \in Seq(Data) : \A j \in Len(x) + 1 .. Len(x) + Len(y) : (x \o y)[j] = y[j - Len(x)]
      BY ONLY TRUE
    <3>3. (ad \o b)[i] = b[i - Len(ad)]
      BY ONLY <1>3, <1>4, <3>1, <3>2, Zenon
    <3> QED BY ONLY <3>1, <3>3
  <2>2. i - (k + 1) \in 1 .. n - k /\ k + (i - (k + 1)) = i - 1
    BY <1>1
  <2> QED BY <1>3, <2>1, <2>2
<1> HIDE DEF t
<1>10. ASSUME NEW i \in 1 .. n + 1 PROVE t[i] = Ins(s, n, k, d)[i]
  <2>1. Ins(s, n, k, d)[i] = IF i <= k THEN s[i] ELSE IF i = k + 1 THEN d ELSE s[i - 1]
    BY DEF Ins
  <2> QED BY <1>1, <1>5, <1>6, <1>8, <1>9, <2>1
<1>11. Ins(s, n, k, d) = [i \in 1 .. n + 1 |-> Ins(s, n, k, d)[i]]
  BY DEF Ins
<1>12. t = [i \in 1 .. n + 1 |-> t[i]]
  BY <1>1, <1>7
<1>13. t = Ins(s, n, k, d)
  BY <1>10, <1>11, <1>12
<1> QED BY <1>13 DEF t, ad, a, b, n

LEMMA SeqPrepend ==
  ASSUME NEW s \in Seq(Data), NEW d \in Data
  PROVE  <<d>> \o s = Ins(s, Len(s), 0, d)
<1> DEFINE n == Len(s)
           t == <<d>> \o s
<1>1. n \in Nat
  OBVIOUS
<1>2. t \in Seq(Data) /\ Len(t) = n + 1
  OBVIOUS
<1>3. \A i \in 1 .. n + 1 : t[i] = IF i = 1 THEN d ELSE s[i - 1]
  OBVIOUS
<1> HIDE DEF n, t
<1>4. \A i \in 1 .. n + 1 : Ins(s, n, 0, d)[i] = IF i = 1 THEN d ELSE s[i - 1]
  BY <1>1 DEF Ins
<1>5. Ins(s, n, 0, d) = [i \in 1 .. n + 1 |-> Ins(s, n, 0, d)[i]]
  BY DEF Ins
<1>6. t = [i \in 1 .. n + 1 |-> t[i]]
  BY <1>1, <1>2
<1>7. t = Ins(s, n, 0, d)
  BY <1>3, <1>4, <1>5, <1>6
<1> QED BY <1>7 DEF n, t

LEMMA SeqRemove ==
  ASSUME NEW s \in Seq(Data), NEW k \in 1 .. Len(s)
  PROVE  SubSeq(s, 1, k - 1) \o SubSeq(s, k + 1, Len(s)) = Del(s, Len(s), k)
<1> DEFINE n == Len(s)
           a == SubSeq(s, 1, k - 1)
           b == SubSeq(s, k + 1, n)
           t == a \o b
<1>1. n \in Nat /\ k \in 1 .. n
  OBVIOUS
<1>2. a \in Seq(Data) /\ Len(a) = k - 1 /\ \A i \in 1 .. k - 1 : a[i] = s[i]
  OBVIOUS
<1>3. b \in Seq(Data) /\ Len(b) = n - k /\ \A i \in 1 .. n - k : b[i] = s[k + i]
  OBVIOUS
<1> HIDE DEF n, a, b
<1>4. t \in Seq(Data) /\ Len(t) = n - 1
  <2>1. a \in Seq(Data) /\ b \in Seq(Data)
    BY <1>2, <1>3
  <2>2. t \in Seq(Data)
    BY <2>1
  <2>3. Len(t) = Len(a) + Len(b)
    BY <2>1
  <2> HIDE DEF t
  <2> QED BY <1>1, <1>2, <1>3, <2>2, <2>3
<1>5. \A i \in 1 .. k - 1 : t[i] = s[i]
  BY <1>1, <1>2, <1>3
<1>6. ASSUME NEW i \in k .. n - 1 PROVE t[i] = s[i + 1]
  <2>1. t[i] = b[i - (k - 1)]
    BY <1>1, <1>2, <1>3
  <2>2. i - (k - 1) \in 1 .. n - k /\ k + (i - (k - 1)) = i + 1
    BY <1>1
  <2> QED BY <1>3, <2>1, <2>2
<1> HIDE DEF t
<1>7. ASSUME NEW i \in 1 .. n - 1 PROVE t[i] = Del(s, n, k)[i]
  <2>1. Del(s, n, k)[i] = IF i < k THEN s[i] ELSE s[i + 1]
    BY DEF Del
  <2> QED BY <1>1, <1>5, <1>6, <2>1
<1>8. Del(s, n, k) = [i \in 1 .. n - 1 |-> Del(s, n, k)[i]]
  BY DEF Del
<1>9. t = [i \in 1 .. n - 1 |-> t[i]]
  BY <1>1, <1>4
<1>10. t = Del(s, n, k)
  BY <1>7, <1>8, <1>9
<1> QED BY <1>10 DEF t, a, b, n

----------------------------------------------------------------------------
(* The steps *)

\* p is the chain of the list, and accounts for the allocated nodes.
Good(p) ==
  /\ Chain(list, node, p)
  /\ live = On(p) \cup lost
  /\ On(p) \cap lost = {}

LEMMA ContentPrimed == ContentIsHeld'
  BY ContentFacts, PTL

\* A step that links in a node behind the k-th puts its datum there.
LEMMA GrowStep ==
  ASSUME ListInv, list \in ListT, NEW p, Good(p), NEW new \in Node \ live, NEW ptr \in Data,
         NEW k \in 0 .. list.count,
         list' \in ListT, node' \in [Node -> NodeT],
         LinksIn(list, node, p, k, new, ptr, list', node'),
         live' = live \cup {new}, lost' = lost
  PROVE  /\ ListInv'
         /\ Content' = Ins(Content, list.count, k, ptr)
         /\ Content' # NULL /\ Content # NULL
         /\ Content \in Seq(Data) /\ Len(Content) = list.count
<1> DEFINE q == Ins(p, list.count, k, new)
<1>1. Chain(list, node, p) /\ new \notin On(p) /\ node \in [Node -> NodeT] /\ new \in Node
  BY DEF Good, ListInv
<1>2. /\ Chain(list', node', q)
      /\ On(q) = On(p) \cup {new}
      /\ Held(list', node', q) = Ins(Held(list, node, p), list.count, k, ptr)
  <2>1. LinkedIn(list, node, p, k, new, ptr, list', node')
    BY <1>1, LinkIn
  <2> QED BY <2>1 DEF LinkedIn, Held
<1> HIDE DEF q
<1>3. live' = On(q) \cup lost' /\ On(q) \cap lost' = {} /\ live' \subseteq Node
  BY <1>2 DEF Good, ListInv
<1>4. list' # NULL
  BY <1>2, ListNotNull
<1>5. ListInv'
  BY <1>2, <1>3, <1>4 DEF ListInv
<1>6. Content' = Held(list', node', q)
  BY <1>2, ContentPrimed DEF ContentIsHeld
<1>7. Content = Held(list, node, p)
  BY <1>1, ContentFacts DEF ContentIsHeld
<1>8. Content' # NULL /\ Content # NULL /\ Content \in Seq(Data) /\ Len(Content) = list.count
  BY <1>1, <1>2, <1>6, <1>7, HeldType
<1> QED BY <1>2, <1>5, <1>6, <1>7, <1>8

\* A step that takes out the k-th node takes out the k-th datum.
LEMMA ShrinkStep ==
  ASSUME ListInv, list \in ListT, NEW p, Good(p), NEW k \in 1 .. list.count,
         list_unchain(p[k])
  PROVE  /\ ListInv'
         /\ Content' = Del(Content, list.count, k)
         /\ node[p[k]].data = Content[k]
         /\ Content' # NULL /\ Content # NULL
         /\ Content \in Seq(Data) /\ Len(Content) = list.count
<1> DEFINE q == Del(p, list.count, k)
<1>1. Chain(list, node, p) /\ node \in [Node -> NodeT]
  BY DEF Good, ListInv
<1>2. /\ list' \in ListT /\ node' \in [Node -> NodeT]
      /\ LinksOut(list, node, p, k, list', node')
  BY <1>1, UnchainLinks
<1>3. /\ Chain(list', node', q)
      /\ On(q) = On(p) \ {p[k]}
      /\ Held(list', node', q) = Del(Held(list, node, p), list.count, k)
  <2>0. list \in ListT /\ k \in 1 .. list.count
    OBVIOUS
  <2>1. \A l2, nd2 : LinksOut(list, node, p, k, l2, nd2) =>
          /\ Chain(l2, nd2, q)
          /\ On(q) = On(p) \ {p[k]}
          /\ [i \in 1 .. l2.count |-> nd2[q[i]].data]
               = Del([i \in 1 .. list.count |-> node[p[i]].data], list.count, k)
    BY ONLY <1>1, <2>0, LinkOut
  <2> HIDE DEF q
  <2> QED BY ONLY <1>2, <2>1 DEF Held
<1>4. p[k] \in On(p)
  BY <1>1 DEF Chain, On
<1> HIDE DEF q
<1>5. live' = live \ {p[k]} /\ lost' = lost
  BY DEF list_unchain
<1>6. live' = On(q) \cup lost' /\ On(q) \cap lost' = {} /\ live' \subseteq Node
  BY <1>3, <1>4, <1>5 DEF Good, ListInv
<1>7. list' # NULL
  BY <1>2, <1>3, ListNotNull
<1>8. ListInv'
  BY <1>2, <1>3, <1>6, <1>7 DEF ListInv
<1>9. Content' = Held(list', node', q)
  BY <1>2, <1>3, ContentPrimed DEF ContentIsHeld
<1>10. Content = Held(list, node, p)
  BY <1>1, ContentFacts DEF ContentIsHeld
<1>11. Content' # NULL /\ Content # NULL /\ Content \in Seq(Data) /\ Len(Content) = list.count
  BY <1>1, <1>2, <1>3, <1>9, <1>10, HeldType
<1>12. node[p[k]].data = Content[k]
  BY <1>10 DEF Held
<1> QED BY <1>3, <1>8, <1>9, <1>10, <1>11, <1>12

\* A step that leaves the nodes alone leaves the sequence alone.
LEMMA SameStep ==
  ASSUME ListInv, list \in ListT, NEW p, Good(p), Unchanged
  PROVE  /\ ListInv'
         /\ Content' = Content
         /\ Content = Held(list, node, p)
         /\ Content # NULL
         /\ Content \in Seq(Data) /\ Len(Content) = list.count
<1>1. Chain(list, node, p)
  BY DEF Good
<1>2. list' = list /\ node' = node /\ live' = live /\ lost' = lost
  BY DEF Unchanged
<1>3. ListInv'
  BY <1>2 DEF ListInv
<1>4. Content' = Held(list', node', p)
  BY <1>1, <1>2, ContentPrimed DEF ContentIsHeld
<1>5. Content = Held(list, node, p)
  BY <1>1, ContentFacts DEF ContentIsHeld
<1> QED BY <1>1, <1>2, <1>3, <1>4, <1>5, HeldType

----------------------------------------------------------------------------
(* The invariant, and the refinement *)

\* A step of the sequence
AbstractNext == Abstract!Create \/ Abstract!Change \/ Abstract!Ask

\* What every step does
Correct == ListInv' /\ [AbstractNext]_<<Content, last>>

\* The list has a chain.
LEMMA SomeChain ==
  ASSUME ListInv, list # NULL
  PROVE  list \in ListT /\ list.count \in Nat /\ \E p : Good(p)
BY DEF ListInv, Good, ListT

LEMMA InitInv == Init => ListInv /\ Abstract!Init
<1> SUFFICES ASSUME Init PROVE ListInv /\ Abstract!Init
  OBVIOUS
<1>1. NoNode \in NodeT
  BY DEF NoNode, NodeT
<1>2. ListInv
  BY <1>1 DEF Init, ListInv
<1>3. Content = NULL
  BY DEF Init, Content
<1> QED BY <1>2, <1>3 DEF Init, Abstract!Init

\* A call that found no memory
LEMMA FailStep ==
  ASSUME ListInv, list # NULL, Unchanged, NEW op, NEW arg, Called(op, arg, NULL), NEW s
  PROVE  /\ ListInv'
         /\ Content # NULL
         /\ Abstract!Grow(op, arg, s)
<1>1. PICK p : Good(p)
  BY SomeChain
<1>2. ListInv' /\ Content' = Content /\ Content # NULL
  BY <1>1, SomeChain, SameStep
<1> QED BY <1>2 DEF Called, Abstract!Grow, Abstract!Called

LEMMA AllocStep == ListInv /\ list_alloc => Correct
<1> SUFFICES ASSUME ListInv, list_alloc PROVE Correct
  OBVIOUS
<1>1. Content = NULL /\ live = lost /\ node \in [Node -> NodeT] /\ live \subseteq Node
      /\ node' = node /\ live' = live /\ lost' = lost
  BY DEF list_alloc, Content, ListInv
<1>2. CASE list' = [head |-> NULL, tail |-> NULL, count |-> 0] /\ Called("alloc", NULL, OK)
  <2> DEFINE p == [i \in 1 .. 0 |-> NULL]
  <2>1. list' \in ListT /\ list'.count = 0 /\ list'.head = NULL /\ list'.tail = NULL
    BY <1>2 DEF ListT
  <2>2. Chain(list', node', p)
    BY <2>1 DEF Chain
  <2>3. On(p) = {}
    BY DEF On
  <2> HIDE DEF p
  <2>4. list' # NULL
    BY <2>1, <2>2, ListNotNull
  <2>5. ListInv'
    BY <1>1, <2>1, <2>2, <2>3, <2>4 DEF ListInv
  <2>6. Content' = Held(list', node', p)
    BY <2>1, <2>2, ContentPrimed DEF ContentIsHeld
  <2>7. Content' \in Seq(Data) /\ Len(Content') = 0
    BY <2>1, <2>2, <2>6, HeldType
  <2>8. Content' = <<>>
    BY <2>7
  <2>9. Abstract!Create
    BY <1>1, <1>2, <2>8 DEF Called, Abstract!Create, Abstract!Grow, Abstract!Called
  <2> QED BY <2>5, <2>9 DEF Correct, AbstractNext
<1>3. CASE list' = NULL /\ Called("alloc", NULL, NULL)
  <2>1. ListInv'
    BY <1>1, <1>3 DEF ListInv
  <2>2. Content' = NULL
    BY <1>3 DEF Content
  <2>3. Abstract!Create
    BY <1>1, <1>3, <2>2 DEF Called, Abstract!Create, Abstract!Grow, Abstract!Called
  <2> QED BY <2>1, <2>3 DEF Correct, AbstractNext
<1> QED BY <1>2, <1>3 DEF list_alloc

LEMMA AppendStep ==
  ASSUME ListInv, NEW ptr \in Data, list_append(ptr)
  PROVE  Correct
<1>1. list # NULL
  BY DEF list_append
<1>2. PICK new \in malloc : \/ new = NULL /\ Unchanged /\ Called("append", ptr, NULL)
                            \/ new # NULL /\ AppendNode(new, ptr) /\ Called("append", ptr, OK)
  BY DEF list_append
<1>3. CASE Unchanged /\ Called("append", ptr, NULL)
  <2>1. ListInv' /\ Content # NULL /\ Abstract!Grow("append", ptr, Append(Content, ptr))
    BY <1>1, <1>3, FailStep
  <2> QED BY <2>1 DEF Correct, AbstractNext, Abstract!Change
<1>4. CASE new # NULL /\ AppendNode(new, ptr) /\ Called("append", ptr, OK)
  <2>1. new \in Node \ live
    BY <1>4 DEF malloc
  <2>2. list \in ListT /\ list.count \in Nat /\ list.count \in 0 .. list.count
    BY <1>1, SomeChain
  <2>3. PICK p : Good(p)
    BY <1>1, SomeChain
  <2>4. Chain(list, node, p) /\ new \notin On(p) /\ node \in [Node -> NodeT]
    BY <2>1, <2>3 DEF Good, ListInv
  <2>5. /\ list' \in ListT /\ node' \in [Node -> NodeT]
        /\ LinksIn(list, node, p, list.count, new, ptr, list', node')
    BY <1>4, <2>1, <2>2, <2>4, AppendLinks
  <2>6. live' = live \cup {new} /\ lost' = lost
    BY <1>4 DEF AppendNode
  <2>7. /\ ListInv' /\ Content' = Ins(Content, list.count, list.count, ptr)
        /\ Content # NULL /\ Content \in Seq(Data) /\ Len(Content) = list.count
    BY <2>1, <2>2, <2>3, <2>5, <2>6, GrowStep
  <2>8. Content' = Append(Content, ptr)
    BY <2>7, SeqAppend
  <2>9. Abstract!Change
    BY <1>4, <2>7, <2>8 DEF Called, Abstract!Change, Abstract!Grow, Abstract!Called
  <2> QED BY <2>7, <2>9 DEF Correct, AbstractNext
<1> QED BY <1>2, <1>3, <1>4

LEMMA PrependStep ==
  ASSUME ListInv, NEW ptr \in Data, list_prepend(ptr)
  PROVE  Correct
<1>1. list # NULL
  BY DEF list_prepend
<1>2. PICK new \in malloc : \/ new = NULL /\ Unchanged /\ Called("prepend", ptr, NULL)
                            \/ new # NULL /\ PrependNode(new, ptr) /\ Called("prepend", ptr, OK)
  BY DEF list_prepend
<1>3. CASE Unchanged /\ Called("prepend", ptr, NULL)
  <2>1. ListInv' /\ Content # NULL /\ Abstract!Grow("prepend", ptr, <<ptr>> \o Content)
    BY <1>1, <1>3, FailStep
  <2> QED BY <2>1 DEF Correct, AbstractNext, Abstract!Change
<1>4. CASE new # NULL /\ PrependNode(new, ptr) /\ Called("prepend", ptr, OK)
  <2>1. new \in Node \ live
    BY <1>4 DEF malloc
  <2>2. list \in ListT /\ list.count \in Nat /\ 0 \in 0 .. list.count
    BY <1>1, SomeChain
  <2>3. PICK p : Good(p)
    BY <1>1, SomeChain
  <2>4. Chain(list, node, p) /\ new \notin On(p) /\ node \in [Node -> NodeT]
    BY <2>1, <2>3 DEF Good, ListInv
  <2>5. /\ list' \in ListT /\ node' \in [Node -> NodeT]
        /\ LinksIn(list, node, p, 0, new, ptr, list', node')
    BY <1>4, <2>1, <2>2, <2>4, PrependLinks
  <2>6. live' = live \cup {new} /\ lost' = lost
    BY <1>4 DEF PrependNode
  <2>7. /\ ListInv' /\ Content' = Ins(Content, list.count, 0, ptr)
        /\ Content # NULL /\ Content \in Seq(Data) /\ Len(Content) = list.count
    BY <2>1, <2>2, <2>3, <2>5, <2>6, GrowStep
  <2>8. Content' = <<ptr>> \o Content
    BY <2>7, SeqPrepend
  <2>9. Abstract!Change
    BY <1>4, <2>7, <2>8 DEF Called, Abstract!Change, Abstract!Grow, Abstract!Called
  <2> QED BY <2>7, <2>9 DEF Correct, AbstractNext
<1> QED BY <1>2, <1>3, <1>4

LEMMA InsertStep ==
  ASSUME ListInv, NEW ptr \in Data, NEW before \in Index, list_insert(ptr, before)
  PROVE  Correct
<1> DEFINE c == list.count
           arg == <<ptr, before>>
           s == IF before >= Len(Content) THEN Append(Content, ptr)
                ELSE SubSeq(Content, 1, before) \o <<ptr>> \o SubSeq(Content, before + 1, Len(Content))
<1>1. list # NULL /\ before \in Nat
  BY ListAssumption DEF list_insert
<1>2. PICK new \in malloc :
        IF new = NULL THEN Unchanged /\ Called("insert", arg, NULL)
        ELSE /\ IF before = 0 THEN PrependNode(new, ptr)
                ELSE IF before >= c THEN AppendNode(new, ptr)
                ELSE InsertNode(new, ptr, Nth(before))
             /\ Called("insert", arg, OK)
  BY DEF list_insert
<1>3. CASE new = NULL
  <2>1. ListInv' /\ Content # NULL /\ Abstract!Grow("insert", arg, s)
    BY <1>1, <1>2, <1>3, FailStep
  <2> QED BY <2>1 DEF Correct, AbstractNext, Abstract!Change
<1>4. CASE new # NULL
  <2>1. new \in Node \ live
    BY <1>4 DEF malloc
  <2>2. list \in ListT /\ c \in Nat
    BY <1>1, SomeChain
  <2>3. PICK p : Good(p)
    BY <1>1, SomeChain
  <2>4. Chain(list, node, p) /\ new \notin On(p) /\ node \in [Node -> NodeT] /\ new \in Node
    BY <2>1, <2>3 DEF Good, ListInv
  <2> DEFINE k == IF before >= c THEN c ELSE before
  <2>5. k \in 0 .. c
    <3> HIDE DEF c
    <3> QED BY <1>1, <2>2
  <2>6. /\ list' \in ListT /\ node' \in [Node -> NodeT]
        /\ LinksIn(list, node, p, k, new, ptr, list', node')
        /\ live' = live \cup {new} /\ lost' = lost
    <3>1. CASE before = 0
      <4>1. PrependNode(new, ptr)
        BY <1>2, <1>4, <3>1
      <4>2. k = 0
        <5> HIDE DEF c
        <5> QED BY <2>2, <3>1
      <4>3. live' = live \cup {new} /\ lost' = lost
        BY <4>1 DEF PrependNode
      <4> HIDE DEF k
      <4> QED BY <2>2, <2>4, <4>1, <4>2, <4>3, PrependLinks
    <3>2. CASE before # 0 /\ before >= c
      <4>1. AppendNode(new, ptr)
        BY <1>2, <1>4, <3>2
      <4>2. k = list.count
        BY <3>2
      <4>3. live' = live \cup {new} /\ lost' = lost
        BY <4>1 DEF AppendNode
      <4> HIDE DEF k
      <4> QED BY <2>2, <2>4, <4>1, <4>2, <4>3, AppendLinks
    <3>3. CASE before # 0 /\ ~(before >= c)
      <4>1. InsertNode(new, ptr, Nth(before))
        BY <1>2, <1>4, <3>3
      <4>2. k = before /\ k \in 1 .. list.count - 1 /\ before < list.count
        BY <1>1, <2>2, <3>3
      <4>3. Nth(before) = p[k + 1]
        BY <1>1, <2>2, <2>4, <4>2, NthOnChain
      <4>4. live' = live \cup {new} /\ lost' = lost
        BY <4>1 DEF InsertNode
      <4> HIDE DEF k
      <4> QED BY <2>2, <2>4, <4>1, <4>2, <4>3, <4>4, InsertLinks
    <3> QED BY <3>1, <3>2, <3>3
  <2> HIDE DEF k
  <2>7. /\ ListInv' /\ Content' = Ins(Content, c, k, ptr)
        /\ Content # NULL /\ Content \in Seq(Data) /\ Len(Content) = c
    BY <2>1, <2>2, <2>3, <2>5, <2>6, GrowStep
  <2>8. Content' = s
    <3>1. CASE before >= c
      <4>1. k = c
        BY <3>1 DEF k
      <4> QED BY <2>7, <3>1, <4>1, SeqAppend
    <3>2. CASE ~(before >= c)
      <4>1. k = before /\ k \in 0 .. Len(Content)
        BY <1>1, <2>5, <2>7, <3>2 DEF k
      <4>2. SubSeq(Content, 1, k) \o <<ptr>> \o SubSeq(Content, k + 1, Len(Content)) = Content'
        BY <2>7, <4>1, SeqInsert
      <4> QED BY <2>7, <3>2, <4>1, <4>2
    <3> QED BY <3>1, <3>2
  <2>9. Called("insert", arg, OK)
    BY <1>2, <1>4
  <2> HIDE DEF s
  <2>10. Abstract!Grow("insert", arg, s)
    BY <2>8, <2>9 DEF Called, Abstract!Grow, Abstract!Called
  <2>11. Abstract!Change
    BY <2>7, <2>10 DEF Abstract!Change, s
  <2> QED BY <2>7, <2>11 DEF Correct, AbstractNext
<1> QED BY <1>3, <1>4

----------------------------------------------------------------------------
(* The operations that take out, empty and look *)

\* TakeOut of the k-th node, or of none
LEMMA TakeStep ==
  ASSUME ListInv, list \in ListT, NEW p, Good(p), NEW op, NEW arg, NEW n, NEW k \in Nat,
         n = IF k \in 1 .. list.count THEN p[k] ELSE NULL,
         TakeOut(op, arg, n)
  PROVE  ListInv' /\ Content # NULL /\ Abstract!Take(op, arg, k)
<1>1. CASE k \in 1 .. list.count
  <2>1. n = p[k] /\ n # NULL
    BY <1>1, ChainNodes DEF Good
  <2>2. list_unchain(p[k]) /\ Called(op, arg, node[p[k]].data)
    BY <2>1 DEF TakeOut
  <2>3. /\ ListInv' /\ Content' = Del(Content, list.count, k)
        /\ node[p[k]].data = Content[k]
        /\ Content # NULL /\ Content \in Seq(Data) /\ Len(Content) = list.count
    BY <1>1, <2>2, ShrinkStep
  <2>4. SubSeq(Content, 1, k - 1) \o SubSeq(Content, k + 1, Len(Content)) = Content'
    BY <1>1, <2>3, SeqRemove
  <2>5. Abstract!Take(op, arg, k)
    BY <1>1, <2>2, <2>3, <2>4 DEF Called, Abstract!Take, Abstract!Called
  <2> QED BY <2>3, <2>5
<1>2. CASE k \notin 1 .. list.count
  <2>1. Unchanged /\ Called(op, arg, NULL)
    BY <1>2 DEF TakeOut
  <2>2. ListInv' /\ Content' = Content /\ Content # NULL /\ Len(Content) = list.count
    BY <2>1, SameStep
  <2>3. Abstract!Take(op, arg, k)
    BY <1>2, <2>1, <2>2 DEF Called, Abstract!Take, Abstract!Answer, Abstract!Called
  <2> QED BY <2>2, <2>3
<1> QED BY <1>1, <1>2

\* Place is the place of the first node with the datum.
LEMMA PlaceOnChain ==
  ASSUME ListInv, list \in ListT, NEW p, Good(p), NEW ptr \in Data
  PROVE  /\ Abstract!Place(ptr) \in Nat
         /\ Abstract!Place(ptr) = 0 <=> FirstWith(ptr) = NULL
         /\ FirstWith(ptr) # NULL => /\ Abstract!Place(ptr) \in 1 .. list.count
                                     /\ FirstWith(ptr) = p[Abstract!Place(ptr)]
<1> DEFINE c == list.count
           s == Content
           places == {i \in 1 .. Len(s) : s[i] = ptr}
           place == CHOOSE i \in places : \A j \in places : i <= j
<1>1. Chain(list, node, p) /\ c \in Nat
  BY DEF Good, ListT
<1>2. \A i \in 1 .. c : p[i] \in Node /\ p[i] # NULL
  BY <1>1, ChainNodes
<1>3. s = Held(list, node, p)
  BY <1>1, ContentFacts DEF ContentIsHeld
<1>4. Len(s) = c /\ \A i \in 1 .. c : s[i] = node[p[i]].data
  BY <1>1, <1>3, HeldType DEF Held
<1>5. Abstract!Place(ptr) = IF places = {} THEN 0 ELSE place
  BY DEF Abstract!Place
<1> HIDE DEF c, s
<1>6. CASE FirstWith(ptr) = NULL /\ \A i \in 1 .. c : node[p[i]].data # ptr
  <2>1. places = {}
    BY <1>4, <1>6
  <2>2. Abstract!Place(ptr) = 0
    BY <1>5, <2>1
  <2> QED BY <1>6, <2>2
<1>7. ASSUME NEW k \in 1 .. c, FirstWith(ptr) = p[k], node[p[k]].data = ptr,
             \A j \in 1 .. k - 1 : node[p[j]].data # ptr
      PROVE  Abstract!Place(ptr) = k /\ k # 0 /\ FirstWith(ptr) # NULL
  <2>1. k \in places /\ \A j \in places : k <= j
    BY <1>1, <1>4, <1>7
  <2>2. place \in places /\ \A j \in places : place <= j
    BY <2>1
  <2>3. places \subseteq Nat
    BY <1>1, <1>4
  <2> HIDE DEF places, place
  <2>4. place = k
    BY <2>1, <2>2, <2>3
  <2>5. Abstract!Place(ptr) = place
    BY <1>5, <2>1
  <2> QED BY <1>1, <1>2, <1>7, <2>4, <2>5
<1>8. CASE \E k \in 1 .. c : /\ FirstWith(ptr) = p[k] /\ node[p[k]].data = ptr
                             /\ \A j \in 1 .. k - 1 : node[p[j]].data # ptr
  <2>1. PICK k \in 1 .. c : /\ FirstWith(ptr) = p[k] /\ node[p[k]].data = ptr
                            /\ \A j \in 1 .. k - 1 : node[p[j]].data # ptr
    BY <1>8
  <2>2. Abstract!Place(ptr) = k /\ k # 0 /\ FirstWith(ptr) # NULL
    BY <1>7, <2>1
  <2>3. k \in Nat /\ c = list.count
    BY <1>1 DEF c
  <2> QED BY <2>1, <2>2, <2>3
<1>9. Abstract!Place(ptr) = 0 /\ FirstWith(ptr) = NULL => Abstract!Place(ptr) \in Nat
  OBVIOUS
<1>10. \/ FirstWith(ptr) = NULL /\ \A i \in 1 .. c : node[p[i]].data # ptr
       \/ \E k \in 1 .. c : /\ FirstWith(ptr) = p[k] /\ node[p[k]].data = ptr
                            /\ \A j \in 1 .. k - 1 : node[p[j]].data # ptr
  BY ONLY list \in ListT, ptr \in Data, <1>1, FirstOnChain DEF c
<1> QED BY <1>6, <1>8, <1>10

LEMMA RemoveStep ==
  ASSUME ListInv, NEW at \in Index, list_remove(at)
  PROVE  Correct
<1>1. list # NULL /\ at \in Nat /\ at + 1 \in Nat
  BY ListAssumption DEF list_remove
<1>2. list \in ListT /\ list.count \in Nat
  BY <1>1, SomeChain
<1>3. PICK p : Good(p)
  BY <1>1, SomeChain
<1>4. Nth(at) = IF at < list.count THEN p[at + 1] ELSE NULL
  BY <1>1, <1>2, <1>3, NthOnChain DEF Good
<1>5. list.head = NULL <=> list.count = 0
  <2>1. list.count # 0 => 1 \in 1 .. list.count
    BY <1>2
  <2> QED BY <1>3, <2>1, ListAssumption DEF Good, Chain
<1> DEFINE n == IF list.head = NULL \/ at >= list.count THEN NULL ELSE Nth(at)
<1>6. n = IF at + 1 \in 1 .. list.count THEN p[at + 1] ELSE NULL
  BY <1>1, <1>2, <1>4, <1>5
<1>7. TakeOut("remove", at, n)
  BY DEF list_remove
<1> HIDE DEF n
<1>8. ListInv' /\ Content # NULL /\ Abstract!Take("remove", at, at + 1)
  BY <1>1, <1>2, <1>3, <1>6, <1>7, TakeStep
<1> QED BY <1>8 DEF Correct, AbstractNext, Abstract!Change

LEMMA DeleteStep ==
  ASSUME ListInv, NEW ptr \in Data, list_delete(ptr)
  PROVE  Correct
<1> DEFINE k == Abstract!Place(ptr)
<1>1. list # NULL /\ TakeOut("delete", ptr, FirstWith(ptr))
  BY DEF list_delete
<1>2. list \in ListT /\ list.count \in Nat
  BY <1>1, SomeChain
<1>3. PICK p : Good(p)
  BY <1>1, SomeChain
<1>4. /\ k \in Nat
      /\ k = 0 <=> FirstWith(ptr) = NULL
      /\ FirstWith(ptr) # NULL => k \in 1 .. list.count /\ FirstWith(ptr) = p[k]
  BY <1>2, <1>3, PlaceOnChain
<1> HIDE DEF k
<1>5. FirstWith(ptr) = IF k \in 1 .. list.count THEN p[k] ELSE NULL
  BY <1>2, <1>4
<1>6. ListInv' /\ Content # NULL /\ Abstract!Take("delete", ptr, k)
  BY <1>1, <1>2, <1>3, <1>4, <1>5, TakeStep
<1> QED BY <1>6 DEF Correct, AbstractNext, Abstract!Change, k

LEMMA PopHeadStep == ListInv /\ list_pop_head => Correct
<1> SUFFICES ASSUME ListInv, list_pop_head PROVE Correct
  OBVIOUS
<1>1. list # NULL /\ TakeOut("pop_head", NULL, list.head)
  BY DEF list_pop_head
<1>2. list \in ListT /\ list.count \in Nat
  BY <1>1, SomeChain
<1>3. PICK p : Good(p)
  BY <1>1, SomeChain
<1>4. list.head = IF list.count = 0 THEN NULL ELSE p[1]
  BY <1>3 DEF Good, Chain
<1>5. list.head = IF 1 \in 1 .. list.count THEN p[1] ELSE NULL
  BY <1>2, <1>4
<1>6. ListInv' /\ Content # NULL /\ Abstract!Take("pop_head", NULL, 1)
  BY <1>1, <1>2, <1>3, <1>5, TakeStep
<1> QED BY <1>6 DEF Correct, AbstractNext, Abstract!Change

LEMMA PopTailStep == ListInv /\ list_pop_tail => Correct
<1> SUFFICES ASSUME ListInv, list_pop_tail PROVE Correct
  OBVIOUS
<1>1. list # NULL /\ TakeOut("pop_tail", NULL, list.tail)
  BY DEF list_pop_tail
<1>2. list \in ListT /\ list.count \in Nat
  BY <1>1, SomeChain
<1>3. PICK p : Good(p)
  BY <1>1, SomeChain
<1>4. list.tail = IF list.count = 0 THEN NULL ELSE p[list.count]
  BY <1>3 DEF Good, Chain
<1>5. list.tail = IF list.count \in 1 .. list.count THEN p[list.count] ELSE NULL
  BY <1>2, <1>4
<1>6. ListInv' /\ Content # NULL /\ Abstract!Take("pop_tail", NULL, list.count)
  BY <1>1, <1>2, <1>3, <1>5, TakeStep
<1>7. Len(Content) = list.count
  BY <1>2, <1>3, ContentFacts, HeldType DEF ContentIsHeld, Good
<1> QED BY <1>6, <1>7 DEF Correct, AbstractNext, Abstract!Change

\* Empty leaves no node on the list: the head is freed, the others are lost.
LEMMA EmptyStep ==
  ASSUME ListInv, list # NULL, Empty
  PROVE  node' \in [Node -> NodeT] /\ live' = lost' /\ live' \subseteq Node /\ Content # NULL
<1>1. list \in ListT /\ list.count \in Nat
  BY SomeChain
<1>2. PICK p : Good(p)
  BY SomeChain
<1>3. /\ Chain(list, node, p) /\ live = On(p) \cup lost /\ On(p) \cap lost = {}
      /\ node \in [Node -> NodeT] /\ live \subseteq Node
  BY <1>2 DEF Good, ListInv
<1>4. Content # NULL
  BY <1>1, <1>3, ContentFacts, HeldType DEF ContentIsHeld
<1>5. CASE list.count = 0
  <2>1. On(p) = {}
    BY <1>3, <1>5 DEF Chain, On
  <2> QED BY <1>3, <1>4, <1>5, <2>1 DEF Empty
<1>6. CASE list.count # 0
  <2>1. list.head = p[1] /\ p[1] \in On(p) /\ p[1] \in Node
    <3>1. 1 \in 1 .. list.count
      BY <1>1, <1>6
    <3> QED BY <1>3, <1>6, <3>1 DEF Chain, On
  <2>2. Reachable = On(p)
    BY <1>1, <1>3, ReachableIsOn
  <2>3. /\ node' = [node EXCEPT ![list.head] = NoNode]
        /\ live' = live \ {list.head}
        /\ lost' = lost \cup (Reachable \ {list.head})
    BY <1>6 DEF Empty, listnode_free
  <2>4. NoNode \in NodeT
    BY DEF NoNode, NodeT
  <2>5. node' \in [Node -> NodeT]
    BY <1>3, <2>1, <2>3, <2>4
  <2> QED BY <1>3, <1>4, <2>1, <2>2, <2>3, <2>5
<1> QED BY <1>5, <1>6

LEMMA FreeStep == ListInv /\ (list_empty \/ list_free) => Correct
<1> SUFFICES ASSUME ListInv, list_empty \/ list_free PROVE Correct
  OBVIOUS
<1>1. list # NULL /\ Empty
  BY DEF list_empty, list_free
<1>2. node' \in [Node -> NodeT] /\ live' = lost' /\ live' \subseteq Node /\ Content # NULL
  BY <1>1, EmptyStep
<1>3. CASE list_empty
  <2> DEFINE p == [i \in 1 .. 0 |-> NULL]
  <2>1. list' \in ListT /\ list'.count = 0 /\ list'.head = NULL /\ list'.tail = NULL
    BY <1>3 DEF ListT, list_empty
  <2>2. Chain(list', node', p)
    BY <2>1 DEF Chain
  <2>3. On(p) = {}
    BY DEF On
  <2> HIDE DEF p
  <2>4. list' # NULL
    BY <2>1, <2>2, ListNotNull
  <2>5. ListInv'
    BY <1>2, <2>1, <2>2, <2>3, <2>4 DEF ListInv
  <2>6. Content' = Held(list', node', p)
    BY <2>1, <2>2, ContentPrimed DEF ContentIsHeld
  <2>7. Content' \in Seq(Data) /\ Len(Content') = 0
    BY <2>1, <2>2, <2>6, HeldType
  <2>8. Content' = <<>>
    BY <2>7
  <2>9. Abstract!Change
    BY <1>2, <1>3, <2>8 DEF list_empty, Called, Abstract!Change, Abstract!Called
  <2> QED BY <2>5, <2>9 DEF Correct, AbstractNext
<1>4. CASE list_free
  <2>1. list' = NULL
    BY <1>4 DEF list_free
  <2>2. ListInv'
    BY <1>2, <2>1 DEF ListInv
  <2>3. Content' = NULL
    BY <2>1 DEF Content
  <2>4. Abstract!Change
    BY <1>2, <1>4, <2>3 DEF list_free, Called, Abstract!Change, Abstract!Called
  <2> QED BY <2>2, <2>4 DEF Correct, AbstractNext
<1> QED BY <1>3, <1>4

LEMMA LookStep == ListInv /\ Look => Correct
<1> SUFFICES ASSUME ListInv, Look PROVE Correct
  OBVIOUS
<1>1. list # NULL /\ Unchanged
  BY DEF Look, list_count, list_first, list_last, list_at, list_index
<1>2. list \in ListT /\ list.count \in Nat
  BY <1>1, SomeChain
<1>3. PICK p : Good(p)
  BY <1>1, SomeChain
<1> DEFINE c == list.count
           s == Content
<1>4. /\ ListInv' /\ Content' = Content /\ s # NULL
      /\ s = Held(list, node, p) /\ Len(s) = c
  BY <1>1, <1>2, <1>3, SameStep
<1>5. /\ \A i \in 1 .. c : s[i] = node[p[i]].data
      /\ \A i \in 1 .. c : p[i] \in Node /\ p[i] # NULL
      /\ \A i, j \in 1 .. c : p[i] = p[j] => i = j
      /\ list.head = IF c = 0 THEN NULL ELSE p[1]
      /\ list.tail = IF c = 0 THEN NULL ELSE p[c]
  <2>1. Chain(list, node, p)
    BY <1>3 DEF Good
  <2>2. \A i \in 1 .. c : p[i] \in Node /\ p[i] # NULL
    BY <2>1, ChainNodes
  <2>3. \A i \in 1 .. c : s[i] = node[p[i]].data
    BY <1>4 DEF Held
  <2> QED BY <2>1, <2>2, <2>3 DEF Chain
<1>6. \A i \in Nat : Nth(i) = IF i < c THEN p[i + 1] ELSE NULL
  BY <1>2, <1>3, NthOnChain DEF Good
<1>7. ASSUME NEW i \in Nat, NEW n, n = IF i \in 1 .. c THEN p[i] ELSE NULL
      PROVE  Datum(n) = Abstract!At(i)
  BY <1>4, <1>5, <1>7 DEF Datum, Abstract!At
<1> HIDE DEF c
<1>8. CASE list_count
  <2>1. Abstract!Answer("count", NULL, Len(s))
    BY <1>4, <1>8 DEF list_count, Called, Abstract!Answer, Abstract!Called, c
  <2> QED BY <1>4, <2>1 DEF Correct, AbstractNext, Abstract!Ask
<1>9. CASE list_first
  <2>1. list.head = IF 1 \in 1 .. c THEN p[1] ELSE NULL
    BY <1>2, <1>5 DEF c
  <2>2. Datum(list.head) = Abstract!At(1)
    BY <1>7, <2>1
  <2>3. Abstract!Answer("first", NULL, Abstract!At(1))
    BY <1>4, <1>9, <2>2 DEF list_first, Called, Abstract!Answer, Abstract!Called
  <2> QED BY <1>4, <2>3 DEF Correct, AbstractNext, Abstract!Ask
<1>10. CASE list_last
  <2>1. list.tail = IF c \in 1 .. c THEN p[c] ELSE NULL
    BY <1>2, <1>5 DEF c
  <2>2. c \in Nat
    BY <1>2 DEF c
  <2>3. Datum(list.tail) = Abstract!At(c)
    BY <1>7, <2>1, <2>2
  <2>4. Abstract!Answer("last", NULL, Abstract!At(Len(s)))
    BY <1>4, <1>10, <2>3 DEF list_last, Called, Abstract!Answer, Abstract!Called
  <2> QED BY <1>4, <2>4 DEF Correct, AbstractNext, Abstract!Ask
<1>11. ASSUME NEW idx \in Index, list_at(idx) PROVE Correct
  <2> DEFINE n == IF idx >= c THEN NULL ELSE Nth(idx)
  <2>1. idx \in Nat /\ c \in Nat /\ idx + 1 \in Nat
    BY <1>2, ListAssumption DEF c
  <2>2. n = IF idx + 1 \in 1 .. c THEN p[idx + 1] ELSE NULL
    BY <1>6, <2>1
  <2>3. Datum(n) = Abstract!At(idx + 1)
    <3> HIDE DEF n
    <3> QED BY <1>7, <2>1, <2>2
  <2>4. (IF idx >= list.count THEN NULL ELSE Datum(Nth(idx))) = Datum(n)
    BY DEF Datum, c
  <2>5. Called("at", idx, IF idx >= list.count THEN NULL ELSE Datum(Nth(idx)))
    BY <1>11 DEF list_at
  <2>6. Abstract!Answer("at", idx, Abstract!At(idx + 1))
    BY <1>4, <2>3, <2>4, <2>5 DEF Called, Abstract!Answer, Abstract!Called
  <2> QED BY <1>4, <2>6 DEF Correct, AbstractNext, Abstract!Ask
<1>12. ASSUME NEW ptr \in Data, list_index(ptr) PROVE Correct
  <2> DEFINE k == Abstract!Place(ptr)
             f == FirstWith(ptr)
             where == CHOOSE i \in Steps : Nth(i) = f
  <2>1. /\ k \in Nat /\ (k = 0 <=> f = NULL)
        /\ f # NULL => k \in 1 .. c /\ f = p[k]
    BY <1>2, <1>3, PlaceOnChain DEF c
  <2>2. Called("index", ptr, IF f = NULL THEN NotFound ELSE where)
    BY <1>12 DEF list_index
  <2> HIDE DEF k, f
  <2>3. ASSUME f # NULL PROVE where = k - 1
    <3>1. c \in Nat /\ Cardinality(Node) \in Nat /\ c <= Cardinality(Node)
      BY <1>2, <1>3, CountOfChain DEF Good, c
    <3>2. k - 1 \in Steps /\ k - 1 \in Nat /\ k - 1 < c /\ (k - 1) + 1 = k
      BY <2>1, <2>3, <3>1 DEF Steps
    <3>3. Nth(k - 1) = f
      BY <1>6, <2>1, <2>3, <3>2
    <3>4. where \in Steps /\ Nth(where) = f
      BY <3>2, <3>3
    <3> HIDE DEF where
    <3>5. where \in Nat
      BY <3>1, <3>4 DEF Steps
    <3>6. where < c /\ where + 1 \in 1 .. c /\ p[where + 1] = p[k]
      BY <1>6, <2>1, <2>3, <3>1, <3>4, <3>5
    <3>7. where + 1 = k
      BY <1>5, <2>1, <2>3, <3>6
    <3> QED BY <3>5, <3>7
  <2>4. (IF f = NULL THEN NotFound ELSE where) = IF k = 0 THEN NotFound ELSE k - 1
    BY <2>1, <2>3
  <2>5. Abstract!Answer("index", ptr, IF k = 0 THEN NotFound ELSE k - 1)
    BY <1>4, <2>2, <2>4 DEF Called, Abstract!Answer, Abstract!Called
  <2> QED BY <1>4, <2>5 DEF Correct, AbstractNext, Abstract!Ask, k
<1> QED BY <1>8, <1>9, <1>10, <1>11, <1>12 DEF Look

----------------------------------------------------------------------------
(* The theorems *)

LEMMA EveryStep == ListInv /\ [Next]_vars => Correct
<1> SUFFICES ASSUME ListInv, [Next]_vars PROVE Correct
  OBVIOUS
<1>1. CASE Change
  BY <1>1, AllocStep, PopHeadStep, PopTailStep, FreeStep, AppendStep, PrependStep,
     DeleteStep, InsertStep, RemoveStep DEF Change
<1>2. CASE Look
  BY <1>2, LookStep
<1>3. CASE UNCHANGED vars
  <2>1. ListInv'
    BY <1>3 DEF vars, ListInv
  <2>2. UNCHANGED <<Content, last>>
    <3>1. CASE list = NULL
      BY <1>3, <3>1 DEF vars, Content
    <3>2. CASE list # NULL
      <4>1. PICK p : Good(p)
        BY <3>2, SomeChain
      <4> QED BY <1>3, <3>2, <4>1, SomeChain, SameStep DEF vars, Unchanged
    <3> QED BY <3>1, <3>2
  <2> QED BY <2>1, <2>2 DEF Correct
<1> QED BY <1>1, <1>2, <1>3 DEF Next

LEMMA ListInvariant == Spec => []ListInv
<1>1. ListInv /\ [Next]_vars => ListInv'
  BY EveryStep DEF Correct
<1> QED BY <1>1, InitInv, PTL DEF Spec

LEMMA InvImplies == ListInv => WellLinked /\ NodesAccounted
<1> SUFFICES ASSUME ListInv PROVE WellLinked /\ NodesAccounted
  OBVIOUS
<1>1. CASE list = NULL
  BY <1>1 DEF ListInv, WellLinked, NodesAccounted, Reachable
<1>2. CASE list # NULL
  <2>1. list \in ListT /\ list.count \in Nat
    BY <1>2, SomeChain
  <2>2. PICK p : Good(p)
    BY <1>2, SomeChain
  <2>3. Chain(list, node, p)
    BY <2>2 DEF Good
  <2>4. Reachable = On(p) /\ Cardinality(On(p)) = list.count
    BY <2>1, <2>3, ReachableIsOn, CountOfChain
  <2>5. NodesAccounted
    BY <2>2, <2>4 DEF Good, NodesAccounted
  <2> DEFINE c == list.count
  <2>6. /\ p \in [1 .. c -> Node] /\ On(p) = {p[i] : i \in 1 .. c}
        /\ list.head = IF c = 0 THEN NULL ELSE p[1]
        /\ list.tail = IF c = 0 THEN NULL ELSE p[c]
        /\ \A i \in 1 .. c : /\ node[p[i]].next = IF i = c THEN NULL ELSE p[i + 1]
                             /\ node[p[i]].prev = IF i = 1 THEN NULL ELSE p[i - 1]
    BY <2>3 DEF Chain, On
  <2>7. c \in Nat /\ (c # 0 => 1 \in 1 .. c /\ c \in 1 .. c)
    BY <2>1
  <2> HIDE DEF c
  <2>8. c # 0 => p[1] \in Node /\ p[c] \in Node /\ p[c] \in On(p)
    BY <2>6, <2>7
  <2>9. list.head = NULL <=> list.tail = NULL
    BY <2>6, <2>8, ListAssumption
  <2>10. list.head # NULL => /\ node[list.head].prev = NULL
                             /\ node[list.tail].next = NULL
                             /\ list.tail \in On(p)
    BY <2>6, <2>7, <2>8
  <2>11. ASSUME NEW n \in On(p)
         PROVE  /\ n \in live
                /\ node[n].next # NULL => node[node[n].next].prev = n
    <3>1. PICK i \in 1 .. c : n = p[i]
      BY <2>6
    <3>2. n \in live
      BY <2>2 DEF Good
    <3>3. ASSUME node[n].next # NULL PROVE node[node[n].next].prev = n
      <4>1. i # c /\ i + 1 \in 1 .. c /\ i + 1 # 1 /\ (i + 1) - 1 = i
        BY <2>6, <2>7, <3>1, <3>3
      <4>2. node[n].next = p[i + 1]
        BY <2>6, <3>1, <4>1
      <4> QED BY <2>6, <3>1, <4>1, <4>2
    <3> QED BY <3>2, <3>3
  <2>12. WellLinked
    BY <2>4, <2>9, <2>10, <2>11 DEF WellLinked
  <2> QED BY <2>5, <2>12
<1> QED BY <1>1, <1>2

\* After any sequence of calls of sys/list.h the chain reads the same in both
\* directions and list.count is its length, for any number of nodes.
THEOREM ListWellLinked == Spec => []WellLinked
BY ListInvariant, InvImplies, PTL

\* Only list_empty (and list_free, which calls it) leaves allocated nodes that are
\* on no list.
THEOREM ListNodesAccounted == Spec => []NodesAccounted
BY ListInvariant, InvImplies, PTL

\* The doubly linked list implements a sequence: every function of sys/list.h
\* changes it, and answers, as the operation of its name on sequences does.
THEOREM ListImplementsSequence == Spec => ImplementsSequence
<1>1. ListInv /\ [Next]_vars => [Abstract!Create \/ Abstract!Change \/ Abstract!Ask]_<<Content, last>>
  BY EveryStep DEF Correct, AbstractNext
<1> QED BY <1>1, InitInv, ListInvariant, PTL DEF Spec, ImplementsSequence, Abstract!Spec
=============================================================================
