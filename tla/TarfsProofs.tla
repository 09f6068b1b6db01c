---------------------------- MODULE TarfsProofs -----------------------------
(***************************************************************************)
(* What the operators of Tarfs compute for every archive whose sizes are   *)
(* stated truly: the image, the headers found in it, the tree built from   *)
(* them and the components of a path.                                      *)
(***************************************************************************)
EXTENDS Tarfs, WellFoundedInduction, TLAPS

----------------------------------------------------------------------------
(* Induction *)

\* A set of natural numbers has a least element.
LEMMA LeastNatural ==
  ASSUME NEW A, A \subseteq Nat, A # {}
  PROVE  \E x \in A : \A y \in A : x <= y
<1> DEFINE R == OpToRel(<, Nat)
<1>1. IsWellFoundedOn(R, Nat)
  BY NatLessThanWellFounded
<1>2. \A x, y \in Nat : x < y => <<x, y>> \in R
  BY DEF OpToRel
<1> HIDE DEF R
<1>3. \E x \in A : \A y \in A : ~(<<y, x>> \in R)
  BY <1>1, WFMin
<1>4. PICK x \in A : \A y \in A : ~(<<y, x>> \in R)
  BY <1>3
<1>5. ASSUME NEW y \in A PROVE x <= y
  <2>1. x \in Nat /\ y \in Nat /\ ~(y < x)
    BY <1>2, <1>4
  <2> QED BY <2>1
<1> QED BY <1>5

\* Induction, with the set of the numbers that have the property.
LEMMA InductionSet ==
  ASSUME NEW S, 0 \in S, \A n \in Nat : n \in S => n + 1 \in S
  PROVE  Nat \subseteq S
<1> SUFFICES ASSUME Nat \ S # {} PROVE FALSE
  OBVIOUS
<1>1. PICK x \in Nat \ S : \A y \in Nat \ S : x <= y
  BY LeastNatural
<1>2. x # 0 /\ x - 1 \in Nat /\ x - 1 \in S
  BY <1>1
<1>3. (x - 1) + 1 \in S
  BY <1>2
<1> QED BY <1>1, <1>3

----------------------------------------------------------------------------
(* Sequences *)

\* A sequence, whatever it holds
IsSeq(s) == s \in Seq({s[i] : i \in DOMAIN s})

LEMMA SeqFacts ==
  ASSUME NEW s, IsSeq(s)
  PROVE  Len(s) \in Nat /\ DOMAIN s = 1 .. Len(s)
  BY DEF IsSeq

LEMMA SeqIs ==
  ASSUME NEW A, NEW s \in Seq(A)
  PROVE  IsSeq(s)
<1>1. DOMAIN s = 1 .. Len(s) /\ Len(s) \in Nat
  OBVIOUS
<1>2. s \in [1 .. Len(s) -> {s[i] : i \in DOMAIN s}]
  BY <1>1
<1>3. \A S, n : n \in Nat => \A f \in [1 .. n -> S] : f \in Seq(S)
  OBVIOUS
<1> QED BY <1>1, <1>2, <1>3 DEF IsSeq

LEMMA MinIs ==
  ASSUME NEW I, I \subseteq Nat, I # {}
  PROVE  Min(I) \in I /\ \A j \in I : Min(I) <= j
<1>1. \E x \in I : \A y \in I : x <= y
  BY LeastNatural
<1> QED BY <1>1 DEF Min

\* An element is appended.
LEMMA AppendIs ==
  ASSUME NEW s, IsSeq(s), NEW e
  PROVE  LET t == Append(s, e)
         IN  /\ IsSeq(t) /\ Len(t) = Len(s) + 1 /\ t[Len(s) + 1] = e
             /\ \A i \in 1 .. Len(s) : t[i] = s[i]
<1> DEFINE A == {s[i] : i \in DOMAIN s} \cup {e}
           t == Append(s, e)
<1>1. \A S, R : S \subseteq R => Seq(S) \subseteq Seq(R)
  OBVIOUS
<1>2. s \in Seq(A) /\ e \in A
  BY <1>1 DEF IsSeq
<1> HIDE DEF A
<1>3. /\ t \in Seq(A) /\ Len(t) = Len(s) + 1 /\ t[Len(s) + 1] = e
      /\ \A i \in 1 .. Len(s) : t[i] = s[i]
  BY <1>2
<1>4. IsSeq(t)
  BY <1>3, SeqIs
<1> QED BY <1>3, <1>4

LEMMA ConcatIs ==
  ASSUME NEW A, NEW p \in Seq(A), NEW q \in Seq(A)
  PROVE  p \o q \in Seq(A) /\ Len(p \o q) = Len(p) + Len(q)
  OBVIOUS

LEMMA ConcatAt ==
  ASSUME NEW A, NEW p \in Seq(A), NEW q \in Seq(A)
  PROVE  /\ p \o q \in Seq(A) /\ Len(p \o q) = Len(p) + Len(q)
         /\ \A i \in 1 .. Len(p) : (p \o q)[i] = p[i]
         /\ \A i \in 1 .. Len(q) : (p \o q)[i + Len(p)] = q[i]
<1>1. p \o q \in Seq(A) /\ Len(p \o q) = Len(p) + Len(q) /\ Len(p) \in Nat /\ Len(q) \in Nat
  OBVIOUS
<1>2. \A i \in 1 .. Len(p) + Len(q) : (p \o q)[i] = IF i <= Len(p) THEN p[i] ELSE q[i - Len(p)]
  OBVIOUS
<1> QED BY <1>1, <1>2

\* First gives a position, and none before it.
LEMMA FirstIs ==
  ASSUME NEW I, I \subseteq Nat \ {0}
  PROVE  \/ I = {} /\ First(I) = 0
         \/ First(I) \in I /\ First(I) # 0 /\ \A j \in I : First(I) <= j
<1>1. CASE I = {}
  BY <1>1 DEF First
<1>2. CASE I # {}
  BY <1>2, MinIs DEF First
<1> QED BY <1>1, <1>2

----------------------------------------------------------------------------
(* The image of an archive *)

\* An archive whose headers state the lengths of their members
Stated(archive) ==
  /\ Len(archive) \in Nat
  /\ \A i \in 1 .. Len(archive) : /\ archive[i].length \in Nat
                                  /\ octal2int(archive[i].size) = archive[i].length

Blocks(n) == (n + BLOCK - 1) \div BLOCK

\* init_nodes steps over the header and the data of a member.
LEMMA StrideIs ==
  ASSUME NEW n \in Nat
  PROVE  Blocks(n) \in Nat /\ Stride(n) = Blocks(n) + 1
  BY DEF Blocks, Stride, BLOCK

\* The blocks up to the end of each member
LEMMA ImageTurns ==
  ASSUME NEW archive, Stated(archive)
  PROVE  \E upto :
           /\ Image(archive) = upto[Len(archive)] \o <<END>>
           /\ upto[0] = <<>>
           /\ \A i \in 1 .. Len(archive) :
                upto[i] = upto[i - 1] \o <<i>> \o [b \in 1 .. Blocks(archive[i].length) |-> DATA]
<1> DEFINE N == Len(archive)
           Go(s, i) == s \o <<i>> \o [b \in 1 .. Blocks(archive[i].length) |-> DATA]
           D(w) == [i \in 0 .. N |-> IF i = 0 THEN <<>> ELSE Go(w[i - 1], i)]
           G(n, w) == /\ w = [i \in 0 .. n |-> w[i]] /\ w[0] = <<>>
                      /\ \A i \in 1 .. n : w[i] = Go(w[i - 1], i)
           S == {n \in Nat : \E w : G(n, w)}
           upto == CHOOSE u : u = D(u)
<1>0. N \in Nat
  BY DEF Stated
<1>6. Image(archive) = upto[N] \o <<END>>
  BY DEF Image, Blocks
<1> HIDE DEF Go, N
<1>1. 0 \in S
  <2>1. G(0, [i \in 0 .. 0 |-> <<>>])
    OBVIOUS
  <2> QED BY <2>1
<1>2. ASSUME NEW n \in Nat, n \in S PROVE n + 1 \in S
  <2>1. PICK w : G(n, w)
    BY <1>2
  <2> DEFINE v == [i \in 0 .. n + 1 |-> IF i = n + 1 THEN Go(w[n], n + 1) ELSE w[i]]
  <2>2. v = [i \in 0 .. n + 1 |-> v[i]] /\ v[0] = <<>>
    BY <2>1
  <2>3. ASSUME NEW i \in 1 .. n + 1 PROVE v[i] = Go(v[i - 1], i)
    <3>1. CASE i = n + 1
      BY <3>1
    <3>2. CASE i # n + 1
      <4>1. i \in 0 .. n + 1 /\ i - 1 \in 0 .. n + 1 /\ i - 1 # n + 1 /\ i \in 1 .. n
        BY <3>2
      <4>2. v[i] = w[i] /\ v[i - 1] = w[i - 1]
        BY <3>2, <4>1
      <4> HIDE DEF v
      <4> QED BY <2>1, <4>1, <4>2
    <3> QED BY <3>1, <3>2
  <2>4. G(n + 1, v)
    BY <2>2, <2>3
  <2> HIDE DEF G, v
  <2>5. \E u : G(n + 1, u)
    BY <2>4
  <2> QED BY <2>5
<1>3. PICK w : G(N, w)
  <2> HIDE DEF G
  <2>1. Nat \subseteq S
    <3> HIDE DEF S
    <3> QED BY <1>1, <1>2, InductionSet
  <2> QED BY <1>0, <2>1
<1>4. w = D(w)
  BY <1>0, <1>3
<1>5. upto = D(upto)
  <2> HIDE DEF D
  <2> QED BY <1>4
<1> HIDE DEF upto
<1>7. upto[0] = <<>> /\ \A i \in 1 .. N : upto[i] = Go(upto[i - 1], i)
  <2>1. \A i \in 0 .. N : upto[i] = IF i = 0 THEN <<>> ELSE Go(upto[i - 1], i)
    BY <1>5
  <2> QED BY <1>0, <2>1
<1> QED BY <1>6, <1>7 DEF Go, N

\* The blocks of one more member
LEMMA MemberBlocks ==
  ASSUME NEW s \in Seq(Int), NEW x \in Int, NEW d \in Seq(Int)
  PROVE  /\ s \o <<x>> \o d \in Seq(Int) /\ Len(s \o <<x>> \o d) = Len(s) + 1 + Len(d)
         /\ (s \o <<x>> \o d)[Len(s) + 1] = x
         /\ \A j \in 1 .. Len(s) : (s \o <<x>> \o d)[j] = s[j]
<1> DEFINE r == s \o <<x>>
           t == r \o d
<1>1. r \in Seq(Int) /\ Len(r) = Len(s) + 1 /\ r[Len(s) + 1] = x /\ \A j \in 1 .. Len(s) : r[j] = s[j]
  OBVIOUS
<1> HIDE DEF r
<1>4. /\ t \in Seq(Int) /\ Len(t) = Len(r) + Len(d)
      /\ \A j \in 1 .. Len(r) : t[j] = r[j]
  <2>1. r \in Seq(Int)
    BY ONLY <1>1
  <2> QED BY ONLY d \in Seq(Int), <2>1, ConcatAt, Zenon
<1>5. Len(s) \in Nat /\ Len(d) \in Nat
  OBVIOUS
<1> HIDE DEF t
<1>6. \A j \in 1 .. Len(s) : j \in 1 .. Len(r)
  BY <1>1, <1>5
<1>7. Len(s) + 1 \in 1 .. Len(r)
  BY <1>1, <1>5
<1>8. Len(t) = Len(s) + 1 + Len(d)
  BY <1>1, <1>4, <1>5
<1>9. /\ t \in Seq(Int) /\ Len(t) = Len(s) + 1 + Len(d) /\ t[Len(s) + 1] = x
      /\ \A j \in 1 .. Len(s) : t[j] = s[j]
  BY ONLY <1>1, <1>4, <1>6, <1>7, <1>8
<1> QED BY ONLY <1>9 DEF t, r

LEMMA DataBlocks ==
  ASSUME NEW k \in Nat
  PROVE  [b \in 1 .. k |-> DATA] \in Seq(Int) /\ Len([b \in 1 .. k |-> DATA]) = k
  BY DEF DATA

\* The header of each member comes after the data of the one before, and the block
\* of zeros comes last.
LEMMA ImageIs ==
  ASSUME NEW archive, Stated(archive)
  PROVE  LET N == Len(archive)
             image == Image(archive)
         IN  \E at :
               /\ at[0] = 1 /\ at[N] = Len(image) /\ image[at[N]] = END
               /\ \A i \in 0 .. N : at[i] \in Nat /\ i < at[i] /\ at[i] <= Len(image)
               /\ \A i \in 1 .. N : image[at[i - 1]] = i /\ at[i] = at[i - 1] + 1 + Blocks(archive[i].length)
<1> DEFINE N == Len(archive)
           image == Image(archive)
           B(i) == Blocks(archive[i].length)
<1>0. N \in Nat /\ \A i \in 1 .. N : B(i) \in Nat
  BY StrideIs DEF Stated
<1>1. PICK upto :
        /\ image = upto[N] \o <<END>>
        /\ upto[0] = <<>>
        /\ \A i \in 1 .. N : upto[i] = upto[i - 1] \o <<i>> \o [b \in 1 .. B(i) |-> DATA]
  BY ImageTurns
<1> HIDE DEF N, image, B
<1> DEFINE L(i) == Len(upto[i])
           P == {n \in Nat : n <= N => /\ upto[n] \in Seq(Int) /\ n <= L(n)
                                       /\ \A i \in 1 .. n : L(i - 1) \in Nat /\ L(i - 1) < L(n) /\ upto[n][L(i - 1) + 1] = i}
<1>3. 0 \in P
  <2>1. upto[0] \in Seq(Int) /\ Len(upto[0]) = 0
    BY <1>1
  <2>2. \A i \in 1 .. 0 : FALSE
    OBVIOUS
  <2> HIDE DEF L
  <2>3. 0 <= L(0)
    BY <2>1 DEF L
  <2> QED BY <2>1, <2>2, <2>3
<1>4. ASSUME NEW n \in Nat, n \in P PROVE n + 1 \in P
  <2> SUFFICES ASSUME n + 1 <= N
               PROVE  /\ upto[n + 1] \in Seq(Int) /\ n + 1 <= L(n + 1)
                      /\ \A i \in 1 .. n + 1 : /\ L(i - 1) \in Nat /\ L(i - 1) < L(n + 1)
                                               /\ upto[n + 1][L(i - 1) + 1] = i
    OBVIOUS
  <2>1. /\ upto[n] \in Seq(Int) /\ n <= L(n)
        /\ \A i \in 1 .. n : L(i - 1) \in Nat /\ L(i - 1) < L(n) /\ upto[n][L(i - 1) + 1] = i
    BY <1>0, <1>4
  <2>2. n + 1 \in 1 .. N /\ (n + 1) - 1 = n /\ n + 1 \in Int
    BY <1>0
  <2>3. upto[n + 1] = upto[n] \o <<n + 1>> \o [b \in 1 .. B(n + 1) |-> DATA] /\ B(n + 1) \in Nat
    BY <1>0, <1>1, <2>2
  <2>4. /\ upto[n + 1] \in Seq(Int) /\ L(n + 1) = L(n) + 1 + B(n + 1) /\ upto[n + 1][L(n) + 1] = n + 1
        /\ \A j \in 1 .. L(n) : upto[n + 1][j] = upto[n][j]
    <3>1. upto[n] \in Seq(Int)
      BY ONLY <2>1
    <3> DEFINE d == [b \in 1 .. B(n + 1) |-> DATA]
    <3>2. d \in Seq(Int) /\ Len(d) = B(n + 1)
      BY ONLY <2>3, DataBlocks
    <3>3. upto[n + 1] = upto[n] \o <<n + 1>> \o d /\ n + 1 \in Int
      BY ONLY <2>2, <2>3
    <3> HIDE DEF d
    <3> DEFINE s == upto[n]
               x == n + 1
    <3>4. s \in Seq(Int) /\ x \in Int
      BY ONLY <3>1, <3>3
    <3> HIDE DEF s, x
    <3>5. /\ s \o <<x>> \o d \in Seq(Int) /\ Len(s \o <<x>> \o d) = Len(s) + 1 + Len(d)
          /\ (s \o <<x>> \o d)[Len(s) + 1] = x
          /\ \A j \in 1 .. Len(s) : (s \o <<x>> \o d)[j] = s[j]
      <4>1. s \o <<x>> \o d \in Seq(Int) /\ Len(s \o <<x>> \o d) = Len(s) + 1 + Len(d)
        BY ONLY <3>2, <3>4, MemberBlocks
      <4>2. (s \o <<x>> \o d)[Len(s) + 1] = x
        BY ONLY <3>2, <3>4, MemberBlocks
      <4>3. \A j \in 1 .. Len(s) : (s \o <<x>> \o d)[j] = s[j]
        BY ONLY <3>2, <3>4, MemberBlocks
      <4> QED BY ONLY <4>1, <4>2, <4>3
    <3>6. upto[n + 1] = s \o <<x>> \o d
      BY ONLY <3>3 DEF s, x
    <3>7. /\ upto[n + 1] \in Seq(Int) /\ Len(upto[n + 1]) = Len(s) + 1 + B(n + 1)
          /\ upto[n + 1][Len(s) + 1] = x
          /\ \A j \in 1 .. Len(s) : upto[n + 1][j] = s[j]
      BY ONLY <3>2, <3>5, <3>6
    <3> QED BY ONLY <3>7 DEF s, x
  <2>5. L(n) \in Nat
    BY <2>1
  <2> HIDE DEF L
  <2>6. ASSUME NEW i \in 1 .. n + 1
        PROVE  L(i - 1) \in Nat /\ L(i - 1) < L(n + 1) /\ upto[n + 1][L(i - 1) + 1] = i
    <3>0. L(n) < L(n + 1)
      BY ONLY <2>3, <2>4, <2>5
    <3>1. CASE i = n + 1
      <4>1. i - 1 = n
        BY ONLY <3>1, n \in Nat
      <4>2. L(i - 1) = L(n)
        BY ONLY <4>1
      <4>3. upto[n + 1][L(n) + 1] = n + 1
        BY ONLY <2>4
      <4> QED BY ONLY <2>5, <3>0, <3>1, <4>2, <4>3
    <3>2. CASE i \in 1 .. n
      <4>1. L(i - 1) \in Nat /\ L(i - 1) < L(n) /\ upto[n][L(i - 1) + 1] = i
        BY <2>1, <3>2 DEF L
      <4>2. L(i - 1) + 1 \in 1 .. L(n)
        BY ONLY <2>5, <4>1
      <4>3. L(n + 1) \in Nat
        BY ONLY <2>3, <2>4, <2>5
      <4>4. L(i - 1) < L(n + 1)
        BY ONLY <2>5, <3>0, <4>1, <4>3
      <4> QED BY ONLY <2>4, <4>1, <4>2, <4>4
    <3> QED BY <3>1, <3>2
  <2>7. n + 1 <= L(n + 1)
    <3>1. n <= L(n)
      BY <2>1 DEF L
    <3> QED BY ONLY <3>1, <2>3, <2>4, <2>5, n \in Nat
  <2> QED BY ONLY <2>4, <2>6, <2>7
<1>5. Nat \subseteq P
  <2> HIDE DEF P
  <2> QED BY <1>3, <1>4, InductionSet
<1>6. ASSUME NEW n \in 0 .. N
      PROVE  /\ upto[n] \in Seq(Int) /\ n <= L(n) /\ L(n) \in Nat
             /\ \A i \in 1 .. n : L(i - 1) < L(n) /\ upto[n][L(i - 1) + 1] = i
  <2>1. n \in P /\ n <= N /\ n \in Nat
    BY <1>0, <1>5
  <2>2. /\ upto[n] \in Seq(Int) /\ n <= L(n)
        /\ \A i \in 1 .. n : L(i - 1) \in Nat /\ L(i - 1) < L(n) /\ upto[n][L(i - 1) + 1] = i
    <3> HIDE DEF L
    <3> QED BY ONLY <2>1 DEF P
  <2>3. L(n) \in Nat
    BY ONLY <2>2 DEF L
  <2> HIDE DEF L
  <2> QED BY ONLY <2>2, <2>3
<1> DEFINE at == [i \in 0 .. N |-> L(i) + 1]
<1>7. /\ Len(image) = L(N) + 1 /\ image[L(N) + 1] = END
      /\ \A j \in 1 .. L(N) : image[j] = upto[N][j]
  <2>1. upto[N] \in Seq(Int)
    BY <1>0, <1>6
  <2> QED BY <1>1, <2>1 DEF END
<1>8. at[0] = 1 /\ at[N] = Len(image) /\ image[at[N]] = END
  <2>1. L(0) = 0
    BY <1>1
  <2> QED BY <1>0, <1>7, <2>1
<1> HIDE DEF L
<1>9. ASSUME NEW i \in 0 .. N PROVE at[i] \in Nat /\ i < at[i] /\ at[i] <= Len(image)
  <2>1. i <= L(i) /\ L(i) \in Nat /\ L(N) \in Nat
    BY <1>0, <1>6
  <2>2. L(i) <= L(N)
    <3>1. CASE i = N
      BY <2>1, <3>1
    <3>2. CASE i # N
      <4>1. i + 1 \in 1 .. N /\ (i + 1) - 1 = i /\ N \in 0 .. N
        BY <1>0, <3>2
      <4>2. L((i + 1) - 1) < L(N)
        BY <1>6, <4>1
      <4> QED BY <2>1, <4>1, <4>2
    <3> QED BY <3>1, <3>2
  <2> QED BY <1>7, <2>1, <2>2
<1>10. ASSUME NEW i \in 1 .. N
       PROVE  image[at[i - 1]] = i /\ at[i] = at[i - 1] + 1 + B(i)
  <2>1. i - 1 \in 0 .. N /\ i \in 0 .. N /\ N \in 0 .. N
    BY <1>0
  <2>2. L(i - 1) \in Nat /\ L(N) \in Nat /\ L(i - 1) < L(N) /\ upto[N][L(i - 1) + 1] = i
    <3>1. L(i - 1) \in Nat
      BY ONLY <1>6, <2>1
    <3>2. L(N) \in Nat /\ \A j \in 1 .. N : L(j - 1) < L(N) /\ upto[N][L(j - 1) + 1] = j
      BY ONLY <1>6, <2>1
    <3> QED BY ONLY i \in 1 .. N, <3>1, <3>2
  <2>3. L(i - 1) + 1 \in 1 .. L(N)
    BY <2>2
  <2>4. L(i) = L(i - 1) + 1 + B(i)
    <3>1. upto[i - 1] \in Seq(Int)
      BY <1>6, <2>1
    <3>2. upto[i] = upto[i - 1] \o <<i>> \o [b \in 1 .. B(i) |-> DATA]
      BY ONLY <1>1, i \in 1 .. N
    <3>3. B(i) \in Nat /\ i \in Int
      BY ONLY <1>0, i \in 1 .. N
    <3> DEFINE d == [b \in 1 .. B(i) |-> DATA]
    <3>4. d \in Seq(Int) /\ Len(d) = B(i)
      BY ONLY <3>3, DataBlocks
    <3>5. upto[i] = upto[i - 1] \o <<i>> \o d
      BY ONLY <3>2
    <3> HIDE DEF d
    <3> DEFINE s == upto[i - 1]
    <3>6. s \in Seq(Int)
      BY ONLY <3>1
    <3>7. upto[i] = s \o <<i>> \o d
      BY ONLY <3>5
    <3> HIDE DEF s
    <3>8. Len(s \o <<i>> \o d) = Len(s) + 1 + Len(d)
      BY ONLY <3>3, <3>4, <3>6, MemberBlocks
    <3>9. Len(upto[i]) = Len(s) + 1 + B(i)
      BY ONLY <3>4, <3>7, <3>8
    <3> QED BY ONLY <3>9 DEF L, s
  <2>5. at[i - 1] = L(i - 1) + 1 /\ at[i] = L(i) + 1
    BY ONLY <2>1
  <2>6. image[L(i - 1) + 1] = i
    BY ONLY <1>7, <2>2, <2>3
  <2>7. L(i) + 1 = (L(i - 1) + 1) + 1 + B(i)
    <3>1. B(i) \in Nat
      BY ONLY <1>0, i \in 1 .. N
    <3> QED BY ONLY <2>2, <2>4, <3>1
  <2> QED BY ONLY <2>5, <2>6, <2>7
<1> HIDE DEF at
<1> QED BY <1>8, <1>9, <1>10 DEF N, image, B

\* The members up to n
UpTo(n) == [j \in 1 .. n |-> j]

LEMMA UpToNext ==
  ASSUME NEW n \in Nat
  PROVE  Append(UpTo(n), n + 1) = UpTo(n + 1)
<1>1. UpTo(n) \in Seq(Nat) /\ Len(UpTo(n)) = n
  BY DEF UpTo
<1>2. /\ Append(UpTo(n), n + 1) \in Seq(Nat) /\ Len(Append(UpTo(n), n + 1)) = n + 1
      /\ Append(UpTo(n), n + 1)[n + 1] = n + 1
      /\ \A j \in 1 .. n : Append(UpTo(n), n + 1)[j] = UpTo(n)[j]
  BY <1>1
<1>3. UpTo(n + 1) \in Seq(Nat) /\ Len(UpTo(n + 1)) = n + 1
  BY DEF UpTo
<1>4. ASSUME NEW j \in 1 .. n + 1 PROVE Append(UpTo(n), n + 1)[j] = UpTo(n + 1)[j]
  <2>1. UpTo(n + 1)[j] = j
    BY DEF UpTo
  <2>2. j = n + 1 \/ (j \in 1 .. n /\ UpTo(n)[j] = j)
    BY DEF UpTo
  <2> QED BY ONLY <1>2, <2>1, <2>2
<1>5. \A s, t \in Seq(Nat) : Len(s) = Len(t) /\ (\A j \in 1 .. Len(s) : s[j] = t[j]) => s = t
  BY ONLY TRUE
<1> QED BY ONLY <1>2, <1>3, <1>4, <1>5

\* Where memory suffices, the first loop of init_nodes comes to every header, and
\* to nothing else.
LEMMA HeadersIs ==
  ASSUME NEW archive, Stated(archive)
  PROVE  Headers(archive, Image(archive), {}) = UpTo(Len(archive))
<1> DEFINE N == Len(archive)
           image == Image(archive)
           M == Len(image)
           Go(s) == IF s.bx > M \/ image[s.bx] = END THEN s
                    ELSE [bx |-> s.bx + Stride(octal2int(Header(archive, image[s.bx]).size)),
                          nodes |-> IF image[s.bx] \in {} THEN s.nodes ELSE Append(s.nodes, image[s.bx])]
           a == [bx |-> 1, nodes |-> <<>>]
           D(u) == [i \in 0 .. M |-> IF i = 0 THEN a ELSE Go(u[i - 1])]
           turn == CHOOSE u : u = D(u)
<1>1. Headers(archive, image, {}) = turn[M].nodes
  BY DEF Headers
<1>2. PICK at :
        /\ at[0] = 1 /\ at[N] = M /\ image[at[N]] = END
        /\ \A i \in 0 .. N : at[i] \in Nat /\ i < at[i] /\ at[i] <= M
        /\ \A i \in 1 .. N : image[at[i - 1]] = i /\ at[i] = at[i - 1] + 1 + Blocks(archive[i].length)
  BY ImageIs
<1>3. N \in Nat /\ \A i \in 1 .. N : archive[i].length \in Nat /\ octal2int(archive[i].size) = archive[i].length
  BY DEF Stated
<1> HIDE DEF N, image, M
<1>4. M \in Nat /\ N <= M
  <2>1. N \in 0 .. N
    BY ONLY <1>3
  <2> QED BY ONLY <1>2, <1>3, <2>1
<1> DEFINE St(i) == [bx |-> at[i], nodes |-> UpTo(i)]
           w == [i \in 0 .. M |-> St(IF i <= N THEN i ELSE N)]
<1>5. ASSUME NEW i \in 1 .. N PROVE Go(St(i - 1)) = St(i)
  <2>1. i - 1 \in 0 .. N /\ i - 1 \in Nat /\ (i - 1) + 1 = i /\ i \in Int /\ i > 0
    BY <1>3
  <2>2. at[i - 1] \in Nat /\ at[i - 1] <= M
    BY ONLY <1>2, <2>1
  <2>3. image[at[i - 1]] = i /\ at[i] = at[i - 1] + 1 + Blocks(archive[i].length)
    BY ONLY <1>2, i \in 1 .. N
  <2>4. i # END /\ i # DATA
    BY ONLY <2>1 DEF END, DATA
  <2>5. Stride(octal2int(Header(archive, i).size)) = Blocks(archive[i].length) + 1
        /\ Blocks(archive[i].length) \in Nat
    BY ONLY <1>3, <2>4, StrideIs, i \in 1 .. N DEF Header
  <2>6. Append(UpTo(i - 1), i) = UpTo(i)
    BY ONLY <2>1, UpToNext
  <2> DEFINE s == St(i - 1)
  <2>7. s.bx = at[i - 1] /\ s.nodes = UpTo(i - 1)
    OBVIOUS
  <2> HIDE DEF s
  <2>8. ~(s.bx > M \/ image[s.bx] = END)
    BY ONLY <1>4, <2>2, <2>3, <2>4, <2>7
  <2>9. Go(s) = [bx |-> s.bx + Stride(octal2int(Header(archive, image[s.bx]).size)),
                 nodes |-> Append(s.nodes, image[s.bx])]
    BY ONLY <2>8
  <2>10. s.bx + Stride(octal2int(Header(archive, image[s.bx]).size)) = at[i]
    BY ONLY <2>2, <2>3, <2>5, <2>7
  <2>11. Append(s.nodes, image[s.bx]) = UpTo(i)
    BY ONLY <2>3, <2>6, <2>7
  <2> QED BY ONLY <2>9, <2>10, <2>11 DEF s
<1>6. Go(St(N)) = St(N)
  BY <1>2
<1> HIDE DEF Go, St
<1>7. a = St(0)
  <2>1. UpTo(0) = <<>>
    BY DEF UpTo
  <2> QED BY <1>2, <2>1 DEF St
<1>8. w = D(w)
  <2>1. ASSUME NEW i \in 0 .. M PROVE w[i] = IF i = 0 THEN a ELSE Go(w[i - 1])
    <3>1. CASE i = 0
      BY <1>3, <1>7, <3>1
    <3>2. CASE i # 0 /\ i <= N
      <4>1. i \in 1 .. N /\ i - 1 \in 0 .. M /\ i - 1 <= N
        BY ONLY <1>3, <1>4, <3>2, i \in 0 .. M
      <4>2. w[i] = St(i) /\ w[i - 1] = St(i - 1)
        BY ONLY <3>2, <4>1, i \in 0 .. M
      <4> QED BY ONLY <1>5, <3>2, <4>1, <4>2
    <3>3. CASE i > N
      <4>1. i # 0 /\ ~(i <= N) /\ i - 1 \in 0 .. M /\ (~(i - 1 <= N) \/ i - 1 = N)
        BY ONLY <1>3, <1>4, <3>3, i \in 0 .. M
      <4>2. w[i] = St(N) /\ w[i - 1] = St(N)
        BY ONLY <4>1, i \in 0 .. M
      <4> QED BY ONLY <1>6, <4>1, <4>2
    <3> QED BY ONLY <1>3, <1>4, <3>1, <3>2, <3>3, i \in 0 .. M
  <2>2. w = [i \in 0 .. M |-> w[i]]
    OBVIOUS
  <2> HIDE DEF w
  <2> QED BY ONLY <2>1, <2>2
<1>9. turn = D(turn)
  <2> HIDE DEF D, w
  <2> QED BY ONLY <1>8
<1> HIDE DEF w, turn
<1> DEFINE P == {n \in Nat : n <= M => turn[n] = w[n]}
<1>10. ASSUME NEW u, u = D(u), NEW i \in 0 .. M PROVE u[i] = IF i = 0 THEN a ELSE Go(u[i - 1])
  BY ONLY <1>10
<1> HIDE DEF D
<1>11. 0 \in P
  <2>1. 0 \in 0 .. M
    BY ONLY <1>4
  <2> QED BY ONLY <1>8, <1>9, <1>10, <2>1
<1>12. ASSUME NEW n \in Nat, n \in P PROVE n + 1 \in P
  <2> SUFFICES ASSUME n + 1 <= M PROVE turn[n + 1] = w[n + 1]
    OBVIOUS
  <2>1. n + 1 \in 0 .. M /\ n + 1 # 0 /\ (n + 1) - 1 = n /\ n <= M
    BY ONLY <1>4, n + 1 <= M, n \in Nat
  <2>2. turn[n] = w[n]
    BY ONLY <1>12, <2>1
  <2>3. turn[n + 1] = Go(turn[n])
    BY ONLY <1>9, <1>10, <2>1
  <2>4. w[n + 1] = Go(w[n])
    BY ONLY <1>8, <1>10, <2>1
  <2> QED BY ONLY <2>2, <2>3, <2>4
<1>13. turn[M] = w[M]
  <2>1. Nat \subseteq P
    <3> HIDE DEF P
    <3> QED BY ONLY <1>11, <1>12, InductionSet
  <2> QED BY ONLY <1>4, <2>1
<1>14. w[M] = St(N)
  BY ONLY <1>3, <1>4 DEF w
<1> QED BY <1>1, <1>13, <1>14 DEF St, N, image

\* The first member with a path, 0 if there is none
At(archive, path) == First({k \in DOMAIN archive : Normal(archive[k].name) = path})

LEMMA AtIs ==
  ASSUME NEW archive, DOMAIN archive \subseteq Nat \ {0}, NEW path
  PROVE  \/ At(archive, path) = 0 /\ \A k \in DOMAIN archive : Normal(archive[k].name) # path
         \/ /\ At(archive, path) \in DOMAIN archive /\ At(archive, path) # 0
            /\ Normal(archive[At(archive, path)].name) = path
<1> DEFINE I == {k \in DOMAIN archive : Normal(archive[k].name) = path}
<1>1. I \subseteq Nat \ {0}
  OBVIOUS
<1> HIDE DEF I
<1>2. (I = {} /\ First(I) = 0) \/ (First(I) \in I /\ First(I) # 0)
  BY <1>1, FirstIs
<1>3. First(I) = At(archive, path)
  BY DEF I, At
<1> HIDE DEF At
<1> QED BY <1>2, <1>3 DEF I

\* The flags of a node
FlagsOf(type) == CASE type = "0" -> VN_FREGFILE [] type = "5" -> VN_FDIR [] OTHER -> 0

LEMMA FlagsAre ==
  ASSUME NEW type
  PROVE  /\ (FlagsOf(type) = VN_FDIR) <=> (type = "5")
         /\ ((FlagsOf(type) \div 2) % 2 = 0) <=> (type # "5")
<1>1. "0" # "5"
  OBVIOUS
<1>2. CASE type = "5"
  <2>1. FlagsOf(type) = 2
    BY <1>1, <1>2 DEF FlagsOf, VN_FDIR, VN_FREGFILE
  <2> QED BY <1>2, <2>1 DEF VN_FDIR
<1>3. CASE type # "5"
  <2>1. FlagsOf(type) \in {0, 1}
    BY <1>3 DEF FlagsOf, VN_FDIR, VN_FREGFILE
  <2> QED BY <1>3, <2>1 DEF VN_FDIR
<1> QED BY <1>2, <1>3

\* The node of every member and the root, as init_nodes and reassemble_nodes make
\* them where memory suffices
LEMMA TreeIs ==
  ASSUME NEW archive, Stated(archive), DOMAIN archive = 1 .. Len(archive)
  PROVE  /\ DOMAIN init_nodes(archive, {}) = DOMAIN archive
         /\ \A i \in DOMAIN archive :
              LET t == init_nodes(archive, {})[i]
                  path == Normal(archive[i].name)
              IN  /\ t.name = split_basename(path).basename
                  /\ t.parent = IF path = <<>> THEN 0 ELSE At(archive, split_basename(path).dirname)
                  /\ t.flags = FlagsOf(archive[i].type)
                  /\ t.member = i
         /\ RootMember(archive, {}) = At(archive, <<>>)
<1> DEFINE N == Len(archive)
           headers == UpTo(N)
<1>0. N \in Nat
  BY DEF Stated
<1>1. Headers(archive, Image(archive), {}) = headers
  BY HeadersIs
<1>2. DOMAIN headers = 1 .. N /\ Len(headers) = N /\ \A i \in 1 .. N : headers[i] = i
  BY <1>0 DEF UpTo
<1>3. ASSUME NEW i \in 1 .. N PROVE Header(archive, i) = archive[i]
  BY <1>0 DEF Header, DATA
<1>4. DOMAIN archive = 1 .. N
  OBVIOUS
<1> HIDE DEF headers, N
<1>5. ASSUME NEW path PROVE lookup_vnode(headers, archive, path) = At(archive, path)
  <2>1. \A i \in 1 .. N : Header(archive, headers[i]) = archive[i]
    BY <1>2, <1>3
  <2>2. {i \in DOMAIN headers : Normal(Header(archive, headers[i]).name) = path}
          = {k \in DOMAIN archive : Normal(archive[k].name) = path}
    BY <1>2, <1>4, <2>1
  <2> QED BY <2>2 DEF lookup_vnode, At
<1>6. init_nodes(archive, {}) = [i \in 1 .. N |-> reassemble_nodes(headers, archive, i)]
  BY <1>1, <1>2 DEF init_nodes
<1>7. ASSUME NEW i \in 1 .. N
      PROVE  LET t == init_nodes(archive, {})[i]
                 path == Normal(archive[i].name)
             IN  /\ t.name = split_basename(path).basename
                 /\ t.parent = IF path = <<>> THEN 0 ELSE At(archive, split_basename(path).dirname)
                 /\ t.flags = FlagsOf(archive[i].type)
                 /\ t.member = i
  <2> DEFINE path == Normal(archive[i].name)
             t == reassemble_nodes(headers, archive, i)
  <2>1. init_nodes(archive, {})[i] = t
    BY <1>6
  <2>2. headers[i] = i /\ Header(archive, headers[i]) = archive[i]
    BY <1>2, <1>3
  <2>3. t = [name |-> split_basename(path).basename,
             parent |-> IF path = <<>> THEN 0 ELSE lookup_vnode(headers, archive, split_basename(path).dirname),
             flags |-> FlagsOf(archive[i].type),
             member |-> i]
    BY <2>2 DEF reassemble_nodes, FlagsOf
  <2> HIDE DEF t, path
  <2>4. /\ t.name = split_basename(path).basename
        /\ t.parent = IF path = <<>> THEN 0 ELSE At(archive, split_basename(path).dirname)
        /\ t.flags = FlagsOf(archive[i].type)
        /\ t.member = i
    BY <1>5, <2>3
  <2> QED BY <2>1, <2>4 DEF path
<1>8. RootMember(archive, {}) = At(archive, <<>>)
  BY <1>1, <1>5 DEF RootMember
<1>9. DOMAIN init_nodes(archive, {}) = 1 .. N
  BY <1>6
<1> QED BY <1>4, <1>7, <1>8, <1>9

----------------------------------------------------------------------------
(* The parts of a path *)

LEMMA SubSeqIs ==
  ASSUME NEW S, NEW s \in Seq(S), NEW a \in Nat, NEW b \in Int, 1 <= a, a <= b + 1, b <= Len(s)
  PROVE  /\ SubSeq(s, a, b) \in Seq(S) /\ Len(SubSeq(s, a, b)) = b - a + 1
         /\ \A j \in 1 .. b - a + 1 : SubSeq(s, a, b)[j] = s[a + j - 1]
  OBVIOUS

LEMMA SameSeq ==
  ASSUME NEW S, NEW s \in Seq(S), NEW t \in Seq(S), Len(s) = Len(t),
         \A j \in 1 .. Len(s) : s[j] = t[j]
  PROVE  s = t
  OBVIOUS

LEMMA MaxIs ==
  ASSUME NEW n \in Nat, NEW I, I \subseteq 1 .. n, I # {}
  PROVE  Max(I) \in I /\ \A j \in I : j <= Max(I)
<1> DEFINE R == {n - i : i \in I}
<1>1. R \subseteq Nat /\ R # {}
  <2>1. \A i \in I : i \in 1 .. n /\ n - i \in Nat
    OBVIOUS
  <2>2. \E i : i \in I
    OBVIOUS
  <2> QED BY ONLY <2>1, <2>2
<1> HIDE DEF R
<1>2. PICK x \in R : \A y \in R : x <= y
  BY <1>1, LeastNatural
<1>3. PICK m \in I : x = n - m
  BY DEF R
<1>4. ASSUME NEW j \in I PROVE m >= j
  <2>1. n - j \in R
    BY DEF R
  <2>2. n - m <= n - j
    BY <1>2, <1>3, <2>1
  <2> QED BY <2>2
<1>5. \E y \in I : \A j \in I : y >= j
  BY <1>4
<1>6. Max(I) \in I /\ \A j \in I : Max(I) >= j
  BY <1>5 DEF Max
<1> QED BY <1>6

\* split_basename cuts a path at its last slash.
LEMMA SplitCases ==
  ASSUME NEW S, NEW r \in Seq(S)
  PROVE  LET parts == split_basename(r)
         IN  \/ /\ \A j \in 1 .. Len(r) : r[j] # "/"
                /\ parts.dirname = <<>> /\ parts.basename = r
             \/ \E i \in 1 .. Len(r) :
                  /\ r[i] = "/" /\ \A j \in 1 .. Len(r) : r[j] = "/" => j <= i
                  /\ parts.dirname = SubSeq(r, 1, i - 1)
                  /\ parts.basename = SubSeq(r, i + 1, Len(r))
<1> DEFINE I == Positions(r, "/")
<1>1. \A j : (j \in I) <=> (j \in 1 .. Len(r) /\ r[j] = "/")
  BY DEF Positions
<1>2. CASE I = {}
  <2>1. split_basename(r) = [dirname |-> <<>>, basename |-> r]
    BY <1>2 DEF split_basename
  <2> QED BY <1>1, <1>2, <2>1
<1>3. CASE I # {}
  <2> DEFINE i == Max(I)
  <2>1. split_basename(r) = [dirname |-> SubSeq(r, 1, i - 1), basename |-> SubSeq(r, i + 1, Len(r))]
    BY <1>3 DEF split_basename
  <2>2. i \in I /\ \A j \in I : j <= i
    <3>1. I \subseteq 1 .. Len(r) /\ Len(r) \in Nat
      BY <1>1
    <3> HIDE DEF I
    <3> QED BY <1>3, <3>1, MaxIs
  <2> HIDE DEF i, I
  <2>3. i \in 1 .. Len(r) /\ r[i] = "/" /\ \A j \in 1 .. Len(r) : r[j] = "/" => j <= i
    BY ONLY <1>1, <2>2
  <2>4. /\ split_basename(r).dirname = SubSeq(r, 1, i - 1)
        /\ split_basename(r).basename = SubSeq(r, i + 1, Len(r))
    <3> DEFINE x == SubSeq(r, 1, i - 1)
               y == SubSeq(r, i + 1, Len(r))
    <3>1. split_basename(r) = [dirname |-> x, basename |-> y]
      BY ONLY <2>1
    <3> HIDE DEF x, y
    <3>2. split_basename(r).dirname = x /\ split_basename(r).basename = y
      BY ONLY <3>1
    <3> QED BY ONLY <3>2 DEF x, y
  <2> QED BY ONLY <2>3, <2>4
<1> QED BY ONLY <1>2, <1>3

\* What comes before position k of a path, where k is 0 or that of a slash
Pre(q, k) == IF k = 0 THEN <<>> ELSE SubSeq(q, 1, k - 1)

\* k2 is the end of the component that begins after position k.
Component(q, k, k2) ==
  /\ k2 \in k + 1 .. Len(q) + 1
  /\ \A j \in k + 1 .. k2 - 1 : q[j] # "/"
  /\ k2 = Len(q) + 1 \/ q[k2] = "/"

\* strsep takes a component off what is left of a path.
LEMMA NextComponent ==
  ASSUME NEW S, NEW q \in Seq(S), NEW k \in 0 .. Len(q)
  PROVE  \E k2 : /\ Component(q, k, k2)
                 /\ strsep(SubSeq(q, k + 1, Len(q)), "/")
                      = [out |-> SubSeq(q, k + 1, k2 - 1),
                         rest |-> IF k2 = Len(q) + 1 THEN NoString ELSE SubSeq(q, k2 + 1, Len(q))]
<1> DEFINE N == Len(q)
           s == SubSeq(q, k + 1, N)
           I == Positions(s, "/")
<1>0. N \in Nat /\ k \in Nat /\ k <= N
  OBVIOUS
<1>1. s \in Seq(S) /\ Len(s) = N - k /\ \A j \in 1 .. N - k : s[j] = q[k + j]
  <2>1. /\ s \in Seq(S) /\ Len(s) = N - (k + 1) + 1
        /\ \A j \in 1 .. N - (k + 1) + 1 : s[j] = q[(k + 1) + j - 1]
    BY <1>0, SubSeqIs
  <2>2. N - (k + 1) + 1 = N - k /\ \A j \in Nat : (k + 1) + j - 1 = k + j
    BY <1>0
  <2> HIDE DEF s
  <2> QED BY <2>1, <2>2
<1> HIDE DEF N, s
<1>2. \A j : (j \in I) <=> (j \in 1 .. N - k /\ q[k + j] = "/")
  BY <1>1 DEF Positions
<1>3. CASE I = {}
  <2>1. strsep(s, "/") = [out |-> s, rest |-> NoString]
    BY <1>3 DEF strsep
  <2>2. ASSUME NEW j \in k + 1 .. N PROVE q[j] # "/"
    <3>1. j - k \in 1 .. N - k /\ k + (j - k) = j
      BY ONLY <1>0, j \in k + 1 .. N
    <3> QED BY ONLY <1>2, <1>3, <3>1
  <2>3. N + 1 \in k + 1 .. N + 1 /\ (N + 1) - 1 = N
    BY ONLY <1>0
  <2>4. Component(q, k, N + 1)
    BY ONLY <2>2, <2>3 DEF Component, N
  <2> QED BY <2>1, <2>3, <2>4 DEF s, N
<1>4. CASE I # {}
  <2> DEFINE i == Min(I)
  <2>1. strsep(s, "/") = [out |-> SubSeq(s, 1, i - 1), rest |-> SubSeq(s, i + 1, Len(s))]
    BY <1>4 DEF strsep
  <2>2. i \in I /\ \A j \in I : i <= j
    <3>1. I \subseteq Nat
      BY <1>2, <1>0
    <3> HIDE DEF I
    <3> QED BY <1>4, <3>1, MinIs
  <2> HIDE DEF i, I
  <2>3. i \in 1 .. N - k /\ q[k + i] = "/"
    BY ONLY <1>2, <2>2
  <2> DEFINE k2 == k + i
  <2>4. /\ k2 \in k + 1 .. N + 1 /\ k2 <= N /\ k2 # N + 1 /\ i \in Nat /\ k2 \in Nat
    BY ONLY <1>0, <2>3
  <2>5. ASSUME NEW j \in k + 1 .. k2 - 1 PROVE q[j] # "/"
    <3>1. j - k \in 1 .. N - k /\ k + (j - k) = j /\ ~(i <= j - k)
      BY ONLY <1>0, <2>4, j \in k + 1 .. k2 - 1
    <3> QED BY ONLY <1>2, <2>2, <3>1
  <2>6. Component(q, k, k2)
    BY ONLY <2>3, <2>4, <2>5 DEF Component, N
  <2>7. SubSeq(s, 1, i - 1) = SubSeq(q, k + 1, k2 - 1)
    <3>1. i - 1 \in Int /\ 1 <= (i - 1) + 1 /\ i - 1 <= Len(s) /\ 1 \in Nat /\ 1 <= 1 /\ i - 1 - 1 + 1 = i - 1
      BY ONLY <1>0, <1>1, <2>3, <2>4
    <3>2. /\ SubSeq(s, 1, i - 1) \in Seq(S) /\ Len(SubSeq(s, 1, i - 1)) = i - 1
          /\ \A j \in 1 .. i - 1 : SubSeq(s, 1, i - 1)[j] = s[1 + j - 1]
      <4>1. s \in Seq(S)
        BY <1>1
      <4> QED BY ONLY <3>1, <4>1, SubSeqIs
    <3>3. k2 - 1 \in Int /\ k + 1 \in Nat /\ 1 <= k + 1 /\ k + 1 <= (k2 - 1) + 1 /\ k2 - 1 <= Len(q)
          /\ k2 - 1 - (k + 1) + 1 = i - 1
      BY ONLY <1>0, <2>4 DEF N
    <3>4. /\ SubSeq(q, k + 1, k2 - 1) \in Seq(S) /\ Len(SubSeq(q, k + 1, k2 - 1)) = i - 1
          /\ \A j \in 1 .. i - 1 : SubSeq(q, k + 1, k2 - 1)[j] = q[(k + 1) + j - 1]
      <4> HIDE DEF k2
      <4> QED BY ONLY <3>3, q \in Seq(S), SubSeqIs
    <3>5. ASSUME NEW j \in 1 .. i - 1 PROVE s[1 + j - 1] = q[(k + 1) + j - 1]
      <4>1. 1 + j - 1 = j /\ (k + 1) + j - 1 = k + j /\ j \in 1 .. N - k
        BY ONLY <1>0, <2>3, <2>4, j \in 1 .. i - 1
      <4> QED BY ONLY <1>1, <4>1
    <3> QED BY ONLY <3>2, <3>4, <3>5, SameSeq
  <2>8. SubSeq(s, i + 1, Len(s)) = SubSeq(q, k2 + 1, N)
    <3>1. i + 1 \in Nat /\ Len(s) \in Int /\ 1 <= i + 1 /\ i + 1 <= Len(s) + 1 /\ Len(s) <= Len(s) /\ Len(s) - (i + 1) + 1 = N - k2
      BY ONLY <1>0, <1>1, <2>3, <2>4
    <3>2. /\ SubSeq(s, i + 1, Len(s)) \in Seq(S) /\ Len(SubSeq(s, i + 1, Len(s))) = N - k2
          /\ \A j \in 1 .. N - k2 : SubSeq(s, i + 1, Len(s))[j] = s[(i + 1) + j - 1]
      <4>1. s \in Seq(S)
        BY <1>1
      <4> HIDE DEF k2
      <4> QED BY ONLY <3>1, <4>1, SubSeqIs
    <3>3. k2 + 1 \in Nat /\ N \in Int /\ 1 <= k2 + 1 /\ k2 + 1 <= N + 1 /\ N <= Len(q) /\ N - (k2 + 1) + 1 = N - k2
      BY ONLY <1>0, <2>4 DEF N
    <3>4. /\ SubSeq(q, k2 + 1, N) \in Seq(S) /\ Len(SubSeq(q, k2 + 1, N)) = N - k2
          /\ \A j \in 1 .. N - k2 : SubSeq(q, k2 + 1, N)[j] = q[(k2 + 1) + j - 1]
      <4> HIDE DEF k2
      <4> QED BY ONLY <3>3, q \in Seq(S), SubSeqIs
    <3>5. ASSUME NEW j \in 1 .. N - k2 PROVE s[(i + 1) + j - 1] = q[(k2 + 1) + j - 1]
      <4>1. (i + 1) + j - 1 \in 1 .. N - k /\ (k2 + 1) + j - 1 = k + ((i + 1) + j - 1)
        BY ONLY <1>0, <2>3, <2>4, j \in 1 .. N - k2
      <4> QED BY ONLY <1>1, <4>1
    <3> QED BY ONLY <3>2, <3>4, <3>5, SameSeq
  <2>9. strsep(s, "/") = [out |-> SubSeq(q, k + 1, k2 - 1),
                          rest |-> IF k2 = N + 1 THEN NoString ELSE SubSeq(q, k2 + 1, N)]
    BY ONLY <2>1, <2>4, <2>7, <2>8
  <2> HIDE DEF k2
  <2> QED BY ONLY <2>6, <2>9 DEF s, N
<1> QED BY <1>3, <1>4

\* A member whose path has no slash before or after it is the one that the component
\* names, in the directory that the path before it names, if its path is that far
\* the path.
LEMMA SplitIs ==
  ASSUME NEW S, NEW q \in Seq(S), NEW r \in Seq(S), NEW k \in 0 .. Len(q), NEW k2,
         r # <<>>, Positions(r, "/") \cap {1, Len(r)} = {},
         k # 1, k # 0 => q[k] = "/", Component(q, k, k2)
  PROVE  (/\ split_basename(r).dirname = Pre(q, k)
          /\ split_basename(r).basename = SubSeq(q, k + 1, k2 - 1))
         <=> r = SubSeq(q, 1, k2 - 1)
<1> DEFINE N == Len(q)
           n == Len(r)
           parts == split_basename(r)
           c == SubSeq(q, k + 1, k2 - 1)
           p == Pre(q, k)
           u == SubSeq(q, 1, k2 - 1)
<1>0. /\ N \in Nat /\ k \in Nat /\ k <= N /\ k2 \in Nat /\ k < k2 /\ k2 <= N + 1
      /\ n \in Nat /\ n > 0 /\ k \in Int
  <2>1. n \in Nat /\ n > 0
    OBVIOUS
  <2>2. N \in Nat /\ k \in Nat /\ k <= N /\ k2 \in k + 1 .. N + 1
    BY DEF Component
  <2> HIDE DEF N, n
  <2> QED BY <2>1, <2>2
<1>1. r[1] # "/" /\ r[n] # "/"
  <2> HIDE DEF n
  <2>1. 1 \in 1 .. n /\ n \in 1 .. n
    BY ONLY <1>0
  <2> QED BY <2>1 DEF Positions, n
<1>2. \A j \in k + 1 .. k2 - 1 : q[j] # "/"
  BY DEF Component
<1>3. c \in Seq(S) /\ Len(c) = k2 - 1 - k /\ \A j \in 1 .. k2 - 1 - k : c[j] = q[k + j]
  <2>1. k + 1 \in Nat /\ k2 - 1 \in Int /\ 1 <= k + 1 /\ k + 1 <= (k2 - 1) + 1 /\ k2 - 1 <= N
    BY ONLY <1>0
  <2>2. /\ c \in Seq(S) /\ Len(c) = (k2 - 1) - (k + 1) + 1
        /\ \A j \in 1 .. (k2 - 1) - (k + 1) + 1 : c[j] = q[(k + 1) + j - 1]
    BY ONLY <2>1, q \in Seq(S), SubSeqIs
  <2>3. (k2 - 1) - (k + 1) + 1 = k2 - 1 - k /\ \A j \in Nat : (k + 1) + j - 1 = k + j
    BY ONLY <1>0
  <2> HIDE DEF c
  <2> QED BY ONLY <1>0, <2>2, <2>3
<1>4. p \in Seq(S) /\ (k = 0 => p = <<>>) /\ (k # 0 => Len(p) = k - 1 /\ \A j \in 1 .. k - 1 : p[j] = q[j])
  <2>1. CASE k = 0
    BY <2>1 DEF Pre
  <2>2. CASE k # 0
    <3>1. k - 1 \in Int /\ 1 <= (k - 1) + 1 /\ k - 1 <= N /\ 1 <= 1 /\ 1 \in Nat
      BY ONLY <1>0, <2>2
    <3>2. p = SubSeq(q, 1, k - 1)
      BY <2>2 DEF Pre
    <3>3. /\ p \in Seq(S) /\ Len(p) = (k - 1) - 1 + 1
          /\ \A j \in 1 .. (k - 1) - 1 + 1 : p[j] = q[1 + j - 1]
      BY ONLY <3>1, <3>2, q \in Seq(S), SubSeqIs
    <3>4. (k - 1) - 1 + 1 = k - 1 /\ \A j \in Nat : 1 + j - 1 = j
      BY ONLY <1>0
    <3> HIDE DEF p
    <3> QED BY ONLY <1>0, <2>2, <3>3, <3>4
  <2> QED BY ONLY <2>1, <2>2
<1>5. u \in Seq(S) /\ Len(u) = k2 - 1 /\ \A j \in 1 .. k2 - 1 : u[j] = q[j]
  <2>1. k2 - 1 \in Int /\ 1 <= (k2 - 1) + 1 /\ k2 - 1 <= N /\ 1 <= 1 /\ 1 \in Nat
    BY ONLY <1>0
  <2>2. /\ u \in Seq(S) /\ Len(u) = (k2 - 1) - 1 + 1
        /\ \A j \in 1 .. (k2 - 1) - 1 + 1 : u[j] = q[1 + j - 1]
    BY ONLY <2>1, q \in Seq(S), SubSeqIs
  <2>3. (k2 - 1) - 1 + 1 = k2 - 1 /\ \A j \in Nat : 1 + j - 1 = j
    BY ONLY <1>0
  <2> HIDE DEF u
  <2> QED BY ONLY <1>0, <2>2, <2>3
<1>6. \/ /\ \A j \in 1 .. n : r[j] # "/"
         /\ parts.dirname = <<>> /\ parts.basename = r
      \/ \E i \in 1 .. n :
           /\ r[i] = "/" /\ \A j \in 1 .. n : r[j] = "/" => j <= i
           /\ parts.dirname = SubSeq(r, 1, i - 1)
           /\ parts.basename = SubSeq(r, i + 1, n)
  BY ONLY r \in Seq(S), SplitCases
<1>7. r \in Seq(S) /\ Len(r) = n /\ k # 1 /\ (k # 0 => q[k] = "/")
  OBVIOUS
<1> HIDE DEF N, n, parts, c, p, u
<1>8. CASE /\ \A j \in 1 .. n : r[j] # "/"
           /\ parts.dirname = <<>> /\ parts.basename = r
  <2>1. CASE k = 0
    <3>1. c = u
      <4>1. k2 - 1 - k = k2 - 1 /\ \A j \in Nat : k + j = j
        BY ONLY <1>0, <2>1
      <4>2. \A j \in 1 .. k2 - 1 : c[j] = u[j]
        BY ONLY <1>0, <1>3, <1>5, <4>1
      <4> QED BY ONLY <1>3, <1>5, <4>1, <4>2, SameSeq
    <3> QED BY ONLY <1>4, <1>8, <2>1, <3>1 DEF parts, p, c, u
  <2>2. CASE k # 0
    <3>1. Len(p) # 0
      BY ONLY <1>0, <1>4, <1>7, <2>2
    <3>2. p # <<>>
      BY ONLY <3>1
    <3>3. r # u
      <4>1. k \in 1 .. k2 - 1
        BY ONLY <1>0, <2>2
      <4>2. u[k] = "/"
        BY ONLY <1>5, <1>7, <2>2, <4>1
      <4> SUFFICES ASSUME r = u PROVE FALSE
        OBVIOUS
      <4>3. n = k2 - 1
        BY ONLY <1>5, <1>7, r = u
      <4> QED BY ONLY <1>8, <4>1, <4>2, <4>3, r = u
    <3> QED BY ONLY <1>8, <3>2, <3>3 DEF parts, p, c, u
  <2> QED BY ONLY <2>1, <2>2
<1>9. ASSUME NEW i \in 1 .. n,
             r[i] = "/" /\ \A j \in 1 .. n : r[j] = "/" => j <= i,
             parts.dirname = SubSeq(r, 1, i - 1),
             parts.basename = SubSeq(r, i + 1, n)
      PROVE  (parts.dirname = p /\ parts.basename = c) <=> r = u
  <2>0. i \in Nat /\ i <= n /\ i >= 1 /\ i # 1 /\ i # n
    BY ONLY <1>0, <1>1, <1>9
  <2> DEFINE d == SubSeq(r, 1, i - 1)
             b == SubSeq(r, i + 1, n)
  <2>1. d \in Seq(S) /\ Len(d) = i - 1 /\ \A j \in 1 .. i - 1 : d[j] = r[j]
    <3>1. i - 1 \in Int /\ 1 <= (i - 1) + 1 /\ i - 1 <= n /\ 1 <= 1 /\ 1 \in Nat
      BY ONLY <1>0, <2>0
    <3>2. /\ d \in Seq(S) /\ Len(d) = (i - 1) - 1 + 1
          /\ \A j \in 1 .. (i - 1) - 1 + 1 : d[j] = r[1 + j - 1]
      BY ONLY <1>7, <3>1, SubSeqIs
    <3>3. (i - 1) - 1 + 1 = i - 1 /\ \A j \in Nat : 1 + j - 1 = j
      BY ONLY <2>0
    <3> HIDE DEF d
    <3> QED BY ONLY <2>0, <3>2, <3>3
  <2>2. b \in Seq(S) /\ Len(b) = n - i /\ \A j \in 1 .. n - i : b[j] = r[i + j]
    <3>1. i + 1 \in Nat /\ n \in Int /\ 1 <= i + 1 /\ i + 1 <= n + 1 /\ n <= n
      BY ONLY <1>0, <2>0
    <3>2. /\ b \in Seq(S) /\ Len(b) = n - (i + 1) + 1
          /\ \A j \in 1 .. n - (i + 1) + 1 : b[j] = r[(i + 1) + j - 1]
      BY ONLY <1>7, <3>1, SubSeqIs
    <3>3. n - (i + 1) + 1 = n - i /\ \A j \in Nat : (i + 1) + j - 1 = i + j
      BY ONLY <1>0, <2>0
    <3> HIDE DEF b
    <3> QED BY ONLY <1>0, <2>0, <3>2, <3>3
  <2> HIDE DEF d, b
  <2>3. ASSUME d = p, b = c PROVE r = u
    <3>1. k # 0
      <4>1. Len(d) # 0
        BY ONLY <2>0, <2>1
      <4>2. d # <<>>
        BY ONLY <4>1
      <4> QED BY ONLY <1>4, <2>3, <4>2
    <3>2. i = k
      BY ONLY <1>0, <1>4, <2>0, <2>1, <2>3, <3>1
    <3>3. n = k2 - 1
      <4>1. n - i = k2 - 1 - k
        BY ONLY <1>3, <2>2, <2>3
      <4> QED BY ONLY <1>0, <2>0, <3>2, <4>1
    <3>4. ASSUME NEW j \in 1 .. n PROVE r[j] = u[j]
      <4>0. j \in 1 .. k2 - 1 /\ j \in Nat
        BY ONLY <1>0, <3>3, j \in 1 .. n
      <4>1. u[j] = q[j]
        BY ONLY <1>5, <4>0
      <4>2. CASE j < k
        <5>1. j \in 1 .. i - 1 /\ j \in 1 .. k - 1
          BY ONLY <1>0, <3>2, <4>0, <4>2
        <5> QED BY ONLY <1>4, <2>1, <2>3, <3>1, <4>1, <5>1
      <4>3. CASE j = k
        BY ONLY <1>7, <1>9, <3>1, <3>2, <4>1, <4>3
      <4>4. CASE j > k
        <5>1. j - k \in 1 .. n - i /\ j - k \in 1 .. k2 - 1 - k /\ k + (j - k) = j /\ i + (j - k) = j
          BY ONLY <1>0, <3>2, <3>3, <4>0, <4>4
        <5>2. b[j - k] = r[j]
          <6> DEFINE e == j - k
          <6>1. e \in 1 .. n - i /\ i + e = j
            BY ONLY <5>1
          <6> HIDE DEF e
          <6>2. b[e] = r[j]
            BY ONLY <2>2, <6>1
          <6> QED BY ONLY <6>2 DEF e
        <5>3. c[j - k] = q[j]
          BY ONLY <1>3, <5>1
        <5> QED BY ONLY <2>3, <4>1, <5>2, <5>3
      <4> QED BY ONLY <1>0, <4>0, <4>2, <4>3, <4>4
    <3> QED BY ONLY <1>5, <1>7, <3>3, <3>4, SameSeq
  <2>4. ASSUME r = u PROVE d = p /\ b = c
    <3>1. n = k2 - 1 /\ \A j \in 1 .. n : r[j] = q[j]
      BY ONLY <1>5, <1>7, <2>4
    <3>2. q[i] = "/"
      BY ONLY <1>9, <3>1
    <3>3. i <= k
      <4> SUFFICES ASSUME ~(i <= k) PROVE FALSE
        OBVIOUS
      <4>1. i \in k + 1 .. k2 - 1
        BY ONLY <1>0, <2>0, <3>1, ~(i <= k)
      <4> QED BY ONLY <1>2, <3>2, <4>1
    <3>4. k # 0 /\ k \in 1 .. n
      BY ONLY <1>0, <2>0, <3>1, <3>3
    <3>5. k <= i
      BY ONLY <1>7, <1>9, <3>1, <3>4
    <3>6. i = k
      BY ONLY <1>0, <2>0, <3>3, <3>5
    <3>7. d = p
      <4>1. ASSUME NEW j \in 1 .. i - 1 PROVE d[j] = p[j]
        <5>1. j \in 1 .. n /\ j \in 1 .. k - 1
          BY ONLY <1>0, <2>0, <3>6, j \in 1 .. i - 1
        <5> QED BY ONLY <1>4, <2>1, <3>1, <3>4, <5>1, j \in 1 .. i - 1
      <4>2. p \in Seq(S) /\ Len(p) = i - 1
        BY ONLY <1>4, <3>4, <3>6
      <4> QED BY ONLY <2>1, <4>1, <4>2, SameSeq
    <3>8. b = c
      <4>0. k2 - 1 - k = n - i
        BY ONLY <3>1, <3>6
      <4>1. ASSUME NEW j \in 1 .. n - i PROVE b[j] = c[j]
        <5>1. i + j \in 1 .. n
          BY ONLY <1>0, <2>0, j \in 1 .. n - i
        <5>2. b[j] = q[i + j]
          BY ONLY <2>2, <3>1, <5>1, j \in 1 .. n - i
        <5>3. c[j] = q[k + j]
          BY ONLY <1>3, <4>0, j \in 1 .. n - i
        <5> QED BY ONLY <3>6, <5>2, <5>3
      <4>2. c \in Seq(S) /\ Len(c) = n - i
        BY ONLY <1>3, <4>0
      <4> QED BY ONLY <2>2, <4>1, <4>2, SameSeq
    <3> QED BY ONLY <3>7, <3>8
  <2>5. parts.dirname = d /\ parts.basename = b
    BY ONLY <1>9 DEF d, b
  <2> QED BY ONLY <2>3, <2>4, <2>5
<1>10. CASE \E i \in 1 .. n :
              /\ r[i] = "/" /\ \A j \in 1 .. n : r[j] = "/" => j <= i
              /\ parts.dirname = SubSeq(r, 1, i - 1)
              /\ parts.basename = SubSeq(r, i + 1, n)
  BY ONLY <1>9, <1>10 DEF parts, p, c, u
<1> QED BY ONLY <1>6, <1>8, <1>10 DEF parts, p, c, u

LEMMA NormalIs ==
  ASSUME NEW S, NEW name \in Seq(S)
  PROVE  Normal(name) \in Seq(S)
<1>1. ASSUME NEW s \in Seq(S), NEW prefix, prefix \in {<<".", "/">>, <<"/">>}
      PROVE  Past(s, prefix) \in Seq(S)
  <2>1. CASE Begins(s, prefix)
    <3>1. 1 <= Len(s) \/ 2 <= Len(s)
      BY <1>1, <2>1 DEF Begins
    <3>2. s # <<>>
      <4>1. Len(s) \in Nat
        OBVIOUS
      <4>2. Len(s) # 0
        BY ONLY <3>1, <4>1
      <4> QED BY ONLY <4>2
    <3>3. Tail(s) \in Seq(S)
      BY <3>2
    <3> QED BY <2>1, <3>3 DEF Past
  <2>2. CASE ~Begins(s, prefix)
    BY <2>2 DEF Past
  <2> QED BY <2>1, <2>2
<1>2. ASSUME NEW s \in Seq(S) PROVE Unslashed(s) \in Seq(S)
  BY DEF Unslashed
<1> QED BY <1>1, <1>2 DEF Normal

\* An archive as tar writes it
Proper(archive) ==
  /\ Stated(archive) /\ DOMAIN archive = 1 .. Len(archive)
  /\ \A i \in DOMAIN archive :
       LET path == Normal(archive[i].name)
       IN  path \in Seq(STRING) /\ Positions(path, "/") \cap {1, Len(path)} = {}

\* Of an archive as tar writes it, init_nodes makes a node with the flags and the
\* number of every member, and the root is the member with the empty path.
LEMMA NodesIs ==
  ASSUME NEW archive, Proper(archive)
  PROVE  /\ \A i \in DOMAIN archive : /\ init_nodes(archive, {})[i].flags = FlagsOf(archive[i].type)
                                      /\ init_nodes(archive, {})[i].member = i
         /\ RootMember(archive, {}) = At(archive, <<>>)
<1>1. Stated(archive) /\ DOMAIN archive = 1 .. Len(archive)
  BY Zenon DEF Proper
<1> QED BY ONLY <1>1, TreeIs, Zenon

\* The children of a directory that have the name of the next component of a path
\* are the members that the path names so far.
LEMMA FoundIs ==
  ASSUME NEW archive, Proper(archive), NEW q \in Seq(STRING), NEW k \in 0 .. Len(q), NEW k2,
         k # 1, k # 0 => q[k] = "/", Component(q, k, k2), At(archive, Pre(q, k)) # 0
  PROVE  LET t == init_nodes(archive, {})
         IN  {i \in DOMAIN t : t[i].parent = At(archive, Pre(q, k)) /\ t[i].name = SubSeq(q, k + 1, k2 - 1)}
               = {i \in DOMAIN archive : /\ Normal(archive[i].name) # <<>>
                                         /\ Normal(archive[i].name) = SubSeq(q, 1, k2 - 1)}
<1> DEFINE t == init_nodes(archive, {})
           path(i) == Normal(archive[i].name)
           m == At(archive, Pre(q, k))
<1>1. Stated(archive) /\ DOMAIN archive = 1 .. Len(archive) /\ Len(archive) \in Nat
  BY DEF Proper, Stated
<1>2. \A i \in DOMAIN archive : path(i) \in Seq(STRING) /\ Positions(path(i), "/") \cap {1, Len(path(i))} = {}
  BY DEF Proper
<1>3. /\ DOMAIN t = DOMAIN archive
      /\ \A i \in DOMAIN archive :
           /\ t[i].name = split_basename(path(i)).basename
           /\ t[i].parent = IF path(i) = <<>> THEN 0 ELSE At(archive, split_basename(path(i)).dirname)
  BY <1>1, TreeIs
<1>4. m # 0
  OBVIOUS
<1>5. DOMAIN archive \subseteq Nat \ {0}
  BY <1>1
<1>6. ASSUME NEW dir PROVE At(archive, dir) = m <=> dir = Pre(q, k)
  <2>1. Normal(archive[m].name) = Pre(q, k)
    BY ONLY <1>4, <1>5, AtIs
  <2>2. At(archive, dir) = m => Normal(archive[m].name) = dir
    <3> HIDE DEF m
    <3> QED BY ONLY <1>4, <1>5, AtIs
  <2> QED BY <2>1, <2>2
<1> HIDE DEF t, m, path
<1>7. ASSUME NEW i \in DOMAIN archive
      PROVE  (t[i].parent = m /\ t[i].name = SubSeq(q, k + 1, k2 - 1))
               <=> (path(i) # <<>> /\ path(i) = SubSeq(q, 1, k2 - 1))
  <2>1. CASE path(i) = <<>>
    BY ONLY <1>3, <1>4, <2>1, i \in DOMAIN archive
  <2>2. CASE path(i) # <<>>
    <3> DEFINE r == path(i)
    <3>1. r \in Seq(STRING) /\ r # <<>> /\ Positions(r, "/") \cap {1, Len(r)} = {}
      BY ONLY <1>2, <2>2, i \in DOMAIN archive
    <3>2. t[i].name = split_basename(r).basename /\ t[i].parent = At(archive, split_basename(r).dirname)
      BY ONLY <1>3, <2>2, i \in DOMAIN archive
    <3> HIDE DEF r
    <3>3. (/\ split_basename(r).dirname = Pre(q, k)
           /\ split_basename(r).basename = SubSeq(q, k + 1, k2 - 1))
          <=> r = SubSeq(q, 1, k2 - 1)
      BY <3>1, SplitIs
    <3>4. t[i].parent = m <=> split_basename(r).dirname = Pre(q, k)
      BY ONLY <1>6, <3>2
    <3>5. (t[i].parent = m /\ t[i].name = SubSeq(q, k + 1, k2 - 1)) <=> r = SubSeq(q, 1, k2 - 1)
      BY ONLY <3>2, <3>3, <3>4
    <3> QED BY ONLY <2>2, <3>5 DEF r
  <2> QED BY ONLY <2>1, <2>2
<1>8. {i \in DOMAIN t : t[i].parent = m /\ t[i].name = SubSeq(q, k + 1, k2 - 1)}
        = {i \in DOMAIN archive : path(i) # <<>> /\ path(i) = SubSeq(q, 1, k2 - 1)}
  BY ONLY <1>3, <1>7
<1> QED BY ONLY <1>8 DEF t, path, m
=============================================================================
