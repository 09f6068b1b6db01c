----------------------------- MODULE HeapProofs -----------------------------
(***************************************************************************)
(* Proofs about the heap for any number of processors, any heap size and   *)
(* any sizes asked for.                                                    *)
(***************************************************************************)
EXTENDS Heap, TLAPS

\* The field-by-field effect of marking a block (heap_alloc, heap_free).
LEMMA MarkFields ==
  ASSUME TypeOK, NEW a \in DOMAIN hdr, NEW s \in {"free", "used"},
         hdr' = [hdr EXCEPT ![a].status = s]
  PROVE  /\ DOMAIN hdr' = DOMAIN hdr
         /\ \A x \in DOMAIN hdr : /\ hdr'[x] \in Header
                                  /\ hdr'[x].size = hdr[x].size
                                  /\ hdr'[x].next = hdr[x].next
                                  /\ hdr'[x].prev = hdr[x].prev
                                  /\ EndOf(hdr', x) = EndOf(hdr, x)
         /\ \A x \in DOMAIN hdr : x # a => hdr'[x].status = hdr[x].status
         /\ hdr'[a].status = s
  BY DEF TypeOK, Header, EndOf

\* A block of the chain ends inside the heap.
LEMMA EndInHeap ==
  ASSUME TypeOK, ChainTilesHeap, NEW a \in blocks
  PROVE  /\ a \in Int
         /\ EndOf(hdr, a) \in Int
         /\ a + HDR <= EndOf(hdr, a)
         /\ EndOf(hdr, a) <= Top
  BY HeapAssumption DEF TypeOK, ChainTilesHeap, EndOf, Header, Addr, Ptr, NULL

\* A header whose size and link are overwritten, written out as a record.
LEMMA Resized ==
  ASSUME NEW r \in Header, NEW n, NEW b
  PROVE  [r EXCEPT !.size = n, !.next = b]
           = [status |-> r.status, size |-> n, next |-> b, prev |-> r.prev]
<1> DEFINE q == [r EXCEPT !.size = n]
<1>1. [r EXCEPT !.size = n, !.next = b] = [q EXCEPT !.next = b]
  BY DEF Header
<1>2. q = [status |-> r.status, size |-> n, next |-> r.next, prev |-> r.prev]
  BY DEF Header
<1>3. q \in [status : {r.status}, size : {n}, next : {r.next}, prev : {r.prev}]
  BY <1>2
<1>4. q.status = r.status /\ q.size = n /\ q.prev = r.prev
  BY <1>2
<1> HIDE DEF q
<1>5. [q EXCEPT !.next = b]
        = [status |-> q.status, size |-> q.size, next |-> b, prev |-> q.prev]
  BY <1>3
<1> QED
  BY <1>1, <1>4, <1>5

\* The field-by-field effect of a merge: head takes over tail's space and its
\* link, the block after tail points back to head, and nothing else changes.
LEMMA MergeFields ==
  ASSUME TypeOK, ChainTilesHeap,
         NEW head \in blocks, NEW tail \in blocks, Mergeable(hdr, head, tail),
         hdr' = heap_merge(hdr, head, tail)
  PROVE  /\ DOMAIN hdr' = DOMAIN hdr
         /\ \A x \in DOMAIN hdr : hdr'[x].status = hdr[x].status
         /\ \A x \in DOMAIN hdr : x # head => /\ hdr'[x].size = hdr[x].size
                                              /\ hdr'[x].next = hdr[x].next
                                              /\ EndOf(hdr', x) = EndOf(hdr, x)
         /\ hdr'[head].next = hdr[tail].next
         /\ EndOf(hdr', head) = EndOf(hdr, tail)
         /\ hdr'[head].size > hdr[head].size
         /\ \A x \in DOMAIN hdr : x # hdr[tail].next => hdr'[x].prev = hdr[x].prev
         /\ hdr[tail].next # NULL => hdr'[hdr[tail].next].prev = head
         /\ \A x \in DOMAIN hdr : hdr'[x] \in Header
<1> DEFINE bound == hdr[tail].next
           j == [hdr EXCEPT ![head].next = bound,
                            ![head].size = @ + HDR + hdr[tail].size]
<1>1. /\ head \in DOMAIN hdr /\ tail \in DOMAIN hdr /\ head # tail
      /\ bound = NULL \/ (bound \in blocks /\ bound # tail /\ bound # head)
  BY HeapAssumption, EndInHeap DEF TypeOK, ChainTilesHeap, Mergeable, EndOf, Header
<1>2. /\ DOMAIN j = DOMAIN hdr
      /\ \A x \in DOMAIN hdr : x # head => j[x] = hdr[x]
      /\ j[head].status = hdr[head].status
      /\ j[head].prev = hdr[head].prev
      /\ j[head].next = bound
      /\ j[head].size = hdr[head].size + HDR + hdr[tail].size
      /\ j[head] = [status |-> hdr[head].status, size |-> j[head].size,
                    next |-> bound, prev |-> hdr[head].prev]
  BY <1>1, HeapAssumption, ZenonT(60) DEF TypeOK, Header
<1>3. EndOf(j, head) = EndOf(hdr, tail) /\ j[head].size > hdr[head].size
  <2>1. /\ head \in Int /\ tail \in Int
        /\ hdr[head].size \in Nat /\ hdr[tail].size \in Nat
    BY <1>1, HeapAssumption DEF TypeOK, Header, Addr
  <2>2. tail = head + HDR + hdr[head].size
    BY DEF Mergeable, EndOf
  <2> HIDE DEF j, bound
  <2>3. j[head].size = hdr[head].size + HDR + hdr[tail].size
    BY <1>2
  <2> QED
    BY <2>1, <2>2, <2>3, HeapAssumption DEF EndOf
<1>4. j[head].size \in 0 .. Top
  BY <1>1, <1>2, <1>3, EndInHeap, HeapAssumption DEF EndOf, TypeOK, Header, Addr
<1>5. \A x \in DOMAIN hdr : j[x] \in Header
  BY <1>1, <1>2, <1>4 DEF TypeOK, Header
<1>6. CASE bound = NULL
  <2>1. hdr' = j
    BY <1>6 DEF heap_merge
  <2> QED
    BY <1>6, <2>1, <1>1, <1>2, <1>3, <1>5, HeapAssumption
    DEF TypeOK, Addr, Ptr, NULL, EndOf
<1>7. CASE bound # NULL
  <2>1. hdr' = [j EXCEPT ![bound].prev = head]
    BY <1>7 DEF heap_merge
  <2>2. bound \in DOMAIN hdr /\ bound # head /\ bound # tail
    BY <1>1, <1>7 DEF TypeOK
  <2>3. /\ DOMAIN hdr' = DOMAIN hdr
        /\ \A x \in DOMAIN hdr : x # bound => hdr'[x] = j[x]
        /\ hdr'[bound] = [status |-> hdr[bound].status, size |-> hdr[bound].size,
                       next |-> hdr[bound].next, prev |-> head]
    <3>1. j[bound] = hdr[bound] /\ bound \in DOMAIN j
      BY <1>2, <2>2
    <3>2. hdr[bound] \in Header
      BY <2>2 DEF TypeOK
    <3> HIDE DEF bound, j
    <3>3. /\ DOMAIN hdr' = DOMAIN hdr
          /\ \A x \in DOMAIN hdr : x # bound => hdr'[x] = j[x]
      BY <1>2, <2>1
    <3>4. hdr'[bound] = [hdr[bound] EXCEPT !.prev = head]
      BY <2>1, <3>1
    <3>5. [hdr[bound] EXCEPT !.prev = head]
            = [status |-> hdr[bound].status, size |-> hdr[bound].size,
               next |-> hdr[bound].next, prev |-> head]
      BY <3>2 DEF Header
    <3> QED
      BY <3>3, <3>4, <3>5
  <2>4. \A x \in DOMAIN hdr : hdr'[x] \in Header
    <3>1. head \in Ptr
      BY <1>1 DEF TypeOK, Ptr
    <3>2. hdr'[bound] \in Header
      BY <2>2, <2>3, <3>1 DEF TypeOK, Header
    <3> QED
      BY <1>5, <2>3, <3>2
  <2> QED
    BY <1>1, <1>2, <1>3, <2>2, <2>3, <2>4 DEF EndOf
<1> QED
  BY <1>6, <1>7

\* The field-by-field effect of a split.  The new control block lies in the
\* body of the block that is split, so it spoils no block of the chain.
LEMMA SplitFields ==
  ASSUME TypeOK, ChainTilesHeap,
         NEW a \in blocks, NEW n \in Nat, hdr[a].size > n + HDR + 1,
         hdr' = SplitAt(hdr, a, n)
  PROVE  /\ a + HDR + n \in Addr \ blocks
         /\ DOMAIN hdr' \subseteq DOMAIN hdr \cup {a + HDR + n}
         /\ blocks \cup {a + HDR + n} \subseteq DOMAIN hdr'
         /\ \A x \in DOMAIN hdr' : x # a /\ x # a + HDR + n => hdr'[x] = hdr[x]
         /\ \A x \in DOMAIN hdr' : hdr'[x] \in Header
         /\ hdr'[a].status = hdr[a].status
         /\ hdr'[a].size = n
         /\ hdr'[a].next = a + HDR + n
         /\ hdr'[a].prev = hdr[a].prev
         /\ hdr'[a + HDR + n].status = "free"
         /\ hdr'[a + HDR + n].next = hdr[a].next
         /\ hdr'[a + HDR + n].prev = a
         /\ EndOf(hdr', a) = a + HDR + n
         /\ EndOf(hdr', a + HDR + n) = EndOf(hdr, a)
         /\ \A x \in blocks : x # a => EndOf(hdr', x) = EndOf(hdr, x)
<1> DEFINE b == a + HDR + n
           rest == [status |-> "free", size |-> hdr[a].size - n - HDR,
                    next |-> hdr[a].next, prev |-> a]
           g == Put(hdr, b, rest)
<1>1. a \in DOMAIN hdr /\ a \in Addr /\ hdr[a] \in Header
  BY DEF TypeOK
<1>2. /\ a \in Nat /\ b \in Nat /\ hdr[a].size \in Nat
      /\ a + HDR <= b /\ b + HDR + 2 <= EndOf(hdr, a)
      /\ EndOf(hdr, a) <= Top /\ EndOf(hdr, a) \in Int
  BY <1>1, EndInHeap, HeapAssumption DEF EndOf, Header, Addr
<1>3. b \in Addr
  BY <1>1, <1>2, HeapAssumption DEF Addr
<1>4. \A x \in blocks : x # b /\ x \notin Overlap(b)
  <2> SUFFICES ASSUME NEW x \in blocks
               PROVE  x + HDR <= b \/ b + HDR <= x
    BY <1>2, HeapAssumption, EndInHeap DEF Overlap
  <2>1. CASE x = a
    BY <2>1, <1>2
  <2>2. CASE x < a
    <3>1. EndOf(hdr, x) <= a
      BY <2>2 DEF ChainTilesHeap
    <3> QED
      BY <3>1, <1>2, EndInHeap, HeapAssumption
  <2>3. CASE a < x
    <3>1. EndOf(hdr, a) <= x
      BY <2>3 DEF ChainTilesHeap
    <3> QED
      BY <3>1, <1>2, EndInHeap, HeapAssumption
  <2> QED
    BY <2>1, <2>2, <2>3, <1>2, EndInHeap
<1>5. /\ DOMAIN g = (DOMAIN hdr \ Overlap(b)) \cup {b}
      /\ \A x \in DOMAIN g : x # b => g[x] = hdr[x]
      /\ g[b] = rest
  BY DEF Put
<1>6. a \in DOMAIN g /\ a # b /\ g[a] = hdr[a]
  BY <1>1, <1>4, <1>5
<1>7. hdr' = [g EXCEPT ![a].size = n, ![a].next = b]
  BY DEF SplitAt
<1>8. /\ DOMAIN hdr' = DOMAIN g
      /\ \A x \in DOMAIN g : x # a => hdr'[x] = g[x]
      /\ hdr'[a] = [status |-> hdr[a].status, size |-> n, next |-> b,
                 prev |-> hdr[a].prev]
  <2> HIDE DEF b, g
  <2>1. /\ DOMAIN hdr' = DOMAIN g
        /\ \A x \in DOMAIN g : x # a => hdr'[x] = g[x]
    BY <1>7
  <2>2. hdr'[a] = [hdr[a] EXCEPT !.size = n, !.next = b]
    BY <1>6, <1>7
  <2>3. [hdr[a] EXCEPT !.size = n, !.next = b]
          = [status |-> hdr[a].status, size |-> n, next |-> b,
             prev |-> hdr[a].prev]
    BY <1>1, Resized, ZenonT(60)
  <2> QED
    BY <2>1, <2>2, <2>3
<1>9. hdr'[a] \in Header /\ rest \in Header
  <2>1. b \in Ptr /\ a \in Ptr /\ hdr[a].next \in Ptr /\ hdr[a].prev \in Ptr
    BY <1>1, <1>3 DEF Ptr, Header
  <2>2. n \in 0 .. Top /\ hdr[a].size - n - HDR \in 0 .. Top
    BY <1>1, <1>2, HeapAssumption DEF EndOf, Header
  <2>3. hdr[a].status \in {"free", "used"}
    BY <1>1 DEF Header
  <2> QED
    BY <1>8, <2>1, <2>2, <2>3 DEF Header
<1>10. \A x \in DOMAIN hdr' : hdr'[x] \in Header
  BY <1>5, <1>6, <1>8, <1>9 DEF TypeOK
<1>11. blocks \cup {b} \subseteq DOMAIN hdr'
  BY <1>4, <1>5, <1>8 DEF TypeOK
<1>12. hdr'[b] = rest
  BY <1>5, <1>6, <1>8
<1>13. EndOf(hdr', a) = b /\ EndOf(hdr', b) = EndOf(hdr, a)
  BY <1>2, <1>8, <1>12, HeapAssumption DEF EndOf
<1>14. \A x \in blocks : x # a => hdr'[x] = hdr[x]
  BY <1>4, <1>5, <1>8, <1>11
<1> QED
  BY <1>3, <1>4, <1>5, <1>6, <1>8, <1>10, <1>11, <1>12, <1>13, <1>14 DEF EndOf

\* What SplitFields says of the block split at a, where b is the new one
SplitInTwo(a, n, b) ==
  /\ b \in Addr /\ b \notin blocks
  /\ DOMAIN hdr' \subseteq DOMAIN hdr \cup {b}
  /\ blocks \cup {b} \subseteq DOMAIN hdr'
  /\ \A x \in DOMAIN hdr' : x # a /\ x # b => hdr'[x] = hdr[x]
  /\ \A x \in DOMAIN hdr' : hdr'[x] \in Header
  /\ hdr'[a].status = hdr[a].status /\ hdr'[a].size = n
  /\ hdr'[a].next = b /\ hdr'[a].prev = hdr[a].prev
  /\ hdr'[b].status = "free" /\ hdr'[b].next = hdr[a].next
  /\ hdr'[b].prev = a
  /\ EndOf(hdr', a) = b /\ EndOf(hdr', b) = EndOf(hdr, a)
  /\ \A x \in blocks : x # a => EndOf(hdr', x) = EndOf(hdr, x)

\* The same, with a name for the address of the new block.
LEMMA SplitNamed ==
  ASSUME TypeOK, ChainTilesHeap,
         NEW a \in blocks, NEW n \in Nat, hdr[a].size > n + HDR + 1,
         hdr' = SplitAt(hdr, a, n), NEW b, b = a + HDR + n
  PROVE  SplitInTwo(a, n, b)
  BY SplitFields DEF SplitInTwo

\* A client's write into its buffer spoils remnants only.
LEMMA SpoilFields ==
  ASSUME TypeOK, ChainTilesHeap, BuffersBacked,
         NEW ptr \in DOMAIN bufs, NEW c \in Addr,
         ptr <= c, c < ptr + bufs[ptr],
         hdr' = Spoil(hdr, c)
  PROVE  /\ DOMAIN hdr' \subseteq DOMAIN hdr
         /\ blocks \subseteq DOMAIN hdr'
         /\ \A x \in DOMAIN hdr' : hdr'[x] = hdr[x]
<1>1. DOMAIN hdr' = {y \in DOMAIN hdr : ~(y <= c /\ c < y + HDR)}
  BY DEF Spoil
<1>2. \A x \in DOMAIN hdr' : hdr'[x] = hdr[x]
  BY DEF Spoil
<1> DEFINE a == ptr - HDR
<1>3. /\ a \in blocks /\ bufs[ptr] <= hdr[a].size
      /\ ptr \in Int /\ c \in Int /\ bufs[ptr] \in Nat /\ hdr[a].size \in Nat
  <2>1. a \in blocks /\ bufs[ptr] <= hdr[a].size
    BY DEF BuffersBacked
  <2>2. bufs[ptr] \in Sizes /\ ptr \in Pointer /\ hdr[a] \in Header
    BY <2>1 DEF TypeOK
  <2>3. bufs[ptr] \in Nat
    BY <2>2, HeapAssumption, ZenonT(60)
  <2>4. hdr[a].size \in Nat
    BY <2>2, HeapAssumption DEF Header
  <2>5. ptr \in Int /\ c \in Int
    BY <2>2, HeapAssumption DEF Pointer, Addr
  <2> QED
    BY <2>1, <2>3, <2>4, <2>5
<1>4. a + HDR <= c /\ c < EndOf(hdr, a) /\ a \in Int /\ c \in Int /\ EndOf(hdr, a) \in Int
  BY <1>3, EndInHeap, HeapAssumption DEF EndOf
<1>5. ASSUME NEW x \in blocks
      PROVE  ~(x <= c /\ c < x + HDR)
  <2>1. CASE x = a
    BY <2>1, <1>4, HeapAssumption
  <2>2. CASE x < a
    <3>1. EndOf(hdr, x) <= a
      BY <2>2, <1>3 DEF ChainTilesHeap
    <3> QED
      BY <3>1, <1>3, <1>4, EndInHeap, HeapAssumption
  <2>3. CASE a < x
    <3>1. EndOf(hdr, a) <= x
      BY <2>3, <1>3 DEF ChainTilesHeap
    <3> QED
      BY <3>1, <1>3, <1>4, EndInHeap, HeapAssumption
  <2> QED
    BY <2>1, <2>2, <2>3, <1>4, EndInHeap
<1>6. blocks \subseteq DOMAIN hdr'
  BY <1>1, <1>5 DEF TypeOK
<1> QED
  BY <1>1, <1>2, <1>6

----------------------------------------------------------------------------
(* One lemma for each step.  *)

\* Steps that write no control block keep what only control blocks decide.
LEMMA SameMemory ==
  ASSUME ChainTilesHeap, RemnantsOK, UNCHANGED <<hdr, blocks>>
  PROVE  ChainTilesHeap' /\ RemnantsOK'
  BY DEF ChainTilesHeap, RemnantsOK, EndOf

\* A step that touches one processor's variables only, and leaves it in none of
\* the places where it relies on the chain, keeps what the processors know.
LEMMA OthersKnow ==
  ASSUME LocalsOK, UNCHANGED <<hdr, blocks>>, NEW p \in CPU,
         \A q \in CPU : q # p => /\ pc'[q] = pc[q] /\ arg'[q] = arg[q]
                                 /\ block'[q] = block[q] /\ buffer'[q] = buffer[q],
         pc'[p] \in {"idle", "check", "free_release"}, buffer'[p] = NULL,
         pc'[p] = "check" => block'[p] = arg'[p] - HDR
  PROVE  LocalsOK'
<1> SUFFICES ASSUME NEW q \in CPU
             PROVE  /\ pc'[q] \in AllocPc => arg'[q] \in Sizes
                    /\ pc'[q] \notin {"split", "alloc_release"} => buffer'[q] = NULL
                    /\ pc'[q] = "scan" =>
                         /\ block'[q] \in blocks \cup {NULL}
                         /\ \A a \in blocks :
                              (block'[q] = NULL \/ a < block'[q]) /\ hdr[a].status = "free"
                                => hdr[a].size < arg'[q]
                    /\ pc'[q] = "split" =>
                         /\ UsedBlock(block'[q])
                         /\ buffer'[q] = block'[q] + HDR
                         /\ hdr[block'[q]].size > arg'[q] + HDR + 1
                    /\ pc'[q] = "alloc_release" /\ buffer'[q] # NULL =>
                         UsedBlock(buffer'[q] - HDR) /\ arg'[q] <= hdr[buffer'[q] - HDR].size
                    /\ pc'[q] = "free_lock" => UsedBlock(arg'[q] - HDR)
                    /\ pc'[q] = "check" => block'[q] = arg'[q] - HDR
                    /\ pc'[q] \in {"merge_next", "merge_prev"} =>
                         block'[q] \in blocks /\ hdr[block'[q]].status = "free"
  BY DEF LocalsOK, UsedBlock
<1>1. CASE q = p
  BY <1>1 DEF AllocPc
<1>2. CASE q # p
  <2>1. /\ pc'[q] = pc[q] /\ arg'[q] = arg[q]
        /\ block'[q] = block[q] /\ buffer'[q] = buffer[q]
    BY <1>2
  <2> QED BY ONLY LocalsOK, q \in CPU, <2>1 DEF LocalsOK
<1> QED BY ONLY <1>1, <1>2

\* Such a step keeps the owners apart if what the processor is about to free has
\* no owner and nobody else is about to free it.
LEMMA OwnersKept ==
  ASSUME OneOwner, UNCHANGED bufs, NEW p \in CPU,
         \A q \in CPU : q # p => pc'[q] = pc[q] /\ arg'[q] = arg[q] /\ buffer'[q] = buffer[q],
         pc'[p] \in {"idle", "check", "free_release"},
         pc'[p] = "check" => /\ arg'[p] \notin DOMAIN bufs
                             /\ \A q \in CPU : q # p /\ pc[q] = "free_lock" => arg[q] # arg'[p]
  PROVE  OneOwner'
<1>1. pc'[p] \notin AllocPc /\ pc'[p] # "free_lock"
  BY DEF AllocPc
<1>2. ASSUME NEW q \in CPU
      PROVE  /\ pc'[q] \in {"free_lock", "check"} => arg'[q] \notin DOMAIN bufs
             /\ pc'[q] \in AllocPc => buffer'[q] \notin DOMAIN bufs
  BY <1>1 DEF OneOwner
<1>3. ASSUME NEW q \in CPU, NEW r \in CPU
      PROVE  /\ pc'[q] = "free_lock" /\ pc'[r] \in {"free_lock", "check"} /\ q # r => arg'[q] # arg'[r]
             /\ pc'[q] \in AllocPc /\ pc'[r] = "free_lock" => buffer'[q] # arg'[r]
  BY <1>1 DEF OneOwner
<1> QED BY <1>2, <1>3 DEF OneOwner, AllocPc

\* A call of heap_alloc begins.
LEMMA MallocKeeps ==
  ASSUME IndInv, NEW p \in CPU, NEW n \in Sizes, Malloc(p, n)
  PROVE  IndInv'
<1> USE HeapAssumption DEF IndInv, Malloc
<1>1. TypeOK'
  BY DEF TypeOK, AllocPc, FreePc, Addr, Pointer, NULL
<1>2. ChainTilesHeap' /\ RemnantsOK'
  BY SameMemory
<1>3. BuffersBacked'
  BY DEF BuffersBacked, OneOwner, LocalsOK, UsedBlock, AllocPc
<1>4. MutualExclusion'
  BY DEF MutualExclusion, InSection, TypeOK
<1>5. LocalsOK'
  BY DEF LocalsOK, UsedBlock, TypeOK, AllocPc, FreePc, BuffersBacked,
         MutualExclusion, InSection
<1>6. OneOwner'
  BY DEF OneOwner, TypeOK, AllocPc, FreePc, NULL, Pointer, Addr, LocalsOK,
         UsedBlock, MutualExclusion, InSection
<1> QED
  BY <1>1, <1>2, <1>3, <1>4, <1>5, <1>6

\* heap_alloc takes the spinlock.
LEMMA AllocLockKeeps ==
  ASSUME IndInv, NEW p \in CPU, AllocLock(p)
  PROVE  IndInv'
<1> USE HeapAssumption DEF IndInv, AllocLock, spinlock_lock
<1>1. TypeOK'
  BY DEF TypeOK, AllocPc, FreePc, Addr, Pointer, NULL
<1>2. ChainTilesHeap' /\ RemnantsOK'
  BY SameMemory
<1>3. BuffersBacked'
  BY DEF BuffersBacked, OneOwner, LocalsOK, UsedBlock, AllocPc
<1>4. MutualExclusion'
  BY DEF MutualExclusion, InSection, TypeOK
<1>5. LocalsOK'
  <2>1. Bottom \in blocks /\ \A a \in blocks : ~(a < Bottom) /\ Bottom # NULL
    BY DEF ChainTilesHeap, TypeOK, Addr, NULL
  <2> QED
    BY <2>1 DEF LocalsOK, UsedBlock, TypeOK, AllocPc, FreePc
<1>6. OneOwner'
  BY DEF OneOwner, TypeOK, AllocPc, FreePc, NULL, Pointer, Addr, LocalsOK,
         UsedBlock, MutualExclusion, InSection
<1> QED
  BY <1>1, <1>2, <1>3, <1>4, <1>5, <1>6

\* heap_alloc finds no block.
LEMMA ScanGivesUpKeeps ==
  ASSUME IndInv, NEW p \in CPU, ScanGivesUp(p)
  PROVE  IndInv'
<1> USE HeapAssumption DEF IndInv, ScanGivesUp
<1>1. TypeOK'
  BY DEF TypeOK, AllocPc, FreePc, Addr, Pointer, NULL
<1>2. ChainTilesHeap' /\ RemnantsOK'
  BY SameMemory
<1>3. BuffersBacked'
  BY DEF BuffersBacked, OneOwner, LocalsOK, UsedBlock, AllocPc
<1>4. MutualExclusion'
  BY DEF MutualExclusion, InSection, TypeOK
<1>5. LocalsOK'
  BY DEF LocalsOK, UsedBlock, TypeOK, AllocPc, FreePc, BuffersBacked,
         MutualExclusion, InSection
<1>6. OneOwner'
  BY DEF OneOwner, TypeOK, AllocPc, FreePc, NULL, Pointer, Addr, LocalsOK,
         UsedBlock, MutualExclusion, InSection
<1> QED
  BY <1>1, <1>2, <1>3, <1>4, <1>5, <1>6

\* heap_alloc goes to the next block.
LEMMA ScanSkipsKeeps ==
  ASSUME IndInv, NEW p \in CPU, ScanSkips(p)
  PROVE  IndInv'
<1> USE HeapAssumption DEF IndInv, ScanSkips
<1>1. TypeOK'
  <2>1. hdr[block[p]].next \in Int
    BY DEF TypeOK, Header, Ptr, Addr, NULL
  <2> QED
    BY <2>1 DEF TypeOK
<1>2. ChainTilesHeap' /\ RemnantsOK'
  BY SameMemory
<1>3. BuffersBacked'
  BY DEF BuffersBacked, OneOwner, LocalsOK, UsedBlock, AllocPc
<1>4. MutualExclusion'
  BY DEF MutualExclusion, InSection, TypeOK
<1>5. LocalsOK'
  <2> DEFINE a == block[p]
             b == hdr[a].next
  <2>1. a \in blocks /\ pc'[p] = "scan" /\ block'[p] = b /\ arg[p] \in Nat
    BY DEF LocalsOK, TypeOK, Addr, NULL, AllocPc
  <2>2. b \in blocks \cup {NULL}
    BY <2>1, ZenonT(60) DEF ChainTilesHeap
  <2>3. ASSUME NEW x \in blocks, b = NULL \/ x < b, hdr[x].status = "free"
        PROVE  hdr[x].size < arg[p]
    <3>0. x \in Addr /\ a \in Addr /\ hdr[x] \in Header
      BY ONLY TypeOK, x \in blocks, <2>1 DEF TypeOK
    <3>1. x \in Int /\ a \in Int /\ a # NULL /\ hdr[x].size \in Nat /\ x < Top
      BY ONLY <3>0, HeapAssumption DEF Addr, Header, NULL
    <3>2. CASE x = a
      <4>1. ~(hdr[a].status = "free" /\ hdr[a].size >= arg[p])
        BY DEF Fits
      <4> QED
        BY ONLY <2>1, <2>3, <3>1, <3>2, <4>1
    <3>3. CASE x < a
      BY <3>3, <2>3 DEF LocalsOK
    <3>4. CASE a < x
      <4>1. EndOf(hdr, a) <= x
        BY ONLY ChainTilesHeap, x \in blocks, <2>1, <3>4 DEF ChainTilesHeap
      <4>2. EndOf(hdr, a) \in Int
        BY ONLY TypeOK, ChainTilesHeap, <2>1, EndInHeap
      <4>3. IF b = NULL THEN EndOf(hdr, a) = Top ELSE b = EndOf(hdr, a)
        BY ONLY ChainTilesHeap, <2>1 DEF ChainTilesHeap
      <4> QED
        BY ONLY <2>3, <3>1, <4>1, <4>2, <4>3, HeapAssumption
    <3> QED
      BY <3>1, <3>2, <3>3, <3>4
  <2> SUFFICES ASSUME NEW q \in CPU
               PROVE  LocalsOK!(q)'
    BY DEF LocalsOK
  <2>4. CASE q = p
    <3>1. arg[p] \in Sizes /\ buffer[p] = NULL
      BY DEF LocalsOK, AllocPc
    <3>2. UNCHANGED <<hdr, blocks, pc, arg, buffer>>
      OBVIOUS
    <3> HIDE DEF b
    <3> QED
      BY ONLY <2>1, <2>2, <2>3, <2>4, <3>1, <3>2
  <2>5. CASE q # p
    <3>1. block'[q] = block[q]
      BY <2>5 DEF TypeOK
    <3>2. UNCHANGED <<hdr, blocks, pc, arg, buffer>>
      OBVIOUS
    <3> QED
      BY ONLY LocalsOK, q \in CPU, <3>1, <3>2 DEF LocalsOK, UsedBlock
  <2> QED
    BY <2>4, <2>5
<1>6. OneOwner'
  <2>1. UNCHANGED <<bufs, pc, arg, buffer>>
    OBVIOUS
  <2> QED
    BY ONLY OneOwner, <2>1, Zenon DEF OneOwner
<1> QED
  BY <1>1, <1>2, <1>3, <1>4, <1>5, <1>6

\* heap_alloc returns.
LEMMA AllocReturnKeeps ==
  ASSUME IndInv, NEW p \in CPU, AllocReturn(p)
  PROVE  IndInv'
<1> USE HeapAssumption DEF IndInv, AllocReturn, Return, spinlock_release
<1>1. TypeOK'
  <2>1. buffer[p] # NULL => buffer[p] \in Pointer /\ arg[p] \in Sizes
    BY DEF TypeOK, LocalsOK, AllocPc
  <2>2. DOMAIN bufs' \subseteq Pointer /\ \A x \in DOMAIN bufs' : bufs'[x] \in Sizes
    BY <2>1 DEF TypeOK
  <2>3. pc' \in [CPU -> {"idle"} \cup AllocPc \cup FreePc]
    BY DEF TypeOK
  <2>4. /\ arg' \in [CPU -> Int]
        /\ block' \in [CPU -> Int]
        /\ buffer' \in [CPU -> Pointer \cup {NULL}]
    BY DEF TypeOK, NULL
  <2>5. /\ locked' \in {0, 1} /\ DOMAIN hdr' \subseteq Addr
        /\ \A a \in DOMAIN hdr' : hdr'[a] \in Header'
        /\ blocks' \subseteq DOMAIN hdr'
    BY DEF TypeOK, Header
  <2> QED
    BY <2>2, <2>3, <2>4, <2>5, ZenonT(60) DEF TypeOK
<1>2. ChainTilesHeap' /\ RemnantsOK'
  BY SameMemory
<1>3. BuffersBacked'
  BY DEF BuffersBacked, OneOwner, LocalsOK, UsedBlock, AllocPc
<1>4. MutualExclusion'
  BY DEF MutualExclusion, InSection, TypeOK
<1>5. LocalsOK'
  BY DEF LocalsOK, UsedBlock, TypeOK, AllocPc, FreePc, BuffersBacked,
         MutualExclusion, InSection
<1>6. OneOwner'
  BY DEF OneOwner, TypeOK, AllocPc, FreePc, NULL, Pointer, Addr, LocalsOK,
         UsedBlock, MutualExclusion, InSection
<1> QED
  BY <1>1, <1>2, <1>3, <1>4, <1>5, <1>6

\* A call of heap_free begins.
LEMMA FreeKeeps ==
  ASSUME IndInv, NEW p \in CPU, NEW ptr \in Pointer, Free(p, ptr)
  PROVE  IndInv'
<1> USE HeapAssumption DEF IndInv, Free
<1>1. TypeOK'
  BY DEF TypeOK, AllocPc, FreePc, Addr, Pointer, NULL
<1>2. ChainTilesHeap' /\ RemnantsOK'
  BY SameMemory
<1>3. BuffersBacked'
  BY DEF BuffersBacked, OneOwner, LocalsOK, UsedBlock, AllocPc
<1>4. MutualExclusion'
  BY DEF MutualExclusion, InSection, TypeOK
<1>5. /\ pc[p] = "idle" /\ pc'[p] = "free_lock" /\ arg'[p] = ptr /\ ptr \in DOMAIN bufs
      /\ DOMAIN bufs' = DOMAIN bufs \ {ptr} /\ UNCHANGED <<hdr, blocks, block, buffer>>
      /\ \A q \in CPU : q # p => pc'[q] = pc[q] /\ arg'[q] = arg[q]
  BY DEF TypeOK
<1>6. LocalsOK'
  <2> SUFFICES ASSUME NEW q \in CPU
               PROVE  LocalsOK!(q)'
    BY DEF LocalsOK
  <2>1. CASE q = p
    <3>1. UsedBlock(ptr - HDR)
      BY <1>5 DEF BuffersBacked, UsedBlock
    <3>2. buffer[p] = NULL
      BY <1>5 DEF LocalsOK
    <3> QED
      BY ONLY <1>5, <2>1, <3>1, <3>2 DEF UsedBlock, AllocPc
  <2>2. CASE q # p
    <3>1. pc'[q] = pc[q] /\ arg'[q] = arg[q]
      BY ONLY <1>5, <2>2
    <3> QED
      BY ONLY LocalsOK, <1>5, <3>1 DEF LocalsOK, UsedBlock
  <2> QED
    BY <2>1, <2>2
<1>7. OneOwner'
  <2>1. ASSUME NEW q \in CPU
        PROVE  /\ pc'[q] \in {"free_lock", "check"} => arg'[q] \notin DOMAIN bufs'
               /\ pc'[q] \in AllocPc => buffer[q] \notin DOMAIN bufs'
    BY ONLY OneOwner, <1>5 DEF OneOwner, AllocPc
  <2>2. ASSUME NEW q \in CPU, NEW r \in CPU
        PROVE  /\ pc'[q] = "free_lock" /\ pc'[r] \in {"free_lock", "check"} /\ q # r => arg'[q] # arg'[r]
               /\ pc'[q] \in AllocPc /\ pc'[r] = "free_lock" => buffer[q] # arg'[r]
    BY ONLY OneOwner, <1>5 DEF OneOwner, AllocPc
  <2> QED
    BY ONLY <1>5, <2>1, <2>2 DEF OneOwner, AllocPc
<1> QED
  BY <1>1, <1>2, <1>3, <1>4, <1>6, <1>7

\* heap_free takes the spinlock.
LEMMA FreeLockKeeps ==
  ASSUME IndInv, NEW p \in CPU, FreeLock(p)
  PROVE  IndInv'
<1> USE HeapAssumption DEF IndInv, FreeLock, spinlock_lock
<1>1. TypeOK'
  BY DEF TypeOK, AllocPc, FreePc, Addr, Pointer, NULL
<1>2. ChainTilesHeap' /\ RemnantsOK'
  BY SameMemory
<1>3. BuffersBacked'
  BY DEF BuffersBacked, OneOwner, LocalsOK, UsedBlock, AllocPc
<1>4. MutualExclusion'
  BY DEF MutualExclusion, InSection, TypeOK
<1>5. /\ \A q \in CPU : q # p => /\ pc'[q] = pc[q] /\ arg'[q] = arg[q]
                                 /\ block'[q] = block[q] /\ buffer'[q] = buffer[q]
      /\ pc'[p] = "check" /\ block'[p] = arg'[p] - HDR /\ arg'[p] = arg[p] /\ pc[p] = "free_lock"
  BY DEF TypeOK
<1>6. buffer'[p] = NULL
  BY DEF LocalsOK, TypeOK
<1>7. LocalsOK'
  BY <1>5, <1>6, OthersKnow
<1>8. OneOwner'
  <2>1. /\ arg'[p] \notin DOMAIN bufs
        /\ \A q \in CPU : q # p /\ pc[q] = "free_lock" => arg[q] # arg'[p]
    BY <1>5 DEF OneOwner
  <2> QED BY <1>5, <2>1, OwnersKept
<1> QED
  BY <1>1, <1>2, <1>3, <1>4, <1>7, <1>8

\* A second free of a buffer begins.
LEMMA FreeAgainKeeps ==
  ASSUME IndInv, NEW p \in CPU, NEW ptr \in Pointer \cup {NULL}, FreeAgain(p, ptr)
  PROVE  IndInv'
<1> USE HeapAssumption DEF IndInv, FreeAgain, spinlock_lock, BeingFreed
<1>1. TypeOK'
  BY DEF TypeOK, AllocPc, FreePc, Addr, Pointer, NULL
<1>2. ChainTilesHeap' /\ RemnantsOK'
  BY SameMemory
<1>3. BuffersBacked'
  BY DEF BuffersBacked, OneOwner, LocalsOK, UsedBlock, AllocPc
<1>4. MutualExclusion'
  BY DEF MutualExclusion, InSection, TypeOK
<1>5. /\ \A q \in CPU : q # p => /\ pc'[q] = pc[q] /\ arg'[q] = arg[q]
                                 /\ block'[q] = block[q] /\ buffer'[q] = buffer[q]
      /\ pc'[p] = "check" /\ block'[p] = arg'[p] - HDR /\ arg'[p] = ptr
  BY DEF TypeOK
<1>6. buffer'[p] = NULL
  BY DEF LocalsOK, TypeOK
<1>7. LocalsOK'
  BY <1>5, <1>6, OthersKnow
<1>8. OneOwner'
  <2>1. /\ arg'[p] \notin DOMAIN bufs
        /\ \A q \in CPU : q # p /\ pc[q] = "free_lock" => arg[q] # arg'[p]
    BY <1>5 DEF FreePc
  <2> QED BY <1>5, <2>1, OwnersKept
<1> QED
  BY <1>1, <1>2, <1>3, <1>4, <1>7, <1>8

\* heap_free finds that the pointer is not an allocated buffer.
LEMMA FreeIgnoredKeeps ==
  ASSUME IndInv, NEW p \in CPU, FreeIgnored(p)
  PROVE  IndInv'
<1> USE HeapAssumption DEF IndInv, FreeIgnored
<1>1. TypeOK'
  BY DEF TypeOK, AllocPc, FreePc, Addr, Pointer, NULL
<1>2. ChainTilesHeap' /\ RemnantsOK'
  BY SameMemory
<1>3. BuffersBacked'
  BY DEF BuffersBacked, OneOwner, LocalsOK, UsedBlock, AllocPc
<1>4. MutualExclusion'
  BY DEF MutualExclusion, InSection, TypeOK
<1>5. /\ \A q \in CPU : q # p => /\ pc'[q] = pc[q] /\ arg'[q] = arg[q]
                                 /\ block'[q] = block[q] /\ buffer'[q] = buffer[q]
      /\ pc'[p] = "free_release"
  BY DEF TypeOK
<1>6. buffer'[p] = NULL
  BY DEF LocalsOK, TypeOK
<1>7. LocalsOK'
  BY <1>5, <1>6, OthersKnow
<1>8. OneOwner'
  BY <1>5, OwnersKept
<1> QED
  BY <1>1, <1>2, <1>3, <1>4, <1>7, <1>8

\* heap_free returns.
LEMMA FreeReturnKeeps ==
  ASSUME IndInv, NEW p \in CPU, FreeReturn(p)
  PROVE  IndInv'
<1> USE HeapAssumption DEF IndInv, FreeReturn, Return, spinlock_release
<1>1. TypeOK'
  BY DEF TypeOK, AllocPc, FreePc, Addr, Pointer, NULL
<1>2. ChainTilesHeap' /\ RemnantsOK'
  BY SameMemory
<1>3. BuffersBacked'
  BY DEF BuffersBacked, OneOwner, LocalsOK, UsedBlock, AllocPc
<1>4. MutualExclusion'
  BY DEF MutualExclusion, InSection, TypeOK
<1>5. /\ \A q \in CPU : q # p => /\ pc'[q] = pc[q] /\ arg'[q] = arg[q]
                                 /\ block'[q] = block[q] /\ buffer'[q] = buffer[q]
      /\ pc'[p] = "idle"
  BY DEF TypeOK
<1>6. buffer'[p] = NULL
  BY DEF TypeOK
<1>7. LocalsOK'
  BY <1>5, <1>6, OthersKnow
<1>8. OneOwner'
  BY <1>5, OwnersKept
<1> QED
  BY <1>1, <1>2, <1>3, <1>4, <1>7, <1>8


\* heap_alloc marks the block it has chosen.
LEMMA ScanTakesKeeps ==
  ASSUME IndInv, NEW p \in CPU, ScanTakes(p)
  PROVE  IndInv'
<1> USE HeapAssumption DEF IndInv, ScanTakes
<1> DEFINE a == block[p]
<1>1. /\ a \in blocks /\ a \in DOMAIN hdr /\ arg[p] \in Sizes /\ arg[p] \in Nat
      /\ hdr[a].status = "free" /\ hdr[a].size >= arg[p] /\ hdr[a].size \in Nat
  BY DEF LocalsOK, TypeOK, Addr, NULL, AllocPc, Fits, Header
<1>2. /\ DOMAIN hdr' = DOMAIN hdr
      /\ \A x \in DOMAIN hdr : /\ hdr'[x] \in Header
                               /\ hdr'[x].size = hdr[x].size
                               /\ hdr'[x].next = hdr[x].next
                               /\ hdr'[x].prev = hdr[x].prev
                               /\ EndOf(hdr', x) = EndOf(hdr, x)
      /\ \A x \in DOMAIN hdr : x # a => hdr'[x].status = hdr[x].status
      /\ hdr'[a].status = "used"
  BY <1>1, MarkFields, ZenonT(60)
<1>3. a + HDR \in Pointer /\ a + HDR # NULL /\ a \in Int
  BY <1>1, EndInHeap DEF TypeOK, Addr, Pointer, NULL
<1>4. TypeOK'
  <2>1. /\ DOMAIN hdr' \subseteq Addr
        /\ \A x \in DOMAIN hdr' : hdr'[x] \in Header
        /\ blocks' \subseteq DOMAIN hdr'
    BY <1>2 DEF TypeOK
  <2>2. buffer' \in [CPU -> Pointer \cup {NULL}]
    BY <1>3 DEF TypeOK
  <2>3. pc' \in [CPU -> {"idle"} \cup AllocPc \cup FreePc]
    BY DEF TypeOK, AllocPc
  <2> QED
    BY <2>1, <2>2, <2>3 DEF TypeOK
<1>5. ChainTilesHeap'
  BY <1>2 DEF ChainTilesHeap, TypeOK, EndOf
<1>6. RemnantsOK'
  BY <1>1, <1>2 DEF RemnantsOK, TypeOK
<1>7. BuffersBacked'
  BY <1>2 DEF BuffersBacked, TypeOK
<1>8. MutualExclusion'
  BY DEF MutualExclusion, InSection, TypeOK
<1>9. a + HDR \notin DOMAIN bufs
      /\ \A q \in CPU : pc[q] = "free_lock" => arg[q] # a + HDR
  BY <1>1, <1>3 DEF BuffersBacked, LocalsOK, UsedBlock, TypeOK
<1>10. LocalsOK'
  <2> SUFFICES ASSUME NEW q \in CPU
               PROVE  LocalsOK!(q)'
    BY DEF LocalsOK
  <2>1. CASE q = p
    <3>1. /\ pc'[q] = IF NoSplit(hdr, a, arg[p]) THEN "alloc_release" ELSE "split"
          /\ buffer'[q] = a + HDR /\ block'[q] = a /\ arg'[q] = arg[p]
      BY <2>1 DEF TypeOK
    <3>2. ~NoSplit(hdr, a, arg[p]) => hdr[a].size > arg[p] + HDR + 1
      BY <1>1 DEF NoSplit
    <3>3. a \in blocks' /\ hdr'[a].status = "used" /\ hdr'[a].size = hdr[a].size
      BY <1>1, <1>2, ZenonT(60)
    <3>4. buffer'[q] - HDR = a /\ buffer'[q] # NULL
      BY <3>1, <1>3
    <3> HIDE DEF ScanTakes, IndInv, a
    <3> QED
      BY <3>1, <3>2, <3>3, <3>4, <1>1 DEF AllocPc, UsedBlock
  <2>2. CASE q # p
    <3>1. ~InSection(q) /\ pc'[q] = pc[q] /\ arg'[q] = arg[q] /\ buffer'[q] = buffer[q]
      BY <2>2 DEF MutualExclusion, InSection, TypeOK
    <3>2. UsedBlock(arg[q] - HDR) => UsedBlock(arg[q] - HDR)'
      BY <1>2 DEF UsedBlock, TypeOK
    <3> QED
      BY <3>1, <3>2 DEF LocalsOK, InSection
  <2> QED
    BY <2>1, <2>2
<1>11. OneOwner'
  BY <1>3, <1>9 DEF OneOwner, TypeOK, AllocPc, LocalsOK, MutualExclusion, InSection
<1> QED
  BY <1>4, <1>5, <1>6, <1>7, <1>8, <1>10, <1>11

\* heap_alloc cuts the block it has taken.
LEMMA AllocSplitKeeps ==
  ASSUME IndInv, NEW p \in CPU, AllocSplit(p)
  PROVE  IndInv'
<1> USE HeapAssumption DEF IndInv
<1> DEFINE a == block[p]
           n == arg[p]
           b == a + HDR + n
<1>1. /\ a \in blocks /\ hdr[a].status = "used" /\ hdr[a].size > n + HDR + 1
      /\ n \in Nat /\ n \in Sizes /\ buffer[p] = a + HDR /\ a \in Int
      /\ pc[p] = "split"
  BY DEF AllocSplit, LocalsOK, UsedBlock, AllocPc, TypeOK, Addr
<1>2. /\ hdr' = SplitAt(hdr, a, n) /\ blocks' = blocks \cup {b}
      /\ pc' = [pc EXCEPT ![p] = "alloc_release"]
      /\ UNCHANGED <<locked, bufs, arg, block, buffer>>
  BY DEF AllocSplit
<1> HIDE DEF a, n
<1>3. /\ b \in Addr /\ b \notin blocks
      /\ DOMAIN hdr' \subseteq DOMAIN hdr \cup {b}
      /\ blocks \cup {b} \subseteq DOMAIN hdr'
      /\ \A x \in DOMAIN hdr' : x # a /\ x # b => hdr'[x] = hdr[x]
      /\ \A x \in DOMAIN hdr' : hdr'[x] \in Header
      /\ hdr'[a].status = hdr[a].status /\ hdr'[a].size = n
      /\ hdr'[a].next = b /\ hdr'[a].prev = hdr[a].prev
      /\ hdr'[b].status = "free" /\ hdr'[b].next = hdr[a].next
      /\ hdr'[b].prev = a
      /\ EndOf(hdr', a) = b /\ EndOf(hdr', b) = EndOf(hdr, a)
      /\ \A x \in blocks : x # a => EndOf(hdr', x) = EndOf(hdr, x)
  <2>1. TypeOK /\ ChainTilesHeap
    OBVIOUS
  <2>2. b = a + HDR + n
    OBVIOUS
  <2> HIDE DEF b
  <2>3. SplitInTwo(a, n, b)
    BY ONLY <2>1, <2>2, <1>1, <1>2, SplitNamed
  <2> QED BY ONLY <2>3 DEF SplitInTwo
<1> HIDE DEF b
<1>4. TypeOK'
  <2>1. /\ DOMAIN hdr' \subseteq Addr
        /\ \A x \in DOMAIN hdr' : hdr'[x] \in Header
        /\ blocks' \subseteq DOMAIN hdr'
    BY <1>2, <1>3 DEF TypeOK
  <2>2. pc' \in [CPU -> {"idle"} \cup AllocPc \cup FreePc]
    BY <1>2 DEF TypeOK, AllocPc
  <2> QED
    BY <1>2, <2>1, <2>2 DEF TypeOK
<1>5. ChainTilesHeap'
  <2>1. Bottom \in blocks'
    BY <1>2 DEF ChainTilesHeap
  <2>2. ASSUME NEW x \in blocks'
        PROVE  IF hdr'[x].next = NULL THEN EndOf(hdr', x) = Top
               ELSE hdr'[x].next = EndOf(hdr', x) /\ EndOf(hdr', x) \in blocks'
    <3>1. b # NULL /\ a # b
      BY <1>1, <1>3 DEF Addr, NULL
    <3>2. CASE x = a
      BY <3>1, <3>2, <1>2, <1>3
    <3>3. CASE x = b
      BY <3>3, <1>1, <1>2, <1>3 DEF ChainTilesHeap
    <3>4. CASE x # a /\ x # b
      BY <3>4, <1>2, <1>3 DEF ChainTilesHeap
    <3> QED
      BY <3>2, <3>3, <3>4
  <2>3. ASSUME NEW x \in blocks', NEW y \in blocks', x < y
        PROVE  EndOf(hdr', x) <= y
    <3>1. /\ a \in Int /\ b \in Int /\ EndOf(hdr, a) \in Int /\ a < b /\ b < EndOf(hdr, a)
          /\ \A z \in blocks : z \in Int /\ EndOf(hdr, z) \in Int
      <4>1. b = a + HDR + n
        BY DEF b
      <4>2. hdr[a].size \in Int /\ EndOf(hdr, a) = a + HDR + hdr[a].size
        BY <1>1 DEF EndOf, TypeOK, Header
      <4> QED
        BY <1>1, <4>1, <4>2, EndInHeap
    <3>2. \A v, w \in blocks : v < w => EndOf(hdr, v) <= w
      BY ZenonT(60) DEF ChainTilesHeap
    <3>3. CASE x = b /\ y # b
      <4>1. a < y /\ y \in blocks
        BY <3>1, <3>3, <2>3, <1>2
      <4> QED
        BY <4>1, <3>2, <3>3, <1>1, <1>3
    <3>4. CASE x # b /\ y = b
      <4>1. CASE x = a
        BY <4>1, <3>4, <3>1, <1>3
      <4>2. CASE x < a
        <5>1. x \in blocks /\ EndOf(hdr, x) <= a
          BY <3>2, <3>4, <4>2, <1>1, <1>2, ZenonT(60)
        <5> QED
          BY <5>1, <3>1, <3>4, <4>2, <1>3
      <4>3. CASE a < x
        <5>1. x \in blocks /\ EndOf(hdr, a) <= x
          BY <3>2, <3>4, <4>3, <1>1, <1>2
        <5> QED
          BY <5>1, <3>1, <3>4, <2>3
      <4> QED
        BY <3>1, <3>4, <4>1, <4>2, <4>3, <1>2
    <3>5. CASE x # b /\ y # b
      <4>1. x \in blocks /\ y \in blocks
        BY <3>5, <1>2
      <4>2. CASE x = a
        BY <4>1, <4>2, <3>1, <3>2, <2>3, <1>3
      <4>3. CASE x # a
        BY <4>1, <4>3, <3>2, <2>3, <1>3
      <4> QED
        BY <4>2, <4>3
    <3> QED
      BY <3>1, <3>3, <3>4, <3>5, <2>3
  <2> QED
    BY <2>1, <2>2, <2>3 DEF ChainTilesHeap, EndOf
<1>6. RemnantsOK'
  <2>1. ASSUME NEW x \in DOMAIN hdr' \ blocks'
        PROVE  x \in DOMAIN hdr \ blocks /\ hdr'[x] = hdr[x]
    BY <1>1, <1>2, <1>3
  <2>2. ASSUME NEW x \in blocks', hdr'[x].prev \in DOMAIN hdr' \ blocks'
        PROVE  hdr'[hdr'[x].prev].next # x
    <3>1. x # b
      BY <2>2, <1>1, <1>2, <1>3
    <3>2. x \in blocks /\ hdr'[x].prev = hdr[x].prev
      BY <3>1, <1>2, <1>3
    <3> DEFINE r == hdr[x].prev
    <3>3. r \in DOMAIN hdr \ blocks /\ hdr'[r] = hdr[r]
      BY <2>1, <2>2, <3>2
    <3> QED
      BY <3>2, <3>3 DEF RemnantsOK
  <2>3. \A x \in DOMAIN hdr' \ blocks' : hdr'[x].status = "free"
    BY <2>1 DEF RemnantsOK
  <2> QED
    BY <2>2, <2>3 DEF RemnantsOK
<1>7. \A x \in blocks : hdr[x].status = "used" =>
        /\ x \in blocks' /\ hdr'[x].status = "used"
        /\ x # a => hdr'[x].size = hdr[x].size
  BY <1>1, <1>2, <1>3 DEF TypeOK
<1>8. a + HDR \notin DOMAIN bufs
  BY <1>1 DEF OneOwner, AllocPc
<1>9. BuffersBacked'
  <2> SUFFICES ASSUME NEW ptr \in DOMAIN bufs
               PROVE  /\ ptr - HDR \in blocks'
                      /\ hdr'[ptr - HDR].status = "used"
                      /\ bufs[ptr] <= hdr'[ptr - HDR].size
    BY <1>2 DEF BuffersBacked
  <2>1. ptr \in Int /\ ptr - HDR # a
    BY <1>1, <1>8 DEF TypeOK, Pointer
  <2> QED
    BY <2>1, <1>7 DEF BuffersBacked, UsedBlock
<1>10. MutualExclusion'
  BY <1>1, <1>2 DEF MutualExclusion, InSection, TypeOK
<1>11. LocalsOK'
  <2> SUFFICES ASSUME NEW q \in CPU
               PROVE  LocalsOK!(q)'
    BY DEF LocalsOK
  <2>1. CASE q = p
    <3>1. /\ pc'[q] = "alloc_release" /\ buffer'[q] = a + HDR /\ arg'[q] = n
          /\ a + HDR - HDR = a
      BY <2>1, <1>1, <1>2 DEF TypeOK, n
    <3>2. a \in blocks' /\ hdr'[a].status = "used" /\ hdr'[a].size = n
      BY <1>1, <1>2, <1>3
    <3>3. n \in Sizes /\ n <= n
      <4>1. n \in Nat /\ n \in Sizes
        BY ONLY <1>1
      <4> QED
        BY ONLY <4>1
    <3>4. buffer'[q] - HDR = a
      <4>1. a \in Int
        BY <1>1
      <4> QED
        BY <3>1, <4>1
    <3>5. UsedBlock(buffer[q] - HDR)' /\ arg'[q] <= hdr'[buffer'[q] - HDR].size
      BY <3>1, <3>2, <3>3, <3>4 DEF UsedBlock
    <3> QED
      BY <3>1, <3>3, <3>5
  <2>2. CASE q # p
    <3>1. /\ ~InSection(q) /\ pc'[q] = pc[q] /\ arg'[q] = arg[q]
          /\ buffer'[q] = buffer[q]
      BY <2>2, <1>1, <1>2 DEF MutualExclusion, InSection, TypeOK
    <3>2. UsedBlock(arg[q] - HDR) => UsedBlock(arg[q] - HDR)'
      BY <1>2, <1>7 DEF UsedBlock
    <3> QED
      BY <3>1, <3>2 DEF LocalsOK, InSection
  <2> QED
    BY <2>1, <2>2
<1>12. OneOwner'
  BY <1>1, <1>2 DEF OneOwner, TypeOK, AllocPc
<1> QED
  BY <1>4, <1>5, <1>6, <1>9, <1>10, <1>11, <1>12

\* heap_free marks an allocated block as free.
LEMMA FreeMarksKeeps ==
  ASSUME IndInv, NEW p \in CPU, FreeMarks(p)
  PROVE  IndInv'
<1> USE HeapAssumption DEF IndInv
<1> DEFINE a == block[p]
<1>1. /\ pc[p] = "check" /\ a \in DOMAIN hdr /\ hdr[a].status = "used"
      /\ a = arg[p] - HDR /\ arg[p] \in Int
  BY DEF FreeMarks, IsAllocated, LocalsOK, TypeOK
<1>2. a \in blocks
  BY <1>1 DEF RemnantsOK
<1>3. /\ hdr' = [hdr EXCEPT ![a].status = "free"]
      /\ pc' = [pc EXCEPT ![p] = "merge_next"]
      /\ UNCHANGED <<blocks, locked, bufs, arg, block, buffer>>
  BY DEF FreeMarks
<1>4. /\ DOMAIN hdr' = DOMAIN hdr
      /\ \A x \in DOMAIN hdr : /\ hdr'[x] \in Header
                               /\ hdr'[x].size = hdr[x].size
                               /\ hdr'[x].next = hdr[x].next
                               /\ hdr'[x].prev = hdr[x].prev
                               /\ EndOf(hdr', x) = EndOf(hdr, x)
      /\ \A x \in DOMAIN hdr : x # a => hdr'[x].status = hdr[x].status
      /\ hdr'[a].status = "free"
  BY <1>1, <1>3, MarkFields, ZenonT(60)
<1>5. TypeOK'
  <2>1. /\ DOMAIN hdr' \subseteq Addr
        /\ \A x \in DOMAIN hdr' : hdr'[x] \in Header
        /\ blocks' \subseteq DOMAIN hdr'
    BY <1>3, <1>4 DEF TypeOK
  <2>2. pc' \in [CPU -> {"idle"} \cup AllocPc \cup FreePc]
    BY <1>3 DEF TypeOK, FreePc
  <2> QED
    BY <1>3, <2>1, <2>2 DEF TypeOK
<1>6. ChainTilesHeap'
  BY <1>3, <1>4 DEF ChainTilesHeap, TypeOK, EndOf
<1>7. RemnantsOK'
  BY <1>3, <1>4 DEF RemnantsOK, TypeOK
<1>8. /\ \A ptr \in DOMAIN bufs : ptr \in Int /\ ptr - HDR # a
      /\ \A q \in CPU : q # p /\ pc[q] = "free_lock" => arg[q] - HDR # a
  <2>1. arg[p] \notin DOMAIN bufs
    BY <1>1 DEF OneOwner
  <2>2. \A q \in CPU : q # p /\ pc[q] = "free_lock" => arg[q] # arg[p]
    BY <1>1 DEF OneOwner
  <2> QED
    BY <1>1, <2>1, <2>2 DEF TypeOK, Pointer
<1>9. BuffersBacked'
  BY <1>3, <1>4, <1>8 DEF BuffersBacked, TypeOK
<1>10. MutualExclusion'
  BY <1>1, <1>3 DEF MutualExclusion, InSection, TypeOK
<1>11. LocalsOK'
  <2> SUFFICES ASSUME NEW q \in CPU
               PROVE  LocalsOK!(q)'
    BY DEF LocalsOK
  <2>1. CASE q = p
    <3>1. pc'[q] = "merge_next" /\ block'[q] = a /\ buffer'[q] = NULL
      BY <2>1, <1>1, <1>3 DEF TypeOK, LocalsOK
    <3> HIDE DEF a
    <3> QED
      BY <3>1, <1>2, <1>3, <1>4 DEF AllocPc
  <2>2. CASE q # p
    <3>1. /\ ~InSection(q) /\ pc'[q] = pc[q] /\ arg'[q] = arg[q]
          /\ buffer'[q] = buffer[q]
      BY <2>2, <1>1, <1>3 DEF MutualExclusion, InSection, TypeOK
    <3>2. pc[q] = "free_lock" => UsedBlock(arg[q] - HDR)'
      BY <2>2, <1>3, <1>4, <1>8 DEF UsedBlock, TypeOK, LocalsOK
    <3> QED
      BY <3>1, <3>2 DEF LocalsOK, InSection
  <2> QED
    BY <2>1, <2>2
<1>12. OneOwner'
  BY <1>1, <1>3 DEF OneOwner, TypeOK, AllocPc
<1> QED
  BY <1>5, <1>6, <1>7, <1>9, <1>10, <1>11, <1>12

\* What a merge does to the chain: it still tiles the heap, the absorbed
\* block becomes a remnant nobody points back to, used blocks are not touched.
LEMMA MergeKeepsMemory ==
  ASSUME TypeOK, ChainTilesHeap, RemnantsOK,
         NEW head \in blocks, NEW tail \in blocks, Mergeable(hdr, head, tail),
         hdr' = heap_merge(hdr, head, tail), blocks' = blocks \ {tail}
  PROVE  /\ DOMAIN hdr' \subseteq Addr
         /\ \A x \in DOMAIN hdr' : hdr'[x] \in Header
         /\ blocks' \subseteq DOMAIN hdr'
         /\ ChainTilesHeap'
         /\ RemnantsOK'
         /\ \A x \in blocks : hdr[x].status = "used" =>
              /\ x \in blocks' /\ hdr'[x].status = "used"
              /\ hdr'[x].size = hdr[x].size
         /\ head \in blocks' /\ hdr'[head].status = "free"
<1> USE HeapAssumption
<1> DEFINE bound == hdr[tail].next
<1>1. /\ DOMAIN hdr' = DOMAIN hdr
      /\ \A x \in DOMAIN hdr : hdr'[x].status = hdr[x].status
      /\ \A x \in DOMAIN hdr : x # head => /\ hdr'[x].size = hdr[x].size
                                           /\ hdr'[x].next = hdr[x].next
                                           /\ EndOf(hdr', x) = EndOf(hdr, x)
      /\ hdr'[head].next = bound
      /\ EndOf(hdr', head) = EndOf(hdr, tail)
      /\ \A x \in DOMAIN hdr : x # bound => hdr'[x].prev = hdr[x].prev
      /\ bound # NULL => hdr'[bound].prev = head
      /\ \A x \in DOMAIN hdr : hdr'[x] \in Header
  BY MergeFields
<1>2. /\ EndOf(hdr, head) = tail /\ hdr[head].next = tail /\ hdr[tail].prev = head
      /\ hdr[head].status = "free" /\ hdr[tail].status = "free"
  BY DEF Mergeable
<1>3. /\ \A x \in blocks : /\ x \in Int /\ EndOf(hdr, x) \in Int /\ x \in DOMAIN hdr
                           /\ x < EndOf(hdr, x)
      /\ \A x, y \in blocks : x < y => EndOf(hdr, x) <= y
      /\ head < tail
  <2>1. \A x \in blocks : /\ x \in Int /\ EndOf(hdr, x) \in Int /\ x \in DOMAIN hdr
                          /\ x < EndOf(hdr, x)
    BY EndInHeap DEF TypeOK
  <2>2. \A x, y \in blocks : x < y => EndOf(hdr, x) <= y
    BY DEF ChainTilesHeap
  <2> QED
    BY <2>1, <2>2, <1>2
<1>4. \A x \in blocks : x # head => EndOf(hdr, x) # tail
  BY <1>2, <1>3
<1>5. ChainTilesHeap'
  <2>1. Bottom \in blocks'
    BY <1>3 DEF ChainTilesHeap, TypeOK, Addr
  <2>2. ASSUME NEW x \in blocks'
        PROVE  IF hdr'[x].next = NULL THEN EndOf(hdr', x) = Top
               ELSE hdr'[x].next = EndOf(hdr', x) /\ EndOf(hdr', x) \in blocks'
    <3>1. CASE x = head
      <4>1. EndOf(hdr, tail) # tail
        BY <1>3
      <4> QED
        BY <3>1, <4>1, <1>1 DEF ChainTilesHeap
    <3>2. CASE x # head
      BY <3>2, <1>1, <1>3, <1>4 DEF ChainTilesHeap
    <3> QED
      BY <3>1, <3>2
  <2>3. ASSUME NEW x \in blocks', NEW y \in blocks', x < y
        PROVE  EndOf(hdr', x) <= y
    <3>1. CASE x = head
      <4>1. tail <= y /\ tail # y
        <5>1. head \in blocks /\ y \in blocks /\ y # tail
          OBVIOUS
        <5> QED
          BY ONLY <3>1, <2>3, <1>2, <1>3, <5>1
      <4> QED
        BY <3>1, <4>1, <1>1, <1>3
    <3>2. CASE x # head
      BY <3>2, <2>3, <1>1, <1>3
    <3> QED
      BY <3>1, <3>2
  <2> QED
    BY <2>1, <2>2, <2>3 DEF ChainTilesHeap, EndOf
<1>6. RemnantsOK'
  <2>1. ASSUME NEW x \in DOMAIN hdr' \ blocks'
        PROVE  hdr'[x].status = "free"
    <3>1. x \in DOMAIN hdr /\ hdr'[x].status = hdr[x].status
      BY <1>1
    <3>2. CASE x = tail
      BY <3>1, <3>2, <1>2
    <3>3. CASE x \in DOMAIN hdr \ blocks
      BY <3>1, <3>3 DEF RemnantsOK
    <3> QED
      BY <3>1, <3>2, <3>3
  <2>2. ASSUME NEW x \in blocks', hdr'[x].prev \in DOMAIN hdr' \ blocks'
        PROVE  hdr'[hdr'[x].prev].next # x
    <3>1. x # bound /\ hdr'[x].prev = hdr[x].prev
      <4>1. x # NULL
        BY DEF TypeOK, Addr, NULL
      <4>2. x \in DOMAIN hdr /\ head \in blocks'
        BY <1>3
      <4> HIDE DEF bound
      <4> QED
        BY ONLY <4>1, <4>2, <2>2, <1>1
    <3> DEFINE r == hdr[x].prev
    <3>2. r # head /\ hdr'[r].next = hdr[r].next
      BY <2>2, <3>1, <1>1, <1>3
    <3>3. CASE r = tail
      BY <3>1, <3>2, <3>3
    <3>4. CASE r # tail
      <4>1. r \in DOMAIN hdr \ blocks
        BY <2>2, <3>1, <3>4, <1>1
      <4>2. hdr[r].next # x
        BY <4>1 DEF RemnantsOK
      <4> QED
        BY <3>1, <3>2, <4>2
    <3> QED
      BY <3>3, <3>4
  <2> QED
    BY <2>1, <2>2 DEF RemnantsOK
<1>7. /\ DOMAIN hdr' \subseteq Addr
      /\ \A x \in DOMAIN hdr' : hdr'[x] \in Header
      /\ blocks' \subseteq DOMAIN hdr'
  BY <1>1 DEF TypeOK
<1>8. ASSUME NEW x \in blocks, hdr[x].status = "used"
      PROVE  x \in blocks' /\ hdr'[x].status = "used" /\ hdr'[x].size = hdr[x].size
  <2>1. x # head /\ x # tail
    BY <1>2, <1>8
  <2> QED BY <1>1, <1>3, <1>8, <2>1
<1>9. head \in blocks' /\ hdr'[head].status = "free"
  <2>1. head # tail /\ head \in DOMAIN hdr
    BY ONLY head \in blocks, <1>3
  <2> QED
    BY ONLY head \in blocks, blocks' = blocks \ {tail}, <1>1, <1>2, <2>1
<1> QED
  BY ONLY <1>5, <1>6, <1>7, <1>8, <1>9

\* heap_free tries to absorb the next block.
LEMMA FreeMergesNextKeeps ==
  ASSUME IndInv, NEW p \in CPU, FreeMergesNext(p)
  PROVE  IndInv'
<1> USE HeapAssumption DEF IndInv
<1> DEFINE a == block[p]
<1>1. /\ pc[p] = "merge_next" /\ a \in blocks /\ hdr[a].status = "free"
      /\ a \in DOMAIN hdr
  BY DEF FreeMergesNext, LocalsOK, TypeOK
<1>2. /\ pc' = [pc EXCEPT ![p] = "merge_prev"]
      /\ UNCHANGED <<locked, bufs, arg, block, buffer>>
  BY DEF FreeMergesNext
<1>3. /\ DOMAIN hdr' \subseteq Addr
      /\ \A x \in DOMAIN hdr' : hdr'[x] \in Header
      /\ blocks' \subseteq DOMAIN hdr'
      /\ ChainTilesHeap'
      /\ RemnantsOK'
      /\ \A x \in blocks : hdr[x].status = "used" =>
           /\ x \in blocks' /\ hdr'[x].status = "used"
           /\ hdr'[x].size = hdr[x].size
      /\ a \in blocks' /\ hdr'[a].status = "free"
  <2> DEFINE b == hdr[a].next
  <2>1. CASE a # NULL /\ b # NULL /\ Mergeable(hdr, a, b)
    <3>1. b \in blocks /\ hdr' = heap_merge(hdr, a, b) /\ blocks' = blocks \ {b}
      BY <1>1, <2>1 DEF ChainTilesHeap, FreeMergesNext, TryMerge
    <3> QED
      BY <1>1, <2>1, <3>1, MergeKeepsMemory
  <2>2. CASE ~(a # NULL /\ b # NULL /\ Mergeable(hdr, a, b))
    <3>1. UNCHANGED <<hdr, blocks>>
      BY <2>2 DEF FreeMergesNext, TryMerge
    <3> QED
      BY <1>1, <3>1, SameMemory DEF TypeOK
  <2> QED
    BY <2>1, <2>2
<1>4. TypeOK'
  <2>1. pc' \in [CPU -> {"idle"} \cup AllocPc \cup FreePc]
    BY <1>2 DEF TypeOK, FreePc
  <2> QED
    BY <1>2, <1>3, <2>1 DEF TypeOK
<1>5. BuffersBacked'
  BY <1>2, <1>3 DEF BuffersBacked
<1>6. MutualExclusion'
  BY <1>1, <1>2 DEF MutualExclusion, InSection, TypeOK
<1>7. LocalsOK'
  <2> SUFFICES ASSUME NEW q \in CPU
               PROVE  LocalsOK!(q)'
    BY DEF LocalsOK
  <2>1. CASE q = p
    <3>1. pc'[q] = "merge_prev" /\ block'[q] = a /\ buffer'[q] = NULL
      BY <2>1, <1>1, <1>2 DEF TypeOK, LocalsOK
    <3> HIDE DEF a
    <3> QED
      BY <3>1, <1>3 DEF AllocPc
  <2>2. CASE q # p
    <3>1. /\ ~InSection(q) /\ pc'[q] = pc[q] /\ arg'[q] = arg[q]
          /\ buffer'[q] = buffer[q]
      BY <2>2, <1>1, <1>2 DEF MutualExclusion, InSection, TypeOK
    <3>2. pc[q] = "free_lock" => UsedBlock(arg[q] - HDR)'
      BY <1>2, <1>3 DEF UsedBlock, LocalsOK
    <3> QED
      BY <3>1, <3>2 DEF LocalsOK, InSection
  <2> QED
    BY <2>1, <2>2
<1>8. OneOwner'
  BY <1>1, <1>2 DEF OneOwner, TypeOK, AllocPc
<1> QED
  BY <1>3, <1>4, <1>5, <1>6, <1>7, <1>8

\* heap_free tries to be absorbed by the previous block.  A remnant never is
\* taken for it: that is what RemnantsOK is for.
LEMMA FreeMergesPrevKeeps ==
  ASSUME IndInv, NEW p \in CPU, FreeMergesPrev(p)
  PROVE  IndInv'
<1> USE HeapAssumption DEF IndInv
<1> DEFINE a == block[p]
<1>1. /\ pc[p] = "merge_prev" /\ a \in blocks /\ hdr[a].status = "free"
      /\ a \in DOMAIN hdr
  BY DEF FreeMergesPrev, LocalsOK, TypeOK
<1>2. /\ pc' = [pc EXCEPT ![p] = "free_release"]
      /\ UNCHANGED <<locked, bufs, arg, block, buffer>>
  BY DEF FreeMergesPrev
<1>3. /\ DOMAIN hdr' \subseteq Addr
      /\ \A x \in DOMAIN hdr' : hdr'[x] \in Header
      /\ blocks' \subseteq DOMAIN hdr'
      /\ ChainTilesHeap'
      /\ RemnantsOK'
      /\ \A x \in blocks : hdr[x].status = "used" =>
           /\ x \in blocks' /\ hdr'[x].status = "used"
           /\ hdr'[x].size = hdr[x].size
  <2> DEFINE b == hdr[a].prev
  <2>1. CASE b # NULL /\ a # NULL /\ Mergeable(hdr, b, a)
    <3>1. b \in blocks
      BY <1>1, <2>1 DEF Mergeable, RemnantsOK
    <3>2. hdr' = heap_merge(hdr, b, a) /\ blocks' = blocks \ {a}
      BY <1>1, <2>1 DEF FreeMergesPrev, TryMerge
    <3> QED
      BY <1>1, <2>1, <3>1, <3>2, MergeKeepsMemory
  <2>2. CASE ~(b # NULL /\ a # NULL /\ Mergeable(hdr, b, a))
    <3>1. UNCHANGED <<hdr, blocks>>
      BY <2>2 DEF FreeMergesPrev, TryMerge
    <3> QED
      BY <1>1, <3>1, SameMemory DEF TypeOK
  <2> QED
    BY <2>1, <2>2, ZenonT(60)
<1>4. TypeOK'
  <2>1. pc' \in [CPU -> {"idle"} \cup AllocPc \cup FreePc]
    BY <1>2 DEF TypeOK, FreePc
  <2> QED
    BY <1>2, <1>3, <2>1 DEF TypeOK
<1>5. BuffersBacked'
  BY <1>2, <1>3 DEF BuffersBacked
<1>6. MutualExclusion'
  BY <1>1, <1>2 DEF MutualExclusion, InSection, TypeOK
<1>7. LocalsOK'
  <2> SUFFICES ASSUME NEW q \in CPU
               PROVE  LocalsOK!(q)'
    BY DEF LocalsOK
  <2>1. CASE q = p
    <3>1. pc'[q] = "free_release" /\ block'[q] = a /\ buffer'[q] = NULL
      BY <2>1, <1>1, <1>2 DEF TypeOK, LocalsOK
    <3> HIDE DEF a
    <3> QED
      BY <3>1, <1>3 DEF AllocPc
  <2>2. CASE q # p
    <3>1. /\ ~InSection(q) /\ pc'[q] = pc[q] /\ arg'[q] = arg[q]
          /\ buffer'[q] = buffer[q]
      BY <2>2, <1>1, <1>2 DEF MutualExclusion, InSection, TypeOK
    <3>2. pc[q] = "free_lock" => UsedBlock(arg[q] - HDR)'
      BY <1>2, <1>3 DEF UsedBlock, LocalsOK
    <3> QED
      BY <3>1, <3>2 DEF LocalsOK, InSection
  <2> QED
    BY <2>1, <2>2
<1>8. OneOwner'
  BY <1>1, <1>2 DEF OneOwner, TypeOK, AllocPc
<1> QED
  BY <1>3, <1>4, <1>5, <1>6, <1>7, <1>8

\* A client writes in its buffer.
LEMMA ClientWritesKeeps ==
  ASSUME IndInv, NEW ptr \in Pointer, NEW c \in Addr, ClientWrites(ptr, c)
  PROVE  IndInv'
<1> USE HeapAssumption DEF IndInv
<1>1. UNCHANGED <<blocks, locked, bufs, pc, arg, block, buffer>>
  BY DEF ClientWrites
<1>2. /\ DOMAIN hdr' \subseteq DOMAIN hdr
      /\ blocks \subseteq DOMAIN hdr'
      /\ \A x \in DOMAIN hdr' : hdr'[x] = hdr[x]
  BY SpoilFields DEF ClientWrites
<1>3. \A x \in blocks : hdr'[x] = hdr[x]
  BY <1>2
<1>4. TypeOK'
  <2>1. /\ DOMAIN hdr' \subseteq Addr
        /\ \A x \in DOMAIN hdr' : hdr'[x] \in Header
        /\ blocks' \subseteq DOMAIN hdr'
    BY <1>1, <1>2 DEF TypeOK
  <2> QED
    BY <1>1, <2>1 DEF TypeOK
<1>5. ChainTilesHeap'
  BY <1>1, <1>3 DEF ChainTilesHeap, EndOf
<1>6. RemnantsOK'
  BY <1>1, <1>2, <1>3 DEF RemnantsOK
<1>7. BuffersBacked'
  BY <1>1, <1>3 DEF BuffersBacked
<1>8. MutualExclusion' /\ OneOwner'
  BY <1>1 DEF MutualExclusion, InSection, OneOwner
<1>9. LocalsOK'
  <2> SUFFICES ASSUME NEW q \in CPU
               PROVE  LocalsOK!(q)'
    BY DEF LocalsOK
  <2>1. /\ pc'[q] = pc[q] /\ arg'[q] = arg[q] /\ block'[q] = block[q]
        /\ buffer'[q] = buffer[q] /\ blocks' = blocks
    BY <1>1
  <2>2. pc[q] = "scan" =>
          /\ block[q] \in blocks \cup {NULL}
          /\ \A a \in blocks :
               (block[q] = NULL \/ a < block[q]) /\ hdr'[a].status = "free"
                 => hdr'[a].size < arg[q]
    BY <1>3 DEF LocalsOK
  <2>3. pc[q] = "split" => /\ UsedBlock(block[q])'
                           /\ buffer[q] = block[q] + HDR
                           /\ hdr'[block[q]].size > arg[q] + HDR + 1
    BY <1>3, <2>1 DEF LocalsOK, UsedBlock
  <2>4. pc[q] = "alloc_release" /\ buffer[q] # NULL =>
          UsedBlock(buffer[q] - HDR)' /\ arg[q] <= hdr'[buffer[q] - HDR].size
    BY <1>3, <2>1 DEF LocalsOK, UsedBlock
  <2>5. /\ pc[q] = "free_lock" => UsedBlock(arg[q] - HDR)'
        /\ pc[q] \in {"merge_next", "merge_prev"} =>
             block[q] \in blocks /\ hdr'[block[q]].status = "free"
    BY <1>3, <2>1 DEF LocalsOK, UsedBlock
  <2>6. /\ pc[q] \in AllocPc => arg[q] \in Sizes
        /\ pc[q] \notin {"split", "alloc_release"} => buffer[q] = NULL
        /\ pc[q] = "check" => block[q] = arg[q] - HDR
    BY DEF LocalsOK
  <2> QED
    BY <2>1, <2>2, <2>3, <2>4, <2>5, <2>6
<1> QED
  BY <1>4, <1>5, <1>6, <1>7, <1>8, <1>9

----------------------------------------------------------------------------
(* The invariant, and what follows from it.  *)

\* heap_init establishes the invariant.
LEMMA InitInv == Init => IndInv
<1> SUFFICES ASSUME Init PROVE IndInv
  OBVIOUS
<1> USE HeapAssumption DEF Init
<1>1. Top - Bottom - HDR \in 0 .. Top /\ Bottom \in Addr
  BY DEF Addr
<1>2. /\ DOMAIN hdr = {Bottom} /\ hdr[Bottom].status = "free"
      /\ hdr[Bottom].next = NULL /\ hdr[Bottom].prev = NULL
      /\ EndOf(hdr, Bottom) = Top /\ hdr[Bottom] \in Header
  BY <1>1 DEF EndOf, Header, Ptr
<1>3. TypeOK
  BY <1>1, <1>2 DEF TypeOK, NULL
<1>4. ChainTilesHeap
  BY <1>1, <1>2 DEF ChainTilesHeap
<1>5. BuffersBacked /\ MutualExclusion /\ OneOwner
  BY DEF BuffersBacked, MutualExclusion, InSection, OneOwner, AllocPc
<1>6. LocalsOK /\ RemnantsOK
  BY <1>2 DEF LocalsOK, RemnantsOK, AllocPc
<1> QED
  BY <1>3, <1>4, <1>5, <1>6 DEF IndInv

\* Every step of a processor or of a client keeps the invariant.
LEMMA NextInv == IndInv /\ [Next]_vars => IndInv'
<1> SUFFICES ASSUME IndInv, [Next]_vars PROVE IndInv'
  OBVIOUS
<1>1. CASE UNCHANGED vars
  <2>1. UNCHANGED <<hdr, blocks, locked, bufs, pc, arg, block, buffer>>
    BY ONLY <1>1, Zenon DEF vars
  <2>2. TypeOK' /\ ChainTilesHeap'
    BY <2>1, Zenon DEF IndInv, TypeOK, ChainTilesHeap, EndOf
  <2>3. BuffersBacked' /\ MutualExclusion' /\ OneOwner'
    BY <2>1, Zenon DEF IndInv, BuffersBacked, MutualExclusion, InSection, OneOwner
  <2>4. LocalsOK' /\ RemnantsOK'
    BY <2>1, Zenon DEF IndInv, LocalsOK, UsedBlock, RemnantsOK
  <2> QED
    BY ONLY <2>2, <2>3, <2>4 DEF IndInv
<1>2. ASSUME NEW p \in CPU, CallStep(p)
      PROVE  IndInv'
  BY <1>2, AllocLockKeeps, ScanGivesUpKeeps, ScanSkipsKeeps, ScanTakesKeeps,
     AllocSplitKeeps, AllocReturnKeeps, FreeLockKeeps, FreeIgnoredKeeps,
     FreeMarksKeeps, FreeMergesNextKeeps, FreeMergesPrevKeeps, FreeReturnKeeps
  DEF CallStep
<1> QED
  BY <1>1, <1>2, MallocKeeps, FreeKeeps, FreeAgainKeeps, ClientWritesKeeps DEF Next

\* The inductive invariant holds in every reachable state of the heap.
THEOREM Invariance == Spec => []IndInv
  BY InitInv, NextInv, PTL DEF Spec

\* heap_alloc and heap_free keep every header and local within its type.
THEOREM TypeCorrect == Spec => []TypeOK
<1>1. IndInv => TypeOK
  BY DEF IndInv
<1> QED
  BY <1>1, Invariance, PTL

\* The chain that heap_alloc walks covers the heap, whatever the sequence of
\* calls: no step of heap_alloc or heap_free loses or doubles a cell.
THEOREM ChainTiles == Spec => []ChainTilesHeap
<1>1. IndInv => ChainTilesHeap
  BY DEF IndInv
<1> QED
  BY <1>1, Invariance, PTL

\* The buffer heap_alloc returned stays the body of a used block, at least as
\* long as asked for, until its owner frees it.
THEOREM BuffersStayBacked == Spec => []BuffersBacked
<1>1. IndInv => BuffersBacked
  BY DEF IndInv
<1> QED
  BY <1>1, Invariance, PTL

\* heap_merge never takes what is left of an absorbed block for the previous
\* block, although a split leaves prev fields that point to it.
THEOREM RemnantsHarmless == Spec => []RemnantsNeverMerge
<1>1. IndInv => RemnantsNeverMerge
  BY DEF IndInv, RemnantsOK, RemnantsNeverMerge, Mergeable
<1> QED
  BY <1>1, Invariance, PTL

\* Every step of the heap is a step of the allocator, or does not show.
LEMMA StepRefines == IndInv /\ [Next]_vars => [Pool!Next]_bufs
<1> SUFFICES ASSUME IndInv, [Next]_vars, bufs' # bufs PROVE Pool!Next
  OBVIOUS
<1> USE HeapAssumption
<1>1. \/ \E p \in CPU : AllocReturn(p)
      \/ \E p \in CPU, ptr \in Pointer : Free(p, ptr)
  BY ZenonT(60) DEF Next, CallStep, vars, Malloc, AllocLock, ScanGivesUp, ScanSkips,
         ScanTakes, AllocSplit, FreeLock, FreeAgain, FreeIgnored, FreeMarks,
         FreeMergesNext, FreeMergesPrev, FreeReturn, ClientWrites
<1>2. ASSUME NEW p \in CPU, AllocReturn(p)
      PROVE  Pool!Next
  <2> DEFINE ptr == buffer[p]
             n == arg[p]
             a == ptr - HDR
  <2>1. /\ pc[p] = "alloc_release" /\ ptr # NULL
        /\ bufs' = [x \in DOMAIN bufs \cup {ptr} |-> IF x = ptr THEN n ELSE bufs[x]]
    BY ONLY bufs' # bufs, <1>2 DEF AllocReturn
  <2>2. /\ a \in blocks /\ n <= hdr[a].size /\ n \in Sizes /\ ptr \in Pointer
        /\ n \in Nat /\ ptr \in Int /\ ptr \notin DOMAIN bufs
    <3>1. /\ a \in blocks /\ n <= hdr[a].size /\ n \in Sizes
      BY ONLY IndInv, p \in CPU, <2>1 DEF IndInv, LocalsOK, UsedBlock, AllocPc
    <3>2. ptr \in Pointer \cup {NULL}
      BY ONLY IndInv, p \in CPU DEF IndInv, TypeOK
    <3>3. ptr \notin DOMAIN bufs
      BY ONLY IndInv, p \in CPU, <2>1 DEF IndInv, OneOwner, AllocPc
    <3> HIDE DEF ptr, n, a
    <3> QED
      BY ONLY <2>1, <3>1, <3>2, <3>3, HeapAssumption DEF Pointer
  <2> HIDE DEF ptr, n
  <2>3. \A x \in blocks : /\ x \in Int /\ EndOf(hdr, x) \in Int /\ EndOf(hdr, x) <= Top
                          /\ EndOf(hdr, x) = x + HDR + hdr[x].size
                          /\ hdr[x].size \in Nat
    <3> SUFFICES ASSUME NEW x \in blocks
                 PROVE  /\ x \in Int /\ EndOf(hdr, x) \in Int
                        /\ EndOf(hdr, x) <= Top
                        /\ EndOf(hdr, x) = x + HDR + hdr[x].size
                        /\ hdr[x].size \in Nat
      OBVIOUS
    <3>1. x \in Int /\ EndOf(hdr, x) \in Int /\ EndOf(hdr, x) <= Top
      BY EndInHeap DEF IndInv
    <3>2. hdr[x].size \in Nat
      BY DEF IndInv, TypeOK, Header
    <3> QED
      BY <3>1, <3>2 DEF EndOf
  <2>4. ptr + n <= Top
    BY <2>2, <2>3
  <2>5. ASSUME NEW q \in DOMAIN bufs
        PROVE  ptr # q /\ (ptr + n <= q \/ q + bufs[q] <= ptr)
    <3>1. /\ q - HDR \in blocks /\ bufs[q] <= hdr[q - HDR].size
          /\ q \in Int /\ bufs[q] \in Nat /\ q # ptr
      <4>1. q - HDR \in blocks /\ bufs[q] <= hdr[q - HDR].size
        BY DEF IndInv, BuffersBacked
      <4>2. q \in Pointer /\ bufs[q] \in Sizes
        BY DEF IndInv, TypeOK
      <4>3. bufs[q] \in Nat
        BY <4>2, ZenonT(60)
      <4>4. q \in Int /\ q # ptr
        BY <2>2, <4>2 DEF Pointer
      <4> QED
        BY <4>1, <4>3, <4>4
    <3>2. /\ a < q - HDR => EndOf(hdr, a) <= q - HDR
          /\ q - HDR < a => EndOf(hdr, q - HDR) <= a
      BY <2>2, <3>1 DEF IndInv, ChainTilesHeap
    <3> QED
      BY <2>2, <2>3, <3>1, <3>2
  <2>6. Pool!Take(ptr, n)
    BY <2>1, <2>4, <2>5 DEF Pool!Take, Pool!Disjoint
  <2> QED
    BY <2>2, <2>6 DEF Pool!Next, Pointer
<1>3. ASSUME NEW p \in CPU, NEW ptr \in Pointer, Free(p, ptr)
      PROVE  Pool!Next
  BY <1>3 DEF Free, Pool!Next, Pool!GiveBack, Pointer
<1> QED
  BY <1>1, <1>2, <1>3

\* heap_alloc and heap_free, the spinlock, the chain and the merges included,
\* implement the allocator of disjoint ranges that malloc's callers rely on.
THEOREM Refinement == Spec => ImplementsAllocator
<1>1. Init => Pool!Init
  BY DEF Init, Pool!Init
<1> QED
  BY <1>1, StepRefines, Invariance, PTL DEF Spec, Pool!Spec, ImplementsAllocator

----------------------------------------------------------------------------
(* Two more invariants, inductive relative to IndInv.  *)

\* A step of another processor while p is in the critical section, or of a
\* client, changes no control block of the chain.
LEMMA OthersKeepChain ==
  ASSUME IndInv, [Next]_vars, NEW p \in CPU, InSection(p), ~CallStep(p)
  PROVE  /\ blocks' = blocks
         /\ \A x \in blocks : hdr'[x] = hdr[x]
         /\ pc'[p] = pc[p] /\ arg'[p] = arg[p] /\ buffer'[p] = buffer[p]
<1> USE DEF IndInv
<1>1. locked = 1 /\ \A q \in CPU : q # p => ~InSection(q)
  BY DEF MutualExclusion
<1>2. CASE UNCHANGED vars
  BY <1>2 DEF vars
<1>3. ASSUME NEW q \in CPU, CallStep(q)
      PROVE  FALSE
  <2>1. CASE AllocLock(q) \/ FreeLock(q)
    BY <1>1, <2>1 DEF AllocLock, FreeLock, spinlock_lock
  <2>2. CASE ~(AllocLock(q) \/ FreeLock(q))
    <3>1. InSection(q)
      BY <1>3, <2>2 DEF CallStep, InSection, ScanGivesUp, ScanSkips, ScanTakes,
         AllocSplit, AllocReturn, FreeIgnored, FreeMarks, FreeMergesNext,
         FreeMergesPrev, FreeReturn
    <3> QED
      BY <1>1, <1>3, <3>1
  <2> QED
    BY <2>1, <2>2
<1>4. ASSUME NEW q \in CPU, NEW n \in Sizes, Malloc(q, n)
      PROVE  p # q /\ UNCHANGED <<hdr, blocks, buffer>>
             /\ pc'[p] = pc[p] /\ arg'[p] = arg[p]
  BY <1>4 DEF Malloc, InSection, TypeOK
<1>5. ASSUME NEW q \in CPU, NEW ptr \in Pointer, Free(q, ptr)
      PROVE  p # q /\ UNCHANGED <<hdr, blocks, buffer>>
             /\ pc'[p] = pc[p] /\ arg'[p] = arg[p]
  BY <1>5 DEF Free, InSection, TypeOK
<1>6. ASSUME NEW q \in CPU, NEW ptr \in Pointer \cup {NULL}, FreeAgain(q, ptr)
      PROVE  FALSE
  BY <1>1, <1>6 DEF FreeAgain, spinlock_lock
<1>7. ASSUME NEW ptr \in Pointer, NEW c \in Addr, ClientWrites(ptr, c)
      PROVE  /\ UNCHANGED <<blocks, pc, arg, buffer>>
             /\ \A x \in blocks : hdr'[x] = hdr[x]
  BY <1>7, SpoilFields DEF ClientWrites
<1> QED
  BY <1>2, <1>3, <1>4, <1>5, <1>6, <1>7 DEF Next

\* heap_alloc returns NULL only when no free block of the chain has room.
LEMMA NullStep == IndInv /\ NullMeansNoRoom /\ [Next]_vars => NullMeansNoRoom'
<1> SUFFICES ASSUME IndInv, NullMeansNoRoom, [Next]_vars, NEW p \in CPU,
                    pc'[p] = "alloc_release", buffer'[p] = NULL,
                    NEW a \in blocks', hdr'[a].status = "free"
             PROVE  hdr'[a].size < arg'[p]
  BY DEF NullMeansNoRoom
<1> USE HeapAssumption DEF IndInv
<1>1. CASE InSection(p) /\ ~CallStep(p)
  BY <1>1, OthersKeepChain DEF NullMeansNoRoom
<1>2. CASE CallStep(p)
  <2>1. ScanGivesUp(p) \/ ScanTakes(p) \/ AllocSplit(p)
    BY <1>2 DEF CallStep, TypeOK, AllocLock, ScanSkips, AllocReturn, Return,
       FreeLock, FreeIgnored, FreeMarks, FreeMergesNext, FreeMergesPrev, FreeReturn
  <2>2. CASE ScanGivesUp(p)
    <3>1. block[p] = NULL
      BY <2>2 DEF ScanGivesUp, LocalsOK, TypeOK
    <3> QED
      BY <2>2, <3>1 DEF ScanGivesUp, LocalsOK
  <2>3. CASE ScanTakes(p)
    <3>1. buffer'[p] = block[p] + HDR /\ block[p] \in Addr
      BY <2>3 DEF ScanTakes, TypeOK
    <3> QED
      BY <3>1 DEF Addr, NULL
  <2>4. CASE AllocSplit(p)
    <3>1. buffer'[p] = block[p] + HDR /\ block[p] \in Addr
      BY <2>4, ZenonT(60) DEF AllocSplit, TypeOK, LocalsOK, UsedBlock
    <3> QED
      BY <3>1 DEF Addr, NULL
  <2> QED
    BY <2>1, <2>2, <2>3, <2>4
<1>3. CASE ~InSection(p) /\ ~CallStep(p)
  <2>1. pc[p] \in {"idle", "alloc_lock", "free_lock"}
    BY <1>3 DEF InSection
  <2>2. ASSUME NEW q \in CPU, CallStep(q)
        PROVE  pc'[p] = pc[p]
    <3>1. p # q
      BY <1>3, <2>2
    <3>2. pc' = pc \/ \E s : pc' = [pc EXCEPT ![q] = s]
      BY <2>2 DEF CallStep, AllocLock, ScanGivesUp, ScanSkips, ScanTakes,
         AllocSplit, AllocReturn, Return, FreeLock, FreeIgnored, FreeMarks,
         FreeMergesNext, FreeMergesPrev, FreeReturn
    <3> QED
      BY <3>1, <3>2 DEF TypeOK
  <2> QED
    BY <2>1, <2>2, ZenonT(60) DEF Next, vars, TypeOK, Malloc, Free, FreeAgain, ClientWrites
<1> QED
  BY <1>1, <1>2, <1>3

\* A NULL from heap_alloc means that the heap had no block for the request.
THEOREM NullIsHonest == Spec => []NullMeansNoRoom
<1>1. Init => NullMeansNoRoom
  BY DEF Init, NullMeansNoRoom
<1> QED
  BY <1>1, NullStep, Invariance, PTL DEF Spec

\* What a split does to the marks: the new block is free, the others keep theirs.
LEMMA SplitStatus ==
  ASSUME TypeOK, ChainTilesHeap,
         NEW a \in blocks, NEW n \in Nat, hdr[a].size > n + HDR + 1,
         hdr' = SplitAt(hdr, a, n)
  PROVE  /\ hdr'[a + HDR + n].status = "free"
         /\ \A x \in blocks : hdr'[x].status = hdr[x].status
<1> DEFINE b == a + HDR + n
<1>1. /\ b \notin blocks /\ blocks \subseteq DOMAIN hdr'
      /\ \A x \in DOMAIN hdr' : x # a /\ x # b => hdr'[x] = hdr[x]
      /\ hdr'[a].status = hdr[a].status /\ hdr'[b].status = "free"
  BY SplitFields
<1> QED
  BY <1>1

\* A used block has an owner: no call loses one.
LEMMA OwnedStep == IndInv /\ UsedBlocksOwned /\ [Next]_vars => UsedBlocksOwned'
<1> SUFFICES ASSUME IndInv, UsedBlocksOwned, [Next]_vars PROVE UsedBlocksOwned'
  OBVIOUS
<1> USE HeapAssumption DEF IndInv
<1> DEFINE Owner(a) ==
      \/ a + HDR \in DOMAIN bufs
      \/ \E q \in CPU : pc[q] \in AllocPc /\ buffer[q] = a + HDR
      \/ \E q \in CPU : pc[q] \in {"free_lock", "check"} /\ arg[q] = a + HDR
<1>1. \A a \in blocks : hdr[a].status = "used" => Owner(a)
  BY DEF UsedBlocksOwned
<1>2. \A a \in blocks : a \in Int /\ a + HDR # NULL /\ a + HDR - HDR = a
  BY DEF TypeOK, Addr, NULL
<1>3. CASE UNCHANGED vars
  BY <1>3 DEF vars, UsedBlocksOwned
<1>4. ASSUME NEW p \in CPU, NEW n \in Sizes, Malloc(p, n)
      PROVE  UsedBlocksOwned'
  BY <1>1, <1>2, <1>4 DEF UsedBlocksOwned, Malloc, TypeOK, LocalsOK, AllocPc
<1>5. ASSUME NEW p \in CPU, AllocLock(p)
      PROVE  UsedBlocksOwned'
  BY <1>1, <1>5 DEF UsedBlocksOwned, AllocLock, TypeOK, AllocPc
<1>6. ASSUME NEW p \in CPU, ScanGivesUp(p)
      PROVE  UsedBlocksOwned'
  BY <1>1, <1>6 DEF UsedBlocksOwned, ScanGivesUp, TypeOK, AllocPc
<1>7. ASSUME NEW p \in CPU, ScanSkips(p)
      PROVE  UsedBlocksOwned'
  BY <1>1, <1>7 DEF UsedBlocksOwned, ScanSkips, TypeOK, AllocPc
<1>8. ASSUME NEW p \in CPU, ScanTakes(p)
      PROVE  UsedBlocksOwned'
  <2>1. block[p] \in DOMAIN hdr /\ buffer[p] = NULL
    BY <1>8 DEF ScanTakes, LocalsOK
  <2>2. \A x \in DOMAIN hdr : x # block[p] => hdr'[x].status = hdr[x].status
    BY <1>8, <2>1, MarkFields DEF ScanTakes
  <2>3. /\ pc'[p] \in AllocPc /\ buffer'[p] = block[p] + HDR
        /\ \A q \in CPU : q # p => pc'[q] = pc[q] /\ buffer'[q] = buffer[q]
        /\ UNCHANGED <<blocks, bufs, arg>> /\ pc[p] = "scan"
    BY <1>8 DEF ScanTakes, TypeOK, AllocPc
  <2>4. ASSUME NEW a \in blocks, hdr'[a].status = "used"
        PROVE  Owner(a)'
    <3>1. CASE a = block[p]
      BY <3>1, <2>3
    <3>2. CASE a # block[p]
      <4>1. Owner(a)
        BY <3>2, <2>2, <2>4, <1>1 DEF TypeOK
      <4> QED
        BY <4>1, <2>1, <2>3, <1>2
    <3> QED
      BY <3>1, <3>2
  <2> QED
    BY <2>3, <2>4 DEF UsedBlocksOwned
<1>9. ASSUME NEW p \in CPU, AllocSplit(p)
      PROVE  UsedBlocksOwned'
  <2> DEFINE c == block[p]
             n == arg[p]
             b == c + HDR + n
  <2>1. /\ c \in blocks /\ hdr[c].status = "used"
        /\ hdr[c].size > n + HDR + 1 /\ n \in Nat
        /\ hdr' = SplitAt(hdr, c, n) /\ blocks' = blocks \cup {b}
    BY <1>9, ZenonT(60) DEF AllocSplit, LocalsOK, UsedBlock, AllocPc
  <2> HIDE DEF c, n
  <2>2. /\ hdr'[b].status = "free"
        /\ \A x \in blocks : hdr'[x].status = hdr[x].status
    BY <2>1, SplitStatus, ZenonT(60)
  <2>3. /\ pc'[p] \in AllocPc /\ pc[p] = "split"
        /\ \A q \in CPU : q # p => pc'[q] = pc[q]
        /\ UNCHANGED <<bufs, arg, buffer>>
    BY <1>9 DEF AllocSplit, TypeOK, AllocPc
  <2> HIDE DEF b
  <2> QED
    BY <1>1, <2>1, <2>2, <2>3 DEF UsedBlocksOwned
<1>10. ASSUME NEW p \in CPU, AllocReturn(p)
       PROVE  UsedBlocksOwned'
  <2>1. /\ DOMAIN bufs \subseteq DOMAIN bufs'
        /\ buffer[p] # NULL => buffer[p] \in DOMAIN bufs'
        /\ pc[p] = "alloc_release" /\ UNCHANGED <<hdr, blocks>>
        /\ \A q \in CPU : q # p => /\ pc'[q] = pc[q] /\ arg'[q] = arg[q]
                                   /\ buffer'[q] = buffer[q]
    BY <1>10 DEF AllocReturn, Return, TypeOK
  <2> SUFFICES ASSUME NEW a \in blocks, hdr[a].status = "used"
               PROVE  Owner(a)'
    BY <2>1 DEF UsedBlocksOwned
  <2>2. CASE a + HDR \in DOMAIN bufs
    BY <2>1, <2>2
  <2>3. ASSUME NEW q \in CPU, pc[q] \in AllocPc, buffer[q] = a + HDR
        PROVE  Owner(a)'
    <3>1. CASE q = p
      BY <1>2, <2>1, <2>3, <3>1
    <3>2. CASE q # p
      BY <2>1, <2>3, <3>2
    <3> QED
      BY <3>1, <3>2
  <2>4. ASSUME NEW q \in CPU, pc[q] \in {"free_lock", "check"}, arg[q] = a + HDR
        PROVE  Owner(a)'
    <3>1. q # p
      BY <2>1, <2>4
    <3> QED
      BY <2>1, <2>4, <3>1
  <2> QED
    BY <1>1, <2>2, <2>3, <2>4
<1>11. ASSUME NEW p \in CPU, NEW ptr \in Pointer, Free(p, ptr)
       PROVE  UsedBlocksOwned'
  <2>1. /\ DOMAIN bufs' = DOMAIN bufs \ {ptr} /\ pc'[p] = "free_lock"
        /\ arg'[p] = ptr /\ pc[p] = "idle" /\ UNCHANGED <<hdr, blocks, buffer>>
        /\ \A q \in CPU : q # p => pc'[q] = pc[q] /\ arg'[q] = arg[q]
    BY <1>11 DEF Free, TypeOK
  <2> SUFFICES ASSUME NEW a \in blocks, hdr[a].status = "used"
               PROVE  Owner(a)'
    BY <2>1 DEF UsedBlocksOwned
  <2>2. CASE a + HDR \in DOMAIN bufs
    BY ONLY <2>1, <2>2, p \in CPU
  <2>3. CASE \E q \in CPU : pc[q] \in AllocPc /\ buffer[q] = a + HDR
    BY ONLY <2>1, <2>3 DEF AllocPc
  <2>4. CASE \E q \in CPU : pc[q] \in {"free_lock", "check"} /\ arg[q] = a + HDR
    BY ONLY <2>1, <2>4
  <2> QED
    BY <1>1, <2>2, <2>3, <2>4
<1>12. ASSUME NEW p \in CPU, FreeLock(p)
       PROVE  UsedBlocksOwned'
  BY <1>1, <1>12 DEF UsedBlocksOwned, FreeLock, TypeOK, AllocPc
<1>13. ASSUME NEW p \in CPU, NEW ptr \in Pointer \cup {NULL}, FreeAgain(p, ptr)
       PROVE  UsedBlocksOwned'
  BY <1>1, <1>13 DEF UsedBlocksOwned, FreeAgain, TypeOK, AllocPc
<1>14. ASSUME NEW p \in CPU, FreeIgnored(p)
       PROVE  UsedBlocksOwned'
  <2>1. /\ pc[p] = "check" /\ block[p] = arg[p] - HDR /\ arg[p] \in Int
        /\ ~(block[p] \in DOMAIN hdr /\ hdr[block[p]].status = "used")
        /\ \A q \in CPU : q # p => pc'[q] = pc[q]
        /\ UNCHANGED <<hdr, blocks, bufs, arg, buffer>>
    BY <1>14 DEF FreeIgnored, IsAllocated, LocalsOK, TypeOK
  <2>2. \A a \in blocks : hdr[a].status = "used" => arg[p] # a + HDR
    <3> SUFFICES ASSUME NEW a \in blocks, hdr[a].status = "used",
                        arg[p] = a + HDR
                 PROVE  FALSE
      OBVIOUS
    <3>1. block[p] = a
      <4>1. block[p] = arg[p] - HDR
        BY <2>1
      <4>2. a \in Int
        BY <1>2
      <4> HIDE DEF Owner
      <4> QED
        BY <4>1, <4>2
    <3>2. a \in DOMAIN hdr
      BY DEF TypeOK
    <3> QED
      BY <2>1, <3>1, <3>2, ZenonT(60)
  <2> SUFFICES ASSUME NEW a \in blocks, hdr[a].status = "used"
               PROVE  Owner(a)'
    BY <2>1 DEF UsedBlocksOwned
  <2>3. CASE a + HDR \in DOMAIN bufs
    BY ONLY <2>1, <2>3
  <2>4. CASE \E q \in CPU : pc[q] \in AllocPc /\ buffer[q] = a + HDR
    BY ONLY <2>1, <2>4 DEF AllocPc
  <2>5. CASE \E q \in CPU : pc[q] \in {"free_lock", "check"} /\ arg[q] = a + HDR
    <3>1. arg[p] # a + HDR
      BY <2>2
    <3> QED
      BY ONLY <2>1, <2>5, <3>1
  <2> QED
    BY <1>1, <2>3, <2>4, <2>5
<1>15. ASSUME NEW p \in CPU, FreeMarks(p)
       PROVE  UsedBlocksOwned'
  <2>1. /\ pc[p] = "check" /\ block[p] = arg[p] - HDR /\ arg[p] \in Int
        /\ block[p] \in DOMAIN hdr
        /\ hdr' = [hdr EXCEPT ![block[p]].status = "free"]
        /\ \A q \in CPU : q # p => pc'[q] = pc[q]
        /\ UNCHANGED <<blocks, bufs, arg, buffer>>
    BY <1>15 DEF FreeMarks, IsAllocated, LocalsOK, TypeOK
  <2>2. /\ \A x \in DOMAIN hdr : x # block[p] => hdr'[x].status = hdr[x].status
        /\ hdr'[block[p]].status = "free"
    BY <2>1, MarkFields, ZenonT(60)
  <2>3. \A a \in blocks : hdr'[a].status = "used" =>
          arg[p] # a + HDR /\ hdr[a].status = "used"
    BY <1>2, <2>1, <2>2 DEF TypeOK
  <2> QED
    BY <1>1, <2>1, <2>3 DEF UsedBlocksOwned, AllocPc
<1>16. ASSUME NEW p \in CPU, FreeMergesNext(p)
       PROVE  UsedBlocksOwned'
  <2>1. /\ blocks' \subseteq blocks
        /\ \A x \in blocks' : hdr'[x].status = hdr[x].status
    <3>1. block[p] \in blocks
      BY <1>16 DEF FreeMergesNext, LocalsOK
    <3>2. CASE UNCHANGED <<hdr, blocks>>
      BY <3>2
    <3>3. CASE ~UNCHANGED <<hdr, blocks>>
      <4> DEFINE b == hdr[block[p]].next
      <4>1. /\ b \in blocks /\ Mergeable(hdr, block[p], b)
            /\ hdr' = heap_merge(hdr, block[p], b) /\ blocks' = blocks \ {b}
        BY <1>16, <3>1, <3>3, ZenonT(60) DEF FreeMergesNext, TryMerge, ChainTilesHeap
      <4> QED
        BY <3>1, <4>1, MergeFields, ZenonT(60) DEF TypeOK
    <3> QED
      BY <3>2, <3>3
  <2>2. /\ pc[p] = "merge_next" /\ UNCHANGED <<bufs, arg, buffer>>
        /\ \A q \in CPU : q # p => pc'[q] = pc[q]
    BY <1>16 DEF FreeMergesNext, TypeOK
  <2> QED
    BY <1>1, <2>1, <2>2, ZenonT(60) DEF UsedBlocksOwned, AllocPc
<1>17. ASSUME NEW p \in CPU, FreeMergesPrev(p)
       PROVE  UsedBlocksOwned'
  <2>1. /\ blocks' \subseteq blocks
        /\ \A x \in blocks' : hdr'[x].status = hdr[x].status
    <3>1. block[p] \in blocks
      BY <1>17 DEF FreeMergesPrev, LocalsOK
    <3>2. CASE UNCHANGED <<hdr, blocks>>
      BY <3>2
    <3>3. CASE ~UNCHANGED <<hdr, blocks>>
      <4> DEFINE b == hdr[block[p]].prev
      <4>1. /\ Mergeable(hdr, b, block[p])
            /\ hdr' = heap_merge(hdr, b, block[p]) /\ blocks' = blocks \ {block[p]}
        BY <1>17, <3>1, <3>3 DEF FreeMergesPrev, TryMerge
      <4>2. b \in blocks
        BY <3>1, <4>1 DEF Mergeable, RemnantsOK
      <4> QED
        BY <3>1, <4>1, <4>2, MergeFields, ZenonT(60) DEF TypeOK
    <3> QED
      BY <3>2, <3>3
  <2>2. /\ pc[p] = "merge_prev" /\ UNCHANGED <<bufs, arg, buffer>>
        /\ \A q \in CPU : q # p => pc'[q] = pc[q]
    BY <1>17 DEF FreeMergesPrev, TypeOK
  <2> QED
    BY <1>1, <2>1, <2>2 DEF UsedBlocksOwned, AllocPc
<1>18. ASSUME NEW p \in CPU, FreeReturn(p)
       PROVE  UsedBlocksOwned'
  <2>1. /\ pc[p] = "free_release" /\ UNCHANGED <<hdr, blocks, bufs>>
        /\ \A q \in CPU : q # p => /\ pc'[q] = pc[q] /\ arg'[q] = arg[q]
                                   /\ buffer'[q] = buffer[q]
    BY <1>18 DEF FreeReturn, Return, TypeOK
  <2> QED
    BY <1>1, <2>1 DEF UsedBlocksOwned, AllocPc
<1>19. ASSUME NEW ptr \in Pointer, NEW c \in Addr, ClientWrites(ptr, c)
       PROVE  UsedBlocksOwned'
  <2>1. \A x \in blocks : hdr'[x] = hdr[x]
    BY <1>19, SpoilFields DEF ClientWrites
  <2> QED
    BY <1>1, <1>19, <2>1 DEF UsedBlocksOwned, ClientWrites
<1> QED
  BY <1>3, <1>4, <1>5, <1>6, <1>7, <1>8, <1>9, <1>10, <1>11, <1>12, <1>13,
     <1>14, <1>15, <1>16, <1>17, <1>18, <1>19 DEF Next, CallStep

\* heap_alloc and heap_free never lose a block: each used block is owned by a
\* client or by the call that is handing it over.
THEOREM NothingIsLost == Spec => []UsedBlocksOwned
<1>1. Init => UsedBlocksOwned
  BY DEF Init, UsedBlocksOwned
<1> QED
  BY <1>1, OwnedStep, Invariance, PTL DEF Spec

----------------------------------------------------------------------------
(* Where heap_alloc and heap_free write.  *)

\* The control block written by a step belongs to the chain, or is the one a
\* split puts in the body of a block that no client owns.
LEMMA WhereItWrites ==
  ASSUME IndInv, [Next]_vars, NEW a \in DOMAIN hdr',
         a \notin DOMAIN hdr \/ hdr'[a] # hdr[a]
  PROVE  \/ a \in blocks
         \/ \E x \in blocks : /\ x + HDR \notin DOMAIN bufs
                             /\ x + HDR <= a /\ a + HDR <= EndOf(hdr, x)
<1> USE HeapAssumption DEF IndInv
<1>1. CASE UNCHANGED hdr
  BY <1>1
<1>2. ASSUME NEW p \in CPU, ScanTakes(p) \/ FreeMarks(p)
      PROVE  a \in blocks
  <2>1. block[p] \in blocks
    BY <1>2 DEF ScanTakes, FreeMarks, IsAllocated, LocalsOK, RemnantsOK, TypeOK,
                Addr, NULL
  <2> QED
    BY <1>2, <2>1 DEF ScanTakes, FreeMarks
<1>3. ASSUME NEW p \in CPU, AllocSplit(p), a \notin blocks
      PROVE  \E x \in blocks : /\ x + HDR \notin DOMAIN bufs
                             /\ x + HDR <= a /\ a + HDR <= EndOf(hdr, x)
  <2> DEFINE x == block[p]
             n == arg[p]
  <2>1. /\ x \in blocks /\ hdr[x].size > n + HDR + 1 /\ n \in Nat
        /\ hdr' = SplitAt(hdr, x, n) /\ x + HDR \notin DOMAIN bufs
    BY <1>3, ZenonT(60) DEF AllocSplit, LocalsOK, UsedBlock, AllocPc, OneOwner
  <2> HIDE DEF x, n
  <2>2. a = x + HDR + n
    <3>1. /\ DOMAIN hdr' \subseteq DOMAIN hdr \cup {x + HDR + n}
          /\ \A y \in DOMAIN hdr' : y # x /\ y # x + HDR + n => hdr'[y] = hdr[y]
      <4> DEFINE b == x + HDR + n
      <4>1. TypeOK /\ ChainTilesHeap /\ b = x + HDR + n
        OBVIOUS
      <4> HIDE DEF b
      <4>2. SplitInTwo(x, n, b)
        BY ONLY <4>1, <2>1, SplitNamed
      <4> QED BY ONLY <4>1, <4>2 DEF SplitInTwo
    <3> QED
      BY <1>3, <2>1, <3>1
  <2>3. x \in Int /\ hdr[x].size \in Int
    BY <2>1 DEF TypeOK, Addr, Header
  <2> QED
    BY <2>1, <2>2, <2>3 DEF EndOf
<1>4. ASSUME NEW head \in blocks, NEW tail \in blocks, Mergeable(hdr, head, tail),
             hdr' = heap_merge(hdr, head, tail)
      PROVE  a \in blocks
  <2> DEFINE bound == hdr[tail].next
  <2>1. bound \in blocks \cup {NULL}
    BY ZenonT(60) DEF ChainTilesHeap
  <2> HIDE DEF bound
  <2>2. hdr' = LET j == [hdr EXCEPT ![head].next = bound,
                                    ![head].size = @ + HDR + hdr[tail].size]
               IN  IF bound = NULL THEN j ELSE [j EXCEPT ![bound].prev = head]
    BY <1>4 DEF heap_merge, bound
  <2> QED
    BY <2>1, <2>2
<1>5. ASSUME NEW p \in CPU, FreeMergesNext(p), ~UNCHANGED hdr
      PROVE  a \in blocks
  <2>1. block[p] \in blocks
    BY <1>5 DEF FreeMergesNext, LocalsOK
  <2> QED
    BY <1>4, <1>5, <2>1, ZenonT(60) DEF FreeMergesNext, TryMerge, ChainTilesHeap
<1>6. ASSUME NEW p \in CPU, FreeMergesPrev(p), ~UNCHANGED hdr
      PROVE  a \in blocks
  <2>1. block[p] \in blocks
    BY <1>6 DEF FreeMergesPrev, LocalsOK
  <2>2. Mergeable(hdr, hdr[block[p]].prev, block[p])
        /\ hdr' = heap_merge(hdr, hdr[block[p]].prev, block[p])
    BY <1>6 DEF FreeMergesPrev, TryMerge
  <2> QED
    BY <1>4, <2>1, <2>2 DEF Mergeable, RemnantsOK
<1>7. ASSUME NEW ptr \in Pointer, NEW c \in Addr, ClientWrites(ptr, c)
      PROVE  FALSE
  BY <1>7, SpoilFields DEF ClientWrites
<1> QED
  BY <1>1, <1>2, <1>3, <1>5, <1>6, <1>7, ZenonT(60)
  DEF Next, CallStep, vars, Malloc, AllocLock, ScanGivesUp, ScanSkips, AllocReturn,
      Free, FreeLock, FreeAgain, FreeIgnored, FreeReturn

\* A step writes no control block in a buffer that a client owns.
LEMMA WritesOutsideBuffers ==
  ASSUME IndInv, [Next]_vars, NEW a \in DOMAIN hdr',
         a \notin DOMAIN hdr \/ hdr'[a] # hdr[a], NEW ptr \in DOMAIN bufs
  PROVE  a + HDR <= ptr \/ ptr + bufs[ptr] <= a
<1> USE HeapAssumption DEF IndInv
<1> DEFINE b == ptr - HDR
<1>1. b \in blocks /\ bufs[ptr] <= hdr[b].size
  BY DEF BuffersBacked
<1>2. bufs[ptr] \in Sizes /\ ptr \in Pointer
  BY DEF TypeOK
<1>3. bufs[ptr] \in Nat
  BY <1>2, ZenonT(60)
<1>4. ptr \in Int /\ b \in Int /\ b + HDR = ptr
  BY <1>2 DEF Pointer
<1>5. hdr[b].size \in Int /\ EndOf(hdr, b) = b + HDR + hdr[b].size
  <2>1. hdr[b] \in Header
    BY ONLY TypeOK, <1>1 DEF TypeOK
  <2> QED
    BY ONLY <2>1, HeapAssumption DEF Header, EndOf
<1> HIDE DEF b
<1>6. ptr + bufs[ptr] <= EndOf(hdr, b) /\ EndOf(hdr, b) \in Int
  BY ONLY <1>1, <1>3, <1>4, <1>5, HeapAssumption
<1>7. \A x, y \in blocks : x < y => EndOf(hdr, x) <= y
  BY DEF ChainTilesHeap
<1>8. \A x \in blocks : x \in Int /\ EndOf(hdr, x) \in Int /\ x + HDR <= EndOf(hdr, x)
  BY EndInHeap
<1>9. CASE a \in blocks
  <2>1. a \in Int
    BY <1>8, <1>9
  <2>2. a < b => EndOf(hdr, a) <= b
    BY <1>1, <1>7, <1>9
  <2>3. b < a => EndOf(hdr, b) <= a
    BY <1>1, <1>7, <1>9
  <2> QED
    BY <2>1, <2>2, <2>3, <1>3, <1>4, <1>6, <1>8, <1>9
<1>10. ASSUME NEW x \in blocks, x + HDR \notin DOMAIN bufs,
              x + HDR <= a, a + HDR <= EndOf(hdr, x)
       PROVE  a + HDR <= ptr \/ ptr + bufs[ptr] <= a
  <2>1. x # b
    BY <1>4, <1>10
  <2>2. a \in Int
    <3>1. IndInv'
      BY NextInv
    <3>2. DOMAIN hdr' \subseteq Addr
      BY <3>1, ZenonT(60) DEF TypeOK
    <3> QED
      BY <3>2 DEF Addr
  <2>3. CASE x < b
    <3>1. EndOf(hdr, x) <= b
      BY <2>3, <1>1, <1>7
    <3> QED
      BY <3>1, <2>2, <1>4, <1>8, <1>10
  <2>4. CASE b < x
    <3>1. EndOf(hdr, b) <= x
      BY <2>4, <1>1, <1>7
    <3> QED
      BY <3>1, <2>2, <1>3, <1>4, <1>6, <1>8, <1>10
  <2> QED
    BY <2>1, <2>3, <2>4, <1>4, <1>8
<1> QED
  BY <1>9, <1>10, WhereItWrites

\* No step of heap_alloc or heap_free overwrites a cell of a client's buffer.
THEOREM ClientDataIsKept == Spec => ClientDataKept
<1> DEFINE Kept == \A a \in DOMAIN hdr' :
       (a \notin DOMAIN hdr \/ hdr'[a] # hdr[a]) =>
         \A ptr \in DOMAIN bufs : a + HDR <= ptr \/ ptr + bufs[ptr] <= a
<1>1. IndInv /\ [Next]_vars => [Kept]_vars
  BY WritesOutsideBuffers
<1> QED
  BY <1>1, Invariance, PTL DEF Spec, ClientDataKept
=============================================================================
