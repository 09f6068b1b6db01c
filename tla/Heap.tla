-------------------------------- MODULE Heap --------------------------------
(***************************************************************************)
(* The kernel heap (arch/i386/kernel/mem/heap.c), reached through malloc   *)
(* and free (alloc.c) and guarded by a spinlock (i386/spinlock.c), called  *)
(* by several processors.                                                  *)
(*                                                                         *)
(* Memory is the range Bottom .. Top-1 of cells.  A control block takes    *)
(* HDR cells and is followed by its buffer.  hdr is a partial function:    *)
(* its domain is the set of addresses at which a control block with a      *)
(* valid magic number can be read.  That includes the control blocks a     *)
(* merge has absorbed: heap_merge leaves their bytes where they were, now  *)
(* inside the body of another block, until somebody overwrites them.       *)
(***************************************************************************)
EXTENDS Integers, FiniteSets

CONSTANTS CPU,      \* the processors that call the allocator
          HDR,      \* sizeof(heap_block_t)
          Bottom,   \* the address of heap_bottom
          Top,      \* the address of heap_top
          Sizes     \* the sizes asked for

NULL == 0

(***************************************************************************)
(* The linker script puts the heap above address 0 and makes it hold at    *)
(* least one control block.                                                *)
(***************************************************************************)
ASSUME HeapAssumption ==
  /\ HDR \in Nat \ {0}
  /\ Bottom \in Nat \ {0}
  /\ Top \in Nat
  /\ Bottom + HDR <= Top
  /\ Sizes \subseteq Nat

VARIABLES hdr,      \* the control blocks that can be read in memory
          blocks,   \* auxiliary: the addresses of the blocks in the chain
          locked,   \* heap_allocator_spinlock.locked
          bufs,     \* the buffers clients own: pointer -> size asked for
          pc,       \* where each processor is in heap_alloc or heap_free
          arg,      \* the size it asked for, or the pointer it frees
          block,    \* its loop variable block, or its bufheader
          buffer    \* what its heap_alloc is going to return

heapVars == <<hdr, blocks, locked>>
cpuVars  == <<pc, arg, block, buffer>>
vars     == <<hdr, blocks, locked, bufs, pc, arg, block, buffer>>

Addr   == Bottom .. Top - 1
Ptr    == Addr \cup {NULL}
\* What heap_alloc may return besides NULL; an empty buffer may start at Top.
Pointer == Bottom .. Top
Header == [status : {"free", "used"}, size : 0 .. Top, next : Ptr, prev : Ptr]

AllocPc == {"alloc_lock", "scan", "split", "alloc_release"}
FreePc  == {"free_lock", "check", "merge_next", "merge_prev", "free_release"}

----------------------------------------------------------------------------
(* Memory accesses.  *)

\* The addresses whose HDR cells share a cell with those of a, a excluded.
Overlap(a) == {x \in Addr : x # a /\ x < a + HDR /\ a < x + HDR}

\* Writing a control block over part of another one spoils that one: one of
\* its fields now holds a magic number or part of one, which is neither its
\* magic, nor a status, nor a heap address, nor a size that fits the heap.
Put(h, a, r) ==
  [x \in (DOMAIN h \ Overlap(a)) \cup {a} |-> IF x = a THEN r ELSE h[x]]

\* Clients do not forge control blocks: what they write has no magic number.
Spoil(h, c) == [x \in {y \in DOMAIN h : ~(y <= c /\ c < y + HDR)} |-> h[x]]

EndOf(h, a) == a + HDR + h[a].size

----------------------------------------------------------------------------
(* heap_merge: the four tests, then the unlinking.  *)

Mergeable(h, head, tail) ==
  /\ head \in DOMAIN h /\ tail \in DOMAIN h
  /\ h[head].status = "free" /\ h[tail].status = "free"
  /\ h[head].next = tail /\ h[tail].prev = head
  /\ EndOf(h, head) = tail

\* Mutant: the space of the absorbed control block is forgotten.
heap_merge_LosesHeader(h, head, tail) ==
  LET bound  == h[tail].next
      joined == [h EXCEPT ![head].next = bound, ![head].size = @ + h[tail].size]
  IN  IF bound = NULL THEN joined ELSE [joined EXCEPT ![bound].prev = head]

\* Mutant: the block after the absorbed one is not linked back.
heap_merge_NoBackLink(h, head, tail) ==
  [h EXCEPT ![head].next = h[tail].next, ![head].size = @ + HDR + h[tail].size]

heap_merge(h, head, tail) ==
  LET bound  == h[tail].next
      joined == [h EXCEPT ![head].next = bound,
                          ![head].size = @ + HDR + h[tail].size]
  IN  IF bound = NULL THEN joined ELSE [joined EXCEPT ![bound].prev = head]

\* heap_free's two calls ignore what heap_merge returns.
TryMerge(head, tail) ==
  IF head # NULL /\ tail # NULL /\ Mergeable(hdr, head, tail)
  THEN /\ hdr' = heap_merge(hdr, head, tail)
       /\ blocks' = blocks \ {tail}
  ELSE UNCHANGED <<hdr, blocks>>

----------------------------------------------------------------------------
(* The spinlock.  An xchg that finds the lock taken stores the 1 that is   *)
(* already there: spinning changes nothing.                                *)

\* Mutant: the old value that xchg returns is not tested.
spinlock_lock_Untested == locked' = 1

spinlock_lock ==
  /\ locked = 0
  /\ locked' = 1

spinlock_release == locked' = 0

----------------------------------------------------------------------------
(* heap_init *)

Init ==
  /\ hdr = [a \in {Bottom} |-> [status |-> "free", size |-> Top - Bottom - HDR,
                                next |-> NULL, prev |-> NULL]]
  /\ blocks = {Bottom}
  /\ locked = 0
  /\ bufs = [x \in {} |-> 0]
  /\ pc = [p \in CPU |-> "idle"]
  /\ arg = [p \in CPU |-> 0]
  /\ block = [p \in CPU |-> NULL]
  /\ buffer = [p \in CPU |-> NULL]

----------------------------------------------------------------------------
(* heap_alloc *)

Malloc(p, n) ==
  /\ pc[p] = "idle"
  /\ pc' = [pc EXCEPT ![p] = "alloc_lock"]
  /\ arg' = [arg EXCEPT ![p] = n]
  /\ UNCHANGED <<hdr, blocks, locked, bufs, block, buffer>>

AllocLock(p) ==
  /\ pc[p] = "alloc_lock"
  /\ spinlock_lock
  /\ pc' = [pc EXCEPT ![p] = "scan"]
  /\ block' = [block EXCEPT ![p] = Bottom]
  /\ UNCHANGED <<hdr, blocks, bufs, arg, buffer>>

\* Mutant: a block of exactly the size asked for is passed over.
Fits_Strict(h, a, n) == h[a].status = "free" /\ h[a].size > n

\* Mutant: the size of the block is not tested.
Fits_AnySize(h, a, n) == h[a].status = "free"

Fits(h, a, n) == h[a].status = "free" /\ h[a].size >= n

\* The loop ends without a block: the chain is over, or its magic is wrong.
ScanGivesUp(p) ==
  /\ pc[p] = "scan"
  /\ block[p] = NULL \/ block[p] \notin DOMAIN hdr
  /\ pc' = [pc EXCEPT ![p] = "alloc_release"]
  /\ UNCHANGED <<hdr, blocks, locked, bufs, arg, block, buffer>>

\* Mutant: the walk does not move on to the next block.
ScanSkips_Stays(p) ==
  /\ pc[p] = "scan"
  /\ block[p] \in DOMAIN hdr
  /\ ~Fits(hdr, block[p], arg[p])
  /\ UNCHANGED vars

ScanSkips(p) ==
  /\ pc[p] = "scan"
  /\ block[p] \in DOMAIN hdr
  /\ ~Fits(hdr, block[p], arg[p])
  /\ block' = [block EXCEPT ![p] = hdr[block[p]].next]
  /\ UNCHANGED <<hdr, blocks, locked, bufs, pc, arg, buffer>>

\* Mutant: every block is split.
NoSplit_Never(h, a, n) == FALSE

NoSplit(h, a, n) == h[a].size <= n + HDR + 1

ScanTakes(p) ==
  /\ pc[p] = "scan"
  /\ block[p] \in DOMAIN hdr
  /\ Fits(hdr, block[p], arg[p])
  /\ hdr' = [hdr EXCEPT ![block[p]].status = "used"]
  /\ buffer' = [buffer EXCEPT ![p] = block[p] + HDR]
  /\ pc' = [pc EXCEPT ![p] =
              IF NoSplit(hdr, block[p], arg[p]) THEN "alloc_release" ELSE "split"]
  /\ UNCHANGED <<blocks, locked, bufs, arg, block>>

\* The control block after the new one keeps its prev field.
SplitAt(h, a, n) ==
  LET rest == [status |-> "free", size |-> h[a].size - n - HDR,
               next |-> h[a].next, prev |-> a]
  IN  [Put(h, a + HDR + n, rest) EXCEPT ![a].size = n, ![a].next = a + HDR + n]

AllocSplit(p) ==
  /\ pc[p] = "split"
  /\ hdr' = SplitAt(hdr, block[p], arg[p])
  /\ blocks' = blocks \cup {block[p] + HDR + arg[p]}
  /\ pc' = [pc EXCEPT ![p] = "alloc_release"]
  /\ UNCHANGED <<locked, bufs, arg, block, buffer>>

Return(p) ==
  /\ pc' = [pc EXCEPT ![p] = "idle"]
  /\ arg' = [arg EXCEPT ![p] = 0]
  /\ block' = [block EXCEPT ![p] = NULL]
  /\ buffer' = [buffer EXCEPT ![p] = NULL]

AllocReturn(p) ==
  /\ pc[p] = "alloc_release"
  /\ spinlock_release
  /\ bufs' = IF buffer[p] = NULL THEN bufs
             ELSE [x \in DOMAIN bufs \cup {buffer[p]} |->
                     IF x = buffer[p] THEN arg[p] ELSE bufs[x]]
  /\ Return(p)
  /\ UNCHANGED <<hdr, blocks>>

----------------------------------------------------------------------------
(* heap_free *)

\* A client gives back a buffer it owns, and no longer uses it.
Free(p, ptr) ==
  /\ pc[p] = "idle"
  /\ ptr \in DOMAIN bufs
  /\ bufs' = [x \in DOMAIN bufs \ {ptr} |-> bufs[x]]
  /\ pc' = [pc EXCEPT ![p] = "free_lock"]
  /\ arg' = [arg EXCEPT ![p] = ptr]
  /\ UNCHANGED <<hdr, blocks, locked, block, buffer>>

\* Mutant: the control block is looked for at the pointer itself.
FreeLock_AtPointer(p) ==
  /\ pc[p] = "free_lock"
  /\ spinlock_lock
  /\ pc' = [pc EXCEPT ![p] = "check"]
  /\ block' = [block EXCEPT ![p] = arg[p]]
  /\ UNCHANGED <<hdr, blocks, bufs, arg, buffer>>

FreeLock(p) ==
  /\ pc[p] = "free_lock"
  /\ spinlock_lock
  /\ pc' = [pc EXCEPT ![p] = "check"]
  /\ block' = [block EXCEPT ![p] = arg[p] - HDR]
  /\ UNCHANGED <<hdr, blocks, bufs, arg, buffer>>

\* Some processor is in the middle of freeing ptr.
BeingFreed(ptr) == \E q \in CPU : pc[q] \in FreePc /\ arg[q] = ptr

\* A client frees NULL, or once more a buffer it has freed.  (Where no control
\* block can be read any more, the magic test fails as it does for NULL.)  The
\* lock is taken in the same step, so that nobody gets the buffer meanwhile:
\* freeing what has become another client's buffer is not for the heap to tell.
FreeAgain(p, ptr) ==
  /\ pc[p] = "idle"
  /\ ptr = NULL \/ ptr - HDR \in DOMAIN hdr
  /\ ptr \notin DOMAIN bufs
  /\ ~BeingFreed(ptr)
  /\ spinlock_lock
  /\ pc' = [pc EXCEPT ![p] = "check"]
  /\ arg' = [arg EXCEPT ![p] = ptr]
  /\ block' = [block EXCEPT ![p] = ptr - HDR]
  /\ UNCHANGED <<hdr, blocks, bufs, buffer>>

IsAllocated(h, a) == a \in DOMAIN h /\ h[a].status = "used"

FreeIgnored(p) ==
  /\ pc[p] = "check"
  /\ ~IsAllocated(hdr, block[p])
  /\ pc' = [pc EXCEPT ![p] = "free_release"]
  /\ UNCHANGED <<hdr, blocks, locked, bufs, arg, block, buffer>>

FreeMarks(p) ==
  /\ pc[p] = "check"
  /\ IsAllocated(hdr, block[p])
  /\ hdr' = [hdr EXCEPT ![block[p]].status = "free"]
  /\ pc' = [pc EXCEPT ![p] = "merge_next"]
  /\ UNCHANGED <<blocks, locked, bufs, arg, block, buffer>>

FreeMergesNext(p) ==
  /\ pc[p] = "merge_next"
  /\ TryMerge(block[p], hdr[block[p]].next)
  /\ pc' = [pc EXCEPT ![p] = "merge_prev"]
  /\ UNCHANGED <<locked, bufs, arg, block, buffer>>

FreeMergesPrev(p) ==
  /\ pc[p] = "merge_prev"
  /\ TryMerge(hdr[block[p]].prev, block[p])
  /\ pc' = [pc EXCEPT ![p] = "free_release"]
  /\ UNCHANGED <<locked, bufs, arg, block, buffer>>

FreeReturn(p) ==
  /\ pc[p] = "free_release"
  /\ spinlock_release
  /\ Return(p)
  /\ UNCHANGED <<hdr, blocks, bufs>>

----------------------------------------------------------------------------
(* A client writes a cell of a buffer it owns.  *)

ClientWrites(ptr, c) ==
  /\ ptr \in DOMAIN bufs
  /\ ptr <= c /\ c < ptr + bufs[ptr]
  /\ hdr' = Spoil(hdr, c)
  /\ UNCHANGED <<blocks, locked, bufs, pc, arg, block, buffer>>

----------------------------------------------------------------------------

\* The steps of a call that is under way.
CallStep(p) ==
  \/ AllocLock(p) \/ ScanGivesUp(p) \/ ScanSkips(p) \/ ScanTakes(p)
  \/ AllocSplit(p) \/ AllocReturn(p)
  \/ FreeLock(p) \/ FreeIgnored(p) \/ FreeMarks(p)
  \/ FreeMergesNext(p) \/ FreeMergesPrev(p) \/ FreeReturn(p)

Next ==
  \/ \E p \in CPU : CallStep(p)
  \/ \E p \in CPU, n \in Sizes : Malloc(p, n)
  \/ \E p \in CPU, ptr \in Pointer : Free(p, ptr)
  \/ \E p \in CPU, ptr \in Pointer \cup {NULL} : FreeAgain(p, ptr)
  \/ \E ptr \in Pointer, c \in Addr : ClientWrites(ptr, c)

\* A processor inside heap_alloc or heap_free keeps running.
Fairness == \A p \in CPU : WF_vars(CallStep(p))

Spec     == Init /\ [][Next]_vars
FairSpec == Spec /\ Fairness

----------------------------------------------------------------------------
(* Properties *)

\* The type invariant of the heap's memory and of the processors' locals.
TypeOK ==
  /\ DOMAIN hdr \subseteq Addr
  /\ \A a \in DOMAIN hdr : hdr[a] \in Header
  /\ blocks \subseteq DOMAIN hdr
  /\ locked \in {0, 1}
  /\ DOMAIN bufs \subseteq Pointer
  /\ \A ptr \in DOMAIN bufs : bufs[ptr] \in Sizes
  /\ pc \in [CPU -> {"idle"} \cup AllocPc \cup FreePc]
  /\ arg \in [CPU -> Int]
  /\ block \in [CPU -> Int]
  /\ buffer \in [CPU -> Pointer \cup {NULL}]

\* The chain that heap_alloc walks from heap_root covers the heap: each block
\* ends where the next one starts, the last one ends at heap_top, and no two
\* share a cell.  It holds after every step of heap_alloc and heap_free, the
\* stale prev fields that splits leave behind notwithstanding.
ChainTilesHeap ==
  /\ Bottom \in blocks
  /\ \A a \in blocks :
       IF hdr[a].next = NULL THEN EndOf(hdr, a) = Top
       ELSE hdr[a].next = EndOf(hdr, a) /\ EndOf(hdr, a) \in blocks
  /\ \A a, b \in blocks : a < b => EndOf(hdr, a) <= b

\* A buffer that a client owns is the body of a used block of the chain, at
\* least as long as the client asked for: neither a second free of some other
\* buffer nor a merge takes it away.
BuffersBacked ==
  \A ptr \in DOMAIN bufs :
    /\ ptr - HDR \in blocks
    /\ hdr[ptr - HDR].status = "used"
    /\ bufs[ptr] <= hdr[ptr - HDR].size

\* No memory is lost: a block is used only if a client owns its buffer, or a
\* heap_alloc is about to return it, or a heap_free has yet to mark it.
UsedBlocksOwned ==
  \A a \in blocks : hdr[a].status = "used" =>
    \/ a + HDR \in DOMAIN bufs
    \/ \E p \in CPU : pc[p] \in AllocPc /\ buffer[p] = a + HDR
    \/ \E p \in CPU : pc[p] \in {"free_lock", "check"} /\ arg[p] = a + HDR

\* A prev field may name a control block that a merge has absorbed and that
\* now lies in the body of another block.  heap_merge never takes such a
\* remnant for the predecessor, whatever it still holds.
RemnantsNeverMerge ==
  \A a \in blocks :
    Mergeable(hdr, hdr[a].prev, a) => hdr[a].prev \in blocks

\* heap_alloc returns NULL only when no free block of the chain is as large
\* as the request.
NullMeansNoRoom ==
  \A p \in CPU :
    pc[p] = "alloc_release" /\ buffer[p] = NULL =>
      \A a \in blocks : hdr[a].status = "free" => hdr[a].size < arg[p]

\* heap_alloc and heap_free write control blocks only, and none of them in a
\* buffer that belongs to a client.
ClientDataKept ==
  [][\A a \in DOMAIN hdr' :
       (a \notin DOMAIN hdr \/ hdr'[a] # hdr[a]) =>
         \A ptr \in DOMAIN bufs : a + HDR <= ptr \/ ptr + bufs[ptr] <= a]_vars

\* Every exit of heap_alloc and heap_free releases the spinlock, and the walk
\* of the chain ends, so the lock never stays taken.
LockIsReleased == locked = 1 ~> locked = 0

----------------------------------------------------------------------------
(* What makes the safety properties inductive.  *)

InSection(p) == pc[p] \notin {"idle", "alloc_lock", "free_lock"}

\* The spinlock keeps heap_alloc's and heap_free's bodies apart.
MutualExclusion ==
  /\ \A p \in CPU : InSection(p) => locked = 1
  /\ \A p, q \in CPU : InSection(p) /\ InSection(q) => p = q

\* The block at a is in the chain and marked as used.
UsedBlock(a) == a \in blocks /\ hdr[a].status = "used"

\* What each processor knows at each point of heap_alloc and heap_free.
LocalsOK ==
  \A p \in CPU :
    /\ pc[p] \in AllocPc => arg[p] \in Sizes
    /\ pc[p] \notin {"split", "alloc_release"} => buffer[p] = NULL
    /\ pc[p] = "scan" =>
         /\ block[p] \in blocks \cup {NULL}
         /\ \A a \in blocks :
              (block[p] = NULL \/ a < block[p]) /\ hdr[a].status = "free"
                => hdr[a].size < arg[p]
    /\ pc[p] = "split" =>
         /\ UsedBlock(block[p])
         /\ buffer[p] = block[p] + HDR
         /\ hdr[block[p]].size > arg[p] + HDR + 1
    /\ pc[p] = "alloc_release" /\ buffer[p] # NULL =>
         UsedBlock(buffer[p] - HDR) /\ arg[p] <= hdr[buffer[p] - HDR].size
    /\ pc[p] = "free_lock" => UsedBlock(arg[p] - HDR)
    /\ pc[p] = "check" => block[p] = arg[p] - HDR
    /\ pc[p] \in {"merge_next", "merge_prev"} =>
         block[p] \in blocks /\ hdr[block[p]].status = "free"

\* A buffer has one owner: a client, or the one call that hands it over.
OneOwner ==
  /\ \A p \in CPU : pc[p] \in {"free_lock", "check"} => arg[p] \notin DOMAIN bufs
  /\ \A p \in CPU : pc[p] \in AllocPc => buffer[p] \notin DOMAIN bufs
  /\ \A p, q \in CPU :
       pc[p] = "free_lock" /\ pc[q] \in {"free_lock", "check"} /\ p # q
         => arg[p] # arg[q]
  /\ \A p, q \in CPU :
       pc[p] \in AllocPc /\ pc[q] = "free_lock" => buffer[p] # arg[q]

\* What is left of absorbed blocks: marked as free, and not pointing at a
\* block that points back.
RemnantsOK ==
  /\ \A a \in DOMAIN hdr \ blocks : hdr[a].status = "free"
  /\ \A a \in blocks :
       hdr[a].prev \in DOMAIN hdr \ blocks => hdr[hdr[a].prev].next # a

IndInv ==
  /\ TypeOK
  /\ ChainTilesHeap
  /\ BuffersBacked
  /\ MutualExclusion
  /\ LocalsOK
  /\ OneOwner
  /\ RemnantsOK

----------------------------------------------------------------------------

\* What malloc and free promise, whatever the heap does inside.
Pool == INSTANCE Allocator WITH Lo <- Bottom, Hi <- Top

\* heap_alloc and heap_free implement an allocator that hands out ranges of
\* the heap, each disjoint from all those it has handed out before.
ImplementsAllocator == Pool!Spec

\* heap.c promises that two consecutive free regions are merged when a region
\* is freed.
FreeNeighboursMerged ==
  locked = 0 =>
    \A a, b \in blocks : hdr[a].next = b =>
      ~(hdr[a].status = "free" /\ hdr[b].status = "free")
=============================================================================
