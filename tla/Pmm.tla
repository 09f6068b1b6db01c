-------------------------------- MODULE Pmm --------------------------------
(***************************************************************************)
(* The physical memory manager (arch/i386/kernel/mem/pmm.c): a bitmap with *)
(* one bit per page frame.  Addresses and lengths are counted in units of  *)
(* which a page has PageSize.                                              *)
(*                                                                         *)
(* allocate_frames counts the bitmap in words and passes the count to      *)
(* heap_alloc, which takes bytes.  Only the first bits of the map lie in   *)
(* the block it gets; the others lie in the heap, where other allocations  *)
(* and the heap's own control blocks write.                                *)
(***************************************************************************)
EXTENDS Integers

CONSTANTS MemUpper,     \* multiboot_info->mem_upper, in kB
          LowMem,       \* the memory below mem_upper, in kB (1024)
          WordBits,     \* bits of a word (32)
          ByteBits,     \* bits of a byte (8)
          PageSize,     \* units in a page
          Mmap,         \* the regions of the multiboot memory map
          KernelStart, KernelAfter   \* the kernel image, heap included

ASSUME PmmAssumption ==
  /\ MemUpper \in Nat /\ WordBits \in Nat \ {0} /\ ByteBits \in Nat \ {0} /\ PageSize \in Nat \ {0}
  /\ LowMem \in Nat /\ LowMem > 4 * (WordBits - 1)
  /\ KernelStart \in Nat /\ KernelAfter \in Nat
  /\ \A r \in Mmap : r.base \in Nat /\ r.length \in Nat \ {0} /\ r.type \in Nat

VARIABLES frames_map,  \* the bits that are set
          page,        \* the address that pmm_alloc_page returned last
          held,        \* auxiliary: the frames of the pages clients have
          twice,       \* auxiliary: frames handed out while a client had them
          lies         \* auxiliary: calls that found a frame and returned 0

pmmVars == <<frames_map, page, held, twice, lies>>

Up(n, d) == (n + d - 1) \div d

FRAME_NUMBER(addr) == addr \div PageSize
PHYSICAL_ADDR(f) == f * PageSize

\* Mutant: shifted by one bit too few.
frames_count_Shift == ((MemUpper + 1) % 4194304) \div 2

\* ((mem_upper + 1) << 10) >> 12 in 32 bits; 4194304 is 2^22
frames_count == ((MemUpper + 1) % 4194304) \div 4

mapsize == frames_count \div WordBits + (IF frames_count % WordBits # 0 THEN 1 ELSE 0)

Bits == 0 .. mapsize * WordBits - 1

\* The bits that lie in the block that heap_alloc(mapsize) returns
OwnBits == Bits \cap (0 .. mapsize * ByteBits - 1)

\* Mutant: the frames are counted from the length alone.
reserve_system_block_FromZero(r) ==
  {f \in 0 .. Up(r.length, PageSize) - 1 : f < frames_count}

reserve_system_block(r) ==
  LET first == FRAME_NUMBER(r.base)
  IN  {f \in first .. first + Up(r.length, PageSize) - 1 : f < frames_count}

reserve_system == UNION {reserve_system_block(r) : r \in {s \in Mmap : s.type # 1}}

reserve_kernel == FRAME_NUMBER(KernelStart) .. Up(KernelAfter, PageSize) - 1

\* pmm_init.  It is the first to use the heap: its block is zero.  What the
\* rest of the map reads as is up to the heap.
PmmInit ==
  /\ \E foreign \in SUBSET (Bits \ OwnBits) :
       frames_map = foreign \cup reserve_system \cup reserve_kernel
  /\ page = 0
  /\ held = {}
  /\ twice = {}
  /\ lies = 0

\* frame_find_free returns f
FirstFree(f) == f \in Bits \ frames_map /\ \A g \in Bits : g < f => g \in frames_map

Full == Bits \subseteq frames_map

\* Mutant: the frame is not marked.
frame_set_Forgets(f) == frames_map

frame_set(f) == frames_map \cup {f}

\* Mutant: the mask is not inverted.
frame_clear_Mask(f) == {g \in frames_map : g = f \/ g \div WordBits # f \div WordBits}

frame_clear(f) == frames_map \ {f}

AllocFails ==
  /\ Full
  /\ page' = 0
  /\ UNCHANGED <<frames_map, held, twice, lies>>

\* Frame 0 is found and marked like any other; its address says "none".
AllocFinds(f) ==
  /\ FirstFree(f)
  /\ frames_map' = frame_set(f)
  /\ page' = PHYSICAL_ADDR(f)
  /\ held' = held \cup ({f} \ {0})
  /\ twice' = twice \cup (held \cap {f})
  /\ lies' = IF f = 0 THEN lies + 1 ELSE lies

pmm_alloc_page == AllocFails \/ \E f \in Bits : AllocFinds(f)

\* A client gives back a page it has.
pmm_free_page(addr) ==
  /\ frames_map' = frame_clear(FRAME_NUMBER(addr))
  /\ held' = held \ {FRAME_NUMBER(addr)}
  /\ UNCHANGED <<page, twice, lies>>

\* Somebody writes in the part of the heap that the map runs into.
HeapWrites(foreign) ==
  /\ frames_map' = (frames_map \cap OwnBits) \cup foreign
  /\ UNCHANGED <<page, held, twice, lies>>

PmmNext ==
  \/ pmm_alloc_page
  \/ \E f \in held : pmm_free_page(PHYSICAL_ADDR(f))
  \/ \E foreign \in SUBSET (Bits \ OwnBits) : HeapWrites(foreign)

PmmSpec == PmmInit /\ [][PmmNext]_pmmVars

----------------------------------------------------------------------------
(* Properties *)

\* No page is given to two clients (frame_find_free, frame_set), as long as its
\* bit lies in the block that was allocated for the map.
PagesExclusive == twice \cap OwnBits = {}

\* The frames that a region touches
Touched(r) == {f \in Bits : PHYSICAL_ADDR(f) < r.base + r.length /\ r.base < PHYSICAL_ADDR(f + 1)}

\* Of these, the ones that reserve_system_block is sure to reach: the frame that the
\* region begins in, those whose end it reaches, and all of a region that begins on a
\* page; none past frames_count.
Covered(r) ==
  {f \in Touched(r) : /\ f < frames_count
                      /\ \/ f = FRAME_NUMBER(r.base)
                         \/ PHYSICAL_ADDR(f + 1) <= r.base + r.length
                         \/ r.base % PageSize = 0}

\* The frames of the kernel (reserve_kernel), and those of a reserved region that
\* reserve_system covers, are never given to a client, as long as their bits lie in
\* the block that was allocated for the map.
ReservedKept ==
  \A f \in held \cap OwnBits :
    /\ ~(FRAME_NUMBER(KernelStart) <= f /\ PHYSICAL_ADDR(f) < KernelAfter)
    /\ \A r \in Mmap : f \in Covered(r) => r.type = 1

\* The same of every frame that a reserved region touches.  reserve_system_block counts
\* frames from the length alone, and misses the last one of a region that begins inside
\* a page and ends early in another.
TouchedKept ==
  \A f \in held \cap OwnBits, r \in Mmap : f \in Touched(r) => r.type = 1

\* pmm.h: "0 if no free page is found".  The address of frame 0 is 0 too, so the
\* answer is wrong when that frame is found; it stays marked, and no later call
\* is wrong again.
LiesOnce == lies <= 1

\* frame_find_free looks at whole words, and the last one has bits for frames past
\* frames_count.  A page that is given out lies in the machine's memory all the same:
\* allocate_frames counts one kB of the memory below mem_upper, and there is more.
PagesExist == \A f \in held : 4 * (f + 1) <= MemUpper + LowMem
=============================================================================
