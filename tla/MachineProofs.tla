--------------------------- MODULE MachineProofs ---------------------------
(***************************************************************************)
(* What holds of the physical memory manager, of the timer and the         *)
(* interrupt controllers and of the clock for every memory, every set of   *)
(* interrupts and every course of the clock.                               *)
(***************************************************************************)
EXTENDS Pmm, Rtclock, Pctimer, WellFoundedInduction, TLAPS

----------------------------------------------------------------------------
(* Induction *)

\* A set of natural numbers has a least element.
LEMMA LeastNatural ==
  ASSUME NEW T, T \subseteq Nat, T # {}
  PROVE  \E x \in T : \A y \in T : x <= y
<1> DEFINE R == OpToRel(<, Nat)
<1>1. IsWellFoundedOn(R, Nat)
  BY NatLessThanWellFounded
<1>2. \A x, y \in Nat : x < y => <<x, y>> \in R
  BY DEF OpToRel
<1> HIDE DEF R
<1>3. \E x \in T : \A y \in T : ~(<<y, x>> \in R)
  BY <1>1, WFMin
<1>4. PICK x \in T : \A y \in T : ~(<<y, x>> \in R)
  BY <1>3
<1>5. ASSUME NEW y \in T PROVE x <= y
  <2>1. x \in Nat /\ y \in Nat /\ ~(y < x)
    BY <1>2, <1>4
  <2> QED BY <2>1
<1> QED BY <1>5

\* Induction, with the set of the numbers that have the property.
LEMMA InductionSet ==
  ASSUME NEW S, 0 \in S, \A n \in Nat : n \in S => n + 1 \in S
  PROVE  Nat \subseteq S
<1> SUFFICES ASSUME Nat \ S # {} PROVE FALSE
  OBVIOUS
<1>1. PICK x \in Nat \ S : \A y \in Nat \ S : x <= y
  BY LeastNatural
<1>2. x # 0 /\ x - 1 \in Nat /\ x - 1 \in S
  BY <1>1
<1>3. (x - 1) + 1 \in S
  BY <1>2
<1> QED BY <1>1, <1>3

----------------------------------------------------------------------------
(* Division *)

\* A quotient is the largest multiple that fits.
LEMMA DivMod ==
  ASSUME NEW a \in Nat, NEW b \in Nat \ {0}
  PROVE  /\ a \div b \in Nat /\ a % b \in 0 .. b - 1
         /\ a = b * (a \div b) + (a % b)
  OBVIOUS

\* Multiplication by a positive number keeps the order.
LEMMA MulMono ==
  ASSUME NEW x \in Int, NEW y \in Int, NEW b \in Nat \ {0}, x < y
  PROVE  b * x + b <= b * y
<1>1. PICK d \in Nat : y = x + 1 + d
  <2>1. y - x - 1 \in Nat /\ y = x + 1 + (y - x - 1)
    OBVIOUS
  <2> QED BY <2>1
<1>2. b * y = b * x + b + b * d
  BY <1>1
<1>3. b * d \in Nat /\ b * x \in Int
  BY <1>1
<1> QED BY <1>2, <1>3

\* FRAME_NUMBER: a multiple of b that is at most a has at most the quotient.
LEMMA DivAbove ==
  ASSUME NEW a \in Nat, NEW b \in Nat \ {0}, NEW q \in Int, b * q <= a
  PROVE  q <= a \div b
<1> DEFINE d == a \div b
<1>1. d \in Nat /\ a < b * d + b /\ b * d \in Int
  BY DivMod
<1>2. CASE q > d
  <2>1. b * d + b <= b * q
    BY <1>1, <1>2, MulMono
  <2> QED BY <1>1, <2>1
<1> HIDE DEF d
<1>3. CASE ~(q > d)
  BY <1>1, <1>3
<1>4. q <= d
  BY <1>2, <1>3, <1>1
<1> QED BY <1>4 DEF d

\* FRAME_NUMBER: a multiple of b that is above a is above the quotient.
LEMMA DivBelow ==
  ASSUME NEW a \in Nat, NEW b \in Nat \ {0}, NEW q \in Int, a < b * q
  PROVE  a \div b < q
<1>1. a \div b \in Nat /\ b * (a \div b) <= a /\ b * (a \div b) \in Int /\ b * q \in Int
  BY DivMod
<1>2. CASE q = a \div b
  BY <1>1, <1>2
<1>3. CASE q < a \div b
  <2>1. b * q + b <= b * (a \div b)
    BY <1>1, <1>3, MulMono
  <2> QED BY <1>1, <2>1
<1> QED BY <1>1, <1>2, <1>3

\* One more divisor is one more in the quotient.
LEMMA DivNext ==
  ASSUME NEW l \in Nat, NEW b \in Nat \ {0}
  PROVE  (l + b) \div b = l \div b + 1
<1> DEFINE q == l \div b
           r == l % b
           a == l + b
<1>1. q \in Nat /\ r \in 0 .. b - 1 /\ l = b * q + r
  BY DivMod
<1>2. a \in Nat /\ a = l + b
  OBVIOUS
<1> HIDE DEF q, r, a
<1>3. b * (q + 1) = b * q + b /\ b * (q + 2) = b * q + b + b /\ b * q \in Nat
  BY <1>1
<1>4. b * (q + 1) <= a /\ a < b * (q + 2)
  BY <1>1, <1>2, <1>3
<1>5. q + 1 <= a \div b
  BY <1>1, <1>2, <1>4, DivAbove
<1>6. a \div b < q + 2
  BY <1>1, <1>2, <1>4, DivBelow
<1>7. a \div b \in Nat
  BY <1>2, DivMod
<1>8. a \div b = q + 1
  BY <1>1, <1>5, <1>6, <1>7
<1> QED BY <1>8 DEF a, q

\* FRAME_NUMBER undoes PHYSICAL_ADDR.
LEMMA FrameOfAddress ==
  ASSUME NEW f \in Nat
  PROVE  FRAME_NUMBER(PHYSICAL_ADDR(f)) = f
<1>1. PageSize \in Nat \ {0}
  BY PmmAssumption
<1> DEFINE a == f * PageSize
<1>2. a \in Nat /\ a = PageSize * f
  BY <1>1
<1>3. PageSize * (f + 1) = a + PageSize
  BY <1>1, <1>2
<1> HIDE DEF a
<1>4. f <= a \div PageSize
  BY <1>1, <1>2, DivAbove
<1>5. a \div PageSize < f + 1
  BY <1>1, <1>2, <1>3, DivBelow
<1>6. a \div PageSize \in Nat
  BY <1>1, <1>2, DivMod
<1>7. a \div PageSize = f
  BY <1>4, <1>5, <1>6
<1> QED BY <1>7 DEF a, FRAME_NUMBER, PHYSICAL_ADDR

----------------------------------------------------------------------------
(* The map *)

\* allocate_frames: the numbers are natural, and the words of the map have a bit
\* for every frame, and less than a word of them to spare.
LEMMA MapCovers ==
  /\ frames_count \in Nat
  /\ mapsize \in Nat
  /\ 0 .. frames_count - 1 \subseteq Bits
  /\ mapsize * WordBits \in Nat /\ mapsize * WordBits <= frames_count + WordBits - 1
<1>1. frames_count \in Nat
  <2>1. (MemUpper + 1) % 4194304 \in Nat
    BY PmmAssumption
  <2> QED BY <2>1 DEF frames_count
<1>2. WordBits \in Nat \ {0}
  BY PmmAssumption
<1> DEFINE q == frames_count \div WordBits
           rem == frames_count % WordBits
<1>3. q \in Nat /\ rem \in 0 .. WordBits - 1 /\ frames_count = WordBits * q + rem
  BY <1>1, <1>2, DivMod
<1>4. mapsize = q + (IF rem # 0 THEN 1 ELSE 0)
  BY DEF mapsize
<1> HIDE DEF q, rem
<1>5. mapsize \in Nat
  BY <1>3, <1>4
<1>6. /\ frames_count <= mapsize * WordBits
      /\ mapsize * WordBits <= frames_count + WordBits - 1
  <2>1. CASE rem = 0
    <3>1. mapsize * WordBits = WordBits * q
      BY <1>2, <1>3, <1>4, <2>1
    <3>2. WordBits * q = frames_count
      BY <1>2, <1>3, <2>1
    <3> QED BY ONLY <1>1, <1>2, <3>1, <3>2
  <2>2. CASE rem # 0
    <3>1. mapsize * WordBits = WordBits * q + WordBits
      BY <1>2, <1>3, <1>4, <2>2
    <3> DEFINE p == WordBits * q
    <3>2. p \in Nat /\ frames_count = p + rem /\ mapsize * WordBits = p + WordBits
      BY <1>2, <1>3, <3>1
    <3> HIDE DEF p
    <3> QED BY ONLY <1>2, <1>3, <2>2, <3>2
  <2> QED BY <2>1, <2>2
<1>7. mapsize * WordBits \in Nat
  BY <1>2, <1>5
<1> QED BY <1>1, <1>5, <1>6, <1>7 DEF Bits

\* allocate_frames: a map that has a bit for frame 0 has it in its own block.
LEMMA ZeroIsOwn == 0 \in Bits => 0 \in OwnBits
<1> SUFFICES ASSUME 0 \in Bits PROVE 0 \in OwnBits
  OBVIOUS
<1>1. WordBits \in Nat /\ ByteBits \in Nat \ {0} /\ mapsize \in Nat
  BY PmmAssumption, MapCovers
<1>2. mapsize # 0
  BY <1>1 DEF Bits
<1>3. mapsize * ByteBits \in Nat /\ mapsize * ByteBits # 0
  BY <1>1, <1>2
<1> QED BY <1>3 DEF OwnBits

\* The frames that pmm_init marks
Reserved == reserve_system \cup reserve_kernel

\* reserve_kernel marks every frame from the one the kernel begins in to the one
\* its last byte is in.
LEMMA KernelCovered ==
  ASSUME NEW f \in Nat, FRAME_NUMBER(KernelStart) <= f, PHYSICAL_ADDR(f) < KernelAfter
  PROVE  f \in reserve_kernel
<1>1. PageSize \in Nat \ {0} /\ KernelAfter \in Nat /\ KernelStart \in Nat
  BY PmmAssumption
<1> DEFINE a == KernelAfter + PageSize - 1
<1>2. a \in Nat
  BY <1>1
<1>3. PageSize * (f + 1) = PHYSICAL_ADDR(f) + PageSize /\ PHYSICAL_ADDR(f) \in Nat
  BY <1>1 DEF PHYSICAL_ADDR
<1>4. PageSize * (f + 1) <= a
  BY <1>1, <1>3
<1> HIDE DEF a
<1>5. f + 1 <= a \div PageSize
  <2> DEFINE q == f + 1
  <2>1. q \in Int /\ PageSize * q <= a
    BY <1>4
  <2> HIDE DEF q
  <2>2. q <= a \div PageSize
    BY <1>1, <1>2, <2>1, DivAbove
  <2> QED BY <2>2 DEF q
<1>6. a \div PageSize \in Nat /\ FRAME_NUMBER(KernelStart) \in Nat
  BY <1>1, <1>2, DivMod DEF FRAME_NUMBER
<1>7. f <= (a \div PageSize) - 1
  BY <1>5, <1>6
<1> QED BY <1>6, <1>7 DEF a, reserve_kernel, Up

\* reserve_system_block marks every frame that it is said to cover.
LEMMA RegionCovered ==
  ASSUME NEW r \in Mmap, NEW f \in Covered(r)
  PROVE  f \in reserve_system_block(r)
<1>1. PageSize \in Nat \ {0} /\ r.base \in Nat /\ r.length \in Nat \ {0}
  BY PmmAssumption
<1>2. f \in Nat /\ f < frames_count
  BY DEF Covered, Touched, Bits
<1> DEFINE first == r.base \div PageSize
           rem == r.base % PageSize
           l == r.length - 1
           a == r.length + PageSize - 1
<1>3. first \in Nat /\ rem \in 0 .. PageSize - 1 /\ r.base = PageSize * first + rem
  BY <1>1, DivMod
<1>4. l \in Nat /\ r.length = l + 1 /\ a \in Nat /\ a = l + PageSize
  BY <1>1
<1>5. /\ PageSize * f < r.base + r.length
      /\ r.base < PageSize * (f + 1)
      /\ \/ f = first
         \/ PageSize * (f + 1) <= r.base + r.length
         \/ rem = 0
  BY <1>1, <1>2 DEF Covered, Touched, PHYSICAL_ADDR, FRAME_NUMBER
<1>6. first <= f
  <2>1. f + 1 \in Int
    BY <1>2
  <2>2. r.base \div PageSize < f + 1
    BY <1>1, <1>5, <2>1, DivBelow
  <2>3. first < f + 1
    BY <2>2
  <2> QED BY ONLY <1>2, <1>3, <2>3
<1> HIDE DEF first, rem, l
<1>7. l \div PageSize \in Nat /\ a \div PageSize = l \div PageSize + 1
  <2>1. l \div PageSize \in Nat
    BY <1>1, <1>4, DivMod
  <2>2. (l + PageSize) \div PageSize = l \div PageSize + 1
    BY <1>1, <1>4, DivNext
  <2> QED BY <1>4, <2>1, <2>2
<1> HIDE DEF a
<1> DEFINE q == f - first
<1>8. q \in Int /\ PageSize * q = PageSize * f - PageSize * first
      /\ PageSize * (q + 1) = PageSize * (f + 1) - PageSize * first
      /\ PageSize * f \in Nat /\ PageSize * first \in Nat /\ PageSize * (f + 1) \in Nat
  BY <1>1, <1>2, <1>3
<1> HIDE DEF q
<1>9. q <= l \div PageSize
  <2>1. CASE f = first
    BY <1>3, <1>7, <2>1 DEF q
  <2>2. CASE PageSize * (f + 1) <= r.base + r.length
    <3>1. PageSize * (q + 1) <= a /\ q + 1 \in Int
      BY <1>1, <1>3, <1>4, <1>8, <2>2
    <3>2. q + 1 <= a \div PageSize
      BY <1>1, <1>4, <3>1, DivAbove
    <3> QED BY <1>7, <1>8, <3>2
  <2>3. CASE rem = 0
    <3>1. PageSize * q <= l
      BY <1>3, <1>4, <1>5, <1>8, <2>3
    <3> QED BY <1>1, <1>4, <1>8, <3>1, DivAbove
  <2> QED BY <1>5, <2>1, <2>2, <2>3
<1>10. reserve_system_block(r) = {g \in first .. first + (l \div PageSize + 1) - 1 : g < frames_count}
  BY <1>7 DEF reserve_system_block, FRAME_NUMBER, Up, first, a
<1>11. first <= f /\ f <= first + (l \div PageSize + 1) - 1
  BY <1>2, <1>3, <1>6, <1>7, <1>9 DEF q
<1> QED BY <1>2, <1>3, <1>7, <1>10, <1>11

----------------------------------------------------------------------------
(* The invariant *)

\* Every frame that a client has, and every reserved one, is marked in the block
\* of the map, where frame_clear is the only one to take a mark away.
PmmInv ==
  /\ held \subseteq Bits \ {0}
  /\ held \cap OwnBits \subseteq frames_map
  /\ Reserved \cap OwnBits \subseteq frames_map
  /\ held \cap Reserved \cap OwnBits = {}
  /\ twice \cap OwnBits = {}
  /\ lies \in {0, 1}
  /\ lies = 1 => 0 \in Bits /\ 0 \in frames_map

\* pmm_init establishes the invariant: it marks the reserved frames.
LEMMA InitPmmInv == PmmInit => PmmInv
  BY DEF PmmInit, PmmInv, Reserved

\* pmm_alloc_page, pmm_free_page and whoever writes to the heap preserve it: a
\* frame found free is neither held nor reserved if its mark can be trusted, and
\* a frame given back is not reserved.
LEMMA NextPmmInv == PmmInv /\ [PmmNext]_pmmVars => PmmInv'
<1> SUFFICES ASSUME PmmInv, [PmmNext]_pmmVars PROVE PmmInv'
  OBVIOUS
<1>0. OwnBits \subseteq Bits /\ (0 \in Bits => 0 \in OwnBits) /\ Bits \subseteq Nat
  BY ZeroIsOwn DEF OwnBits, Bits
<1>1. CASE AllocFails
  BY <1>1 DEF AllocFails, PmmInv
<1>2. ASSUME NEW f \in Bits, AllocFinds(f) PROVE PmmInv'
  <2>1. f \notin frames_map /\ frames_map' = frames_map \cup {f}
    BY <1>2 DEF AllocFinds, FirstFree, frame_set
  <2>2. f \in OwnBits => f \notin held /\ f \notin Reserved
    BY <2>1 DEF PmmInv
  <2>3. held' = held \cup ({f} \ {0}) /\ twice' = twice \cup (held \cap {f})
    BY <1>2 DEF AllocFinds
  <2>4. /\ held' \subseteq Bits \ {0}
        /\ held' \cap OwnBits \subseteq frames_map'
        /\ Reserved \cap OwnBits \subseteq frames_map'
    BY <2>1, <2>3 DEF PmmInv
  <2>5. held' \cap Reserved \cap OwnBits = {} /\ twice' \cap OwnBits = {}
    BY <2>2, <2>3 DEF PmmInv
  <2>6. /\ lies' \in {0, 1}
        /\ lies' = 1 => 0 \in Bits /\ 0 \in frames_map'
    <3>1. CASE f = 0
      <4>1. lies = 0 /\ lies' = lies + 1
        BY <1>2, <2>1, <3>1 DEF PmmInv, AllocFinds
      <4> QED BY <2>1, <3>1, <4>1
    <3>2. CASE f # 0
      <4>1. lies' = lies
        BY <1>2, <3>2 DEF AllocFinds
      <4> QED BY <2>1, <4>1 DEF PmmInv
    <3> QED BY <3>1, <3>2
  <2> QED BY <2>4, <2>5, <2>6 DEF PmmInv
<1>3. ASSUME NEW f \in held, pmm_free_page(PHYSICAL_ADDR(f)) PROVE PmmInv'
  <2>1. f \in Bits \ {0} /\ f \in Nat
    BY <1>0 DEF PmmInv
  <2>2. FRAME_NUMBER(PHYSICAL_ADDR(f)) = f
    BY <2>1, FrameOfAddress
  <2>3. /\ frames_map' = frames_map \ {f} /\ held' = held \ {f}
        /\ twice' = twice /\ lies' = lies
    BY <1>3, <2>2 DEF pmm_free_page, frame_clear
  <2>4. Reserved \cap OwnBits \subseteq frames_map'
    BY <2>3 DEF PmmInv
  <2> QED BY <2>1, <2>3, <2>4 DEF PmmInv
<1>4. ASSUME NEW foreign \in SUBSET (Bits \ OwnBits), HeapWrites(foreign) PROVE PmmInv'
  BY <1>0, <1>4 DEF HeapWrites, PmmInv
<1>5. CASE UNCHANGED pmmVars
  BY <1>5 DEF pmmVars, PmmInv
<1> QED BY <1>1, <1>2, <1>3, <1>4, <1>5 DEF PmmNext, pmm_alloc_page

\* The invariant holds in every reachable state.
THEOREM PmmInvariance == PmmSpec => []PmmInv
  BY InitPmmInv, NextPmmInv, PTL DEF PmmSpec

\* No page is given to two clients, as long as its bit lies in the block that
\* allocate_frames got for the map.
THEOREM PagesAreExclusive == PmmSpec => []PagesExclusive
<1>1. PmmInv => PagesExclusive
  BY DEF PmmInv, PagesExclusive
<1> QED BY <1>1, PmmInvariance, PTL

\* pmm_alloc_page answers "none" with a frame in hand at most once.
THEOREM LiesAtMostOnce == PmmSpec => []LiesOnce
<1>1. PmmInv => LiesOnce
  BY DEF PmmInv, LiesOnce
<1> QED BY <1>1, PmmInvariance, PTL

\* The frames of the kernel, and those of a reserved region that it begins in, fills or
\* ends in after it began on a page, are never given to a client, as long as their bits
\* lie in the block of the map.
THEOREM ReservedFramesKept == PmmSpec => []ReservedKept
<1>1. PmmInv => ReservedKept
  <2> SUFFICES ASSUME PmmInv, NEW f \in held \cap OwnBits
               PROVE  /\ ~(FRAME_NUMBER(KernelStart) <= f /\ PHYSICAL_ADDR(f) < KernelAfter)
                      /\ \A r \in Mmap : f \in Covered(r) => r.type = 1
    BY DEF ReservedKept
  <2>1. f \notin Reserved /\ f \in Nat
    BY DEF PmmInv, OwnBits, Bits
  <2>2. ~(FRAME_NUMBER(KernelStart) <= f /\ PHYSICAL_ADDR(f) < KernelAfter)
    BY <2>1, KernelCovered DEF Reserved
  <2>3. ASSUME NEW r \in Mmap, f \in Covered(r), r.type # 1 PROVE FALSE
    <3>1. f \in reserve_system_block(r)
      BY <2>3, RegionCovered
    <3>2. f \in reserve_system
      BY <2>3, <3>1 DEF reserve_system
    <3> QED BY <2>1, <3>2 DEF Reserved
  <2> QED BY <2>2, <2>3
<1> QED BY <1>1, PmmInvariance, PTL

\* A page that is given out lies in the machine's memory, also when its bit is one that
\* the last word of the map has to spare.
THEOREM PagesDoExist == PmmSpec => []PagesExist
<1>1. PmmInv => PagesExist
  <2> SUFFICES ASSUME PmmInv, NEW f \in held
               PROVE  4 * (f + 1) <= MemUpper + LowMem
    BY DEF PagesExist
  <2>1. f \in Nat /\ f + 1 <= mapsize * WordBits
    BY MapCovers DEF PmmInv, Bits
  <2>2. 4 * frames_count <= MemUpper + 1
    <3> DEFINE m == (MemUpper + 1) % 4194304
    <3>1. MemUpper + 1 \in Nat
      BY PmmAssumption
    <3>2. m \in Nat /\ m <= MemUpper + 1
      BY <3>1
    <3>3. frames_count = m \div 4
      BY DEF frames_count
    <3> HIDE DEF m
    <3> QED BY <3>1, <3>2, <3>3
  <2>3. /\ MemUpper \in Nat /\ WordBits \in Nat \ {0}
        /\ LowMem \in Nat /\ LowMem > 4 * (WordBits - 1)
    BY PmmAssumption
  <2>4. frames_count \in Nat /\ mapsize * WordBits \in Nat
        /\ mapsize * WordBits <= frames_count + WordBits - 1
    BY MapCovers
  <2> QED BY ONLY <2>1, <2>2, <2>3, <2>4
<1> QED BY <1>1, PmmInvariance, PTL

----------------------------------------------------------------------------
(* The interrupt controllers *)

\* Between interrupts a running machine has none in service.
NoneInService == ~halted => in_service = {}

\* idt_handler ends every interrupt that the controllers raise: one command for a
\* line of the first, one for each of them for a line of the second.
LEMMA AllAcknowledged ==
  ASSUME NEW n \in Nat
  PROVE  Acknowledge(Lines(n), n) = {}
<1> DEFINE m == <<"PIC1", n - 32>>
           c == <<"PIC1", 2>>
           s == <<"PIC2", n - 40>>
<1>1. CASE n \in 32 .. 39
  <2>1. Lines(n) = {m} /\ m[1] = "PIC1" /\ m[2] = n - 32
    BY <1>1 DEF Lines
  <2>2. EndOfInterrupt({m}, "PIC1") = {}
    BY <2>1 DEF EndOfInterrupt
  <2> QED BY <1>1, <2>1, <2>2 DEF Acknowledge
<1>2. CASE n \in 40 .. 47
  <2>1. /\ Lines(n) = {c, s}
        /\ c[1] = "PIC1" /\ c[2] = 2 /\ s[1] = "PIC2" /\ s[2] = n - 40
    BY <1>2 DEF Lines
  <2>2. EndOfInterrupt({c, s}, "PIC2") = {c}
    BY <2>1, <1>2 DEF EndOfInterrupt
  <2>3. EndOfInterrupt({c}, "PIC1") = {}
    BY <2>1 DEF EndOfInterrupt
  <2>4. Acknowledge(Lines(n), n) = EndOfInterrupt(EndOfInterrupt(Lines(n), "PIC2"), "PIC1")
    BY <1>2 DEF Acknowledge
  <2> HIDE DEF c, s
  <2> QED BY <2>1, <2>2, <2>3, <2>4
<1>3. CASE n \notin 32 .. 47
  BY <1>3 DEF Acknowledge, Lines
<1> QED BY <1>1, <1>2, <1>3

\* Every step keeps the controllers free.
LEMMA NextNoneInService == NoneInService /\ [TimerNext]_timerVars => NoneInService'
<1> SUFFICES ASSUME NoneInService, [TimerNext]_timerVars PROVE NoneInService'
  OBVIOUS
<1>1. ASSUME NEW n \in Vectors, idt_handler(n) PROVE NoneInService'
  <2>1. n \in Nat
    BY PctimerAssumption
  <2>2. in_service = {} /\ ~halted
    BY <1>1 DEF idt_handler, NoneInService
  <2>3. CASE n < 16
    BY <1>1, <2>3 DEF idt_handler, NoneInService
  <2>4. CASE ~(n < 16)
    <3>1. in_service' = Acknowledge(in_service \cup Lines(n), n)
      BY <1>1, <2>4 DEF idt_handler
    <3>2. in_service \cup Lines(n) = Lines(n)
      BY <2>2
    <3> QED BY <2>1, <3>1, <3>2, AllAcknowledged DEF NoneInService
  <2> QED BY <2>3, <2>4
<1>2. CASE pctimer_init \/ pctimer_read \/ PctimerDigit \/ \E len \in ReadLens : PctimerReturns(len)
  BY <1>2 DEF pctimer_init, pctimer_read, PctimerDigit, PctimerReturns, NoneInService
<1>3. CASE UNCHANGED timerVars
  BY <1>3 DEF timerVars, NoneInService
<1> QED BY <1>1, <1>2, <1>3 DEF TimerNext

\* Between interrupts every request line can be served, until an exception stops
\* the machine (idt_handler).
THEOREM LinesStayOpen == TimerSpec => []LinesOpen
<1>1. TimerInit => NoneInService
  BY DEF TimerInit, NoneInService
<1>2. NoneInService => LinesOpen
  BY DEF NoneInService, LinesOpen, Deliverable
<1> QED BY <1>1, <1>2, NextNoneInService, PTL DEF TimerSpec

----------------------------------------------------------------------------
(* The digits of the timer *)

\* Weight has the values that its definition says: such a function exists.
LEMMA WeightDef ==
  /\ \A i \in 0 .. HexDigits : Weight[i] \in Nat \ {0}
  /\ Weight[0] = 1
  /\ \A i \in 1 .. HexDigits : Weight[i] = Base * Weight[i - 1]
<1> DEFINE D(w) == [i \in 0 .. HexDigits |-> IF i = 0 THEN 1 ELSE Base * w[i - 1]]
           G(n, w) == /\ w \in [0 .. n -> Nat \ {0}] /\ w[0] = 1
                      /\ \A i \in 1 .. n : w[i] = Base * w[i - 1]
           S == {n \in Nat : \E w : G(n, w)}
<1>0. HexDigits \in Nat /\ Base \in Nat \ {0}
  BY PctimerAssumption
<1>1. 0 \in S
  <2>1. G(0, [i \in 0 .. 0 |-> 1])
    OBVIOUS
  <2> QED BY <2>1
<1>2. ASSUME NEW n \in Nat, n \in S PROVE n + 1 \in S
  <2>1. PICK w : G(n, w)
    BY <1>2
  <2> DEFINE v == [i \in 0 .. n + 1 |-> IF i = n + 1 THEN Base * w[n] ELSE w[i]]
  <2>2. w[n] \in Nat \ {0} /\ Base * w[n] \in Nat \ {0}
    BY <1>0, <2>1
  <2>3. v \in [0 .. n + 1 -> Nat \ {0}] /\ v[0] = 1
    BY <2>1, <2>2
  <2>4. ASSUME NEW i \in 1 .. n + 1 PROVE v[i] = Base * v[i - 1]
    <3>1. CASE i = n + 1
      BY <3>1
    <3>2. CASE i # n + 1
      BY <2>1, <3>2
    <3> QED BY <3>1, <3>2
  <2>5. G(n + 1, v)
    BY <2>3, <2>4
  <2> HIDE DEF G, v
  <2>6. \E u : G(n + 1, u)
    BY <2>5
  <2> QED BY <2>6
<1>3. PICK w : G(HexDigits, w)
  <2> HIDE DEF G
  <2>1. Nat \subseteq S
    <3> HIDE DEF S
    <3> QED BY <1>1, <1>2, InductionSet
  <2> QED BY <2>1, <1>0
<1>4. w = D(w)
  BY <1>0, <1>3
<1>5. Weight = D(Weight)
  <2>1. Weight = CHOOSE u : u = D(u)
    BY DEF Weight
  <2> HIDE DEF D
  <2> QED BY <1>4, <2>1
<1>6. \A i \in 0 .. HexDigits : Weight[i] = IF i = 0 THEN 1 ELSE Base * Weight[i - 1]
  BY <1>5
<1> DEFINE P == {n \in Nat : n <= HexDigits => Weight[n] \in Nat \ {0}}
<1>7. Nat \subseteq P
  <2>1. 0 \in P
    BY <1>0, <1>6
  <2>2. ASSUME NEW n \in Nat, n \in P PROVE n + 1 \in P
    <3>1. CASE n + 1 <= HexDigits
      <4>1. Weight[n] \in Nat \ {0} /\ Weight[n + 1] = Base * Weight[n]
        BY <1>0, <1>6, <2>2, <3>1
      <4> QED BY <1>0, <4>1
    <3>2. CASE ~(n + 1 <= HexDigits)
      BY <3>2
    <3> QED BY <3>1, <3>2
  <2> HIDE DEF P
  <2> QED BY <2>1, <2>2, InductionSet
<1>8. \A i \in 0 .. HexDigits : Weight[i] \in Nat \ {0}
  BY <1>0, <1>7
<1> QED BY <1>0, <1>6, <1>8

\* Dividing twice is dividing by the product.
LEMMA DivDiv ==
  ASSUME NEW a \in Nat, NEW p \in Nat \ {0}, NEW b \in Nat \ {0}
  PROVE  (a \div p) \div b = a \div (p * b)
  OBVIOUS

\* The digits converted so far are the last ones of the count t, and the reader's
\* copy holds the others.
Converting(t) ==
  /\ ticks = t \div Weight[HexDigits - left]
  /\ \A j \in 1 .. HexDigits - left : conversion[j] = (t \div Weight[j - 1]) % Base

\* The state of pctimer_read, whose digits belong to one count of the call.
ReaderInv ==
  /\ next_ticks \in Nat /\ seen \subseteq Nat
  /\ left \in -1 .. HexDigits
  /\ left >= 0 =>
       /\ conversion \in Seq(Nat) /\ Len(conversion) = HexDigits - left
       /\ \E t \in seen : Converting(t)
  /\ DigitsOfOneTick

\* One turn of the first loop of pctimer_read moves one digit over.
LEMMA DigitStep == ReaderInv /\ PctimerDigit => ReaderInv'
<1> SUFFICES ASSUME ReaderInv, PctimerDigit PROVE ReaderInv'
  OBVIOUS
<1>0. /\ HexDigits \in Nat /\ Base \in Nat \ {0} /\ left \in 1 .. HexDigits /\ left' = left - 1
      /\ conversion \in Seq(Nat) /\ Len(conversion) = HexDigits - left
      /\ ~Idle'
  BY PctimerAssumption DEF ReaderInv, PctimerDigit, Idle
<1>1. PICK t \in seen : Converting(t)
  BY <1>0 DEF ReaderInv
<1> DEFINE k == HexDigits - left
           c == Append(conversion, ticks % Base)
<1>2. /\ k \in 0 .. HexDigits - 1 /\ HexDigits - left' = k + 1
      /\ Weight[k] \in Nat \ {0} /\ Weight[k + 1] = Base * Weight[k]
  <2>1. k \in 0 .. HexDigits - 1 /\ HexDigits - left' = k + 1
    BY <1>0
  <2> HIDE DEF k
  <2>2. Weight[k] \in Nat \ {0}
    BY <1>0, <2>1, WeightDef
  <2>3. Weight[k + 1] = Base * Weight[(k + 1) - 1] /\ (k + 1) - 1 = k
    BY <1>0, <2>1, WeightDef
  <2> QED BY <2>1, <2>2, <2>3
<1>3. t \in Nat /\ ticks = t \div Weight[k] /\ ticks \in Nat
  <2>1. t \in Nat /\ ticks = t \div Weight[k]
    BY <1>1 DEF ReaderInv, Converting
  <2> HIDE DEF k
  <2> QED BY <1>2, <2>1, DivMod
<1>4. ticks \div Base = t \div Weight[k + 1]
  <2> HIDE DEF k
  <2>1. (t \div Weight[k]) \div Base = t \div (Weight[k] * Base)
    BY <1>0, <1>2, <1>3, DivDiv
  <2>2. Weight[k] * Base = Weight[k + 1]
    BY <1>0, <1>2
  <2> QED BY <1>3, <2>1, <2>2
<1>5. c \in Seq(Nat) /\ Len(c) = k + 1 /\ c[k + 1] = ticks % Base
      /\ \A j \in 1 .. k : c[j] = conversion[j]
  <2>1. ticks % Base \in Nat
    BY <1>0, <1>3
  <2> QED BY <1>0, <2>1
<1>6. \A j \in 1 .. k : conversion[j] = (t \div Weight[j - 1]) % Base
  BY <1>1 DEF Converting
<1>7. conversion' = c /\ ticks' = ticks \div Base /\ seen' = seen /\ next_ticks' = next_ticks
  BY DEF PctimerDigit
<1> HIDE DEF c, k
<1>8. \A j \in 1 .. k + 1 : c[j] = (t \div Weight[j - 1]) % Base
  <2> SUFFICES ASSUME NEW j \in 1 .. k + 1 PROVE c[j] = (t \div Weight[j - 1]) % Base
    OBVIOUS
  <2>1. CASE j = k + 1
    BY <2>1, <1>2, <1>3, <1>5
  <2>2. CASE j # k + 1
    BY <2>2, <1>2, <1>5, <1>6
  <2> QED BY <2>1, <2>2
<1>9. Converting(t)'
  BY <1>2, <1>4, <1>7, <1>8 DEF Converting
<1>10. DigitsOfOneTick'
  BY <1>0 DEF DigitsOfOneTick
<1>11. (\E u \in seen : Converting(u))'
  BY <1>1, <1>7, <1>9
<1>12. next_ticks' \in Nat /\ seen' \subseteq Nat /\ left' \in -1 .. HexDigits
  BY <1>0, <1>7 DEF ReaderInv
<1> QED BY <1>2, <1>5, <1>7, <1>10, <1>11, <1>12 DEF ReaderInv

\* The second loop of pctimer_read writes the digits in reverse.
LEMMA ReturnStep ==
  ASSUME ReaderInv, NEW len \in ReadLens, PctimerReturns(len)
  PROVE  ReaderInv'
<1>0. HexDigits \in Nat /\ Base \in Nat \ {0} /\ len \in Nat /\ left = 0 /\ left' = -1
  BY PctimerAssumption DEF PctimerReturns
<1>1. PICK t \in seen : Converting(t)
  BY <1>0 DEF ReaderInv
<1>2. /\ text' = [i \in 1 .. len |-> IF i <= HexDigits THEN conversion[HexDigits + 1 - i] ELSE Junk8]
      /\ seen' = seen /\ next_ticks' = next_ticks
  BY DEF PctimerReturns
<1>3. Len(text') = len
  BY <1>0, <1>2
<1>4. ASSUME NEW i \in 1 .. HexDigits, i <= Len(text')
      PROVE  text'[i] = (t \div Weight[HexDigits - i]) % Base
  <2> DEFINE j == HexDigits + 1 - i
  <2>1. i \in 1 .. len /\ j \in 1 .. HexDigits - left /\ j - 1 = HexDigits - i
    BY <1>0, <1>3, <1>4
  <2>2. text'[i] = conversion[j]
    BY <1>2, <1>4, <2>1
  <2>3. conversion[j] = (t \div Weight[j - 1]) % Base
    BY <1>1, <2>1 DEF Converting
  <2> QED BY <2>1, <2>2, <2>3
<1>5. DigitsOfOneTick'
  BY <1>2, <1>4 DEF DigitsOfOneTick
<1> QED BY <1>0, <1>2, <1>5 DEF ReaderInv

\* Every step keeps the reader's digits those of one count.
LEMMA NextReaderInv == ReaderInv /\ [TimerNext]_timerVars => ReaderInv'
<1> SUFFICES ASSUME ReaderInv, [TimerNext]_timerVars PROVE ReaderInv'
  OBVIOUS
<1>0. HexDigits \in Nat \ {0} /\ Weight[HexDigits] \in Nat \ {0} /\ Weight[0] = 1
  BY PctimerAssumption, WeightDef
<1>1. ASSUME NEW n \in Vectors, idt_handler(n) PROVE ReaderInv'
  <2>1. next_ticks' \in Nat
    <3>1. CASE next_ticks' = (next_ticks + 1) % Weight[HexDigits]
      BY <1>0, <3>1 DEF ReaderInv
    <3>2. CASE next_ticks' = next_ticks
      BY <3>2 DEF ReaderInv
    <3> QED BY <1>1, <3>1, <3>2 DEF idt_handler, pctimer_handler
  <2>2. /\ ticks' = ticks /\ conversion' = conversion /\ left' = left /\ text' = text
        /\ seen \subseteq seen' /\ seen' \subseteq seen \cup {next_ticks'}
        /\ Idle => seen' = seen
    BY <1>1 DEF idt_handler
  <2>3. \A t \in seen : Converting(t) => Converting(t)'
    BY <2>2 DEF Converting
  <2>4. DigitsOfOneTick'
    BY <2>2 DEF ReaderInv, DigitsOfOneTick, Idle
  <2>5. seen' \subseteq Nat
    BY <2>1, <2>2 DEF ReaderInv
  <2> QED BY <2>1, <2>2, <2>3, <2>4, <2>5 DEF ReaderInv
<1>2. CASE pctimer_read
  <2>1. /\ ticks' = next_ticks /\ seen' = {next_ticks} /\ conversion' = <<>>
        /\ left' = HexDigits /\ next_ticks' = next_ticks /\ next_ticks \in Nat
    BY <1>2 DEF pctimer_read, ReaderInv
  <2>2. Converting(next_ticks)'
    <3>1. HexDigits - left' = 0 /\ next_ticks \div 1 = next_ticks
      BY <1>0, <2>1
    <3> QED BY <1>0, <2>1, <3>1 DEF Converting
  <2>3. ~Idle'
    BY <1>0, <2>1 DEF Idle
  <2> QED BY <1>0, <2>1, <2>2, <2>3 DEF ReaderInv, DigitsOfOneTick
<1>3. CASE pctimer_init \/ UNCHANGED timerVars
  <2>1. UNCHANGED <<next_ticks, ticks, conversion, left, text, seen>>
    BY <1>3 DEF pctimer_init, timerVars
  <2> QED BY <2>1 DEF ReaderInv, Converting, DigitsOfOneTick, Idle
<1> QED BY <1>1, <1>2, <1>3, DigitStep, ReturnStep DEF TimerNext

\* The digits that pctimer_read returns are those of one count that the timer had
\* during the call, in every base and for every number of digits, whatever
\* interrupts come between two digits.
THEOREM TimerDigitsOfOneTick == TimerSpec => []DigitsOfOneTick
<1>1. TimerInit => ReaderInv
  BY PctimerAssumption DEF TimerInit, ReaderInv, DigitsOfOneTick, Idle
<1>2. ReaderInv => DigitsOfOneTick
  BY DEF ReaderInv
<1> QED BY <1>1, <1>2, NextReaderInv, PTL DEF TimerSpec

----------------------------------------------------------------------------
(* The clock *)

\* What the chip answers for a register at an instant
Shown(i, f) == IF is_binary THEN Instants[i][f] ELSE BIN_TO_BCD(Instants[i][f])

\* The register was read at an instant of a stretch of time.
ReadIn(clock, f, from, to) == \E i \in from .. to : clock[f] = Shown(i, f)

\* The date that the clock showed at an instant
Dated(clock, i) ==
  /\ \A f \in DOMAIN clock \ {"year"} : clock[f] = Instants[i][f]
  /\ clock.year = Instants[i].century * 100 + Instants[i].year

ClockType ==
  /\ now \in DOMAIN Instants /\ since \in 1 .. now /\ begun \in since .. now
  /\ is_binary \in BOOLEAN
  /\ clock_a \in [Fields -> Nat] /\ clock_b \in [Fields -> Nat]
  /\ take \in {"none", "a", "b"} /\ reg \in 0 .. 7 /\ DOMAIN buf = 0 .. 14
  /\ take # "none" => now <= begun + AttemptTicks

\* The first take of update_clock: what it has read it read since it began.
TakeA == take = "a" => \A j \in 1 .. reg : ReadIn(clock_a, Registers[j], begun, now)

\* The second take: all of the first was read before some moment at which nothing
\* of the second had been read.
Between(mid) ==
  /\ \A f \in Fields : ReadIn(clock_a, f, begun, mid)
  /\ \A j \in 1 .. reg : ReadIn(clock_b, Registers[j], mid, now)

TakeB == take = "b" => \E mid \in begun .. now : Between(mid)

\* The inductive invariant of the clock
ClockInv == ClockType /\ TakeA /\ TakeB /\ AcceptedIsReal /\ StampIsExact

\* An instant has a number for each register.
LEMMA InstantType ==
  ASSUME NEW i \in DOMAIN Instants
  PROVE  /\ i \in Nat \ {0} /\ Instants[i] \in [Fields -> 0 .. 99]
         /\ \A f \in Fields : Instants[i][f] \in 0 .. 99
  BY InstantsAssumption

\* The instants of a call are numbers, in their order.
LEMMA ClockTimes ==
  ASSUME ClockType
  PROVE  /\ DOMAIN Instants = 1 .. Len(Instants) /\ Len(Instants) \in Nat /\ AttemptTicks \in Nat
         /\ now \in 1 .. Len(Instants) /\ now \in Nat /\ since \in Nat /\ begun \in Nat
         /\ 1 <= since /\ since <= begun /\ begun <= now
         /\ take # "none" => now <= begun + AttemptTicks
<1>1. DOMAIN Instants = 1 .. Len(Instants) /\ Len(Instants) \in Nat /\ AttemptTicks \in Nat
  BY InstantsAssumption, AttemptAssumption
<1>2. /\ now \in DOMAIN Instants /\ since \in 1 .. now /\ begun \in since .. now
      /\ take # "none" => now <= begun + AttemptTicks
  BY DEF ClockType
<1> QED BY <1>1, <1>2

\* BCD_TO_BIN undoes the chip's coding.
LEMMA BcdRoundTrip ==
  ASSUME NEW n \in 0 .. 99
  PROVE  BIN_TO_BCD(n) \in Nat /\ BCD_TO_BIN(BIN_TO_BCD(n)) = n
  BY DEF BIN_TO_BCD, BCD_TO_BIN

\* What the chip answers is a number.
LEMMA ShownType ==
  ASSUME NEW i \in DOMAIN Instants, NEW f \in Fields
  PROVE  Shown(i, f) \in Nat
  BY InstantType, BcdRoundTrip DEF Shown

\* readclock made a date of what the registers showed at the instants t.
TakenAt(clock, t) ==
  /\ DOMAIN clock = Fields \ {"century"}
  /\ \A f \in Fields \ {"century", "year"} : clock[f] = Instants[t[f]][f]
  /\ clock.year = Instants[t["century"]].century * 100 + Instants[t["year"]].year

\* The end of readclock, for registers read at instants of a stretch of time
LEMMA ConvertedRead ==
  ASSUME NEW raw \in [Fields -> Nat], NEW lo \in DOMAIN Instants, NEW hi \in DOMAIN Instants,
         \A f \in Fields : ReadIn(raw, f, lo, hi)
  PROVE  \E t \in [Fields -> lo .. hi] : TakenAt(Converted(raw), t)
<1> DEFINE t == [f \in Fields |-> CHOOSE i \in lo .. hi : raw[f] = Shown(i, f)]
           bin == [f \in Fields |-> IF is_binary THEN raw[f] ELSE BCD_TO_BIN(raw[f])]
<1>1. \A f \in Fields : t[f] \in lo .. hi /\ raw[f] = Shown(t[f], f)
  BY DEF ReadIn
<1>2. lo .. hi \subseteq DOMAIN Instants
  BY InstantsAssumption
<1>3. t \in [Fields -> lo .. hi]
  BY <1>1
<1> HIDE DEF t
<1>4. ASSUME NEW f \in Fields PROVE bin[f] = Instants[t[f]][f]
  <2>1. t[f] \in DOMAIN Instants /\ raw[f] = Shown(t[f], f)
    BY <1>1, <1>2
  <2>2. Instants[t[f]][f] \in 0 .. 99
    BY <2>1, InstantType
  <2> QED BY <2>1, <2>2, BcdRoundTrip DEF Shown
<1>5. Converted(raw) = [f \in Fields \ {"century"} |->
                          IF f = "year" THEN bin.century * 100 + bin.year ELSE bin[f]]
  BY DEF Converted
<1> HIDE DEF bin
<1>6. "year" \in Fields \ {"century"} /\ "century" \in Fields
  BY DEF Fields
<1>7. Converted(raw).year = bin["century"] * 100 + bin["year"]
  BY <1>5, <1>6
<1>8. TakenAt(Converted(raw), t)
  BY <1>4, <1>5, <1>6, <1>7 DEF TakenAt
<1> QED BY <1>3, <1>8

\* Two takes that agree are the date of the moment between them: a register that
\* shows the same before and after that moment showed it then.
LEMMA TakesAgree ==
  ASSUME NEW a \in [Fields -> Nat], NEW b \in [Fields -> Nat],
         NEW lo \in DOMAIN Instants, NEW mid \in DOMAIN Instants, NEW hi \in DOMAIN Instants,
         lo <= mid, mid <= hi, hi <= lo + AttemptTicks,
         \A f \in Fields : ReadIn(a, f, lo, mid),
         \A f \in Fields : ReadIn(b, f, mid, hi),
         sameclock(Converted(a), Converted(b))
  PROVE  /\ DOMAIN Converted(b) = Fields \ {"century"}
         /\ Dated(Converted(b), mid)
<1> DEFINE A == Converted(a)
           B == Converted(b)
<1>1. PICK t \in [Fields -> lo .. mid] : TakenAt(A, t)
  BY ConvertedRead
<1>2. PICK u \in [Fields -> mid .. hi] : TakenAt(B, u)
  BY ConvertedRead
<1>3. \A f \in Fields \ {"century"} : A[f] = B[f]
  BY <1>1 DEF sameclock, TakenAt
<1> HIDE DEF A, B
<1>4. "year" \in Fields /\ "century" \in Fields /\ "year" # "century"
  BY DEF Fields
<1>5. \A f \in Fields : t[f] \in DOMAIN Instants /\ u[f] \in DOMAIN Instants
  <2>1. DOMAIN Instants = 1 .. Len(Instants) /\ Len(Instants) \in Nat
    <3>1. \E S : Instants \in Seq(S)
      BY ONLY InstantsAssumption, Zenon
    <3> QED BY ONLY <3>1
  <2>2. lo .. mid \subseteq DOMAIN Instants /\ mid .. hi \subseteq DOMAIN Instants
    BY <2>1
  <2> QED BY <2>2, <1>1, <1>2
<1>6. ASSUME NEW f \in Fields, Instants[t[f]][f] = Instants[u[f]][f]
      PROVE  Instants[mid][f] = Instants[u[f]][f]
  <2>1. t[f] \in lo .. mid /\ u[f] \in mid .. hi
    BY <1>1, <1>2
  <2>2. /\ lo \in Nat /\ mid \in Nat /\ hi \in Nat /\ t[f] \in Nat /\ u[f] \in Nat
        /\ AttemptTicks \in Nat
    BY <1>5, InstantType, AttemptAssumption
  <2>3. t[f] <= mid /\ mid <= u[f] /\ u[f] <= t[f] + AttemptTicks
    BY <2>1, <2>2
  <2>4. Instants[mid][f] = Instants[t[f]][f]
    BY <1>5, <1>6, <2>3, AttemptAssumption
  <2> QED BY <1>6, <2>4
<1>7. \A f \in Fields \ {"century", "year"} : B[f] = Instants[mid][f]
  BY <1>1, <1>2, <1>3, <1>6 DEF TakenAt
<1>8. /\ Instants[t["century"]]["century"] = Instants[u["century"]]["century"]
      /\ Instants[t["year"]]["year"] = Instants[u["year"]]["year"]
  <2> DEFINE c == Instants[t["century"]]["century"]
             y == Instants[t["year"]]["year"]
             d == Instants[u["century"]]["century"]
             z == Instants[u["year"]]["year"]
  <2>1. c \in 0 .. 99 /\ y \in 0 .. 99 /\ d \in 0 .. 99 /\ z \in 0 .. 99
    BY <1>4, <1>5, InstantType
  <2>2. c * 100 + y = d * 100 + z
    BY <1>1, <1>2, <1>3, <1>4 DEF TakenAt
  <2> HIDE DEF c, y, d, z
  <2>3. c = d /\ y = z
    BY <2>1, <2>2
  <2> QED BY <2>3 DEF c, y, d, z
<1>9. B.year = Instants[mid]["century"] * 100 + Instants[mid]["year"]
  BY <1>2, <1>4, <1>6, <1>8 DEF TakenAt
<1> QED BY <1>2, <1>7, <1>9 DEF Dated, B, TakenAt

\* The first loop of write_number makes no more digits than the number has.
LEMMA DigitsBound ==
  ASSUME NEW num \in Nat, num <= 9999
  PROVE  /\ Digits(num) \in 0 .. 4
         /\ num < 100 => Digits(num) <= 2
<1> DEFINE Ten(k) == 10^k
           Q(n) == num < Ten(n) /\ \A m \in 0 .. n - 1 : num >= Ten(m)
<1>1. Ten(0) = 1 /\ Ten(1) = 10 /\ Ten(2) = 100 /\ Ten(3) = 1000 /\ Ten(4) = 10000
  OBVIOUS
<1>0. Digits(num) = CHOOSE n \in 0 .. 10 : Q(n)
  BY DEF Digits
<1> HIDE DEF Ten
<1>2. \E n \in 0 .. 10 : Q(n)
  <2>1. CASE num < 1
    <3>1. Q(0)
      BY <1>1, <2>1
    <3> QED BY <3>1
  <2>2. CASE num >= 1 /\ num < 10
    <3>1. \A m \in 0 .. 1 - 1 : m = 0
      OBVIOUS
    <3>2. Q(1)
      BY <1>1, <2>2, <3>1
    <3> QED BY <3>2
  <2>3. CASE num >= 10 /\ num < 100
    <3>1. \A m \in 0 .. 2 - 1 : m = 0 \/ m = 1
      OBVIOUS
    <3>2. Q(2)
      BY <1>1, <2>3, <3>1
    <3> QED BY <3>2
  <2>4. CASE num >= 100 /\ num < 1000
    <3>1. \A m \in 0 .. 3 - 1 : m = 0 \/ m = 1 \/ m = 2
      OBVIOUS
    <3>2. Q(3)
      BY <1>1, <2>4, <3>1
    <3> QED BY <3>2
  <2>5. CASE num >= 1000
    <3>1. \A m \in 0 .. 4 - 1 : m = 0 \/ m = 1 \/ m = 2 \/ m = 3
      OBVIOUS
    <3>2. Q(4)
      BY <1>1, <2>5, <3>1
    <3> QED BY <3>2
  <2> HIDE DEF Q
  <2> QED BY <2>1, <2>2, <2>3, <2>4, <2>5
<1>3. Digits(num) \in 0 .. 10 /\ Q(Digits(num))
  <2> HIDE DEF Q
  <2> QED BY <1>0, <1>2
<1>4. \A m \in 0 .. Digits(num) - 1 : num >= Ten(m)
  BY <1>3
<1>5. ~(Digits(num) > 4)
  BY <1>1, <1>3, <1>4
<1>6. num < 100 => ~(Digits(num) > 2)
  BY <1>1, <1>3, <1>4
<1> QED BY <1>3, <1>5, <1>6

\* What write_number leaves in the buffer for a number of two digits
PutTwo(b, at, num) ==
  [p \in 0 .. 14 |-> IF p = at THEN num \div 10 ELSE IF p = at + 1 THEN num % 10
                     ELSE IF p = at + 2 THEN Junk ELSE b[p]]

\* write_number with two digits: one byte more is overwritten.
LEMMA WriteTwo ==
  ASSUME NEW b, DOMAIN b = 0 .. 14, NEW at \in Nat, NEW num \in Nat, num <= 99
  PROVE  write_number(b, at, num, 2) = PutTwo(b, at, num)
<1> DEFINE Ten(k) == 10^k
           n == IF Digits(num) < 2 THEN 2 ELSE Digits(num)
           v(p) == IF p \in at .. at + n - 1 THEN (num \div Ten(at + n - 1 - p)) % 10
                   ELSE IF p = at + n THEN Junk ELSE b[p]
           w(p) == IF p = at THEN num \div 10 ELSE IF p = at + 1 THEN num % 10
                   ELSE IF p = at + 2 THEN Junk ELSE b[p]
<1>0. Ten(0) = 1 /\ Ten(1) = 10
  OBVIOUS
<1>1. n = 2
  <2>1. num <= 9999 /\ num < 100
    OBVIOUS
  <2> QED BY <2>1, DigitsBound
<1>2. write_number(b, at, num, 2) = [p \in 0 .. 14 |-> v(p)]
  BY DEF write_number
<1> HIDE DEF n, Ten
<1>3. ASSUME NEW p \in 0 .. 14 PROVE v(p) = w(p)
  <2>1. CASE p = at
    <3>1. at + n - 1 - p = 1 /\ p \in at .. at + n - 1
      BY <1>1, <2>1
    <3>2. v(p) = (num \div 10) % 10
      BY <1>0, <3>1
    <3>3. (num \div 10) % 10 = num \div 10
      OBVIOUS
    <3> QED BY <3>2, <3>3, <2>1
  <2>2. CASE p = at + 1
    <3>1. at + n - 1 - p = 0 /\ p \in at .. at + n - 1
      BY <1>1, <2>2
    <3>2. v(p) = (num \div 1) % 10
      BY <1>0, <3>1
    <3>3. (num \div 1) % 10 = num % 10
      OBVIOUS
    <3> QED BY <3>2, <3>3, <2>2
  <2>3. CASE p # at /\ p # at + 1
    BY <1>1, <2>3
  <2> QED BY <2>1, <2>2, <2>3
<1> HIDE DEF v, w
<1>4. [p \in 0 .. 14 |-> v(p)] = [p \in 0 .. 14 |-> w(p)]
  BY <1>3
<1> QED BY <1>2, <1>4 DEF PutTwo, w

\* The four digits of a number, in front
YearPut(c, num) ==
  /\ DOMAIN c = 0 .. 14
  /\ c[0] = num \div 1000 /\ c[1] = (num \div 100) % 10
  /\ c[2] = (num \div 10) % 10 /\ c[3] = num % 10

\* write_number with the four digits of the year
LEMMA WriteFour ==
  ASSUME NEW b, DOMAIN b = 0 .. 14, NEW num \in Nat, num <= 9999
  PROVE  YearPut(write_number(b, 0, num, 4), num)
<1> DEFINE Ten(k) == 10^k
           n == IF Digits(num) < 4 THEN 4 ELSE Digits(num)
           v(p) == IF p \in 0 .. 0 + n - 1 THEN (num \div Ten(0 + n - 1 - p)) % 10
                   ELSE IF p = 0 + n THEN Junk ELSE b[p]
<1>0. Ten(0) = 1 /\ Ten(1) = 10 /\ Ten(2) = 100 /\ Ten(3) = 1000
  OBVIOUS
<1>1. n = 4
  BY DigitsBound
<1>2. write_number(b, 0, num, 4) = [p \in 0 .. 14 |-> v(p)]
  BY DEF write_number
<1> HIDE DEF n, Ten
<1>3. v(0) = num \div 1000
  <2>1. 0 + n - 1 - 0 = 3 /\ 0 \in 0 .. 0 + n - 1
    BY <1>1
  <2>2. v(0) = (num \div 1000) % 10
    BY <1>0, <2>1
  <2> QED BY <2>2
<1>4. v(1) = (num \div 100) % 10
  <2>1. 0 + n - 1 - 1 = 2 /\ 1 \in 0 .. 0 + n - 1
    BY <1>1
  <2>2. v(1) = (num \div 100) % 10
    BY <1>0, <2>1
  <2> QED BY <2>2
<1>5. v(2) = (num \div 10) % 10
  <2>1. 0 + n - 1 - 2 = 1 /\ 2 \in 0 .. 0 + n - 1
    BY <1>1
  <2>2. v(2) = (num \div 10) % 10
    BY <1>0, <2>1
  <2> QED BY <2>2
<1>6. v(3) = num % 10
  <2>1. 0 + n - 1 - 3 = 0 /\ 3 \in 0 .. 0 + n - 1
    BY <1>1
  <2>2. v(3) = (num \div 1) % 10
    BY <1>0, <2>1
  <2> QED BY <2>2
<1> HIDE DEF v
<1> QED BY <1>2, <1>3, <1>4, <1>5, <1>6 DEF YearPut

\* The two digits of a number
LEMMA TwoDigits ==
  ASSUME NEW n \in Nat, n <= 99
  PROVE  n \div 10 \in 0 .. 9 /\ n % 10 \in 0 .. 9 /\ 10 * (n \div 10) + (n % 10) = n
  OBVIOUS

\* Stamp and the text it is to write, number by number
StampOf(b, y, mo, d, h, mi, se) ==
  LET b1 == write_number(b, 0, y, 4)
      b2 == write_number(b1, 4, mo, 2)
      b3 == write_number(b2, 6, d, 2)
      b4 == write_number(b3, 8, h, 2)
      b5 == write_number(b4, 10, mi, 2)
  IN  [write_number(b5, 12, se, 2) EXCEPT ![14] = NUL]

ExactOf(b, y, mo, d, h, mi, se) ==
  /\ b[14] = NUL
  /\ \A p \in 0 .. 13 : b[p] \in 0 .. 9
  /\ LET Two(p) == 10 * b[p] + b[p + 1]
     IN  /\ 100 * Two(0) + Two(2) = y
         /\ Two(4) = mo /\ Two(6) = d /\ Two(8) = h /\ Two(10) = mi /\ Two(12) = se

\* The numbers have no more digits than there is room for.
InDigits(y, mo, d, h, mi, se) ==
  /\ y \in Nat /\ mo \in Nat /\ d \in Nat /\ h \in Nat /\ mi \in Nat /\ se \in Nat
  /\ y <= 9999 /\ mo <= 99 /\ d <= 99 /\ h <= 99 /\ mi <= 99 /\ se <= 99

\* The end of clock_read writes the date exactly: each number overwrites the byte
\* too many of the one before, and the terminator that of the last.
LEMMA StampExact ==
  ASSUME NEW b, DOMAIN b = 0 .. 14, NEW y, NEW mo, NEW d, NEW h, NEW mi, NEW se,
         InDigits(y, mo, d, h, mi, se)
  PROVE  /\ DOMAIN StampOf(b, y, mo, d, h, mi, se) = 0 .. 14
         /\ ExactOf(StampOf(b, y, mo, d, h, mi, se), y, mo, d, h, mi, se)
<1> DEFINE b1 == write_number(b, 0, y, 4)
           b2 == write_number(b1, 4, mo, 2)
           b3 == write_number(b2, 6, d, 2)
           b4 == write_number(b3, 8, h, 2)
           b5 == write_number(b4, 10, mi, 2)
           b6 == write_number(b5, 12, se, 2)
           s == [b6 EXCEPT ![14] = NUL]
<1> USE DEF InDigits
<1>0. \A c, at, num : DOMAIN PutTwo(c, at, num) = 0 .. 14
  BY DEF PutTwo
<1>1. YearPut(b1, y)
  BY WriteFour
<1> HIDE DEF b1
<1>2. b2 = PutTwo(b1, 4, mo)
  BY <1>1, WriteTwo DEF YearPut
<1> HIDE DEF b2
<1>3. b3 = PutTwo(b2, 6, d)
  <2>1. DOMAIN b2 = 0 .. 14
    BY <1>0, <1>2
  <2> QED BY <2>1, WriteTwo
<1> HIDE DEF b3
<1>4. b4 = PutTwo(b3, 8, h)
  <2>1. DOMAIN b3 = 0 .. 14
    BY <1>0, <1>3
  <2> QED BY <2>1, WriteTwo
<1> HIDE DEF b4
<1>5. b5 = PutTwo(b4, 10, mi)
  <2>1. DOMAIN b4 = 0 .. 14
    BY <1>0, <1>4
  <2> QED BY <2>1, WriteTwo
<1> HIDE DEF b5
<1>6. b6 = PutTwo(b5, 12, se)
  <2>1. DOMAIN b5 = 0 .. 14
    BY <1>0, <1>5
  <2> QED BY <2>1, WriteTwo
<1>7. StampOf(b, y, mo, d, h, mi, se) = s
  BY DEF StampOf, b1, b2, b3, b4, b5
<1> HIDE DEF b6
<1>8. DOMAIN s = 0 .. 14 /\ s[14] = NUL /\ \A p \in 0 .. 13 : s[p] = b6[p]
  BY <1>6 DEF PutTwo
<1> HIDE DEF s
<1>9. s[12] = se \div 10 /\ s[13] = se % 10 /\ \A p \in 0 .. 11 : s[p] = b5[p]
  BY <1>6, <1>8 DEF PutTwo
<1>10. s[10] = mi \div 10 /\ s[11] = mi % 10 /\ \A p \in 0 .. 9 : s[p] = b4[p]
  BY <1>5, <1>9 DEF PutTwo
<1>11. s[8] = h \div 10 /\ s[9] = h % 10 /\ \A p \in 0 .. 7 : s[p] = b3[p]
  BY <1>4, <1>10 DEF PutTwo
<1>12. s[6] = d \div 10 /\ s[7] = d % 10 /\ \A p \in 0 .. 5 : s[p] = b2[p]
  BY <1>3, <1>11 DEF PutTwo
<1>13. s[4] = mo \div 10 /\ s[5] = mo % 10 /\ \A p \in 0 .. 3 : s[p] = b1[p]
  BY <1>2, <1>12 DEF PutTwo
<1>14. /\ s[0] = y \div 1000 /\ s[1] = (y \div 100) % 10
       /\ s[2] = (y \div 10) % 10 /\ s[3] = y % 10
  BY <1>1, <1>13 DEF YearPut
<1>16. /\ y \div 1000 \in 0 .. 9 /\ (y \div 100) % 10 \in 0 .. 9
       /\ (y \div 10) % 10 \in 0 .. 9 /\ y % 10 \in 0 .. 9
       /\ 100 * (10 * (y \div 1000) + ((y \div 100) % 10)) + (10 * ((y \div 10) % 10) + (y % 10)) = y
  OBVIOUS
<1>17. \A p \in 0 .. 13 : s[p] \in 0 .. 9
  <2>1. \A p \in 0 .. 13 : p \in {0, 1, 2, 3} \/ p \in {4, 5, 6, 7, 8} \/ p \in {9, 10, 11, 12, 13}
    OBVIOUS
  <2>2. /\ s[0] \in 0 .. 9 /\ s[1] \in 0 .. 9 /\ s[2] \in 0 .. 9 /\ s[3] \in 0 .. 9
        /\ s[4] \in 0 .. 9 /\ s[5] \in 0 .. 9 /\ s[6] \in 0 .. 9 /\ s[7] \in 0 .. 9
    <3>1. \A n \in {mo, d} : n \div 10 \in 0 .. 9 /\ n % 10 \in 0 .. 9
      BY TwoDigits
    <3> QED BY ONLY <1>12, <1>13, <1>14, <1>16, <3>1
  <2>3. /\ s[8] \in 0 .. 9 /\ s[9] \in 0 .. 9 /\ s[10] \in 0 .. 9 /\ s[11] \in 0 .. 9
        /\ s[12] \in 0 .. 9 /\ s[13] \in 0 .. 9
    <3>1. \A n \in {h, mi, se} : n \div 10 \in 0 .. 9 /\ n % 10 \in 0 .. 9
      BY TwoDigits
    <3> QED BY ONLY <1>9, <1>10, <1>11, <3>1
  <2> QED BY <2>1, <2>2, <2>3
<1>18. /\ 10 * s[4] + s[5] = mo /\ 10 * s[6] + s[7] = d
       /\ 10 * s[8] + s[9] = h /\ 10 * s[10] + s[11] = mi
       /\ 10 * s[12] + s[13] = se
  BY <1>9, <1>10, <1>11, <1>12, <1>13, TwoDigits
<1>19. 100 * (10 * s[0] + s[1]) + (10 * s[2] + s[3]) = y
  BY <1>14, <1>16
<1>20. ExactOf(s, y, mo, d, h, mi, se)
  <2>1. /\ 0 + 1 = 1 /\ 2 + 1 = 3 /\ 4 + 1 = 5 /\ 6 + 1 = 7 /\ 8 + 1 = 9 /\ 10 + 1 = 11 /\ 12 + 1 = 13
    OBVIOUS
  <2> QED BY ONLY <1>8, <1>17, <1>18, <1>19, <2>1 DEF ExactOf
<1> QED BY <1>7, <1>8, <1>20

\* The last byte of the last take: a date that was on the clock, exactly written
LEMMA AcceptStep ==
  ASSUME ClockInv, take = "b", reg = 7, ReadB, sameclock(Converted(clock_a), Converted(clock_b')),
         clock_b' \in [Fields -> Nat],
         NEW mid \in begun .. now,
         \A f \in Fields : ReadIn(clock_a, f, begun, mid),
         \A f \in Fields : ReadIn(clock_b', f, mid, now)
  PROVE  AcceptedIsReal' /\ StampIsExact' /\ DOMAIN buf' = 0 .. 14
<1> DEFINE c == Converted(clock_b')
<1>1. /\ take' = "none" /\ rtc_clock' = c /\ buf' = Stamp(buf, c)
      /\ now' = now /\ since' = since /\ is_binary' = is_binary
  <2>1. ~(reg + 1 < Len(Registers))
    BY ONLY reg = 7 DEF Registers
  <2> QED BY <2>1, Zenon DEF ReadB
<1>2. /\ now \in DOMAIN Instants /\ begun \in DOMAIN Instants /\ mid \in DOMAIN Instants
      /\ begun <= mid /\ mid <= now /\ now <= begun + AttemptTicks /\ mid \in since .. now
  <2>1. ClockType
    BY DEF ClockInv
  <2> QED BY <2>1, ClockTimes
<1>3. DOMAIN c = Fields \ {"century"} /\ Dated(c, mid)
  <2>1. clock_a \in [Fields -> Nat]
    BY DEF ClockInv, ClockType
  <2> QED BY <1>2, <2>1, TakesAgree
<1> HIDE DEF c
<1>4. AcceptedIsReal'
  <2>1. /\ \A f \in DOMAIN rtc_clock' \ {"year"} : rtc_clock'[f] = Instants[mid][f]
        /\ rtc_clock'.year = Instants[mid].century * 100 + Instants[mid].year
    BY <1>1, <1>3 DEF Dated
  <2>2. mid \in since' .. now'
    BY <1>1, <1>2
  <2> QED BY <2>1, <2>2 DEF AcceptedIsReal
<1>5. /\ c.month \in Nat /\ c.month <= 99 /\ c.day \in Nat /\ c.day <= 99
      /\ c.hours \in Nat /\ c.hours <= 99 /\ c.minutes \in Nat /\ c.minutes <= 99
      /\ c.seconds \in Nat /\ c.seconds <= 99 /\ c.year \in Nat /\ c.year <= 9999
  <2>1. \A f \in Fields : Instants[mid][f] \in Nat /\ Instants[mid][f] <= 99
    BY ONLY <1>2, InstantType
  <2>2. \A f \in Fields \ {"century", "year"} : c[f] \in Nat /\ c[f] <= 99
    BY <1>3, <2>1 DEF Dated
  <2>3. c.year = Instants[mid]["century"] * 100 + Instants[mid]["year"]
    BY <1>3 DEF Dated
  <2>4. /\ Instants[mid]["century"] \in Nat /\ Instants[mid]["century"] <= 99
        /\ Instants[mid]["year"] \in Nat /\ Instants[mid]["year"] <= 99
    BY <2>1 DEF Fields
  <2>5. c.year \in Nat /\ c.year <= 9999
    BY <2>3, <2>4
  <2>6. {"month", "day", "hours", "minutes", "seconds"} \subseteq Fields \ {"century", "year"}
    BY DEF Fields
  <2> QED BY ONLY <2>2, <2>5, <2>6
<1>6. /\ DOMAIN buf' = 0 .. 14
      /\ ExactOf(buf', c.year, c.month, c.day, c.hours, c.minutes, c.seconds)
  <2>1. Stamp(buf, c) = StampOf(buf, c.year, c.month, c.day, c.hours, c.minutes, c.seconds)
    BY DEF Stamp, StampOf
  <2>2. DOMAIN buf = 0 .. 14
    BY DEF ClockInv, ClockType
  <2> DEFINE y == c.year
             mo == c.month
             d == c.day
             h == c.hours
             mi == c.minutes
             se == c.seconds
  <2>3. InDigits(y, mo, d, h, mi, se)
    BY <1>5 DEF InDigits
  <2>4. buf' = StampOf(buf, y, mo, d, h, mi, se)
    BY <1>1, <2>1
  <2>5. DOMAIN buf' = 0 .. 14 /\ ExactOf(buf', y, mo, d, h, mi, se)
    <3> HIDE DEF y, mo, d, h, mi, se
    <3>1. /\ DOMAIN StampOf(buf, y, mo, d, h, mi, se) = 0 .. 14
          /\ ExactOf(StampOf(buf, y, mo, d, h, mi, se), y, mo, d, h, mi, se)
      BY ONLY <2>2, <2>3, StampExact
    <3> QED BY <2>4, <3>1
  <2> QED BY <2>5
<1>7. StampIsExact'
  BY <1>1, <1>6 DEF StampIsExact, ExactOf
<1> QED BY <1>4, <1>6, <1>7

\* The first r registers of a take have been read.
FirstRead(c, r, from) == \A j \in 1 .. r : ReadIn(c, Registers[j], from, now)

\* All the registers of a take have been read.
AllRead(c, from) == \A f \in Fields : ReadIn(c, f, from, now)

OneMore(c, r) == [c EXCEPT ![Registers[r + 1]] = read_cmos(Registers[r + 1])]

\* A register is read: what was read before stays read.
LEMMA RegisterRead ==
  ASSUME NEW c \in [Fields -> Nat], NEW r \in 0 .. 7, NEW from \in Nat, from <= now,
         now \in DOMAIN Instants, FirstRead(c, r, from)
  PROVE  /\ OneMore(c, r) \in [Fields -> Nat]
         /\ FirstRead(OneMore(c, r), r + 1, from)
         /\ r = 7 => AllRead(OneMore(c, r), from)
<1> DEFINE f == Registers[r + 1]
           d == OneMore(c, r)
<1>1. \A j \in 1 .. 8 : Registers[j] \in Fields
  <2>1. \A j \in 1 .. 8 : j = 1 \/ j = 2 \/ j = 3 \/ j = 4 \/ j = 5 \/ j = 6 \/ j = 7 \/ j = 8
    OBVIOUS
  <2> QED BY <2>1 DEF Registers, Fields
<1>2. f \in Fields /\ read_cmos(f) = Shown(now, f) /\ Shown(now, f) \in Nat
  <2>1. f \in Fields
    BY <1>1
  <2> QED BY <2>1, ShownType DEF read_cmos, Shown
<1>3. d \in [Fields -> Nat] /\ d[f] = Shown(now, f) /\ \A g \in Fields : g # f => d[g] = c[g]
  <2> HIDE DEF f
  <2>1. d = [c EXCEPT ![f] = Shown(now, f)]
    BY <1>2 DEF f, OneMore
  <2>2. d \in [Fields -> Nat]
    BY <1>2, <2>1
  <2>3. d[f] = Shown(now, f)
    BY <1>2, <2>1
  <2>4. \A g \in Fields : g # f => d[g] = c[g]
    BY <1>2, <2>1
  <2> QED BY <2>2, <2>3, <2>4
<1> HIDE DEF d
<1>4. now \in from .. now
  BY InstantType
<1>5. ReadIn(d, f, from, now)
  BY <1>3, <1>4 DEF ReadIn
<1>6. ASSUME NEW j \in 1 .. r PROVE ReadIn(d, Registers[j], from, now)
  <2>1. Registers[j] \in Fields /\ ReadIn(c, Registers[j], from, now)
    BY <1>1 DEF FirstRead
  <2>2. CASE Registers[j] = f
    BY <1>5, <2>2
  <2>3. CASE Registers[j] # f
    BY <1>3, <2>1, <2>3 DEF ReadIn
  <2> QED BY <2>2, <2>3
<1>7. \A j \in 1 .. r + 1 : ReadIn(d, Registers[j], from, now)
  <2> SUFFICES ASSUME NEW j \in 1 .. r + 1 PROVE ReadIn(d, Registers[j], from, now)
    OBVIOUS
  <2>1. CASE j = r + 1
    BY <1>5, <2>1
  <2>2. CASE j # r + 1
    <3>1. j \in 1 .. r
      BY <2>2
    <3> QED BY <1>6, <3>1
  <2> QED BY <2>1, <2>2
<1>8. ASSUME r = 7, NEW g \in Fields PROVE ReadIn(d, g, from, now)
  <2>1. \E j \in 1 .. 8 : g = Registers[j]
    BY DEF Fields, Registers
  <2> QED BY <1>7, <1>8, <2>1
<1> QED BY <1>3, <1>7, <1>8 DEF FirstRead, AllRead, d

\* Time passes: what was read in a stretch of time was read in a longer one.
LEMMA ReadLater ==
  ASSUME NEW clock, NEW f, NEW lo \in Int, NEW hi \in Int, NEW to \in Int, hi <= to,
         ReadIn(clock, f, lo, hi)
  PROVE  ReadIn(clock, f, lo, to)
  BY DEF ReadIn

\* A second passes.
LEMMA TickStep == ClockInv /\ Tick => ClockInv'
<1> SUFFICES ASSUME ClockInv, Tick PROVE ClockInv'
  OBVIOUS
<1>0. ClockType /\ TakeA /\ TakeB /\ AcceptedIsReal /\ StampIsExact
  BY DEF ClockInv
<1>1. /\ UNCHANGED <<is_binary, rtc_clock, clock_a, clock_b, take, reg, buf, since, begun>>
      /\ now' = now + 1 /\ now < Len(Instants) /\ (take # "none" => now < begun + AttemptTicks)
  BY DEF Tick
<1>2. /\ DOMAIN Instants = 1 .. Len(Instants) /\ Len(Instants) \in Nat /\ AttemptTicks \in Nat
      /\ now \in Nat /\ since \in Nat /\ begun \in Nat /\ now \in 1 .. Len(Instants)
      /\ 1 <= since /\ since <= begun /\ begun <= now
  BY <1>0, ClockTimes
<1>3. /\ now' \in DOMAIN Instants /\ since' \in 1 .. now' /\ begun' \in since' .. now' /\ now' \in Nat
      /\ (take' # "none" => now' <= begun' + AttemptTicks)
  BY <1>1, <1>2
<1>4. ClockType'
  BY <1>0, <1>1, <1>3 DEF ClockType
<1>5. \A clock, f : \A i \in Nat : ReadIn(clock, f, i, now) => ReadIn(clock, f, i, now')
  BY <1>1, <1>2, ReadLater
<1>6. TakeA'
  <2> SUFFICES ASSUME take = "a", NEW j \in 1 .. reg PROVE ReadIn(clock_a, Registers[j], begun, now)'
    BY <1>1 DEF TakeA
  <2>1. ReadIn(clock_a, Registers[j], begun, now')
    BY <1>0, <1>2, <1>5 DEF TakeA
  <2> QED BY <1>1, <2>1 DEF ReadIn, Shown
<1>7. TakeB'
  <2> SUFFICES ASSUME take = "b" PROVE \E mid \in begun' .. now' : Between(mid)'
    BY <1>1 DEF TakeB
  <2>1. PICK mid \in begun .. now : Between(mid)
    BY <1>0 DEF TakeB
  <2>2. mid \in begun' .. now' /\ mid \in Nat
    BY <1>1, <1>2
  <2>3. \A f \in Fields : ReadIn(clock_a, f, begun, mid)'
    BY <1>1, <2>1 DEF Between, ReadIn, Shown
  <2>4. ASSUME NEW j \in 1 .. reg' PROVE ReadIn(clock_b, Registers[j], mid, now)'
    <3>1. ReadIn(clock_b, Registers[j], mid, now')
      BY <1>1, <1>5, <2>1, <2>2 DEF Between
    <3> QED BY <1>1, <3>1 DEF ReadIn, Shown
  <2>5. Between(mid)'
    BY <2>3, <2>4 DEF Between
  <2> QED BY <2>2, <2>5
<1>8. AcceptedIsReal'
  <2>1. since .. now \subseteq since' .. now'
    BY <1>1, <1>2
  <2> QED BY <1>0, <1>1, <2>1 DEF AcceptedIsReal, Returned
<1>9. StampIsExact'
  BY <1>0, <1>1 DEF StampIsExact, Returned
<1> QED BY <1>4, <1>6, <1>7, <1>8, <1>9 DEF ClockInv

\* clock_read begins: nothing is read, and the date before no longer counts.
LEMMA CallStep == ClockInv /\ clock_read => ClockInv'
<1> SUFFICES ASSUME ClockInv, clock_read PROVE ClockInv'
  OBVIOUS
<1>0. ClockType
  BY DEF ClockInv
<1>1. /\ UNCHANGED <<now, is_binary, rtc_clock, clock_a, clock_b, buf>>
      /\ take' = "a" /\ reg' = 0 /\ since' = now /\ begun' = now
  BY DEF clock_read
<1>2. now \in DOMAIN Instants /\ now \in Nat /\ 1 <= now /\ AttemptTicks \in Nat
  BY <1>0, ClockTimes
<1>3. now' \in DOMAIN Instants /\ since' \in 1 .. now' /\ begun' \in since' .. now'
      /\ now' <= begun' + AttemptTicks
  BY <1>1, <1>2
<1>4. ClockType'
  BY <1>0, <1>1, <1>3 DEF ClockType
<1>5. TakeA' /\ TakeB'
  BY <1>1 DEF TakeA, TakeB
<1>6. AcceptedIsReal' /\ StampIsExact'
  BY <1>1 DEF AcceptedIsReal, StampIsExact, Returned
<1> QED BY <1>4, <1>5, <1>6 DEF ClockInv

\* A register of the first take
LEMMA ReadAStep == ClockInv /\ ReadA => ClockInv'
<1> SUFFICES ASSUME ClockInv, ReadA PROVE ClockInv'
  OBVIOUS
<1>0. ClockType /\ TakeA
  BY DEF ClockInv
<1>1. /\ UNCHANGED <<now, is_binary, rtc_clock, clock_b, buf, since, begun>>
      /\ take = "a"
      /\ clock_a' = OneMore(clock_a, reg)
  BY DEF ReadA, OneMore
<1>2. now \in DOMAIN Instants /\ now \in Nat /\ begun \in Nat /\ begun <= now
  BY <1>0, ClockTimes
<1>3. /\ clock_a' \in [Fields -> Nat]
      /\ \A j \in 1 .. reg + 1 : ReadIn(clock_a', Registers[j], begun, now)
      /\ reg = 7 => \A f \in Fields : ReadIn(clock_a', f, begun, now)
  <2>1. reg \in 0 .. 7 /\ clock_a \in [Fields -> Nat]
    BY <1>0 DEF ClockType
  <2>2. FirstRead(clock_a, reg, begun)
    BY <1>0, <1>1 DEF TakeA, FirstRead
  <2>3. OneMore(clock_a, reg) \in [Fields -> Nat] /\ FirstRead(OneMore(clock_a, reg), reg + 1, begun)
        /\ (reg = 7 => AllRead(OneMore(clock_a, reg), begun))
    BY <1>2, <2>1, <2>2, RegisterRead
  <2> QED BY <1>1, <2>3 DEF FirstRead, AllRead
<1>4. \A m, f : Shown(m, f)' = Shown(m, f)
  BY <1>1 DEF Shown
<1>5. reg \in 0 .. 7 /\ Len(Registers) = 8
  BY <1>0 DEF ClockType, Registers
<1>6. take' \in {"a", "b"} /\ reg' \in 0 .. 7
  BY <1>5 DEF ReadA
<1>7. ClockType'
  BY <1>0, <1>1, <1>3, <1>6 DEF ClockType
<1>8. AcceptedIsReal' /\ StampIsExact'
  BY <1>6 DEF AcceptedIsReal, StampIsExact, Returned
<1>9. CASE reg < 7
  <2>1. take' = "a" /\ reg' = reg + 1
    BY <1>5, <1>9 DEF ReadA
  <2>2. \A j \in 1 .. reg' : ReadIn(clock_a, Registers[j], begun, now)'
    BY <1>1, <1>3, <1>4, <2>1 DEF ReadIn
  <2>3. TakeA' /\ TakeB'
    BY <2>1, <2>2 DEF TakeA, TakeB
  <2> QED BY <1>7, <1>8, <2>3 DEF ClockInv
<1>10. CASE reg = 7
  <2>1. take' = "b" /\ reg' = 0
    BY <1>5, <1>10 DEF ReadA
  <2>2. \A f \in Fields : ReadIn(clock_a, f, begun, now)'
    BY <1>1, <1>3, <1>4, <1>10 DEF ReadIn
  <2>3. now' \in begun' .. now'
    BY <1>1, <1>2
  <2>4. \E mid \in begun' .. now' : Between(mid)'
    <3>1. /\ \A f \in Fields : \E i \in begun' .. now' : clock_a'[f] = Shown(i, f)'
          /\ \A j \in 1 .. reg' : FALSE
      BY <2>1, <2>2 DEF ReadIn
    <3> QED BY <2>3, <3>1 DEF Between, ReadIn
  <2>5. TakeA' /\ TakeB'
    BY <2>1, <2>4 DEF TakeA, TakeB
  <2> QED BY <1>7, <1>8, <2>5 DEF ClockInv
<1> QED BY <1>5, <1>9, <1>10

\* A register of the second take; the last one ends the call or starts again.
LEMMA ReadBStep == ClockInv /\ ReadB => ClockInv'
<1> SUFFICES ASSUME ClockInv, ReadB PROVE ClockInv'
  OBVIOUS
<1>0. ClockType /\ TakeB
  BY DEF ClockInv
<1>1. /\ UNCHANGED <<now, is_binary, clock_a, since>>
      /\ take = "b"
      /\ clock_b' = OneMore(clock_b, reg)
  BY DEF ReadB, OneMore
<1>2. PICK mid \in begun .. now :
        /\ \A f \in Fields : ReadIn(clock_a, f, begun, mid)
        /\ \A j \in 1 .. reg : ReadIn(clock_b, Registers[j], mid, now)
  BY <1>0, <1>1 DEF TakeB, Between
<1>3. /\ now \in DOMAIN Instants /\ now \in Nat /\ begun \in Nat /\ begun <= now /\ since \in Nat
      /\ since <= begun /\ 1 <= since /\ mid \in Nat /\ mid <= now /\ begun <= mid
      /\ now <= begun + AttemptTicks /\ AttemptTicks \in Nat
  BY <1>0, <1>1, <1>2, ClockTimes
<1>4. /\ clock_b' \in [Fields -> Nat]
      /\ \A j \in 1 .. reg + 1 : ReadIn(clock_b', Registers[j], mid, now)
      /\ reg = 7 => \A f \in Fields : ReadIn(clock_b', f, mid, now)
  <2>1. FirstRead(clock_b, reg, mid)
    BY <1>2 DEF FirstRead
  <2>2. reg \in 0 .. 7 /\ clock_b \in [Fields -> Nat]
    BY <1>0 DEF ClockType
  <2>3. OneMore(clock_b, reg) \in [Fields -> Nat] /\ FirstRead(OneMore(clock_b, reg), reg + 1, mid)
        /\ (reg = 7 => AllRead(OneMore(clock_b, reg), mid))
    BY <1>3, <2>1, <2>2, RegisterRead
  <2> QED BY <1>1, <2>3 DEF FirstRead, AllRead
<1>5. \A m, f : Shown(m, f)' = Shown(m, f)
  BY <1>1 DEF Shown
<1>6. reg \in 0 .. 7 /\ Len(Registers) = 8
  BY <1>0 DEF ClockType, Registers
<1>7. CASE reg < 7
  <2>1. take' = "b" /\ reg' = reg + 1 /\ buf' = buf /\ begun' = begun
    BY <1>6, <1>7 DEF ReadB
  <2>2. reg' \in 0 .. 7
    BY <1>6, <1>7, <2>1
  <2>3. ClockType'
    BY <1>0, <1>1, <1>4, <2>1, <2>2 DEF ClockType
  <2>4. mid \in begun' .. now'
    BY <1>1, <1>2, <2>1
  <2>5. \A f \in Fields : ReadIn(clock_a, f, begun, mid)'
    BY <1>1, <1>2, <1>5, <2>1 DEF ReadIn
  <2>6. \A j \in 1 .. reg' : ReadIn(clock_b, Registers[j], mid, now)'
    BY <1>1, <1>4, <1>5, <2>1 DEF ReadIn
  <2>7. Between(mid)'
    BY <2>5, <2>6 DEF Between
  <2>8. TakeA' /\ TakeB'
    BY <2>1, <2>4, <2>7 DEF TakeA, TakeB
  <2>9. AcceptedIsReal' /\ StampIsExact'
    BY <2>1 DEF AcceptedIsReal, StampIsExact, Returned
  <2> QED BY <2>3, <2>8, <2>9 DEF ClockInv
<1>8. CASE reg = 7 /\ sameclock(Converted(clock_a), Converted(clock_b'))
  <2>1. AcceptedIsReal' /\ StampIsExact' /\ DOMAIN buf' = 0 .. 14
    BY <1>1, <1>2, <1>4, <1>8, AcceptStep
  <2>2. take' = "none" /\ reg' = 0 /\ begun' = begun
    BY <1>6, <1>8 DEF ReadB
  <2>3. ClockType'
    BY <1>0, <1>1, <1>4, <2>1, <2>2 DEF ClockType
  <2>4. TakeA' /\ TakeB'
    BY <2>2 DEF TakeA, TakeB
  <2> QED BY <2>1, <2>3, <2>4 DEF ClockInv
<1>9. CASE reg = 7 /\ ~sameclock(Converted(clock_a), Converted(clock_b'))
  <2>1. take' = "a" /\ reg' = 0 /\ begun' = now /\ buf' = buf
    BY <1>6, <1>9 DEF ReadB
  <2>2. since' \in 1 .. now' /\ begun' \in since' .. now' /\ now' <= begun' + AttemptTicks
    BY <1>1, <1>3, <2>1
  <2>3. ClockType'
    BY <1>0, <1>1, <1>4, <2>1, <2>2 DEF ClockType
  <2>4. TakeA' /\ TakeB'
    BY <2>1 DEF TakeA, TakeB
  <2>5. AcceptedIsReal' /\ StampIsExact'
    BY <2>1 DEF AcceptedIsReal, StampIsExact, Returned
  <2> QED BY <2>3, <2>4, <2>5 DEF ClockInv
<1> QED BY <1>6, <1>7, <1>8, <1>9

\* The invariant of the clock holds throughout.
LEMMA ClockInvariant == ClockSpec => []ClockInv
<1>1. ClockInit => ClockInv
  <2> SUFFICES ASSUME ClockInit PROVE ClockInv
    OBVIOUS
  <2>1. /\ now = 1 /\ since = 1 /\ begun = 1 /\ take = "none" /\ reg = 0
        /\ clock_a = Zeros /\ clock_b = Zeros /\ is_binary \in BinaryModes
        /\ buf = [p \in 0 .. 14 |-> Junk]
    BY DEF ClockInit
  <2>2. 1 \in DOMAIN Instants
    BY InstantsAssumption
  <2>3. is_binary \in BOOLEAN
    BY <2>1, InstantsAssumption
  <2>4. Zeros \in [Fields -> Nat]
    BY DEF Zeros
  <2>5. buf[0] = Junk /\ DOMAIN buf = 0 .. 14
    BY <2>1
  <2>6. AcceptedIsReal /\ StampIsExact
    BY <2>5 DEF AcceptedIsReal, StampIsExact, Returned
  <2>7. ClockType
    BY <2>1, <2>2, <2>3, <2>4, <2>5 DEF ClockType
  <2>8. TakeA /\ TakeB
    BY <2>1 DEF TakeA, TakeB
  <2> QED BY <2>6, <2>7, <2>8 DEF ClockInv
<1>2. ClockInv /\ [ClockNext]_clockVars => ClockInv'
  <2>1. ASSUME ClockInv, UNCHANGED clockVars PROVE ClockInv'
    <3>1. ClockType'
      BY <2>1 DEF ClockInv, ClockType, clockVars
    <3>2. TakeA' /\ TakeB'
      <4>1. /\ TakeA /\ TakeB
            /\ UNCHANGED <<now, is_binary, clock_a, clock_b, take, reg, begun>>
        BY <2>1 DEF ClockInv, clockVars
      <4>2. \A m, f : Shown(m, f)' = Shown(m, f)
        BY <4>1 DEF Shown
      <4>3. \A mid : Between(mid) => Between(mid)'
        BY <4>1, <4>2 DEF Between, ReadIn
      <4>4. TakeA'
        BY <4>1, <4>2 DEF TakeA, ReadIn
      <4>5. TakeB'
        BY <4>1, <4>3 DEF TakeB
      <4> QED BY <4>4, <4>5
    <3>3. AcceptedIsReal' /\ StampIsExact'
      BY <2>1 DEF ClockInv, AcceptedIsReal, StampIsExact, Returned, clockVars
    <3> QED BY <3>1, <3>2, <3>3 DEF ClockInv
  <2> QED BY <2>1, TickStep, CallStep, ReadAStep, ReadBStep DEF ClockNext
<1> QED BY <1>1, <1>2, PTL DEF ClockSpec

\* The date that clock_read returns was on the clock at one moment of the call,
\* for every course of the clock on which no register comes back to a value
\* within the time of two takes, in both codings of the chip.
THEOREM ClockAcceptedIsReal == ClockSpec => []AcceptedIsReal
<1>1. ClockInv => AcceptedIsReal
  BY DEF ClockInv
<1> QED BY <1>1, ClockInvariant, PTL

\* The text that clock_read returns is the date, digit for digit, with its
\* terminator behind it.
THEOREM ClockStampIsExact == ClockSpec => []StampIsExact
<1>1. ClockInv => StampIsExact
  BY DEF ClockInv
<1> QED BY <1>1, ClockInvariant, PTL

=============================================================================
