--------------------------- MODULE DriverProofs -----------------------------
(***************************************************************************)
(* What a ring of any size holds, and what that means for the two drivers  *)
(* that have one: the keyboard, for every place at which an interrupt may  *)
(* come, and the serial port, for every sequence of opens, closes, reads   *)
(* and interrupts.                                                         *)
(***************************************************************************)
EXTENDS Keyboard, Uart, TLAPS

----------------------------------------------------------------------------
(* The ring *)

\* The slot p, counted on past the end of the buffer.
Wrap(p, size) == IF p < size THEN p ELSE p - size

\* The slots from r up to w hold the bytes of q.
HoldsAt(size, r, w, bytes, q) ==
  /\ w = Wrap(r + Len(q), size)
  /\ Len(q) <= size
  /\ \A i \in 1 .. Len(q) : q[i] = bytes[Wrap(r + i - 1, size)]

\* The ring holds q; with equal pointers, RINGBUF_FUL tells full from empty.
Holds(rb, q) ==
  /\ HoldsAt(rb.size, rb.readptr, rb.writeptr, rb.buffer, q)
  /\ rb.writeptr = rb.readptr => (rb.ful <=> q # <<>>)

\* Wrap is the remainder, for one turn.
LEMMA WrapIsMod ==
  ASSUME NEW size \in Nat \ {0}, NEW p \in Nat, p < 2 * size
  PROVE  p % size = Wrap(p, size)
BY DEF Wrap

\* The difference of two slots is taken modulo the size.
LEMMA GapIsMod ==
  ASSUME NEW size \in Nat \ {0}, NEW r \in 0 .. size - 1, NEW w \in 0 .. size - 1
  PROVE  (w - r) % size = IF w < r THEN w - r + size ELSE w - r
OBVIOUS

\* A write into a slot behind the bytes adds one.
LEMMA Put ==
  ASSUME NEW size \in Nat \ {0}, NEW B, NEW r \in 0 .. size - 1, NEW w \in 0 .. size - 1,
         NEW bytes \in [0 .. size - 1 -> B], NEW q \in Seq(B), NEW b \in B,
         HoldsAt(size, r, w, bytes, q), Len(q) < size
  PROVE  HoldsAt(size, r, Advance(w, size), [bytes EXCEPT ![w] = b], Append(q, b))
<1> DEFINE q2 == Append(q, b)
<1>1. Len(q2) = Len(q) + 1 /\ \A i \in 1 .. Len(q) : q2[i] = q[i]
  OBVIOUS
<1>2. q2[Len(q) + 1] = b
  OBVIOUS
<1>3. Len(q) \in Nat
  OBVIOUS
<1> HIDE DEF q2
<1>4. Advance(w, size) = Wrap(r + Len(q2), size)
  <2>1. w = Wrap(r + Len(q), size) /\ Len(q) < size
    BY DEF HoldsAt
  <2>2. size \in Nat /\ r \in Nat /\ w \in Nat /\ r < size /\ w < size
    OBVIOUS
  <2>3. Advance(w, size) = Wrap(r + (Len(q) + 1), size)
    BY ONLY <1>3, <2>1, <2>2 DEF Advance, Wrap
  <2> QED BY ONLY <1>1, <2>3
<1>5. ASSUME NEW i \in 1 .. Len(q2)
      PROVE  q2[i] = [bytes EXCEPT ![w] = b][Wrap(r + i - 1, size)]
  <2>1. CASE i = Len(q) + 1
    BY <2>1, <1>2, <1>3 DEF HoldsAt, Wrap
  <2>2. CASE i # Len(q) + 1
    <3>1. i \in 1 .. Len(q) /\ Wrap(r + i - 1, size) \in 0 .. size - 1
      BY <2>2, <1>1, <1>3 DEF Wrap
    <3>2. Wrap(r + i - 1, size) # w
      <4> DEFINE n == Len(q)
      <4>1. w = Wrap(r + n, size) /\ n \in Nat /\ n < size /\ i \in 1 .. n
        BY <3>1, <1>3 DEF HoldsAt
      <4> HIDE DEF n
      <4> QED
        BY <4>1 DEF Wrap
    <3> QED
      BY <3>1, <3>2, <1>1 DEF HoldsAt
  <2> QED
    BY <2>1, <2>2
<1> QED
  BY <1>1, <1>3, <1>4, <1>5 DEF HoldsAt, q2

\* To step over the first slot takes the oldest byte away.
LEMMA Drop ==
  ASSUME NEW size \in Nat \ {0}, NEW B, NEW r \in 0 .. size - 1, NEW w \in 0 .. size - 1,
         NEW bytes \in [0 .. size - 1 -> B], NEW q \in Seq(B),
         HoldsAt(size, r, w, bytes, q), q # <<>>
  PROVE  HoldsAt(size, Advance(r, size), w, bytes, Tail(q))
<1> DEFINE q2 == Tail(q)
<1>1. Len(q2) = Len(q) - 1 /\ Len(q) \in Nat \ {0} /\ \A i \in 1 .. Len(q2) : q2[i] = q[i + 1]
  OBVIOUS
<1> HIDE DEF q2
<1>2. w = Wrap(Advance(r, size) + Len(q2), size) /\ Len(q2) <= size
  BY <1>1 DEF HoldsAt, Advance, Wrap
<1>3. ASSUME NEW i \in 1 .. Len(q2)
      PROVE  q2[i] = bytes[Wrap(Advance(r, size) + i - 1, size)]
  <2>1. i + 1 \in 1 .. Len(q) /\ Wrap(Advance(r, size) + i - 1, size) = Wrap(r + (i + 1) - 1, size)
    BY <1>1 DEF HoldsAt, Advance, Wrap
  <2> QED
    BY <2>1, <1>1 DEF HoldsAt
<1> QED
  BY <1>2, <1>3 DEF HoldsAt, q2

\* Contents computes what the ring holds.
LEMMA HoldsIsContents ==
  ASSUME NEW size \in Nat \ {0}, NEW B, NEW rb \in Ring(size, B), rb.readptr < size,
         NEW q \in Seq(B), Holds(rb, q)
  PROVE  Contents(rb) = q /\ Count(rb) = Len(q)
<1>1. /\ rb.size = size /\ rb.readptr \in 0 .. size - 1 /\ rb.writeptr \in 0 .. size - 1
      /\ rb.ful \in BOOLEAN
  BY DEF Ring
<1>2. Len(q) \in 0 .. size /\ (q = <<>> <=> Len(q) = 0)
  BY <1>1 DEF Holds, HoldsAt
<1>3. Count(rb) = Len(q)
  <2>1. CASE rb.writeptr = rb.readptr
    <3>1. Len(q) \in {0, size}
      BY <2>1, <1>1, <1>2 DEF Holds, HoldsAt, Wrap
    <3> QED
      BY <2>1, <3>1, <1>1, <1>2 DEF Holds, Count
  <2>2. CASE rb.writeptr # rb.readptr
    <3>1. Len(q) = IF rb.writeptr < rb.readptr THEN rb.writeptr - rb.readptr + size
                   ELSE rb.writeptr - rb.readptr
      BY <2>2, <1>1, <1>2 DEF Holds, HoldsAt, Wrap
    <3> QED
      BY <2>2, <3>1, <1>1, GapIsMod DEF Count
  <2> QED
    BY <2>1, <2>2
<1>4. ASSUME NEW i \in 1 .. Len(q)
      PROVE  rb.buffer[(rb.readptr + i - 1) % rb.size] = q[i]
  <2>1. rb.readptr + i - 1 \in Nat /\ rb.readptr + i - 1 < 2 * size
    BY <1>1, <1>2
  <2>2. (rb.readptr + i - 1) % size = Wrap(rb.readptr + i - 1, size)
    <3> DEFINE x == rb.readptr + i - 1
    <3>1. x \in Nat /\ x < 2 * size /\ size \in Nat \ {0}
      BY <2>1
    <3> HIDE DEF x
    <3>2. x % size = Wrap(x, size)
      BY ONLY <3>1, WrapIsMod
    <3> QED BY ONLY <3>2 DEF x
  <2> QED
    BY <2>2, <1>1 DEF Holds, HoldsAt
<1>5. q = [i \in 1 .. Len(q) |-> q[i]]
  OBVIOUS
<1> QED
  BY <1>3, <1>4, <1>5 DEF Contents

\* A ring between two calls: RINGBUF_FUL is set with equal pointers only.
AtRest(rb, size, B) ==
  /\ rb \in Ring(size, B)
  /\ rb.readptr < size
  /\ rb.ful => rb.writeptr = rb.readptr

\* ringbuf_write adds the byte, and drops the oldest one if the ring is full.
LEMMA WriteHolds ==
  ASSUME NEW size \in Nat \ {0}, NEW B, NEW rb, AtRest(rb, size, B),
         NEW q \in Seq(B), Holds(rb, q), NEW b \in B
  PROVE  /\ AtRest(ringbuf_write(rb, b), size, B)
         /\ Holds(ringbuf_write(rb, b), Append(IF Len(q) = size THEN Tail(q) ELSE q, b))
         /\ Overflows(rb) <=> Len(q) = size
<1> DEFINE keep == IF Len(q) = size THEN Tail(q) ELSE q
           read == IF Overflows(rb) THEN Advance(rb.readptr, size) ELSE rb.readptr
           write == Advance(rb.writeptr, size)
           rb2 == ringbuf_write(rb, b)
<1>1. /\ rb.size = size /\ rb.readptr \in 0 .. size - 1 /\ rb.writeptr \in 0 .. size - 1
      /\ rb.ful \in BOOLEAN /\ rb.ovf \in BOOLEAN /\ rb.buffer \in [0 .. size - 1 -> B]
  BY DEF AtRest, Ring
<1>2. Len(q) \in 0 .. size /\ (q = <<>> <=> Len(q) = 0)
  BY <1>1 DEF Holds, HoldsAt
<1>3. Overflows(rb) <=> Len(q) = size
  <2>1. rb.writeptr = rb.readptr <=> Len(q) \in {0, size}
    BY <1>1, <1>2 DEF Holds, HoldsAt, Wrap
  <2> QED
    BY <2>1, <1>1, <1>2 DEF Overflows, Holds
<1>4. /\ rb2.size = size /\ rb2.readptr = read /\ rb2.writeptr = write
      /\ rb2.buffer = [rb.buffer EXCEPT ![rb.writeptr] = b]
      /\ rb2.ful = (rb.ful \/ write = read)
      /\ rb2 \in Ring(size, B)
  <2>1. rb2 = [rb EXCEPT !.ovf = @ \/ Overflows(rb), !.readptr = read,
                         !.buffer[rb.writeptr] = b, !.writeptr = write,
                         !.ful = @ \/ write = read]
    BY <1>1 DEF ringbuf_write
  <2>2. read \in 0 .. size - 1 /\ write \in 0 .. size - 1 /\ Overflows(rb) \in BOOLEAN
    BY <1>1 DEF Advance, Overflows
  <2>3. [rb.buffer EXCEPT ![rb.writeptr] = b] \in [0 .. size - 1 -> B]
    BY <1>1
  <2> HIDE DEF read, write, rb2
  <2>4. rb \in Ring(size, B)
    BY DEF AtRest
  <2>5. /\ rb2.size = size /\ rb2.readptr = read /\ rb2.writeptr = write
        /\ rb2.buffer = [rb.buffer EXCEPT ![rb.writeptr] = b]
        /\ rb2.ful = (rb.ful \/ write = read)
    BY ONLY <2>1, <2>4, <1>1 DEF Ring
  <2>6. rb2 \in Ring(size, B)
    <3> DEFINE ovf == rb.ovf \/ Overflows(rb)
               ful == rb.ful \/ write = read
               buffer == [rb.buffer EXCEPT ![rb.writeptr] = b]
    <3>1. rb2 = [rb EXCEPT !.ovf = ovf, !.readptr = read, !.buffer = buffer,
                           !.writeptr = write, !.ful = ful]
      BY ONLY <2>1, <2>4 DEF Ring
    <3>2. ovf \in BOOLEAN /\ ful \in BOOLEAN /\ read \in 0 .. size
      BY ONLY <2>2
    <3> HIDE DEF ovf, ful, buffer
    <3> QED BY ONLY <2>2, <2>3, <2>4, <3>1, <3>2 DEF Ring, buffer
  <2> QED BY ONLY <2>5, <2>6
<1>5. read \in 0 .. size - 1 /\ write \in 0 .. size - 1
  BY <1>1 DEF Advance
<1>6. rb2.ful => write = read
  BY <1>1, <1>4 DEF AtRest, Overflows
<1>7. keep \in Seq(B) /\ Len(keep) < size /\ HoldsAt(size, read, rb.writeptr, rb.buffer, keep)
  <2>1. CASE Len(q) = size
    <3>1. q # <<>> /\ HoldsAt(size, rb.readptr, rb.writeptr, rb.buffer, q)
      BY <2>1, <1>1, <1>2 DEF Holds
    <3>2. HoldsAt(size, Advance(rb.readptr, size), rb.writeptr, rb.buffer, Tail(q))
      BY <3>1, <1>1, Drop
    <3>3. Tail(q) \in Seq(B) /\ Len(Tail(q)) = Len(q) - 1
      BY <3>1
    <3> QED
      BY <2>1, <3>2, <3>3, <1>3
  <2>2. CASE Len(q) # size
    BY <2>2, <1>1, <1>2, <1>3 DEF Holds
  <2> QED
    BY <2>1, <2>2
<1> HIDE DEF keep, read, write
<1>8. HoldsAt(size, read, write, rb2.buffer, Append(keep, b))
  <2>1. HoldsAt(size, read, Advance(rb.writeptr, size), [rb.buffer EXCEPT ![rb.writeptr] = b],
                Append(keep, b))
    BY <1>1, <1>5, <1>7, Put
  <2> QED
    BY <2>1, <1>4 DEF write
<1>9. Append(keep, b) # <<>>
  BY <1>7
<1>10. Holds(rb2, Append(keep, b))
  BY <1>4, <1>8, <1>9, <1>1 DEF Holds
<1> QED
  BY <1>3, <1>4, <1>5, <1>6, <1>10 DEF AtRest, keep

----------------------------------------------------------------------------
(* The ring at every step of a ringbuf_read, with g in its register *)

\* A pointer past the end is about to be wrapped.
Fits(size, B, rb, at, g) ==
  /\ rb \in Ring(size, B)
  /\ g \in 0 .. size
  /\ rb.readptr = size => at = "wrap" /\ g = size
  /\ at = "byte" => g < size

\* The read pointer as the ringbuf_read in progress will leave it
Front(size, rb, at, g) ==
  CASE at = "load"  -> Advance(rb.readptr, size)
    [] at = "store" -> Wrap(g, size)
    [] at = "wrap"  -> Wrap(rb.readptr, size)
    [] OTHER        -> rb.readptr

\* From Front on, the ring holds q.  Inside a read, RINGBUF_FUL is set with one slot
\* free, the one that is being read.
Whole(size, rb, at, g, q) ==
  /\ HoldsAt(size, Front(size, rb, at, g), rb.writeptr, rb.buffer, q)
  /\ at \notin Reading =>
       /\ rb.ful => rb.writeptr = rb.readptr
       /\ rb.writeptr = rb.readptr => (rb.ful <=> q # <<>>)
  /\ at \in Reading =>
       /\ Len(q) < size
       /\ rb.ful => Len(q) = size - 1
  /\ at \in {"index", "byte"} => q # <<>>
  /\ at = "byte" => g = rb.readptr
  /\ at = "store" => g = rb.readptr + 1
  /\ at = "wrap" => g = rb.readptr

\* The fields of such a ring
LEMMA RingFacts ==
  ASSUME NEW size \in Nat \ {0}, NEW B, NEW rb, NEW at, NEW g, Fits(size, B, rb, at, g)
  PROVE  /\ rb \in Ring(size, B) /\ rb.size = size
         /\ rb.readptr \in 0 .. size /\ rb.writeptr \in 0 .. size - 1
         /\ rb.readptr = size => at = "wrap"
         /\ rb.ful \in BOOLEAN /\ rb.ovf \in BOOLEAN
         /\ rb.buffer \in [0 .. size - 1 -> B]
         /\ g \in 0 .. size
BY DEF Fits, Ring

\* Front is a slot.
LEMMA FrontIsSlot ==
  ASSUME NEW size \in Nat \ {0}, NEW B, NEW rb, NEW at, NEW g, Fits(size, B, rb, at, g)
  PROVE  /\ Front(size, rb, at, g) \in 0 .. size - 1
         /\ at # "wrap" => rb.readptr \in 0 .. size - 1
<1>1. rb.readptr \in 0 .. size /\ g \in 0 .. size /\ (rb.readptr = size => at = "wrap")
  BY RingFacts
<1>2. CASE at \in {"load", "store", "wrap"}
  BY ONLY <1>1, <1>2, size \in Nat \ {0} DEF Front, Advance, Wrap
<1>3. CASE at \notin {"load", "store", "wrap"}
  BY ONLY <1>1, <1>3, size \in Nat \ {0} DEF Front
<1> QED BY ONLY <1>1, <1>2, <1>3, size \in Nat \ {0}

\* The types of what ringbuf_write leaves
LEMMA WriteFits ==
  ASSUME NEW size \in Nat \ {0}, NEW B, NEW rb, NEW at, NEW g, Fits(size, B, rb, at, g), NEW b \in B
  PROVE  Fits(size, B, ringbuf_write(rb, b), at, g)
<1> DEFINE read == IF Overflows(rb) THEN Advance(rb.readptr, rb.size) ELSE rb.readptr
           write == Advance(rb.writeptr, rb.size)
           buffer == [rb.buffer EXCEPT ![rb.writeptr] = b]
           ovf == rb.ovf \/ Overflows(rb)
           ful == rb.ful \/ write = read
           rb2 == ringbuf_write(rb, b)
<1>1. /\ rb.size = size /\ rb.readptr \in 0 .. size /\ rb.writeptr \in 0 .. size - 1
      /\ rb.ful \in BOOLEAN /\ rb.ovf \in BOOLEAN /\ rb.buffer \in [0 .. size - 1 -> B]
      /\ rb \in Ring(size, B)
  BY RingFacts
<1>2. rb2 = [rb EXCEPT !.ovf = ovf, !.readptr = read, !.buffer = buffer, !.writeptr = write,
                       !.ful = ful]
  BY <1>1 DEF ringbuf_write, Ring
<1>3. /\ read \in 0 .. size /\ write \in 0 .. size - 1 /\ ovf \in BOOLEAN /\ ful \in BOOLEAN
      /\ read = size => rb.readptr = size
  BY <1>1 DEF Advance, Overflows
<1>4. buffer \in [0 .. size - 1 -> B]
  BY <1>1
<1> HIDE DEF read, write, rb2, buffer, ovf, ful
<1>5. rb2 \in Ring(size, B) /\ rb2.readptr = read
  BY ONLY <1>1, <1>2, <1>3, <1>4 DEF Ring
<1> QED
  BY <1>3, <1>5 DEF rb2, Fits

\* The fields of the ring that ringbuf_read's stores leave
LEMMA StoreTypes ==
  ASSUME NEW size \in Nat \ {0}, NEW B, NEW rb \in Ring(size, B), NEW r \in 0 .. size
  PROVE  /\ StoreNext(rb, r) \in Ring(size, B)
         /\ StoreNext(rb, r).readptr = r
         /\ StoreNext(rb, r).writeptr = rb.writeptr /\ StoreNext(rb, r).size = size
         /\ StoreNext(rb, r).buffer = rb.buffer /\ StoreNext(rb, r).ful = rb.ful
BY DEF StoreNext, Ring

\* The fields of the ring when its status is cleared
LEMMA ClearTypes ==
  ASSUME NEW size \in Nat \ {0}, NEW B, NEW rb \in Ring(size, B)
  PROVE  /\ ClearStatus(rb) \in Ring(size, B)
         /\ ClearStatus(rb).readptr = rb.readptr /\ ClearStatus(rb).writeptr = rb.writeptr
         /\ ClearStatus(rb).size = size /\ ClearStatus(rb).buffer = rb.buffer
         /\ ~ClearStatus(rb).ful
BY DEF ClearStatus, Ring

\* The test for the end of the buffer
LEMMA WrapTypes ==
  ASSUME NEW size \in Nat \ {0}, NEW B, NEW rb \in Ring(size, B), NEW next \in 0 .. size
  PROVE  /\ WrapNext(rb, next) \in Ring(size, B)
         /\ WrapNext(rb, next).writeptr = rb.writeptr
         /\ WrapNext(rb, next).buffer = rb.buffer /\ WrapNext(rb, next).ful = rb.ful
         /\ WrapNext(rb, next).readptr = IF next = size THEN 0 ELSE rb.readptr
<1>1. rb.size = size /\ 0 \in 0 .. size
  BY DEF Ring
<1>2. CASE next = size
  <2>1. WrapNext(rb, next) = StoreNext(rb, 0)
    BY <1>1, <1>2 DEF WrapNext, StoreNext
  <2> QED
    BY <1>1, <1>2, <2>1, StoreTypes
<1>3. CASE next # size
  <2>1. WrapNext(rb, next) = rb
    BY <1>1, <1>3 DEF WrapNext
  <2> QED
    BY <1>3, <2>1
<1> QED
  BY <1>2, <1>3

\* The reader's steps keep the types, torn or not.
LEMMA StepFits ==
  ASSUME NEW size \in Nat \ {0}, NEW B, NEW rb, NEW at, NEW g, Fits(size, B, rb, at, g)
  PROVE  /\ at = "index" => Fits(size, B, rb, "byte", ReadIndex(rb))
         /\ at = "byte" => Fits(size, B, rb, "load", g)
         /\ at = "load" => Fits(size, B, rb, "store", ReadNext(rb))
         /\ at = "store" => Fits(size, B, StoreNext(rb, g), "wrap", g)
         /\ at = "wrap" => Fits(size, B, WrapNext(rb, g), "clear", g)
         /\ at = "clear" => Fits(size, B, ClearStatus(rb), "test", 0)
<1>1. /\ rb \in Ring(size, B) /\ rb.readptr \in 0 .. size /\ g \in 0 .. size
      /\ rb.readptr = size => at = "wrap" /\ g = size
  BY RingFacts DEF Fits
<1>2. ASSUME at = "index" PROVE Fits(size, B, rb, "byte", ReadIndex(rb))
  BY <1>1, <1>2 DEF Fits, ReadIndex
<1>3. ASSUME at = "byte" PROVE Fits(size, B, rb, "load", g)
  BY <1>1, <1>3 DEF Fits
<1>4. ASSUME at = "load" PROVE Fits(size, B, rb, "store", ReadNext(rb))
  BY <1>1, <1>4 DEF Fits, ReadNext
<1>5. ASSUME at = "store" PROVE Fits(size, B, StoreNext(rb, g), "wrap", g)
  <2>1. StoreNext(rb, g) \in Ring(size, B) /\ StoreNext(rb, g).readptr = g
    BY ONLY <1>1, size \in Nat \ {0}, StoreTypes
  <2> QED BY ONLY <1>1, <2>1 DEF Fits
<1>6. ASSUME at = "wrap" PROVE Fits(size, B, WrapNext(rb, g), "clear", g)
  <2>1. /\ WrapNext(rb, g) \in Ring(size, B)
        /\ WrapNext(rb, g).readptr = IF g = size THEN 0 ELSE rb.readptr
    BY ONLY <1>1, size \in Nat \ {0}, WrapTypes
  <2>2. WrapNext(rb, g).readptr # size
    BY ONLY <1>1, <2>1, size \in Nat \ {0}
  <2> QED BY <1>1, <2>1, <2>2 DEF Fits
<1>7. ASSUME at = "clear" PROVE Fits(size, B, ClearStatus(rb), "test", 0)
  <2>1. ClearStatus(rb) \in Ring(size, B) /\ ClearStatus(rb).readptr # size /\ 0 \in 0 .. size
    BY <1>1, <1>7, ClearTypes
  <2> QED BY <2>1 DEF Fits
<1> QED BY <1>2, <1>3, <1>4, <1>5, <1>6, <1>7

\* What is added when the handler writes
Received(q, size, b) == Append(IF Len(q) = size THEN Tail(q) ELSE q, b)

LEMMA ReceivedTypes ==
  ASSUME NEW size \in Nat \ {0}, NEW B, NEW q \in Seq(B), NEW b \in B
  PROVE  Received(q, size, b) \in Seq(B) /\ Received(q, size, b) # <<>>
<1>1. q # <<>> => Tail(q) \in Seq(B)
  OBVIOUS
<1>2. Len(q) = size => q # <<>>
  OBVIOUS
<1> DEFINE keep == IF Len(q) = size THEN Tail(q) ELSE q
<1>3. keep \in Seq(B)
  BY <1>1, <1>2
<1> HIDE DEF keep
<1>4. Append(keep, b) \in Seq(B) /\ Append(keep, b) # <<>>
  BY ONLY <1>3, b \in B
<1> QED BY <1>4 DEF keep, Received

\* Between reads the handler writes to a ring at rest.
LEMMA HandlerAtRest ==
  ASSUME NEW size \in Nat \ {0}, NEW B, NEW rb, NEW at, NEW g, Fits(size, B, rb, at, g),
         NEW q \in Seq(B), Whole(size, rb, at, g, q), NEW b \in B,
         at \notin Reading, ~Tears(at, Len(q), size)
  PROVE  Whole(size, ringbuf_write(rb, b), at, g, Received(q, size, b))
<1> DEFINE rb2 == ringbuf_write(rb, b)
           q2 == Received(q, size, b)
<1>0. Front(size, rb, at, g) = rb.readptr /\ Front(size, rb2, at, g) = rb2.readptr
  BY DEF Front, Reading
<1>1. rb \in Ring(size, B) /\ rb.size = size /\ rb.readptr \in 0 .. size - 1
  <2>1. at # "wrap"
    BY DEF Reading
  <2>2. rb.readptr \in 0 .. size - 1
    BY <2>1, FrontIsSlot
  <2>3. rb \in Ring(size, B) /\ rb.size = size
    BY RingFacts
  <2> QED BY <2>2, <2>3
<1>2. /\ HoldsAt(size, rb.readptr, rb.writeptr, rb.buffer, q)
      /\ rb.ful => rb.writeptr = rb.readptr
      /\ rb.writeptr = rb.readptr => (rb.ful <=> q # <<>>)
  BY <1>0, Zenon DEF Whole
<1>3. AtRest(rb, size, B) /\ Holds(rb, q)
  BY <1>1, <1>2 DEF AtRest, Holds
<1>4. AtRest(rb2, size, B) /\ Holds(rb2, q2) /\ (Overflows(rb) <=> Len(q) = size)
  BY ONLY <1>3, size \in Nat \ {0}, q \in Seq(B), b \in B, WriteHolds DEF Received
<1>5. q2 # <<>>
  BY ReceivedTypes
<1>6. at = "byte" => g = rb2.readptr
  <2> SUFFICES ASSUME at = "byte" PROVE g = rb2.readptr
    OBVIOUS
  <2>1. Len(q) # size /\ g = rb.readptr
    BY DEF Tears, Whole
  <2>2. ~Overflows(rb)
    BY <1>4, <2>1
  <2>3. rb2.readptr = rb.readptr
    BY <1>1, <2>2 DEF ringbuf_write, Ring
  <2> QED BY <2>1, <2>3
<1>7. rb2.size = size
  BY <1>4 DEF AtRest, Ring
<1> HIDE DEF rb2, q2
<1>8. /\ HoldsAt(size, Front(size, rb2, at, g), rb2.writeptr, rb2.buffer, q2)
      /\ rb2.ful => rb2.writeptr = rb2.readptr
      /\ rb2.writeptr = rb2.readptr => (rb2.ful <=> q2 # <<>>)
  BY <1>0, <1>4, <1>7 DEF Holds, AtRest
<1>9. at # "store" /\ at # "wrap"
  BY DEF Reading
<1> QED
  BY <1>5, <1>6, <1>8, <1>9 DEF Whole, rb2, q2

\* A write that reaches the slot being read leaves no other slot.
LEMMA OneSlotLeft ==
  ASSUME NEW size \in Nat \ {0}, NEW r \in 0 .. size - 1, NEW n \in Nat, n < size - 1, NEW w,
         w = Wrap(Advance(r, size) + n, size), Advance(w, size) = r
  PROVE  n + 1 = size - 1
BY DEF Wrap, Advance

LEMMA MoreSlotsLeft ==
  ASSUME NEW size \in Nat \ {0}, NEW r \in 0 .. size, NEW n \in Nat, n < size - 1, NEW w,
         w = Wrap(Wrap(r, size) + n, size)
  PROVE  Advance(w, size) # r
BY DEF Wrap, Advance

\* Inside a read the handler finds a slot behind the bytes, and one more.
LEMMA HandlerInRead ==
  ASSUME NEW size \in Nat \ {0}, NEW B, NEW rb, NEW at, NEW g, Fits(size, B, rb, at, g),
         NEW q \in Seq(B), Whole(size, rb, at, g, q), NEW b \in B,
         at \in Reading, ~Tears(at, Len(q), size)
  PROVE  Whole(size, ringbuf_write(rb, b), at, g, Received(q, size, b))
<1> DEFINE rb2 == ringbuf_write(rb, b)
           q2 == Received(q, size, b)
           n == Len(q)
           front == Front(size, rb, at, g)
<1>0. /\ rb.size = size /\ rb.readptr \in 0 .. size /\ rb.writeptr \in 0 .. size - 1 /\ g \in 0 .. size
      /\ rb.ful \in BOOLEAN /\ rb.buffer \in [0 .. size - 1 -> B] /\ rb \in Ring(size, B)
      /\ rb.readptr = size => at = "wrap"
      /\ front \in 0 .. size - 1
  <2>1. front \in 0 .. size - 1
    BY FrontIsSlot
  <2> HIDE DEF front
  <2>2. /\ rb.size = size /\ rb.readptr \in 0 .. size /\ rb.writeptr \in 0 .. size - 1 /\ g \in 0 .. size
        /\ rb.ful \in BOOLEAN /\ rb.buffer \in [0 .. size - 1 -> B] /\ rb \in Ring(size, B)
        /\ rb.readptr = size => at = "wrap"
    BY ONLY size \in Nat \ {0}, Fits(size, B, rb, at, g), RingFacts
  <2> QED BY ONLY <2>1, <2>2, Zenon
<1>1. n \in Nat /\ n < size - 1 /\ ~rb.ful
  <2>1. n \in Nat /\ ~(n >= size - 1) /\ (rb.ful => n = size - 1)
    BY DEF Tears, Whole
  <2> QED BY <2>1
<1>2. q2 = Append(q, b) /\ Len(q2) = n + 1
  BY <1>1 DEF Received
<1>3. /\ rb2.readptr = rb.readptr /\ rb2.writeptr = Advance(rb.writeptr, size)
      /\ rb2.buffer = [rb.buffer EXCEPT ![rb.writeptr] = b]
      /\ rb2.ful <=> rb2.writeptr = rb.readptr
  BY <1>0, <1>1 DEF ringbuf_write, Overflows, Ring
<1>4. HoldsAt(size, front, rb.writeptr, rb.buffer, q) /\ n < size
  BY <1>1 DEF Whole
<1> HIDE DEF rb2, q2, front
<1>5. Front(size, rb2, at, g) = front
  BY <1>3 DEF Front, front
<1>6. HoldsAt(size, front, rb2.writeptr, rb2.buffer, q2)
  <2>1. HoldsAt(size, front, Advance(rb.writeptr, size), [rb.buffer EXCEPT ![rb.writeptr] = b],
                Append(q, b))
    BY ONLY <1>0, <1>4, size \in Nat \ {0}, q \in Seq(B), b \in B, Put
  <2> QED BY ONLY <1>2, <1>3, <2>1
<1>7. rb.writeptr = Wrap(front + n, size)
  BY <1>4 DEF HoldsAt
<1> HIDE DEF n
<1>8. rb2.ful => n + 1 = size - 1
  <2>1. CASE at \in {"load", "store"}
    <3>1. front = Advance(rb.readptr, size) /\ rb.readptr \in 0 .. size - 1
      <4>1. at = "store" => g = rb.readptr + 1
        BY DEF Whole
      <4> QED BY ONLY <1>0, <2>1, <4>1, size \in Nat \ {0} DEF front, Front, Wrap, Advance
    <3> QED
      BY ONLY <1>1, <1>3, <1>7, <3>1, size \in Nat \ {0}, OneSlotLeft
  <2>2. CASE at \in {"wrap", "clear"}
    <3>1. front = Wrap(rb.readptr, size)
      BY ONLY <1>0, <2>2, size \in Nat \ {0} DEF front, Front, Wrap
    <3>2. ~rb2.ful
      BY ONLY <1>0, <1>1, <1>3, <1>7, <3>1, size \in Nat \ {0}, MoreSlotsLeft
    <3> QED BY <3>2
  <2> QED BY <2>1, <2>2 DEF Reading
<1>9. Len(q2) < size /\ (rb2.ful => Len(q2) = size - 1)
  BY <1>1, <1>2, <1>8
<1>10. (at = "store" => g = rb2.readptr + 1) /\ (at = "wrap" => g = rb2.readptr)
  BY <1>3 DEF Whole
<1>11. at \notin {"index", "byte"}
  BY DEF Reading
<1> QED
  BY <1>5, <1>6, <1>9, <1>10, <1>11 DEF Whole, rb2, q2

\* So the handler adds what it receives, unless it tears a read.
LEMMA HandlerWhole ==
  ASSUME NEW size \in Nat \ {0}, NEW B, NEW rb, NEW at, NEW g, Fits(size, B, rb, at, g),
         NEW q \in Seq(B), Whole(size, rb, at, g, q), NEW b \in B, ~Tears(at, Len(q), size)
  PROVE  Whole(size, ringbuf_write(rb, b), at, g, Received(q, size, b))
BY HandlerAtRest, HandlerInRead

\* Outside ringbuf_read it does not matter where the reader is.
LEMMA ElsewhereWhole ==
  ASSUME NEW size, NEW rb, NEW at, NEW g, NEW q, Whole(size, rb, at, g, q), NEW to, NEW h,
         at \notin Reading, to \notin Reading \cup {"index", "byte"}
  PROVE  Whole(size, rb, to, h, q)
<1>1. Front(size, rb, at, g) = rb.readptr /\ Front(size, rb, to, h) = rb.readptr
  BY DEF Front, Reading
<1> QED BY <1>1 DEF Whole, Reading

\* The loop's test: it goes on only if there is something to read.
LEMMA ReadyMeansSome ==
  ASSUME NEW size \in Nat \ {0}, NEW B, NEW rb, NEW at, NEW g, Fits(size, B, rb, at, g),
         NEW q \in Seq(B), Whole(size, rb, at, g, q), at \notin Reading
  PROVE  ringbuf_test_ready(rb) <=> q # <<>>
<1>1. Front(size, rb, at, g) = rb.readptr /\ at # "wrap"
  BY DEF Front, Reading
<1>2. /\ rb.writeptr = Wrap(rb.readptr + Len(q), size)
      /\ rb.ful => rb.writeptr = rb.readptr
      /\ rb.writeptr = rb.readptr => (rb.ful <=> q # <<>>)
  BY <1>1 DEF Whole, HoldsAt
<1>3. rb.readptr \in 0 .. size - 1
  BY <1>1, FrontIsSlot
<1>4. Len(q) = 0 => rb.writeptr = rb.readptr
  BY ONLY <1>2, <1>3, size \in Nat \ {0} DEF Wrap
<1>5. q = <<>> => Len(q) = 0
  OBVIOUS
<1> QED
  BY <1>2, <1>4, <1>5 DEF ringbuf_test_ready

LEMMA TestWhole ==
  ASSUME NEW size \in Nat \ {0}, NEW B, NEW rb, NEW g, Fits(size, B, rb, "test", g),
         NEW q \in Seq(B), Whole(size, rb, "test", g, q), ringbuf_test_ready(rb)
  PROVE  Whole(size, rb, "index", g, q)
<1>1. q # <<>>
  <2>1. "test" \notin Reading
    BY DEF Reading
  <2> QED BY <2>1, ReadyMeansSome
<1> QED BY <1>1 DEF Whole, Front, Reading

\* The register has the oldest byte's index, until the byte is fetched.
LEMMA IndexWhole ==
  ASSUME NEW size, NEW rb, NEW g, NEW q, Whole(size, rb, "index", g, q)
  PROVE  Whole(size, rb, "byte", ReadIndex(rb), q)
BY DEF Whole, Front, Reading, ReadIndex

\* The step that takes the byte: the reader has the oldest one.
LEMMA ByteIsOldest ==
  ASSUME NEW size \in Nat \ {0}, NEW B, NEW rb, NEW g, Fits(size, B, rb, "byte", g),
         NEW q \in Seq(B), Whole(size, rb, "byte", g, q)
  PROVE  q # <<>> /\ ReadByte(rb, g) = Head(q)
<1>1. /\ q # <<>> /\ g = rb.readptr
      /\ \A i \in 1 .. Len(q) : q[i] = rb.buffer[Wrap(rb.readptr + i - 1, size)]
  BY DEF Whole, HoldsAt, Front
<1>2. rb.readptr \in 0 .. size - 1
  BY FrontIsSlot
<1>3. Len(q) \in Nat \ {0} /\ Head(q) = q[1]
  BY <1>1
<1>4. Wrap(rb.readptr + 1 - 1, size) = rb.readptr
  BY ONLY <1>2, size \in Nat \ {0} DEF Wrap
<1>5. q[1] = rb.buffer[Wrap(rb.readptr + 1 - 1, size)]
  BY <1>1, <1>3
<1> QED BY <1>1, <1>3, <1>4, <1>5 DEF ReadByte

\* Once the byte is taken, the ring stands for the others.
LEMMA ByteWhole ==
  ASSUME NEW size \in Nat \ {0}, NEW B, NEW rb, NEW g, Fits(size, B, rb, "byte", g),
         NEW q \in Seq(B), Whole(size, rb, "byte", g, q)
  PROVE  Whole(size, rb, "load", g, Tail(q))
<1>1. /\ HoldsAt(size, rb.readptr, rb.writeptr, rb.buffer, q) /\ q # <<>>
      /\ rb.ful => rb.writeptr = rb.readptr
  BY DEF Whole, Front, Reading
<1>2. rb.readptr \in 0 .. size - 1
  BY FrontIsSlot
<1>3. rb.writeptr \in 0 .. size - 1 /\ rb.buffer \in [0 .. size - 1 -> B]
  BY RingFacts
<1>4. HoldsAt(size, Advance(rb.readptr, size), rb.writeptr, rb.buffer, Tail(q))
  BY ONLY <1>1, <1>2, <1>3, size \in Nat \ {0}, q \in Seq(B), Drop
<1>5. Len(Tail(q)) = Len(q) - 1 /\ Len(q) \in Nat \ {0}
  BY <1>1
<1>6. Len(q) <= size /\ rb.writeptr = Wrap(rb.readptr + Len(q), size)
  BY <1>1 DEF HoldsAt
<1>7. Len(Tail(q)) < size /\ (rb.ful => Len(Tail(q)) = size - 1)
  <2> DEFINE n == Len(q)
             m == Len(Tail(q))
             r == rb.readptr
             w == rb.writeptr
  <2>1. m = n - 1 /\ n \in Nat \ {0} /\ n <= size /\ w = Wrap(r + n, size) /\ r \in 0 .. size - 1
        /\ (rb.ful => w = r)
    BY <1>1, <1>2, <1>5, <1>6
  <2> HIDE DEF n, m, r, w
  <2>2. w = r => n = size
    BY ONLY <2>1, size \in Nat \ {0} DEF Wrap
  <2>3. m < size /\ (rb.ful => m = size - 1)
    BY ONLY <2>1, <2>2, size \in Nat \ {0}
  <2> QED BY <2>3 DEF m
<1>8. Front(size, rb, "load", g) = Advance(rb.readptr, size)
  BY DEF Front
<1> QED BY <1>4, <1>7, <1>8 DEF Whole, Reading

\* The steps that only move the read pointer leave Front where it is.
LEMMA MovesWhole ==
  ASSUME NEW size, NEW rb, NEW at, NEW g, NEW q, Whole(size, rb, at, g, q), at \in Reading,
         NEW rb2, NEW to, NEW h, to \in Reading,
         rb2.writeptr = rb.writeptr, rb2.buffer = rb.buffer, rb2.ful = rb.ful,
         Front(size, rb2, to, h) = Front(size, rb, at, g),
         to = "store" => h = rb2.readptr + 1, to = "wrap" => h = rb2.readptr
  PROVE  Whole(size, rb2, to, h, q)
<1>1. to \notin {"index", "byte"}
  BY DEF Reading
<1> QED BY <1>1 DEF Whole

LEMMA LoadWhole ==
  ASSUME NEW size \in Nat \ {0}, NEW B, NEW rb, NEW g, Fits(size, B, rb, "load", g),
         NEW q, Whole(size, rb, "load", g, q)
  PROVE  Whole(size, rb, "store", ReadNext(rb), q)
<1>1. rb.readptr \in 0 .. size - 1
  BY FrontIsSlot
<1>2. Front(size, rb, "store", ReadNext(rb)) = Front(size, rb, "load", g)
  BY ONLY <1>1, size \in Nat \ {0} DEF Front, ReadNext, Advance, Wrap
<1>3. ReadNext(rb) = rb.readptr + 1 /\ "load" \in Reading /\ "store" \in Reading
  BY DEF ReadNext, Reading
<1> QED BY <1>2, <1>3, MovesWhole

LEMMA StoreWhole ==
  ASSUME NEW size \in Nat \ {0}, NEW B, NEW rb, NEW g, Fits(size, B, rb, "store", g),
         NEW q, Whole(size, rb, "store", g, q)
  PROVE  Whole(size, StoreNext(rb, g), "wrap", g, q)
<1> DEFINE rb2 == StoreNext(rb, g)
<1>1. rb \in Ring(size, B) /\ g \in 0 .. size
  BY RingFacts
<1>2. rb2.writeptr = rb.writeptr /\ rb2.buffer = rb.buffer /\ rb2.ful = rb.ful /\ rb2.readptr = g
  BY ONLY <1>1, size \in Nat \ {0}, StoreTypes
<1> HIDE DEF rb2
<1>3. Front(size, rb2, "wrap", g) = Front(size, rb, "store", g)
  BY <1>2 DEF Front
<1>4. "store" \in Reading /\ "wrap" \in Reading
  BY DEF Reading
<1>5. Whole(size, rb2, "wrap", g, q)
  BY <1>2, <1>3, <1>4, MovesWhole
<1> QED BY <1>5 DEF rb2

LEMMA WrapWhole ==
  ASSUME NEW size \in Nat \ {0}, NEW B, NEW rb, NEW g, Fits(size, B, rb, "wrap", g),
         NEW q, Whole(size, rb, "wrap", g, q)
  PROVE  Whole(size, WrapNext(rb, g), "clear", g, q)
<1> DEFINE rb2 == WrapNext(rb, g)
<1>1. rb \in Ring(size, B) /\ g \in 0 .. size
  BY RingFacts
<1>2. /\ rb2.writeptr = rb.writeptr /\ rb2.buffer = rb.buffer /\ rb2.ful = rb.ful
      /\ rb2.readptr = IF g = size THEN 0 ELSE rb.readptr
  BY ONLY <1>1, size \in Nat \ {0}, WrapTypes
<1> HIDE DEF rb2
<1>3. g = rb.readptr
  BY DEF Whole
<1>4. Front(size, rb2, "clear", g) = Front(size, rb, "wrap", g)
  BY ONLY <1>1, <1>2, <1>3, size \in Nat \ {0} DEF Front, Wrap
<1>5. "clear" \in Reading /\ "wrap" \in Reading
  BY DEF Reading
<1>6. Whole(size, rb2, "clear", g, q)
  BY <1>2, <1>4, <1>5, MovesWhole
<1> QED BY <1>6 DEF rb2

\* Fewer bytes than slots and equal pointers: none
LEMMA EmptyGap ==
  ASSUME NEW size \in Nat \ {0}, NEW B, NEW q \in Seq(B), Len(q) < size,
         NEW r \in 0 .. size - 1, Wrap(r + Len(q), size) = r
  PROVE  q = <<>>
<1> DEFINE n == Len(q)
<1>1. n \in Nat /\ n < size /\ Wrap(r + n, size) = r
  OBVIOUS
<1> HIDE DEF n
<1>2. n = 0
  BY <1>1 DEF Wrap
<1> QED BY <1>2 DEF n

\* The last step of a read: the ring is at rest again.
LEMMA ClearWhole ==
  ASSUME NEW size \in Nat \ {0}, NEW B, NEW rb, NEW g, Fits(size, B, rb, "clear", g),
         NEW q \in Seq(B), Whole(size, rb, "clear", g, q)
  PROVE  Whole(size, ClearStatus(rb), "test", 0, q)
<1> DEFINE rb2 == ClearStatus(rb)
<1>1. rb \in Ring(size, B)
  BY RingFacts
<1>2. /\ rb2.readptr = rb.readptr /\ rb2.writeptr = rb.writeptr
      /\ rb2.buffer = rb.buffer /\ ~rb2.ful
  BY ONLY <1>1, size \in Nat \ {0}, ClearTypes
<1> HIDE DEF rb2
<1>3. HoldsAt(size, rb.readptr, rb.writeptr, rb.buffer, q) /\ Len(q) < size
  BY DEF Whole, Front, Reading
<1>4. rb.readptr \in 0 .. size - 1
  BY FrontIsSlot
<1>5. rb.writeptr = rb.readptr => q = <<>>
  BY ONLY <1>3, <1>4, size \in Nat \ {0}, q \in Seq(B), EmptyGap DEF HoldsAt
<1>6. Front(size, rb2, "test", 0) = rb.readptr
  BY <1>2 DEF Front
<1>7. /\ HoldsAt(size, Front(size, rb2, "test", 0), rb2.writeptr, rb2.buffer, q)
      /\ rb2.writeptr = rb2.readptr => q = <<>>
  BY ONLY <1>2, <1>3, <1>5, <1>6, Zenon
<1>8. "test" \notin Reading
  BY DEF Reading
<1>9. Whole(size, rb2, "test", 0, q)
  BY ONLY <1>2, <1>7, <1>8 DEF Whole
<1> QED BY <1>9 DEF rb2

\* The ring as the read in progress will leave it is at Front, and marked empty.
LEMMA SettledInRead ==
  ASSUME NEW size \in Nat \ {0}, NEW B, NEW rb, NEW at, NEW g, Fits(size, B, rb, at, g),
         NEW q, Whole(size, rb, at, g, q), at \in Reading
  PROVE  LET s == Settle(rb, at, g)
         IN  /\ s \in Ring(size, B) /\ s.readptr = Front(size, rb, at, g)
             /\ s.writeptr = rb.writeptr /\ s.buffer = rb.buffer
             /\ ~s.ful /\ s.size = size
<1> DEFINE front == Front(size, rb, at, g)
           s == Settle(rb, at, g)
           Moved(x) == /\ x \in Ring(size, B) /\ x.readptr = front
                       /\ x.writeptr = rb.writeptr /\ x.buffer = rb.buffer
<1>0. /\ rb \in Ring(size, B) /\ rb.readptr \in 0 .. size /\ g \in 0 .. size
      /\ rb.readptr = size => at = "wrap"
  BY RingFacts
<1>1. ASSUME NEW x, Moved(x)
      PROVE  Moved(ClearStatus(x)) /\ ~ClearStatus(x).ful /\ ClearStatus(x).size = size
  BY ONLY <1>1, size \in Nat \ {0}, ClearTypes
<1>2. ASSUME NEW next \in 0 .. size, front = Wrap(next, size)
      PROVE  Moved(WrapNext(StoreNext(rb, next), next))
  <2> DEFINE x == StoreNext(rb, next)
  <2>1. /\ x \in Ring(size, B) /\ x.readptr = next
        /\ x.writeptr = rb.writeptr /\ x.buffer = rb.buffer
    BY ONLY <1>0, next \in 0 .. size, size \in Nat \ {0}, StoreTypes
  <2> HIDE DEF x, front
  <2>2. /\ WrapNext(x, next) \in Ring(size, B)
        /\ WrapNext(x, next).writeptr = x.writeptr /\ WrapNext(x, next).buffer = x.buffer
        /\ WrapNext(x, next).readptr = IF next = size THEN 0 ELSE x.readptr
    BY ONLY <2>1, next \in 0 .. size, size \in Nat \ {0}, WrapTypes
  <2>3. front = IF next = size THEN 0 ELSE next
    BY ONLY <1>2, next \in 0 .. size, size \in Nat \ {0} DEF Wrap
  <2>4. Moved(WrapNext(x, next))
    BY ONLY <2>1, <2>2, <2>3
  <2> QED BY <2>4 DEF x
<1>3. PICK x : Moved(x) /\ s = ClearStatus(x)
  <2>1. CASE at = "load"
    <3> DEFINE next == rb.readptr + 1
    <3>1. next \in 0 .. size /\ front = Wrap(next, size)
      BY ONLY <1>0, <2>1, size \in Nat \ {0} DEF Front, Wrap, Advance
    <3>2. s = ClearStatus(WrapNext(StoreNext(rb, next), next))
      BY <2>1 DEF Settle, ringbuf_read, ReadNext
    <3> HIDE DEF next, front, s, Moved
    <3> QED BY <1>2, <3>1, <3>2
  <2>2. CASE at = "store"
    <3>1. front = Wrap(g, size)
      BY <2>2 DEF Front
    <3>2. s = ClearStatus(WrapNext(StoreNext(rb, g), g))
      BY <2>2 DEF Settle
    <3> HIDE DEF front, s, Moved
    <3> QED BY <1>0, <1>2, <3>1, <3>2
  <2>3. CASE at = "wrap"
    <3>1. front = Wrap(g, size) /\ g = rb.readptr
      BY <2>3 DEF Front, Whole
    <3>2. s = ClearStatus(WrapNext(rb, g))
      BY <2>3 DEF Settle
    <3> HIDE DEF front
    <3>3. /\ WrapNext(rb, g) \in Ring(size, B)
          /\ WrapNext(rb, g).writeptr = rb.writeptr /\ WrapNext(rb, g).buffer = rb.buffer
          /\ WrapNext(rb, g).readptr = IF g = size THEN 0 ELSE rb.readptr
      BY ONLY <1>0, size \in Nat \ {0}, WrapTypes
    <3>4. front = IF g = size THEN 0 ELSE rb.readptr
      BY ONLY <1>0, <3>1, size \in Nat \ {0} DEF Wrap
    <3>5. Moved(WrapNext(rb, g))
      BY ONLY <3>3, <3>4
    <3> QED BY <3>2, <3>5
  <2>4. CASE at = "clear"
    <3>1. s = ClearStatus(rb) /\ Moved(rb)
      BY <1>0, <2>4 DEF Settle, Front
    <3> QED BY <3>1
  <2> QED BY <2>1, <2>2, <2>3, <2>4 DEF Reading
<1> HIDE DEF s
<1>4. Moved(s) /\ ~s.ful /\ s.size = size
  BY <1>1, <1>3
<1> QED BY <1>4 DEF s

\* That ring holds q.
LEMMA SettledHolds ==
  ASSUME NEW size \in Nat \ {0}, NEW B, NEW rb, NEW at, NEW g, Fits(size, B, rb, at, g),
         NEW q \in Seq(B), Whole(size, rb, at, g, q)
  PROVE  LET s == Settle(rb, at, g)
         IN  s \in Ring(size, B) /\ s.readptr < size /\ Holds(s, q)
<1> DEFINE s == Settle(rb, at, g)
           front == Front(size, rb, at, g)
<1>0. front \in 0 .. size - 1
  BY FrontIsSlot
<1>1. CASE at \in Reading
  <2>1. /\ s \in Ring(size, B) /\ s.readptr = front /\ s.writeptr = rb.writeptr
        /\ s.buffer = rb.buffer /\ ~s.ful /\ s.size = size
    BY ONLY <1>1, size \in Nat \ {0}, Fits(size, B, rb, at, g), Whole(size, rb, at, g, q), SettledInRead
  <2>2. HoldsAt(size, front, rb.writeptr, rb.buffer, q) /\ Len(q) < size
    BY <1>1 DEF Whole
  <2> HIDE DEF s, front
  <2>3. rb.writeptr = front => q = <<>>
    BY ONLY <1>0, <2>2, size \in Nat \ {0}, q \in Seq(B), EmptyGap DEF HoldsAt
  <2>4. Holds(s, q)
    BY ONLY <2>1, <2>2, <2>3 DEF Holds
  <2>5. s.readptr < size
    BY ONLY <1>0, <2>1, size \in Nat \ {0}
  <2> QED BY <2>1, <2>4, <2>5 DEF s
<1>2. CASE at \notin Reading
  <2>1. s = rb /\ front = rb.readptr
    BY <1>2 DEF Settle, Front, Reading
  <2>2. rb.size = size /\ rb \in Ring(size, B)
    BY RingFacts
  <2>3. rb.readptr < size
    BY ONLY <1>0, <2>1, size \in Nat \ {0}
  <2>4. /\ HoldsAt(size, rb.readptr, rb.writeptr, rb.buffer, q)
        /\ rb.writeptr = rb.readptr => (rb.ful <=> q # <<>>)
    BY <1>2, <2>1, Zenon DEF Whole
  <2>5. Holds(rb, q)
    BY ONLY <2>2, <2>4, Zenon DEF Holds
  <2> QED BY ONLY <2>1, <2>2, <2>3, <2>5, Zenon
<1> QED BY <1>1, <1>2

\* What Contents and Count compute of it
LEMMA SettledContents ==
  ASSUME NEW size \in Nat \ {0}, NEW B, NEW rb, NEW at, NEW g, Fits(size, B, rb, at, g),
         NEW q \in Seq(B), Whole(size, rb, at, g, q)
  PROVE  Contents(Settle(rb, at, g)) = q /\ Count(Settle(rb, at, g)) = Len(q)
<1> DEFINE s == Settle(rb, at, g)
<1>1. s \in Ring(size, B) /\ s.readptr < size /\ Holds(s, q)
  BY SettledHolds
<1> HIDE DEF s
<1>2. Contents(s) = q /\ Count(s) = Len(q)
  BY ONLY <1>1, size \in Nat \ {0}, q \in Seq(B), HoldsIsContents
<1> QED BY <1>2 DEF s

----------------------------------------------------------------------------
(* The keyboard *)

\* Beside the types: the ring fits, and a byte that is being read was wanted.
KbdTypes ==
  /\ TypeOK
  /\ Fits(Size, Byte, rbuf, pc, reg)
  /\ pc \in {"index", "byte"} \cup Reading => total <= len

\* As long as no interrupt has torn a read, the ring holds what is pending.
KbdInv == KbdTypes /\ (~torn => Whole(Size, rbuf, pc, reg, pending))

\* At boot nothing is pending and the ring is empty.
LEMMA InitKbdInv == Init => KbdInv
<1> SUFFICES ASSUME Init PROVE KbdInv
  OBVIOUS
<1>1. PICK b \in Byte : rbuf = ringbuf_alloc(Size, FALSE, FALSE, [i \in 0 .. Size - 1 |-> b])
  BY DEF Init
<1>2. /\ rbuf \in Ring(Size, Byte) /\ rbuf.readptr = 0 /\ rbuf.writeptr = 0 /\ rbuf.ful = FALSE
  BY <1>1, KeyboardAssumption DEF ringbuf_alloc, Ring
<1>3. pending = <<>> /\ pending \in Seq(Byte) /\ Len(pending) = 0
  BY DEF Init
<1>4. pc = "idle" /\ len = 0 /\ total = 0 /\ byte = NoByte /\ reg = 0 /\ torn = FALSE
  BY DEF Init
<1>5. /\ rbuf.readptr # Size /\ len \in Lens \cup {0} /\ total \in 0 .. len + 1
      /\ byte \in Byte \cup {NoByte} /\ reg \in 0 .. Size /\ Len(pending) <= Size
  BY <1>2, <1>3, <1>4, KeyboardAssumption
<1>6. TypeOK
  <2>1. torn \in BOOLEAN
    BY <1>4
  <2> QED BY <1>2, <1>3, <1>4, <1>5, <2>1 DEF TypeOK
<1>7. Fits(Size, Byte, rbuf, pc, reg)
  BY <1>2, <1>4, <1>5 DEF Fits
<1>8. HoldsAt(Size, 0, 0, rbuf.buffer, pending)
  BY <1>3, KeyboardAssumption DEF HoldsAt, Wrap
<1>9. Whole(Size, rbuf, "idle", reg, pending)
  BY <1>2, <1>3, <1>8 DEF Whole, Front, Reading
<1> QED BY <1>4, <1>6, <1>7, <1>9 DEF KbdInv, KbdTypes, Reading

\* The handler keeps the types.
LEMMA HandlerKbdTypes ==
  ASSUME KbdTypes, NEW scancode \in Byte, keyboard_key_handler(scancode)
  PROVE  KbdTypes'
<1>1. /\ rbuf' = ringbuf_write(rbuf, scancode) /\ pending' = Received(pending, Size, scancode)
      /\ torn' \in BOOLEAN /\ UNCHANGED <<pc, len, total, byte, reg>>
  BY DEF keyboard_key_handler, Received
<1>2. Fits(Size, Byte, rbuf', pc', reg')
  <2>1. Fits(Size, Byte, ringbuf_write(rbuf, scancode), pc, reg)
    BY WriteFits, KeyboardAssumption DEF KbdTypes
  <2> QED BY <1>1, <2>1
<1>3. pending' \in Seq(Byte)
  BY <1>1, ReceivedTypes, KeyboardAssumption DEF KbdTypes, TypeOK
<1>4. Len(pending') <= Size
  <2> DEFINE keep == IF Len(pending) = Size THEN Tail(pending) ELSE pending
  <2>1. pending \in Seq(Byte) /\ Len(pending) <= Size /\ Len(pending) \in Nat
    BY DEF KbdTypes, TypeOK
  <2>2. Len(pending) = Size => pending # <<>>
    BY KeyboardAssumption
  <2>3. pending # <<>> => Tail(pending) \in Seq(Byte) /\ Len(Tail(pending)) = Len(pending) - 1
    BY <2>1
  <2>4. keep \in Seq(Byte) /\ Len(keep) < Size /\ Len(keep) \in Nat
    BY <2>1, <2>2, <2>3, KeyboardAssumption
  <2>5. pending' = Append(keep, scancode)
    BY <1>1 DEF Received
  <2> HIDE DEF keep
  <2>6. Len(pending') = Len(keep) + 1
    BY <2>4, <2>5
  <2> QED BY ONLY <2>4, <2>6, KeyboardAssumption
<1>5. rbuf' \in Ring(Size, Byte) /\ (rbuf'.readptr = Size => pc' = "wrap")
  BY <1>2 DEF Fits
<1> QED
  BY <1>1, <1>2, <1>3, <1>4, <1>5 DEF KbdTypes, TypeOK

\* Every step keeps the types.
LEMMA NextKbdTypes == KbdTypes /\ [Next]_vars => KbdTypes'
<1> SUFFICES ASSUME KbdTypes, [Next]_vars PROVE KbdTypes'
  OBVIOUS
<1> USE KeyboardAssumption
<1>0. Fits(Size, Byte, rbuf, pc, reg) /\ pending \in Seq(Byte) /\ Len(pending) <= Size
  BY DEF KbdTypes, TypeOK
<1>00. ASSUME Fits(Size, Byte, rbuf', pc', reg'), len' = len, torn' = torn,
              pc' \in {"idle", "test", "index", "byte"} \cup Reading,
              total' \in 0 .. len + 1, byte' \in Byte \cup {NoByte},
              pending' \in Seq(Byte), Len(pending') <= Size,
              pc' \in {"index", "byte"} \cup Reading => total' <= len
       PROVE  KbdTypes'
  BY <1>00 DEF KbdTypes, TypeOK, Fits
<1>1. ASSUME NEW scancode \in Byte, keyboard_key_handler(scancode) PROVE KbdTypes'
  BY <1>1, HandlerKbdTypes
<1>2. ASSUME NEW n \in Lens, Call(n) PROVE KbdTypes'
  BY <1>2 DEF KbdTypes, TypeOK, Call, Reading, Fits
<1>3. CASE Test
  BY <1>3 DEF KbdTypes, TypeOK, Test, Reading, MoreWanted, Fits
<1>4. CASE LoadIndex
  <2>1. /\ pc = "index" /\ pc' = "byte" /\ reg' = ReadIndex(rbuf) /\ rbuf' = rbuf /\ total <= len
        /\ UNCHANGED <<len, total, byte, pending, torn>>
    BY <1>4 DEF LoadIndex, KbdTypes
  <2>2. Fits(Size, Byte, rbuf', pc', reg')
    BY <1>0, <2>1, StepFits
  <2> QED BY <1>0, <1>00, <2>1, <2>2 DEF KbdTypes, TypeOK
<1>5. CASE LoadByte
  <2>1. /\ pc = "byte" /\ pc' = "load" /\ reg' = reg /\ rbuf' = rbuf /\ total <= len
        /\ byte' = ReadByte(rbuf, reg) /\ UNCHANGED <<len, total, torn>>
        /\ pending' = IF pending = <<>> THEN <<>> ELSE Tail(pending)
    BY <1>5 DEF LoadByte, KbdTypes
  <2>2. Fits(Size, Byte, rbuf', pc', reg')
    BY <1>0, <2>1, StepFits
  <2>3. pending' \in Seq(Byte) /\ Len(pending') <= Size
    BY <1>0, <2>1
  <2>4. byte' \in Byte
    BY <1>0, <2>1 DEF Fits, Ring, ReadByte
  <2> QED BY <1>00, <2>1, <2>2, <2>3, <2>4 DEF KbdTypes, TypeOK, Reading
<1>6. CASE LoadPtr
  <2>1. /\ pc = "load" /\ pc' = "store" /\ reg' = ReadNext(rbuf) /\ rbuf' = rbuf /\ total <= len
        /\ UNCHANGED <<len, total, byte, pending, torn>>
    BY <1>6 DEF LoadPtr, KbdTypes, Reading
  <2>2. Fits(Size, Byte, rbuf', pc', reg')
    BY <1>0, <2>1, StepFits
  <2> QED BY <1>0, <1>00, <2>1, <2>2 DEF KbdTypes, TypeOK, Reading
<1>7. CASE StorePtr
  <2>1. /\ pc = "store" /\ pc' = "wrap" /\ reg' = reg /\ rbuf' = StoreNext(rbuf, reg) /\ total <= len
        /\ UNCHANGED <<len, total, byte, pending, torn>>
    BY <1>7 DEF StorePtr, KbdTypes, Reading
  <2>2. Fits(Size, Byte, rbuf', pc', reg')
    BY <1>0, <2>1, StepFits
  <2> QED BY <1>0, <1>00, <2>1, <2>2 DEF KbdTypes, TypeOK, Reading
<1>8. CASE WrapPtr
  <2>1. /\ pc = "wrap" /\ pc' = "clear" /\ reg' = reg /\ rbuf' = WrapNext(rbuf, reg) /\ total <= len
        /\ UNCHANGED <<len, total, byte, pending, torn>>
    BY <1>8 DEF WrapPtr, KbdTypes, Reading
  <2>2. Fits(Size, Byte, rbuf', pc', reg')
    BY <1>0, <2>1, StepFits
  <2> QED BY <1>0, <1>00, <2>1, <2>2 DEF KbdTypes, TypeOK, Reading
<1>9. CASE Clear
  <2>1. /\ pc = "clear" /\ pc' = "test" /\ reg' = 0 /\ rbuf' = ClearStatus(rbuf) /\ total <= len
        /\ total' = total + 1 /\ byte' = NoByte /\ UNCHANGED <<len, pending, torn>>
    BY <1>9 DEF Clear, KbdTypes, Reading
  <2>2. Fits(Size, Byte, rbuf', pc', reg')
    BY <1>0, <2>1, StepFits
  <2> QED BY <1>0, <1>00, <2>1, <2>2 DEF KbdTypes, TypeOK, Reading
<1>10. CASE UNCHANGED vars
  BY <1>10 DEF KbdTypes, TypeOK, vars, Fits
<1> QED
  BY <1>1, <1>2, <1>3, <1>4, <1>5, <1>6, <1>7, <1>8, <1>9, <1>10 DEF Next, ReaderStep

\* Every variable has its type, the pointers are in bounds between any two
\* instructions, and a read returns at most one byte more than was asked for.
THEOREM KeyboardTypes == Spec => []TypeOK
<1>1. Init => KbdTypes
  BY InitKbdInv DEF KbdInv
<1>2. KbdTypes => TypeOK
  BY DEF KbdTypes
<1> QED
  BY <1>1, <1>2, NextKbdTypes, PTL DEF Spec

\* Every step keeps the ring whole unless it tears a read.
LEMMA NextKbdInv == KbdInv /\ [Next]_vars => KbdInv'
<1> SUFFICES ASSUME KbdInv, [Next]_vars, ~torn' PROVE Whole(Size, rbuf', pc', reg', pending')
  BY NextKbdTypes DEF KbdInv
<1>1. ~torn
  BY DEF Next, ReaderStep, keyboard_key_handler, Call, Test, LoadIndex, LoadByte, LoadPtr,
         StorePtr, WrapPtr, Clear, vars
<1>2. /\ Size \in Nat \ {0} /\ Fits(Size, Byte, rbuf, pc, reg) /\ pending \in Seq(Byte)
      /\ Whole(Size, rbuf, pc, reg, pending)
  BY <1>1, KeyboardAssumption DEF KbdInv, KbdTypes, TypeOK
<1>3. ASSUME NEW scancode \in Byte, keyboard_key_handler(scancode)
      PROVE  Whole(Size, rbuf', pc', reg', pending')
  <2>1. /\ rbuf' = ringbuf_write(rbuf, scancode) /\ pending' = Received(pending, Size, scancode)
        /\ ~Tears(pc, Len(pending), Size) /\ pc' = pc /\ reg' = reg
    BY <1>3 DEF keyboard_key_handler, Received
  <2>2. Whole(Size, ringbuf_write(rbuf, scancode), pc, reg, Received(pending, Size, scancode))
    BY <1>2, <2>1, HandlerWhole
  <2> QED BY <2>1, <2>2
<1>4. ASSUME NEW n \in Lens, Call(n) PROVE Whole(Size, rbuf', pc', reg', pending')
  <2>1. pc = "idle" /\ pc' = "test" /\ rbuf' = rbuf /\ pending' = pending
    BY <1>4 DEF Call
  <2>2. "idle" \notin Reading /\ "test" \notin Reading \cup {"index", "byte"}
    BY DEF Reading
  <2> QED BY <1>2, <2>1, <2>2, ElsewhereWhole
<1>5. CASE Test
  <2>1. pc = "test" /\ rbuf' = rbuf /\ pending' = pending /\ reg' = reg
        /\ (pc' = "idle" \/ (pc' = "index" /\ ringbuf_test_ready(rbuf)))
    BY <1>5 DEF Test
  <2>2. "test" \notin Reading /\ "idle" \notin Reading \cup {"index", "byte"}
    BY DEF Reading
  <2>3. CASE pc' = "idle"
    BY <1>2, <2>1, <2>2, <2>3, ElsewhereWhole
  <2>4. CASE pc' = "index" /\ ringbuf_test_ready(rbuf)
    BY <1>2, <2>1, <2>4, TestWhole
  <2> QED BY <2>1, <2>3, <2>4
<1>6. CASE LoadIndex
  BY <1>2, <1>6, IndexWhole DEF LoadIndex
<1>7. CASE LoadByte
  <2>1. pc = "byte" /\ pc' = "load" /\ rbuf' = rbuf /\ reg' = reg
        /\ pending' = IF pending = <<>> THEN <<>> ELSE Tail(pending)
    BY <1>7 DEF LoadByte
  <2>2. Whole(Size, rbuf, "load", reg, Tail(pending)) /\ pending # <<>>
    BY <1>2, <2>1, ByteWhole, ByteIsOldest
  <2> QED BY <2>1, <2>2
<1>8. CASE LoadPtr
  BY <1>2, <1>8, LoadWhole DEF LoadPtr
<1>9. CASE StorePtr
  BY <1>2, <1>9, StoreWhole DEF StorePtr
<1>10. CASE WrapPtr
  BY <1>2, <1>10, WrapWhole DEF WrapPtr
<1>11. CASE Clear
  BY <1>2, <1>11, ClearWhole DEF Clear
<1>12. CASE UNCHANGED vars
  BY <1>2, <1>12 DEF vars
<1> QED
  BY <1>3, <1>4, <1>5, <1>6, <1>7, <1>8, <1>9, <1>10, <1>11, <1>12 DEF Next, ReaderStep

\* KbdInv is an invariant of the driver.
LEMMA KbdInvariance == Spec => []KbdInv
BY InitKbdInv, NextKbdInv, PTL DEF Spec

\* What the theorems use of it
LEMMA KbdFacts ==
  ASSUME KbdInv, ~torn
  PROVE  /\ Size \in Nat \ {0} /\ Fits(Size, Byte, rbuf, pc, reg) /\ pending \in Seq(Byte)
         /\ Whole(Size, rbuf, pc, reg, pending)
BY KeyboardAssumption DEF KbdInv, KbdTypes, TypeOK

\* For any size, unless a read was torn, the ring holds exactly what was received
\* and neither read nor overwritten, in order, at every instruction of a read.
THEOREM RingIsPending == Spec => []RingHoldsPending
<1>1. KbdInv => RingHoldsPending
  BY KbdFacts, SettledContents DEF RingHoldsPending, Settled
<1> QED
  BY <1>1, KbdInvariance, PTL

\* Between reads, ringbuf_test_ready tells whether a scancode waits.
THEOREM ReadyIsPending == Spec => []ReadyMeansPending
<1>1. KbdInv => ReadyMeansPending
  BY KbdFacts, ReadyMeansSome DEF ReadyMeansPending
<1> QED
  BY <1>1, KbdInvariance, PTL

\* ringbuf_read returns the oldest scancode that waits.
THEOREM OldestIsRead == Spec => ReadsOldest
<1> DEFINE Step == (~torn /\ pc = "byte" /\ pc' = "load")
                     => (pending # <<>> /\ byte' = Head(pending))
<1>1. KbdInv /\ [Next]_vars => [Step]_vars
  <2> SUFFICES ASSUME KbdInv, Next, ~torn, pc = "byte", pc' = "load"
               PROVE  pending # <<>> /\ byte' = Head(pending)
    OBVIOUS
  <2>1. LoadByte
    BY DEF Next, ReaderStep, keyboard_key_handler, Call, Test, LoadIndex, LoadPtr, StorePtr,
           WrapPtr, Clear
  <2> QED
    BY <2>1, KbdFacts, ByteIsOldest DEF LoadByte
<1> QED
  BY <1>1, KbdInvariance, PTL DEF Spec, ReadsOldest

\* A write over a scancode that still waits marks the ring as overflown.
THEOREM OverwritesAreMarked == Spec => OverwriteIsMarked
<1> DEFINE Step == (~torn' /\ Len(pending) = Size /\ rbuf'.buffer # rbuf.buffer)
                     => ringbuf_test_overflow(rbuf')
<1>1. KbdInv /\ [Next]_vars => [Step]_vars
  <2> SUFFICES ASSUME KbdInv, Next, ~torn', Len(pending) = Size, rbuf'.buffer # rbuf.buffer
               PROVE  ringbuf_test_overflow(rbuf')
    OBVIOUS
  <2>0. rbuf \in Ring(Size, Byte) /\ rbuf.size = Size /\ reg \in 0 .. Size /\ Size \in Nat \ {0}
    BY KeyboardAssumption, RingFacts DEF KbdInv, KbdTypes
  <2>1. /\ StoreNext(rbuf, reg).buffer = rbuf.buffer /\ ClearStatus(rbuf).buffer = rbuf.buffer
        /\ WrapNext(rbuf, reg).buffer = rbuf.buffer
    BY ONLY <2>0, StoreTypes, ClearTypes, WrapTypes
  <2>2. PICK scancode \in Byte : keyboard_key_handler(scancode)
    BY <2>1 DEF Next, ReaderStep, Call, Test, LoadIndex, LoadByte, LoadPtr, StorePtr,
                WrapPtr, Clear
  <2>3. ~torn /\ pc \notin Reading
    <3>1. ~torn /\ ~(pc \in Reading /\ Len(pending) >= Size - 1)
      BY <2>2, Zenon DEF keyboard_key_handler, Tears
    <3>2. Len(pending) >= Size - 1
      BY ONLY Len(pending) = Size, KeyboardAssumption
    <3> QED BY ONLY <3>1, <3>2, Zenon
  <2>4. Overflows(rbuf)
    <3>1. Fits(Size, Byte, rbuf, pc, reg) /\ pending \in Seq(Byte) /\ Whole(Size, rbuf, pc, reg, pending)
      BY <2>3, KbdFacts
    <3>2. ringbuf_test_ready(rbuf)
      <4>1. pending # <<>>
        BY <2>0
      <4> QED BY ONLY <2>0, <2>3, <3>1, <4>1, ReadyMeansSome
    <3>3. rbuf.writeptr = rbuf.readptr
      <4>1. pc # "wrap" /\ Front(Size, rbuf, pc, reg) = rbuf.readptr
        BY <2>3 DEF Reading, Front
      <4>2. rbuf.writeptr = Wrap(rbuf.readptr + Size, Size)
        BY <3>1, <4>1 DEF Whole, HoldsAt
      <4>3. rbuf.readptr \in 0 .. Size - 1
        BY ONLY <2>0, <3>1, <4>1, FrontIsSlot
      <4> QED BY ONLY <2>0, <4>2, <4>3 DEF Wrap
    <3> QED BY <3>2, <3>3 DEF ringbuf_test_ready, Overflows
  <2>5. rbuf' = ringbuf_write(rbuf, scancode)
    BY <2>2 DEF keyboard_key_handler
  <2>6. rbuf'.ovf
    BY <2>0, <2>4, <2>5 DEF ringbuf_write, Ring
  <2> QED
    BY <2>6 DEF ringbuf_test_overflow
<1> QED
  BY <1>1, KbdInvariance, PTL DEF Spec, OverwriteIsMarked

----------------------------------------------------------------------------
(* The serial port *)

\* Where the pointer may lead to freed memory, and when a ring may be lost.
UartInv ==
  /\ rx_buf \in {"null", "ring", "freed"}
  /\ line \in {"idle", "opening", "closing", "test", "index", "byte"} \cup Reading
  /\ line = "closing" => rx_buf # "ring"
  /\ (rx_buf = "freed" /\ flags # {}) => line \in {"opening", "closing"}
  /\ (flags = {} /\ (rx_buf = "ring" \/ line = "opening")) => unmarked
  /\ (rx_buf = "ring" /\ line = "opening") => unmarked
  /\ orphans \in BOOLEAN /\ unmarked \in BOOLEAN
  /\ orphans => unmarked

\* The invariant holds at boot.
LEMMA InitUartInv == UartInit => UartInv
BY DEF UartInit, UartInv, Reading

\* Every step of the driver and of its handler keeps it.
LEMMA NextUartInv == UartInv /\ [UartNext]_uartVars => UartInv'
<1> SUFFICES ASSUME UartInv, [UartNext]_uartVars PROVE UartInv'
  OBVIOUS
<1>1. ASSUME NEW value \in RxByte, uart8250_interrupt(value) PROVE UartInv'
  BY <1>1 DEF UartInv, uart8250_interrupt
<1>2. ASSUME NEW f \in Flags, OpenReserves(f) PROVE UartInv'
  BY <1>2 DEF UartInv, OpenReserves, Available
<1>3. ASSUME NEW n \in RxLens, ReadCall(n) PROVE UartInv'
  BY <1>3 DEF UartInv, ReadCall
<1>4. ASSUME NEW ful \in BOOLEAN, NEW ovf \in BOOLEAN, NEW bytes \in [0 .. RxSize - 1 -> RxByte],
             OpenAllocates(ful, ovf, bytes)
      PROVE  UartInv'
  BY <1>4 DEF UartInv, OpenAllocates
<1>5. CASE OpenRefused
  BY <1>5 DEF UartInv, OpenRefused
<1>6. CASE OpenFindsNoMemory
  BY <1>6 DEF UartInv, OpenFindsNoMemory
<1>7. CASE CloseRefused
  BY <1>7 DEF UartInv, CloseRefused
<1>8. CASE CloseFrees
  BY <1>8 DEF UartInv, CloseFrees
<1>9. CASE CloseReleases
  BY <1>9 DEF UartInv, CloseReleases
<1>10. CASE ReadTest
  BY <1>10 DEF UartInv, ReadTest, Reading
<1>11. CASE ReadLoadsIndex \/ ReadLoadsByte \/ ReadLoadsPtr
  BY <1>11 DEF UartInv, ReadLoadsIndex, ReadLoadsByte, ReadLoadsPtr, Reading
<1>12. CASE ReadStoresPtr \/ ReadWraps \/ ReadClears
  BY <1>12 DEF UartInv, ReadStoresPtr, ReadWraps, ReadClears, Reading
<1>13. CASE UNCHANGED uartVars
  BY <1>13 DEF UartInv, uartVars
<1> QED
  BY <1>1, <1>2, <1>3, <1>4, <1>5, <1>6, <1>7, <1>8, <1>9, <1>10, <1>11, <1>12, <1>13
     DEF UartNext, ReadStep

\* UartInv is an invariant of the driver.
LEMMA UartInvariance == UartSpec => []UartInv
BY InitUartInv, NextUartInv, PTL DEF UartSpec

\* The handler never writes to a freed ring outside the windows of open and close.
THEOREM FreedRingsStayClosed == UartSpec => []FreedOnlyInWindows
<1>1. UartInv => FreedOnlyInWindows
  BY DEF UartInv, FreedOnlyInWindows, Stores
<1> QED
  BY <1>1, UartInvariance, PTL

\* A ring is lost only if the device was opened without flags.
THEOREM RingsAreNotLost == UartSpec => []OneRing
<1>1. UartInv => OneRing
  BY DEF UartInv, OneRing
<1> QED
  BY <1>1, UartInvariance, PTL

----------------------------------------------------------------------------
(* What was received *)

\* u is the end of q.
Ends(q, u) ==
  /\ Len(u) <= Len(q)
  /\ \A i \in 1 .. Len(u) : u[i] = q[Len(q) - Len(u) + i]

\* One more byte on both, the oldest dropped where there is no room.
LEMMA EndsAppend ==
  ASSUME NEW size \in Nat \ {0}, NEW q \in Seq(RxByte), NEW u \in Seq(RxByte), NEW b \in RxByte,
         Ends(q, u), Len(q) <= size
  PROVE  Ends(Append(IF Len(q) = size THEN Tail(q) ELSE q, b),
              Append(IF Len(u) = size THEN Tail(u) ELSE u, b))
<1> DEFINE qk == IF Len(q) = size THEN Tail(q) ELSE q
           uk == IF Len(u) = size THEN Tail(u) ELSE u
           dq == IF Len(q) = size THEN 1 ELSE 0
           du == IF Len(u) = size THEN 1 ELSE 0
<1>1. /\ qk \in Seq(RxByte) /\ Len(qk) = Len(q) - dq
      /\ \A i \in 1 .. Len(qk) : qk[i] = q[i + dq]
  OBVIOUS
<1>2. /\ uk \in Seq(RxByte) /\ Len(uk) = Len(u) - du
      /\ \A i \in 1 .. Len(uk) : uk[i] = u[i + du]
  OBVIOUS
<1>3. Len(q) \in Nat /\ Len(u) \in Nat
  OBVIOUS
<1> HIDE DEF qk, uk
<1> DEFINE q2 == Append(qk, b)
           u2 == Append(uk, b)
<1>4. /\ Len(q2) = Len(qk) + 1 /\ q2[Len(q2)] = b
      /\ \A i \in 1 .. Len(qk) : q2[i] = qk[i]
  BY ONLY <1>1, b \in RxByte
<1>5. /\ Len(u2) = Len(uk) + 1 /\ u2[Len(u2)] = b
      /\ \A i \in 1 .. Len(uk) : u2[i] = uk[i]
  BY ONLY <1>2, b \in RxByte
<1> HIDE DEF q2, u2
<1>6. Len(u2) <= Len(q2)
  <2>1. Len(u) <= Len(q)
    BY DEF Ends
  <2>2. Len(q2) = Len(q) - dq + 1 /\ Len(u2) = Len(u) - du + 1
    BY ONLY <1>1, <1>2, <1>4, <1>5
  <2>3. Len(q) <= size /\ size \in Nat
    OBVIOUS
  <2> QED BY ONLY <1>3, <2>1, <2>2, <2>3
<1>7. ASSUME NEW i \in 1 .. Len(u2) PROVE u2[i] = q2[Len(q2) - Len(u2) + i]
  <2>1. CASE i = Len(u2)
    BY <2>1, <1>3, <1>4, <1>5, <1>1, <1>2
  <2>2. CASE i # Len(u2)
    <3> DEFINE k == Len(q2) - Len(u2) + i
    <3>0. /\ Len(q2) = Len(q) - dq + 1 /\ Len(u2) = Len(u) - du + 1
          /\ Len(qk) = Len(q) - dq /\ Len(uk) = Len(u) - du
          /\ dq \in {0, 1} /\ du \in {0, 1}
      BY <1>1, <1>2, <1>4, <1>5
    <3> HIDE DEF dq, du
    <3>1. i \in 1 .. Len(uk) /\ k \in 1 .. Len(qk) /\ i + du \in 1 .. Len(u)
      BY <2>2, <3>0, <1>3, <1>6
    <3>2. k + dq = Len(q) - Len(u) + (i + du)
      BY <3>0, <1>3
    <3>3. u2[i] = u[i + du] /\ q2[k] = q[k + dq]
      BY <3>1, <1>1, <1>2, <1>4, <1>5
    <3> HIDE DEF k
    <3>4. u[i + du] = q[Len(q) - Len(u) + (i + du)]
      BY <3>1 DEF Ends
    <3> QED
      BY <3>2, <3>3, <3>4 DEF k
  <2> QED
    BY <2>1, <2>2
<1> QED
  BY <1>6, <1>7 DEF Ends, q2, u2, qk, uk

\* The oldest byte of q goes, and that of u if it is the same.
LEMMA EndsTail ==
  ASSUME NEW q \in Seq(RxByte), NEW u \in Seq(RxByte), Ends(q, u), q # <<>>
  PROVE  Ends(Tail(q), IF Len(u) = Len(q) THEN Tail(u) ELSE u)
<1> DEFINE q2 == Tail(q)
           u2 == IF Len(u) = Len(q) THEN Tail(u) ELSE u
           du == IF Len(u) = Len(q) THEN 1 ELSE 0
<1>1. Len(q) \in Nat \ {0} /\ Len(u) \in Nat
  OBVIOUS
<1>2. Len(q2) = Len(q) - 1 /\ \A i \in 1 .. Len(q2) : q2[i] = q[i + 1]
  OBVIOUS
<1>3. Len(u2) = Len(u) - du /\ \A i \in 1 .. Len(u2) : u2[i] = u[i + du]
  BY <1>1
<1> HIDE DEF q2, u2
<1>4. Len(u2) <= Len(q2)
  BY <1>1, <1>2, <1>3 DEF Ends
<1>5. ASSUME NEW i \in 1 .. Len(u2) PROVE u2[i] = q2[Len(q2) - Len(u2) + i]
  <2> DEFINE k == Len(q2) - Len(u2) + i
  <2>1. k \in 1 .. Len(q2) /\ i + du \in 1 .. Len(u) /\ k + 1 = Len(q) - Len(u) + (i + du)
    <3>1. du \in {0, 1}
      OBVIOUS
    <3> HIDE DEF du
    <3> QED
      BY ONLY i \in 1 .. Len(u2), <1>1, <1>2, <1>3, <1>4, <3>1
  <2>2. u2[i] = u[i + du] /\ q2[k] = q[k + 1]
    BY <2>1, <1>2, <1>3
  <2> HIDE DEF k, du
  <2>3. u[i + du] = q[Len(q) - Len(u) + (i + du)]
    BY <2>1 DEF Ends
  <2> QED
    BY <2>1, <2>2, <2>3 DEF k
<1> QED
  BY <1>4, <1>5 DEF Ends, q2, u2

\* Some bytes of which the last are those received
Keeps(rb, at, g, u) == \E q \in Seq(RxByte) : Whole(RxSize, rb, at, g, q) /\ Ends(q, u)

\* The ring fits, and while the driver points to it, unless a read of it was torn, it
\* holds such bytes.
KeptInv ==
  /\ Fits(RxSize, RxByte, ring, line, ptr)
  /\ unread \in Seq(RxByte)
  /\ rx_buf = "ring" /\ ~raced => Keeps(ring, line, ptr, unread)

\* The invariant holds at boot.
LEMMA InitKeptInv == UartInit => KeptInv
<1> SUFFICES ASSUME UartInit PROVE KeptInv
  OBVIOUS
<1>1. PICK b \in RxByte : ring = ringbuf_alloc(RxSize, FALSE, FALSE, [i \in 0 .. RxSize - 1 |-> b])
  BY DEF UartInit
<1>2. ring \in Ring(RxSize, RxByte) /\ ring.readptr = 0
  BY <1>1, UartAssumption DEF ringbuf_alloc, Ring
<1>3. unread \in Seq(RxByte) /\ rx_buf # "ring" /\ line = "idle" /\ ptr = 0
  BY DEF UartInit
<1> QED
  BY <1>2, <1>3, UartAssumption DEF KeptInv, Fits

\* A new ring holds nothing, or a buffer full of junk if its status says so.
LEMMA AllocKeepsInv ==
  ASSUME KeptInv, NEW ful \in BOOLEAN, NEW ovf \in BOOLEAN, NEW bytes \in [0 .. RxSize - 1 -> RxByte],
         OpenAllocates(ful, ovf, bytes)
  PROVE  KeptInv'
<1>1. /\ ring' = ringbuf_alloc(RxSize, ful, ovf, bytes) /\ unread' = <<>>
      /\ line' = "idle" /\ ptr' = ptr
  BY DEF OpenAllocates
<1>2. /\ ring' \in Ring(RxSize, RxByte) /\ ring'.readptr = 0 /\ ring'.writeptr = 0
      /\ ring'.ful = ful /\ ring'.buffer = bytes
  BY <1>1, UartAssumption DEF ringbuf_alloc, Ring
<1> DEFINE q == IF ful THEN [i \in 1 .. RxSize |-> bytes[i - 1]] ELSE <<>>
<1>3. q \in Seq(RxByte) /\ Len(q) = (IF ful THEN RxSize ELSE 0)
  BY UartAssumption
<1>4. \A i \in 1 .. Len(q) : q[i] = bytes[i - 1]
  BY <1>3, UartAssumption
<1>5. ful <=> q # <<>>
  BY <1>3, UartAssumption
<1> HIDE DEF q
<1>6. HoldsAt(RxSize, 0, 0, bytes, q)
  BY <1>3, <1>4, UartAssumption DEF HoldsAt, Wrap
<1>7. Whole(RxSize, ring', "idle", ptr, q)
  BY <1>2, <1>5, <1>6 DEF Whole, Front, Reading
<1>8. Ends(q, unread')
  BY <1>1, <1>3, UartAssumption DEF Ends
<1>9. Fits(RxSize, RxByte, ring', "idle", ptr)
  BY <1>2, UartAssumption DEF KeptInv, Fits
<1>10. Keeps(ring', "idle", ptr, unread')
  BY <1>3, <1>7, <1>8 DEF Keeps
<1> QED
  BY <1>1, <1>9, <1>10 DEF KeptInv

\* The handler adds what it receives.
LEMMA InterruptKeepsInv ==
  ASSUME KeptInv, NEW value \in RxByte, uart8250_interrupt(value)
  PROVE  KeptInv'
<1> USE UartAssumption
<1>1. CASE Stores /\ rx_buf = "ring"
  <2>1. /\ ring' = ringbuf_write(ring, value) /\ unread' = Received(unread, RxSize, value)
        /\ raced' = (raced \/ Tears(line, Count(Settle(ring, line, ptr)), RxSize))
        /\ UNCHANGED <<line, ptr, rx_buf>>
    BY <1>1 DEF uart8250_interrupt, Received
  <2>2. Fits(RxSize, RxByte, ring, line, ptr) /\ unread \in Seq(RxByte)
    BY DEF KeptInv
  <2>3. Fits(RxSize, RxByte, ringbuf_write(ring, value), line, ptr)
    BY <2>2, WriteFits
  <2>4. unread' \in Seq(RxByte)
    BY <2>1, <2>2, ReceivedTypes
  <2>5. ASSUME ~raced' PROVE Keeps(ring', line, ptr, unread')
    <3>1. ~raced /\ ~Tears(line, Count(Settle(ring, line, ptr)), RxSize)
      BY <2>1, <2>5, Zenon
    <3>2. PICK q \in Seq(RxByte) : Whole(RxSize, ring, line, ptr, q) /\ Ends(q, unread)
      BY <1>1, <3>1 DEF KeptInv, Keeps
    <3>3. Count(Settle(ring, line, ptr)) = Len(q)
      BY <2>2, <3>2, SettledContents
    <3>4. Whole(RxSize, ringbuf_write(ring, value), line, ptr, Received(q, RxSize, value))
      BY <2>2, <3>1, <3>2, <3>3, HandlerWhole
    <3>5. Len(q) <= RxSize
      BY <3>2 DEF Whole, HoldsAt
    <3>6. Ends(Received(q, RxSize, value), unread')
      BY <2>1, <2>2, <3>2, <3>5, EndsAppend DEF Received
    <3>7. Received(q, RxSize, value) \in Seq(RxByte)
      BY ReceivedTypes
    <3> QED BY <2>1, <3>4, <3>6, <3>7 DEF Keeps
  <2> QED
    BY <2>1, <2>3, <2>4, <2>5 DEF KeptInv
<1>2. CASE ~(Stores /\ rx_buf = "ring")
  BY <1>2 DEF KeptInv, uart8250_interrupt
<1> QED
  BY <1>1, <1>2

\* A step outside ringbuf_read leaves the ring alone.
LEMMA ElsewhereKeeps ==
  ASSUME KeptInv, UNCHANGED <<ring, ptr, unread, raced>>, rx_buf' = "ring" => rx_buf = "ring",
         line \notin Reading, line' \notin Reading \cup {"index", "byte"}
  PROVE  KeptInv'
<1>1. Fits(RxSize, RxByte, ring', line', ptr')
  BY DEF KeptInv, Fits, Reading
<1>2. ASSUME rx_buf' = "ring", ~raced' PROVE Keeps(ring', line', ptr', unread')
  <2>1. PICK q \in Seq(RxByte) : Whole(RxSize, ring, line, ptr, q) /\ Ends(q, unread)
    BY <1>2 DEF KeptInv, Keeps
  <2>2. Whole(RxSize, ring', line', ptr', q)
    BY <2>1, ElsewhereWhole
  <2> QED BY <2>1, <2>2 DEF Keeps
<1> QED BY <1>1, <1>2 DEF KeptInv

\* A read takes the oldest byte, junk or received.
LEMMA ByteKeeps == KeptInv /\ ReadLoadsByte => KeptInv'
<1> SUFFICES ASSUME KeptInv, ReadLoadsByte PROVE KeptInv'
  OBVIOUS
<1> USE UartAssumption
<1>1. /\ line = "byte" /\ line' = "load" /\ UNCHANGED <<rx_buf, ring, ptr, raced>>
      /\ unread' = IF unread # <<>> /\ Len(unread) >= Count(ring) THEN Tail(unread) ELSE unread
  BY DEF ReadLoadsByte
<1>2. Fits(RxSize, RxByte, ring, "byte", ptr) /\ unread \in Seq(RxByte)
  BY <1>1 DEF KeptInv
<1>3. Fits(RxSize, RxByte, ring, "load", ptr)
  BY <1>2, StepFits
<1>4. unread' \in Seq(RxByte)
  BY <1>1, <1>2
<1>5. ASSUME rx_buf = "ring", ~raced PROVE Keeps(ring, "load", ptr, unread')
  <2>1. PICK q \in Seq(RxByte) : Whole(RxSize, ring, "byte", ptr, q) /\ Ends(q, unread)
    BY <1>1, <1>5 DEF KeptInv, Keeps
  <2>2. Whole(RxSize, ring, "load", ptr, Tail(q))
    BY <1>2, <2>1, ByteWhole
  <2>3. q # <<>>
    BY <2>1 DEF Whole
  <2>4. Count(ring) = Len(q)
    <3>1. Settle(ring, "byte", ptr) = ring
      BY DEF Settle
    <3>2. Count(Settle(ring, "byte", ptr)) = Len(q)
      BY <1>2, <2>1, SettledContents
    <3> QED BY <3>1, <3>2
  <2>5. unread' = IF Len(unread) = Len(q) THEN Tail(unread) ELSE unread
    <3>1. Len(unread) <= Len(q) /\ Len(unread) \in Nat /\ Len(q) \in Nat \ {0}
      BY <1>2, <2>1, <2>3 DEF Ends
    <3>2. Len(unread) = Len(q) => unread # <<>>
      BY <3>1
    <3>3. Len(unread) >= Len(q) <=> Len(unread) = Len(q)
      BY <3>1
    <3> QED BY ONLY <1>1, <2>4, <3>2, <3>3, Zenon
  <2>6. Ends(Tail(q), unread')
    BY <1>2, <2>1, <2>3, <2>5, EndsTail
  <2>7. Tail(q) \in Seq(RxByte)
    BY <2>3
  <2> QED BY <2>2, <2>6, <2>7 DEF Keeps
<1> QED
  BY <1>1, <1>3, <1>4, <1>5 DEF KeptInv

\* The other steps of a read keep all the bytes.
LEMMA StepKeeps ==
  ASSUME KeptInv, UNCHANGED <<rx_buf, unread, raced>>, Fits(RxSize, RxByte, ring', line', ptr'),
         \A q \in Seq(RxByte) : Whole(RxSize, ring, line, ptr, q) => Whole(RxSize, ring', line', ptr', q)
  PROVE  KeptInv'
<1>1. ASSUME rx_buf = "ring", ~raced PROVE Keeps(ring', line', ptr', unread')
  <2>1. PICK q \in Seq(RxByte) : Whole(RxSize, ring, line, ptr, q) /\ Ends(q, unread)
    BY <1>1 DEF KeptInv, Keeps
  <2> QED BY <2>1 DEF Keeps
<1> QED BY <1>1 DEF KeptInv

\* Every step keeps the invariant.
LEMMA NextKeptInv == KeptInv /\ [UartNext]_uartVars => KeptInv'
<1> SUFFICES ASSUME KeptInv, [UartNext]_uartVars PROVE KeptInv'
  OBVIOUS
<1>0. RxSize \in Nat \ {0} /\ Fits(RxSize, RxByte, ring, line, ptr)
  BY UartAssumption DEF KeptInv
<1>1. ASSUME NEW value \in RxByte, uart8250_interrupt(value) PROVE KeptInv'
  BY <1>1, InterruptKeepsInv
<1>2. ASSUME NEW f \in Flags, OpenReserves(f) PROVE KeptInv'
  BY <1>2, ElsewhereKeeps DEF OpenReserves, Reading
<1>3. ASSUME NEW n \in RxLens, ReadCall(n) PROVE KeptInv'
  BY <1>3, ElsewhereKeeps DEF ReadCall, Reading
<1>4. ASSUME NEW ful \in BOOLEAN, NEW ovf \in BOOLEAN, NEW bytes \in [0 .. RxSize - 1 -> RxByte],
             OpenAllocates(ful, ovf, bytes)
      PROVE  KeptInv'
  BY <1>4, AllocKeepsInv
<1>5. CASE OpenRefused \/ CloseRefused
  BY <1>5, ElsewhereKeeps DEF OpenRefused, CloseRefused, Reading
<1>6. CASE OpenFindsNoMemory \/ CloseFrees
  <2>1. /\ rx_buf' # "ring" /\ unread' = <<>> /\ UNCHANGED <<ring, ptr>>
        /\ line \in {"opening", "idle"} /\ line' \in {"idle", "closing"}
    BY <1>6 DEF OpenFindsNoMemory, CloseFrees
  <2>2. unread' \in Seq(RxByte)
    BY <2>1
  <2>3. Fits(RxSize, RxByte, ring', line', ptr')
    BY <1>0, <2>1 DEF Fits
  <2> QED BY <2>1, <2>2, <2>3 DEF KeptInv
<1>7. CASE CloseReleases
  BY <1>7, ElsewhereKeeps DEF CloseReleases, Reading
<1>8. CASE ReadTest
  <2>1. /\ line = "test" /\ UNCHANGED <<rx_buf, ring, ptr, unread, raced>>
        /\ line' = "idle" \/ (line' = "index" /\ ringbuf_test_ready(ring))
    BY <1>8 DEF ReadTest, Readable
  <2>2. CASE line' = "idle"
    BY <2>1, <2>2, ElsewhereKeeps DEF Reading
  <2>3. CASE line' = "index" /\ ringbuf_test_ready(ring)
    <3>1. Fits(RxSize, RxByte, ring', line', ptr')
      BY <1>0, <2>1, <2>3 DEF Fits
    <3> QED BY <1>0, <2>1, <2>3, <3>1, TestWhole, StepKeeps
  <2> QED BY <2>1, <2>2, <2>3
<1>9. CASE ReadLoadsIndex
  <2>1. /\ line = "index" /\ line' = "byte" /\ ring' = ring /\ ptr' = ReadIndex(ring)
        /\ UNCHANGED <<rx_buf, unread, raced>>
    BY <1>9 DEF ReadLoadsIndex
  <2>2. Fits(RxSize, RxByte, ring', line', ptr')
    BY <1>0, <2>1, StepFits
  <2> QED BY <2>1, <2>2, IndexWhole, StepKeeps
<1>10. CASE ReadLoadsByte
  BY <1>10, ByteKeeps
<1>11. CASE ReadLoadsPtr
  <2>1. /\ line = "load" /\ line' = "store" /\ ring' = ring /\ ptr' = ReadNext(ring)
        /\ UNCHANGED <<rx_buf, unread, raced>>
    BY <1>11 DEF ReadLoadsPtr
  <2>2. Fits(RxSize, RxByte, ring', line', ptr')
    BY <1>0, <2>1, StepFits
  <2> QED BY <1>0, <2>1, <2>2, LoadWhole, StepKeeps
<1>12. CASE ReadStoresPtr
  <2>1. /\ line = "store" /\ line' = "wrap" /\ ring' = StoreNext(ring, ptr) /\ ptr' = ptr
        /\ UNCHANGED <<rx_buf, unread, raced>>
    BY <1>12 DEF ReadStoresPtr
  <2>2. Fits(RxSize, RxByte, ring', line', ptr')
    BY <1>0, <2>1, StepFits
  <2> QED BY <1>0, <2>1, <2>2, StoreWhole, StepKeeps
<1>13. CASE ReadWraps
  <2>1. /\ line = "wrap" /\ line' = "clear" /\ ring' = WrapNext(ring, ptr) /\ ptr' = ptr
        /\ UNCHANGED <<rx_buf, unread, raced>>
    BY <1>13 DEF ReadWraps
  <2>2. Fits(RxSize, RxByte, ring', line', ptr')
    BY <1>0, <2>1, StepFits
  <2> QED BY <1>0, <2>1, <2>2, WrapWhole, StepKeeps
<1>14. CASE ReadClears
  <2>1. /\ line = "clear" /\ line' = "test" /\ ring' = ClearStatus(ring) /\ ptr' = 0
        /\ UNCHANGED <<rx_buf, unread, raced>>
    BY <1>14 DEF ReadClears
  <2>2. Fits(RxSize, RxByte, ring', line', ptr')
    BY <1>0, <2>1, StepFits
  <2> QED BY <1>0, <2>1, <2>2, ClearWhole, StepKeeps
<1>15. CASE UNCHANGED uartVars
  BY <1>15 DEF KeptInv, uartVars
<1> QED
  BY <1>1, <1>2, <1>3, <1>4, <1>5, <1>6, <1>7, <1>8, <1>9, <1>10, <1>11, <1>12, <1>13, <1>14, <1>15
     DEF UartNext, ReadStep

\* No received byte is lost to a stale status word, nor to an interrupt between two
\* instructions of ringbuf_read that does not fill the ring, for any size of the ring.
THEOREM ReceivedBytesAreKept == UartSpec => []ReceivedIsKept
<1>1. KeptInv => ReceivedIsKept
  <2> SUFFICES ASSUME KeptInv, rx_buf = "ring", ~raced PROVE ReceivedIsKept
    BY DEF ReceivedIsKept
  <2>1. PICK q \in Seq(RxByte) : Whole(RxSize, ring, line, ptr, q) /\ Ends(q, unread)
    BY DEF KeptInv, Keeps
  <2>2. Contents(Settle(ring, line, ptr)) = q
    BY <2>1, SettledContents, UartAssumption DEF KeptInv
  <2> DEFINE k == Len(q) - Len(unread)
             rest == SubSeq(q, k + 1, Len(q))
  <2>3. k \in Nat /\ Len(q) \in Nat /\ Len(unread) \in Nat /\ unread \in Seq(RxByte)
    BY <2>1 DEF Ends, KeptInv
  <2>4. Len(rest) = Len(unread) /\ rest \in Seq(RxByte) /\ \A i \in 1 .. Len(unread) : rest[i] = q[k + i]
    BY <2>3
  <2> HIDE DEF rest
  <2>5. unread = rest
    <3>1. \A i \in 1 .. Len(unread) : unread[i] = rest[i]
      BY ONLY <2>1, <2>4 DEF Ends, k
    <3>2. \A s, t \in Seq(RxByte) : Len(s) = Len(t) /\ (\A i \in 1 .. Len(s) : s[i] = t[i]) => s = t
      BY ONLY TRUE
    <3> QED BY ONLY <2>3, <2>4, <3>1, <3>2, Zenon
  <2> QED
    BY <2>1, <2>2, <2>5 DEF ReceivedIsKept, Ends, rest
<1> QED
  BY <1>1, InitKeptInv, NextKeptInv, PTL DEF UartSpec
=============================================================================
