------------------------------ MODULE RingBuf ------------------------------
(***************************************************************************)
(* The byte ring buffer of kernel/stdkern/ringbuf.c.  A ring is a record:  *)
(* its size, its two pointers, the bits RINGBUF_FUL and RINGBUF_OVF of its *)
(* status word, and its bytes.                                             *)
(***************************************************************************)
EXTENDS Integers, Sequences

Ring(size, Byte) ==
  [size : {size}, writeptr : 0 .. size - 1, readptr : 0 .. size,
   ful : BOOLEAN, ovf : BOOLEAN, buffer : [0 .. size - 1 -> Byte]]

\* ringbuf_alloc sets the size and the pointers.  The status word and the
\* bytes are what malloc's memory happens to hold.
ringbuf_alloc(size, ful, ovf, bytes) ==
  [size |-> size, writeptr |-> 0, readptr |-> 0,
   ful |-> ful, ovf |-> ovf, buffer |-> bytes]

\* ++ptr, back to 0 at the end of the buffer.
Advance(ptr, size) == IF ptr + 1 = size THEN 0 ELSE ptr + 1

ringbuf_test_overflow(rb) == rb.ovf

\* Mutant: the full ring is forgotten.
ringbuf_test_ready_NoFull(rb) == rb.writeptr # rb.readptr

ringbuf_test_ready(rb) == rb.writeptr # rb.readptr \/ rb.ful

\* ringbuf_write is about to overwrite the oldest byte.
Overflows(rb) == rb.writeptr = rb.readptr /\ rb.ful

\* Mutant: the overflow is not marked.
ringbuf_write_Unmarked(rb, byte) ==
  LET read  == IF Overflows(rb) THEN Advance(rb.readptr, rb.size) ELSE rb.readptr
      write == Advance(rb.writeptr, rb.size)
  IN  [rb EXCEPT !.readptr = read, !.buffer[rb.writeptr] = byte,
                 !.writeptr = write, !.ful = @ \/ write = read]

\* Mutant: the read pointer stays where it is when the ring overflows.
ringbuf_write_KeepsOldest(rb, byte) ==
  LET write == Advance(rb.writeptr, rb.size)
  IN  [rb EXCEPT !.ovf = @ \/ Overflows(rb), !.buffer[rb.writeptr] = byte,
                 !.writeptr = write, !.ful = @ \/ write = rb.readptr]

ringbuf_write(rb, byte) ==
  LET read  == IF Overflows(rb) THEN Advance(rb.readptr, rb.size) ELSE rb.readptr
      write == Advance(rb.writeptr, rb.size)
  IN  [rb EXCEPT !.ovf = @ \/ Overflows(rb), !.readptr = read,
                 !.buffer[rb.writeptr] = byte, !.writeptr = write,
                 !.ful = @ \/ write = read]

(***************************************************************************)
(* ringbuf_read, step by step.  The build (clang -O0) compiles it to       *)
(* one load or store after the other, and an interrupt may come between    *)
(* any two of them.                                                        *)
(***************************************************************************)
ReadIndex(rb)       == rb.readptr                        \* byte = buffer[readptr]:
ReadByte(rb, index) == rb.buffer[index]                  \*   the index, then the byte
ReadNext(rb)        == rb.readptr + 1                    \* the load in ++readptr
StoreNext(rb, next) == [rb EXCEPT !.readptr = next]      \* the store in ++readptr
WrapNext(rb, next)  ==                                   \* if (... == size)
  IF next = rb.size THEN [rb EXCEPT !.readptr = 0] ELSE rb
ClearStatus(rb)     == [rb EXCEPT !.ful = FALSE, !.ovf = FALSE]

\* The whole of ringbuf_read, when nothing interrupts it.
ringbuf_read(rb) ==
  ClearStatus(WrapNext(StoreNext(rb, ReadNext(rb)), ReadNext(rb)))

\* Inside ringbuf_read, the byte fetched and the status not cleared yet.
Reading == {"load", "store", "wrap", "clear"}

\* The ring as a ringbuf_read that has come to the step at, with next in its
\* register, will leave it.
Settle(rb, at, next) ==
  CASE at = "load"  -> ringbuf_read(rb)
    [] at = "store" -> ClearStatus(WrapNext(StoreNext(rb, next), next))
    [] at = "wrap"  -> ClearStatus(WrapNext(rb, next))
    [] at = "clear" -> ClearStatus(rb)
    [] OTHER        -> rb

\* A write to a ring of count bytes tears the ringbuf_read that has come to the step
\* at: it goes to the slot that is being read, or it leaves every slot unread, and the
\* ClearStatus to come makes that look like none.
Tears(at, count, size) ==
  \/ at = "byte" /\ count = size
  \/ at \in Reading /\ count >= size - 1

(***************************************************************************)
(* What the ring stands for: the bytes between the pointers, oldest first. *)
(***************************************************************************)
Count(rb) ==
  IF rb.writeptr = rb.readptr THEN (IF rb.ful THEN rb.size ELSE 0)
  ELSE (rb.writeptr - rb.readptr) % rb.size

Contents(rb) ==
  [i \in 1 .. Count(rb) |-> rb.buffer[(rb.readptr + i - 1) % rb.size]]
=============================================================================
