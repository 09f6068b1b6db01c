------------------------------ MODULE Keyboard ------------------------------
(***************************************************************************)
(* The keyboard driver (kernel/device/kbd.c): the handler of interrupt     *)
(* 0x21 puts scancodes in a ring buffer, and keyboard_read takes them out  *)
(* with interrupts enabled.  The handler runs behind an interrupt gate, so *)
(* it is never interrupted itself: it is one step, between any two steps   *)
(* of keyboard_read.                                                       *)
(***************************************************************************)
EXTENDS RingBuf

CONSTANTS Size,     \* the size of the ring buffer (1024 in the code)
          Byte,     \* scancodes
          Lens,     \* the lengths that readers ask for
          NoByte    \* no scancode

ASSUME KeyboardAssumption ==
  /\ Size \in Nat \ {0}
  /\ Lens \subseteq Nat
  /\ NoByte \notin Byte

VARIABLES rbuf,     \* keyboard_rbuf
          pc,       \* where the reader is in keyboard_read
          len,      \* its argument
          total,    \* its count of bytes read
          byte,     \* ringbuf_read's local
          reg,      \* its register: readptr, later readptr + 1
          pending,  \* auxiliary: scancodes received, not read, not overwritten
          torn      \* auxiliary: a handler ran inside ringbuf_read and wrote to
                    \* the slot being read, or left every slot unread

vars == <<rbuf, pc, len, total, byte, reg, pending, torn>>

\* keyboard_init.  It runs during boot, before anything is freed: the heap
\* cells malloc returns have not been used, and the loader has zeroed them.
Init ==
  /\ \E b \in Byte :
       rbuf = ringbuf_alloc(Size, FALSE, FALSE, [i \in 0 .. Size - 1 |-> b])
  /\ pc = "idle"
  /\ len = 0
  /\ total = 0
  /\ byte = NoByte
  /\ reg = 0
  /\ pending = <<>>
  /\ torn = FALSE

----------------------------------------------------------------------------
(* keyboard_key_handler *)

keyboard_key_handler(scancode) ==
  /\ rbuf' = ringbuf_write(rbuf, scancode)
  /\ pending' = Append(IF Len(pending) = Size THEN Tail(pending) ELSE pending,
                       scancode)
  /\ torn' = (torn \/ Tears(pc, Len(pending), Size))
  /\ UNCHANGED <<pc, len, total, byte, reg>>

----------------------------------------------------------------------------
(* keyboard_read *)

Call(n) ==
  /\ pc = "idle"
  /\ pc' = "test"
  /\ len' = n
  /\ total' = 0
  /\ UNCHANGED <<rbuf, byte, reg, pending, torn>>

\* Mutant: a byte more.
MoreWanted_OneMore == total <= len + 1

\* while (total <= len && ...)
MoreWanted == total <= len

Test ==
  /\ pc = "test"
  /\ pc' = IF MoreWanted /\ ringbuf_test_ready(rbuf) THEN "index" ELSE "idle"
  /\ UNCHANGED <<rbuf, len, total, byte, reg, pending, torn>>

LoadIndex ==
  /\ pc = "index"
  /\ reg' = ReadIndex(rbuf)
  /\ pc' = "byte"
  /\ UNCHANGED <<rbuf, len, total, byte, pending, torn>>

LoadByte ==
  /\ pc = "byte"
  /\ byte' = ReadByte(rbuf, reg)
  /\ pending' = IF pending = <<>> THEN <<>> ELSE Tail(pending)
  /\ pc' = "load"
  /\ UNCHANGED <<rbuf, len, total, reg, torn>>

LoadPtr ==
  /\ pc = "load"
  /\ reg' = ReadNext(rbuf)
  /\ pc' = "store"
  /\ UNCHANGED <<rbuf, len, total, byte, pending, torn>>

StorePtr ==
  /\ pc = "store"
  /\ rbuf' = StoreNext(rbuf, reg)
  /\ pc' = "wrap"
  /\ UNCHANGED <<len, total, byte, reg, pending, torn>>

WrapPtr ==
  /\ pc = "wrap"
  /\ rbuf' = WrapNext(rbuf, reg)
  /\ pc' = "clear"
  /\ UNCHANGED <<len, total, byte, reg, pending, torn>>

\* Mutant: the byte is not counted.
Clear_NoCount ==
  /\ pc = "clear"
  /\ rbuf' = ClearStatus(rbuf)
  /\ byte' = NoByte
  /\ reg' = 0
  /\ pc' = "test"
  /\ UNCHANGED <<len, total, pending, torn>>

\* status = 0, then keyboard_read stores the byte and counts it.
Clear ==
  /\ pc = "clear"
  /\ rbuf' = ClearStatus(rbuf)
  /\ total' = total + 1
  /\ byte' = NoByte
  /\ reg' = 0
  /\ pc' = "test"
  /\ UNCHANGED <<len, pending, torn>>

\* keyboard_read runs to its end: nothing in it waits.  Keys may come or not.
ReaderStep == Test \/ LoadIndex \/ LoadByte \/ LoadPtr \/ StorePtr \/ WrapPtr \/ Clear

Next ==
  \/ \E scancode \in Byte : keyboard_key_handler(scancode)
  \/ \E n \in Lens : Call(n)
  \/ ReaderStep

Spec == Init /\ [][Next]_vars

FairSpec == Spec /\ WF_vars(ReaderStep)

----------------------------------------------------------------------------
(* Properties *)

\* Every variable has its type.  The read pointer equals the size only between
\* the two stores of ringbuf_read, and a read returns at most one byte more
\* than was asked for (the <= of keyboard_read's loop).
TypeOK ==
  /\ rbuf \in Ring(Size, Byte)
  /\ pc \in {"idle", "test", "index", "byte"} \cup Reading
  /\ rbuf.readptr = Size => pc = "wrap"
  /\ len \in Lens \cup {0}
  /\ total \in 0 .. len + 1
  /\ byte \in Byte \cup {NoByte}
  /\ reg \in 0 .. Size
  /\ pending \in Seq(Byte)
  /\ Len(pending) <= Size
  /\ torn \in BOOLEAN

\* The ring as the ringbuf_read in progress will leave it.
Settled == Settle(rbuf, pc, reg)

\* As long as no interrupt inside ringbuf_read has filled the ring, it
\* holds, in order, the scancodes that were received and neither read nor
\* overwritten: interrupts between any two instructions of ringbuf_read lose,
\* repeat and reorder nothing, and an overflow costs the oldest scancode only.
RingHoldsPending == ~torn => Contents(Settled) = pending

\* Under the same condition ringbuf_test_ready, asked between two reads, tells
\* whether a scancode waits, a full ring (equal pointers) included.
ReadyMeansPending ==
  (~torn /\ pc \notin Reading) => (ringbuf_test_ready(rbuf) <=> pending # <<>>)

\* Under the same condition ringbuf_read is only reached with a byte to read,
\* and it returns the oldest one, also if the handler has overwritten what was
\* the oldest when ringbuf_test_ready was asked.
ReadsOldest ==
  [][(~torn /\ pc = "byte" /\ pc' = "load")
       => (pending # <<>> /\ byte' = Head(pending))]_vars

\* Under the same condition a write that overwrites a byte still waiting to be
\* read marks the ring as overflown.
OverwriteIsMarked ==
  [][(~torn' /\ Len(pending) = Size /\ rbuf'.buffer # rbuf.buffer)
       => ringbuf_test_overflow(rbuf')]_vars

\* keyboard_read returns even if keys keep coming: it never waits for a key,
\* and the loop is bounded by the length asked for.
ReadReturns == (pc # "idle") ~> (pc = "idle")

\* sys/ringbuf.h: ringbuf_test_ready returns "a non-zero value if the buffer
\* contains data waiting to be read".  It does not: when an interrupt
\* inside ringbuf_read fills the ring, the status = 0 at the end of ringbuf_read
\* erases the RINGBUF_FUL it has set, and a full ring then looks empty.
DataMeansReady ==
  (pc \notin Reading /\ pending # <<>>) => ringbuf_test_ready(rbuf)
=============================================================================
