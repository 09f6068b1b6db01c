-------------------------------- MODULE Uart --------------------------------
(***************************************************************************)
(* The life of the serial port driver (kernel/device/uart8250.c): open and *)
(* close allocate and free the receive ring in steps, and the handler of   *)
(* interrupt 0x24 may come between any two of them, and between any two    *)
(* instructions of the ringbuf_read that uart8250_read calls.              *)
(***************************************************************************)
EXTENDS RingBuf

CONSTANTS RxSize,  \* the size of the receive ring (4096 in the code)
          RxByte,  \* received bytes
          RxLens   \* the lengths that readers ask for

ASSUME UartAssumption == RxSize \in Nat \ {0} /\ RxLens \subseteq Nat

VARIABLES flags,   \* uart8250_context.flags
          rx_buf,  \* what uart8250_context.rx_buf points to: nothing (NULL), a
                   \* ring, or memory that was a ring and has been freed
          ring,    \* that ring
          line,    \* where the main line is, in ringbuf_read as in the module RingBuf
          ret,     \* what the last call of open or close returned
          want,    \* the bytes that the read in progress may still take
          ptr,     \* ringbuf_read's register: readptr, later readptr + 1
          orphans, \* auxiliary: a ring is allocated that nothing points to
          unread,  \* auxiliary: the bytes received since open and not read
          raced,   \* auxiliary: the handler tore a ringbuf_read of this ring
          used,    \* auxiliary: what the last ring operation was done on
          unmarked \* auxiliary: open was called with no flag at all

uartVars ==
  <<flags, rx_buf, ring, line, ret, want, ptr, orphans, unread, raced, used, unmarked>>

\* VO_FREAD, VO_FWRITE, VO_FBINARY
Flags == SUBSET {"read", "write", "binary"}

\* The static context is zero at boot.
UartInit ==
  /\ flags = {}
  /\ rx_buf = "null"
  /\ \E b \in RxByte :
       ring = ringbuf_alloc(RxSize, FALSE, FALSE, [i \in 0 .. RxSize - 1 |-> b])
  /\ line = "idle"
  /\ ret = 0
  /\ want = 0
  /\ ptr = 0
  /\ orphans = FALSE
  /\ unread = <<>>
  /\ raced = FALSE
  /\ used = "ring"
  /\ unmarked = FALSE

----------------------------------------------------------------------------
(* uart8250_interrupt: one pass of its loop.  *)

Stores == "write" \in flags

uart8250_interrupt(value) ==
  /\ IF Stores
     THEN /\ used' = rx_buf
          /\ IF rx_buf = "ring"
             THEN /\ ring' = ringbuf_write(ring, value)
                  /\ unread' = Append(IF Len(unread) = RxSize THEN Tail(unread)
                                      ELSE unread, value)
                  /\ raced' = (raced \/ Tears(line, Count(Settle(ring, line, ptr)), RxSize))
             ELSE UNCHANGED <<ring, unread, raced>>
     ELSE UNCHANGED <<ring, unread, raced, used>>
  /\ UNCHANGED <<flags, rx_buf, line, ret, want, ptr, orphans, unmarked>>

----------------------------------------------------------------------------
(* uart8250_open *)

\* Mutant: an open device is opened again.
Available_Always == TRUE

Available == flags = {}

OpenRefused ==
  /\ line = "idle"
  /\ ~Available
  /\ ret' = -1
  /\ UNCHANGED <<flags, rx_buf, ring, line, want, ptr, orphans, unread, raced, used, unmarked>>

OpenReserves(f) ==
  /\ line = "idle"
  /\ Available
  /\ flags' = f
  /\ unmarked' = (unmarked \/ f = {})
  /\ line' = "opening"
  /\ UNCHANGED <<rx_buf, ring, ret, want, ptr, orphans, unread, raced, used>>

\* The pointer to the new ring is stored.  Its status word is what the memory
\* held before, and the ring that the pointer led to, if any, is lost.
OpenAllocates(ful, ovf, bytes) ==
  /\ line = "opening"
  /\ orphans' = (orphans \/ rx_buf = "ring")
  /\ rx_buf' = "ring"
  /\ ring' = ringbuf_alloc(RxSize, ful, ovf, bytes)
  /\ unread' = <<>>
  /\ raced' = FALSE
  /\ ret' = 0
  /\ line' = "idle"
  /\ UNCHANGED <<flags, want, ptr, used, unmarked>>

\* ringbuf_alloc finds no memory and returns NULL.  uart8250_open returns 0.
OpenFindsNoMemory ==
  /\ line = "opening"
  /\ orphans' = (orphans \/ rx_buf = "ring")
  /\ rx_buf' = "null"
  /\ unread' = <<>>
  /\ ret' = 0
  /\ line' = "idle"
  /\ UNCHANGED <<flags, ring, want, ptr, raced, used, unmarked>>

----------------------------------------------------------------------------
(* uart8250_close *)

CloseRefused ==
  /\ line = "idle"
  /\ flags = {}
  /\ ret' = -1
  /\ UNCHANGED <<flags, rx_buf, ring, line, want, ptr, orphans, unread, raced, used, unmarked>>

\* The ring is freed; the pointer is left as it is.  (free ignores NULL.)
CloseFrees ==
  /\ line = "idle"
  /\ flags # {}
  /\ rx_buf' = IF rx_buf = "null" THEN "null" ELSE "freed"
  /\ unread' = <<>>
  /\ line' = "closing"
  /\ UNCHANGED <<flags, ring, ret, want, ptr, orphans, raced, used, unmarked>>

\* Mutant: the device stays reserved.
CloseReleases_KeepsFlags ==
  /\ line = "closing"
  /\ ret' = 0
  /\ line' = "idle"
  /\ UNCHANGED <<flags, rx_buf, ring, want, ptr, orphans, unread, raced, used, unmarked>>

CloseReleases ==
  /\ line = "closing"
  /\ flags' = {}
  /\ ret' = 0
  /\ line' = "idle"
  /\ UNCHANGED <<rx_buf, ring, want, ptr, orphans, unread, raced, used, unmarked>>

----------------------------------------------------------------------------
(* uart8250_read, called while the device is open *)

ReadCall(len) ==
  /\ line = "idle"
  /\ flags # {}
  /\ want' = len + 1          \* while (read_bytes <= len ...
  /\ line' = "test"
  /\ UNCHANGED <<flags, rx_buf, ring, ret, ptr, orphans, unread, raced, used, unmarked>>

Readable == rx_buf = "ring" /\ want > 0 /\ ringbuf_test_ready(ring)

\* The loop's test.  Without a ring (uart8250_open found no memory) it reads address
\* 0, and what the caller gets is not the model's concern.
ReadTest ==
  /\ line = "test"
  /\ used' = rx_buf
  /\ IF Readable THEN want' = want /\ line' = "index" ELSE want' = 0 /\ line' = "idle"
  /\ UNCHANGED <<flags, rx_buf, ring, ret, ptr, orphans, unread, raced, unmarked>>

ReadLoadsIndex ==
  /\ line = "index"
  /\ ptr' = ReadIndex(ring)
  /\ line' = "byte"
  /\ UNCHANGED <<flags, rx_buf, ring, ret, want, orphans, unread, raced, used, unmarked>>

\* The oldest byte, junk of a new ring or received
ReadLoadsByte ==
  /\ line = "byte"
  /\ unread' = IF unread # <<>> /\ Len(unread) >= Count(ring) THEN Tail(unread) ELSE unread
  /\ line' = "load"
  /\ UNCHANGED <<flags, rx_buf, ring, ret, want, ptr, orphans, raced, used, unmarked>>

ReadLoadsPtr ==
  /\ line = "load"
  /\ ptr' = ReadNext(ring)
  /\ line' = "store"
  /\ UNCHANGED <<flags, rx_buf, ring, ret, want, orphans, unread, raced, used, unmarked>>

ReadStoresPtr ==
  /\ line = "store"
  /\ ring' = StoreNext(ring, ptr)
  /\ line' = "wrap"
  /\ UNCHANGED <<flags, rx_buf, ret, want, ptr, orphans, unread, raced, used, unmarked>>

ReadWraps ==
  /\ line = "wrap"
  /\ ring' = WrapNext(ring, ptr)
  /\ line' = "clear"
  /\ UNCHANGED <<flags, rx_buf, ret, want, ptr, orphans, unread, raced, used, unmarked>>

ReadClears ==
  /\ line = "clear"
  /\ ring' = ClearStatus(ring)
  /\ want' = want - 1
  /\ ptr' = 0
  /\ line' = "test"
  /\ UNCHANGED <<flags, rx_buf, ret, orphans, unread, raced, used, unmarked>>

ReadStep ==
  \/ ReadTest \/ ReadLoadsIndex \/ ReadLoadsByte \/ ReadLoadsPtr
  \/ ReadStoresPtr \/ ReadWraps \/ ReadClears

----------------------------------------------------------------------------
UartNext ==
  \/ \E value \in RxByte : uart8250_interrupt(value)
  \/ \E f \in Flags : OpenReserves(f)
  \/ \E len \in RxLens : ReadCall(len)
  \/ \E ful, ovf \in BOOLEAN, bytes \in [0 .. RxSize - 1 -> RxByte] :
       OpenAllocates(ful, ovf, bytes)
  \/ OpenRefused \/ OpenFindsNoMemory \/ CloseRefused \/ CloseFrees
  \/ CloseReleases \/ ReadStep

UartSpec == UartInit /\ [][UartNext]_uartVars

----------------------------------------------------------------------------
(* Properties *)

\* Outside the two places where open and close disagree with the handler about
\* the ring (open has set the flags and not yet the pointer, close has freed the
\* ring and not yet cleared the flags), an interrupt never writes to a freed
\* ring, whatever opens, closes and failed allocations came before.
FreedOnlyInWindows ==
  (Stores /\ line \notin {"opening", "closing"}) => rx_buf # "freed"

\* No ring is lost: a refused open leaves the ring of the session alone.  The
\* flags are the reservation, so the one exception is an open without flags,
\* which reserves nothing and cannot be closed.
OneRing == orphans => unmarked

\* The ring of an open device ends with the bytes received since open and neither
\* read nor overwritten, whatever the status word of the new ring held, and at
\* whichever instruction of ringbuf_read the handler runs: a stale RINGBUF_FUL puts
\* junk in front of them.  So it is until a byte that is received inside ringbuf_read
\* fills the ring, the junk counted in; from then on bytes may be lost.
ReceivedIsKept ==
  (rx_buf = "ring" /\ ~raced) =>
    LET all == Contents(Settle(ring, line, ptr))
    IN  /\ Len(unread) <= Len(all)
        /\ unread = SubSeq(all, Len(all) - Len(unread) + 1, Len(all))

\* arch/i386/include/kernel/mem/heap.h: "After calling heap_free, the pointer
\* should not be used".  The handler uses it: close frees the ring before it
\* clears the flags, and open sets the flags before it replaces the pointer.
FreedIsNotUsed == used # "freed"
=============================================================================
