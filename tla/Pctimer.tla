------------------------------ MODULE Pctimer ------------------------------
(***************************************************************************)
(* Interrupt dispatch (arch/i386/kernel/cpu/idt.c) and the timer that is   *)
(* its most frequent client (kernel/device/pctimer.c): the handler counts  *)
(* ticks, a reader prints the count in hexadecimal.                        *)
(***************************************************************************)
EXTENDS Integers, Sequences

CONSTANTS Vectors,      \* the interrupts that occur
          HexDigits,    \* digits of the count (8)
          Base,         \* base of the digits (16)
          ReadLens      \* lengths that pctimer_read is called with

TIMER == 32   \* 0x20

ASSUME PctimerAssumption ==
  /\ Vectors \subseteq 0 .. 255 /\ TIMER \in Vectors
  /\ HexDigits \in Nat \ {0} /\ Base \in Nat \ {0, 1} /\ ReadLens \subseteq Nat

VARIABLES idt_handlers,  \* the vectors that have a handler
          in_service,    \* the request lines whose end the PICs await
          halted,        \* kernel_die has stopped the machine
          next_ticks,    \* modulo Base ^ HexDigits, as an unsigned long
          ticks,         \* the reader's copy
          conversion,    \* its digits, least significant first
          left,          \* digits it has still to convert
          text,          \* what it wrote to its caller
          seen           \* auxiliary: the counts since the call began

timerVars == <<idt_handlers, in_service, halted, next_ticks, ticks, conversion, left, text, seen>>

Junk8 == Base   \* a byte from below the array; 0 .. Base - 1 are the digits

\* What a digit counts in its place: Base ^ i
Weight[i \in 0 .. HexDigits] == IF i = 0 THEN 1 ELSE Base * Weight[i - 1]

Idle == left = -1

\* idt_init: the PIC is remapped, no vector has a handler.
TimerInit ==
  /\ idt_handlers = {}
  /\ in_service = {}
  /\ halted = FALSE
  /\ next_ticks = 0
  /\ ticks = 0
  /\ conversion = <<>>
  /\ left = -1
  /\ text = <<>>
  /\ seen = {}

idt_set_handler(code) == idt_handlers' = idt_handlers \cup {code}

pctimer_init ==
  /\ ~halted
  /\ idt_set_handler(TIMER)
  /\ UNCHANGED <<in_service, halted, next_ticks, ticks, conversion, left, text, seen>>

\* The request lines that raise a vector: the second PIC is wired to line 2 of
\* the first.
Lines(n) ==
  IF n \in 32 .. 39 THEN {<<"PIC1", n - 32>>}
  ELSE IF n \in 40 .. 47 THEN {<<"PIC1", 2>>, <<"PIC2", n - 40>>} ELSE {}

\* A PIC passes a request on unless it awaits the end of one that is as urgent.
Deliverable(n) == \A l \in Lines(n), s \in in_service : s[1] = l[1] => l[2] < s[2]

\* The end of interrupt command ends the most urgent one.
EndOfInterrupt(service, pic) ==
  {s \in service : s[1] = pic => \E t \in service : t[1] = pic /\ t[2] < s[2]}

\* Mutant: the range of the first PIC is off by one.
Acknowledge_OffByOne(service, n) ==
  LET slave == IF n >= 40 /\ n < 48 THEN EndOfInterrupt(service, "PIC2") ELSE service
  IN  IF n > 32 /\ n < 48 THEN EndOfInterrupt(slave, "PIC1") ELSE slave

Acknowledge(service, n) ==
  LET slave == IF n >= 40 /\ n < 48 THEN EndOfInterrupt(service, "PIC2") ELSE service
  IN  IF n >= 32 /\ n < 48 THEN EndOfInterrupt(slave, "PIC1") ELSE slave

pctimer_handler == next_ticks' = (next_ticks + 1) % Weight[HexDigits]

\* An interrupt arrives.  It runs with interrupts off, from the entry to the
\* return; an exception stops the machine before it is acknowledged.
idt_handler(n) ==
  /\ ~halted
  /\ Deliverable(n)
  /\ IF n = TIMER /\ n \in idt_handlers THEN pctimer_handler ELSE UNCHANGED next_ticks
  /\ seen' = IF Idle THEN seen ELSE seen \cup {next_ticks'}
  /\ halted' = (n < 16)
  /\ in_service' = IF n < 16 THEN in_service ELSE Acknowledge(in_service \cup Lines(n), n)
  /\ UNCHANGED <<idt_handlers, ticks, conversion, left, text>>

\* pctimer_read loads the count.
pctimer_read ==
  /\ ~halted
  /\ Idle
  /\ ticks' = next_ticks
  /\ seen' = {next_ticks}
  /\ conversion' = <<>>
  /\ left' = HexDigits
  /\ text' = <<>>
  /\ UNCHANGED <<idt_handlers, in_service, halted, next_ticks>>

\* Mutant: the digit is taken from the running count.
PctimerDigit_Running ==
  /\ ~halted
  /\ left > 0
  /\ conversion' = Append(conversion, (next_ticks \div Weight[HexDigits - left]) % Base)
  /\ ticks' = ticks \div Base
  /\ left' = left - 1
  /\ UNCHANGED <<idt_handlers, in_service, halted, next_ticks, text, seen>>

\* One turn of its first loop
PctimerDigit ==
  /\ ~halted
  /\ left > 0
  /\ conversion' = Append(conversion, ticks % Base)
  /\ ticks' = ticks \div Base
  /\ left' = left - 1
  /\ UNCHANGED <<idt_handlers, in_service, halted, next_ticks, text, seen>>

\* Its second loop.  The index is unsigned: only the length ends the loop, and
\* past the array it copies what lies below.
PctimerReturns(len) ==
  /\ ~halted
  /\ left = 0
  /\ text' = [i \in 1 .. len |-> IF i <= HexDigits THEN conversion[HexDigits + 1 - i] ELSE Junk8]
  /\ left' = -1
  /\ UNCHANGED <<idt_handlers, in_service, halted, next_ticks, ticks, conversion, seen>>

TimerNext ==
  \/ pctimer_init
  \/ \E n \in Vectors : idt_handler(n)
  \/ pctimer_read
  \/ PctimerDigit
  \/ \E len \in ReadLens : PctimerReturns(len)

TimerSpec == TimerInit /\ [][TimerNext]_timerVars

----------------------------------------------------------------------------
(* Properties *)

\* The digits that pctimer_read returns are those of one count, which the timer
\* had at some moment of the call, whatever ticks came between the digits.
DigitsOfOneTick ==
  Idle /\ text # <<>> =>
    \E t \in seen :
      \A i \in 1 .. HexDigits : i <= Len(text) => text[i] = (t \div Weight[HexDigits - i]) % Base

\* Between interrupts every request line can be served: idt_handler acknowledges
\* each interrupt to all the PICs that raised it, until an exception stops the machine.
LinesOpen == ~halted => \A n \in Vectors : Deliverable(n)
=============================================================================
