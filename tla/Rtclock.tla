------------------------------ MODULE Rtclock ------------------------------
(***************************************************************************)
(* The CMOS clock (kernel/device/rtclock.c).  A reader takes the registers *)
(* one by one while the clock runs on, twice, and starts again until both  *)
(* takes agree; clock_read then writes the date as text.                   *)
(***************************************************************************)
EXTENDS Integers, Sequences

CONSTANTS Instants,      \* what the clock shows, second after second
          BinaryModes,   \* the settings of bit 2 of status register B
          AttemptTicks   \* how far the clock runs during two takes, at most

\* readclock reads the day twice.
Registers == <<"seconds", "minutes", "hours", "year", "month", "day", "day", "century">>

Fields == {"seconds", "minutes", "hours", "year", "month", "day", "century"}

ASSUME InstantsAssumption ==
  /\ Instants \in Seq([Fields -> 0 .. 99]) /\ Instants # <<>>
  /\ \A i \in DOMAIN Instants :
       /\ Instants[i].century \in 1 .. 99
       /\ Instants[i].month \in 1 .. 12 /\ Instants[i].day \in 1 .. 31
       /\ Instants[i].hours \in 0 .. 23
       /\ Instants[i].minutes \in 0 .. 59 /\ Instants[i].seconds \in 0 .. 59
  /\ BinaryModes \subseteq BOOLEAN

\* While two takes last no register comes back to a value that it has left: the
\* quickest needs a minute for it, the takes read sixteen registers.
ASSUME AttemptAssumption ==
  /\ AttemptTicks \in Nat
  /\ \A i, j, k \in DOMAIN Instants :
       i <= j /\ j <= k /\ k <= i + AttemptTicks =>
         \A f \in Fields : Instants[i][f] = Instants[k][f] => Instants[j][f] = Instants[i][f]

VARIABLES now,        \* the instant that the registers show
          is_binary,  \* rtc_clock.is_binary
          rtc_clock,  \* the rest of rtc_clock
          clock_a, clock_b,   \* the two takes of update_clock
          take,       \* the take under way: "none", "a" or "b"
          reg,        \* the registers it has read
          buf,        \* what clock_read wrote to its caller's buffer
          since,      \* auxiliary: the instant at which the call began
          begun       \* auxiliary: the instant at which take "a" began

clockVars == <<now, is_binary, rtc_clock, clock_a, clock_b, take, reg, buf, since, begun>>

BIN_TO_BCD(n) == ((n \div 10) * 16) + (n % 10)

BCD_TO_BIN(bcd) == ((bcd \div 16) * 10) + (bcd % 16)

\* The chip answers in BCD unless it is in binary mode.
read_cmos(field) ==
  IF is_binary THEN Instants[now][field] ELSE BIN_TO_BCD(Instants[now][field])

\* The end of readclock
Converted(raw) ==
  LET bin == [f \in Fields |-> IF is_binary THEN raw[f] ELSE BCD_TO_BIN(raw[f])]
  IN  [f \in Fields \ {"century"} |->
         IF f = "year" THEN bin.century * 100 + bin.year ELSE bin[f]]

\* Mutant: only the seconds are compared.
sameclock_Seconds(a, b) == a.seconds = b.seconds

\* Mutant: the structures are compared by their addresses.
sameclock_Address(a, b) == FALSE

sameclock(a, b) == \A f \in DOMAIN a : a[f] = b[f]

NUL == 10    \* the byte 0; 0 .. 9 are the digits
Junk == 11   \* tmp[-1], whatever lies below the array

\* The turns of the first loop
Digits(num) ==
  CHOOSE n \in 0 .. 10 : num < 10^n /\ \A m \in 0 .. n - 1 : num >= 10^m

\* The last loop ends after i = 0: it copies one byte more than the number has.
write_number(b, at, num, len) ==
  LET n == IF Digits(num) < len THEN len ELSE Digits(num)
  IN  [p \in DOMAIN b |-> IF p \in at .. at + n - 1 THEN (num \div 10^(at + n - 1 - p)) % 10
                          ELSE IF p = at + n THEN Junk ELSE b[p]]

\* Mutant: the terminator is written first.
Stamp_NulFirst(b, clock) ==
  LET b1 == write_number([b EXCEPT ![14] = NUL], 0, clock.year, 4)
      b2 == write_number(b1, 4, clock.month, 2)
      b3 == write_number(b2, 6, clock.day, 2)
      b4 == write_number(b3, 8, clock.hours, 2)
      b5 == write_number(b4, 10, clock.minutes, 2)
  IN  write_number(b5, 12, clock.seconds, 2)

\* The end of clock_read
Stamp(b, clock) ==
  LET b1 == write_number(b, 0, clock.year, 4)
      b2 == write_number(b1, 4, clock.month, 2)
      b3 == write_number(b2, 6, clock.day, 2)
      b4 == write_number(b3, 8, clock.hours, 2)
      b5 == write_number(b4, 10, clock.minutes, 2)
  IN  [write_number(b5, 12, clock.seconds, 2) EXCEPT ![14] = NUL]

Zeros == [f \in Fields |-> 0]

ClockInit ==
  /\ now = 1
  /\ is_binary \in BinaryModes     \* clock_init
  /\ rtc_clock = Converted(Zeros)
  /\ clock_a = Zeros
  /\ clock_b = Zeros
  /\ take = "none"
  /\ reg = 0
  /\ buf = [p \in 0 .. 14 |-> Junk]
  /\ since = 1
  /\ begun = 1

\* A second passes.  The two takes of an attempt do not last longer than
\* AttemptTicks; a call may need any number of attempts.
Tick ==
  /\ now < Len(Instants)
  /\ take # "none" => now < begun + AttemptTicks
  /\ now' = now + 1
  /\ UNCHANGED <<is_binary, rtc_clock, clock_a, clock_b, take, reg, buf, since, begun>>

\* clock_read begins, with room for the text.
clock_read ==
  /\ take = "none"
  /\ take' = "a"
  /\ reg' = 0
  /\ since' = now
  /\ begun' = now
  /\ UNCHANGED <<now, is_binary, rtc_clock, clock_a, clock_b, buf>>

\* One register of readclock(&clock_a)
ReadA ==
  /\ take = "a"
  /\ LET f == Registers[reg + 1] IN clock_a' = [clock_a EXCEPT ![f] = read_cmos(f)]
  /\ IF reg + 1 < Len(Registers) THEN take' = "a" /\ reg' = reg + 1 ELSE take' = "b" /\ reg' = 0
  /\ UNCHANGED <<now, is_binary, rtc_clock, clock_b, buf, since, begun>>

\* One register of readclock(&clock_b).  The last one ends the loop of
\* update_clock, or starts it again.
ReadB ==
  /\ take = "b"
  /\ LET f == Registers[reg + 1] IN clock_b' = [clock_b EXCEPT ![f] = read_cmos(f)]
  /\ IF reg + 1 < Len(Registers)
     THEN take' = "b" /\ reg' = reg + 1 /\ UNCHANGED <<rtc_clock, buf, begun>>
     ELSE /\ reg' = 0
          /\ IF sameclock(Converted(clock_a), Converted(clock_b'))
             THEN /\ take' = "none"
                  /\ rtc_clock' = Converted(clock_b')     \* copyclock
                  /\ buf' = Stamp(buf, Converted(clock_b'))
                  /\ UNCHANGED begun
             ELSE take' = "a" /\ begun' = now /\ UNCHANGED <<rtc_clock, buf>>
  /\ UNCHANGED <<now, is_binary, clock_a, since>>

ClockNext == Tick \/ clock_read \/ ReadA \/ ReadB

ClockSpec == ClockInit /\ [][ClockNext]_clockVars

----------------------------------------------------------------------------
(* Properties *)

Returned == take = "none" /\ buf[0] # Junk

\* The date that a call of clock_read returns was on the clock at one moment of
\* that call: reading twice (update_clock) never accepts a mixture of two
\* instants, whichever registers change in between.
AcceptedIsReal ==
  Returned => \E i \in since .. now :
                 /\ \A f \in DOMAIN rtc_clock \ {"year"} : rtc_clock[f] = Instants[i][f]
                 /\ rtc_clock.year = Instants[i].century * 100 + Instants[i].year

\* The text is the date, YYYYMMDDHHMMSS with its terminator: every byte that
\* write_number copies from outside its array is overwritten by what follows.
StampIsExact ==
  Returned =>
    /\ buf[14] = NUL
    /\ \A p \in 0 .. 13 : buf[p] \in 0 .. 9
    /\ LET Two(p) == 10 * buf[p] + buf[p + 1]
       IN  /\ 100 * Two(0) + Two(2) = rtc_clock.year
           /\ Two(4) = rtc_clock.month /\ Two(6) = rtc_clock.day
           /\ Two(8) = rtc_clock.hours /\ Two(10) = rtc_clock.minutes
           /\ Two(12) = rtc_clock.seconds

\* Every call of clock_read returns: the loop of update_clock ends once the clock
\* stands still for two takes.
UpdateReturns == (take # "none") ~> (take = "none")
=============================================================================
