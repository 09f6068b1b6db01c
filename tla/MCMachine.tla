----------------------------- MODULE MCMachine -----------------------------
(***************************************************************************)
(* The physical memory manager, the CMOS clock and the timer on small      *)
(* instances.  They share no state, so one behaviour runs one of them.     *)
(***************************************************************************)
EXTENDS Pmm, Rtclock, Pctimer

CONSTANTS PMM, CLOCK, TIMERS

VARIABLE focus   \* the component that runs

\* 27 kB: 7 frames, in 2 words of 4 bits; the block holds 3 bits for each word.  The
\* second region touches three frames and has the length of two.
McMmap == { [base |-> 0, length |-> 7, type |-> 1],
            [base |-> 7, length |-> 4, type |-> 2],
            [base |-> 12, length |-> 4, type |-> 3] }

At(c, y, mo, d, h, mi, s) == [century |-> c, year |-> y, month |-> mo, day |-> d,
                              hours |-> h, minutes |-> mi, seconds |-> s]

\* The last seconds of a century and the first of the next: every register
\* changes at once.
McInstants == << At(19, 99, 12, 31, 23, 59, 58), At(19, 99, 12, 31, 23, 59, 59),
                 At(20, 0, 1, 1, 0, 0, 0), At(20, 0, 1, 1, 0, 0, 1) >>

\* A component that does not run has one initial state.
Init ==
  /\ focus \in {PMM, CLOCK, TIMERS}
  /\ PmmInit /\ (focus # PMM => (Bits \ OwnBits) \subseteq frames_map)
  /\ ClockInit /\ (focus # CLOCK => is_binary)
  /\ TimerInit

StepPmm == focus = PMM /\ PmmNext /\ UNCHANGED <<focus, clockVars, timerVars>>
StepClock == focus = CLOCK /\ ClockNext /\ UNCHANGED <<focus, pmmVars, timerVars>>
StepTimer == focus = TIMERS /\ TimerNext /\ UNCHANGED <<focus, pmmVars, clockVars>>

Next == StepPmm \/ StepClock \/ StepTimer

vars == <<focus, pmmVars, clockVars, timerVars>>

\* The processor runs on: a reader of the clock takes its next step.
Fairness == WF_vars(focus = CLOCK /\ (ReadA \/ ReadB) /\ UNCHANGED <<focus, pmmVars, timerVars>>)

Spec == Init /\ [][Next]_vars /\ Fairness
=============================================================================
