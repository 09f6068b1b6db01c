----------------------------- MODULE MCDrivers -----------------------------
(***************************************************************************)
(* The keyboard and the serial port on small instances.  They share no     *)
(* state, so one behaviour runs one of them.                               *)
(***************************************************************************)
EXTENDS Keyboard, Uart

CONSTANTS KEYBOARD, UART

VARIABLE focus   \* the driver that runs

allVars == <<focus, vars, uartVars>>

\* A driver that does not run has one initial state.
DriversInit ==
  /\ focus \in {KEYBOARD, UART}
  /\ Init /\ (focus # KEYBOARD => rbuf.buffer[0] = CHOOSE b \in Byte : TRUE)
  /\ UartInit /\ (focus # UART => ring.buffer[0] = CHOOSE b \in RxByte : TRUE)

StepKeyboard == focus = KEYBOARD /\ Next /\ UNCHANGED <<focus, uartVars>>
StepUart == focus = UART /\ UartNext /\ UNCHANGED <<focus, vars>>

DriversNext == StepKeyboard \/ StepUart

\* The processor runs on: the keyboard's reader takes its next step.
Fairness == WF_allVars(focus = KEYBOARD /\ ReaderStep /\ UNCHANGED <<focus, uartVars>>)

DriversSpec == DriversInit /\ [][DriversNext]_allVars /\ Fairness
=============================================================================
