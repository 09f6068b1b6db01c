----------------------------- MODULE Terminals -----------------------------
(***************************************************************************)
(* What the virtual console promises: terminals that do not disturb each   *)
(* other.  One of them is shown, and output goes to that one.              *)
(***************************************************************************)
CONSTANTS Terms, Home, Blank

VARIABLES text,    \* the text of each terminal
          at,      \* where each will print next
          shown    \* the terminal on the screen

Output ==
  /\ shown' = shown
  /\ \A t \in Terms \ {shown} : text'[t] = text[t] /\ at'[t] = at[t]

Show(t) ==
  /\ shown' = t
  /\ UNCHANGED <<text, at>>

\* The terminals start over, but the screen is left as it is.
Reset ==
  /\ shown' = shown
  /\ \A t \in Terms : at'[t] = Home /\ text'[t] = IF t = shown THEN text[t] ELSE Blank

Next == Output \/ (\E t \in Terms : Show(t)) \/ Reset

Init == \A t \in Terms : at[t] = Home /\ (t # shown => text[t] = Blank)

Spec == Init /\ [][Next]_<<text, at, shown>>
=============================================================================
