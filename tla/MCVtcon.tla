------------------------------ MODULE MCVtcon ------------------------------
(***************************************************************************)
(* Two terminals of two lines of text and a status bar.                    *)
(***************************************************************************)
EXTENDS Vtcon

\* Shift down and up, the shift that keyboards send before some extended keys, L down,
\* F1, F2, the right control key, the left META key
McKeys == {<<42>>, <<170>>, <<224, 42>>, <<38>>, <<59>>, <<60>>, <<224, 29>>, <<224, 91>>}

\* More than a line; a tabulator, a backspace and a new line
McBufs == {<<97, 98, 99, 100>>, <<9, 8, 10>>}

\* Two characters
McKeyTexts == {<<94, 64>>}

\* A letter, or F2
McJunkVks == {98, 244}
McRooms == {1, 2}
=============================================================================
