------------------------------- MODULE MCList -------------------------------
(***************************************************************************)
(* List for TLC: the constants are given in the .cfg file.  Addresses are  *)
(* only ever compared with each other, so they may be permuted.            *)
(***************************************************************************)
EXTENDS List, TLC

Addresses == Permutations(Node)
=============================================================================
