------------------------------- MODULE MCHeap -------------------------------
(* The heap on a small memory, for TLC.  *)
EXTENDS Heap
=============================================================================
