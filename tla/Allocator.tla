------------------------------ MODULE Allocator ------------------------------
(***************************************************************************)
(* What malloc and free promise their callers (heap.h): ranges of memory   *)
(* between Lo and Hi, disjoint while they are owned.                       *)
(***************************************************************************)
EXTENDS Integers

CONSTANTS Lo, Hi, Sizes

VARIABLE bufs     \* the ranges handed out: pointer -> length

Init == bufs = [x \in {} |-> 0]

Disjoint(ptr, n, q, m) == ptr # q /\ (ptr + n <= q \/ q + m <= ptr)

Take(ptr, n) ==
  /\ ptr + n <= Hi
  /\ \A q \in DOMAIN bufs : Disjoint(ptr, n, q, bufs[q])
  /\ bufs' = [x \in DOMAIN bufs \cup {ptr} |-> IF x = ptr THEN n ELSE bufs[x]]

GiveBack(ptr) ==
  /\ ptr \in DOMAIN bufs
  /\ bufs' = [x \in DOMAIN bufs \ {ptr} |-> bufs[x]]

Next ==
  \/ \E ptr \in Lo .. Hi, n \in Sizes : Take(ptr, n)
  \/ \E ptr \in Lo .. Hi : GiveBack(ptr)

Spec == Init /\ [][Next]_bufs
=============================================================================
