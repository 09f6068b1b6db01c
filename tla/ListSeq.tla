------------------------------ MODULE ListSeq ------------------------------
(***************************************************************************)
(* What sys/list.h promises its callers: a list is a sequence of data.     *)
(* The variable last records the last call and what it returned.  A call   *)
(* that needs memory may fail: it returns NULL and changes nothing.        *)
(***************************************************************************)
EXTENDS Integers, Sequences

CONSTANTS Data, Index, NULL, NotFound, OK

VARIABLES seq,   \* the sequence, or NULL when there is no list
          last   \* [op, arg, ret] of the last call

Init == seq = NULL /\ last = [op |-> "none", arg |-> NULL, ret |-> NULL]

Called(op, arg, ret) == last' = [op |-> op, arg |-> arg, ret |-> ret]

\* A call that turns the sequence into s, or finds no memory.
Grow(op, arg, s) ==
  \/ seq' = s /\ Called(op, arg, OK)
  \/ seq' = seq /\ Called(op, arg, NULL)

\* A call that only answers.
Answer(op, arg, ret) == seq' = seq /\ Called(op, arg, ret)

\* A call that takes out the i-th datum, if there is one.
Take(op, arg, i) ==
  IF i \in 1 .. Len(seq)
  THEN /\ seq' = SubSeq(seq, 1, i - 1) \o SubSeq(seq, i + 1, Len(seq))
       /\ Called(op, arg, seq[i])
  ELSE Answer(op, arg, NULL)

\* The place of the first d in the sequence, 0 if there is none.
Place(d) ==
  LET places == {i \in 1 .. Len(seq) : seq[i] = d}
  IN  IF places = {} THEN 0 ELSE CHOOSE i \in places : \A j \in places : i <= j

At(i) == IF i \in 1 .. Len(seq) THEN seq[i] ELSE NULL

Create == seq = NULL /\ Grow("alloc", NULL, <<>>)

Change ==
  /\ seq # NULL
  /\ \/ \E d \in Data : \/ Grow("append", d, Append(seq, d))
                        \/ Grow("prepend", d, <<d>> \o seq)
                        \/ Take("delete", d, Place(d))
     \/ \E d \in Data, i \in Index :
          Grow("insert", <<d, i>>,
               IF i >= Len(seq) THEN Append(seq, d)
               ELSE SubSeq(seq, 1, i) \o <<d>> \o SubSeq(seq, i + 1, Len(seq)))
     \/ \E i \in Index : Take("remove", i, i + 1)
     \/ Take("pop_head", NULL, 1)
     \/ Take("pop_tail", NULL, Len(seq))
     \/ seq' = <<>> /\ Called("empty", NULL, NULL)
     \/ seq' = NULL /\ Called("free", NULL, NULL)

Ask ==
  /\ seq # NULL
  /\ \/ Answer("count", NULL, Len(seq))
     \/ Answer("first", NULL, At(1))
     \/ Answer("last", NULL, At(Len(seq)))
     \/ \E i \in Index : Answer("at", i, At(i + 1))
     \/ \E d \in Data :
          Answer("index", d, IF Place(d) = 0 THEN NotFound ELSE Place(d) - 1)

Spec == Init /\ [][Create \/ Change \/ Ask]_<<seq, last>>
=============================================================================
