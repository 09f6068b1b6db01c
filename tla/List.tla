-------------------------------- MODULE List --------------------------------
(***************************************************************************)
(* The doubly linked list of kernel/stdkern/list.c, node by node.  The     *)
(* kernel's lists are used from its main line only: a call is one step.    *)
(***************************************************************************)
EXTENDS Integers, Sequences, FiniteSets

CONSTANTS Node,      \* addresses malloc may return for a node
          Data,      \* what the nodes point to
          Index,     \* the indices that callers pass
          NULL,      \* the null pointer
          NotFound,  \* (unsigned int) -1
          OK         \* a pointer that is not NULL

ASSUME ListAssumption ==
  /\ NULL \notin Node \cup Data
  /\ Index \subseteq Nat
  /\ IsFiniteSet(Node)

\* NULL is no list, and no sequence of data.
ASSUME NullAssumption ==
  \A n \in 0 .. Cardinality(Node) :
    /\ NULL \notin [head : Node \cup {NULL}, tail : Node \cup {NULL}, count : {n}]
    /\ NULL \notin [1 .. n -> Data]

VARIABLES list,      \* the list_t, or NULL
          node,      \* the listnode_t at every address
          live,      \* the addresses malloc has handed out
          lost,      \* auxiliary: the nodes list_empty has left behind
          last       \* auxiliary: the last call and what it returned

vars == <<list, node, live, lost, last>>

NoNode == [data |-> NULL, prev |-> NULL, next |-> NULL]

Init ==
  /\ list = NULL
  /\ node = [n \in Node |-> NoNode]
  /\ live = {}
  /\ lost = {}
  /\ last = [op |-> "none", arg |-> NULL, ret |-> NULL]

Called(op, arg, ret) == last' = [op |-> op, arg |-> arg, ret |-> ret]

\* Mutant: the back link of the second node is not set.
chain_OneWay(nd, car, cdr) ==
  IF car = NULL THEN nd ELSE [nd EXCEPT ![car].next = cdr]

chain(nd, car, cdr) ==
  [n \in Node |-> [nd[n] EXCEPT !.next = IF n = car THEN cdr ELSE @,
                                !.prev = IF n = cdr THEN car ELSE @]]

\* The addresses malloc may return; NULL when it finds no memory.
malloc == (Node \ live) \cup {NULL}

listnode_alloc(nd, new, ptr) == [nd EXCEPT ![new] = [NoNode EXCEPT !.data = ptr]]

listnode_free(nd, n) == [nd EXCEPT ![n] = NoNode]

\* The node n steps behind the head, NULL if the chain ends before.
Nth(n) ==
  LET walk[i \in 0 .. n] ==
        IF i = 0 THEN list.head
        ELSE IF walk[i - 1] = NULL THEN NULL ELSE node[walk[i - 1]].next
  IN  walk[n]

Steps == 0 .. Cardinality(Node) - 1

Reachable == IF list = NULL THEN {} ELSE {Nth(i) : i \in Steps} \ {NULL}

\* The node a walk from the head finds first with this datum, or NULL.
FirstWith(ptr) ==
  LET hits == {i \in Steps : Nth(i) # NULL /\ node[Nth(i)].data = ptr}
  IN  IF hits = {} THEN NULL
      ELSE Nth(CHOOSE i \in hits : \A j \in hits : i <= j)

----------------------------------------------------------------------------
(* Operations that change the list *)

list_alloc ==
  /\ list = NULL
  /\ \/ list' = [head |-> NULL, tail |-> NULL, count |-> 0] /\ Called("alloc", NULL, OK)
     \/ list' = NULL /\ Called("alloc", NULL, NULL)
  /\ UNCHANGED <<node, live, lost>>

Unchanged == UNCHANGED <<list, node, live, lost>>

AppendNode(new, ptr) ==
  /\ node' = chain(listnode_alloc(node, new, ptr), list.tail, new)
  /\ list' = [list EXCEPT !.tail = new, !.count = @ + 1,
                          !.head = IF @ = NULL THEN new ELSE @]
  /\ live' = live \cup {new}
  /\ UNCHANGED lost

PrependNode(new, ptr) ==
  /\ node' = chain(listnode_alloc(node, new, ptr), new, list.head)
  /\ list' = [list EXCEPT !.head = new, !.count = @ + 1,
                          !.tail = IF @ = NULL THEN new ELSE @]
  /\ live' = live \cup {new}
  /\ UNCHANGED lost

InsertNode(new, ptr, cur) ==
  /\ node' = LET nd == listnode_alloc(node, new, ptr)
             IN  chain(chain(nd, nd[cur].prev, new), new, cur)
  /\ list' = [list EXCEPT !.count = @ + 1]
  /\ live' = live \cup {new}
  /\ UNCHANGED lost

list_append(ptr) ==
  /\ list # NULL
  /\ \E new \in malloc :
       \/ new = NULL /\ Unchanged /\ Called("append", ptr, NULL)
       \/ new # NULL /\ AppendNode(new, ptr) /\ Called("append", ptr, OK)

list_prepend(ptr) ==
  /\ list # NULL
  /\ \E new \in malloc :
       \/ new = NULL /\ Unchanged /\ Called("prepend", ptr, NULL)
       \/ new # NULL /\ PrependNode(new, ptr) /\ Called("prepend", ptr, OK)

\* Mutant: the walk to the node stops one short.
list_insert_OffByOne(ptr, before) ==
  /\ list # NULL
  /\ \E new \in malloc :
       IF new = NULL THEN Unchanged /\ Called("insert", <<ptr, before>>, NULL)
       ELSE /\ IF before = 0 THEN PrependNode(new, ptr)
               ELSE IF before >= list.count THEN AppendNode(new, ptr)
               ELSE InsertNode(new, ptr, Nth(before - 1))
            /\ Called("insert", <<ptr, before>>, OK)

list_insert(ptr, before) ==
  /\ list # NULL
  /\ \E new \in malloc :
       IF new = NULL THEN Unchanged /\ Called("insert", <<ptr, before>>, NULL)
       ELSE /\ IF before = 0 THEN PrependNode(new, ptr)
               ELSE IF before >= list.count THEN AppendNode(new, ptr)
               ELSE InsertNode(new, ptr, Nth(before))
            /\ Called("insert", <<ptr, before>>, OK)

\* Mutant: the node is unlinked and not freed.
list_unchain_NoFree(n) ==
  LET prev == node[n].prev
      next == node[n].next
  IN  /\ node' = chain(node, prev, next)
      /\ list' = [list EXCEPT !.head = IF prev = NULL THEN next ELSE @,
                              !.tail = IF next = NULL THEN prev ELSE @,
                              !.count = @ - 1]
      /\ UNCHANGED <<live, lost>>

list_unchain(n) ==
  LET prev == node[n].prev
      next == node[n].next
  IN  /\ node' = listnode_free(chain(node, prev, next), n)
      /\ list' = [list EXCEPT !.head = IF prev = NULL THEN next ELSE @,
                              !.tail = IF next = NULL THEN prev ELSE @,
                              !.count = @ - 1]
      /\ live' = live \ {n}
      /\ UNCHANGED lost

\* Take out node n and return its datum; NULL when there is no such node.
TakeOut(op, arg, n) ==
  IF n = NULL THEN Unchanged /\ Called(op, arg, NULL)
  ELSE list_unchain(n) /\ Called(op, arg, node[n].data)

list_remove(at) ==
  /\ list # NULL
  /\ TakeOut("remove", at,
             IF list.head = NULL \/ at >= list.count THEN NULL ELSE Nth(at))

list_delete(ptr) == list # NULL /\ TakeOut("delete", ptr, FirstWith(ptr))

list_pop_head == list # NULL /\ TakeOut("pop_head", NULL, list.head)

list_pop_tail == list # NULL /\ TakeOut("pop_tail", NULL, list.tail)

\* list_empty frees the head and then reads the next pointer of the freed node.
\* listnode_free has cleared it, and free leaves it as it is, so the walk ends
\* there: the other nodes are never freed.
Empty ==
  IF list.count = 0 THEN UNCHANGED <<node, live, lost>>
  ELSE /\ node' = listnode_free(node, list.head)
       /\ live' = live \ {list.head}
       /\ lost' = lost \cup (Reachable \ {list.head})

list_empty ==
  /\ list # NULL
  /\ Empty
  /\ list' = [head |-> NULL, tail |-> NULL, count |-> 0]
  /\ Called("empty", NULL, NULL)

list_free ==
  /\ list # NULL
  /\ Empty
  /\ list' = NULL
  /\ Called("free", NULL, NULL)

----------------------------------------------------------------------------
(* Operations that only look *)

Datum(n) == IF n = NULL THEN NULL ELSE node[n].data

list_count == list # NULL /\ Unchanged /\ Called("count", NULL, list.count)

list_first == list # NULL /\ Unchanged /\ Called("first", NULL, Datum(list.head))

list_last == list # NULL /\ Unchanged /\ Called("last", NULL, Datum(list.tail))

list_at(idx) ==
  /\ list # NULL
  /\ Unchanged
  /\ Called("at", idx, IF idx >= list.count THEN NULL ELSE Datum(Nth(idx)))

list_index(ptr) ==
  /\ list # NULL
  /\ Unchanged
  /\ Called("index", ptr,
            IF FirstWith(ptr) = NULL THEN NotFound
            ELSE CHOOSE i \in Steps : Nth(i) = FirstWith(ptr))

----------------------------------------------------------------------------
Change ==
  \/ list_alloc \/ list_pop_head \/ list_pop_tail \/ list_empty \/ list_free
  \/ \E ptr \in Data : list_append(ptr) \/ list_prepend(ptr) \/ list_delete(ptr)
  \/ \E ptr \in Data, before \in Index : list_insert(ptr, before)
  \/ \E at \in Index : list_remove(at)

Look ==
  \/ list_count \/ list_first \/ list_last
  \/ \E idx \in Index : list_at(idx)
  \/ \E ptr \in Data : list_index(ptr)

Next == Change \/ Look

Spec == Init /\ [][Next]_vars

----------------------------------------------------------------------------
(* Properties *)

\* The chain reads the same in both directions, after any sequence of calls:
\* head and tail are its ends, every node's prev is the node before it, no node
\* is on it twice, every node on it is allocated, and list.count is their number.
WellLinked ==
  list # NULL =>
    /\ list.count = Cardinality(Reachable)
    /\ list.head = NULL <=> list.tail = NULL
    /\ list.head # NULL => /\ node[list.head].prev = NULL
                           /\ node[list.tail].next = NULL
                           /\ list.tail \in Reachable
    /\ \A n \in Reachable : /\ n \in live
                            /\ node[n].next # NULL => node[node[n].next].prev = n

\* No operation but list_empty (and list_free, which calls it) loses nodes: an
\* allocated node is on the list, or it was left behind by list_empty, which
\* frees the head only.
NodesAccounted ==
  /\ live = Reachable \cup lost
  /\ Reachable \cap lost = {}

Content == IF list = NULL THEN NULL ELSE [i \in 1 .. list.count |-> Datum(Nth(i - 1))]

Abstract == INSTANCE ListSeq WITH seq <- Content

\* The pointers implement a sequence: each function of sys/list.h has the effect
\* on the sequence of data, and returns the value, that its name promises, and
\* a call that finds no memory changes nothing.
ImplementsSequence == Abstract!Spec
=============================================================================
