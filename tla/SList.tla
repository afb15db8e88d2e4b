------------------------------- MODULE SList -------------------------------
(***************************************************************************)
(* Zephyr's intrusive singly linked list (external): the link is a field   *)
(* of the node, so a node is in at most one place of one list, and nothing *)
(* notices when it is added again.  app/src/lora.c:110 adds a static node  *)
(* to the stack's list of downlink callbacks, and smp_lora.c puts a static *)
(* node into its k_fifo.                                                   *)
(***************************************************************************)
EXTENDS Naturals, FiniteSets

CONSTANTS Nodes, Nil

Lists == [head : Nodes \cup {Nil}, tail : Nodes \cup {Nil}, next : [Nodes -> Nodes \cup {Nil}]]

EmptyList == [head |-> Nil, tail |-> Nil, next |-> [n \in Nodes |-> Nil]]

\* sys_slist_append: node->next = NULL; tail->next = node; tail = node
Append(l, n) ==
  LET cut == [l.next EXCEPT ![n] = Nil] IN
  IF l.tail = Nil
  THEN [head |-> n, tail |-> n, next |-> cut]
  ELSE [head |-> l.head, tail |-> n, next |-> [cut EXCEPT ![l.tail] = n]]

\* k_fifo_put with no thread waiting: insert after the tail
Put(l, n) ==
  IF l.tail = Nil \/ l.next[l.tail] = Nil
  THEN Append(l, n)
  ELSE [l EXCEPT !.next = [[@ EXCEPT ![n] = l.next[l.tail]] EXCEPT ![l.tail] = n]]

\* k_fifo_get of a list that is not empty
Rest(l) ==
  LET second == l.next[l.head] IN
  [l EXCEPT !.head = second, !.tail = IF @ = l.head THEN second ELSE @]

\* The nodes that are reached from the head by following the links: those in every set that
\* holds the head and, with a node, the node behind it.
Closed(l, S) ==
  /\ l.head # Nil => l.head \in S
  /\ \A n \in S : l.next[n] # Nil => l.next[n] \in S

Members(l) == {n \in Nodes : \A S \in SUBSET Nodes : Closed(l, S) => n \in S}
============================================================================
