------------------------------ MODULE LinkList ------------------------------
(***************************************************************************)
(* The doubly linked list of src/link_list.c, which holds the plugins and  *)
(* a response's additional headers.  A node stands for its data: every     *)
(* node is created for one piece of data and inserted once.                *)
(***************************************************************************)
EXTENDS Naturals, Sequences

CONSTANTS
  Node,
  NULL

ASSUME NullAssumption == NULL \notin Node

Pointer == Node \cup {NULL}
List    == [head : Pointer, next : [Node -> Pointer], prev : [Node -> Pointer]]

NoPointers == [n \in Node |-> NULL]
EmptyList  == [head |-> NULL, next |-> NoPointers, prev |-> NoPointers]

\* The node the code's while (temp->next != NULL) stops at.
EndOf(list) ==
  LET from[n \in Node] == IF list.next[n] = NULL THEN n ELSE from[list.next[n]]
  IN  from[list.head]

\* Mutant: the new node becomes the head's neighbour.
InsertNode_AfterHead(list, n) ==
  IF list.head = NULL THEN [list EXCEPT !.head = n]
  ELSE [list EXCEPT !.prev[n] = list.head, !.next[list.head] = n]

\* create_node clears next and prev; insert_node appends.
InsertNode(list, n) ==
  IF list.head = NULL THEN [list EXCEPT !.head = n]
  ELSE [list EXCEPT !.prev[n] = EndOf(list), !.next[EndOf(list)] = n]

\* The nodes in the order in which free_list and every search meet them.
Walk(list) ==
  LET from[n \in Pointer] == IF n = NULL THEN << >> ELSE <<n>> \o from[list.next[n]]
  IN  from[list.head]

\* prev leads back along next, and nowhere else.
IsDoublyLinked(list) ==
  LET s == Walk(list)
  IN  \A i \in DOMAIN s : list.prev[s[i]] = IF i = 1 THEN NULL ELSE s[i - 1]
=============================================================================
