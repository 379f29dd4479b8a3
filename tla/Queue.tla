------------------------------- MODULE Queue -------------------------------
(***************************************************************************)
(* The intrusive doubly linked list of Queue.h, as operators on one record *)
(* l = [head, tail, next, prev].  The two links live in the node itself,   *)
(* so the lists that can hold a node (the com queue and the action queue   *)
(* of the server) share them: a caller builds l from its own head and tail *)
(* and the shared links, and stores the four fields of the result back.    *)
(* No operation checks that the node it is given is, or is not, a member.  *)
(* The element count (the field "size") is kept by IntrusiveQueue.tla.     *)
(***************************************************************************)

CONSTANTS Node, NULL

ASSUME NullIsNoNode == NULL \notin Node

NodeOrNull == Node \union {NULL}

Links == [next : [Node -> NodeOrNull], prev : [Node -> NodeOrNull]]

Ends == [head : NodeOrNull, tail : NodeOrNull]

List == [head : NodeOrNull, tail : NodeOrNull,
         next : [Node -> NodeOrNull], prev : [Node -> NodeOrNull]]

NoLinks == [next |-> [n \in Node |-> NULL], prev |-> [n \in Node |-> NULL]]

NoEnds == [head |-> NULL, tail |-> NULL]

\* f with f[n] = v; n = NULL (no such node) leaves f alone.
Store(f, n, v) == [m \in Node |-> IF m = n THEN v ELSE f[m]]

AddFirst(l, n) ==
  [head |-> n,
   tail |-> IF l.head = NULL THEN n ELSE l.tail,
   next |-> Store(l.next, n, l.head),
   prev |-> Store(Store(l.prev, l.head, n), n, NULL)]

\* Mutant of AddLast: the new tail has no "prev" link.
AddLast_NoPrev(l, n) ==
  [head |-> IF l.tail = NULL THEN n ELSE l.head,
   tail |-> n,
   next |-> Store(Store(l.next, l.tail, n), n, NULL),
   prev |-> Store(l.prev, n, NULL)]

AddLast(l, n) ==
  [head |-> IF l.tail = NULL THEN n ELSE l.head,
   tail |-> n,
   next |-> Store(Store(l.next, l.tail, n), n, NULL),
   prev |-> Store(l.prev, n, l.tail)]

(***************************************************************************)
(* remove_first dereferences the successor of the head unless head = tail, *)
(* remove_last the predecessor of the tail: on ends that do not belong     *)
(* together that is a null pointer, and the process dies.                  *)
(***************************************************************************)
RemoveFirstFaults(l) ==
  l.head # NULL /\ l.head # l.tail /\ l.next[l.head] = NULL

RemoveLastFaults(l) ==
  l.tail # NULL /\ l.head # l.tail /\ l.prev[l.tail] = NULL

\* Mutant of RemoveFirst: the new head keeps its "prev" link.
RemoveFirst_PrevKept(l) ==
  IF l.head = NULL THEN l
  ELSE [l EXCEPT !.head = l.next[l.head],
                 !.tail = IF l.head = l.tail THEN NULL ELSE @,
                 !.next = Store(@, l.head, NULL)]

\* The node remove_first returns is l.head; its "prev" link stays as it was.
RemoveFirst(l) ==
  LET second == l.next[l.head] IN
  IF l.head = NULL THEN l
  ELSE IF l.head = l.tail
  THEN [l EXCEPT !.head = NULL, !.tail = NULL, !.next = Store(@, l.head, NULL)]
  ELSE [l EXCEPT !.head = second,
                 !.prev = Store(@, second, NULL),
                 !.next = Store(@, l.head, NULL)]

\* The node remove_last returns is l.tail; its "next" link stays as it was.
RemoveLast(l) ==
  LET before == l.prev[l.tail] IN
  IF l.tail = NULL THEN l
  ELSE IF l.head = l.tail
  THEN [l EXCEPT !.head = NULL, !.tail = NULL, !.prev = Store(@, l.tail, NULL)]
  ELSE [l EXCEPT !.tail = before,
                 !.next = Store(@, before, NULL),
                 !.prev = Store(@, l.tail, NULL)]

(***************************************************************************)
(* remove() in its three parts: what it does on the side of the head, on   *)
(* the side of the tail, and to the node.  On a node that is in no list    *)
(* (both links null) the first sets head and the second sets tail to null. *)
(***************************************************************************)
UnlinkHead(l, n) ==
  IF l.prev[n] = NULL
  THEN [l EXCEPT !.head = l.next[n]]
  ELSE [l EXCEPT !.next = Store(@, l.prev[n], l.next[n])]

\* Mutant of UnlinkTail: the tail is not moved back.
UnlinkTail_TailKept(l, n) ==
  IF l.next[n] = NULL THEN l
  ELSE [l EXCEPT !.prev = Store(@, l.next[n], l.prev[n])]

UnlinkTail(l, n) ==
  IF l.next[n] = NULL
  THEN [l EXCEPT !.tail = l.prev[n]]
  ELSE [l EXCEPT !.prev = Store(@, l.next[n], l.prev[n])]

Detach(l, n) ==
  [l EXCEPT !.next = Store(@, n, NULL), !.prev = Store(@, n, NULL)]

Remove(l, n) == Detach(UnlinkTail(UnlinkHead(l, n), n), n)

(***************************************************************************)
(* The nodes a traversal from the head visits: the least set that has the  *)
(* head and is closed under "next".                                        *)
(***************************************************************************)
ClosedUnderNext(l, S) ==
  /\ l.head # NULL => l.head \in S
  /\ \A m \in S : l.next[m] # NULL => l.next[m] \in S

Members(l) ==
  {n \in Node : \A S \in SUBSET Node : ClosedUnderNext(l, S) => n \in S}

\* clear() detaches every node it can reach from the head.
Clear(l) ==
  [head |-> NULL, tail |-> NULL,
   next |-> [n \in Node |-> IF n \in Members(l) THEN NULL ELSE l.next[n]],
   prev |-> [n \in Node |-> IF n \in Members(l) THEN NULL ELSE l.prev[n]]]
=============================================================================
