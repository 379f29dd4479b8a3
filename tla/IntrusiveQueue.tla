--------------------------- MODULE IntrusiveQueue ---------------------------
(***************************************************************************)
(* The lists of Queue.h at work: several lists (the com queue and the      *)
(* action queue, in the server) over the same nodes, driven by a caller    *)
(* that keeps the rule no operation checks: it adds a node that is in no   *)
(* list, and removes a node from the list that holds it.  Under that rule  *)
(* the pointers implement Fifo.tla.  ServerConnector.tla uses the same     *)
(* operators, and does not keep the rule.                                  *)
(***************************************************************************)
EXTENDS Queue, Integers, FiniteSets, Sequences

CONSTANTS Lists,      \* the lists that share the nodes
          SizeWidth   \* width of size_t, in bits

\* The second part is arithmetic that the provers do not know.
ASSUME SizeWidthAssumption == /\ SizeWidth \in Nat \ {0}
                              /\ 2 ^ SizeWidth \in Nat \ {0}

VARIABLES ends,    \* head_node and tail_node of each list
          links,   \* next_node and prev_node of each node
          size,    \* the element count each list keeps
          result   \* the node the last operation returned

vars == <<ends, links, size, result>>

SizeT == 0 .. (2 ^ SizeWidth - 1)

\* Mutant of Wrap: the count is not confined to the width of its type.
Wrap_Unbounded(i) == i

\* ++size and --size on a size_t wrap around.
Wrap(i) == i % (2 ^ SizeWidth)

ListOf(k) == [head |-> ends[k].head, tail |-> ends[k].tail,
              next |-> links.next, prev |-> links.prev]

\* A traversal of list k from its head that follows "next" to the end.
IsTraversal(k, s) ==
  LET l == ListOf(k) IN
  /\ s # << >> => s[1] = l.head
  /\ \A i \in 1 .. Len(s) - 1 : s[i + 1] = l.next[s[i]]

\* The nodes of list k in the order of the traversal.
Traversal(k) ==
  LET M == Members(ListOf(k)) IN
  CHOOSE s \in [1 .. Cardinality(M) -> M] : IsTraversal(k, s)

Init == /\ ends = [k \in Lists |-> NoEnds]
        /\ links = NoLinks
        /\ size = [k \in Lists |-> 0]
        /\ result = NULL

InNoList(n) == \A k \in Lists : n \notin Members(ListOf(k))

SetList(k, l, count, n) ==
  /\ ends' = [ends EXCEPT ![k] = [head |-> l.head, tail |-> l.tail]]
  /\ links' = [next |-> l.next, prev |-> l.prev]
  /\ size' = [size EXCEPT ![k] = Wrap(count)]
  /\ result' = n

add_first(k, n) == /\ InNoList(n)
                   /\ SetList(k, AddFirst(ListOf(k), n), size[k] + 1, NULL)

add_last(k, n) == /\ InNoList(n)
                  /\ SetList(k, AddLast(ListOf(k), n), size[k] + 1, NULL)

remove_first(k) ==
  LET l == ListOf(k) IN
  SetList(k, RemoveFirst(l), IF l.head = NULL THEN size[k] ELSE size[k] - 1, l.head)

\* Taking out the only node leaves the count as it was.
remove_last(k) ==
  LET l == ListOf(k) IN
  SetList(k, RemoveLast(l), IF l.head = l.tail THEN size[k] ELSE size[k] - 1, l.tail)

remove(k, n) == /\ n \in Members(ListOf(k))
                /\ SetList(k, Remove(ListOf(k), n), size[k] - 1, NULL)

clear(k) == SetList(k, Clear(ListOf(k)), 0, NULL)

Next == \E k \in Lists :
          \/ \E n \in Node : add_first(k, n) \/ add_last(k, n) \/ remove(k, n)
          \/ remove_first(k)
          \/ remove_last(k)
          \/ clear(k)

Spec == Init /\ [][Next]_vars

-----------------------------------------------------------------------------
(***************************************************************************)
(* Properties.                                                             *)
(***************************************************************************)

\* Ends, links, counts and results have their types (Queue.h:13-17, 42-44).
TypeOK == /\ ends \in [Lists -> Ends]
          /\ links \in Links
          /\ size \in [Lists -> SizeT]
          /\ result \in NodeOrNull

\* The pointers of every list implement a sequence of distinct nodes, and each
\* operation of Queue.h does to it what its name says and returns the right node.
Content == INSTANCE Fifo WITH content <- [k \in Lists |-> Traversal(k)],
                              taken <- result
ImplementsFifo == Content!Spec

\* The "prev" links mirror the "next" links, the ends close the chain, and a node
\* that left its list (remove_first and remove_last reset one link only) carries
\* no link of it into the next one.
MirroredLinks ==
  /\ \A n, m \in Node : links.next[n] = m <=> links.prev[m] = n
  /\ \A k \in Lists : /\ ends[k].head = NULL <=> ends[k].tail = NULL
                      /\ ends[k].head # NULL => links.prev[ends[k].head] = NULL
                      /\ ends[k].tail # NULL => links.next[ends[k].tail] = NULL
  /\ \A n \in Node : InNoList(n) => links.next[n] = NULL /\ links.prev[n] = NULL

\* remove_first and remove_last never dereference a null pointer (Queue.h:114-115,
\* 135-136) for a caller that keeps the rule.
NoNullDereference ==
  \A k \in Lists : ~RemoveFirstFaults(ListOf(k)) /\ ~RemoveLastFaults(ListOf(k))
=============================================================================
