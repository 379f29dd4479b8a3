----------------------------- MODULE PooledQueue -----------------------------
(***************************************************************************)
(* The allocator and the lists together, as the connector uses them: an    *)
(* object is obtained from the pool, goes into a list, from there perhaps  *)
(* into another, and back to the pool once no list holds it.               *)
(***************************************************************************)
EXTENDS IntrusiveQueue, Allocator

ASSUME NodesArePooled == Object = Node /\ NoObject = NULL

pooledVars == <<vars, allocVars>>

InUse(n) == n \notin Free

PooledInit == Init /\ AllocInit

Obtains == allocate /\ UNCHANGED vars

GivesBack(n) == /\ InUse(n) /\ InNoList(n)
                /\ deallocate(n)
                /\ UNCHANGED vars

Queues(k, n) == /\ InUse(n)
                /\ add_first(k, n) \/ add_last(k, n)
                /\ UNCHANGED allocVars

Unqueues(k) == /\ \/ \E n \in Node : remove(k, n)
                  \/ remove_first(k)
                  \/ remove_last(k)
                  \/ clear(k)
               /\ UNCHANGED allocVars

PooledNext == \/ Obtains
              \/ \E n \in Node : GivesBack(n)
              \/ \E k \in Lists : Unqueues(k) \/ \E n \in Node : Queues(k, n)

PooledSpec == PooledInit /\ [][PooledNext]_pooledVars

-----------------------------------------------------------------------------
\* A free object is in no list and carries no link, so that the next connection
\* starts with one that is (GenAlloc.h:130-154, Queue.h:113-160).
FreeObjectsUnlinked ==
  \A n \in Free : /\ InNoList(n)
                  /\ links.next[n] = NULL /\ links.prev[n] = NULL
=============================================================================
