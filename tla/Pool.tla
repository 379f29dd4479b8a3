-------------------------------- MODULE Pool --------------------------------
(***************************************************************************)
(* What GenAlloc.h promises its callers: a fixed set of objects, each free *)
(* or handed out, never to two callers at once; the number of free ones is *)
(* known; an empty pool refuses, and an object that is given back is free  *)
(* again.  Allocator.tla implements this.                                  *)
(***************************************************************************)
EXTENDS Naturals

CONSTANTS Object, NoObject,
          pool_size   \* how many objects there are

VARIABLES free,       \* the objects nobody holds
          count,      \* how many there are
          obtained    \* the object the last operation handed out, or NoObject

poolState == <<free, count, obtained>>

PoolInit == /\ free = Object
            /\ count = pool_size
            /\ obtained = NoObject

Obtain(n) == /\ n \in free
             /\ free' = free \ {n}
             /\ count' = count - 1
             /\ obtained' = n

Refuse == /\ free = {}
          /\ obtained' = NoObject
          /\ UNCHANGED <<free, count>>

GiveBack(n) == /\ n \notin free
               /\ free' = free \union {n}
               /\ count' = count + 1
               /\ obtained' = NoObject

PoolNext == \/ \E n \in Object : Obtain(n) \/ GiveBack(n)
            \/ Refuse

PoolSpec == PoolInit /\ [][PoolNext]_poolState
=============================================================================
