------------------------------ MODULE Allocator ------------------------------
(***************************************************************************)
(* GenAlloc.h: the pool of objects and the stack of the free ones, which   *)
(* is an array of pointers and an index.  Every operation holds the lock   *)
(* of the allocator from its first line to its last and is one step.       *)
(* deallocate does not look at the object it is given; the caller gives    *)
(* back what it was handed, and that once (the rule ServerConnector.tla is *)
(* checked for).                                                           *)
(***************************************************************************)
EXTENDS Naturals, FiniteSets

CONSTANTS Object,      \* the objects of the pool
          NoObject     \* what a caller has of an allocation that failed

ASSUME PoolAssumption == IsFiniteSet(Object) /\ NoObject \notin Object

pool_size == Cardinality(Object)

Index == 0 .. pool_size - 1

VARIABLES free_list, alloc_index,
          obtained     \* what the last operation returned

allocVars == <<free_list, alloc_index, obtained>>

\* The pointers below alloc_index; those above it are left-overs.
Free == {free_list[i] : i \in 0 .. alloc_index - 1}

\* Where an object lies in the array makes no difference.
AllocInit == /\ free_list \in [Index -> Object]
             /\ \A i, j \in Index : free_list[i] = free_list[j] => i = j
             /\ alloc_index = pool_size
             /\ obtained = NoObject

\* Mutant of Top: the pointer above the stack is read.
Top_Above == free_list[IF alloc_index < pool_size THEN alloc_index ELSE alloc_index - 1]

\* The pointer allocate hands out.
Top == free_list[alloc_index - 1]

allocate ==
  /\ \/ /\ alloc_index > 0
        /\ alloc_index' = alloc_index - 1
        /\ obtained' = Top
     \/ /\ alloc_index = 0                 \* std::bad_alloc
        /\ obtained' = NoObject
        /\ UNCHANGED alloc_index
  /\ UNCHANGED free_list

\* Mutant of Push: the index moves on before the pointer is stored.
Push_AfterIncrement(n) ==
  [free_list EXCEPT ![IF alloc_index + 1 < pool_size THEN alloc_index + 1 ELSE alloc_index] = n]

Push(n) == [free_list EXCEPT ![alloc_index] = n]

\* An object given back to a full pool is dropped without a word.
deallocate(n) ==
  /\ free_list' = IF alloc_index < pool_size THEN Push(n) ELSE free_list
  /\ alloc_index' = IF alloc_index < pool_size THEN alloc_index + 1 ELSE alloc_index
  /\ obtained' = NoObject

AllocNext == allocate \/ \E n \in Object \ Free : deallocate(n)

AllocSpec == AllocInit /\ [][AllocNext]_allocVars

-----------------------------------------------------------------------------
\* The array and its index implement a set of free objects: no two callers hold
\* the same object, none is lost, and get_free_count (GenAlloc.h:117-121) counts
\* them.
Objects == INSTANCE Pool WITH free <- Free, count <- alloc_index
ImplementsPool == Objects!PoolSpec
=============================================================================
