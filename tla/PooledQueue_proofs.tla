------------------------- MODULE PooledQueue_proofs -------------------------
(***************************************************************************)
(* The lists of Queue.h and the pool of GenAlloc.h in the hands of a       *)
(* caller that keeps the membership rule, for any lists and any objects:   *)
(* the links mirror each other, no operation follows a null pointer, a     *)
(* free object carries no link, and the array of free objects implements   *)
(* the pool.  What each operation makes of one list is in Queue_proofs.tla.*)
(***************************************************************************)
EXTENDS PooledQueue, Queue_proofs, FiniteSetTheorems, SequenceTheorems, WellFoundedInduction

-----------------------------------------------------------------------------
(***************************************************************************)
(* The array and the index of GenAlloc.h implement the set of free objects *)
(* of Pool.tla, for every finite set of objects.  The invariant is that    *)
(* the pointers below the index are different objects; that an index below *)
(* the end is then left for an object that is not among them is counting.  *)
(***************************************************************************)

Stack == 0 .. alloc_index - 1

AInv == /\ free_list \in [Index -> Object]
        /\ alloc_index \in 0 .. pool_size
        /\ obtained \in Object \union {NoObject}
        /\ \A i, j \in Stack : free_list[i] = free_list[j] => i = j

LEMMA PoolSize == pool_size \in Nat
BY PoolAssumption, FS_CardinalityType DEF pool_size

\* There are as many free objects as get_free_count says.
LEMMA FreeCount ==
  ASSUME AInv
  PROVE  /\ Free \subseteq Object /\ IsFiniteSet(Free)
         /\ Cardinality(Free) = alloc_index
<1> DEFINE f == [i \in Stack |-> free_list[i]]
<1>1. Stack \subseteq Index
  BY PoolSize DEF AInv, Stack, Index
<1>2. Free \subseteq Object
  BY <1>1 DEF AInv, Free, Stack
<1>3. f \in Bijection(Stack, Free)
  <2>1. f \in [Stack -> Free] /\ \A n \in Free : \E i \in Stack : f[i] = n
    BY DEF Free, Stack
  <2>2. \A i, j \in Stack : f[i] = f[j] => i = j
    BY DEF AInv
  <2>3. QED
    BY <2>1, <2>2 DEF Bijection, Injection, Surjection, IsInjective
<1>4. IsFiniteSet(Stack) /\ Cardinality(Stack) = alloc_index
  BY PoolSize, FS_Interval DEF AInv, Stack
<1>5. ExistsBijection(Stack, Free)
  BY <1>3 DEF ExistsBijection
<1> QED
  BY <1>2, <1>4, <1>5, FS_Bijection

\* At the start every object is free.
LEMMA AllFree ==
  ASSUME AllocInit
  PROVE  AInv /\ Free = Object
<1>1. AInv
  BY PoolSize DEF AllocInit, AInv, Stack, Index
<1>2. Cardinality(Free) = Cardinality(Object) /\ Free \subseteq Object
  BY <1>1, FreeCount DEF AllocInit, pool_size
<1> QED
  BY <1>1, <1>2, PoolAssumption, FS_Subset

\* While an object is in use the array has room for it.
LEMMA RoomForUsed ==
  ASSUME AInv, NEW n \in Object \ Free
  PROVE  alloc_index < pool_size
<1>1. Free # Object /\ Free \subseteq Object /\ Cardinality(Free) = alloc_index
  BY FreeCount
<1>2. Cardinality(Free) # Cardinality(Object)
  BY <1>1, PoolAssumption, FS_Subset
<1> QED
  BY <1>1, <1>2, PoolSize DEF AInv, pool_size

\* allocate hands out an object that was free, or refuses if none is.
LEMMA AllocateStep ==
  ASSUME AInv, allocate
  PROVE  /\ AInv'
         /\ \/ /\ obtained' \in Free /\ Free' = Free \ {obtained'}
               /\ alloc_index' = alloc_index - 1
            \/ /\ Free = {} /\ obtained' = NoObject
               /\ UNCHANGED <<free_list, alloc_index>>
<1>1. CASE alloc_index = 0
  <2>1. obtained' = NoObject /\ UNCHANGED <<free_list, alloc_index>>
    BY <1>1 DEF allocate
  <2>2. Free = {}
    BY <1>1 DEF Free
  <2> QED
    BY <2>1, <2>2 DEF AInv, Stack
<1>2. CASE alloc_index # 0
  <2>1. /\ alloc_index - 1 \in Stack /\ alloc_index - 1 \in 0 .. pool_size
        /\ alloc_index - 1 \in Index
    BY <1>2, PoolSize DEF AInv, Stack, Index
  <2>2. /\ alloc_index' = alloc_index - 1 /\ free_list' = free_list
        /\ obtained' = free_list[alloc_index - 1]
    BY <1>2, <2>1 DEF allocate, Top, Stack
  <2>3. Stack = Stack' \union {alloc_index - 1} /\ alloc_index - 1 \notin Stack'
    BY <2>1, <2>2 DEF Stack
  <2>4. obtained' \in Object /\ obtained' \in Free
    BY <2>1, <2>2 DEF AInv, Free, Stack
  <2>5. \A i, j \in Stack' : free_list'[i] = free_list'[j] => i = j
    BY <2>2, <2>3 DEF AInv
  <2>6. Free = Free' \union {obtained'} /\ obtained' \notin Free'
    <3>1. Free = {free_list[i] : i \in Stack} /\ Free' = {free_list[i] : i \in Stack'}
      BY <2>2 DEF Free, Stack
    <3>2. \A i \in Stack' : free_list[i] # obtained'
      BY <2>1, <2>2, <2>3 DEF AInv
    <3> QED BY <2>2, <2>3, <3>1, <3>2
  <2>7. AInv'
    BY <2>1, <2>2, <2>4, <2>5 DEF AInv
  <2> QED
    BY <2>2, <2>4, <2>6, <2>7
<1> QED
  BY <1>1, <1>2

\* deallocate makes an object that was in use free again.
LEMMA DeallocateStep ==
  ASSUME AInv, NEW n \in Object \ Free, deallocate(n)
  PROVE  /\ AInv'
         /\ Free' = Free \union {n} /\ alloc_index' = alloc_index + 1
         /\ obtained' = NoObject
<1>1. alloc_index < pool_size /\ alloc_index \in Index
  BY RoomForUsed, PoolSize DEF AInv, Index
<1>2. /\ alloc_index' = alloc_index + 1 /\ obtained' = NoObject
      /\ free_list' = [free_list EXCEPT ![alloc_index] = n]
  BY <1>1 DEF deallocate, Push
<1>3. Stack' = Stack \union {alloc_index} /\ alloc_index \notin Stack /\ Stack \subseteq Index
  BY <1>1, <1>2, PoolSize DEF AInv, Stack, Index
<1>4. free_list' \in [Index -> Object] /\ alloc_index' \in 0 .. pool_size
  BY <1>1, <1>2, PoolSize DEF AInv
<1>5. free_list'[alloc_index] = n /\ \A i \in Stack : free_list'[i] = free_list[i]
  BY <1>1, <1>2, <1>3 DEF AInv
<1>6. Free = {free_list[i] : i \in Stack} /\ Free' = {free_list'[i] : i \in Stack'}
  BY DEF Free, Stack
<1>7. Free' = Free \union {n}
  BY <1>3, <1>5, <1>6
<1>8. \A i, j \in Stack' : free_list'[i] = free_list'[j] => i = j
  BY <1>3, <1>5, <1>6 DEF AInv
<1>9. AInv'
  BY <1>2, <1>4, <1>8 DEF AInv
<1> QED
  BY <1>2, <1>7, <1>9

LEMMA AllocNextInv ==
  ASSUME AInv, [AllocNext]_allocVars
  PROVE  AInv'
<1>1. CASE allocate
  BY <1>1, AllocateStep
<1>2. ASSUME NEW n \in Object \ Free, deallocate(n)
      PROVE  AInv'
  BY <1>2, DeallocateStep
<1>3. CASE UNCHANGED allocVars
  BY <1>3 DEF AInv, allocVars, Stack
<1> QED
  BY <1>1, <1>2, <1>3 DEF AllocNext

LEMMA AllocNextRefines ==
  ASSUME AInv, [AllocNext]_allocVars
  PROVE  [Objects!PoolNext]_(Objects!poolState)
<1>1. CASE allocate
  <2>1. CASE /\ obtained' \in Free /\ Free' = Free \ {obtained'}
             /\ alloc_index' = alloc_index - 1
    <3>1. obtained' \in Object
      BY <2>1, FreeCount
    <3>2. Objects!Obtain(obtained')
      BY <2>1 DEF Objects!Obtain
    <3> QED BY <3>1, <3>2 DEF Objects!PoolNext
  <2>2. CASE /\ Free = {} /\ obtained' = NoObject
             /\ UNCHANGED <<free_list, alloc_index>>
    <3>1. Free' = Free
      BY <2>2 DEF Free
    <3> QED BY <2>2, <3>1 DEF Objects!PoolNext, Objects!Refuse
  <2> QED
    BY <1>1, <2>1, <2>2, AllocateStep
<1>2. ASSUME NEW n \in Object \ Free, deallocate(n)
      PROVE  Objects!PoolNext
  BY <1>2, DeallocateStep DEF Objects!PoolNext, Objects!GiveBack
<1>3. CASE UNCHANGED allocVars
  <2>1. Free' = Free /\ alloc_index' = alloc_index /\ obtained' = obtained
    BY <1>3 DEF allocVars, Free
  <2> QED BY <2>1 DEF Objects!poolState
<1> QED
  BY <1>1, <1>2, <1>3 DEF AllocNext

\* GenAlloc.h hands no object to two callers, loses none, and refuses only when all
\* are in use: the stack of pointers implements the set of Pool.tla.
THEOREM AllocatorImplementsPool == AllocSpec => ImplementsPool
<1>1. ASSUME AllocInit PROVE AInv /\ Objects!PoolInit
  <2>1. AInv /\ Free = Object
    BY <1>1, AllFree
  <2>2. alloc_index = pool_size /\ obtained = NoObject
    BY <1>1 DEF AllocInit
  <2> QED BY <2>1, <2>2 DEF Objects!PoolInit
<1>2. AInv /\ [AllocNext]_allocVars => AInv'
  BY AllocNextInv
<1>3. AInv /\ [AllocNext]_allocVars => [Objects!PoolNext]_(Objects!poolState)
  BY AllocNextRefines
<1> QED
  BY <1>1, <1>2, <1>3, PTL DEF AllocSpec, ImplementsPool, Objects!PoolSpec

-----------------------------------------------------------------------------
(***************************************************************************)
(* The lists that share the nodes.                                         *)
(***************************************************************************)

\* No node is in two lists, and one in none carries no link.
Apart ==
  /\ \A j, k \in Lists : j # k => Members(ListOf(j)) \intersect Members(ListOf(k)) = {}
  /\ \A n \in Node : InNoList(n) => Loose(links, n)

QInv == TypeOK /\ Apart /\ \A k \in Lists : Sound(ListOf(k))

\* The count stays within its type.
LEMMA WrapType ==
  ASSUME NEW i \in Int
  PROVE  Wrap(i) \in SizeT
<1>1. ASSUME NEW w \in Nat \ {0}
      PROVE  i % w \in 0 .. (w - 1)
  OBVIOUS
<1> QED
  BY <1>1, SizeWidthAssumption DEF Wrap, SizeT

\* An operation on list k that takes nodes of k out or puts nodes of no list in leaves
\* the other lists as they are.
LEMMA OthersStay ==
  ASSUME QInv, NEW k \in Lists, NEW r, NEW M \in SUBSET Node, Becomes(ListOf(k), r, M),
         \A n \in M : n \in Members(ListOf(k)) \/ InNoList(n),
         NEW i \in Int, NEW n \in NodeOrNull, SetList(k, r, i, n)
  PROVE  /\ ListOf(k)' = r
         /\ \A j \in Lists : j # k =>
              /\ Sound(ListOf(j)') /\ ListOf(j)'.head = ListOf(j).head
              /\ Members(ListOf(j)') = Members(ListOf(j))
              /\ \A m \in Members(ListOf(j)) : SameLinks(ListOf(j)', ListOf(j), m)
<1> DEFINE l == ListOf(k)
<1>1. r \in List /\ Mirrored(r) /\ Chain(r) /\ Members(r) = M
  BY DEF Becomes, Sound
<1>2. /\ ends' = [ends EXCEPT ![k] = [head |-> r.head, tail |-> r.tail]]
      /\ links' = [next |-> r.next, prev |-> r.prev]
  BY DEF SetList
<1>3. ListOf(k)' = r
  BY <1>1, <1>2 DEF ListOf, QInv, TypeOK, Ends, List
<1>4. ASSUME NEW j \in Lists, j # k
      PROVE  /\ Sound(ListOf(j)') /\ ListOf(j)'.head = ListOf(j).head
             /\ Members(ListOf(j)') = Members(ListOf(j))
             /\ \A m \in Members(ListOf(j)) : SameLinks(ListOf(j)', ListOf(j), m)
  <2> DEFINE o == ListOf(j)
             s == ListOf(j)'
  <2>1. /\ o \in List /\ Chain(o) /\ Members(o) \subseteq Node
        /\ \A m \in Members(o) : m \notin Members(l) /\ ~InNoList(m)
    BY <1>4, SoundFacts DEF QInv, Apart, Sound, InNoList
  <2>2. /\ s.head = o.head /\ s.tail = o.tail /\ s.next = r.next /\ s.prev = r.prev
        /\ o.next = l.next /\ o.prev = l.prev /\ s \in List
    BY <1>1, <1>2, <1>4, <2>1 DEF ListOf, QInv, TypeOK, Ends, List
  <2>3. \A m \in Members(o) : SameLinks(s, o, m)
    <3>1. \A m \in Members(o) : SameLinks(r, l, m)
      BY <2>1 DEF Becomes
    <3> QED BY <2>2, <3>1 DEF SameLinks
  <2>4. Members(s) = Members(o) /\ Chain(s)
    BY <2>1, <2>2, <2>3, ChainFrame
  <2>5. Mirrored(s)
    BY <1>1, <2>2 DEF Mirrored
  <2> QED BY <2>2, <2>3, <2>4, <2>5 DEF Sound
<1> QED
  BY <1>3, <1>4

\* Such an operation keeps the invariant, and what was in no list and is not put in stays
\* out.
LEMMA SetListQInv ==
  ASSUME QInv, NEW k \in Lists, NEW r, NEW M \in SUBSET Node, Becomes(ListOf(k), r, M),
         \A n \in M : n \in Members(ListOf(k)) \/ InNoList(n),
         NEW i \in Int, NEW n \in NodeOrNull, SetList(k, r, i, n)
  PROVE  /\ QInv'
         /\ \A m \in Node \ M : InNoList(m) => InNoList(m)'
<1> DEFINE l == ListOf(k)
<1>1. r \in List /\ Mirrored(r) /\ Chain(r) /\ Members(r) = M
  BY DEF Becomes, Sound
<1>2. /\ ends' = [ends EXCEPT ![k] = [head |-> r.head, tail |-> r.tail]]
      /\ links' = [next |-> r.next, prev |-> r.prev]
      /\ size' = [size EXCEPT ![k] = Wrap(i)]
      /\ result' = n
  BY DEF SetList
<1>3. TypeOK'
  BY <1>1, <1>2, WrapType DEF QInv, TypeOK, List, Ends, Links
<1>4. /\ ListOf(k)' = r
      /\ \A j \in Lists : j # k => /\ Members(ListOf(j)') = Members(ListOf(j))
                                   /\ Sound(ListOf(j)')
  BY OthersStay
<1>6. \A j \in Lists : Sound(ListOf(j)')
  BY <1>4 DEF Becomes
<1>7. \A j \in Lists : Members(ListOf(j)') = IF j = k THEN M ELSE Members(ListOf(j))
  BY <1>1, <1>4
<1>8. \A m \in Node : InNoList(m)' <=> \A j \in Lists : m \notin Members(ListOf(j)')
  BY DEF InNoList
<1>9. \A m \in Node \ M : InNoList(m) => InNoList(m)'
  BY <1>7, <1>8 DEF InNoList
<1>10. \A i1, i2 \in Lists : i1 # i2 =>
         Members(ListOf(i1)') \intersect Members(ListOf(i2)') = {}
  <2>1. \A j \in Lists : j # k => Members(ListOf(j)) \intersect M = {}
    BY DEF QInv, Apart, InNoList
  <2> QED BY <1>7, <2>1 DEF QInv, Apart
<1>11. ASSUME NEW m \in Node, InNoList(m)'
       PROVE  Loose(links', m)
  <2>1. m \notin M /\ \A j \in Lists : j # k => m \notin Members(ListOf(j))
    BY <1>7, <1>8, <1>11
  <2>2. CASE m \in Members(l)
    <3>1. Loose(r, m)
      BY <2>1, <2>2 DEF Becomes
    <3> QED BY <1>2, <3>1 DEF Loose
  <2>3. CASE m \notin Members(l)
    <3>1. Loose(links, m)
      BY <2>1, <2>3 DEF InNoList, QInv, Apart
    <3>2. SameLinks(r, l, m)
      BY <2>1, <2>3 DEF Becomes
    <3> QED BY <1>2, <3>1, <3>2 DEF Loose, SameLinks, ListOf
  <2> QED BY <2>2, <2>3
<1>12. Apart'
  BY <1>10, <1>11 DEF Apart
<1>13. QInv'
  BY <1>3, <1>6, <1>12 DEF QInv
<1> QED BY <1>9, <1>13

-----------------------------------------------------------------------------
(***************************************************************************)
(* Lists and pool together: a free object is in no list.                   *)
(***************************************************************************)
PInv == QInv /\ AInv /\ \A n \in Free : InNoList(n)

LEMMA InitPInv == PooledInit => PInv
<1> SUFFICES ASSUME PooledInit PROVE PInv
  OBVIOUS
<1>1. /\ ends = [k \in Lists |-> NoEnds] /\ links = NoLinks
      /\ size = [k \in Lists |-> 0] /\ result = NULL
  BY DEF PooledInit, Init
<1>2. 0 \in SizeT
  <2>1. ASSUME NEW w \in Nat \ {0} PROVE 0 \in 0 .. (w - 1)
    OBVIOUS
  <2> QED BY <2>1, SizeWidthAssumption DEF SizeT
<1>3. TypeOK
  BY <1>1, <1>2 DEF TypeOK, NoEnds, NoLinks, Ends, Links, NodeOrNull
<1>4. ASSUME NEW k \in Lists
      PROVE  Sound(ListOf(k)) /\ Members(ListOf(k)) = {}
  <2> DEFINE l == ListOf(k)
  <2>1. /\ l \in List /\ l.head = NULL /\ l.tail = NULL
        /\ \A n \in Node : l.next[n] = NULL /\ l.prev[n] = NULL
    BY <1>1 DEF ListOf, List, NoEnds, NoLinks, NodeOrNull
  <2>2. Members(l) = {}
    <3>1. ClosedUnderNext(l, {})
      BY <2>1 DEF ClosedUnderNext
    <3> QED BY <3>1, MembersLeast
  <2> QED BY <2>1, <2>2, NullIsNoNode DEF Sound, Chain, Mirrored
<1>5. Apart
  BY <1>1, <1>4 DEF Apart, Loose, NoLinks
<1>6. AInv /\ Free = Node
  BY AllFree, NodesArePooled DEF PooledInit
<1> QED
  BY <1>3, <1>4, <1>5, <1>6 DEF PInv, QInv, InNoList

\* What stands in the variables of the lists is all that QInv and InNoList speak of.
LEMMA QueuesFrame ==
  ASSUME UNCHANGED vars
  PROVE  /\ QInv => QInv'
         /\ \A n \in Node : InNoList(n) => InNoList(n)'
<1>1. ends' = ends /\ links' = links /\ size' = size /\ result' = result
  BY DEF vars
<1>2. \A k \in Lists : ListOf(k)' = ListOf(k)
  BY <1>1 DEF ListOf
<1>3. \A n \in Node : InNoList(n)' <=> InNoList(n)
  BY <1>2 DEF InNoList
<1> QED
  BY <1>1, <1>2, <1>3 DEF QInv, TypeOK, Apart

LEMMA PoolFrame ==
  ASSUME AInv, UNCHANGED allocVars
  PROVE  AInv' /\ Free' = Free
BY DEF AInv, allocVars, Stack, Free

LEMMA ObtainsPInv ==
  ASSUME PInv, Obtains
  PROVE  PInv'
<1>1. AInv' /\ Free' \subseteq Free
  <2>1. AInv /\ allocate
    BY DEF PInv, Obtains
  <2>2. Free' = Free \/ Free' \subseteq Free
    BY <2>1, AllocateStep DEF Free
  <2> QED BY <2>1, <2>2, AllocateStep
<1>2. QInv' /\ \A n \in Node : InNoList(n) => InNoList(n)'
  BY QueuesFrame DEF PInv, Obtains
<1>3. Free \subseteq Node
  BY FreeCount, NodesArePooled DEF PInv
<1> QED
  BY <1>1, <1>2, <1>3 DEF PInv

LEMMA GivesBackPInv ==
  ASSUME PInv, NEW n \in Node, GivesBack(n)
  PROVE  PInv'
<1>1. AInv' /\ Free' = Free \union {n}
  <2>1. AInv /\ n \in Object \ Free /\ deallocate(n)
    BY NodesArePooled DEF PInv, GivesBack, InUse
  <2> QED BY <2>1, DeallocateStep
<1>2. QInv' /\ \A m \in Node : InNoList(m) => InNoList(m)'
  BY QueuesFrame DEF PInv, GivesBack
<1>3. Free \subseteq Node /\ InNoList(n)
  BY FreeCount, NodesArePooled DEF PInv, GivesBack
<1> QED
  BY <1>1, <1>2, <1>3 DEF PInv

\* What a step of the lists has to show of the set M of the nodes list k then has.
LEMMA ListStep ==
  ASSUME PInv, UNCHANGED allocVars, NEW k \in Lists, NEW r, NEW M \in SUBSET Node,
         Becomes(ListOf(k), r, M),
         \A n \in M : n \in Members(ListOf(k)) \/ (InNoList(n) /\ n \notin Free),
         NEW i \in Int, NEW n \in NodeOrNull, SetList(k, r, i, n)
  PROVE  PInv'
<1>1. AInv' /\ Free' = Free /\ Free \subseteq Node
  BY PoolFrame, FreeCount, NodesArePooled DEF PInv
<1>2. QInv' /\ \A m \in Node \ M : InNoList(m) => InNoList(m)'
  BY SetListQInv DEF PInv
<1>3. \A m \in Free : m \in Node \ M /\ InNoList(m)
  BY <1>1 DEF PInv, InNoList
<1> QED
  BY <1>1, <1>2, <1>3 DEF PInv

\* The count of a list is a number before it is wrapped.
LEMMA CountType ==
  ASSUME PInv, NEW k \in Lists
  PROVE  size[k] \in Int /\ size[k] + 1 \in Int /\ size[k] - 1 \in Int
<1>1. ASSUME NEW w \in Nat \ {0} PROVE 0 .. (w - 1) \subseteq Int
  OBVIOUS
<1>2. SizeT \subseteq Int /\ size[k] \in SizeT
  BY <1>1, SizeWidthAssumption DEF SizeT, PInv, QInv, TypeOK
<1>3. size[k] \in Int
  BY <1>2
<1>4. ASSUME NEW i \in Int PROVE i + 1 \in Int /\ i - 1 \in Int
  OBVIOUS
<1> QED
  BY <1>3, <1>4

LEMMA QueuesPInv ==
  ASSUME PInv, NEW k \in Lists, NEW n \in Node, Queues(k, n)
  PROVE  PInv'
<1> DEFINE l == ListOf(k)
           M == Members(l) \union {n}
<1>1. InNoList(n) /\ n \notin Free /\ UNCHANGED allocVars
  BY DEF Queues, InUse, add_first, add_last
<1>2. /\ Sound(l) /\ Members(l) \subseteq Node /\ n \in Node \ Members(l)
      /\ Loose(l, n)
  BY <1>1, SoundFacts DEF PInv, QInv, Apart, InNoList, Loose, ListOf
<1>3. M \in SUBSET Node /\ \A m \in M : m \in Members(l) \/ (InNoList(m) /\ m \notin Free)
  BY <1>1, <1>2
<1>4. size[k] + 1 \in Int /\ NULL \in NodeOrNull
  BY CountType DEF NodeOrNull
<1>5. CASE add_first(k, n)
  <2>1. Becomes(l, AddFirst(l, n), M) /\ SetList(k, AddFirst(l, n), size[k] + 1, NULL)
    BY <1>2, <1>5, AddFirstBecomes DEF add_first
  <2> QED BY <1>1, <1>3, <1>4, <2>1, ListStep
<1>6. CASE add_last(k, n)
  <2>1. Becomes(l, AddLast(l, n), M) /\ SetList(k, AddLast(l, n), size[k] + 1, NULL)
    BY <1>2, <1>6, AddLastBecomes DEF add_last
  <2> QED BY <1>1, <1>3, <1>4, <2>1, ListStep
<1> QED
  BY <1>5, <1>6 DEF Queues

LEMMA UnqueuesPInv ==
  ASSUME PInv, NEW k \in Lists, Unqueues(k)
  PROVE  PInv'
<1> DEFINE l == ListOf(k)
<1>1. UNCHANGED allocVars
  BY DEF Unqueues
<1>2. Sound(l) /\ Members(l) \subseteq Node /\ l.head \in NodeOrNull /\ l.tail \in NodeOrNull
  BY SoundFacts DEF PInv, QInv, List
<1>3. /\ size[k] \in Int /\ size[k] - 1 \in Int /\ 0 \in Int
      /\ NULL \in NodeOrNull
  BY CountType DEF NodeOrNull
<1>4. ASSUME NEW M \in SUBSET Members(l), NEW r, Becomes(l, r, M),
             NEW i \in Int, NEW n \in NodeOrNull, SetList(k, r, i, n)
      PROVE  PInv'
  <2>1. M \in SUBSET Node /\ \A m \in M : m \in Members(l)
    BY <1>2
  <2> QED BY <1>1, <1>4, <2>1, ListStep
<1>5. ASSUME NEW n \in Node, remove(k, n)
      PROVE  PInv'
  <2>1. Becomes(l, Remove(l, n), Members(l) \ {n})
    BY <1>2, <1>5, RemoveBecomes DEF remove
  <2>2. SetList(k, Remove(l, n), size[k] - 1, NULL)
    BY <1>5 DEF remove
  <2> QED BY <1>3, <1>4, <2>1, <2>2
<1>6. CASE remove_first(k)
  <2>1. PICK i \in Int : SetList(k, RemoveFirst(l), i, l.head)
    BY <1>3, <1>6 DEF remove_first
  <2> QED BY <1>2, <1>4, <2>1, RemoveFirstBecomes
<1>7. CASE remove_last(k)
  <2>1. PICK i \in Int : SetList(k, RemoveLast(l), i, l.tail)
    BY <1>3, <1>7 DEF remove_last
  <2> QED BY <1>2, <1>4, <2>1, RemoveLastBecomes
<1>8. CASE clear(k)
  <2>1. SetList(k, Clear(l), 0, NULL)
    BY <1>8 DEF clear
  <2> QED BY <1>2, <1>3, <1>4, <2>1, ClearBecomes
<1> QED
  BY <1>5, <1>6, <1>7, <1>8 DEF Unqueues

LEMMA NextPInv == PInv /\ [PooledNext]_pooledVars => PInv'
<1> SUFFICES ASSUME PInv, [PooledNext]_pooledVars
             PROVE  PInv'
  OBVIOUS
<1>1. CASE Obtains
  BY <1>1, ObtainsPInv
<1>2. ASSUME NEW n \in Node, GivesBack(n) PROVE PInv'
  BY <1>2, GivesBackPInv
<1>3. ASSUME NEW k \in Lists, Unqueues(k) PROVE PInv'
  BY <1>3, UnqueuesPInv
<1>4. ASSUME NEW k \in Lists, NEW n \in Node, Queues(k, n) PROVE PInv'
  BY <1>4, QueuesPInv
<1>5. CASE UNCHANGED pooledVars
  <2>1. UNCHANGED vars /\ UNCHANGED allocVars
    BY <1>5 DEF pooledVars
  <2>2. Free \subseteq Node
    BY FreeCount, NodesArePooled DEF PInv
  <2> QED BY <2>1, <2>2, QueuesFrame, PoolFrame DEF PInv
<1> QED
  BY <1>1, <1>2, <1>3, <1>4, <1>5 DEF PooledNext

LEMMA PInvHolds == PooledSpec => []PInv
BY InitPInv, NextPInv, PTL DEF PooledSpec

-----------------------------------------------------------------------------
\* The ends, the links and the counts of Queue.h keep their types, whatever the count
\* of a list has drifted to.
THEOREM QueueTypes == PooledSpec => []TypeOK
<1>1. PInv => TypeOK
  BY DEF PInv, QInv
<1> QED BY <1>1, PInvHolds, PTL

\* For a caller that keeps the membership rule the links of Queue.h mirror each other,
\* the ends close the chain, and a node that left its list carries no link.
THEOREM LinksMirrored == PooledSpec => []MirroredLinks
<1>1. PInv => MirroredLinks
  <2> SUFFICES ASSUME PInv PROVE MirroredLinks
    OBVIOUS
  <2>1. ASSUME NEW k \in Lists
        PROVE  /\ \A n, m \in Node : links.next[n] = m <=> links.prev[m] = n
               /\ ends[k].head = NULL <=> ends[k].tail = NULL
               /\ ends[k].head # NULL => links.prev[ends[k].head] = NULL
               /\ ends[k].tail # NULL => links.next[ends[k].tail] = NULL
    <3>1. Mirrored(ListOf(k)) /\ Chain(ListOf(k))
      BY DEF PInv, QInv, Sound
    <3> QED BY <3>1 DEF Mirrored, Chain, ListOf
  <2>2. \A n \in Node : InNoList(n) => links.next[n] = NULL /\ links.prev[n] = NULL
    BY DEF PInv, QInv, Apart, Loose
  <2>3. ASSUME Lists = {}
        PROVE  \A n, m \in Node : links.next[n] = m <=> links.prev[m] = n
    BY <2>2, <2>3, NullIsNoNode DEF InNoList
  <2> QED BY <2>1, <2>2, <2>3 DEF MirroredLinks
<1> QED BY <1>1, PInvHolds, PTL

\* remove_first and remove_last of Queue.h never follow a null pointer for such a caller.
THEOREM NeverNull == PooledSpec => []NoNullDereference
<1>1. PInv => NoNullDereference
  <2> SUFFICES ASSUME PInv, NEW k \in Lists
               PROVE  ~RemoveFirstFaults(ListOf(k)) /\ ~RemoveLastFaults(ListOf(k))
    BY DEF NoNullDereference
  <2>1. Sound(ListOf(k))
    BY DEF PInv, QInv
  <2>2. /\ ListOf(k).head # NULL => ListOf(k).head \in Members(ListOf(k))
        /\ ListOf(k).tail # NULL => ListOf(k).tail \in Members(ListOf(k))
    BY <2>1, RemoveFirstIsRemove, RemoveLastIsRemove
  <2> QED BY <2>1, <2>2, SoundFacts DEF RemoveFirstFaults, RemoveLastFaults
<1> QED BY <1>1, PInvHolds, PTL

\* What GenAlloc.h has on its free list is in no list and carries no link.
THEOREM FreeUnlinked == PooledSpec => []FreeObjectsUnlinked
<1>1. PInv => FreeObjectsUnlinked
  <2>1. PInv => Free \subseteq Node
    BY FreeCount, NodesArePooled DEF PInv
  <2> QED BY <2>1 DEF PInv, QInv, Apart, Loose, FreeObjectsUnlinked
<1> QED BY <1>1, PInvHolds, PTL

\* The rule of the lists is rule enough for the pool: what leaves the lists and is given
\* back was in use, so that the array of GenAlloc.h implements the set of Pool.tla here.
THEOREM PooledImplementsPool == PooledSpec => ImplementsPool
<1>1. PooledInit => AllocInit
  BY DEF PooledInit
<1>2. [PooledNext]_pooledVars => [AllocNext]_allocVars
  BY NodesArePooled
  DEF PooledNext, Obtains, GivesBack, InUse, Queues, Unqueues, AllocNext, pooledVars
<1>3. PooledSpec => AllocSpec
  BY <1>1, <1>2, PTL DEF PooledSpec, AllocSpec
<1> QED BY <1>3, AllocatorImplementsPool
-----------------------------------------------------------------------------
(***************************************************************************)
(* The order of a list.  A walk of a list visits each of its members once, *)
(* in the order of the links; a list has one walk only.                    *)
(***************************************************************************)
Walk(l, s) ==
  /\ s \in Seq(Node)
  /\ s # << >> => s[1] = l.head
  /\ \A i \in 1 .. Len(s) - 1 : l.next[s[i]] = s[i + 1]
  /\ \A i \in 1 .. Len(s) : s[i] \in Members(l)
  /\ \A m \in Members(l) : \E i \in 1 .. Len(s) : s[i] = m
  /\ \A i, j \in 1 .. Len(s) : s[i] = s[j] => i = j

Follows(l, f) == /\ f # << >> => f[1] = l.head
                 /\ \A i \in 1 .. Len(f) - 1 : f[i + 1] = l.next[f[i]]

Path(l) ==
  CHOOSE f \in [1 .. Cardinality(Members(l)) -> Members(l)] : Follows(l, f)

LEMMA TraversalIsPath ==
  /\ \A k \in Lists : Traversal(k) = Path(ListOf(k))
  /\ \A k \in Lists : Traversal(k)' = Path(ListOf(k)')
BY DEF Traversal, IsTraversal, Path, Follows

Less == OpToRel(<, Nat)

\* A nonempty set of numbers has a least one.
LEMMA LeastNumber ==
  ASSUME NEW S, S \subseteq Nat, S # {}
  PROVE  \E m \in S : \A k \in S : m <= k
<1>1. PICK m \in S : \A k \in S : ~ (<<k, m>> \in Less)
  BY NatLessThanWellFounded, WFMin DEF Less
<1>2. ASSUME NEW k \in S
      PROVE  m <= k
  <2>1. k \in Nat /\ m \in Nat
    OBVIOUS
  <2>2. <<k, m>> \in Less <=> k < m
    BY <2>1 DEF Less, OpToRel
  <2> QED BY <1>1, <2>1, <2>2
<1> QED
  BY <1>2

Along(l, n, f) == \A i \in 1 .. n - 1 : f[i + 1] = l.next[f[i]]

\* Two ways along the links agree as far as they go.
LEMMA OneWay ==
  ASSUME NEW l, NEW n \in Nat, NEW S, NEW f \in [1 .. n -> S], NEW g \in [1 .. n -> S],
         n > 0 => f[1] = g[1], Along(l, n, f), Along(l, n, g)
  PROVE  f = g
<1> DEFINE D == {i \in 1 .. n : f[i] # g[i]}
<1>1. CASE D = {}
  BY <1>1
<1>2. CASE D # {}
  <2>1. D \subseteq Nat
    OBVIOUS
  <2>2. PICK m \in D : \A k \in D : m <= k
    <3> HIDE DEF D
    <3> QED BY <1>2, <2>1, LeastNumber
  <2>3. m \in 1 .. n /\ f[m] # g[m]
    BY <2>2
  <2>4. m # 1
    BY <2>3
  <2>5. m - 1 \in 1 .. n - 1 /\ m - 1 \in 1 .. n /\ (m - 1) + 1 = m /\ ~(m <= m - 1)
    BY <2>3, <2>4
  <2>6. f[m - 1] = g[m - 1]
    BY <2>2, <2>5
  <2>7. f[(m - 1) + 1] = l.next[f[m - 1]] /\ g[(m - 1) + 1] = l.next[g[m - 1]]
    BY <2>5 DEF Along
  <2> QED BY <2>3, <2>5, <2>6, <2>7
<1> QED
  BY <1>1, <1>2

LEMMA WalkIsPath ==
  ASSUME NEW l, NEW s, Walk(l, s)
  PROVE  Path(l) = s
<1> DEFINE M == Members(l)
           n == Len(s)
<1>1. s \in Seq(Node) /\ n \in Nat /\ s \in [1 .. n -> Node] /\ DOMAIN s = 1 .. n
  BY LenProperties DEF Walk
<1>2. s \in [1 .. n -> M]
  BY <1>1 DEF Walk
<1>3. Cardinality(M) = n
  <2>1. s \in Bijection(1 .. n, M)
    BY <1>2 DEF Walk, Bijection, Injection, Surjection, IsInjective
  <2> HIDE DEF M, n
  <2> QED BY <1>1, <2>1, FS_CountingElements DEF ExistsBijection
<1>4. ASSUME NEW f \in [1 .. n -> M]
      PROVE  /\ Len(f) = n
             /\ f # << >> <=> n > 0
  <2>1. f \in Seq(M) /\ DOMAIN f = 1 .. n
    BY <1>1, <1>4, SeqDef
  <2>2. Len(f) \in Nat /\ 1 .. Len(f) = 1 .. n
    BY <2>1, LenProperties
  <2>3. Len(f) = n
    BY <1>1, <2>2
  <2>4. f = << >> <=> Len(f) = 0
    BY <2>1, EmptySeq
  <2> QED BY <1>1, <2>3, <2>4
<1>5. Follows(l, s)
  BY <1>1 DEF Walk, Follows
<1>6. ASSUME NEW f \in [1 .. n -> M], Follows(l, f)
      PROVE  f = s
  <2>1. n > 0 => f[1] = s[1]
    BY <1>2, <1>4, <1>5, <1>6 DEF Follows
  <2>2. Along(l, n, f) /\ Along(l, n, s)
    BY <1>2, <1>4, <1>5, <1>6 DEF Follows, Along
  <2> HIDE DEF M, n
  <2>3. n \in Nat /\ f \in [1 .. n -> M] /\ s \in [1 .. n -> M]
    BY <1>1, <1>2, <1>6
  <2> QED BY <2>1, <2>2, <2>3, OneWay, Zenon
<1> HIDE DEF M, n
<1>7. Path(l) = CHOOSE f \in [1 .. n -> M] : Follows(l, f)
  BY <1>3 DEF Path, M
<1> QED
  BY <1>2, <1>5, <1>6, <1>7

LEMMA WalkFacts ==
  ASSUME NEW l, Sound(l), NEW s, Walk(l, s)
  PROVE  /\ Len(s) \in Nat
         /\ Len(s) = 0 => s = << >> /\ l.head = NULL /\ l.tail = NULL /\ Members(l) = {}
         /\ Len(s) > 0 => s # << >> /\ s[1] = l.head /\ s[Len(s)] = l.tail
                          /\ l.head \in Node /\ l.tail \in Node
         /\ \A i \in 1 .. Len(s) : l.prev[s[i]] = IF i = 1 THEN NULL ELSE s[i - 1]
         /\ \A i \in 1 .. Len(s) : l.next[s[i]] = IF i = Len(s) THEN NULL ELSE s[i + 1]
<1> DEFINE n == Len(s)
           M == Members(l)
<1>1. s \in Seq(Node) /\ n \in Nat /\ (n = 0 <=> s = << >>)
  BY EmptySeq DEF Walk
<1>2. /\ s # << >> => s[1] = l.head
      /\ \A i \in 1 .. n - 1 : l.next[s[i]] = s[i + 1]
      /\ \A i \in 1 .. n : s[i] \in M
      /\ \A m \in M : \E i \in 1 .. n : s[i] = m
  BY DEF Walk
<1>3. M \subseteq Node /\ Mirrored(l)
  BY SoundFacts DEF Sound
<1>4. /\ l.head = NULL <=> l.tail = NULL
      /\ l.head # NULL => l.head \in M /\ l.prev[l.head] = NULL
      /\ l.tail # NULL => l.tail \in M /\ l.next[l.tail] = NULL
      /\ l.head = NULL => M = {}
  BY SoundFacts, RemoveFirstIsRemove DEF Sound, Chain
<1> HIDE DEF n, M
<1>5. CASE n = 0
  <2>1. M = {}
    BY <1>2, <1>5
  <2>2. l.head = NULL /\ l.tail = NULL
    BY <1>4, <2>1
  <2> QED BY <1>1, <1>5, <2>1, <2>2 DEF n, M
<1>6. CASE n > 0
  <2>1. 1 \in 1 .. n /\ n \in 1 .. n /\ s # << >>
    BY <1>1, <1>6
  <2>2. s[1] = l.head /\ l.head \in M /\ l.head # NULL /\ l.tail # NULL
    BY <1>2, <1>3, <1>4, <2>1, NullIsNoNode
  <2>3. PICK t \in 1 .. n : s[t] = l.tail
    BY <1>2, <1>4, <2>2
  <2>4. t = n
    <3> SUFFICES ASSUME t # n PROVE FALSE
      OBVIOUS
    <3>1. t \in 1 .. n - 1 /\ t + 1 \in 1 .. n
      BY <1>1, <2>3
    <3>2. l.next[s[t]] = s[t + 1] /\ s[t + 1] \in Node
      BY <1>2, <1>3, <3>1
    <3> QED BY <1>4, <2>2, <2>3, <3>2, NullIsNoNode
  <2>5. s[n] = l.tail /\ l.next[s[n]] = NULL /\ l.prev[s[1]] = NULL
    BY <1>4, <2>2, <2>3, <2>4
  <2>6. \A i \in 1 .. n : l.next[s[i]] = IF i = n THEN NULL ELSE s[i + 1]
    <3> TAKE i \in 1 .. n
    <3>1. CASE i = n
      BY <2>5, <3>1
    <3>2. CASE i # n
      <4>1. i \in 1 .. n - 1
        BY <1>1, <3>2
      <4> QED BY <1>2, <3>2, <4>1
    <3> QED BY <3>1, <3>2
  <2>7. \A i \in 1 .. n : l.prev[s[i]] = IF i = 1 THEN NULL ELSE s[i - 1]
    <3> TAKE i \in 1 .. n
    <3>1. CASE i = 1
      BY <2>5, <3>1
    <3>2. CASE i # 1
      <4>1. i - 1 \in 1 .. n - 1 /\ i - 1 \in 1 .. n /\ (i - 1) + 1 = i
        BY <1>1, <3>2
      <4>2. l.next[s[i - 1]] = s[i] /\ s[i] \in Node /\ s[i - 1] \in Node
        BY <1>2, <1>3, <4>1
      <4>3. l.prev[s[i]] = s[i - 1]
        BY <1>3, <4>2 DEF Mirrored
      <4> QED BY <3>2, <4>3
    <3> QED BY <3>1, <3>2
  <2>8. l.head \in Node /\ l.tail \in Node
    BY <1>3, <1>4, <2>2
  <2> QED BY <1>1, <1>6, <2>1, <2>2, <2>5, <2>6, <2>7, <2>8 DEF n
<1> QED
  BY <1>1, <1>5, <1>6

LEMMA AddFirstWalk ==
  ASSUME NEW l, Sound(l), NEW s, Walk(l, s), NEW n \in Node \ Members(l), Loose(l, n)
  PROVE  Walk(AddFirst(l, n), <<n>> \o s)
<1> DEFINE r == AddFirst(l, n)
           t == <<n>> \o s
           M == Members(l)
<1>1. s \in Seq(Node) /\ l \in List /\ M \subseteq Node
  BY SoundFacts DEF Walk
<1>2. /\ t \in Seq(Node) /\ Len(t) = Len(s) + 1 /\ t # << >> /\ t[1] = n
      /\ \A i \in 1 .. Len(s) : t[i + 1] = s[i]
  <2>1. <<n>> \in Seq(Node) /\ Len(<<n>>) = 1 /\ <<n>>[1] = n
    OBVIOUS
  <2> DEFINE one == <<n>>
  <2>2. one \in Seq(Node) /\ Len(one) = 1 /\ one[1] = n
    BY <2>1
  <2> HIDE DEF one
  <2>3. /\ one \o s \in Seq(Node) /\ Len(one \o s) = Len(one) + Len(s)
        /\ \A i \in 1 .. Len(one) + Len(s) :
             (one \o s)[i] = IF i <= Len(one) THEN one[i] ELSE s[i - Len(one)]
    BY <1>1, <2>2, ConcatProperties
  <2>4. Len(s) \in Nat /\ \A i \in 1 .. Len(s) : /\ i + 1 \in 1 .. 1 + Len(s)
                                                /\ ~(i + 1 <= 1) /\ (i + 1) - 1 = i
    BY <1>1
  <2>5. /\ 1 \in 1 .. 1 + Len(s) /\ 1 + Len(s) = Len(s) + 1 /\ Len(s) + 1 # 0
    BY <2>4
  <2>6. one \o s # << >>
    BY <2>2, <2>3, <2>5, EmptySeq
  <2> QED BY <2>2, <2>3, <2>4, <2>5, <2>6 DEF one
<1>3. /\ r.head = n /\ Members(r) = M \union {n}
      /\ \A m \in Node : r.next[m] = IF m = n THEN l.head ELSE l.next[m]
  <2>1. Members(r) = M \union {n}
    BY AddFirstBecomes DEF Becomes
  <2> QED BY <1>1, <2>1 DEF AddFirst, Store, List
<1>4. /\ Len(s) \in Nat
      /\ \A i \in 1 .. Len(s) : s[i] \in M /\ s[i] # n
      /\ \A m \in M : \E i \in 1 .. Len(s) : s[i] = m
      /\ \A i, j \in 1 .. Len(s) : s[i] = s[j] => i = j
      /\ \A i \in 1 .. Len(s) - 1 : l.next[s[i]] = s[i + 1]
      /\ Len(s) > 0 => s[1] = l.head
  BY WalkFacts DEF Walk
<1> HIDE DEF r, t, M
<1>5. \A i \in 1 .. Len(t) : i = 1 \/ (i - 1 \in 1 .. Len(s) /\ (i - 1) + 1 = i)
  BY <1>2, <1>4
<1>6. \A i \in 1 .. Len(t) : t[i] = IF i = 1 THEN n ELSE s[i - 1]
  BY <1>2, <1>5
<1>7. \A i \in 1 .. Len(t) - 1 : r.next[t[i]] = t[i + 1]
  <2> TAKE i \in 1 .. Len(t) - 1
  <2>1. i \in 1 .. Len(s) /\ i \in 1 .. Len(t) /\ t[i + 1] = s[i]
    BY <1>2, <1>4
  <2>2. CASE i = 1
    BY <1>2, <1>3, <1>4, <2>1, <2>2
  <2>3. CASE i # 1
    <3>1. i - 1 \in 1 .. Len(s) - 1 /\ i - 1 \in 1 .. Len(s) /\ (i - 1) + 1 = i
      BY <1>4, <2>1, <2>3
    <3>2. t[i] = s[i - 1] /\ l.next[s[i - 1]] = s[i] /\ s[i - 1] # n /\ s[i - 1] \in Node
      BY <1>1, <1>4, <1>6, <2>1, <2>3, <3>1
    <3> QED BY <1>3, <2>1, <3>2
  <2> QED BY <2>2, <2>3
<1>8. \A i \in 1 .. Len(t) : t[i] \in Members(r)
  BY <1>3, <1>4, <1>5, <1>6
<1>9. \A m \in Members(r) : \E i \in 1 .. Len(t) : t[i] = m
  <2> TAKE m \in Members(r)
  <2>1. CASE m = n
    <3>1. 1 \in 1 .. Len(t)
      BY <1>2, <1>4
    <3> QED BY <1>2, <2>1, <3>1
  <2>2. CASE m # n
    <3>1. PICK i \in 1 .. Len(s) : s[i] = m
      BY <1>3, <1>4, <2>2
    <3>2. i + 1 \in 1 .. Len(t) /\ t[i + 1] = m
      BY <1>2, <1>4, <3>1
    <3> QED BY <3>2
  <2> QED BY <2>1, <2>2
<1>10. ASSUME NEW i \in 1 .. Len(t), NEW j \in 1 .. Len(t), t[i] = t[j]
       PROVE  i = j
  <2>1. CASE i = 1 /\ j = 1
    BY <2>1
  <2>2. CASE i # 1 /\ j # 1
    <3>1. i - 1 \in 1 .. Len(s) /\ j - 1 \in 1 .. Len(s) /\ s[i - 1] = s[j - 1]
      BY <1>5, <1>6, <1>10, <2>2
    <3>2. i - 1 = j - 1
      BY <1>4, <3>1
    <3> QED BY <1>2, <1>4, <3>2
  <2>3. CASE (i = 1) # (j = 1)
    BY <1>4, <1>5, <1>6, <1>10, <2>3
  <2> QED BY <2>1, <2>2, <2>3
<1> QED
  BY <1>2, <1>3, <1>7, <1>8, <1>9, <1>10 DEF Walk, r, t

LEMMA AddLastWalk ==
  ASSUME NEW l, Sound(l), NEW s, Walk(l, s), NEW n \in Node \ Members(l), Loose(l, n)
  PROVE  Walk(AddLast(l, n), Append(s, n))
<1> DEFINE r == AddLast(l, n)
           t == Append(s, n)
           M == Members(l)
<1>1. s \in Seq(Node) /\ l \in List /\ M \subseteq Node
  BY SoundFacts DEF Walk
<1>2. /\ t \in Seq(Node) /\ Len(t) = Len(s) + 1 /\ t # << >> /\ t[Len(s) + 1] = n
      /\ \A i \in 1 .. Len(s) : t[i] = s[i]
  BY <1>1, AppendProperties
<1>3. /\ r.head = IF l.tail = NULL THEN n ELSE l.head
      /\ Members(r) = M \union {n}
      /\ \A m \in Node : r.next[m] = IF m = n THEN NULL
                                     ELSE IF m = l.tail THEN n ELSE l.next[m]
  <2>1. Members(r) = M \union {n}
    BY AddLastBecomes DEF Becomes
  <2> QED BY <1>1, <2>1 DEF AddLast, Store, List
<1>4. /\ Len(s) \in Nat
      /\ \A i \in 1 .. Len(s) : s[i] \in M /\ s[i] # n
      /\ \A m \in M : \E i \in 1 .. Len(s) : s[i] = m
      /\ \A i, j \in 1 .. Len(s) : s[i] = s[j] => i = j
      /\ \A i \in 1 .. Len(s) : l.next[s[i]] = IF i = Len(s) THEN NULL ELSE s[i + 1]
      /\ Len(s) > 0 => s[1] = l.head /\ s[Len(s)] = l.tail /\ l.tail \in Node
      /\ Len(s) = 0 => l.tail = NULL
  BY WalkFacts DEF Walk
<1> HIDE DEF r, t, M
<1>5. \A i \in 1 .. Len(t) : i = Len(s) + 1 \/ i \in 1 .. Len(s)
  BY <1>2, <1>4
<1>6. t[1] = r.head
  <2>1. CASE Len(s) = 0
    BY <1>2, <1>3, <1>4, <2>1
  <2>2. CASE Len(s) > 0
    <3>1. 1 \in 1 .. Len(s)
      BY <1>4, <2>2
    <3> QED BY <1>2, <1>3, <1>4, <2>2, <3>1, NullIsNoNode
  <2> QED BY <1>4, <2>1, <2>2
<1>7. \A i \in 1 .. Len(t) - 1 : r.next[t[i]] = t[i + 1]
  <2> TAKE i \in 1 .. Len(t) - 1
  <2>1. i \in 1 .. Len(s) /\ Len(s) > 0 /\ Len(s) \in 1 .. Len(s)
    BY <1>2, <1>4
  <2>2. t[i] = s[i] /\ s[i] \in Node /\ s[i] # n
    BY <1>1, <1>2, <1>4, <2>1
  <2>3. CASE i = Len(s)
    BY <1>2, <1>3, <1>4, <2>1, <2>2, <2>3
  <2>4. CASE i # Len(s)
    <3>1. i + 1 \in 1 .. Len(s)
      BY <1>4, <2>1, <2>4
    <3>2. s[i] # l.tail
      BY <1>4, <2>1, <2>4
    <3> QED BY <1>2, <1>3, <1>4, <2>1, <2>2, <2>4, <3>1, <3>2
  <2> QED BY <2>3, <2>4
<1>8. \A i \in 1 .. Len(t) : t[i] \in Members(r)
  BY <1>2, <1>3, <1>4, <1>5
<1>9. \A m \in Members(r) : \E i \in 1 .. Len(t) : t[i] = m
  <2> TAKE m \in Members(r)
  <2>1. CASE m = n
    <3>1. Len(s) + 1 \in 1 .. Len(t)
      BY <1>2, <1>4
    <3> QED BY <1>2, <2>1, <3>1
  <2>2. CASE m # n
    <3>1. PICK i \in 1 .. Len(s) : s[i] = m
      BY <1>3, <1>4, <2>2
    <3>2. i \in 1 .. Len(t) /\ t[i] = m
      BY <1>2, <1>4, <3>1
    <3> QED BY <3>2
  <2> QED BY <2>1, <2>2
<1>10. ASSUME NEW i \in 1 .. Len(t), NEW j \in 1 .. Len(t), t[i] = t[j]
       PROVE  i = j
  BY <1>2, <1>4, <1>5, <1>10
<1> QED
  BY <1>2, <1>6, <1>7, <1>8, <1>9, <1>10 DEF Walk, r, t

\* A sequence without its member at place i.
Without(s, i) == SubSeq(s, 1, i - 1) \o SubSeq(s, i + 1, Len(s))

LEMMA WithoutOne ==
  ASSUME NEW s \in Seq(Node), NEW i \in 1 .. Len(s)
  PROVE  /\ Without(s, i) \in Seq(Node) /\ Len(Without(s, i)) = Len(s) - 1
         /\ \A j \in 1 .. Len(s) - 1 : Without(s, i)[j] = IF j < i THEN s[j] ELSE s[j + 1]
<1> DEFINE a == SubSeq(s, 1, i - 1)
           b == SubSeq(s, i + 1, Len(s))
           n == Len(s)
<1>1. n \in Nat /\ i \in Nat /\ 1 <= i /\ i <= n /\ \A j \in 1 .. n : s[j] \in Node
  BY ElementOfSeq
<1>2. a \in Seq(Node) /\ Len(a) = i - 1 /\ \A j \in 1 .. i - 1 : a[j] = s[j]
  <2>1. \A j \in 1 .. i - 1 : s[j] \in Node
    BY <1>1
  <2>2. /\ a \in Seq(Node)
        /\ Len(a) = IF 1 <= i - 1 THEN (i - 1) - 1 + 1 ELSE 0
        /\ \A j \in 1 .. (i - 1) - 1 + 1 : a[j] = s[1 + j - 1]
    BY <1>1, <2>1, SubSeqProperties
  <2> HIDE DEF a
  <2> QED BY <1>1, <2>2
<1>3. b \in Seq(Node) /\ Len(b) = n - i /\ \A j \in 1 .. n - i : b[j] = s[i + j]
  <2>1. \A j \in i + 1 .. n : s[j] \in Node
    BY <1>1
  <2>2. /\ b \in Seq(Node)
        /\ Len(b) = IF i + 1 <= n THEN n - (i + 1) + 1 ELSE 0
        /\ \A j \in 1 .. n - (i + 1) + 1 : b[j] = s[(i + 1) + j - 1]
    BY <1>1, <2>1, SubSeqProperties
  <2> HIDE DEF b
  <2> QED BY <1>1, <2>2
<1>4. Without(s, i) = a \o b
  BY DEF Without
<1> HIDE DEF a, b, n
<1>5. /\ a \o b \in Seq(Node) /\ Len(a \o b) = Len(a) + Len(b)
      /\ \A j \in 1 .. Len(a) + Len(b) :
           (a \o b)[j] = IF j <= Len(a) THEN a[j] ELSE b[j - Len(a)]
  BY <1>2, <1>3, ConcatProperties
<1>6. Len(a) + Len(b) = n - 1
  BY <1>1, <1>2, <1>3
<1>7. ASSUME NEW j \in 1 .. n - 1
      PROVE  (a \o b)[j] = IF j < i THEN s[j] ELSE s[j + 1]
  <2>1. (a \o b)[j] = IF j <= i - 1 THEN a[j] ELSE b[j - (i - 1)]
    BY <1>2, <1>5, <1>6
  <2>2. CASE j < i
    <3>1. j \in 1 .. i - 1 /\ j <= i - 1
      BY <1>1, <2>2
    <3> QED BY <1>2, <2>1, <2>2, <3>1
  <2>3. CASE ~(j < i)
    <3>1. j - (i - 1) \in 1 .. n - i /\ i + (j - (i - 1)) = j + 1 /\ ~(j <= i - 1)
      BY <1>1, <2>3
    <3> QED BY <1>3, <2>1, <2>3, <3>1
  <2> QED BY <2>2, <2>3
<1> QED
  BY <1>4, <1>5, <1>6, <1>7 DEF n

LEMMA RemoveWalk ==
  ASSUME NEW l, Sound(l), NEW s, Walk(l, s), NEW i \in 1 .. Len(s)
  PROVE  Walk(Remove(l, s[i]), Without(s, i))
<1> DEFINE n == s[i]
           r == Remove(l, n)
           t == Without(s, i)
           M == Members(l)
           e == Len(s)
<1>1. s \in Seq(Node) /\ l \in List /\ M \subseteq Node /\ n \in M
  BY SoundFacts DEF Walk
<1>2. /\ t \in Seq(Node) /\ Len(t) = e - 1
      /\ \A j \in 1 .. e - 1 : t[j] = IF j < i THEN s[j] ELSE s[j + 1]
  BY <1>1, WithoutOne
<1>3. Members(r) = M \ {n}
  BY <1>1, RemoveBecomes DEF Becomes
<1>4. /\ e \in Nat
      /\ \A j \in 1 .. e : s[j] \in M /\ s[j] \in Node /\ s[j] # NULL
      /\ \A m \in M : \E j \in 1 .. e : s[j] = m
      /\ \A j, k \in 1 .. e : s[j] = s[k] => j = k
      /\ \A j \in 1 .. e : l.next[s[j]] = IF j = e THEN NULL ELSE s[j + 1]
      /\ \A j \in 1 .. e : l.prev[s[j]] = IF j = 1 THEN NULL ELSE s[j - 1]
      /\ e > 0 => s[1] = l.head
  BY <1>1, WalkFacts, NullIsNoNode DEF Walk
<1>5. /\ r.head = IF l.prev[n] = NULL THEN l.next[n] ELSE l.head
      /\ \A m \in Node : r.next[m] = IF m = n THEN NULL
                                     ELSE IF m = l.prev[n] THEN l.next[n] ELSE l.next[m]
  BY <1>1, NullIsNoNode DEF Remove, UnlinkHead, UnlinkTail, Detach, Store, List
<1>6. /\ l.prev[n] = IF i = 1 THEN NULL ELSE s[i - 1]
      /\ l.next[n] = IF i = e THEN NULL ELSE s[i + 1]
  BY <1>4
<1>7. i \in 1 .. e /\ n = s[i]
  OBVIOUS
<1> HIDE DEF n, r, t, M, e
<1>8. t # << >> => t[1] = r.head
  <2> SUFFICES ASSUME t # << >> PROVE t[1] = r.head
    OBVIOUS
  <2>1. 1 \in 1 .. e - 1 /\ 1 \in 1 .. e /\ e > 0
    BY <1>2, <1>4, EmptySeq
  <2>2. CASE i = 1
    <3>1. t[1] = s[1 + 1] /\ i # e
      BY <1>2, <2>1, <2>2
    <3> QED BY <1>5, <1>6, <2>2, <3>1
  <2>3. CASE i # 1
    <3>1. 1 < i /\ i - 1 \in 1 .. e
      BY <1>4, <1>7, <2>3
    <3>2. l.prev[n] # NULL
      BY <1>4, <1>6, <2>3, <3>1
    <3> QED BY <1>2, <1>4, <1>5, <2>1, <3>1, <3>2
  <2> QED BY <2>2, <2>3
<1>9. \A j \in 1 .. Len(t) - 1 : r.next[t[j]] = t[j + 1]
  <2> TAKE j \in 1 .. Len(t) - 1
  <2>1. /\ j \in 1 .. e - 1 /\ j + 1 \in 1 .. e - 1
        /\ j \in 1 .. e /\ j + 1 \in 1 .. e /\ j + 2 \in 1 .. e /\ (j + 1) + 1 = j + 2
    BY <1>2, <1>4
  <2>2. CASE j + 1 < i
    <3>1. j < i /\ j # i /\ i # 1 /\ i - 1 \in 1 .. e /\ j # i - 1 /\ j # e
      BY <1>4, <1>7, <2>1, <2>2
    <3>2. t[j] = s[j] /\ t[j + 1] = s[j + 1]
      BY <1>2, <2>1, <2>2, <3>1
    <3>3. s[j] # n /\ s[j] # l.prev[n]
      BY <1>4, <1>6, <1>7, <2>1, <3>1
    <3>4. l.next[s[j]] = s[j + 1] /\ s[j] \in Node
      BY <1>4, <2>1, <3>1
    <3> QED BY <1>5, <3>2, <3>3, <3>4
  <2>3. CASE j + 1 = i
    <3>1. j < i /\ ~(j + 1 < i) /\ i # 1 /\ i - 1 = j /\ i # e /\ j # i /\ i + 1 = j + 2
      BY <1>4, <1>7, <2>1, <2>3
    <3>2. t[j] = s[j] /\ t[j + 1] = s[j + 2]
      BY <1>2, <2>1, <3>1
    <3>3. l.prev[n] = s[j] /\ l.next[n] = s[j + 2] /\ s[j] # n /\ s[j] \in Node
      BY <1>4, <1>6, <1>7, <2>1, <3>1
    <3> QED BY <1>5, <3>2, <3>3
  <2>4. CASE j + 1 > i
    <3>1. ~(j < i) /\ ~(j + 1 < i) /\ j + 1 # i /\ j + 1 # e /\ j + 1 # i - 1
      BY <1>4, <1>7, <2>1, <2>4
    <3>2. t[j] = s[j + 1] /\ t[j + 1] = s[j + 2]
      BY <1>2, <2>1, <3>1
    <3>3. s[j + 1] # n
      BY <1>4, <1>7, <2>1, <3>1
    <3>4. s[j + 1] # l.prev[n]
      <4>1. CASE i = 1
        BY <1>4, <1>6, <2>1, <4>1
      <4>2. CASE i # 1
        <5>1. i - 1 \in 1 .. e
          BY <1>4, <1>7, <4>2
        <5> QED BY <1>4, <1>6, <2>1, <3>1, <4>2, <5>1
      <4> QED BY <4>1, <4>2
    <3>5. l.next[s[j + 1]] = s[j + 2] /\ s[j + 1] \in Node
      BY <1>4, <2>1, <3>1
    <3> QED BY <1>5, <3>2, <3>3, <3>4, <3>5
  <2>5. j \in Int /\ i \in Int
    BY <1>7, <2>1
  <2> QED BY <2>2, <2>3, <2>4, <2>5
<1>10. ASSUME NEW j \in 1 .. Len(t)
       PROVE  \E k \in 1 .. e : k # i /\ t[j] = s[k] /\ k = IF j < i THEN j ELSE j + 1
  <2>1. j \in 1 .. e - 1 /\ j \in 1 .. e /\ j + 1 \in 1 .. e
    BY <1>2, <1>4
  <2>2. CASE j < i
    BY <1>2, <1>7, <2>1, <2>2
  <2>3. CASE ~(j < i)
    <3>1. j + 1 # i
      BY <1>7, <2>1, <2>3
    <3> QED BY <1>2, <2>1, <2>3, <3>1
  <2> QED BY <2>2, <2>3
<1>11. \A j \in 1 .. Len(t) : t[j] \in Members(r)
  BY <1>3, <1>4, <1>7, <1>10
<1>12. ASSUME NEW m \in Members(r)
       PROVE  \E j \in 1 .. Len(t) : t[j] = m
  <2>1. PICK k \in 1 .. e : s[k] = m /\ k # i
    BY <1>3, <1>4, <1>7
  <2>2. CASE k < i
    <3>1. k \in 1 .. Len(t) /\ k \in 1 .. e - 1
      BY <1>2, <1>4, <1>7, <2>2
    <3> QED BY <1>2, <2>1, <2>2, <3>1
  <2>3. CASE k > i
    <3>1. k - 1 \in 1 .. Len(t) /\ k - 1 \in 1 .. e - 1 /\ ~(k - 1 < i) /\ (k - 1) + 1 = k
      BY <1>2, <1>4, <1>7, <2>3
    <3>2. t[k - 1] = m
      BY <1>2, <2>1, <3>1
    <3> QED BY <3>1, <3>2
  <2>4. k \in Int /\ i \in Int
    BY <1>7, <2>1
  <2> QED BY <2>1, <2>2, <2>3, <2>4
<1>13. ASSUME NEW j \in 1 .. Len(t), NEW k \in 1 .. Len(t), t[j] = t[k]
       PROVE  j = k
  <2>1. PICK a \in 1 .. e : t[j] = s[a] /\ a = IF j < i THEN j ELSE j + 1
    BY <1>10
  <2>2. PICK b \in 1 .. e : t[k] = s[b] /\ b = IF k < i THEN k ELSE k + 1
    BY <1>10
  <2>3. s[a] = s[b]
    BY <1>13, <2>1, <2>2
  <2>4. a = b
    BY <1>4, <2>3, Zenon
  <2>5. j \in Int /\ k \in Int /\ i \in Int
    BY <1>2, <1>4, <1>7
  <2> QED BY <2>1, <2>2, <2>4, <2>5
<1>14. Walk(r, t)
  BY <1>2, <1>8, <1>9, <1>11, <1>12, <1>13 DEF Walk
<1> QED
  BY <1>14 DEF r, t, n

LEMMA EmptyWalk ==
  ASSUME NEW l, Members(l) = {}
  PROVE  Walk(l, << >>)
BY DEF Walk

\* What a list's nodes and their links are is all that a walk knows of it.
LEMMA WalkFrame ==
  ASSUME NEW l, NEW k, NEW s, Walk(l, s), k.head = l.head, Members(k) = Members(l),
         \A m \in Members(l) : SameLinks(k, l, m)
  PROVE  Walk(k, s)
<1>1. \A i \in 1 .. Len(s) - 1 : i \in 1 .. Len(s)
  BY LenProperties DEF Walk
<1> QED
  BY <1>1 DEF Walk, SameLinks

-----------------------------------------------------------------------------
(***************************************************************************)
(* The lists implement Fifo.tla: the walks are their content.              *)
(***************************************************************************)
WInv == \A k \in Lists : Walk(ListOf(k), Traversal(k))

Sequence == [k \in Lists |-> Traversal(k)]

\* An operation that gives list k the walk t changes the content of k to t.
LEMMA SetListContent ==
  ASSUME QInv, WInv, NEW k \in Lists, NEW r, NEW M \in SUBSET Node,
         Becomes(ListOf(k), r, M),
         \A n \in M : n \in Members(ListOf(k)) \/ InNoList(n),
         NEW i \in Int, NEW n \in NodeOrNull, SetList(k, r, i, n),
         NEW t, Walk(r, t)
  PROVE  WInv' /\ Content!Change(k, t, n)
<1>1. ListOf(k)' = r
  BY OthersStay
<1>2. ASSUME NEW j \in Lists, j # k
      PROVE  Walk(ListOf(j)', Traversal(j))
  <2>1. /\ ListOf(j)'.head = ListOf(j).head
        /\ Members(ListOf(j)') = Members(ListOf(j))
        /\ \A m \in Members(ListOf(j)) : SameLinks(ListOf(j)', ListOf(j), m)
    BY <1>2, OthersStay
  <2>2. Walk(ListOf(j), Traversal(j))
    BY DEF WInv
  <2> QED BY <2>1, <2>2, WalkFrame
<1>3. \A j \in Lists : Traversal(j)' = IF j = k THEN t ELSE Traversal(j)
  <2>1. Path(ListOf(k)') = t
    BY <1>1, WalkIsPath
  <2>2. \A j \in Lists : j # k => Path(ListOf(j)') = Traversal(j)
    BY <1>2, WalkIsPath
  <2> QED BY <2>1, <2>2, TraversalIsPath
<1>4. WInv'
  <2>1. ASSUME NEW j \in Lists PROVE Walk(ListOf(j)', Traversal(j)')
    BY <1>1, <1>2, <1>3
  <2> QED BY <2>1 DEF WInv
<1>5. Sequence' = [Sequence EXCEPT ![k] = t]
  BY <1>3 DEF Sequence
<1>6. result' = n
  BY DEF SetList
<1> QED
  BY <1>4, <1>5, <1>6 DEF Content!Change, Sequence

LEMMA QueuesContent ==
  ASSUME PInv, WInv, NEW k \in Lists, NEW n \in Node, Queues(k, n)
  PROVE  WInv' /\ Content!Next
<1> DEFINE l == ListOf(k)
           s == Traversal(k)
           M == Members(l) \union {n}
<1>1. InNoList(n) /\ QInv
  BY DEF PInv, Queues, add_first, add_last
<1>2. /\ Sound(l) /\ Members(l) \subseteq Node /\ n \in Node \ Members(l)
      /\ Loose(l, n) /\ Walk(l, s)
  BY <1>1, SoundFacts DEF QInv, WInv, Apart, InNoList, Loose, ListOf
<1>3. /\ M \in SUBSET Node /\ \A m \in M : m \in Members(l) \/ InNoList(m)
      /\ size[k] + 1 \in Int /\ NULL \in NodeOrNull
  BY <1>1, <1>2, CountType DEF NodeOrNull
<1>4. n \notin Content!Queued
  <2>1. ASSUME NEW j \in Lists, n \in Content!ToSet(Sequence[j])
        PROVE  FALSE
    <3>1. Sequence[j] = Traversal(j) /\ Walk(ListOf(j), Traversal(j))
      BY DEF Sequence, WInv
    <3>2. PICK i \in DOMAIN Traversal(j) : Traversal(j)[i] = n
      BY <2>1, <3>1 DEF Content!ToSet
    <3>3. i \in 1 .. Len(Traversal(j))
      BY <3>1, <3>2, LenProperties DEF Walk
    <3>4. n \in Members(ListOf(j))
      BY <3>1, <3>2, <3>3 DEF Walk
    <3> QED BY <1>1, <3>4 DEF InNoList
  <2> QED BY <2>1 DEF Content!Queued, Sequence
<1>5. Sequence[k] = s
  BY DEF Sequence
<1>6. CASE add_first(k, n)
  <2>1. Becomes(l, AddFirst(l, n), M) /\ SetList(k, AddFirst(l, n), size[k] + 1, NULL)
    BY <1>2, <1>6, AddFirstBecomes DEF add_first
  <2>2. Walk(AddFirst(l, n), <<n>> \o s)
    BY <1>2, AddFirstWalk
  <2>3. WInv' /\ Content!Change(k, <<n>> \o s, NULL)
    <3> HIDE DEF s
    <3> QED BY <1>1, <1>3, <2>1, <2>2, SetListContent
  <2>4. Content!PutFirst(k, n)
    BY <1>4, <1>5, <2>3 DEF Content!PutFirst, Sequence
  <2> QED BY <2>3, <2>4 DEF Content!Next
<1>7. CASE add_last(k, n)
  <2>1. Becomes(l, AddLast(l, n), M) /\ SetList(k, AddLast(l, n), size[k] + 1, NULL)
    BY <1>2, <1>7, AddLastBecomes DEF add_last
  <2>2. Walk(AddLast(l, n), Append(s, n))
    BY <1>2, AddLastWalk
  <2>3. WInv' /\ Content!Change(k, Append(s, n), NULL)
    <3> HIDE DEF s
    <3> QED BY <1>1, <1>3, <2>1, <2>2, SetListContent
  <2>4. Content!PutLast(k, n)
    BY <1>4, <1>5, <2>3 DEF Content!PutLast, Sequence
  <2> QED BY <2>3, <2>4 DEF Content!Next
<1> QED
  BY <1>6, <1>7 DEF Queues

\* Without its first member a sequence is its tail, without its last one its front.
LEMMA WithoutEnds ==
  ASSUME NEW s \in Seq(Node), Len(s) > 0
  PROVE  Without(s, 1) = Tail(s) /\ Without(s, Len(s)) = Content!Front(s)
<1>1. /\ Len(s) \in Nat /\ 1 \in 1 .. Len(s) /\ Len(s) \in 1 .. Len(s) /\ s # << >>
      /\ \A j \in 1 .. Len(s) : s[j] \in Node
  BY ElementOfSeq
<1>2. Without(s, 1) = Tail(s)
  <2>1. /\ Without(s, 1) \in Seq(Node) /\ Len(Without(s, 1)) = Len(s) - 1
        /\ \A j \in 1 .. Len(s) - 1 : Without(s, 1)[j] = IF j < 1 THEN s[j] ELSE s[j + 1]
    BY <1>1, WithoutOne
  <2>2. /\ Tail(s) \in Seq(Node) /\ Len(Tail(s)) = Len(s) - 1
        /\ \A j \in 1 .. Len(s) - 1 : Tail(s)[j] = s[j + 1]
    BY <1>1, HeadTailProperties
  <2>3. \A j \in 1 .. Len(s) - 1 : ~(j < 1)
    OBVIOUS
  <2>4. \A j \in 1 .. Len(s) - 1 : Without(s, 1)[j] = Tail(s)[j]
    BY <2>1, <2>2, <2>3
  <2> QED BY <2>1, <2>2, <2>4, SeqEqual
<1>3. Without(s, Len(s)) = Content!Front(s)
  <2> DEFINE f == SubSeq(s, 1, Len(s) - 1)
  <2>1. /\ Without(s, Len(s)) \in Seq(Node) /\ Len(Without(s, Len(s))) = Len(s) - 1
        /\ \A j \in 1 .. Len(s) - 1 :
             Without(s, Len(s))[j] = IF j < Len(s) THEN s[j] ELSE s[j + 1]
    BY <1>1, WithoutOne
  <2>2. /\ f \in Seq(Node) /\ Len(f) = Len(s) - 1
        /\ \A j \in 1 .. Len(s) - 1 : f[j] = s[j]
    <3>1. \A j \in 1 .. Len(s) - 1 : s[j] \in Node
      BY <1>1
    <3>2. /\ f \in Seq(Node)
          /\ Len(f) = IF 1 <= Len(s) - 1 THEN (Len(s) - 1) - 1 + 1 ELSE 0
          /\ \A j \in 1 .. (Len(s) - 1) - 1 + 1 : f[j] = s[1 + j - 1]
      BY <1>1, <3>1, SubSeqProperties
    <3> HIDE DEF f
    <3>3. /\ (Len(s) - 1) - 1 + 1 = Len(s) - 1
          /\ ~(1 <= Len(s) - 1) => Len(s) - 1 = 0
          /\ \A j \in 1 .. Len(s) - 1 : 1 + j - 1 = j
      <4>1. ASSUME NEW e \in Nat, e > 0
            PROVE  /\ (e - 1) - 1 + 1 = e - 1 /\ (~(1 <= e - 1) => e - 1 = 0)
                   /\ \A j \in 1 .. e - 1 : 1 + j - 1 = j
        BY <4>1
      <4> QED BY <1>1, <4>1, Zenon
    <3>4. Len(f) = Len(s) - 1
      BY <3>2, <3>3
    <3>5. \A j \in 1 .. Len(s) - 1 : f[j] = s[1 + j - 1]
      BY <3>2, <3>3
    <3>6. \A j \in 1 .. Len(s) - 1 : f[j] = s[j]
      BY <3>3, <3>5
    <3> QED BY <3>2, <3>4, <3>6
  <2>3. \A j \in 1 .. Len(s) - 1 : j < Len(s)
    BY <1>1
  <2>4. \A j \in 1 .. Len(s) - 1 : Without(s, Len(s))[j] = f[j]
    BY <2>1, <2>2, <2>3
  <2>5. Without(s, Len(s)) = f
    <3> HIDE DEF f
    <3> QED BY <2>1, <2>2, <2>4, SeqEqual
  <2> QED BY <2>5 DEF Content!Front
<1> QED
  BY <1>2, <1>3

LEMMA UnqueuesContent ==
  ASSUME PInv, WInv, NEW k \in Lists, Unqueues(k)
  PROVE  WInv' /\ Content!Next
<1> DEFINE l == ListOf(k)
           s == Traversal(k)
           e == Len(s)
<1>1. /\ QInv /\ Sound(l) /\ Members(l) \subseteq Node /\ Walk(l, s)
      /\ l.head \in NodeOrNull /\ l.tail \in NodeOrNull
  BY SoundFacts DEF PInv, QInv, WInv, List
<1>2. /\ size[k] \in Int /\ size[k] - 1 \in Int /\ 0 \in Int
      /\ NULL \in NodeOrNull
  BY CountType DEF NodeOrNull
<1>3. /\ e \in Nat /\ s \in Seq(Node)
      /\ e = 0 => s = << >> /\ l.head = NULL /\ l.tail = NULL /\ Members(l) = {}
      /\ e > 0 => /\ s # << >> /\ s[1] = l.head /\ s[e] = l.tail
                  /\ l.head # NULL /\ l.tail # NULL
  BY <1>1, WalkFacts, NullIsNoNode DEF Walk
<1>4. Sequence[k] = s
  BY DEF Sequence
<1> HIDE DEF e, s
<1>5. ASSUME NEW M \in SUBSET Members(l), NEW r, Becomes(l, r, M), NEW t, Walk(r, t),
             NEW i \in Int, NEW n \in NodeOrNull, SetList(k, r, i, n)
      PROVE  WInv' /\ Content!Change(k, t, n)
  <2>1. M \in SUBSET Node /\ \A m \in M : m \in Members(l) \/ InNoList(m)
    BY <1>1
  <2> QED BY <1>1, <1>5, <2>1, SetListContent
<1>6. ASSUME NEW j \in 1 .. e
      PROVE  /\ s[j] \in Members(l) /\ Becomes(l, Remove(l, s[j]), Members(l) \ {s[j]})
             /\ Walk(Remove(l, s[j]), Without(s, j))
  <2>1. j \in 1 .. Len(s)
    BY DEF e
  <2>2. s[j] \in Members(l)
    BY <1>1, <2>1 DEF Walk
  <2>3. Becomes(l, Remove(l, s[j]), Members(l) \ {s[j]})
    BY <1>1, <2>2, RemoveBecomes
  <2>4. Walk(Remove(l, s[j]), Without(s, j))
    BY <1>1, <2>1, RemoveWalk
  <2> QED BY <2>2, <2>3, <2>4
<1>7. ASSUME NEW n \in Node, remove(k, n)
      PROVE  WInv' /\ Content!Next
  <2>1. n \in Members(l) /\ SetList(k, Remove(l, n), size[k] - 1, NULL)
    BY <1>7 DEF remove
  <2>2. PICK j \in 1 .. e : s[j] = n
    BY <1>1, <2>1 DEF Walk, e
  <2>3. WInv' /\ Content!Change(k, Without(s, j), NULL)
    BY <1>2, <1>5, <1>6, <2>1, <2>2
  <2>4. Content!TakeOut(k, n)
    BY <1>4, <2>2, <2>3 DEF Content!TakeOut, Content!RemoveAt, Without, Sequence, e
  <2> QED BY <2>3, <2>4 DEF Content!Next
<1>8. ASSUME e = 0, NEW i \in Int, SetList(k, l, i, NULL)
      PROVE  WInv' /\ Content!Change(k, << >>, NULL)
  <2>1. Becomes(l, l, Members(l)) /\ Walk(l, << >>)
    BY <1>1, <1>3, <1>8, Stays
  <2> QED BY <1>2, <1>5, <1>8, <2>1
<1>9. CASE remove_first(k)
  <2>1. PICK i \in Int : SetList(k, RemoveFirst(l), i, l.head)
    BY <1>2, <1>9 DEF remove_first
  <2>2. CASE e > 0
    <3>1. 1 \in 1 .. e
      BY <1>3, <2>2
    <3>2. RemoveFirst(l) = Remove(l, s[1]) /\ s[1] = l.head /\ s # << >>
      BY <1>1, <1>3, <2>2, RemoveFirstIsRemove
    <3>3. WInv' /\ Content!Change(k, Without(s, 1), l.head)
      BY <1>1, <1>5, <1>6, <2>1, <3>1, <3>2
    <3>4. Without(s, 1) = Tail(s) /\ l.head = Head(s)
      BY <1>3, <2>2, <3>2, WithoutEnds DEF e
    <3>5. Content!TakeFirst(k)
      BY <1>4, <3>2, <3>3, <3>4 DEF Content!TakeFirst, Sequence
    <3> QED BY <3>3, <3>5 DEF Content!Next
  <2>3. CASE e = 0
    <3>1. RemoveFirst(l) = l /\ l.head = NULL /\ s = << >>
      BY <1>3, <2>3 DEF RemoveFirst
    <3>2. WInv' /\ Content!Change(k, << >>, NULL)
      BY <1>8, <2>1, <2>3, <3>1
    <3>3. Content!TakeFirst(k)
      BY <1>4, <3>1, <3>2 DEF Content!TakeFirst, Sequence
    <3> QED BY <3>2, <3>3 DEF Content!Next
  <2> QED BY <1>3, <2>2, <2>3
<1>10. CASE remove_last(k)
  <2>1. PICK i \in Int : SetList(k, RemoveLast(l), i, l.tail)
    BY <1>2, <1>10 DEF remove_last
  <2>2. CASE e > 0
    <3>1. e \in 1 .. e
      BY <1>3, <2>2
    <3>2. RemoveLast(l) = Remove(l, s[e]) /\ s[e] = l.tail /\ s # << >>
      BY <1>1, <1>3, <2>2, RemoveLastIsRemove
    <3>3. WInv' /\ Content!Change(k, Without(s, e), l.tail)
      BY <1>1, <1>5, <1>6, <2>1, <3>1, <3>2
    <3>4. Without(s, e) = Content!Front(s) /\ l.tail = Content!Last(s)
      BY <1>3, <2>2, <3>2, WithoutEnds DEF e, Content!Last
    <3>5. Content!TakeLast(k)
      BY <1>4, <3>2, <3>3, <3>4 DEF Content!TakeLast, Sequence
    <3> QED BY <3>3, <3>5 DEF Content!Next
  <2>3. CASE e = 0
    <3>1. RemoveLast(l) = l /\ l.tail = NULL /\ s = << >>
      BY <1>3, <2>3 DEF RemoveLast
    <3>2. WInv' /\ Content!Change(k, << >>, NULL)
      BY <1>8, <2>1, <2>3, <3>1
    <3>3. Content!TakeLast(k)
      BY <1>4, <3>1, <3>2 DEF Content!TakeLast, Sequence
    <3> QED BY <3>2, <3>3 DEF Content!Next
  <2> QED BY <1>3, <2>2, <2>3
<1>11. CASE clear(k)
  <2>1. SetList(k, Clear(l), 0, NULL)
    BY <1>11 DEF clear
  <2>2. Becomes(l, Clear(l), {}) /\ Walk(Clear(l), << >>)
    BY <1>1, ClearBecomes, EmptyWalk DEF Becomes
  <2>3. WInv' /\ Content!Change(k, << >>, NULL)
    BY <1>2, <1>5, <2>1, <2>2
  <2> QED BY <2>3 DEF Content!Next, Content!Empty
<1> QED
  BY <1>7, <1>9, <1>10, <1>11 DEF Unqueues

\* For such a caller each list is a sequence of distinct nodes, to which every operation
\* of Queue.h does what its name says, and remove_first and remove_last return the node
\* at their end.
THEOREM ListsImplementFifo == PooledSpec => ImplementsFifo
<1>1. PooledInit => WInv /\ Content!Init
  <2> SUFFICES ASSUME PooledInit PROVE WInv /\ Content!Init
    OBVIOUS
  <2>1. ends = [k \in Lists |-> NoEnds] /\ result = NULL
    BY DEF PooledInit, Init
  <2>2. ASSUME NEW k \in Lists
        PROVE  Walk(ListOf(k), << >>)
    <3>1. ClosedUnderNext(ListOf(k), {})
      BY <2>1 DEF ClosedUnderNext, ListOf, NoEnds
    <3>2. Members(ListOf(k)) = {}
      BY <3>1, MembersLeast
    <3> QED BY <3>2, EmptyWalk
  <2>3. \A k \in Lists : Traversal(k) = << >>
    BY <2>2, WalkIsPath, TraversalIsPath
  <2> QED BY <2>1, <2>2, <2>3 DEF WInv, Content!Init
<1>2. PInv /\ WInv /\ [PooledNext]_pooledVars => WInv' /\ [Content!Next]_(Content!vars)
  <2> SUFFICES ASSUME PInv, WInv, [PooledNext]_pooledVars
               PROVE  WInv' /\ [Content!Next]_(Content!vars)
    OBVIOUS
  <2>1. ASSUME NEW k \in Lists, Unqueues(k) PROVE WInv' /\ Content!Next
    BY <2>1, UnqueuesContent
  <2>2. ASSUME NEW k \in Lists, NEW n \in Node, Queues(k, n) PROVE WInv' /\ Content!Next
    BY <2>2, QueuesContent
  <2>3. CASE UNCHANGED vars
    <3>1. ends' = ends /\ links' = links /\ result' = result
      BY <2>3 DEF vars
    <3>2. \A k \in Lists : ListOf(k)' = ListOf(k)
      BY <3>1 DEF ListOf
    <3>3. \A k \in Lists : Traversal(k)' = Traversal(k)
      BY <3>2, TraversalIsPath
    <3>4. WInv'
      BY <3>2, <3>3 DEF WInv
    <3>5. Sequence' = Sequence
      BY <3>3 DEF Sequence
    <3> QED BY <3>1, <3>4, <3>5 DEF Content!vars, Sequence
  <2> QED
    BY <2>1, <2>2, <2>3 DEF PooledNext, Obtains, GivesBack, pooledVars
<1> QED
  BY <1>1, <1>2, PInvHolds, PTL DEF PooledSpec, ImplementsFifo, Content!Spec
=============================================================================
