---------------------------- MODULE Queue_proofs ----------------------------
(***************************************************************************)
(* What the operations of Queue.tla do to a list whose nodes stay within a *)
(* set S, the side of the list, and what they make of a well-formed list:  *)
(* the lemmas the invariance proofs rest on.                               *)
(***************************************************************************)
EXTENDS Queue, Naturals, TLAPS

\* No node is linked to n, nor n to one.
Loose(k, n) == k.next[n] = NULL /\ k.prev[n] = NULL

\* Two nodes agree on being neighbours.
Mirrored(k) == \A m, n \in Node : k.next[m] = n <=> k.prev[n] = m

\* The links lead nowhere in a circle: every node comes before its successor.
Ranked(k) == \E f \in [Node -> Nat] :
               \A n \in Node : k.next[n] # NULL => f[n] < f[k.next[n]]

\* The ends and the links of l stay within S, and the ends close the chain.
SideInv(l, S) ==
  /\ l.head \in S \union {NULL}
  /\ l.tail \in S \union {NULL}
  /\ \A n \in S : l.next[n] \in S \union {NULL} /\ l.prev[n] \in S \union {NULL}
  /\ l.head # NULL => l.prev[l.head] = NULL
  /\ l.tail # NULL => l.next[l.tail] = NULL

LEMMA StoreType ==
  ASSUME NEW f \in [Node -> NodeOrNull], NEW n, NEW v \in NodeOrNull
  PROVE  Store(f, n, v) \in [Node -> NodeOrNull]
BY DEF Store

LEMMA AddLastType ==
  ASSUME NEW l \in List, NEW n \in Node
  PROVE  AddLast(l, n) \in List
BY DEF AddLast, Store, List, NodeOrNull

LEMMA RemoveFirstType ==
  ASSUME NEW l \in List
  PROVE  RemoveFirst(l) \in List
BY DEF RemoveFirst, Store, List, NodeOrNull

LEMMA UnlinkHeadType ==
  ASSUME NEW l \in List, NEW n \in Node
  PROVE  UnlinkHead(l, n) \in List
BY DEF UnlinkHead, Store, List, NodeOrNull

LEMMA UnlinkTailType ==
  ASSUME NEW l \in List, NEW n \in Node
  PROVE  UnlinkTail(l, n) \in List
BY DEF UnlinkTail, Store, List, NodeOrNull

LEMMA DetachType ==
  ASSUME NEW l \in List, NEW n \in Node
  PROVE  Detach(l, n) \in List
BY DEF Detach, Store, List, NodeOrNull

LEMMA RemoveType ==
  ASSUME NEW l \in List, NEW n \in Node
  PROVE  Remove(l, n) \in List
BY UnlinkHeadType, UnlinkTailType, DetachType DEF Remove

(***************************************************************************)
(* What an operation leaves alone.                                         *)
(***************************************************************************)
SameLinks(k, l, n) == k.next[n] = l.next[n] /\ k.prev[n] = l.prev[n]

LEMMA AddLastSide ==
  ASSUME NEW S \in SUBSET Node, NEW l \in List, SideInv(l, S), Mirrored(l),
         NEW n \in Node \ S, Loose(l, n)
  PROVE  LET r == AddLast(l, n) IN
         /\ SideInv(r, S \union {n})
         /\ Mirrored(r)
         /\ \A m \in Node \ (S \union {n}) : SameLinks(r, l, m)
<1> DEFINE r == AddLast(l, n)
<1>0. /\ l.tail \in S \union {NULL} /\ l.head \in S \union {NULL}
      /\ r.tail = n
      /\ r.head = IF l.tail = NULL THEN n ELSE l.head
      /\ \A m \in Node : r.next[m] = IF m = n THEN NULL ELSE IF m = l.tail THEN n ELSE l.next[m]
      /\ \A m \in Node : r.prev[m] = IF m = n THEN l.tail ELSE l.prev[m]
  BY NullIsNoNode DEF AddLast, Store, List, SideInv
<1>1. SideInv(r, S \union {n})
  <2>1. r.head \in S \union {n} \union {NULL} /\ r.tail \in S \union {n} \union {NULL}
    BY <1>0
  <2>2. ASSUME NEW m \in S \union {n}
        PROVE  r.next[m] \in S \union {n} \union {NULL} /\ r.prev[m] \in S \union {n} \union {NULL}
    <3>1. CASE m = n
      BY <1>0, <3>1
    <3>2. CASE m # n
      <4>1. l.next[m] \in S \union {NULL} /\ l.prev[m] \in S \union {NULL}
        BY <3>2 DEF SideInv
      <4>2. QED BY <1>0, <3>2, <4>1
    <3>3. QED BY <3>1, <3>2
  <2>3. r.head # NULL => r.prev[r.head] = NULL
    BY <1>0, NullIsNoNode DEF SideInv
  <2>4. r.tail # NULL => r.next[r.tail] = NULL
    BY <1>0
  <2>5. QED BY <2>1, <2>2, <2>3, <2>4 DEF SideInv
<1>2. Mirrored(r)
  BY NullIsNoNode DEF AddLast, Store, List, NodeOrNull, SideInv, Loose, Mirrored
<1>3. \A m \in Node \ (S \union {n}) : SameLinks(r, l, m)
  BY NullIsNoNode DEF AddLast, Store, List, NodeOrNull, SideInv, SameLinks
<1>4. QED
  BY <1>1, <1>2, <1>3

LEMMA RemoveSide ==
  ASSUME NEW S \in SUBSET Node, NEW l \in List, SideInv(l, S), Mirrored(l),
         NEW n \in S
  PROVE  LET r == Remove(l, n) IN
         /\ SideInv(r, S \ {n})
         /\ Mirrored(r)
         /\ Loose(r, n)
         /\ \A m \in Node \ S : SameLinks(r, l, m)
<1> DEFINE r == Remove(l, n)
           p == l.prev[n]
           q == l.next[n]
<1>0. /\ p \in S \union {NULL} /\ q \in S \union {NULL}
      /\ r.head = IF p = NULL THEN q ELSE l.head
      /\ r.tail = IF q = NULL THEN p ELSE l.tail
      /\ \A m \in Node : r.next[m] = IF m = n THEN NULL ELSE IF m = p THEN q ELSE l.next[m]
      /\ \A m \in Node : r.prev[m] = IF m = n THEN NULL ELSE IF m = q THEN p ELSE l.prev[m]
  BY NullIsNoNode DEF Remove, UnlinkHead, UnlinkTail, Detach, Store, List, SideInv
<1>1. SideInv(r, S \ {n})
  <2>1. l.head = n => p = NULL
    <3>1. l.head # NULL => l.prev[l.head] = NULL
      BY DEF SideInv
    <3>2. QED BY <3>1, NullIsNoNode
  <2>2. l.tail = n => q = NULL
    BY NullIsNoNode DEF SideInv
  <2>3. /\ q \in S => l.prev[q] = n
        /\ p \in S => l.next[p] = n
    BY DEF Mirrored
  <2>4. r.head \in (S \ {n}) \union {NULL} /\ r.tail \in (S \ {n}) \union {NULL}
    BY <1>0, <2>1, <2>2, <2>3, NullIsNoNode DEF SideInv
  <2>5. ASSUME NEW m \in S \ {n}
        PROVE  /\ r.next[m] \in (S \ {n}) \union {NULL}
               /\ r.prev[m] \in (S \ {n}) \union {NULL}
    <3>1. l.next[m] \in S \union {NULL} /\ l.prev[m] \in S \union {NULL}
      BY DEF SideInv
    <3>2. /\ l.next[m] = n => p = m
          /\ l.prev[m] = n => q = m
      BY DEF Mirrored
    <3>3. m \in Node
      OBVIOUS
    <3>4. p = n => q = n
      BY NullIsNoNode DEF Mirrored
    <3>5. q = n => p = n
      BY NullIsNoNode DEF Mirrored
    <3>6. QED BY <1>0, <3>1, <3>2, <3>3, <3>4, <3>5, NullIsNoNode
  <2>6. r.head # NULL => r.prev[r.head] = NULL
    BY <1>0, <2>1, <2>3, <2>4, NullIsNoNode DEF SideInv
  <2>7. r.tail # NULL => r.next[r.tail] = NULL
    BY <1>0, <2>2, <2>3, <2>4, NullIsNoNode DEF SideInv
  <2>8. QED BY <2>4, <2>5, <2>6, <2>7 DEF SideInv
<1>2. Mirrored(r)
  BY NullIsNoNode
  DEF Remove, UnlinkHead, UnlinkTail, Detach, Store, List, NodeOrNull, SideInv, Mirrored
<1>3. Loose(r, n)
  BY NullIsNoNode DEF Remove, Detach, Store, List, NodeOrNull, Loose
<1>4. \A m \in Node \ S : SameLinks(r, l, m)
  BY NullIsNoNode
  DEF Remove, UnlinkHead, UnlinkTail, Detach, Store, List, NodeOrNull, SideInv, SameLinks
<1>5. QED
  BY <1>1, <1>2, <1>3, <1>4

LEMMA RemoveFirstSide ==
  ASSUME NEW S \in SUBSET Node, NEW l \in List, SideInv(l, S), Mirrored(l),
         l.head # NULL
  PROVE  LET r == RemoveFirst(l) IN
         /\ SideInv(r, S \ {l.head})
         /\ Mirrored(r)
         /\ Loose(r, l.head)
         /\ \A m \in Node \ S : SameLinks(r, l, m)
<1> DEFINE r == RemoveFirst(l)
           h == l.head
           q == l.next[h]
<1>0. /\ h \in S /\ q \in S \union {NULL} /\ l.prev[h] = NULL
      /\ h = l.tail => q = NULL
      /\ r.head = IF h = l.tail THEN NULL ELSE q
      /\ r.tail = IF h = l.tail THEN NULL ELSE l.tail
      /\ \A m \in Node : r.next[m] = IF m = h THEN NULL ELSE l.next[m]
      /\ \A m \in Node : r.prev[m] = IF m = q THEN NULL ELSE l.prev[m]
  BY NullIsNoNode DEF RemoveFirst, Store, List, SideInv
<1>1. SideInv(r, S \ {l.head})
  <2>1. ASSUME NEW m \in S, l.next[m] = h
        PROVE  FALSE
    <3>1. l.prev[h] = m
      BY <1>0, <2>1 DEF Mirrored
    <3>2. QED BY <1>0, <3>1, NullIsNoNode
  <2>2. \A m \in S : l.prev[m] = h => q = m
    BY <1>0 DEF Mirrored
  <2>3. r.head \in (S \ {h}) \union {NULL} /\ r.tail \in (S \ {h}) \union {NULL}
    BY <1>0, <2>1 DEF SideInv
  <2>4. ASSUME NEW m \in S \ {h}
        PROVE  /\ r.next[m] \in (S \ {h}) \union {NULL}
               /\ r.prev[m] \in (S \ {h}) \union {NULL}
    <3>1. l.next[m] \in S \union {NULL} /\ l.prev[m] \in S \union {NULL} /\ m \in Node
      BY DEF SideInv
    <3>2. QED BY <1>0, <2>1, <2>2, <3>1
  <2>5. r.head # NULL => r.prev[r.head] = NULL
    BY <1>0
  <2>6. r.tail # NULL => r.next[r.tail] = NULL
    BY <1>0 DEF SideInv
  <2>7. QED BY <2>3, <2>4, <2>5, <2>6 DEF SideInv
<1>2. Mirrored(r)
  BY NullIsNoNode DEF RemoveFirst, Store, List, NodeOrNull, SideInv, Mirrored
<1>3. Loose(r, l.head)
  BY NullIsNoNode DEF RemoveFirst, Store, List, NodeOrNull, SideInv, Loose
<1>4. \A m \in Node \ S : SameLinks(r, l, m)
  BY NullIsNoNode DEF RemoveFirst, Store, List, NodeOrNull, SideInv, SameLinks
<1>5. QED
  BY <1>1, <1>2, <1>3, <1>4

(***************************************************************************)
(* No operation closes a circle.                                           *)
(***************************************************************************)
LEMMA AddLastRanked ==
  ASSUME NEW S \in SUBSET Node, NEW l \in List, SideInv(l, S), Mirrored(l),
         Ranked(l), NEW n \in Node \ S, Loose(l, n)
  PROVE  Ranked(AddLast(l, n))
<1> DEFINE r == AddLast(l, n)
<1>1. PICK f \in [Node -> Nat] :
        \A m \in Node : l.next[m] # NULL => f[m] < f[l.next[m]]
  BY DEF Ranked
<1>2. \A m \in Node : r.next[m] = IF m = n THEN NULL
                                  ELSE IF m = l.tail THEN n ELSE l.next[m]
  BY NullIsNoNode DEF AddLast, Store, List
<1>3. ASSUME NEW m \in Node, l.next[m] = n
      PROVE  FALSE
  <2>1. l.prev[n] = m
    BY <1>3 DEF Mirrored
  <2>2. l.prev[n] = NULL
    BY DEF Loose
  <2>3. QED BY <2>1, <2>2, NullIsNoNode
<1>4. \A m \in Node : l.next[m] \in NodeOrNull
  BY DEF List
<1>5. PICK k \in Nat : l.tail # NULL => f[l.tail] < k
  <2>1. CASE l.tail = NULL
    BY <2>1
  <2>2. CASE l.tail # NULL
    <3>1. f[l.tail] \in Nat
      BY <2>2 DEF SideInv
    <3>2. f[l.tail] + 1 \in Nat /\ f[l.tail] < f[l.tail] + 1
      BY <3>1
    <3>3. QED BY <3>2
  <2>3. QED BY <2>1, <2>2
<1> DEFINE g == [m \in Node |-> IF m = n THEN k ELSE f[m]]
<1>6. g \in [Node -> Nat]
  OBVIOUS
<1>7. ASSUME NEW m \in Node, r.next[m] # NULL
      PROVE  g[m] < g[r.next[m]]
  <2>1. CASE m = l.tail
    BY <1>2, <1>5, <1>7, <2>1, NullIsNoNode
  <2>2. CASE m # l.tail
    BY <1>1, <1>2, <1>3, <1>4, <1>7, <2>2 DEF NodeOrNull
  <2>3. QED BY <2>1, <2>2
<1>8. QED
  BY <1>6, <1>7 DEF Ranked

LEMMA RemoveRanked ==
  ASSUME NEW l \in List, Mirrored(l), Ranked(l), NEW n \in Node
  PROVE  Ranked(Remove(l, n))
<1> DEFINE r == Remove(l, n)
           p == l.prev[n]
           q == l.next[n]
<1>1. PICK f \in [Node -> Nat] :
        \A m \in Node : l.next[m] # NULL => f[m] < f[l.next[m]]
  BY DEF Ranked
<1>2. \A m \in Node : r.next[m] = IF m = n THEN NULL
                                  ELSE IF m = p THEN q ELSE l.next[m]
  BY NullIsNoNode DEF Remove, UnlinkHead, UnlinkTail, Detach, Store, List
<1>3. p \in NodeOrNull /\ q \in NodeOrNull /\ (p \in Node => l.next[p] = n)
  BY DEF List, Mirrored
<1>4. ASSUME NEW m \in Node, r.next[m] # NULL
      PROVE  f[m] < f[r.next[m]]
  <2>1. CASE m = p /\ m # n
    <3>1. f[p] < f[n] /\ f[n] < f[q]
      BY <1>1, <1>2, <1>3, <1>4, <2>1, NullIsNoNode
    <3>2. f[p] \in Nat /\ f[n] \in Nat /\ f[q] \in Nat
      BY <1>2, <1>3, <1>4, <2>1 DEF NodeOrNull
    <3>3. QED BY <1>2, <2>1, <3>1, <3>2
  <2>2. CASE m # p /\ m # n
    BY <1>1, <1>2, <1>4, <2>2
  <2>3. QED BY <1>2, <1>4, <2>1, <2>2
<1>5. QED
  BY <1>4 DEF Ranked

LEMMA RemoveFirstRanked ==
  ASSUME NEW l \in List, Ranked(l)
  PROVE  Ranked(RemoveFirst(l))
<1>1. PICK f \in [Node -> Nat] :
        \A m \in Node : l.next[m] # NULL => f[m] < f[l.next[m]]
  BY DEF Ranked
<1>2. \A m \in Node : RemoveFirst(l).next[m] \in {l.next[m], NULL}
  BY DEF RemoveFirst, Store, List
<1>3. QED
  BY <1>1, <1>2 DEF Ranked

LEMMA NoSelfLink ==
  ASSUME NEW k, Ranked(k), NEW n \in Node
  PROVE  k.next[n] # n
BY NullIsNoNode DEF Ranked

LEMMA MembersWithinSide ==
  ASSUME NEW S \in SUBSET Node, NEW l, SideInv(l, S)
  PROVE  Members(l) \subseteq S
<1>1. ClosedUnderNext(l, S)
  BY DEF SideInv, ClosedUnderNext
<1>2. QED
  BY <1>1 DEF Members
-----------------------------------------------------------------------------
(***************************************************************************)
(* A well-formed list, whose side is the set of its Members.               *)
(***************************************************************************)

\* The ends close the chain: it begins at the head, ends at the tail and nowhere else.
Chain(l) ==
  /\ l.head = NULL <=> l.tail = NULL
  /\ l.head # NULL => l.prev[l.head] = NULL
  /\ l.tail # NULL => l.tail \in Members(l) /\ l.next[l.tail] = NULL
  /\ \A n \in Members(l) : l.next[n] = NULL => n = l.tail

\* A well-formed list.
Sound(l) == l \in List /\ Mirrored(l) /\ Chain(l)

-----------------------------------------------------------------------------
(***************************************************************************)
(* Members is the least set that has the head and is closed under "next".  *)
(***************************************************************************)
LEMMA MembersClosed ==
  ASSUME NEW l \in List
  PROVE  Members(l) \subseteq Node /\ ClosedUnderNext(l, Members(l))
<1>1. l.head \in NodeOrNull /\ \A m \in Node : l.next[m] \in NodeOrNull
  BY DEF List
<1>2. l.head # NULL => l.head \in Members(l)
  BY <1>1 DEF Members, ClosedUnderNext, NodeOrNull
<1>3. ASSUME NEW m \in Members(l), l.next[m] # NULL
      PROVE  l.next[m] \in Members(l)
  <2>1. m \in Node /\ l.next[m] \in Node
    BY <1>1, <1>3 DEF Members, NodeOrNull
  <2>2. ASSUME NEW S \in SUBSET Node, ClosedUnderNext(l, S)
        PROVE  l.next[m] \in S
    <3>1. m \in S
      BY <2>2 DEF Members
    <3> QED BY <1>3, <2>2, <3>1 DEF ClosedUnderNext
  <2> QED BY <2>1, <2>2 DEF Members
<1> QED
  BY <1>2, <1>3 DEF ClosedUnderNext, Members

LEMMA MembersLeast ==
  ASSUME NEW l, NEW S \in SUBSET Node, ClosedUnderNext(l, S)
  PROVE  Members(l) \subseteq S
BY DEF Members

\* A member is the head or has a predecessor among the others.
LEMMA HasPredecessor ==
  ASSUME NEW l \in List, NEW n \in Members(l), n # l.head
  PROVE  \E p \in Members(l) : p # n /\ l.next[p] = n
<1> SUFFICES ASSUME \A p \in Members(l) : p # n => l.next[p] # n
             PROVE  FALSE
  OBVIOUS
<1>1. ClosedUnderNext(l, Members(l) \ {n})
  BY MembersClosed DEF ClosedUnderNext
<1>2. Members(l) \subseteq Members(l) \ {n}
  BY <1>1, MembersClosed, MembersLeast
<1> QED
  BY <1>2

\* Nodes that a list has not do not matter to it.
LEMMA MembersFrame ==
  ASSUME NEW k \in List, NEW l \in List, k.head = l.head,
         \A m \in Members(l) : k.next[m] = l.next[m]
  PROVE  Members(k) = Members(l)
<1>1. Members(k) \subseteq Members(l)
  <2>1. ClosedUnderNext(k, Members(l))
    BY MembersClosed DEF ClosedUnderNext
  <2> QED BY <2>1, MembersClosed, MembersLeast
<1>2. Members(l) \subseteq Members(k)
  <2>1. ClosedUnderNext(l, Members(k))
    BY <1>1, MembersClosed DEF ClosedUnderNext
  <2> QED BY <2>1, MembersClosed, MembersLeast
<1> QED
  BY <1>1, <1>2

LEMMA ChainFrame ==
  ASSUME NEW k \in List, NEW l \in List, k.head = l.head, k.tail = l.tail, Chain(l),
         \A m \in Members(l) : SameLinks(k, l, m)
  PROVE  Members(k) = Members(l) /\ Chain(k)
<1>1. Members(k) = Members(l)
  BY MembersFrame DEF SameLinks
<1>2. l.head # NULL => l.head \in Members(l)
  BY MembersClosed DEF ClosedUnderNext
<1> QED
  BY <1>1, <1>2 DEF Chain, SameLinks

\* What a well-formed list knows of its nodes.
LEMMA SoundFacts ==
  ASSUME NEW l, Sound(l)
  PROVE  /\ l \in List /\ Members(l) \subseteq Node
         /\ SideInv(l, Members(l))
         /\ l.head = NULL => Members(l) = {}
         /\ \A n \in Members(l) : /\ l.prev[n] = NULL => n = l.head
                                  /\ l.next[n] = NULL => n = l.tail
                                  /\ l.next[n] # n
<1> DEFINE M == Members(l)
<1>1. l \in List /\ M \subseteq Node /\ ClosedUnderNext(l, M)
  BY MembersClosed DEF Sound
<1>2. \A n \in M : l.next[n] \in M \union {NULL}
  BY <1>1 DEF ClosedUnderNext
<1>3. ASSUME NEW n \in M, n # l.head
      PROVE  l.prev[n] \in M /\ l.prev[n] # n
  <2>1. PICK p \in M : p # n /\ l.next[p] = n
    BY <1>1, <1>3, HasPredecessor
  <2>2. l.prev[n] = p
    BY <1>1, <2>1 DEF Sound, Mirrored
  <2> QED BY <2>1, <2>2
<1>4. l.head # NULL => l.head \in M /\ l.prev[l.head] = NULL
  BY <1>1 DEF ClosedUnderNext, Sound, Chain
<1>5. \A n \in M : l.prev[n] = NULL => n = l.head
  BY <1>1, <1>3, NullIsNoNode
<1>6. ASSUME NEW n \in M, l.next[n] = n
      PROVE  FALSE
  <2>1. l.prev[n] = n
    BY <1>1, <1>6 DEF Sound, Mirrored
  <2> QED BY <1>1, <1>3, <1>4, <2>1, NullIsNoNode
<1>7. SideInv(l, M)
  <2>1. \A n \in M : l.prev[n] \in M \union {NULL}
    BY <1>1, <1>3, <1>4, NullIsNoNode
  <2>2. /\ l.tail \in M \union {NULL}
        /\ l.tail # NULL => l.next[l.tail] = NULL
    BY DEF Sound, Chain
  <2> QED BY <1>2, <1>4, <2>1, <2>2 DEF SideInv
<1>8. l.head = NULL => M = {}
  <2>1. l.head = NULL => ClosedUnderNext(l, {})
    BY DEF ClosedUnderNext
  <2> QED BY <2>1, MembersLeast
<1>9. \A n \in M : l.next[n] = NULL => n = l.tail
  BY DEF Sound, Chain
<1> QED
  BY <1>1, <1>5, <1>6, <1>7, <1>8, <1>9

-----------------------------------------------------------------------------
(***************************************************************************)
(* What each operation makes of a well-formed list.                        *)
(***************************************************************************)

\* r is well-formed, has the members M, and differs from l in nothing but the links
\* of M and of the former members, which are loose now.
Becomes(l, r, M) ==
  /\ Sound(r) /\ Members(r) = M
  /\ \A m \in Node \ (Members(l) \union M) : SameLinks(r, l, m)
  /\ \A m \in Members(l) \ M : Loose(r, m)

LEMMA AddLastBecomes ==
  ASSUME NEW l, Sound(l), NEW n \in Node \ Members(l), Loose(l, n)
  PROVE  Becomes(l, AddLast(l, n), Members(l) \union {n})
<1> DEFINE M == Members(l)
           r == AddLast(l, n)
<1>1. /\ l \in List /\ M \subseteq Node /\ SideInv(l, M) /\ Mirrored(l)
      /\ n \in Node \ M
  BY SoundFacts DEF Sound
<1>2. /\ SideInv(r, M \union {n}) /\ Mirrored(r) /\ r \in List
      /\ \A m \in Node \ (M \union {n}) : SameLinks(r, l, m)
  BY <1>1, AddLastSide, AddLastType
<1>3. /\ r.tail = n
      /\ r.head = IF l.tail = NULL THEN n ELSE l.head
      /\ \A m \in Node : r.next[m] = IF m = n THEN NULL ELSE IF m = l.tail THEN n ELSE l.next[m]
  BY <1>1, NullIsNoNode DEF AddLast, Store, List
<1>4. /\ l.head = NULL <=> l.tail = NULL
      /\ l.tail # NULL => l.tail \in M /\ l.next[l.tail] = NULL
      /\ \A m \in M : l.next[m] = NULL => m = l.tail
      /\ l.next[n] = NULL
  BY DEF Sound, Chain, Loose
<1>5. Members(r) \subseteq M \union {n}
  BY <1>1, <1>2, MembersWithinSide
<1>6. M \union {n} \subseteq Members(r)
  <2>1. ClosedUnderNext(r, Members(r)) /\ Members(r) \subseteq Node
    BY <1>2, MembersClosed
  <2>2. ClosedUnderNext(l, Members(r))
    BY <1>3, <1>4, <2>1, NullIsNoNode DEF ClosedUnderNext
  <2>3. M \subseteq Members(r)
    BY <2>1, <2>2, MembersLeast
  <2>4. n \in Members(r)
    BY <1>1, <1>3, <1>4, <2>1, <2>3, NullIsNoNode DEF ClosedUnderNext
  <2> QED BY <2>3, <2>4
<1>7. Members(r) = M \union {n}
  BY <1>5, <1>6
<1>8. Chain(r)
  <2>1. r.head # NULL /\ r.tail # NULL
    BY <1>1, <1>3, <1>4, NullIsNoNode
  <2>2. r.prev[r.head] = NULL /\ r.next[r.tail] = NULL
    BY <1>2, <2>1 DEF SideInv
  <2>3. \A m \in M \union {n} : r.next[m] = NULL => m = r.tail
    BY <1>1, <1>3, <1>4, NullIsNoNode
  <2> QED BY <1>3, <1>7, <2>1, <2>2, <2>3 DEF Chain
<1> QED
  BY <1>2, <1>7, <1>8 DEF Becomes, Sound

LEMMA AddFirstBecomes ==
  ASSUME NEW l, Sound(l), NEW n \in Node \ Members(l), Loose(l, n)
  PROVE  Becomes(l, AddFirst(l, n), Members(l) \union {n})
<1> DEFINE M == Members(l)
           r == AddFirst(l, n)
<1>1. /\ l \in List /\ M \subseteq Node /\ SideInv(l, M) /\ Mirrored(l)
      /\ n \in Node \ M
  BY SoundFacts DEF Sound
<1>2. r \in List
  BY <1>1 DEF AddFirst, Store, List, NodeOrNull
<1>3. /\ r.head = n
      /\ r.tail = IF l.head = NULL THEN n ELSE l.tail
      /\ \A m \in Node : r.next[m] = IF m = n THEN l.head ELSE l.next[m]
      /\ \A m \in Node : r.prev[m] = IF m = n THEN NULL ELSE IF m = l.head THEN n ELSE l.prev[m]
  BY <1>1, NullIsNoNode DEF AddFirst, Store, List
<1>4. /\ l.head = NULL <=> l.tail = NULL
      /\ l.head \in M \union {NULL}
      /\ l.head # NULL => l.prev[l.head] = NULL
      /\ l.tail # NULL => l.tail \in M /\ l.next[l.tail] = NULL
      /\ \A m \in M : l.next[m] = NULL => m = l.tail
      /\ l.next[n] = NULL /\ l.prev[n] = NULL
      /\ l.head = NULL => M = {}
  BY <1>1, SoundFacts DEF Sound, Chain, Loose, SideInv
<1>5. Mirrored(r)
  <2> SUFFICES ASSUME NEW a \in Node, NEW b \in Node
               PROVE  r.next[a] = b <=> r.prev[b] = a
    BY DEF Mirrored
  <2>1. l.next[a] = b <=> l.prev[b] = a
    BY <1>1 DEF Mirrored
  <2> QED BY <1>1, <1>3, <1>4, <2>1, NullIsNoNode
<1>6. Members(r) = M \union {n}
  <2>1. ClosedUnderNext(r, Members(r)) /\ Members(r) \subseteq Node
    BY <1>2, MembersClosed
  <2>2. ClosedUnderNext(l, M)
    BY <1>1, MembersClosed
  <2>3. ClosedUnderNext(r, M \union {n})
    BY <1>1, <1>3, <1>4, <2>2 DEF ClosedUnderNext
  <2>4. n \in Members(r)
    BY <1>1, <1>3, <2>1, NullIsNoNode DEF ClosedUnderNext
  <2>5. ClosedUnderNext(l, Members(r))
    BY <1>1, <1>3, <1>4, <2>1, <2>4 DEF ClosedUnderNext
  <2> QED BY <1>1, <2>1, <2>3, <2>4, <2>5, MembersLeast
<1>7. Chain(r)
  <2>1. r.head # NULL /\ r.prev[r.head] = NULL /\ r.tail \in M \union {n}
    BY <1>1, <1>3, <1>4, NullIsNoNode
  <2>2. r.next[r.tail] = NULL
    BY <1>1, <1>3, <1>4
  <2>3. \A m \in M \union {n} : r.next[m] = NULL => m = r.tail
    BY <1>1, <1>3, <1>4
  <2>4. r.tail # NULL
    BY <1>1, <2>1, NullIsNoNode
  <2> QED BY <1>6, <2>1, <2>2, <2>3, <2>4 DEF Chain
<1>8. ASSUME NEW m \in Node \ (M \union {n})
      PROVE  SameLinks(r, l, m)
  <2>1. m \in Node /\ m # n /\ m # l.head
    BY <1>4, NullIsNoNode
  <2> QED BY <1>3, <2>1 DEF SameLinks
<1> QED
  BY <1>2, <1>5, <1>6, <1>7, <1>8 DEF Becomes, Sound

LEMMA RemoveBecomes ==
  ASSUME NEW l, Sound(l), NEW n \in Members(l)
  PROVE  Becomes(l, Remove(l, n), Members(l) \ {n})
<1> DEFINE M == Members(l)
           r == Remove(l, n)
           p == l.prev[n]
           q == l.next[n]
<1>1. /\ l \in List /\ M \subseteq Node /\ SideInv(l, M) /\ Mirrored(l)
      /\ n \in Node
  BY SoundFacts DEF Sound
<1>2. /\ SideInv(r, M \ {n}) /\ Mirrored(r) /\ r \in List /\ Loose(r, n)
      /\ \A m \in Node \ M : SameLinks(r, l, m)
  BY <1>1, RemoveSide, RemoveType
<1>3. /\ r.head = IF p = NULL THEN q ELSE l.head
      /\ r.tail = IF q = NULL THEN p ELSE l.tail
      /\ \A m \in Node : r.next[m] = IF m = n THEN NULL ELSE IF m = p THEN q ELSE l.next[m]
  BY <1>1, NullIsNoNode DEF Remove, UnlinkHead, UnlinkTail, Detach, Store, List
<1>4. /\ p \in M \union {NULL} /\ q \in M \union {NULL}
      /\ p = NULL <=> n = l.head
      /\ q = NULL <=> n = l.tail
      /\ q # n /\ p # n
      /\ \A m \in M : l.next[m] = n => m = p
      /\ p # NULL => l.next[p] = n
  <2>1. p \in M \union {NULL} /\ q \in M \union {NULL}
    BY <1>1 DEF SideInv
  <2>2. /\ p = NULL => n = l.head
        /\ q = NULL => n = l.tail
        /\ q # n
    BY SoundFacts
  <2>3. /\ n = l.head => p = NULL
        /\ n = l.tail => q = NULL
    BY <1>1, NullIsNoNode DEF SideInv
  <2>4. /\ \A m \in M : l.next[m] = n => m = p
        /\ p # NULL => l.next[p] = n
    BY <1>1, <2>1 DEF Mirrored
  <2> QED BY <1>1, <2>1, <2>2, <2>3, <2>4, NullIsNoNode
<1>5. Members(r) \subseteq M \ {n}
  BY <1>1, <1>2, MembersWithinSide
<1>6. M \subseteq Members(r) \union {n}
  <2> DEFINE S == Members(r) \union {m \in {n} : p \in Members(r) \union {NULL}}
  <2>1. ClosedUnderNext(r, Members(r)) /\ Members(r) \subseteq Node
    BY <1>2, MembersClosed
  <2>2. l.head # NULL => l.head \in S
    BY <1>3, <1>4, <2>1 DEF ClosedUnderNext
  <2>3. ASSUME NEW m \in Members(r), l.next[m] # NULL
        PROVE  l.next[m] \in S
    <3>1. m \in M /\ m # n /\ m \in Node
      BY <1>5, <2>1
    <3>2. CASE m = p
      BY <1>4, <3>1, <3>2, <1>1, NullIsNoNode
    <3>3. CASE m # p
      BY <1>3, <2>1, <2>3, <3>1, <3>3 DEF ClosedUnderNext
    <3> QED BY <3>2, <3>3
  <2>4. ASSUME n \in S, q # NULL
        PROVE  q \in S
    <3>1. p \in Members(r) \union {NULL}
      BY <1>5, <2>4
    <3>2. CASE p = NULL
      BY <1>3, <2>1, <2>4, <3>2 DEF ClosedUnderNext
    <3>3. CASE p \in Members(r)
      BY <1>3, <1>4, <2>1, <2>4, <3>3 DEF ClosedUnderNext
    <3> QED BY <3>1, <3>2, <3>3
  <2>5. ClosedUnderNext(l, S)
    BY <2>2, <2>3, <2>4 DEF ClosedUnderNext
  <2>6. S \in SUBSET Node
    BY <1>1, <2>1
  <2>7. M \subseteq S
    BY <2>5, <2>6, MembersLeast
  <2> QED BY <2>7
<1>7. Members(r) = M \ {n}
  BY <1>5, <1>6
<1>8. Chain(r)
  <2>1. r.head # NULL => r.prev[r.head] = NULL
    BY <1>2 DEF SideInv
  <2>2. r.tail # NULL => r.next[r.tail] = NULL /\ r.tail \in M \ {n}
    BY <1>2 DEF SideInv
  <2>3. ASSUME NEW m \in M \ {n}, r.next[m] = NULL
        PROVE  m = r.tail
    <3>1. m \in Node /\ (l.next[m] = NULL => m = l.tail)
      BY <1>1 DEF Sound, Chain
    <3> QED BY <1>3, <1>4, <2>3, <3>1
  <2>4. r.head = NULL <=> r.tail = NULL
    <3>1. l.head # NULL /\ l.tail # NULL
      BY SoundFacts DEF Sound, Chain
    <3> QED BY <1>3, <1>4, <3>1
  <2> QED BY <1>7, <2>1, <2>2, <2>3, <2>4 DEF Chain
<1> QED
  BY <1>2, <1>7, <1>8 DEF Becomes, Sound

\* On a well-formed list remove_first and remove_last are remove of an end, although
\* they reset one of the two links only.
LEMMA RemoveFirstIsRemove ==
  ASSUME NEW l, Sound(l), l.head # NULL
  PROVE  l.head \in Members(l) /\ RemoveFirst(l) = Remove(l, l.head)
<1> DEFINE h == l.head
           q == l.next[h]
<1>1. /\ l \in List /\ Members(l) \subseteq Node
      /\ h \in Members(l) /\ h \in Node /\ l.prev[h] = NULL
      /\ q = NULL <=> h = l.tail
      /\ q \in NodeOrNull
  BY SoundFacts DEF SideInv, Sound, Chain, List
<1>2. RemoveFirst(l) \in List /\ Remove(l, h) \in List
  BY <1>1, RemoveFirstType, RemoveType
<1>3. RemoveFirst(l).head = Remove(l, h).head /\ RemoveFirst(l).tail = Remove(l, h).tail
  BY <1>1, NullIsNoNode
  DEF RemoveFirst, Remove, UnlinkHead, UnlinkTail, Detach, Store, List
<1>4. ASSUME NEW m \in Node
      PROVE  /\ RemoveFirst(l).next[m] = Remove(l, h).next[m]
             /\ RemoveFirst(l).prev[m] = Remove(l, h).prev[m]
  BY <1>1, NullIsNoNode
  DEF RemoveFirst, Remove, UnlinkHead, UnlinkTail, Detach, Store, List
<1> QED
  BY <1>1, <1>2, <1>3, <1>4 DEF List

LEMMA RemoveLastType ==
  ASSUME NEW l \in List
  PROVE  RemoveLast(l) \in List
<1>1. \A m \in Node : l.prev[m] \in NodeOrNull
  BY DEF List
<1> QED
  BY <1>1 DEF RemoveLast, Store, List, NodeOrNull

LEMMA RemoveLastIsRemove ==
  ASSUME NEW l, Sound(l), l.tail # NULL
  PROVE  l.tail \in Members(l) /\ RemoveLast(l) = Remove(l, l.tail)
<1> DEFINE t == l.tail
           p == l.prev[t]
<1>1. /\ l \in List /\ Members(l) \subseteq Node
      /\ t \in Members(l) /\ t \in Node /\ l.next[t] = NULL
      /\ p \in NodeOrNull
  BY SoundFacts DEF SideInv, Sound, Chain, List
<1>2. p = NULL <=> l.head = t
  BY <1>1, SoundFacts DEF SideInv
<1>3. RemoveLast(l) \in List /\ Remove(l, t) \in List
  BY <1>1, RemoveLastType, RemoveType
<1>4. RemoveLast(l).head = Remove(l, t).head /\ RemoveLast(l).tail = Remove(l, t).tail
  BY <1>1, <1>2, NullIsNoNode
  DEF RemoveLast, Remove, UnlinkHead, UnlinkTail, Detach, Store, List
<1>5. ASSUME NEW m \in Node
      PROVE  /\ RemoveLast(l).next[m] = Remove(l, t).next[m]
             /\ RemoveLast(l).prev[m] = Remove(l, t).prev[m]
  BY <1>1, <1>2, NullIsNoNode
  DEF RemoveLast, Remove, UnlinkHead, UnlinkTail, Detach, Store, List
<1> QED
  BY <1>1, <1>3, <1>4, <1>5 DEF List

LEMMA Stays ==
  ASSUME NEW l, Sound(l)
  PROVE  Becomes(l, l, Members(l))
BY DEF Becomes, SameLinks

LEMMA RemoveFirstBecomes ==
  ASSUME NEW l, Sound(l)
  PROVE  Becomes(l, RemoveFirst(l), Members(l) \ {l.head})
<1>1. CASE l.head # NULL
  BY <1>1, RemoveFirstIsRemove, RemoveBecomes
<1>2. CASE l.head = NULL
  <2>1. RemoveFirst(l) = l
    BY <1>2 DEF RemoveFirst
  <2>2. Members(l) \ {l.head} = Members(l)
    BY <1>2, SoundFacts
  <2> QED BY <2>1, <2>2, Stays
<1> QED BY <1>1, <1>2

LEMMA RemoveLastBecomes ==
  ASSUME NEW l, Sound(l)
  PROVE  Becomes(l, RemoveLast(l), Members(l) \ {l.tail})
<1>1. CASE l.tail # NULL
  BY <1>1, RemoveLastIsRemove, RemoveBecomes
<1>2. CASE l.tail = NULL
  <2>1. RemoveLast(l) = l
    BY <1>2 DEF RemoveLast
  <2>2. Members(l) \ {l.tail} = Members(l)
    BY <1>2, SoundFacts, NullIsNoNode
  <2> QED BY <2>1, <2>2, Stays
<1> QED BY <1>1, <1>2

LEMMA ClearBecomes ==
  ASSUME NEW l, Sound(l)
  PROVE  Becomes(l, Clear(l), {})
<1> DEFINE M == Members(l)
           r == Clear(l)
<1>1. l \in List /\ M \subseteq Node /\ SideInv(l, M) /\ Mirrored(l)
  BY SoundFacts DEF Sound
<1>2. /\ r.head = NULL /\ r.tail = NULL /\ r \in List
      /\ \A m \in Node : r.next[m] = IF m \in M THEN NULL ELSE l.next[m]
      /\ \A m \in Node : r.prev[m] = IF m \in M THEN NULL ELSE l.prev[m]
  BY <1>1 DEF Clear, List, NodeOrNull
<1>3. Mirrored(r)
  <2> SUFFICES ASSUME NEW a \in Node, NEW b \in Node
               PROVE  r.next[a] = b <=> r.prev[b] = a
    BY DEF Mirrored
  <2>1. l.next[a] = b <=> l.prev[b] = a
    BY <1>1 DEF Mirrored
  <2>2. /\ a \in M => l.next[a] \in M \union {NULL}
        /\ b \in M => l.prev[b] \in M \union {NULL}
    BY <1>1 DEF SideInv
  <2> QED BY <1>2, <2>1, <2>2, NullIsNoNode
<1>4. Members(r) = {}
  <2>1. ClosedUnderNext(r, {})
    BY <1>2 DEF ClosedUnderNext
  <2> QED BY <2>1, MembersLeast
<1>5. Chain(r)
  BY <1>2, <1>4 DEF Chain
<1>6. /\ \A m \in Node \ M : SameLinks(r, l, m)
      /\ \A m \in M : Loose(r, m)
  BY <1>1, <1>2 DEF SameLinks, Loose
<1> QED
  BY <1>2, <1>3, <1>4, <1>5, <1>6 DEF Becomes, Sound
=============================================================================
