------------------------------ MODULE MCQueue ------------------------------
(* Two lists over the three objects of a pool. *)
EXTENDS PooledQueue, TLC

CONSTANTS com, action, n1, n2, n3

MCLists == {com, action}
MCNodes == {n1, n2, n3}
Symmetry == Permutations(MCLists) \union Permutations(MCNodes)
=============================================================================
