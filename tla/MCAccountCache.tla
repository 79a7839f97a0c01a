--------------------------- MODULE MCAccountCache ---------------------------
(* AccountCache for TLC. *)
EXTENDS AccountCache, TLC

Symmetry == Permutations(Users) \union Permutations(Requests)

=============================================================================
