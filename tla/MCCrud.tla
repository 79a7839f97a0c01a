------------------------------- MODULE MCCrud -------------------------------
(* Crud for TLC: the sets of the small instances and their symmetries. *)
EXTENDS Crud, TLC

Symmetry == Permutations(Ids) \union Permutations(Names)
            \union Permutations(Companies) \union Permutations(Tags)
            \union Permutations(Requests)

=============================================================================
