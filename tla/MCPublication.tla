---------------------------- MODULE MCPublication ----------------------------
(* Values for model checking Publication.                                  *)
EXTENDS Publication, TLC

Symmetry == Permutations(Requests) \union Permutations(Ops) \union Permutations(Auths)
            \union Permutations(Rests)
=============================================================================
