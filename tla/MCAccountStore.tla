--------------------------- MODULE MCAccountStore ---------------------------
(* Instances of AccountStore for TLC: rows, wxids and bots are symmetric.   *)
EXTENDS AccountStore

Symmetry ==
    Permutations(Ids) \cup Permutations(Wxids) \cup Permutations(Bots)
=============================================================================
