------------------------- MODULE MCVersionRegistry -------------------------
(* Model-checking instances of VersionRegistry. *)
EXTENDS VersionRegistry, TLC

Symmetry == Permutations(Ids) \cup Permutations(Requests) \cup Permutations(Versions)
=============================================================================
