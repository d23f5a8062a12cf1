--------------------------- MODULE MCAuthorizations ---------------------------
(* Instances of Authorizations for TLC. *)
EXTENDS Authorizations, TLC

Symmetry == Permutations(Ids) \cup Permutations(Updates)
=============================================================================
