----------------------------- MODULE MCUserAdmin -----------------------------
(* Instances of UserAdmin for TLC. *)
EXTENDS UserAdmin, TLC

CONSTANTS r1, r2

Symmetry == Permutations(Requests)
=============================================================================
