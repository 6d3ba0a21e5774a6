----------------------------- MODULE MCRunStore -----------------------------
(* Instances of RunStore for TLC. *)
EXTENDS RunStore, TLC

CONSTANTS p1, p2, v1, u1, c1, c2, c3, c4

Symmetry == Permutations(Clients)
=============================================================================
