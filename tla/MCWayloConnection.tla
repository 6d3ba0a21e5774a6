------------------------- MODULE MCWayloConnection -------------------------
(* Instances of WayloConnection for TLC. *)
EXTENDS WayloConnection, TLC

CONSTANTS b1, b2, k1, k2, r1, t1, t2

(* Tabs and targets only: no fairness assumption and no liveness property
   speaks of either, so that permuting them changes no truth value there.   *)
Symmetry == Permutations(Tabs) \cup Permutations(Targets)
=============================================================================
