--------------------------- MODULE MCJudgeBudget ---------------------------
(* Instances of JudgeBudget for TLC. *)
EXTENDS JudgeBudget, TLC

CONSTANTS j1, j2, j3, g1, g2

TwoJudgesOneGeneration == [k \in {"judge", "generation"} |-> IF k = "judge" THEN 2 ELSE 1]

Symmetry == Permutations(Judges) \cup Permutations(Generations)
=============================================================================
