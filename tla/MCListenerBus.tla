--------------------------- MODULE MCListenerBus ---------------------------
(* Tokens may be exchanged: no fairness condition or liveness property
   mentions one.                                                            *)
EXTENDS ListenerBus, TLC

CONSTANTS j1, j2, i1, i2

Symmetry == Permutations(Ids)
=============================================================================
