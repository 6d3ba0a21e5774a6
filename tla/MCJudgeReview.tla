--------------------------- MODULE MCJudgeReview ---------------------------
(* Instances of JudgeReview for TLC.                                        *)
EXTENDS JudgeReview, TLC

CONSTANTS c1, c2, h1, h2, r1, r2, rtc, d1, d2, q1, k1, g1, g2

MCEntries == [d \in Dialogues |-> IF d = rtc THEN 1 ELSE 2]

(* FairSpec while the configuration stays. *)
SteadySpec == /\ Init /\ [][Next /\ UNCHANGED config]_vars
              /\ \A h \in Handlers : WF_vars(HandlerStep(h) /\ pc[h] # "idle")

Symmetry == Permutations(Handlers) \cup Permutations(Refreshers)
=============================================================================
