---------------------------- MODULE MCJudgeParts ----------------------------
(* Two instances of JudgeReview in one run, of which a behaviour is of either:
   requests for two conversations; or requests for one that needs review, while
   the configuration changes.                                               *)
EXTENDS MCJudgeReview

VARIABLE part

InPart ==
  /\ part = "pair" => config = g1
  /\ part = "retry" => /\ conv[c1].verdict = "needs_review" /\ conv[c2].verdict = "pass"
                       /\ \A c \in Convs : conv[c].gate = "clear" /\ ~conv[c].error
                       /\ \A h \in Handlers : call[h] # NoCall => call[h].key.conv = c1

PartsInit == part \in {"pair", "retry"} /\ Init /\ InPart
PartsNext == UNCHANGED part /\ Next /\ InPart'
PartsSpec == PartsInit /\ [][PartsNext]_<<vars, part>>
=============================================================================
