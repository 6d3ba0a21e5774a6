---------------------------- MODULE JudgeLedger ----------------------------
(***************************************************************************)
(* What the admission table of the semantic judge promises, without saying *)
(* how: the docstring of assert_judge_requests.py and the section          *)
(* "Idempotency, artifacts and limits" of docs/upstream-assert-judge.md.   *)
(* A request is admitted, at most one output is ever kept for it, a        *)
(* request in flight is never taken over, and only a request whose         *)
(* evaluator failed may be admitted again.                                 *)
(***************************************************************************)
CONSTANTS Keys,      \* identities of judge requests
          Outputs,   \* what a successful evaluator call returns
          NoOutput   \* no output kept

VARIABLES stage,     \* stage[k]: how far request k got
          kept       \* kept[k]: the output kept for request k

ledgerVars == <<stage, kept>>

Stages == {"absent", "running", "failed", "judged", "completed"}

LedgerInit == /\ stage = [k \in Keys |-> "absent"]
              /\ kept  = [k \in Keys |-> NoOutput]

(* A new request, or one whose evaluator failed, starts an evaluator call. *)
Admit(k) == /\ stage[k] \in {"absent", "failed"}
            /\ stage' = [stage EXCEPT ![k] = "running"]
            /\ UNCHANGED kept

(* The call in flight failed: the request may be admitted again. *)
GiveUp(k) == /\ stage[k] = "running"
             /\ stage' = [stage EXCEPT ![k] = "failed"]
             /\ UNCHANGED kept

(* The call in flight succeeded and its output is kept. *)
Keep(k, o) == /\ stage[k] = "running"
              /\ stage' = [stage EXCEPT ![k] = "judged"]
              /\ kept'  = [kept EXCEPT ![k] = o]

(* The kept output has been filed as a review and audited. *)
Finish(k) == /\ stage[k] = "judged"
             /\ stage' = [stage EXCEPT ![k] = "completed"]
             /\ UNCHANGED kept

LedgerNext == \E k \in Keys : \/ Admit(k)
                              \/ GiveUp(k)
                              \/ \E o \in Outputs : Keep(k, o)
                              \/ Finish(k)

LedgerSpec == LedgerInit /\ [][LedgerNext]_ledgerVars
=============================================================================
