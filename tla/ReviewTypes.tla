---------------------------- MODULE ReviewTypes ----------------------------
(***************************************************************************)
(* The data shared by the admission table (JudgeRequests), the saved       *)
(* reviews (ReviewStore) and the handler that joins them (JudgeReview).    *)
(* One user reviews one terminal execution run.  Transcripts, rubrics and  *)
(* grader settings are opaque: only their identity matters, as it does to  *)
(* the SHA-256 digests the code compares.                                  *)
(***************************************************************************)
EXTENDS Naturals

CONSTANTS Convs,        \* conversations of the run
          Dialogues,    \* judge-visible contents a capture can carry
          Rtc,          \* the contents the runner recorded itself
          Entries,      \* Entries[d]: usable dialogue entries in contents d
          Sources,      \* optional provider sources that do not reach the judge
          Contracts,    \* frozen evaluation contracts
          Configs,      \* grader configurations (model, rubric, account, ...)
          RequestIds,   \* explicit request_id values clients send
          Executors,    \* executors under which the run may have been made
          MaxPending,   \* pending reviews kept per conversation (20 in the code)
          None          \* the absent value

ASSUME ReviewAssumption == /\ Rtc \in Dialogues
                           /\ Entries \in [Dialogues -> Nat]
                           /\ MaxPending \in Nat \ {0}
                           /\ Executors \subseteq {"waylo_livekit", "other"}

Verdicts == {"pass", "needs_review", "failed"}

(* What build_assert_inference_row and build_assert_taxonomy read. *)
Judged == [dialogue : Dialogues, contract : Contracts]

(* assert_judge_input_fingerprint: judged evidence and grader settings. *)
Fingerprints == [judged : Judged, config : Configs]

(* deterministic_evaluation_snapshot: evidence with its automatic verdict. *)
Snapshots == [dialogue : Dialogues, contract : Contracts \cup {None},
              verdict : Verdicts \cup {"none"}]

(* A ready response: the inputs it was computed from (provenance), the     *)
(* automatic verdict handed to _review, and the proposed verdict.          *)
Outputs == [fp : Fingerprints, base : Verdicts, proposal : {"pass", "needs_review", "fail"}]

(* content_hash of scope and request id, or of scope and fingerprint.      *)
Keys == [conv : Convs, id : RequestIds \cup Fingerprints]

(* None is not a value of any other kind. *)
ASSUME NoneAssumption == None \notin Contracts \cup RequestIds \cup Fingerprints \cup Outputs \cup Keys

(* A client's request_id has no colon, a canonical key starts "canonical:". *)
ASSUME RequestAssumption == RequestIds \cap Fingerprints = {}

KeyFor(c, id, fp) == [conv |-> c, id |-> IF id = None THEN fp ELSE id]
=============================================================================
