---------------------------- MODULE ReviewStore ----------------------------
(***************************************************************************)
(* The review state of one terminal execution run:                         *)
(* services/execution_run_store.py and services/assert_review_status.py.   *)
(* Every action is one critical section of the store's _LOCK.  A review is *)
(* named by the judge request that produced it; "before" is its place in   *)
(* the list judge_reviews, kept as the set of reviews listed ahead of it.  *)
(***************************************************************************)
EXTENDS ReviewTypes, FiniteSets

VARIABLES run,      \* the run: its status, its error and its executor
          conv,     \* conv[c]: a conversation row, its reviews apart
          review    \* review[k]: the saved review of request k

storeVars == <<run, conv, review>>

Statuses == {"running", "completed", "needs_review", "failed"}

NoReview == [status |-> "absent", snap |-> None, output |-> None, before |-> {}]

RunRows    == [status : Statuses \ {"running"}, error : BOOLEAN, executor : Executors]
ConvRows   == [dialogue : Dialogues, contract : Contracts \cup {None},
               verdict : Verdicts \cup {"none"}, status : Statuses,
               gate : {"none", "clear", "blocked"}, error : BOOLEAN,
               known : SUBSET Sources, adjudication : Keys \cup {None}]
ReviewRows == [status : {"absent", "pending", "applied", "superseded"},
               snap : Snapshots \cup {None}, output : Outputs \cup {None},
               before : SUBSET Keys]

StoreType == /\ run \in RunRows
             /\ conv \in [Convs -> ConvRows]
             /\ review \in [Keys -> ReviewRows]

Terminal(row) == row.status # "running"

(* The row the runner leaves: a graded one, a Waylo capture, which is never
   graded, or the row of a run that aborted while this conversation ran.    *)
FinishedRow(row, executor) ==
  /\ row.dialogue = Rtc /\ row.adjudication = None
  /\ executor # "waylo_livekit" => row.known = {}
  /\ row.status = IF row.verdict = "pass" THEN "completed"
                  ELSE IF row.verdict = "none" THEN "running" ELSE row.verdict
  /\ row.verdict = "none" => row.contract = None /\ row.gate = "none" /\ ~row.error
  /\ row.gate = "blocked" => row.verdict # "pass"
  /\ executor = "waylo_livekit" => row.verdict # "pass" /\ row.gate = "none"
  /\ executor # "waylo_livekit" => row.contract # None \/ row.verdict = "none"

StoreInit ==
  /\ conv \in [Convs -> [dialogue : {Rtc}, contract : Contracts \cup {None},
                         verdict : Verdicts \cup {"none"}, status : Statuses,
                         gate : {"none", "clear", "blocked"}, error : BOOLEAN,
                         known : SUBSET Sources, adjudication : {None}]]
  /\ \E executor \in Executors, error \in BOOLEAN :
       /\ \A c \in Convs : FinishedRow(conv[c], executor)
       /\ (\E c \in Convs : ~Terminal(conv[c])) => error
       /\ run = [executor |-> executor, error |-> error,
                 status |-> IF error \/ \E c \in Convs : conv[c].status = "failed" THEN "failed"
                            ELSE IF \E c \in Convs : conv[c].verdict = "needs_review" THEN "needs_review"
                            ELSE "completed"]
  /\ review = [k \in Keys |-> NoReview]

Snapshot(c) == [dialogue |-> conv[c].dialogue, contract |-> conv[c].contract,
                verdict |-> conv[c].verdict]

Fingerprint(c, config) ==
  [judged |-> [dialogue |-> conv[c].dialogue, contract |-> conv[c].contract], config |-> config]

Of(c, status) == {k \in Keys : k.conv = c /\ review[k].status = status}

-----------------------------------------------------------------------------
(* record_judge_review *)

(* Mutant: compaction counts and drops confirmed reviews too. *)
DroppedWhateverStatus(c) ==
  LET saved == {j \in Keys : j.conv = c /\ review[j] # NoReview}
  IN  {j \in saved : Cardinality({i \in saved : j \in review[i].before}) + 1 >= MaxPending}

(* _compact_judge_review_history after k is appended: only the newest
   MaxPending pending reviews stay.                                         *)
Dropped(c) == {j \in Of(c, "pending") :
                 Cardinality({i \in Of(c, "pending") : j \in review[i].before}) + 1 >= MaxPending}

(* Mutant: a late output is filed whatever happened to the evidence. *)
RecordableAnyEvidence(k, snap) == Terminal(conv[k.conv])

Recordable(k, snap) == /\ Terminal(conv[k.conv])
                       /\ snap = Snapshot(k.conv)

(* The review of this request is already saved: nothing is written. *)
Existing(k) == /\ review[k] # NoReview
               /\ review[k].snap = Snapshot(k.conv)

AppendReview(k, output) ==
  LET kept == {j \in Keys : j.conv = k.conv /\ review[j] # NoReview} \ Dropped(k.conv)
  IN  review' = [j \in Keys |->
                   IF j = k THEN [status |-> "pending", snap |-> Snapshot(k.conv),
                                  output |-> output, before |-> kept]
                   ELSE IF j \in Dropped(k.conv) THEN NoReview
                   ELSE [review[j] EXCEPT !.before = @ \ Dropped(k.conv)]]

RecordReview(k, output) ==
  /\ review[k] = NoReview
  /\ AppendReview(k, output)
  /\ UNCHANGED <<run, conv>>

-----------------------------------------------------------------------------
(* apply_judge_review *)

(* saved_assert_review_freshness answers "current". *)
Current(k, config) ==
  /\ Terminal(conv[k.conv]) /\ conv[k.conv].verdict # "none"
  /\ conv[k.conv].contract # None
  /\ review[k].snap = Snapshot(k.conv)
  /\ review[k].output.fp = Fingerprint(k.conv, config)

(* A pass cannot lift a hard failure or a blocked design check. *)
PassRefused(k) == /\ review[k].output.proposal = "pass"
                  /\ conv[k.conv].gate = "blocked" \/ conv[k.conv].verdict = "failed"

(* _effective_run_status over the rows and reviews after the change. *)
EffectiveVerdict(row, reviews) ==
  IF row.adjudication = None THEN row.verdict ELSE reviews[row.adjudication].output.proposal

(* Mutant: one passing conversation completes the run. *)
EffectiveStatusAny(rows, reviews) ==
  IF \E c \in Convs : rows[c].status = "failed" THEN "failed"
  ELSE IF \E c \in Convs : EffectiveVerdict(rows[c], reviews) = "pass" THEN "completed"
  ELSE "needs_review"

EffectiveStatus(rows, reviews) ==
  IF \E c \in Convs : rows[c].status = "failed" THEN "failed"
  ELSE IF \A c \in Convs : EffectiveVerdict(rows[c], reviews) = "pass" THEN "completed"
  ELSE "needs_review"

ApplyReview(k, config) ==
  /\ review[k] # NoReview
  /\ Current(k, config)
  /\ review[k].status = "pending"
  /\ ~PassRefused(k)
  /\ LET previous == conv[k.conv].adjudication
     IN  review' = [j \in Keys |->
           IF j = k THEN [review[k] EXCEPT !.status = "applied"]
           ELSE IF j = previous /\ review[j].status = "applied"
                THEN [review[j] EXCEPT !.status = "superseded"]
                ELSE review[j]]
  /\ conv' = [conv EXCEPT ![k.conv].adjudication = k]
  /\ run'  = [run EXCEPT !.status = EffectiveStatus(conv', review')]

-----------------------------------------------------------------------------
(* refresh_waylo_evidence and prepare_waylo_review_contract *)

(* Everything the compare of the saved row with the expected row sees. *)
Row(c) == [row |-> conv[c],
           reviews |-> [k \in {j \in Keys : j.conv = c} |-> review[k]]]

(* Fewer entries than known dialogue, or a source that was known and is not
   available any more, refuses the refresh.                                 *)
Regresses(c, dialogue, known) == \/ Entries[dialogue] < Entries[conv[c].dialogue]
                                 \/ Entries[dialogue] < Entries[Rtc]
                                 \/ ~(conv[c].known \subseteq known)

Unchanged(c, dialogue, known) == dialogue = conv[c].dialogue /\ known = conv[c].known

(* Mutant: the refresh supersedes proposals but keeps the confirmed review. *)
ReplaceEvidenceKeepApplied(c, dialogue, known) ==
  LET bad == conv[c].status = "failed" \/ conv[c].error
      outcome == IF bad THEN "failed" ELSE "needs_review"
  IN  /\ conv' = [conv EXCEPT ![c] = [@ EXCEPT !.dialogue = dialogue, !.known = known,
                                              !.verdict = outcome, !.status = outcome]]
      /\ review' = [k \in Keys |-> IF k.conv = c /\ review[k].status = "pending"
                                   THEN [review[k] EXCEPT !.status = "superseded"]
                                   ELSE review[k]]
      /\ run' = [run EXCEPT !.status = IF run.error \/ \E d \in Convs : conv'[d].status = "failed"
                                       THEN "failed" ELSE "needs_review"]

ReplaceEvidence(c, dialogue, known) ==
  LET bad == conv[c].status = "failed" \/ conv[c].error
      outcome == IF bad THEN "failed" ELSE "needs_review"
  IN  /\ conv' = [conv EXCEPT ![c] = [@ EXCEPT !.dialogue = dialogue, !.known = known,
                                              !.adjudication = None, !.verdict = outcome,
                                              !.status = outcome]]
      /\ review' = [k \in Keys |-> IF k.conv = c /\ review[k] # NoReview
                                   THEN [review[k] EXCEPT !.status = "superseded"]
                                   ELSE review[k]]
      /\ run' = [run EXCEPT !.status = IF run.error \/ \E d \in Convs : conv'[d].status = "failed"
                                       THEN "failed" ELSE "needs_review"]

(* An operator picks the rules of a legacy capture that has none. *)
PrepareContract(c, contract) ==
  /\ run.executor = "waylo_livekit"
  /\ Terminal(conv[c])
  /\ conv[c].contract = None
  /\ conv[c].adjudication = None
  /\ \A k \in Keys : k.conv = c => review[k] = NoReview
  /\ conv' = [conv EXCEPT ![c].contract = contract]
  /\ UNCHANGED <<run, review>>
=============================================================================
