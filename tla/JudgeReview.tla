---------------------------- MODULE JudgeReview ----------------------------
(***************************************************************************)
(* The semantic-review pipeline: judge_execution_conversation in           *)
(* routes/assert_judge.py over the admission table and the saved reviews,  *)
(* racing with a Waylo evidence refresh (capture_session in                *)
(* routes/agents.py), with operators who apply reviews or change the       *)
(* grader configuration, and with crashes of the API process.              *)
(*                                                                         *)
(* A member of Handlers is one POST .../judge request, a member of         *)
(* Refreshers one evidence refresh; each is served once.  Rows of the      *)
(* admission table, audit events and the run file survive a crash.         *)
(***************************************************************************)
EXTENDS JudgeRequests, ReviewStore

CONSTANTS Handlers, Refreshers

VARIABLES config,    \* the grader configuration in force
          audited,   \* requests with an audit event judge-request-<id>
          ready,     \* ready[k]: how often the evaluator returned a ready output
          pc, call,  \* per handler: the next step and its local variables
          target,    \* per refresher: the conversation it refreshes
          expected   \* per refresher: the row it read before the provider call

vars == <<run, conv, review, requests, config, audited, ready, pc, call, target, expected>>

handlerVars == <<config, audited, ready, pc, call, target, expected>>

Steps == {"idle", "claim", "lookup", "reopen", "judge", "fail", "retain",
          "record", "audit", "finish", "done"}

NoCall == [key |-> None, fp |-> None, snap |-> None, output |-> None]

Calls == [key : Keys, fp : Fingerprints,
          snap : [dialogue : Dialogues, contract : Contracts, verdict : Verdicts],
          output : Outputs \cup {None}]

Init ==
  /\ StoreInit /\ RequestsInit
  /\ config \in Configs
  /\ audited = {}
  /\ ready = [k \in Keys |-> 0]
  /\ pc = [h \in Handlers |-> "idle"]
  /\ call = [h \in Handlers |-> NoCall]
  /\ target = [r \in Refreshers |-> None]
  /\ expected = [r \in Refreshers |-> None]

-----------------------------------------------------------------------------
(* The handler, one action per transaction, critical section or call. *)

Goto(h, step) == pc' = [pc EXCEPT ![h] = step]

(* Read the run and the conversation; compute snapshot, contract, fingerprint. *)
Read(h, c, id) ==
  /\ pc[h] = "idle"
  /\ Terminal(conv[c]) /\ conv[c].verdict # "none" /\ conv[c].contract # None
  /\ LET fp == Fingerprint(c, config)
     IN  call' = [call EXCEPT ![h] = [key |-> KeyFor(c, id, fp), fp |-> fp,
                                      snap |-> Snapshot(c), output |-> None]]
  /\ Goto(h, "claim")
  /\ UNCHANGED <<run, conv, review, requests, config, audited, ready, target, expected>>

ClaimNew(h) ==
  /\ pc[h] = "claim"
  /\ Insert(call[h].key, call[h].fp)
  /\ Goto(h, "judge")
  /\ UNCHANGED <<run, conv, review, config, audited, ready, call, target, expected>>

ClaimTaken(h) ==
  /\ pc[h] = "claim"
  /\ requests[call[h].key] # NoRow
  /\ Goto(h, "lookup")
  /\ UNCHANGED <<run, conv, review, requests, config, audited, ready, call, target, expected>>

(* Mutant: a duplicate waits for the request that is already running. *)
LookupWaits(h) ==
  LET k == call[h].key IN
  /\ pc[h] = "lookup" /\ requests[k].status # "running"
  /\ call' = [call EXCEPT ![h].output = requests[k].output]
  /\ Goto(h, IF Retained(k) THEN "record" ELSE IF Retryable(k) THEN "reopen" ELSE "done")
  /\ UNCHANGED <<run, conv, review, requests, config, audited, ready, target, expected>>

(* The row decides: a conflict, a retained output, a retry, or "already running". *)
Lookup(h) ==
  LET k == call[h].key IN
  /\ pc[h] = "lookup"
  /\ IF Conflicting(k, call[h].fp) THEN Goto(h, "done") /\ UNCHANGED call
     ELSE IF Retained(k) THEN /\ call' = [call EXCEPT ![h].output = requests[k].output]
                              /\ Goto(h, "record")
     ELSE /\ Goto(h, IF Retryable(k) THEN "reopen" ELSE "done")
          /\ UNCHANGED call
  /\ UNCHANGED <<run, conv, review, requests, config, audited, ready, target, expected>>

ClaimRetry(h) ==
  /\ pc[h] = "reopen"
  /\ IF Retryable(call[h].key)
     THEN Reopen(call[h].key) /\ Goto(h, "judge")
     ELSE UNCHANGED requests /\ Goto(h, "done")
  /\ UNCHANGED <<run, conv, review, config, audited, ready, call, target, expected>>

(* _review: a failed evaluation stays failed, needs_review is only lifted
   when the design checks are clear.                                        *)
Proposals(h) ==
  CASE call[h].snap.verdict = "failed" -> {"fail"}
    [] call[h].snap.verdict = "needs_review" /\ conv[call[h].key.conv].gate # "clear" -> {"needs_review"}
    [] OTHER -> {"needs_review", "pass"}

(* run_upstream_assert_judge returns; the settings are those it was claimed with. *)
JudgeReady(h) ==
  /\ pc[h] = "judge"
  /\ config = call[h].fp.config
  /\ \E p \in Proposals(h) :
       call' = [call EXCEPT ![h].output =
                  [fp |-> call[h].fp, base |-> call[h].snap.verdict, proposal |-> p]]
  /\ ready' = [ready EXCEPT ![call[h].key] = @ + 1]
  /\ Goto(h, "retain")
  /\ UNCHANGED <<run, conv, review, requests, config, audited, target, expected>>

(* Busy, over budget, unavailable, timed out, or an invalid score. *)
JudgeError(h) ==
  /\ pc[h] = "judge"
  /\ Goto(h, "fail")
  /\ UNCHANGED <<run, conv, review, requests, config, audited, ready, call, target, expected>>

MarkFailed(h) ==
  /\ pc[h] = "fail"
  /\ Fail(call[h].key)
  /\ Goto(h, "done")
  /\ UNCHANGED <<run, conv, review, config, audited, ready, call, target, expected>>

RetainOutput(h) ==
  /\ pc[h] = "retain"
  /\ Retain(call[h].key, call[h].output, "judged")
  /\ Goto(h, "record")
  /\ UNCHANGED <<run, conv, review, config, audited, ready, call, target, expected>>

(* Mutant: an output that could not be stored makes the request retryable. *)
RetainErrorRetryable(h) ==
  /\ pc[h] = "retain"
  /\ Goto(h, "fail")
  /\ UNCHANGED <<run, conv, review, requests, config, audited, ready, call, target, expected>>

(* The database refused: 503, and the request stays reserved. *)
RetainError(h) ==
  /\ pc[h] = "retain"
  /\ Goto(h, "done")
  /\ UNCHANGED <<run, conv, review, requests, config, audited, ready, call, target, expected>>

(* record_judge_review: refuse, find the saved review, or append one. *)
Record(h) ==
  LET k == call[h].key IN
  /\ pc[h] = "record"
  /\ IF ~Recordable(k, call[h].snap) \/ (review[k] # NoReview /\ ~Existing(k))
     THEN Goto(h, "done") /\ UNCHANGED storeVars
     ELSE /\ Goto(h, "audit")
          /\ IF Existing(k) THEN UNCHANGED storeVars
                            ELSE RecordReview(k, call[h].output)
  /\ UNCHANGED <<requests, config, audited, ready, call, target, expected>>

(* Mutant: a failed audit write is swallowed. *)
AuditSwallowed(h) ==
  /\ pc[h] = "audit"
  /\ \/ audited' = audited \cup {call[h].key}
     \/ UNCHANGED audited
  /\ Goto(h, "finish")
  /\ UNCHANGED <<run, conv, review, requests, config, ready, call, target, expected>>

(* record_judge_request is idempotent in the request id. *)
Audit(h) ==
  /\ pc[h] = "audit"
  /\ audited' = audited \cup {call[h].key}
  /\ Goto(h, "finish")
  /\ UNCHANGED <<run, conv, review, requests, config, ready, call, target, expected>>

Finish(h) ==
  /\ pc[h] = "finish"
  /\ Retain(call[h].key, call[h].output, "completed")
  /\ Goto(h, "done")
  /\ UNCHANGED <<run, conv, review, config, audited, ready, call, target, expected>>

(* A database error in the audit or the last update: 500, nothing is lost. *)
FinishError(h) ==
  /\ pc[h] \in {"audit", "finish"}
  /\ Goto(h, "done")
  /\ UNCHANGED <<run, conv, review, requests, config, audited, ready, call, target, expected>>

HandlerStep(h) == \/ \E c \in Convs, id \in RequestIds \cup {None} : Read(h, c, id)
                  \/ ClaimNew(h) \/ ClaimTaken(h) \/ Lookup(h) \/ ClaimRetry(h)
                  \/ JudgeReady(h) \/ JudgeError(h) \/ MarkFailed(h)
                  \/ RetainOutput(h) \/ RetainError(h)
                  \/ Record(h) \/ Audit(h) \/ Finish(h) \/ FinishError(h)

-----------------------------------------------------------------------------
(* The evidence refresh: read the row, capture from the provider, replace. *)

RefreshRead(r, c) ==
  /\ target[r] = None
  /\ run.executor = "waylo_livekit" /\ Terminal(conv[c])
  /\ target'   = [target EXCEPT ![r] = c]
  /\ expected' = [expected EXCEPT ![r] = Row(c)]
  /\ UNCHANGED <<run, conv, review, requests, config, audited, ready, pc, call>>

RefreshEnd(r, dialogue, known) ==
  LET c == target[r] IN
  /\ expected[r] # None
  /\ expected' = [expected EXCEPT ![r] = None]
  /\ IF Row(c) # expected[r] \/ Regresses(c, dialogue, known) \/ Unchanged(c, dialogue, known)
     THEN UNCHANGED storeVars
     ELSE ReplaceEvidence(c, dialogue, known)
  /\ UNCHANGED <<requests, config, audited, ready, pc, call, target>>

-----------------------------------------------------------------------------
(* Operators and the environment. *)

Apply(k) == /\ ApplyReview(k, config)
            /\ UNCHANGED <<requests, config, audited, ready, pc, call, target, expected>>

SelectContract(c, contract) ==
  /\ PrepareContract(c, contract)
  /\ UNCHANGED <<requests, config, audited, ready, pc, call, target, expected>>

Reconfigure(to) ==
  /\ config # to
  /\ config' = to
  /\ UNCHANGED <<run, conv, review, requests, audited, ready, pc, call, target, expected>>

(* The API process dies: requests in flight are lost, what is stored stays. *)
Crash ==
  /\ \E h \in Handlers : pc[h] \notin {"idle", "done"}
  /\ pc' = [h \in Handlers |-> IF pc[h] = "idle" THEN "idle" ELSE "done"]
  /\ expected' = [r \in Refreshers |-> None]
  /\ UNCHANGED <<run, conv, review, requests, config, audited, ready, call, target>>

Next == \/ \E h \in Handlers : HandlerStep(h)
        \/ \E r \in Refreshers : \/ \E c \in Convs : RefreshRead(r, c)
                                 \/ \E d \in Dialogues \ {Rtc}, s \in SUBSET Sources : RefreshEnd(r, d, s)
        \/ \E k \in Keys : Apply(k)
        \/ \E c \in Convs, contract \in Contracts : SelectContract(c, contract)
        \/ \E to \in Configs : Reconfigure(to)
        \/ Crash

Spec == Init /\ [][Next]_vars

(* A request being served is scheduled until it is answered: every call it
   makes returns (the evaluator process has a timeout).                     *)
FairSpec == Spec /\ \A h \in Handlers : WF_vars(HandlerStep(h) /\ pc[h] # "idle")
-----------------------------------------------------------------------------
(* Properties *)

TypeOK ==
  /\ StoreType /\ RequestType
  /\ config \in Configs
  /\ audited \subseteq Keys
  /\ ready \in [Keys -> Nat]
  /\ pc \in [Handlers -> Steps]
  /\ call \in [Handlers -> Calls \cup {NoCall}]
  /\ target \in [Refreshers -> Convs \cup {None}]
  /\ expected = [r \in Refreshers |-> expected[r]]

(* A request never buys a second ready output: not when a duplicate arrives,
   when its output cannot be stored, nor when the process dies around it.   *)
PaidOnce == \A k \in Keys : ready[k] <= 1

(* A saved review was computed from exactly the evidence, contract and
   automatic verdict it is filed against, however late it was filed.        *)
ReviewMatchesEvidence ==
  \A k \in Keys : review[k] # NoReview =>
    /\ review[k].output.fp.judged = [dialogue |-> review[k].snap.dialogue,
                                     contract |-> review[k].snap.contract]
    /\ review[k].output.base = review[k].snap.verdict
    /\ k.id \in Fingerprints => review[k].output.fp = k.id

(* The confirmed review of a conversation is its only applied one, and it
   describes the evidence the conversation shows now.                       *)
AdjudicationIsCurrent ==
  /\ \A c \in Convs : conv[c].adjudication # None =>
        /\ conv[c].adjudication.conv = c
        /\ review[conv[c].adjudication].status = "applied"
  /\ \A k \in Keys : review[k].status = "applied" =>
        /\ conv[k.conv].adjudication = k
        /\ review[k].snap = Snapshot(k.conv)

(* A confirmed review never lifts a failed evaluation or a blocked design
   check to pass, and a run counts as completed only when every effective
   verdict is pass.                                                         *)
PassIsEarned ==
  /\ \A c \in Convs :
       (conv[c].adjudication # None /\ EffectiveVerdict(conv[c], review) = "pass") =>
         conv[c].verdict # "failed" /\ conv[c].gate # "blocked"
  /\ run.status = "completed" => \A c \in Convs : EffectiveVerdict(conv[c], review) = "pass"

(* A request is closed only after its audit event and never without the
   output its retries will be answered from.                                *)
ClosedIsAudited ==
  \A k \in Keys : requests[k].status = "completed" => k \in audited /\ ready[k] = 1

(* Confirmed history survives every step: an applied review can only be
   superseded, and a superseded one stays as it is.                         *)
HistoryKept ==
  [][\A k \in Keys : review[k].status \in {"applied", "superseded"} =>
       /\ review'[k].status \in {review[k].status, "superseded"}
       /\ review'[k].output = review[k].output
       /\ review'[k].snap = review[k].snap]_vars

Ledger == INSTANCE JudgeLedger WITH NoOutput <- None,
            stage <- [k \in Keys |-> requests[k].status],
            kept  <- [k \in Keys |-> requests[k].output]

(* The table and its callers implement the promise of the admission table. *)
ImplementsLedger == Ledger!LedgerSpec

(* Every request that is read is answered. *)
Answered == \A h \in Handlers : pc[h] # "idle" ~> pc[h] = "done"

(* record_judge_review's docstring: the result is persisted "as a pending,
   auditable review".  A caller answered 200 holds a review it can confirm
   or has confirmed.                                                        *)
AnswerIsConfirmable ==
  [][\A h \in Handlers : pc[h] = "record" /\ pc'[h] = "audit" =>
       review'[call[h].key].status \in {"pending", "applied"}]_vars

(* A run the runner aborted with an error stays failed. *)
AbortedStaysFailed == run.error => run.status = "failed"
=============================================================================
