------------------------- MODULE JudgeReview_proofs -------------------------
(***************************************************************************)
(* Theorems about JudgeReview, for all values of its constants: its types, *)
(* and why a judge request is never paid for twice.  The argument for the  *)
(* latter is ownership: a handler between its claim and the end of its     *)
(* evaluator call owns the row it claimed, the row is "running" for        *)
(* exactly as long, and what has been paid for a key can be read off the   *)
(* row's status and its owner.                                             *)
(***************************************************************************)
EXTENDS JudgeReview, TLAPS

(* A handler past its first step holds the key, fingerprint and snapshot it
   read, and a refresh in flight its conversation: this is what makes TypeOK
   inductive.                                                               *)
CallOK == /\ \A h \in Handlers : pc[h] # "idle" => call[h] \in Calls
          /\ \A r \in Refreshers : expected[r] # None => target[r] \in Convs

LEMMA KeyType ==
  ASSUME NEW c \in Convs, NEW id \in RequestIds \cup {None}, NEW fp \in Fingerprints
  PROVE  KeyFor(c, id, fp) \in Keys
BY DEF KeyFor, Keys

LEMMA FingerprintType ==
  ASSUME StoreType, NEW c \in Convs, conv[c].contract # None, NEW g \in Configs
  PROVE  Fingerprint(c, g) \in Fingerprints
BY DEF StoreType, ConvRows, Fingerprint, Fingerprints, Judged

LEMMA SnapshotType ==
  ASSUME StoreType, NEW c \in Convs
  PROVE  Snapshot(c) \in Snapshots
BY DEF StoreType, ConvRows, Snapshot, Snapshots

(* Changing one field of a row gives a row. *)
LEMMA ReviewRowUpdate ==
  ASSUME NEW row \in ReviewRows, NEW ahead \in SUBSET Keys,
         NEW status \in {"absent", "pending", "applied", "superseded"}
  PROVE  /\ [row EXCEPT !.status = status] \in ReviewRows
         /\ [row EXCEPT !.before = row.before \ ahead] \in ReviewRows
BY DEF ReviewRows

(* Filing a review keeps the store well typed. *)
LEMMA RecordReviewType ==
  ASSUME StoreType, NEW k \in Keys, NEW o \in Outputs \cup {None}, RecordReview(k, o)
  PROVE  StoreType'
<1> DEFINE kept == {j \in Keys : j.conv = k.conv /\ review[j] # NoReview} \ Dropped(k.conv)
           new  == [status |-> "pending", snap |-> Snapshot(k.conv), output |-> o, before |-> kept]
<1>1. new \in ReviewRows
  <2>1. k.conv \in Convs
    BY DEF Keys
  <2> QED
    BY <2>1, SnapshotType DEF ReviewRows
<1>2. NoReview \in ReviewRows
  BY DEF NoReview, ReviewRows
<1>3. Dropped(k.conv) \in SUBSET Keys
  BY DEF Dropped, Of
<1>4. \A j \in Keys : [review[j] EXCEPT !.before = review[j].before \ Dropped(k.conv)] \in ReviewRows
  BY <1>3, ReviewRowUpdate DEF StoreType
<1>5. review' = [j \in Keys |-> IF j = k THEN new
                                ELSE IF j \in Dropped(k.conv) THEN NoReview
                                ELSE [review[j] EXCEPT !.before = review[j].before \ Dropped(k.conv)]]
  BY DEF RecordReview, AppendReview
<1> HIDE DEF new
<1>6. review' \in [Keys -> ReviewRows]
  BY <1>1, <1>2, <1>4, <1>5
<1> QED
  BY <1>6 DEF StoreType, RecordReview

LEMMA EffectiveStatusType ==
  ASSUME NEW rows, NEW reviews
  PROVE  EffectiveStatus(rows, reviews) \in Statuses \ {"running"}
BY DEF EffectiveStatus, Statuses

LEMMA RunRowUpdate ==
  ASSUME NEW row \in RunRows, NEW status \in Statuses \ {"running"}
  PROVE  [row EXCEPT !.status = status] \in RunRows
BY DEF RunRows

(* Confirming a review keeps the store well typed. *)
LEMMA ApplyReviewType ==
  ASSUME StoreType, NEW k \in Keys, NEW g \in Configs, ApplyReview(k, g)
  PROVE  StoreType'
<1>1. review' \in [Keys -> ReviewRows]
  <2> DEFINE previous == conv[k.conv].adjudication
  <2>1. \A j \in Keys : /\ [review[j] EXCEPT !.status = "applied"] \in ReviewRows
                        /\ [review[j] EXCEPT !.status = "superseded"] \in ReviewRows
    BY ReviewRowUpdate DEF StoreType
  <2>2. review' = [j \in Keys |->
           IF j = k THEN [review[k] EXCEPT !.status = "applied"]
           ELSE IF j = previous /\ review[j].status = "applied"
                THEN [review[j] EXCEPT !.status = "superseded"]
                ELSE review[j]]
    BY DEF ApplyReview
  <2> QED
    BY <2>1, <2>2 DEF StoreType
<1>2. conv' \in [Convs -> ConvRows]
  <2>1. conv' = [conv EXCEPT ![k.conv].adjudication = k]
    BY DEF ApplyReview
  <2>2. \A row \in ConvRows : [row EXCEPT !.adjudication = k] \in ConvRows
    BY DEF ConvRows
  <2> QED
    BY <2>1, <2>2 DEF StoreType
<1>3. run' \in RunRows
  <2>1. run' = [run EXCEPT !.status = EffectiveStatus(conv', review')]
    BY DEF ApplyReview
  <2> QED
    BY <2>1, EffectiveStatusType, RunRowUpdate DEF StoreType
<1> QED
  BY <1>1, <1>2, <1>3 DEF StoreType

(* Replacing the evidence keeps the store well typed. *)
LEMMA ReplaceEvidenceType ==
  ASSUME StoreType, NEW c \in Convs, NEW d \in Dialogues, NEW s \in SUBSET Sources,
         ReplaceEvidence(c, d, s)
  PROVE  StoreType'
<1>1. review' \in [Keys -> ReviewRows]
  <2>1. \A j \in Keys : [review[j] EXCEPT !.status = "superseded"] \in ReviewRows
    BY ReviewRowUpdate DEF StoreType
  <2> QED
    BY <2>1 DEF StoreType, ReplaceEvidence
<1>2. conv' \in [Convs -> ConvRows]
  <2>1. \A row \in ConvRows, outcome \in {"failed", "needs_review"} :
          [row EXCEPT !.dialogue = d, !.known = s, !.adjudication = None,
                      !.verdict = outcome, !.status = outcome] \in ConvRows
    BY DEF ConvRows, Verdicts, Statuses
  <2>2. PICK outcome \in {"failed", "needs_review"} :
          conv' = [conv EXCEPT ![c] = [conv[c] EXCEPT !.dialogue = d, !.known = s, !.adjudication = None,
                                                      !.verdict = outcome, !.status = outcome]]
    <3>1. CASE conv[c].status = "failed" \/ conv[c].error
      BY <3>1 DEF ReplaceEvidence
    <3>2. CASE ~(conv[c].status = "failed" \/ conv[c].error)
      BY <3>2 DEF ReplaceEvidence
    <3> QED
      BY <3>1, <3>2
  <2> QED
    BY <2>1, <2>2 DEF StoreType
<1>3. run' \in RunRows
  <2>1. PICK status \in {"failed", "needs_review"} : run' = [run EXCEPT !.status = status]
    BY DEF ReplaceEvidence
  <2>2. status \in Statuses \ {"running"}
    BY DEF Statuses
  <2> QED
    BY <2>1, <2>2, RunRowUpdate DEF StoreType
<1> QED
  BY <1>1, <1>2, <1>3 DEF StoreType

LEMMA RequestRowUpdate ==
  ASSUME NEW row \in RequestRows, NEW output \in Outputs \cup {None},
         NEW status \in {"absent", "running", "failed", "judged", "completed"}
  PROVE  /\ [row EXCEPT !.status = status, !.output = output] \in RequestRows
         /\ [row EXCEPT !.status = status] \in RequestRows
         /\ NoRow \in RequestRows
BY DEF RequestRows, NoRow

LEMMA TypeInit == Init => TypeOK /\ CallOK
<1> SUFFICES ASSUME Init PROVE TypeOK /\ CallOK
  OBVIOUS
<1>1. StoreType
  <2>1. conv \in [Convs -> ConvRows]
    <3>1. {Rtc} \subseteq Dialogues /\ {None} \subseteq Keys \cup {None}
      BY ReviewAssumption
    <3> QED
      BY <3>1 DEF Init, StoreInit, ConvRows
  <2>2. run \in RunRows
    BY DEF Init, StoreInit, RunRows, Statuses
  <2>3. review \in [Keys -> ReviewRows]
    BY DEF Init, StoreInit, ReviewRows, NoReview
  <2> QED
    BY <2>1, <2>2, <2>3 DEF StoreType
<1>2. RequestType
  BY DEF Init, RequestsInit, RequestType, NoRow, RequestRows
<1> QED
  BY <1>1, <1>2 DEF Init, TypeOK, CallOK, Steps

(* Every step keeps the types, one case per action. *)
LEMMA TypeStep == TypeOK /\ CallOK /\ [Next]_vars => TypeOK' /\ CallOK'
<1> SUFFICES ASSUME TypeOK, CallOK, [Next]_vars PROVE TypeOK' /\ CallOK'
  OBVIOUS
<1> USE DEF TypeOK
<1>1. ASSUME NEW h \in Handlers, HandlerStep(h) PROVE TypeOK' /\ CallOK'
  <2>0. pc[h] # "idle" => call[h].key \in Keys /\ call[h].fp \in Fingerprints
    BY DEF CallOK, Calls
  <2>1. ASSUME NEW c \in Convs, NEW id \in RequestIds \cup {None}, Read(h, c, id)
        PROVE  TypeOK' /\ CallOK'
    <3>1. Fingerprint(c, config) \in Fingerprints
      BY <2>1, FingerprintType DEF Read
    <3>2. KeyFor(c, id, Fingerprint(c, config)) \in Keys
      BY <3>1, KeyType
    <3>3. Snapshot(c) \in [dialogue : Dialogues, contract : Contracts, verdict : Verdicts]
      BY <2>1 DEF Read, Snapshot, StoreType, ConvRows
    <3>4. call' = [call EXCEPT ![h] = [key |-> KeyFor(c, id, Fingerprint(c, config)),
                                       fp |-> Fingerprint(c, config),
                                       snap |-> Snapshot(c), output |-> None]]
      BY <2>1 DEF Read
    <3>5. [key |-> KeyFor(c, id, Fingerprint(c, config)), fp |-> Fingerprint(c, config),
           snap |-> Snapshot(c), output |-> None] \in Calls
      BY <3>1, <3>2, <3>3 DEF Calls
    <3>6. call' \in [Handlers -> Calls \cup {NoCall}] /\ CallOK'
      BY <2>1, <3>4, <3>5 DEF CallOK, Read, Goto
    <3> QED
      BY <2>1, <3>6 DEF Read, Goto, Steps, StoreType, RequestType
  <2>2. CASE ClaimNew(h)
    <3>1. call[h].key \in Keys /\ call[h].fp \in Fingerprints
      BY <2>0, <2>2 DEF ClaimNew
    <3>2. RequestType'
      BY <2>2, <3>1 DEF ClaimNew, Insert, RequestType, RequestRows
    <3> QED
      BY <2>2, <3>2 DEF ClaimNew, Goto, Steps, StoreType, CallOK
  <2>3. CASE ClaimTaken(h)
    BY <2>3 DEF ClaimTaken, Goto, Steps, StoreType, RequestType, CallOK
  <2>4. CASE Lookup(h)
    <3>1. call[h] \in Calls /\ call[h].key \in Keys
      BY <2>0, <2>4 DEF Lookup, CallOK
    <3>2. requests[call[h].key].output \in Outputs \cup {None}
      BY <3>1 DEF RequestType, RequestRows
    <3>3. [call[h] EXCEPT !.output = requests[call[h].key].output] \in Calls
      BY <3>1, <3>2 DEF Calls
    <3>4. \/ call' = call
          \/ call' = [call EXCEPT ![h] = [call[h] EXCEPT !.output = requests[call[h].key].output]]
      BY <2>4 DEF Lookup
    <3>5. call' \in [Handlers -> Calls \cup {NoCall}] /\ \A i \in Handlers : call[i] \in Calls => call'[i] \in Calls
      BY <3>3, <3>4
    <3>6. pc' \in [Handlers -> Steps] /\ \A i \in Handlers : pc'[i] # "idle" => pc[i] # "idle"
      BY <2>4 DEF Lookup, Goto, Steps
    <3> QED
      BY <2>4, <3>5, <3>6 DEF Lookup, StoreType, RequestType, CallOK
  <2>5. CASE ClaimRetry(h)
    <3>1. call[h].key \in Keys
      BY <2>0, <2>5 DEF ClaimRetry
    <3>2. RequestType'
      BY <2>5, <3>1 DEF ClaimRetry, Reopen, RequestType, RequestRows
    <3> QED
      BY <2>5, <3>2 DEF ClaimRetry, Goto, Steps, StoreType, CallOK
  <2>6. CASE JudgeReady(h)
    <3>1. call[h] \in Calls
      BY <2>6 DEF JudgeReady, CallOK
    <3>2. PICK p \in Proposals(h) : call' = [call EXCEPT ![h].output =
                [fp |-> call[h].fp, base |-> call[h].snap.verdict, proposal |-> p]]
      BY <2>6 DEF JudgeReady
    <3>3. p \in {"pass", "needs_review", "fail"}
      BY DEF Proposals
    <3>4. [fp |-> call[h].fp, base |-> call[h].snap.verdict, proposal |-> p] \in Outputs
      BY <3>1, <3>3 DEF Calls, Outputs
    <3>5. [call[h] EXCEPT !.output = [fp |-> call[h].fp, base |-> call[h].snap.verdict, proposal |-> p]] \in Calls
      BY <3>1, <3>4 DEF Calls
    <3>6. call' \in [Handlers -> Calls \cup {NoCall}] /\ CallOK'
      BY <2>6, <3>2, <3>5 DEF CallOK, JudgeReady, Goto
    <3>7. ready' \in [Keys -> Nat]
      BY <2>6, <3>1 DEF JudgeReady, Calls
    <3> QED
      BY <2>6, <3>6, <3>7 DEF JudgeReady, Goto, Steps, StoreType, RequestType
  <2>7. CASE JudgeError(h)
    BY <2>7 DEF JudgeError, Goto, Steps, StoreType, RequestType, CallOK
  <2>8. CASE MarkFailed(h)
    <3>1. \A row \in RequestRows : [row EXCEPT !.status = "failed"] \in RequestRows
      BY DEF RequestRows
    <3>2. \/ UNCHANGED requests
          \/ requests' = [requests EXCEPT ![call[h].key] = [requests[call[h].key] EXCEPT !.status = "failed"]]
      BY <2>8 DEF MarkFailed, Fail
    <3>3. RequestType'
      BY <2>0, <2>8, <3>1, <3>2 DEF MarkFailed, RequestType
    <3> QED
      BY <2>8, <3>3 DEF MarkFailed, Goto, Steps, StoreType, CallOK
  <2>9. CASE RetainOutput(h)
    <3>1. call[h] \in Calls
      BY <2>9 DEF RetainOutput, CallOK
    <3>2. requests' = [requests EXCEPT ![call[h].key] =
                         [requests[call[h].key] EXCEPT !.status = "judged", !.output = call[h].output]]
      BY <2>9 DEF RetainOutput, Retain
    <3>3. RequestType'
      BY <3>1, <3>2, RequestRowUpdate DEF RequestType, Calls
    <3> QED
      BY <2>9, <3>3 DEF RetainOutput, Goto, Steps, StoreType, CallOK
  <2>10. CASE RetainError(h)
    BY <2>10 DEF RetainError, Goto, Steps, StoreType, RequestType, CallOK
  <2>11. CASE Record(h)
    <3>1. call[h] \in Calls
      BY <2>11 DEF Record, CallOK
    <3>2. StoreType'
      <4>1. CASE UNCHANGED storeVars
        BY <4>1 DEF storeVars, StoreType
      <4>2. CASE RecordReview(call[h].key, call[h].output)
        BY <3>1, <4>2, RecordReviewType DEF Calls
      <4> QED
        BY <2>11, <4>1, <4>2 DEF Record
    <3> QED
      BY <2>11, <3>2 DEF Record, Goto, Steps, RequestType, CallOK
  <2>12. CASE Audit(h)
    BY <2>0, <2>12 DEF Audit, Goto, Steps, StoreType, RequestType, CallOK
  <2>13. CASE Finish(h)
    <3>1. call[h] \in Calls
      BY <2>13 DEF Finish, CallOK
    <3>2. requests' = [requests EXCEPT ![call[h].key] =
                         [requests[call[h].key] EXCEPT !.status = "completed", !.output = call[h].output]]
      BY <2>13 DEF Finish, Retain
    <3>3. RequestType'
      BY <3>1, <3>2, RequestRowUpdate DEF RequestType, Calls
    <3> QED
      BY <2>13, <3>3 DEF Finish, Goto, Steps, StoreType, CallOK
  <2>14. CASE FinishError(h)
    BY <2>14 DEF FinishError, Goto, Steps, StoreType, RequestType, CallOK
  <2> QED
    BY <1>1, <2>1, <2>2, <2>3, <2>4, <2>5, <2>6, <2>7, <2>8, <2>9, <2>10, <2>11,
       <2>12, <2>13, <2>14 DEF HandlerStep
<1>2. ASSUME NEW r \in Refreshers, NEW c \in Convs, RefreshRead(r, c) PROVE TypeOK' /\ CallOK'
  BY <1>2 DEF RefreshRead, StoreType, RequestType, CallOK
<1>3. ASSUME NEW r \in Refreshers, NEW d \in Dialogues, NEW s \in SUBSET Sources, RefreshEnd(r, d, s)
      PROVE  TypeOK' /\ CallOK'
  <2>1. target[r] \in Convs
    BY <1>3 DEF RefreshEnd, CallOK
  <2>2. StoreType'
    BY <1>3, <2>1, ReplaceEvidenceType DEF RefreshEnd, storeVars, StoreType
  <2> QED
    BY <1>3, <2>2 DEF RefreshEnd, RequestType, CallOK
<1>4. ASSUME NEW k \in Keys, Apply(k) PROVE TypeOK' /\ CallOK'
  BY <1>4, ApplyReviewType DEF Apply, RequestType, CallOK
<1>5. ASSUME NEW c \in Convs, NEW t \in Contracts, SelectContract(c, t) PROVE TypeOK' /\ CallOK'
  <2>1. \A row \in ConvRows : [row EXCEPT !.contract = t] \in ConvRows
    BY DEF ConvRows
  <2>2. conv' = [conv EXCEPT ![c] = [conv[c] EXCEPT !.contract = t]]
    BY <1>5 DEF SelectContract, PrepareContract
  <2>3. StoreType'
    BY <1>5, <2>1, <2>2 DEF SelectContract, PrepareContract, StoreType
  <2> QED
    BY <1>5, <2>3 DEF SelectContract, RequestType, CallOK
<1>6. ASSUME NEW to \in Configs, Reconfigure(to) PROVE TypeOK' /\ CallOK'
  BY <1>6 DEF Reconfigure, StoreType, RequestType, CallOK
<1>7. CASE Crash
  BY <1>7 DEF Crash, StoreType, RequestType, CallOK, Steps
<1>8. CASE UNCHANGED vars
  BY <1>8 DEF vars, StoreType, RequestType, CallOK
<1> QED
  BY <1>1, <1>2, <1>3, <1>4, <1>5, <1>6, <1>7, <1>8 DEF Next

(* Every reachable state is well typed. *)
THEOREM TypeCorrect == Spec => []TypeOK
<1>1. Spec => [](TypeOK /\ CallOK)
  BY TypeInit, TypeStep, PTL DEF Spec
<1> QED
  BY <1>1, PTL
-----------------------------------------------------------------------------
(* The handler has been admitted and its evaluator call is not over. *)
Owns(h) == pc[h] \in {"judge", "fail", "retain"}

(* The handler answers from an output the table holds. *)
Answering(h) == pc[h] \in {"record", "audit", "finish"}

OneOwner ==
  /\ \A h \in Handlers : Owns(h) => requests[call[h].key].status = "running"
  /\ \A h, g \in Handlers : Owns(h) /\ Owns(g) /\ call[h].key = call[g].key => h = g

PaidByOwner ==
  \A h \in Handlers :
    /\ pc[h] \in {"judge", "fail"} => ready[call[h].key] = 0
    /\ pc[h] = "retain" => ready[call[h].key] = 1 /\ call[h].output \in Outputs

PaidByRow ==
  \A k \in Keys :
    /\ ready[k] \in {0, 1}
    /\ requests[k].status \in {"absent", "failed"} => ready[k] = 0
    /\ requests[k].status \in {"judged", "completed"} =>
         ready[k] = 1 /\ requests[k].output \in Outputs
    /\ requests[k].status \in {"absent", "running", "failed"} => requests[k].output = None

AnsweredFromRow ==
  \A h \in Handlers : Answering(h) =>
    /\ requests[call[h].key].status \in {"judged", "completed"}
    /\ requests[call[h].key].output = call[h].output

AuditedFirst ==
  /\ \A h \in Handlers : pc[h] = "finish" => call[h].key \in audited
  /\ \A k \in Keys : requests[k].status = "completed" => k \in audited

AdmissionInv == /\ TypeOK /\ CallOK
                /\ OneOwner /\ PaidByOwner /\ PaidByRow /\ AnsweredFromRow /\ AuditedFirst

(* A step that moves no handler but possibly ends some, and leaves table,
   payments, audit and calls alone.                                         *)
LEMMA IdleStep ==
  ASSUME AdmissionInv, UNCHANGED <<requests, ready, audited, call>>,
         \A h \in Handlers : pc'[h] \in {pc[h], "done"}
  PROVE  OneOwner' /\ PaidByOwner' /\ PaidByRow' /\ AnsweredFromRow' /\ AuditedFirst'
BY DEF AdmissionInv, OneOwner, PaidByOwner, PaidByRow, AnsweredFromRow, AuditedFirst, Owns, Answering

(* A claim makes a row running that nobody owns and nothing was paid for. *)
LEMMA AdmitStep ==
  ASSUME AdmissionInv, NEW h \in Handlers, ~Owns(h), ~Answering(h), call[h].key \in Keys,
         requests[call[h].key].status \in {"absent", "failed"},
         requests' \in [Keys -> RequestRows],
         requests'[call[h].key].status = "running", requests'[call[h].key].output = None,
         \A k \in Keys : k # call[h].key => requests'[k] = requests[k],
         pc' = [pc EXCEPT ![h] = "judge"], UNCHANGED <<ready, audited, call>>
  PROVE  OneOwner' /\ PaidByOwner' /\ PaidByRow' /\ AnsweredFromRow' /\ AuditedFirst'
<1> DEFINE k == call[h].key
<1>1. /\ ready[k] = 0
      /\ \A g \in Handlers : Owns(g) \/ Answering(g) => call[g].key # k /\ call[g].key \in Keys
  BY DEF AdmissionInv, OneOwner, AnsweredFromRow, PaidByRow, Owns, Answering, CallOK, Calls
<1>2. /\ pc'[h] = "judge"
      /\ \A g \in Handlers : g # h => pc'[g] = pc[g]
  BY DEF AdmissionInv, TypeOK
<1>3. OneOwner'
  BY <1>1, <1>2 DEF AdmissionInv, OneOwner, Owns
<1>4. PaidByOwner'
  BY <1>1, <1>2 DEF AdmissionInv, PaidByOwner
<1>5. PaidByRow'
  BY <1>1 DEF AdmissionInv, PaidByRow
<1>6. AnsweredFromRow'
  BY <1>1, <1>2 DEF AdmissionInv, AnsweredFromRow, Answering
<1>7. AuditedFirst'
  BY <1>2 DEF AdmissionInv, AuditedFirst
<1> QED
  BY <1>3, <1>4, <1>5, <1>6, <1>7

(* Every step keeps the ownership argument, one case per action. *)
LEMMA AdmissionStep == AdmissionInv /\ [Next]_vars => AdmissionInv'
<1> SUFFICES ASSUME AdmissionInv, [Next]_vars
             PROVE  OneOwner' /\ PaidByOwner' /\ PaidByRow' /\ AnsweredFromRow' /\ AuditedFirst'
  BY TypeStep DEF AdmissionInv
<1>1. ASSUME NEW h \in Handlers, HandlerStep(h)
      PROVE  OneOwner' /\ PaidByOwner' /\ PaidByRow' /\ AnsweredFromRow' /\ AuditedFirst'
  <2> DEFINE k == call[h].key
  <2>0. /\ pc[h] # "idle" => call[h] \in Calls /\ k \in Keys
        /\ pc \in [Handlers -> Steps] /\ RequestType
        /\ \A g \in Handlers : Owns(g) \/ Answering(g) => call[g].key \in Keys
    BY DEF AdmissionInv, CallOK, Calls, TypeOK, Owns, Answering
  <2>1. CASE \E c \in Convs, id \in RequestIds \cup {None} : Read(h, c, id)
    <3>1. /\ pc'[h] = "claim"
          /\ \A g \in Handlers : g # h => pc'[g] = pc[g] /\ call'[g] = call[g]
          /\ UNCHANGED <<requests, ready, audited>>
      BY <2>0, <2>1 DEF Read, Goto, AdmissionInv, TypeOK
    <3> QED
      BY <3>1 DEF AdmissionInv, OneOwner, PaidByOwner, PaidByRow, AnsweredFromRow, AuditedFirst,
                  Owns, Answering
  <2>2. CASE ClaimNew(h)
    <3>1. /\ requests[k].status = "absent" /\ k \in Keys
          /\ requests' = [requests EXCEPT ![k] = [status |-> "running", fp |-> call[h].fp, output |-> None]]
      BY <2>0, <2>2 DEF ClaimNew, Insert, NoRow
    <3>2. requests'[k] = [status |-> "running", fp |-> call[h].fp, output |-> None]
      BY <2>0, <3>1 DEF RequestType, RequestRows
    <3>3. RequestType'
      BY TypeStep, <2>2 DEF AdmissionInv, TypeOK
    <3> QED
      BY <2>0, <2>2, <3>1, <3>2, <3>3, AdmitStep DEF ClaimNew, Goto, Owns, Answering, RequestType, RequestRows
  <2>3. CASE ClaimTaken(h)
    <3>1. /\ pc'[h] = "lookup"
          /\ \A g \in Handlers : g # h => pc'[g] = pc[g]
          /\ UNCHANGED <<requests, ready, audited, call>>
      BY <2>0, <2>3 DEF ClaimTaken, Goto
    <3> QED
      BY <3>1 DEF AdmissionInv, OneOwner, PaidByOwner, PaidByRow, AnsweredFromRow, AuditedFirst,
                  Owns, Answering
  <2>4. CASE Lookup(h)
    <3>1. CASE Retained(k) /\ ~Conflicting(k, call[h].fp)
      <4>1. /\ pc'[h] = "record" /\ call'[h].output = requests[k].output /\ call'[h].key = k
            /\ requests[k].status \in {"judged", "completed"}
            /\ \A g \in Handlers : g # h => pc'[g] = pc[g] /\ call'[g] = call[g]
            /\ UNCHANGED <<requests, ready, audited>>
        <5>1. call' = [call EXCEPT ![h] = [call[h] EXCEPT !.output = requests[k].output]]
          BY <2>4, <3>1 DEF Lookup
        <5>2. call[h] \in Calls /\ call \in [Handlers -> Calls \cup {NoCall}]
          BY <2>0, <2>4 DEF Lookup, AdmissionInv, TypeOK
        <5>3. call'[h].output = requests[k].output /\ call'[h].key = k
          BY <5>1, <5>2 DEF Calls
        <5> QED
          BY <2>0, <2>4, <3>1, <5>1, <5>2, <5>3 DEF Lookup, Goto, Retained
      <4> QED
        BY <4>1 DEF AdmissionInv, OneOwner, PaidByOwner, PaidByRow, AnsweredFromRow, AuditedFirst,
                    Owns, Answering
    <3>2. CASE ~(Retained(k) /\ ~Conflicting(k, call[h].fp))
      <4>1. /\ pc'[h] \in {"reopen", "done"}
            /\ \A g \in Handlers : g # h => pc'[g] = pc[g]
            /\ UNCHANGED <<requests, ready, audited, call>>
        BY <2>0, <2>4, <3>2 DEF Lookup, Goto
      <4> QED
        BY <4>1 DEF AdmissionInv, OneOwner, PaidByOwner, PaidByRow, AnsweredFromRow, AuditedFirst,
                    Owns, Answering
    <3> QED
      BY <3>1, <3>2
  <2>5. CASE ClaimRetry(h)
    <3>1. CASE Retryable(k)
      <4>1. /\ requests[k].status = "failed" /\ k \in Keys
            /\ requests' = [requests EXCEPT ![k].status = "running"]
        BY <2>0, <2>5, <3>1 DEF ClaimRetry, Retryable, Reopen
      <4>2. /\ requests'[k].status = "running" /\ requests'[k].output = None
            /\ \A j \in Keys : j # k => requests'[j] = requests[j]
        BY <2>0, <4>1 DEF RequestType, RequestRows, AdmissionInv, PaidByRow
      <4>3. RequestType'
        BY TypeStep, <2>5 DEF AdmissionInv, TypeOK
      <4> QED
        BY <2>0, <2>5, <3>1, <4>1, <4>2, <4>3, AdmitStep
           DEF ClaimRetry, Goto, Owns, Answering, RequestType, RequestRows
    <3>2. CASE ~Retryable(k)
      <4>1. /\ \A g \in Handlers : pc'[g] \in {pc[g], "done"}
            /\ UNCHANGED <<requests, ready, audited, call>>
        BY <2>0, <2>5, <3>2 DEF ClaimRetry, Goto
      <4> QED
        BY <4>1, IdleStep
    <3> QED
      BY <3>1, <3>2
  <2>6. CASE JudgeReady(h)
    <3>1. PICK p \in Proposals(h) : call' = [call EXCEPT ![h].output =
                [fp |-> call[h].fp, base |-> call[h].snap.verdict, proposal |-> p]]
      BY <2>6 DEF JudgeReady
    <3>2. call'[h].key = k /\ call'[h].output \in Outputs
      <4>1. call[h] \in Calls /\ call \in [Handlers -> Calls \cup {NoCall}]
        BY <2>0, <2>6 DEF JudgeReady, AdmissionInv, TypeOK
      <4>2. p \in {"pass", "needs_review", "fail"}
        BY DEF Proposals
      <4> QED
        BY <3>1, <4>1, <4>2 DEF Calls, Outputs
    <3>3. /\ pc[h] = "judge" /\ k \in Keys
          /\ \A g \in Handlers : g # h => pc'[g] = pc[g] /\ call'[g] = call[g]
          /\ pc'[h] = "retain"
          /\ UNCHANGED <<requests, audited>>
      BY <2>0, <2>6, <3>1 DEF JudgeReady, Goto, AdmissionInv, TypeOK
    <3>4. /\ ready[k] = 0 /\ ready'[k] = 1
          /\ \A j \in Keys : j # k => ready'[j] = ready[j]
      BY <2>6, <3>3 DEF JudgeReady, AdmissionInv, PaidByOwner, TypeOK
    <3>5. /\ requests[k].status = "running"
          /\ \A g \in Handlers : g # h /\ (Owns(g) \/ Answering(g)) => call[g].key # k
      BY <3>3 DEF AdmissionInv, OneOwner, AnsweredFromRow, Owns
    <3>6. OneOwner'
      BY <3>2, <3>3, <3>5 DEF AdmissionInv, OneOwner, Owns
    <3>7. PaidByOwner'
      BY <2>0, <3>2, <3>3, <3>4, <3>5 DEF AdmissionInv, PaidByOwner, Owns
    <3>8. PaidByRow'
      BY <3>3, <3>4, <3>5 DEF AdmissionInv, PaidByRow
    <3>9. AnsweredFromRow' /\ AuditedFirst'
      BY <3>2, <3>3 DEF AdmissionInv, AnsweredFromRow, AuditedFirst, Answering
    <3> QED
      BY <3>6, <3>7, <3>8, <3>9
  <2>7. CASE JudgeError(h)
    <3>1. /\ pc[h] = "judge" /\ pc'[h] = "fail"
          /\ \A g \in Handlers : g # h => pc'[g] = pc[g]
          /\ UNCHANGED <<requests, ready, audited, call>>
      BY <2>0, <2>7 DEF JudgeError, Goto
    <3> QED
      BY <3>1 DEF AdmissionInv, OneOwner, PaidByOwner, PaidByRow, AnsweredFromRow, AuditedFirst,
                  Owns, Answering
  <2>8. CASE MarkFailed(h)
    <3>1. /\ pc[h] = "fail" /\ pc'[h] = "done" /\ k \in Keys
          /\ \A g \in Handlers : g # h => pc'[g] = pc[g]
          /\ UNCHANGED <<ready, audited, call>>
      BY <2>0, <2>8 DEF MarkFailed, Goto
    <3>2. /\ requests[k].status = "running" /\ ready[k] = 0
          /\ \A g \in Handlers : g # h /\ (Owns(g) \/ Answering(g)) => call[g].key # k
      BY <3>1 DEF AdmissionInv, OneOwner, PaidByOwner, AnsweredFromRow, Owns
    <3>3. /\ requests'[k].status = "failed" /\ requests'[k].output = requests[k].output
          /\ \A j \in Keys : j # k => requests'[j] = requests[j]
      BY <2>0, <2>8, <3>1, <3>2 DEF MarkFailed, Fail, RequestType, RequestRows
    <3> QED
      BY <2>0, <3>1, <3>2, <3>3 DEF AdmissionInv, OneOwner, PaidByOwner, PaidByRow,
                                    AnsweredFromRow, AuditedFirst, Owns, Answering
  <2>9. CASE RetainOutput(h)
    <3>1. /\ pc[h] = "retain" /\ pc'[h] = "record" /\ k \in Keys
          /\ \A g \in Handlers : g # h => pc'[g] = pc[g]
          /\ UNCHANGED <<ready, audited, call>>
      BY <2>0, <2>9 DEF RetainOutput, Goto
    <3>2. /\ ready[k] = 1 /\ call[h].output \in Outputs
          /\ \A g \in Handlers : g # h /\ (Owns(g) \/ Answering(g)) => call[g].key # k
      BY <3>1 DEF AdmissionInv, OneOwner, PaidByOwner, AnsweredFromRow, Owns
    <3>3. /\ requests'[k].status = "judged" /\ requests'[k].output = call[h].output
          /\ \A j \in Keys : j # k => requests'[j] = requests[j]
      BY <2>0, <2>9, <3>1 DEF RetainOutput, Retain, RequestType, RequestRows
    <3> QED
      BY <2>0, <3>1, <3>2, <3>3 DEF AdmissionInv, OneOwner, PaidByOwner, PaidByRow,
                                    AnsweredFromRow, AuditedFirst, Owns, Answering
  <2>10. CASE RetainError(h)
    BY <2>0, <2>10, IdleStep DEF RetainError, Goto
  <2>11. CASE Record(h)
    <3>1. /\ pc[h] = "record" /\ pc'[h] \in {"audit", "done"}
          /\ \A g \in Handlers : g # h => pc'[g] = pc[g]
          /\ UNCHANGED <<requests, ready, audited, call>>
      BY <2>0, <2>11 DEF Record, Goto
    <3> QED
      BY <3>1 DEF AdmissionInv, OneOwner, PaidByOwner, PaidByRow, AnsweredFromRow, AuditedFirst,
                  Owns, Answering
  <2>12. CASE Audit(h)
    <3>1. /\ pc[h] = "audit" /\ pc'[h] = "finish"
          /\ \A g \in Handlers : g # h => pc'[g] = pc[g]
          /\ audited' = audited \cup {k}
          /\ UNCHANGED <<requests, ready, call>>
      BY <2>0, <2>12 DEF Audit, Goto
    <3> QED
      BY <3>1 DEF AdmissionInv, OneOwner, PaidByOwner, PaidByRow, AnsweredFromRow, AuditedFirst,
                  Owns, Answering
  <2>13. CASE Finish(h)
    <3>1. /\ pc[h] = "finish" /\ pc'[h] = "done" /\ k \in Keys /\ k \in audited
          /\ \A g \in Handlers : g # h => pc'[g] = pc[g]
          /\ UNCHANGED <<ready, audited, call>>
      BY <2>0, <2>13 DEF Finish, Goto, AdmissionInv, AuditedFirst
    <3>2. /\ requests[k].status \in {"judged", "completed"}
          /\ requests[k].output = call[h].output /\ requests[k].output \in Outputs
      BY <3>1 DEF AdmissionInv, AnsweredFromRow, PaidByRow, Answering
    <3>3. /\ requests'[k].status = "completed" /\ requests'[k].output = call[h].output
          /\ \A j \in Keys : j # k => requests'[j] = requests[j]
      BY <2>0, <2>13, <3>1 DEF Finish, Retain, RequestType, RequestRows
    <3> QED
      BY <2>0, <3>1, <3>2, <3>3 DEF AdmissionInv, OneOwner, PaidByOwner, PaidByRow,
                                    AnsweredFromRow, AuditedFirst, Owns, Answering
  <2>14. CASE FinishError(h)
    BY <2>0, <2>14, IdleStep DEF FinishError, Goto
  <2> QED
    BY <1>1, <2>1, <2>2, <2>3, <2>4, <2>5, <2>6, <2>7, <2>8, <2>9, <2>10, <2>11, <2>12, <2>13, <2>14
       DEF HandlerStep
<1>2. CASE \E r \in Refreshers : \/ \E c \in Convs : RefreshRead(r, c)
                                 \/ \E d \in Dialogues \ {Rtc}, s \in SUBSET Sources : RefreshEnd(r, d, s)
  BY <1>2, IdleStep DEF RefreshRead, RefreshEnd
<1>3. CASE \E k \in Keys : Apply(k)
  BY <1>3, IdleStep DEF Apply
<1>4. CASE \E c \in Convs, contract \in Contracts : SelectContract(c, contract)
  BY <1>4, IdleStep DEF SelectContract
<1>5. CASE \E to \in Configs : Reconfigure(to)
  BY <1>5, IdleStep DEF Reconfigure
<1>6. CASE Crash
  <2>1. \A h \in Handlers : pc'[h] \in {pc[h], "done"}
    BY <1>6 DEF Crash
  <2> QED
    BY <1>6, <2>1, IdleStep DEF Crash
<1>7. CASE UNCHANGED vars
  BY <1>7, IdleStep DEF vars
<1> QED
  BY <1>1, <1>2, <1>3, <1>4, <1>5, <1>6, <1>7 DEF Next

LEMMA AdmissionInit == Init => AdmissionInv
<1> SUFFICES ASSUME Init PROVE AdmissionInv
  OBVIOUS
<1>1. /\ \A h \in Handlers : pc[h] = "idle"
      /\ \A k \in Keys : requests[k] = NoRow /\ ready[k] = 0
  BY DEF Init, RequestsInit
<1> QED
  BY <1>1, TypeInit DEF AdmissionInv, OneOwner, PaidByOwner, PaidByRow, AnsweredFromRow,
                        AuditedFirst, Owns, Answering, NoRow

LEMMA AdmissionInvariant == Spec => []AdmissionInv
BY AdmissionInit, AdmissionStep, PTL DEF Spec

(* No request ever buys two outputs. *)
THEOREM PaidOnceHolds == Spec => []PaidOnce
<1>1. AdmissionInv => PaidOnce
  BY DEF AdmissionInv, PaidByRow, PaidOnce
<1> QED
  BY <1>1, AdmissionInvariant, PTL

(* A closed request was paid for exactly once and is audited. *)
THEOREM ClosedIsAuditedHolds == Spec => []ClosedIsAudited
<1>1. AdmissionInv => ClosedIsAudited
  BY DEF AdmissionInv, AuditedFirst, PaidByRow, ClosedIsAudited
<1> QED
  BY <1>1, AdmissionInvariant, PTL

(* Every step is a step of the ledger, or changes nothing of it. *)
LEMMA LedgerStep ==
  AdmissionInv /\ [Next]_vars => [Ledger!LedgerNext]_(Ledger!ledgerVars)
<1> SUFFICES ASSUME AdmissionInv, [Next]_vars
             PROVE  Ledger!LedgerNext \/ UNCHANGED Ledger!ledgerVars
  OBVIOUS
<1>0. RequestType
  BY DEF AdmissionInv, TypeOK
<1>00. \A h \in Handlers : pc[h] # "idle" => call[h].key \in Keys
  BY DEF AdmissionInv, CallOK, Calls
<1>1. CASE requests' = requests
  BY <1>1 DEF Ledger!ledgerVars
<1>2. ASSUME NEW h \in Handlers, ClaimNew(h) PROVE Ledger!LedgerNext
  <2>0. PICK k \in Keys : k = call[h].key
    BY <1>2, <1>00 DEF ClaimNew
  <2>a. PICK row : row = [status |-> "running", fp |-> call[h].fp, output |-> None]
    BY Zenon
  <2>1. k \in Keys /\ requests[k] = NoRow /\ requests' = [requests EXCEPT ![k] = row]
    BY <1>2, <2>0, <2>a DEF ClaimNew, Insert, AdmissionInv, CallOK, Calls
  <2>2. row.status = "running" /\ row.output = requests[k].output /\ requests[k].status = "absent"
    BY <2>1, <2>a DEF NoRow
  <2>3. Ledger!Admit(k)
    <3>a. [j \in Keys |-> requests'[j].status]
            = [[j \in Keys |-> requests[j].status] EXCEPT ![k] = "running"]
      BY <1>0, <2>1, <2>2 DEF RequestType, RequestRows
    <3>b. [j \in Keys |-> requests'[j].output] = [j \in Keys |-> requests[j].output]
      BY <1>0, <2>1, <2>2 DEF RequestType, RequestRows
    <3> QED
      BY <1>0, <2>1, <2>2, <3>a, <3>b DEF Ledger!Admit
  <2> QED
    BY <2>1, <2>3 DEF Ledger!LedgerNext
<1>3. ASSUME NEW h \in Handlers, ClaimRetry(h), requests' # requests PROVE Ledger!LedgerNext
  <2>0. PICK k \in Keys : k = call[h].key
    BY <1>3, <1>00 DEF ClaimRetry
  <2>a. PICK row : row = [requests[k] EXCEPT !.status = "running"]
    BY Zenon
  <2>1. k \in Keys /\ requests[k].status = "failed" /\ requests' = [requests EXCEPT ![k] = row]
    BY <1>3, <2>0, <2>a DEF ClaimRetry, Reopen, AdmissionInv, CallOK, Calls
  <2>2. row.status = "running" /\ row.output = requests[k].output
    BY <1>0, <2>1, <2>a DEF RequestType, RequestRows
  <2>3. Ledger!Admit(k)
    <3>a. [j \in Keys |-> requests'[j].status]
            = [[j \in Keys |-> requests[j].status] EXCEPT ![k] = "running"]
      BY <1>0, <2>1, <2>2 DEF RequestType, RequestRows
    <3>b. [j \in Keys |-> requests'[j].output] = [j \in Keys |-> requests[j].output]
      BY <1>0, <2>1, <2>2 DEF RequestType, RequestRows
    <3> QED
      BY <1>0, <2>1, <2>2, <3>a, <3>b DEF Ledger!Admit
  <2> QED
    BY <2>1, <2>3 DEF Ledger!LedgerNext
<1>4. ASSUME NEW h \in Handlers, MarkFailed(h) PROVE Ledger!LedgerNext
  <2>0. PICK k \in Keys : k = call[h].key
    BY <1>4, <1>00 DEF MarkFailed
  <2>a. PICK row : row = [requests[k] EXCEPT !.status = "failed"]
    BY Zenon
  <2>1. k \in Keys /\ requests[k].status = "running"
    BY <1>4, <2>0 DEF MarkFailed, AdmissionInv, CallOK, Calls, OneOwner, Owns
  <2>2. requests' = [requests EXCEPT ![k] = row]
    BY <1>4, <2>0, <2>a, <2>1 DEF MarkFailed, Fail
  <2>3. row.status = "failed" /\ row.output = requests[k].output
    BY <1>0, <2>1, <2>a DEF RequestType, RequestRows
  <2>4. Ledger!GiveUp(k)
    <3>a. [j \in Keys |-> requests'[j].status]
            = [[j \in Keys |-> requests[j].status] EXCEPT ![k] = "failed"]
      BY <1>0, <2>1, <2>2, <2>3 DEF RequestType, RequestRows
    <3>b. [j \in Keys |-> requests'[j].output] = [j \in Keys |-> requests[j].output]
      BY <1>0, <2>1, <2>2, <2>3 DEF RequestType, RequestRows
    <3> QED
      BY <1>0, <2>1, <2>2, <2>3, <3>a, <3>b DEF Ledger!GiveUp
  <2> QED
    BY <2>1, <2>4 DEF Ledger!LedgerNext
<1>5. ASSUME NEW h \in Handlers, RetainOutput(h) PROVE Ledger!LedgerNext
  <2>0. PICK k \in Keys : k = call[h].key
    BY <1>5, <1>00 DEF RetainOutput
  <2>00. PICK o \in Outputs : o = call[h].output
    BY <1>5 DEF RetainOutput, AdmissionInv, PaidByOwner
  <2>a. PICK row : row = [requests[k] EXCEPT !.status = "judged", !.output = o]
    BY Zenon
  <2>1. k \in Keys /\ requests[k].status = "running" /\ o \in Outputs
    BY <1>5, <2>0, <2>00 DEF RetainOutput, AdmissionInv, CallOK, Calls, OneOwner, PaidByOwner, Owns
  <2>2. requests' = [requests EXCEPT ![k] = row]
    BY <1>5, <2>0, <2>a, <2>00 DEF RetainOutput, Retain
  <2>3. row.status = "judged" /\ row.output = o
    BY <1>0, <2>1, <2>a DEF RequestType, RequestRows
  <2>4. Ledger!Keep(k, o)
    <3>a. [j \in Keys |-> requests'[j].status]
            = [[j \in Keys |-> requests[j].status] EXCEPT ![k] = "judged"]
      BY <1>0, <2>1, <2>2, <2>3 DEF RequestType, RequestRows
    <3>b. [j \in Keys |-> requests'[j].output] = [[j \in Keys |-> requests[j].output] EXCEPT ![k] = o]
      BY <1>0, <2>1, <2>2, <2>3 DEF RequestType, RequestRows
    <3> QED
      BY <1>0, <2>1, <2>2, <2>3, <3>a, <3>b DEF Ledger!Keep
  <2> QED
    BY <2>1, <2>4 DEF Ledger!LedgerNext
<1>6. ASSUME NEW h \in Handlers, Finish(h)
      PROVE  Ledger!LedgerNext \/ UNCHANGED Ledger!ledgerVars
  <2>0. PICK k \in Keys : k = call[h].key
    BY <1>6, <1>00 DEF Finish
  <2>a. PICK row : row = [requests[k] EXCEPT !.status = "completed", !.output = call[h].output]
    BY Zenon
  <2>1. /\ k \in Keys /\ requests[k].status \in {"judged", "completed"}
        /\ requests[k].output = call[h].output
    BY <1>6, <2>0 DEF Finish, AdmissionInv, CallOK, Calls, AnsweredFromRow, Answering
  <2>2. requests' = [requests EXCEPT ![k] = row]
    BY <1>6, <2>0, <2>a DEF Finish, Retain
  <2>3. row.status = "completed" /\ row.output = requests[k].output
    BY <1>0, <2>1, <2>a DEF RequestType, RequestRows
  <2>4. CASE requests[k].status = "judged"
    <3>1. Ledger!Finish(k)
      <4>a. [j \in Keys |-> requests'[j].status]
              = [[j \in Keys |-> requests[j].status] EXCEPT ![k] = "completed"]
        BY <1>0, <2>1, <2>2, <2>3, <2>4 DEF RequestType, RequestRows
      <4>b. [j \in Keys |-> requests'[j].output] = [j \in Keys |-> requests[j].output]
        BY <1>0, <2>1, <2>2, <2>3, <2>4 DEF RequestType, RequestRows
      <4> QED
        BY <1>0, <2>1, <2>2, <2>3, <2>4, <4>a, <4>b DEF Ledger!Finish
    <3> QED
      BY <2>1, <3>1 DEF Ledger!LedgerNext
  <2>5. CASE requests[k].status = "completed"
    BY <1>0, <2>1, <2>2, <2>3, <2>5 DEF Ledger!ledgerVars, RequestType, RequestRows
  <2> QED
    BY <2>1, <2>4, <2>5
<1>7. \/ requests' = requests
      \/ \E h \in Handlers : \/ ClaimNew(h) \/ ClaimRetry(h) \/ MarkFailed(h)
                             \/ RetainOutput(h) \/ Finish(h)
  BY DEF Next, vars, HandlerStep, Read, ClaimTaken, Lookup, JudgeReady, JudgeError, RetainError,
         Record, Audit, FinishError, RefreshRead, RefreshEnd, Apply, SelectContract, Reconfigure, Crash
<1> QED
  BY <1>1, <1>2, <1>3, <1>4, <1>5, <1>6, <1>7

(* The table and its callers implement what the admission table promises. *)
THEOREM LedgerImplemented == Spec => ImplementsLedger
<1>1. Init => Ledger!LedgerInit
  BY DEF Init, RequestsInit, NoRow, Ledger!LedgerInit
<1> QED
  BY <1>1, LedgerStep, AdmissionInvariant, PTL DEF Spec, ImplementsLedger, Ledger!LedgerSpec
=============================================================================
