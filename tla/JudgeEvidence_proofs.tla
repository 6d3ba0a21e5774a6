------------------------ MODULE JudgeEvidence_proofs ------------------------
(***************************************************************************)
(* Why saved reviews can be trusted.  A row that carries refreshed evidence *)
(* has one possible automatic verdict, so evidence and verdict that were    *)
(* read together stay together; outputs are filed under what they were      *)
(* computed from; and the store's critical sections keep the confirmed      *)
(* review, the evidence it describes and the status of the run in step.     *)
(***************************************************************************)
EXTENDS JudgeReview_proofs

(* What the steps do to the saved reviews, field by field. *)
SameReview(j) == /\ review'[j].status = review[j].status
                 /\ review'[j].snap = review[j].snap
                 /\ review'[j].output = review[j].output
                 /\ review[j] = NoReview => review'[j] = NoReview

LEMMA RecordFields ==
  ASSUME StoreType, NEW k \in Keys, NEW o, RecordReview(k, o)
  PROVE  /\ UNCHANGED <<run, conv>>
         /\ review[k] = NoReview
         /\ review'[k].status = "pending"
         /\ review'[k].snap = Snapshot(k.conv)
         /\ review'[k].output = o
         /\ \A j \in Keys \ {k} : \/ SameReview(j)
                                  \/ review[j].status = "pending" /\ review'[j] = NoReview
<1> DEFINE kept == {j \in Keys : j.conv = k.conv /\ review[j] # NoReview} \ Dropped(k.conv)
           new  == [status |-> "pending", snap |-> Snapshot(k.conv), output |-> o, before |-> kept]
<1>1. review' = [j \in Keys |-> IF j = k THEN new
                                ELSE IF j \in Dropped(k.conv) THEN NoReview
                                ELSE [review[j] EXCEPT !.before = review[j].before \ Dropped(k.conv)]]
  BY DEF RecordReview, AppendReview
<1>2. new.status = "pending" /\ new.snap = Snapshot(k.conv) /\ new.output = o
  OBVIOUS
<1>3. ASSUME NEW j \in Keys \ {k}
      PROVE  SameReview(j) \/ (review[j].status = "pending" /\ review'[j] = NoReview)
  <2>1. CASE j \in Dropped(k.conv)
    BY <1>1, <2>1 DEF Dropped, Of
  <2>2. CASE j \notin Dropped(k.conv)
    <3> DEFINE D == Dropped(k.conv)
    <3>1. review'[j] = [review[j] EXCEPT !.before = review[j].before \ D]
      BY <1>1, <2>2
    <3> HIDE DEF D
    <3>2. review[j] \in ReviewRows
      BY DEF StoreType
    <3> QED
      BY <3>1, <3>2 DEF SameReview, ReviewRows, NoReview
  <2> QED
    BY <2>1, <2>2
<1> HIDE DEF new
<1> QED
  BY <1>1, <1>2, <1>3 DEF RecordReview

LEMMA ApplyFields ==
  ASSUME StoreType, NEW k \in Keys, NEW g, ApplyReview(k, g)
  PROVE  /\ review[k] # NoReview /\ review[k].snap = Snapshot(k.conv) /\ ~PassRefused(k)
         /\ review[k].status = "pending"
         /\ \A j \in Keys : /\ review'[j].snap = review[j].snap
                            /\ review'[j].output = review[j].output
                            /\ review[j] = NoReview => review'[j] = NoReview
                            /\ review'[j].status =
                                 IF j = k THEN "applied"
                                 ELSE IF j = conv[k.conv].adjudication /\ review[j].status = "applied"
                                      THEN "superseded" ELSE review[j].status
         /\ \A c \in Convs : conv'[c] = IF c = k.conv THEN [conv[c] EXCEPT !.adjudication = k] ELSE conv[c]
         /\ run'.status = EffectiveStatus(conv', review')
<1>1. /\ review[k] # NoReview /\ review[k].snap = Snapshot(k.conv) /\ ~PassRefused(k)
      /\ review[k].status = "pending"
  BY DEF ApplyReview, Current
<1>2. ASSUME NEW j \in Keys
      PROVE  /\ review'[j].snap = review[j].snap
             /\ review'[j].output = review[j].output
             /\ review[j] = NoReview => review'[j] = NoReview
             /\ review'[j].status =
                  IF j = k THEN "applied"
                  ELSE IF j = conv[k.conv].adjudication /\ review[j].status = "applied"
                       THEN "superseded" ELSE review[j].status
  <2> DEFINE previous == conv[k.conv].adjudication
  <2>1. review'[j] = IF j = k THEN [review[k] EXCEPT !.status = "applied"]
                     ELSE IF j = previous /\ review[j].status = "applied"
                          THEN [review[j] EXCEPT !.status = "superseded"]
                          ELSE review[j]
    BY DEF ApplyReview
  <2>2. review[j] \in ReviewRows
    BY DEF StoreType
  <2> HIDE DEF previous
  <2>3. /\ review'[j].snap = review[j].snap
        /\ review'[j].output = review[j].output
        /\ review[j] = NoReview => review'[j] = NoReview
        /\ review'[j].status = IF j = k THEN "applied"
                               ELSE IF j = previous /\ review[j].status = "applied"
                                    THEN "superseded" ELSE review[j].status
    BY <1>1, <2>1, <2>2 DEF ReviewRows, NoReview
  <2> QED
    BY <2>3 DEF previous
<1>3. ASSUME NEW c \in Convs
      PROVE  conv'[c] = IF c = k.conv THEN [conv[c] EXCEPT !.adjudication = k] ELSE conv[c]
  BY DEF ApplyReview, StoreType
<1>4. run'.status = EffectiveStatus(conv', review')
  <2>1. run' = [run EXCEPT !.status = EffectiveStatus(conv', review')]
    BY DEF ApplyReview
  <2> QED
    BY <2>1 DEF StoreType, RunRows
<1> QED
  BY <1>1, <1>2, <1>3, <1>4

(* The automatic verdict of a row whose evidence is refreshed. *)
Outcome(row) == IF row.status = "failed" \/ row.error THEN "failed" ELSE "needs_review"

LEMMA ReplaceFields ==
  ASSUME StoreType, NEW c \in Convs, NEW d, NEW s, ReplaceEvidence(c, d, s)
  PROVE  /\ \A j \in Keys : /\ review'[j].snap = review[j].snap
                            /\ review'[j].output = review[j].output
                            /\ review[j] = NoReview => review'[j] = NoReview
                            /\ review'[j].status =
                                 IF j.conv = c /\ review[j] # NoReview THEN "superseded"
                                 ELSE review[j].status
         /\ \A e \in Convs \ {c} : conv'[e] = conv[e]
         /\ conv'[c].dialogue = d /\ conv'[c].adjudication = None
         /\ conv'[c].verdict = Outcome(conv[c]) /\ conv'[c].status = Outcome(conv[c])
         /\ conv'[c].contract = conv[c].contract /\ conv'[c].error = conv[c].error
         /\ run'.status # "completed"
<1>1. ASSUME NEW j \in Keys
      PROVE  /\ review'[j].snap = review[j].snap
             /\ review'[j].output = review[j].output
             /\ review[j] = NoReview => review'[j] = NoReview
             /\ review'[j].status = IF j.conv = c /\ review[j] # NoReview THEN "superseded"
                                    ELSE review[j].status
  <2>1. review'[j] = IF j.conv = c /\ review[j] # NoReview
                     THEN [review[j] EXCEPT !.status = "superseded"] ELSE review[j]
    BY DEF ReplaceEvidence
  <2>2. review[j] \in ReviewRows
    BY DEF StoreType
  <2> QED
    BY <2>1, <2>2 DEF ReviewRows
<1>2. conv' = [conv EXCEPT ![c] = [conv[c] EXCEPT !.dialogue = d, !.known = s, !.adjudication = None,
                                                  !.verdict = Outcome(conv[c]), !.status = Outcome(conv[c])]]
  BY DEF ReplaceEvidence, Outcome
<1>3. conv[c] \in ConvRows /\ conv \in [Convs -> ConvRows]
  BY DEF StoreType
<1>4. /\ \A e \in Convs \ {c} : conv'[e] = conv[e]
      /\ conv'[c] = [conv[c] EXCEPT !.dialogue = d, !.known = s, !.adjudication = None,
                                    !.verdict = Outcome(conv[c]), !.status = Outcome(conv[c])]
  BY <1>2, <1>3
<1>5. /\ conv'[c].dialogue = d /\ conv'[c].adjudication = None
      /\ conv'[c].verdict = Outcome(conv[c]) /\ conv'[c].status = Outcome(conv[c])
      /\ conv'[c].contract = conv[c].contract /\ conv'[c].error = conv[c].error
  BY <1>3, <1>4 DEF ConvRows
<1>6. run'.status # "completed"
  <2>1. PICK status \in {"failed", "needs_review"} : run' = [run EXCEPT !.status = status]
    BY DEF ReplaceEvidence
  <2> QED
    BY <2>1 DEF StoreType, RunRows
<1> QED
  BY <1>1, <1>4, <1>5, <1>6

LEMMA PrepareFields ==
  ASSUME StoreType, NEW c \in Convs, NEW t, PrepareContract(c, t)
  PROVE  /\ UNCHANGED <<run, review>>
         /\ \A k \in Keys : k.conv = c => review[k] = NoReview
         /\ conv[c].adjudication = None
         /\ \A e \in Convs \ {c} : conv'[e] = conv[e]
         /\ conv'[c] = [conv[c] EXCEPT !.contract = t]
  BY DEF PrepareContract, StoreType

(* The steps that change the store. *)
Files(h) == /\ pc[h] = "record" /\ call[h] \in Calls
            /\ Recordable(call[h].key, call[h].snap)
            /\ RecordReview(call[h].key, call[h].output)

LEMMA StoreMoves ==
  ASSUME TypeOK, CallOK, [Next]_vars
  PROVE  \/ UNCHANGED storeVars
         \/ \E h \in Handlers : Files(h)
         \/ \E k \in Keys : ApplyReview(k, config)
         \/ \E c \in Convs, d \in Dialogues \ {Rtc}, s \in SUBSET Sources : ReplaceEvidence(c, d, s)
         \/ \E c \in Convs, t \in Contracts : PrepareContract(c, t)
<1>1. ASSUME NEW h \in Handlers, HandlerStep(h) PROVE UNCHANGED storeVars \/ Files(h)
  <2>1. CASE Record(h)
    BY <2>1 DEF Record, Files, CallOK
  <2>2. CASE ~Record(h)
    BY <1>1, <2>2 DEF HandlerStep, Read, ClaimNew, ClaimTaken, Lookup, ClaimRetry, JudgeReady,
       JudgeError, MarkFailed, RetainOutput, RetainError, Audit, Finish, FinishError, storeVars
  <2> QED
    BY <2>1, <2>2
<1>2. ASSUME NEW r \in Refreshers, NEW d \in Dialogues \ {Rtc}, NEW s \in SUBSET Sources, RefreshEnd(r, d, s)
      PROVE  UNCHANGED storeVars \/ \E c \in Convs : ReplaceEvidence(c, d, s)
  BY <1>2 DEF RefreshEnd, CallOK
<1>3. ASSUME NEW r \in Refreshers, NEW c \in Convs, RefreshRead(r, c) PROVE UNCHANGED storeVars
  BY <1>3 DEF RefreshRead, storeVars
<1>4. CASE UNCHANGED vars
  BY <1>4 DEF vars, storeVars
<1>5. CASE (\E to \in Configs : Reconfigure(to)) \/ Crash
  BY <1>5 DEF Reconfigure, Crash, storeVars
<1> QED
  BY <1>1, <1>2, <1>3, <1>4, <1>5 DEF Next, Apply, SelectContract
-----------------------------------------------------------------------------
(* Confirmed reviews. *)

LEMMA CurrentInit == Init => AdjudicationIsCurrent
<1> SUFFICES ASSUME Init PROVE AdjudicationIsCurrent
  OBVIOUS
<1>1. \A c \in Convs : conv[c].adjudication = None
  BY DEF Init, StoreInit
<1>2. \A k \in Keys : review[k].status = "absent"
  BY DEF Init, StoreInit, NoReview
<1> QED
  BY <1>1, <1>2 DEF AdjudicationIsCurrent

LEMMA CurrentStep ==
  ASSUME TypeOK, CallOK, AdjudicationIsCurrent, [Next]_vars
  PROVE  AdjudicationIsCurrent'
<1>0. StoreType /\ \A k \in Keys : k.conv \in Convs
  BY DEF TypeOK, Keys
<1>a. \A c \in Convs : conv[c].adjudication \in Keys \cup {None}
  BY <1>0 DEF StoreType, ConvRows
<1>b. NoReview.status = "absent"
  BY DEF NoReview
<1>1. CASE UNCHANGED storeVars
  BY <1>1 DEF storeVars, AdjudicationIsCurrent, Snapshot
<1>2. ASSUME NEW h \in Handlers, Files(h) PROVE AdjudicationIsCurrent'
  <2> DEFINE k == call[h].key
  <2>1. k \in Keys /\ RecordReview(k, call[h].output)
    BY <1>2 DEF Files, Calls
  <2> HIDE DEF k
  <2>2. /\ UNCHANGED <<run, conv>> /\ review[k] = NoReview /\ review'[k].status = "pending"
        /\ \A j \in Keys \ {k} : SameReview(j) \/ (review[j].status = "pending" /\ review'[j] = NoReview)
    BY <1>0, <2>1, RecordFields
  <2>3. \A c \in Convs : conv[c].adjudication # None => review'[conv[c].adjudication].status = "applied"
    BY <1>a, <1>b, <2>2 DEF AdjudicationIsCurrent, SameReview
  <2>4. \A j \in Keys : review'[j].status = "applied" => review[j].status = "applied" /\ review'[j].snap = review[j].snap
    BY <1>b, <2>2 DEF SameReview
  <2> QED
    BY <2>2, <2>3, <2>4 DEF AdjudicationIsCurrent, Snapshot
<1>3. ASSUME NEW k \in Keys, ApplyReview(k, config) PROVE AdjudicationIsCurrent'
  <2>1. /\ review[k].snap = Snapshot(k.conv)
        /\ \A j \in Keys : /\ review'[j].snap = review[j].snap
                           /\ review'[j].status =
                                IF j = k THEN "applied"
                                ELSE IF j = conv[k.conv].adjudication /\ review[j].status = "applied"
                                     THEN "superseded" ELSE review[j].status
        /\ \A c \in Convs : conv'[c] = IF c = k.conv THEN [conv[c] EXCEPT !.adjudication = k] ELSE conv[c]
    BY <1>0, <1>3, ApplyFields
  <2>2. /\ \A c \in Convs : conv[c] \in ConvRows
        /\ k.conv \in Convs
    BY <1>0 DEF StoreType
  <2>3. ASSUME NEW c \in Convs
        PROVE  /\ conv'[c].adjudication = IF c = k.conv THEN k ELSE conv[c].adjudication
               /\ conv'[c].dialogue = conv[c].dialogue
               /\ conv'[c].contract = conv[c].contract
               /\ conv'[c].verdict = conv[c].verdict
    <3>1. conv[c] \in ConvRows /\ conv'[c] = IF c = k.conv THEN [conv[c] EXCEPT !.adjudication = k] ELSE conv[c]
      BY <2>1, <2>2
    <3> QED
      BY <3>1 DEF ConvRows
  <2>4. \A c \in Convs : Snapshot(c)' = Snapshot(c)
    BY <2>3 DEF Snapshot
  <2>5. ASSUME NEW c \in Convs, conv'[c].adjudication # None
        PROVE  conv'[c].adjudication.conv = c /\ review'[conv'[c].adjudication].status = "applied"
    <3>1. CASE c = k.conv
      BY <2>1, <2>3, <3>1
    <3>2. CASE c # k.conv
      <4> DEFINE a == conv[c].adjudication
      <4>1. conv'[c].adjudication = a /\ a \in Keys /\ a.conv = c /\ review[a].status = "applied"
        BY <1>a, <2>3, <2>5, <3>2 DEF AdjudicationIsCurrent
      <4>2. a # k /\ a # conv[k.conv].adjudication
        BY <2>2, <3>2, <4>1, NoneAssumption DEF AdjudicationIsCurrent
      <4> QED
        BY <2>1, <4>1, <4>2
    <3> QED
      BY <3>1, <3>2
  <2>6. ASSUME NEW j \in Keys, review'[j].status = "applied"
        PROVE  conv'[j.conv].adjudication = j /\ review'[j].snap = Snapshot(j.conv)'
    <3>1. CASE j = k
      BY <2>1, <2>2, <2>3, <2>4, <3>1
    <3>2. CASE j # k
      <4>1. review[j].status = "applied" /\ j # conv[k.conv].adjudication
        BY <2>1, <2>6, <3>2
      <4>2. conv[j.conv].adjudication = j /\ review[j].snap = Snapshot(j.conv) /\ j.conv \in Convs
        BY <1>0, <4>1 DEF AdjudicationIsCurrent
      <4> QED
        BY <2>1, <2>3, <2>4, <4>1, <4>2
    <3> QED
      BY <3>1, <3>2
  <2> QED
    BY <2>5, <2>6 DEF AdjudicationIsCurrent
<1>4. ASSUME NEW c \in Convs, NEW d \in Dialogues, NEW s \in SUBSET Sources, ReplaceEvidence(c, d, s)
      PROVE  AdjudicationIsCurrent'
  <2>1. /\ \A j \in Keys : /\ review'[j].snap = review[j].snap
                           /\ review'[j].status = IF j.conv = c /\ review[j] # NoReview THEN "superseded"
                                                  ELSE review[j].status
        /\ \A e \in Convs \ {c} : conv'[e] = conv[e]
        /\ conv'[c].adjudication = None
    BY <1>0, <1>4, ReplaceFields
  <2>2. \A j \in Keys : review'[j].status = "applied" => j.conv # c /\ review[j].status = "applied"
    BY <1>b, <2>1
  <2>3. ASSUME NEW e \in Convs, conv'[e].adjudication # None
        PROVE  conv'[e].adjudication.conv = e /\ review'[conv'[e].adjudication].status = "applied"
    <3> DEFINE a == conv[e].adjudication
    <3>1. e # c /\ conv'[e].adjudication = a /\ a \in Keys /\ a.conv = e /\ review[a].status = "applied"
      BY <1>a, <2>1, <2>3 DEF AdjudicationIsCurrent
    <3> QED
      BY <2>1, <3>1
  <2>4. ASSUME NEW j \in Keys, review'[j].status = "applied"
        PROVE  conv'[j.conv].adjudication = j /\ review'[j].snap = Snapshot(j.conv)'
    <3>1. j.conv \in Convs \ {c} /\ review[j].status = "applied"
      BY <1>0, <2>2, <2>4
    <3>2. conv[j.conv].adjudication = j /\ review[j].snap = Snapshot(j.conv)
      BY <3>1 DEF AdjudicationIsCurrent
    <3> QED
      BY <2>1, <3>1, <3>2 DEF Snapshot
  <2> QED
    BY <2>3, <2>4 DEF AdjudicationIsCurrent
<1>5. ASSUME NEW c \in Convs, NEW t \in Contracts, PrepareContract(c, t) PROVE AdjudicationIsCurrent'
  <2>1. /\ UNCHANGED review
        /\ \A k \in Keys : k.conv = c => review[k] = NoReview
        /\ conv[c].adjudication = None
        /\ \A e \in Convs \ {c} : conv'[e] = conv[e]
        /\ conv'[c] = [conv[c] EXCEPT !.contract = t]
    BY <1>0, <1>5, PrepareFields
  <2>2. conv'[c].adjudication = None
    BY <2>1 DEF TypeOK, StoreType, ConvRows
  <2>3. \A j \in Keys : review'[j].status = "applied" => j.conv # c
    BY <1>b, <2>1
  <2>4. ASSUME NEW e \in Convs, conv'[e].adjudication # None
        PROVE  conv'[e].adjudication.conv = e /\ review'[conv'[e].adjudication].status = "applied"
    BY <2>1, <2>2, <2>4 DEF AdjudicationIsCurrent
  <2>5. ASSUME NEW j \in Keys, review'[j].status = "applied"
        PROVE  conv'[j.conv].adjudication = j /\ review'[j].snap = Snapshot(j.conv)'
    <3>1. j.conv \in Convs \ {c} /\ review[j].status = "applied"
      BY <1>0, <2>1, <2>3, <2>5
    <3>2. conv[j.conv].adjudication = j /\ review[j].snap = Snapshot(j.conv)
      BY <3>1 DEF AdjudicationIsCurrent
    <3> QED
      BY <2>1, <3>1, <3>2 DEF Snapshot
  <2> QED
    BY <2>4, <2>5 DEF AdjudicationIsCurrent
<1> QED
  BY <1>1, <1>2, <1>3, <1>4, <1>5, StoreMoves

LEMMA TypesAlways == Spec => [](TypeOK /\ CallOK)
  BY TypeInit, TypeStep, PTL DEF Spec

LEMMA CurrentAlways == Spec => []AdjudicationIsCurrent
<1>1. TypeOK /\ CallOK /\ AdjudicationIsCurrent /\ [Next]_vars => AdjudicationIsCurrent'
  BY CurrentStep
<1> QED
  BY <1>1, TypesAlways, CurrentInit, PTL DEF Spec

(* A conversation has one confirmed review, which describes the evidence it
   shows now, whatever is recorded, confirmed or refreshed at the same time. *)
THEOREM AdjudicationIsCurrentHolds == Spec => []AdjudicationIsCurrent
  BY CurrentAlways

(* What HistoryKept says of one step. *)
Keeps ==
  \A k \in Keys : review[k].status \in {"applied", "superseded"} =>
    /\ review'[k].status \in {review[k].status, "superseded"}
    /\ review'[k].output = review[k].output
    /\ review'[k].snap = review[k].snap

LEMMA KeepsStep == ASSUME TypeOK, CallOK, [Next]_vars PROVE Keeps
<1>0. StoreType /\ NoReview.status = "absent"
  BY DEF TypeOK, NoReview
<1>1. CASE UNCHANGED storeVars
  BY <1>1 DEF storeVars, Keeps
<1>2. ASSUME NEW h \in Handlers, Files(h) PROVE Keeps
  <2> DEFINE k == call[h].key
  <2>1. k \in Keys /\ RecordReview(k, call[h].output)
    BY <1>2 DEF Files, Calls
  <2> HIDE DEF k
  <2>2. /\ review[k] = NoReview
        /\ \A j \in Keys \ {k} : SameReview(j) \/ (review[j].status = "pending" /\ review'[j] = NoReview)
    BY <1>0, <2>1, RecordFields
  <2> QED
    BY <1>0, <2>2 DEF Keeps, SameReview
<1>3. ASSUME NEW k \in Keys, ApplyReview(k, config) PROVE Keeps
  <2>1. /\ review[k].status = "pending"
        /\ \A j \in Keys : /\ review'[j].snap = review[j].snap
                           /\ review'[j].output = review[j].output
                           /\ review'[j].status =
                                IF j = k THEN "applied"
                                ELSE IF j = conv[k.conv].adjudication /\ review[j].status = "applied"
                                     THEN "superseded" ELSE review[j].status
    BY <1>0, <1>3, ApplyFields
  <2> QED
    BY <2>1 DEF Keeps
<1>4. ASSUME NEW c \in Convs, NEW d \in Dialogues, NEW s \in SUBSET Sources, ReplaceEvidence(c, d, s)
      PROVE  Keeps
  <2>1. \A j \in Keys : /\ review'[j].snap = review[j].snap
                        /\ review'[j].output = review[j].output
                        /\ review'[j].status = IF j.conv = c /\ review[j] # NoReview THEN "superseded"
                                               ELSE review[j].status
    BY <1>0, <1>4, ReplaceFields
  <2> QED
    BY <2>1 DEF Keeps
<1>5. ASSUME NEW c \in Convs, NEW t \in Contracts, PrepareContract(c, t) PROVE Keeps
  BY <1>0, <1>5, PrepareFields DEF Keeps
<1> QED
  BY <1>1, <1>2, <1>3, <1>4, <1>5, StoreMoves

(* Confirmed history is never lost or rewritten. *)
THEOREM HistoryKeptHolds == Spec => HistoryKept
<1>1. TypeOK /\ CallOK /\ [Next]_vars =>
        [\A k \in Keys : review[k].status \in {"applied", "superseded"} =>
           /\ review'[k].status \in {review[k].status, "superseded"}
           /\ review'[k].output = review[k].output
           /\ review'[k].snap = review[k].snap]_vars
  BY KeepsStep DEF Keeps
<1> QED
  BY <1>1, TypesAlways, PTL DEF Spec, HistoryKept
-----------------------------------------------------------------------------
(* The verdicts that confirmed reviews and runs show. *)

Effective(c) == EffectiveVerdict(conv[c], review)

LEMMA PassInit == Init => PassIsEarned
<1> SUFFICES ASSUME Init PROVE PassIsEarned
  OBVIOUS
<1>1. \A c \in Convs : conv[c].adjudication = None
  BY DEF Init, StoreInit
<1>2. PICK executor \in Executors, error \in BOOLEAN :
        /\ \A c \in Convs : FinishedRow(conv[c], executor)
        /\ (\E c \in Convs : ~Terminal(conv[c])) => error
        /\ run = [executor |-> executor, error |-> error,
                  status |-> IF error \/ \E c \in Convs : conv[c].status = "failed" THEN "failed"
                             ELSE IF \E c \in Convs : conv[c].verdict = "needs_review" THEN "needs_review"
                             ELSE "completed"]
  BY DEF Init, StoreInit
<1>3. ASSUME run.status = "completed", NEW c \in Convs PROVE conv[c].verdict = "pass"
  <2>1. ~error /\ conv[c].status # "failed" /\ conv[c].verdict # "needs_review"
    BY <1>2, <1>3
  <2>2. conv[c].status # "running"
    BY <1>2, <2>1 DEF Terminal
  <2>3. conv[c].verdict \in Verdicts \cup {"none"}
    BY DEF Init, StoreInit
  <2>4. conv[c].status = IF conv[c].verdict = "pass" THEN "completed"
                         ELSE IF conv[c].verdict = "none" THEN "running" ELSE conv[c].verdict
    BY <1>2 DEF FinishedRow
  <2> QED
    BY <2>1, <2>2, <2>3, <2>4 DEF Verdicts
<1> QED
  BY <1>1, <1>3 DEF PassIsEarned, EffectiveVerdict

LEMMA PassStep ==
  ASSUME TypeOK, CallOK, AdjudicationIsCurrent, PassIsEarned, [Next]_vars
  PROVE  PassIsEarned'
<1>0. StoreType /\ NoReview.status = "absent"
  BY DEF TypeOK, NoReview
<1>a. \A c \in Convs : conv[c].adjudication \in Keys \cup {None} /\ conv[c] \in ConvRows
  BY <1>0 DEF StoreType, ConvRows
(* Rows that keep their verdict, gate and confirmed output. *)
<1>b. ASSUME NEW c \in Convs, conv'[c].adjudication = conv[c].adjudication,
             conv'[c].verdict = conv[c].verdict, conv'[c].gate = conv[c].gate,
             conv[c].adjudication # None =>
               review'[conv[c].adjudication].output = review[conv[c].adjudication].output
      PROVE  /\ Effective(c)' = Effective(c)
             /\ (conv'[c].adjudication # None /\ Effective(c)' = "pass") =>
                  conv'[c].verdict # "failed" /\ conv'[c].gate # "blocked"
  BY <1>b DEF Effective, EffectiveVerdict, PassIsEarned
<1>1. CASE UNCHANGED storeVars
  BY <1>1 DEF storeVars, PassIsEarned, EffectiveVerdict
<1>2. ASSUME NEW h \in Handlers, Files(h) PROVE PassIsEarned'
  <2> DEFINE k == call[h].key
  <2>1. k \in Keys /\ RecordReview(k, call[h].output)
    BY <1>2 DEF Files, Calls
  <2> HIDE DEF k
  <2>2. /\ UNCHANGED <<run, conv>> /\ review[k] = NoReview
        /\ \A j \in Keys \ {k} : SameReview(j) \/ (review[j].status = "pending" /\ review'[j] = NoReview)
    BY <1>0, <2>1, RecordFields
  <2>3. \A c \in Convs : conv[c].adjudication # None =>
          review'[conv[c].adjudication].output = review[conv[c].adjudication].output
    BY <1>0, <1>a, <2>2 DEF AdjudicationIsCurrent, SameReview
  <2> QED
    BY <1>b, <2>2, <2>3 DEF PassIsEarned, Effective
<1>3. ASSUME NEW k \in Keys, ApplyReview(k, config) PROVE PassIsEarned'
  <2>1. /\ ~PassRefused(k)
        /\ \A j \in Keys : review'[j].output = review[j].output
        /\ \A c \in Convs : conv'[c] = IF c = k.conv THEN [conv[c] EXCEPT !.adjudication = k] ELSE conv[c]
        /\ run'.status = EffectiveStatus(conv', review')
    BY <1>0, <1>3, ApplyFields
  <2>2. ASSUME NEW c \in Convs, conv'[c].adjudication # None, Effective(c)' = "pass"
        PROVE  conv'[c].verdict # "failed" /\ conv'[c].gate # "blocked"
    <3>1. CASE c = k.conv
      <4>1. conv'[c].adjudication = k /\ conv'[c].verdict = conv[c].verdict /\ conv'[c].gate = conv[c].gate
        BY <1>a, <2>1, <3>1 DEF ConvRows
      <4>2. review[k].output.proposal = "pass"
        BY <2>1, <2>2, <4>1 DEF Effective, EffectiveVerdict
      <4> QED
        BY <2>1, <3>1, <4>1, <4>2 DEF PassRefused
    <3>2. CASE c # k.conv
      BY <1>a, <1>b, <2>1, <2>2, <3>2
    <3> QED
      BY <3>1, <3>2
  <2>3. run'.status = "completed" => \A c \in Convs : Effective(c)' = "pass"
    BY <2>1 DEF EffectiveStatus, Effective
  <2> QED
    BY <2>2, <2>3 DEF PassIsEarned, Effective
<1>4. ASSUME NEW c \in Convs, NEW d \in Dialogues, NEW s \in SUBSET Sources, ReplaceEvidence(c, d, s)
      PROVE  PassIsEarned'
  <2>1. /\ \A j \in Keys : review'[j].output = review[j].output
        /\ \A e \in Convs \ {c} : conv'[e] = conv[e]
        /\ conv'[c].adjudication = None /\ run'.status # "completed"
    BY <1>0, <1>4, ReplaceFields
  <2> QED
    BY <1>a, <1>b, <2>1 DEF PassIsEarned, Effective
<1>5. ASSUME NEW c \in Convs, NEW t \in Contracts, PrepareContract(c, t) PROVE PassIsEarned'
  <2>1. /\ UNCHANGED <<run, review>>
        /\ \A e \in Convs \ {c} : conv'[e] = conv[e]
        /\ conv'[c] = [conv[c] EXCEPT !.contract = t]
    BY <1>0, <1>5, PrepareFields
  <2>2. \A e \in Convs : /\ conv'[e].adjudication = conv[e].adjudication
                         /\ conv'[e].verdict = conv[e].verdict /\ conv'[e].gate = conv[e].gate
    BY <1>a, <2>1 DEF ConvRows
  <2> QED
    BY <1>b, <2>1, <2>2 DEF PassIsEarned, Effective
<1> QED
  BY <1>1, <1>2, <1>3, <1>4, <1>5, StoreMoves

(* No confirmation lifts a failed evaluation or a blocked design check to pass,
   and a completed run has passing conversations only.                       *)
THEOREM PassIsEarnedHolds == Spec => []PassIsEarned
<1>1. TypeOK /\ CallOK /\ AdjudicationIsCurrent /\ PassIsEarned /\ [Next]_vars => PassIsEarned'
  BY PassStep
<1> QED
  BY <1>1, PassInit, TypesAlways, CurrentAlways, PTL DEF Spec
-----------------------------------------------------------------------------
(* Outputs and what they were computed from. *)

(* Refreshed evidence has one verdict, which another refresh keeps. *)
Settled ==
  \A c \in Convs : conv[c].dialogue # Rtc =>
    conv[c].status = conv[c].verdict /\ conv[c].verdict = Outcome(conv[c])

(* Contents d and verdict v were read together from conversation c: v is the
   verdict the row shows, unless d is what the runner recorded and has been
   refreshed since.                                                         *)
Agrees(c, d, v) ==
  IF conv[c].dialogue = Rtc THEN d = Rtc /\ v = conv[c].verdict
  ELSE d = Rtc \/ v = conv[c].verdict

OutputAgrees(k, fp, o) == o.fp = fp /\ Agrees(k.conv, fp.judged.dialogue, o.base)

CallAgrees(h) ==
  /\ call[h].fp.judged = [dialogue |-> call[h].snap.dialogue, contract |-> call[h].snap.contract]
  /\ call[h].key.id \in Fingerprints => call[h].key.id = call[h].fp
  /\ Agrees(call[h].key.conv, call[h].snap.dialogue, call[h].snap.verdict)
  /\ pc[h] \in {"retain", "record", "audit", "finish"} =>
       OutputAgrees(call[h].key, call[h].fp, call[h].output)
  /\ pc[h] \in {"reopen", "judge", "fail", "retain", "record", "audit", "finish"} =>
       requests[call[h].key] # NoRow /\ requests[call[h].key].fp = call[h].fp

RowsAgree ==
  \A k \in Keys : requests[k].output # None => OutputAgrees(k, requests[k].fp, requests[k].output)

Matching == /\ Settled /\ RowsAgree /\ ReviewMatchesEvidence
            /\ \A h \in Handlers : pc[h] # "idle" => CallAgrees(h)

LEMMA MatchingInit == Init => Matching
<1> SUFFICES ASSUME Init PROVE Matching
  OBVIOUS
<1>1. Settled
  BY DEF Init, StoreInit, Settled
<1>2. RowsAgree
  BY DEF Init, RequestsInit, NoRow, RowsAgree
<1>3. ReviewMatchesEvidence
  BY DEF Init, StoreInit, ReviewMatchesEvidence
<1> QED
  BY <1>1, <1>2, <1>3 DEF Matching, Init

(* Only a refresh changes contents or verdict of a row, and it never brings
   back what the runner recorded.                                           *)
LEMMA RowsMove ==
  ASSUME TypeOK, CallOK, [Next]_vars, NEW c \in Convs
  PROVE  \/ /\ conv'[c].dialogue = conv[c].dialogue /\ conv'[c].verdict = conv[c].verdict
            /\ conv'[c].status = conv[c].status /\ conv'[c].error = conv[c].error
         \/ /\ conv'[c].dialogue # Rtc /\ conv'[c].error = conv[c].error
            /\ conv'[c].verdict = Outcome(conv[c]) /\ conv'[c].status = Outcome(conv[c])
<1>0. StoreType /\ conv[c] \in ConvRows
  BY DEF TypeOK, StoreType
<1>2. ASSUME NEW h \in Handlers, Files(h) PROVE UNCHANGED conv
  BY <1>2 DEF Files, RecordReview
<1> DEFINE Same == /\ conv'[c].dialogue = conv[c].dialogue /\ conv'[c].verdict = conv[c].verdict
                   /\ conv'[c].status = conv[c].status /\ conv'[c].error = conv[c].error
<1>3. ASSUME NEW k \in Keys, ApplyReview(k, config) PROVE Same
  <2>1. conv'[c] = IF c = k.conv THEN [conv[c] EXCEPT !.adjudication = k] ELSE conv[c]
    BY <1>0, <1>3, ApplyFields
  <2> QED
    BY <1>0, <2>1 DEF ConvRows
<1>4. ASSUME NEW e \in Convs, NEW d \in Dialogues \ {Rtc}, NEW s \in SUBSET Sources, ReplaceEvidence(e, d, s)
      PROVE  \/ Same
             \/ /\ conv'[c].dialogue # Rtc /\ conv'[c].error = conv[c].error
                /\ conv'[c].verdict = Outcome(conv[c]) /\ conv'[c].status = Outcome(conv[c])
  <2>1. /\ \A f \in Convs \ {e} : conv'[f] = conv[f]
        /\ conv'[e].dialogue = d /\ conv'[e].error = conv[e].error
        /\ conv'[e].verdict = Outcome(conv[e]) /\ conv'[e].status = Outcome(conv[e])
    BY <1>0, <1>4, ReplaceFields
  <2>2. CASE c = e
    BY <2>1, <2>2
  <2>3. CASE c # e
    BY <2>1, <2>3
  <2> QED
    BY <2>2, <2>3
<1>5. ASSUME NEW e \in Convs, NEW t \in Contracts, PrepareContract(e, t) PROVE Same
  <2>1. conv'[c] = IF c = e THEN [conv[c] EXCEPT !.contract = t] ELSE conv[c]
    BY <1>0, <1>5, PrepareFields
  <2> QED
    BY <1>0, <2>1 DEF ConvRows
<1>6. CASE UNCHANGED storeVars
  BY <1>6 DEF storeVars
<1>7. CASE \E h \in Handlers : Files(h)
  BY <1>2, <1>7
<1> HIDE DEF Same
<1>8. CASE \E k \in Keys : ApplyReview(k, config)
  BY <1>3, <1>8 DEF Same
<1>9. CASE \E e \in Convs, d \in Dialogues \ {Rtc}, s \in SUBSET Sources : ReplaceEvidence(e, d, s)
  BY <1>4, <1>9 DEF Same
<1>10. CASE \E e \in Convs, t \in Contracts : PrepareContract(e, t)
  BY <1>5, <1>10 DEF Same
<1> QED
  BY <1>6, <1>7, <1>8, <1>9, <1>10, StoreMoves

LEMMA SettledStep == ASSUME TypeOK, CallOK, Settled, [Next]_vars PROVE Settled'
<1> SUFFICES ASSUME NEW c \in Convs, conv'[c].dialogue # Rtc
             PROVE  conv'[c].status = conv'[c].verdict /\ conv'[c].verdict = Outcome(conv'[c])
  BY DEF Settled
<1> QED
  BY RowsMove DEF Settled, Outcome

LEMMA AgreesStep ==
  ASSUME TypeOK, CallOK, Settled, [Next]_vars, NEW c \in Convs, NEW d, NEW v, Agrees(c, d, v)
  PROVE  Agrees(c, d, v)'
  BY RowsMove DEF Settled, Agrees

LEMMA OutputAgreesStep ==
  ASSUME TypeOK, CallOK, Settled, [Next]_vars, NEW k \in Keys, NEW fp, NEW o, OutputAgrees(k, fp, o)
  PROVE  OutputAgrees(k, fp, o)'
<1>1. k.conv \in Convs
  BY DEF Keys
<1> QED
  BY <1>1, AgreesStep DEF OutputAgrees

(* What a step does to a row of the admission table. *)
Claims(h, k)  == /\ pc[h] = "claim" /\ call[h].key = k /\ pc'[h] = "judge"
                 /\ requests[k] = NoRow
                 /\ requests'[k] = [status |-> "running", fp |-> call[h].fp, output |-> None]
Retains(h, k) == /\ pc[h] \in {"retain", "finish"} /\ call[h].key = k
                 /\ requests'[k] # NoRow
                 /\ requests'[k].fp = requests[k].fp /\ requests'[k].output = call[h].output
Restates(k)   == /\ requests[k] # NoRow /\ requests'[k] # NoRow
                 /\ requests'[k].fp = requests[k].fp /\ requests'[k].output = requests[k].output

LEMMA RequestMoves ==
  ASSUME TypeOK, CallOK, [Next]_vars, NEW k \in Keys
  PROVE  \/ requests'[k] = requests[k]
         \/ \E h \in Handlers : Claims(h, k) \/ Retains(h, k)
         \/ Restates(k)
<1>0. /\ requests \in [Keys -> RequestRows] /\ pc \in [Handlers -> Steps]
      /\ \A h \in Handlers : pc[h] # "idle" => call[h].key \in Keys
  BY DEF TypeOK, RequestType, CallOK, Calls
<1>a. requests[k] \in RequestRows /\ NoRow.status = "absent"
  BY <1>0 DEF NoRow
<1>1. ASSUME NEW h \in Handlers, ClaimNew(h) PROVE requests'[k] = requests[k] \/ Claims(h, k)
  BY <1>0, <1>1 DEF ClaimNew, Insert, Goto, Claims
<1>2. ASSUME NEW h \in Handlers, ClaimRetry(h) PROVE requests'[k] = requests[k] \/ Restates(k)
  <2>1. CASE Retryable(call[h].key) /\ call[h].key = k
    <3>1. requests'[k] = [requests[k] EXCEPT !.status = "running"]
      BY <1>0, <1>2, <2>1 DEF ClaimRetry, Reopen
    <3> QED
      BY <1>a, <2>1, <3>1 DEF RequestRows, Retryable, Restates
  <2>2. CASE ~Retryable(call[h].key) \/ call[h].key # k
    BY <1>0, <1>2, <2>2 DEF ClaimRetry, Reopen
  <2> QED
    BY <2>1, <2>2
<1>3. ASSUME NEW h \in Handlers, MarkFailed(h) PROVE requests'[k] = requests[k] \/ Restates(k)
  <2>1. CASE requests[k].status = "running" /\ call[h].key = k
    <3>1. requests'[k] = [requests[k] EXCEPT !.status = "failed"]
      BY <1>0, <1>3, <2>1 DEF MarkFailed, Fail
    <3> QED
      BY <1>a, <2>1, <3>1 DEF RequestRows, Restates
  <2>2. CASE requests[k].status # "running" \/ call[h].key # k
    BY <1>0, <1>3, <2>2 DEF MarkFailed, Fail
  <2> QED
    BY <2>1, <2>2
<1>4. ASSUME NEW h \in Handlers, NEW status \in {"judged", "completed"},
             pc[h] \in {"retain", "finish"}, Retain(call[h].key, call[h].output, status)
      PROVE  requests'[k] = requests[k] \/ Retains(h, k)
  <2>1. CASE call[h].key = k
    <3>1. requests'[k] = [requests[k] EXCEPT !.status = status, !.output = call[h].output]
      BY <1>0, <1>4, <2>1 DEF Retain
    <3> QED
      BY <1>a, <1>4, <2>1, <3>1 DEF RequestRows, Retains
  <2>2. CASE call[h].key # k
    BY <1>0, <1>4, <2>2 DEF Retain
  <2> QED
    BY <2>1, <2>2
<1>5. ASSUME NEW h \in Handlers, RetainOutput(h) \/ Finish(h) PROVE requests'[k] = requests[k] \/ Retains(h, k)
  BY <1>4, <1>5 DEF RetainOutput, Finish
<1>6. ASSUME NEW h \in Handlers, HandlerStep(h)
      PROVE  requests'[k] = requests[k] \/ Claims(h, k) \/ Retains(h, k) \/ Restates(k)
  <2>1. CASE ClaimNew(h) \/ ClaimRetry(h) \/ MarkFailed(h) \/ RetainOutput(h) \/ Finish(h)
    BY <1>1, <1>2, <1>3, <1>5, <2>1
  <2>2. CASE ~(ClaimNew(h) \/ ClaimRetry(h) \/ MarkFailed(h) \/ RetainOutput(h) \/ Finish(h))
    BY <1>6, <2>2 DEF HandlerStep, Read, ClaimTaken, Lookup, JudgeReady, JudgeError, RetainError,
       Record, Audit, FinishError
  <2> QED
    BY <2>1, <2>2
<1>7. CASE ~\E h \in Handlers : HandlerStep(h)
  BY <1>7 DEF Next, RefreshRead, RefreshEnd, Apply, SelectContract, Reconfigure, Crash, vars
<1> QED
  BY <1>6, <1>7

(* A row of the table is never taken over by another input. *)
LEMMA RowStays ==
  ASSUME TypeOK, CallOK, [Next]_vars, NEW k \in Keys, requests[k] # NoRow
  PROVE  requests'[k] # NoRow /\ requests'[k].fp = requests[k].fp
  BY RequestMoves DEF Claims, Retains, Restates

LEMMA ReviewMoves ==
  ASSUME TypeOK, CallOK, [Next]_vars, NEW k \in Keys, review'[k] # NoReview
  PROVE  \/ /\ review[k] # NoReview
            /\ review'[k].snap = review[k].snap /\ review'[k].output = review[k].output
         \/ \E h \in Handlers : /\ Files(h) /\ call[h].key = k
                                /\ review'[k].snap = Snapshot(k.conv)
                                /\ review'[k].output = call[h].output
<1>0. StoreType
  BY DEF TypeOK
<1> DEFINE Same == /\ review[k] # NoReview
                   /\ review'[k].snap = review[k].snap /\ review'[k].output = review[k].output
<1>1. CASE UNCHANGED storeVars
  BY <1>1 DEF storeVars
<1>2. ASSUME NEW h \in Handlers, Files(h)
      PROVE  Same \/ (/\ call[h].key = k /\ review'[k].snap = Snapshot(k.conv)
                      /\ review'[k].output = call[h].output)
  <2> DEFINE i == call[h].key
             o == call[h].output
  <2>1. i \in Keys /\ RecordReview(i, o)
    BY <1>2 DEF Files, Calls
  <2> HIDE DEF i, o
  <2>2. /\ review'[i].snap = Snapshot(i.conv) /\ review'[i].output = o
        /\ \A j \in Keys \ {i} : SameReview(j) \/ review'[j] = NoReview
    BY <1>0, <2>1, RecordFields
  <2>3. CASE k = i
    BY <2>2, <2>3 DEF i, o
  <2>4. CASE k # i
    BY <2>2, <2>4 DEF SameReview
  <2> QED
    BY <2>3, <2>4
<1>3. ASSUME NEW i \in Keys, ApplyReview(i, config) PROVE Same
  <2>1. /\ review'[k].snap = review[k].snap
        /\ review'[k].output = review[k].output
        /\ review[k] = NoReview => review'[k] = NoReview
    BY <1>0, <1>3, ApplyFields
  <2> QED
    BY <2>1
<1>4. ASSUME NEW c \in Convs, NEW d \in Dialogues \ {Rtc}, NEW s \in SUBSET Sources, ReplaceEvidence(c, d, s)
      PROVE  Same
  <2>1. /\ review'[k].snap = review[k].snap
        /\ review'[k].output = review[k].output
        /\ review[k] = NoReview => review'[k] = NoReview
    BY <1>0, <1>4, ReplaceFields
  <2> QED
    BY <2>1
<1>5. ASSUME NEW c \in Convs, NEW t \in Contracts, PrepareContract(c, t) PROVE Same
  BY <1>0, <1>5, PrepareFields
<1> HIDE DEF Same
<1>6. Same \/ \E h \in Handlers : /\ Files(h) /\ call[h].key = k /\ review'[k].snap = Snapshot(k.conv)
                                  /\ review'[k].output = call[h].output
  <2>1. CASE UNCHANGED storeVars
    BY <1>1, <2>1 DEF Same
  <2>2. CASE \E h \in Handlers : Files(h)
    BY <1>2, <2>2
  <2>3. CASE \E i \in Keys : ApplyReview(i, config)
    BY <1>3, <2>3
  <2> QED
    BY <1>4, <1>5, <2>1, <2>2, <2>3, StoreMoves
<1> QED
  BY <1>6 DEF Same

LEMMA RowsAgreeStep ==
  ASSUME TypeOK, CallOK, Matching, [Next]_vars
  PROVE  RowsAgree'
<1> SUFFICES ASSUME NEW k \in Keys, requests'[k].output # None
             PROVE  OutputAgrees(k, requests[k].fp, requests[k].output)'
  BY DEF RowsAgree
<1>1. ASSUME requests[k].output # None, requests'[k].fp = requests[k].fp,
             requests'[k].output = requests[k].output
      PROVE  OutputAgrees(k, requests[k].fp, requests[k].output)'
  <2>1. PICK fp, o : fp = requests[k].fp /\ o = requests[k].output
    OBVIOUS
  <2>2. OutputAgrees(k, fp, o)
    BY <1>1, <2>1 DEF Matching, RowsAgree
  <2>3. OutputAgrees(k, fp, o)'
    BY <2>2, OutputAgreesStep DEF Matching
  <2> QED
    BY <1>1, <2>1, <2>3 DEF OutputAgrees, Agrees
<1>2. ASSUME NEW h \in Handlers, Retains(h, k)
      PROVE  OutputAgrees(k, requests[k].fp, requests[k].output)'
  <2>1. PICK fp, o : fp = call[h].fp /\ o = call[h].output
    OBVIOUS
  <2>2. CallAgrees(h)
    BY <1>2 DEF Retains, Matching
  <2>3. OutputAgrees(k, fp, o) /\ requests[k].fp = fp
    BY <1>2, <2>1, <2>2 DEF Retains, CallAgrees
  <2>4. OutputAgrees(k, fp, o)'
    BY <2>3, OutputAgreesStep DEF Matching
  <2> QED
    BY <1>2, <2>1, <2>3, <2>4 DEF OutputAgrees, Agrees, Retains
<1>3. ASSUME NEW h \in Handlers, Claims(h, k) PROVE FALSE
  BY <1>3 DEF Claims
<1> QED
  BY <1>1, <1>2, <1>3, RequestMoves DEF Restates

(* The review filed by a handler: the evidence it read is still there. *)
LEMMA EvidenceStep ==
  ASSUME TypeOK, CallOK, Matching, [Next]_vars
  PROVE  ReviewMatchesEvidence'
<1> SUFFICES ASSUME NEW k \in Keys, review'[k] # NoReview
             PROVE  /\ review'[k].output.fp.judged = [dialogue |-> review'[k].snap.dialogue,
                                                      contract |-> review'[k].snap.contract]
                    /\ review'[k].output.base = review'[k].snap.verdict
                    /\ k.id \in Fingerprints => review'[k].output.fp = k.id
  BY DEF ReviewMatchesEvidence
<1>1. CASE /\ review[k] # NoReview
           /\ review'[k].snap = review[k].snap /\ review'[k].output = review[k].output
  BY <1>1 DEF Matching, ReviewMatchesEvidence
<1>2. ASSUME NEW h \in Handlers, Files(h), call[h].key = k,
             review'[k].snap = Snapshot(k.conv), review'[k].output = call[h].output
      PROVE  /\ review'[k].output.fp.judged = [dialogue |-> review'[k].snap.dialogue,
                                               contract |-> review'[k].snap.contract]
             /\ review'[k].output.base = review'[k].snap.verdict
             /\ k.id \in Fingerprints => review'[k].output.fp = k.id
  <2>1. CallAgrees(h) /\ pc[h] = "record" /\ call[h].snap = Snapshot(k.conv)
    BY <1>2 DEF Files, Recordable, Matching
  <2>2. OutputAgrees(k, call[h].fp, call[h].output)
    BY <1>2, <2>1 DEF CallAgrees
  <2>3. call[h].fp.judged = [dialogue |-> call[h].snap.dialogue, contract |-> call[h].snap.contract]
    BY <2>1 DEF CallAgrees
  <2>4. k.id \in Fingerprints => k.id = call[h].fp
    BY <1>2, <2>1 DEF CallAgrees
  <2>5. /\ call[h].snap.dialogue = conv[k.conv].dialogue
        /\ call[h].snap.verdict = conv[k.conv].verdict
    BY <2>1 DEF Snapshot
  <2>6. call[h].output.base = conv[k.conv].verdict
    BY <2>2, <2>3, <2>5 DEF OutputAgrees, Agrees
  <2> QED
    BY <1>2, <2>1, <2>2, <2>3, <2>4, <2>5, <2>6 DEF OutputAgrees
<1> QED
  BY <1>1, <1>2, ReviewMoves

(* What a handler holds stays true while it does not move. *)
LEMMA HeldAgrees ==
  ASSUME TypeOK, CallOK, Matching, [Next]_vars, NEW h \in Handlers, pc[h] # "idle",
         call'[h] = call[h],
         pc'[h] \in {"retain", "record", "audit", "finish"} =>
           pc[h] \in {"retain", "record", "audit", "finish"},
         pc'[h] \in {"reopen", "judge", "fail", "retain", "record", "audit", "finish"} =>
           /\ requests'[call[h].key] # NoRow
           /\ requests'[call[h].key].fp = call[h].fp
  PROVE  CallAgrees(h)'
<1> DEFINE b == call[h]
<1>1. CallAgrees(h) /\ b.key \in Keys /\ b.key.conv \in Convs
  BY DEF Matching, CallOK, Calls, Keys
<1>2. PICK k, fp, snap, o : k = b.key /\ fp = b.fp /\ snap = b.snap /\ o = b.output
  OBVIOUS
<1>3. Agrees(k.conv, snap.dialogue, snap.verdict)'
  <2>1. Agrees(k.conv, snap.dialogue, snap.verdict)
    BY <1>1, <1>2 DEF CallAgrees
  <2> QED
    BY <1>1, <1>2, <2>1, AgreesStep DEF Matching
<1>4. pc'[h] \in {"retain", "record", "audit", "finish"} => OutputAgrees(k, fp, o)'
  <2>1. pc'[h] \in {"retain", "record", "audit", "finish"} => OutputAgrees(k, fp, o)
    BY <1>1, <1>2 DEF CallAgrees
  <2> QED
    BY <1>1, <1>2, <2>1, OutputAgreesStep DEF Matching
<1> QED
  BY <1>1, <1>2, <1>3, <1>4 DEF CallAgrees, OutputAgrees, Agrees

Keeping == {"retain", "record", "audit", "finish"}      \* steps that hold an output
Owning  == {"reopen", "judge", "fail"} \cup Keeping      \* steps that hold a row

LEMMA CallStep ==
  ASSUME TypeOK, CallOK, Matching, [Next]_vars, NEW h \in Handlers, pc'[h] # "idle"
  PROVE  CallAgrees(h)'
<1>0. /\ pc \in [Handlers -> Steps] /\ call \in [Handlers -> Calls \cup {NoCall}]
      /\ StoreType /\ config \in Configs /\ requests \in [Keys -> RequestRows]
  BY DEF TypeOK, RequestType
(* The handler holds the row it held before, if it held one. *)
<1>a. ASSUME pc[h] # "idle", call'[h] = call[h], pc'[h] \in Keeping => pc[h] \in Keeping,
             pc'[h] \in Owning => pc[h] \in Owning
      PROVE  CallAgrees(h)'
  <2>1. CallAgrees(h) /\ call[h].key \in Keys
    BY <1>a DEF Matching, CallOK, Calls
  <2>2. pc[h] \in Owning => requests[call[h].key] # NoRow /\ requests[call[h].key].fp = call[h].fp
    BY <2>1 DEF CallAgrees, Owning, Keeping
  <2>3. pc[h] \in Owning => requests'[call[h].key] # NoRow /\ requests'[call[h].key].fp = call[h].fp
    BY <2>1, <2>2, RowStays
  <2> QED
    BY <1>a, <2>3, HeldAgrees DEF Owning, Keeping
<1>1. CASE pc'[h] = pc[h] /\ call'[h] = call[h]
  BY <1>1, <1>a
<1>2. CASE Crash
  <2>1. pc[h] # "idle" /\ pc'[h] = "done" /\ call'[h] = call[h]
    BY <1>0, <1>2 DEF Crash
  <2> QED
    BY <1>a, <2>1 DEF Owning, Keeping
<1>3. ASSUME NEW c \in Convs, NEW id \in RequestIds \cup {None}, Read(h, c, id)
      PROVE  CallAgrees(h)'
  <2> DEFINE fp == Fingerprint(c, config)
  <2>1. /\ pc'[h] = "claim" /\ UNCHANGED conv
        /\ call'[h] = [key |-> KeyFor(c, id, fp), fp |-> fp, snap |-> Snapshot(c), output |-> None]
    BY <1>0, <1>3 DEF Read, Goto
  <2>2. fp \in Fingerprints
    BY <1>0, <1>3, FingerprintType DEF Read
  <2>3. /\ KeyFor(c, id, fp).conv = c
        /\ KeyFor(c, id, fp).id \in Fingerprints => KeyFor(c, id, fp).id = fp
    BY <2>2, RequestAssumption DEF KeyFor
  <2>4. fp.judged = [dialogue |-> conv[c].dialogue, contract |-> conv[c].contract]
    BY DEF Fingerprint
  <2>5. /\ Snapshot(c).dialogue = conv[c].dialogue /\ Snapshot(c).verdict = conv[c].verdict
        /\ Snapshot(c).contract = conv[c].contract
    BY DEF Snapshot
  <2> HIDE DEF fp
  <2> QED
    BY <2>1, <2>3, <2>4, <2>5 DEF CallAgrees, Agrees
<1>4. ASSUME ClaimNew(h) PROVE CallAgrees(h)'
  <2> DEFINE k == call[h].key
  <2>1. pc[h] = "claim" /\ pc'[h] = "judge" /\ call'[h] = call[h] /\ k \in Keys
    BY <1>0, <1>4 DEF ClaimNew, Goto, CallOK, Calls
  <2>2. requests'[k] = [status |-> "running", fp |-> call[h].fp, output |-> None]
    BY <1>0, <1>4, <2>1 DEF ClaimNew, Insert
  <2>3. requests'[k] # NoRow /\ requests'[k].fp = call[h].fp
    BY <2>2 DEF NoRow
  <2> QED
    BY <2>1, <2>3, HeldAgrees
<1>5. ASSUME Lookup(h) PROVE CallAgrees(h)'
  <2> DEFINE k == call[h].key
  <2>0. pc[h] = "lookup" /\ k \in Keys /\ CallAgrees(h) /\ requests' = requests /\ conv' = conv
    BY <1>0, <1>5 DEF Lookup, CallOK, Calls, Matching
  <2>1. CASE Conflicting(k, call[h].fp)
    <3>1. pc'[h] = "done" /\ call'[h] = call[h]
      BY <1>0, <1>5, <2>1 DEF Lookup, Goto
    <3> QED
      BY <1>a, <2>0, <3>1 DEF Owning, Keeping
  <2>2. CASE ~Conflicting(k, call[h].fp) /\ Retained(k)
    <3>1. pc'[h] = "record" /\ call'[h] = [call[h] EXCEPT !.output = requests[k].output]
      BY <1>0, <1>5, <2>2 DEF Lookup, Goto
    <3>2. call[h] \in Calls
      BY <2>0 DEF CallOK
    <3>3. /\ call'[h].key = k /\ call'[h].fp = call[h].fp /\ call'[h].snap = call[h].snap
          /\ call'[h].output = requests[k].output
      BY <3>1, <3>2 DEF Calls
    <3>4. OutputAgrees(k, call[h].fp, requests[k].output) /\ requests[k] # NoRow
                                                         /\ requests[k].fp = call[h].fp
      BY <2>0, <2>2 DEF Conflicting, Retained, Matching, RowsAgree, NoRow
    <3> QED
      BY <2>0, <3>1, <3>3, <3>4 DEF CallAgrees, OutputAgrees, Agrees
  <2>3. CASE ~Conflicting(k, call[h].fp) /\ ~Retained(k) /\ Retryable(k)
    <3>1. pc'[h] = "reopen" /\ call'[h] = call[h]
      BY <1>0, <1>5, <2>3 DEF Lookup, Goto
    <3>2. requests'[k] # NoRow /\ requests'[k].fp = call[h].fp
      BY <2>0, <2>3 DEF Conflicting, Retryable, NoRow
    <3> QED
      BY <2>0, <3>1, <3>2, HeldAgrees
  <2>4. CASE ~Conflicting(k, call[h].fp) /\ ~Retained(k) /\ ~Retryable(k)
    <3>1. pc'[h] = "done" /\ call'[h] = call[h]
      BY <1>0, <1>5, <2>4 DEF Lookup, Goto
    <3> QED
      BY <1>a, <2>0, <3>1 DEF Owning, Keeping
  <2> QED
    BY <2>1, <2>2, <2>3, <2>4
<1>6. ASSUME JudgeReady(h) PROVE CallAgrees(h)'
  <2> DEFINE b == call[h]
  <2>0. pc[h] = "judge" /\ b \in Calls /\ CallAgrees(h) /\ requests' = requests /\ conv' = conv
    BY <1>0, <1>6 DEF JudgeReady, CallOK, Matching
  <2>1. PICK p \in Proposals(h) :
          call' = [call EXCEPT ![h].output = [fp |-> b.fp, base |-> b.snap.verdict, proposal |-> p]]
    BY <1>6 DEF JudgeReady
  <2> DEFINE o == [fp |-> b.fp, base |-> b.snap.verdict, proposal |-> p]
  <2>2. call'[h] = [b EXCEPT !.output = o]
    BY <1>0, <2>1
  <2>3. o.fp = b.fp /\ o.base = b.snap.verdict
    OBVIOUS
  <2> HIDE DEF o
  <2>4. call'[h].key = b.key /\ call'[h].fp = b.fp /\ call'[h].snap = b.snap /\ call'[h].output = o
    BY <2>0, <2>2 DEF Calls
  <2>5. b.fp.judged.dialogue = b.snap.dialogue
    BY <2>0 DEF CallAgrees
  <2> QED
    BY <2>0, <2>3, <2>4, <2>5 DEF CallAgrees, OutputAgrees, Agrees
<1>7. ASSUME \/ ClaimTaken(h) \/ ClaimRetry(h) \/ JudgeError(h) \/ MarkFailed(h)
             \/ RetainOutput(h) \/ RetainError(h) \/ Record(h) \/ Audit(h) \/ Finish(h) \/ FinishError(h)
      PROVE  CallAgrees(h)'
  <2>1. pc[h] # "idle" /\ call'[h] = call[h]
    BY <1>7 DEF ClaimTaken, ClaimRetry, JudgeError, MarkFailed, RetainOutput, RetainError, Record,
       Audit, Finish, FinishError
  <2>2. /\ pc'[h] \in Keeping => pc[h] \in Keeping
        /\ pc'[h] \in Owning => pc[h] \in Owning
    BY <1>0, <1>7 DEF ClaimTaken, ClaimRetry, JudgeError, MarkFailed, RetainOutput, RetainError, Record,
       Audit, Finish, FinishError, Goto, Owning, Keeping
  <2> QED
    BY <1>a, <2>1, <2>2
<1>8. ASSUME NEW g \in Handlers, g # h, HandlerStep(g) PROVE pc'[h] = pc[h] /\ call'[h] = call[h]
  BY <1>0, <1>8 DEF HandlerStep, Read, ClaimNew, ClaimTaken, Lookup, ClaimRetry, JudgeReady, JudgeError,
     MarkFailed, RetainOutput, RetainError, Record, Audit, Finish, FinishError, Goto
<1>9. CASE HandlerStep(h)
  BY <1>3, <1>4, <1>5, <1>6, <1>7, <1>9 DEF HandlerStep
<1>10. CASE ~Crash /\ ~\E g \in Handlers : HandlerStep(g)
  BY <1>1, <1>10 DEF Next, RefreshRead, RefreshEnd, Apply, SelectContract, Reconfigure, vars
<1> QED
  BY <1>1, <1>2, <1>8, <1>9, <1>10

LEMMA MatchingAlways == Spec => []Matching
<1>1. TypeOK /\ CallOK /\ Matching /\ [Next]_vars => Matching'
  <2> SUFFICES ASSUME TypeOK, CallOK, Matching, [Next]_vars PROVE Matching'
    OBVIOUS
  <2>1. Settled'
    BY SettledStep DEF Matching
  <2>2. RowsAgree' /\ ReviewMatchesEvidence'
    BY RowsAgreeStep, EvidenceStep
  <2>3. \A h \in Handlers : pc'[h] # "idle" => CallAgrees(h)'
    BY CallStep
  <2> QED
    BY <2>1, <2>2, <2>3 DEF Matching
<1> QED
  BY <1>1, MatchingInit, TypesAlways, PTL DEF Spec

(* A saved review was computed from the evidence, contract and automatic
   verdict it is filed against, however late its output arrived and however
   often the evidence was refreshed in between.                             *)
THEOREM ReviewMatchesEvidenceHolds == Spec => []ReviewMatchesEvidence
<1>1. Matching => ReviewMatchesEvidence
  BY DEF Matching
<1> QED
  BY <1>1, MatchingAlways, PTL
=============================================================================
