---------------------------- MODULE Calls_proofs ----------------------------
(***************************************************************************)
(* Theorems about the calls of a run, for all their constants: what the    *)
(* listeners of a monitored call hear (LiveAudioMonitor), and what the     *)
(* recogniser makes of a spoken turn (SpeechTurns).                        *)
(***************************************************************************)
EXTENDS LiveAudioMonitor, SpeechTurns, FiniteSetTheorems, TLAPS

(* The live monitor.  The frames heard, those being posted, those of the waiting
   batches and the pending ones follow each other without a hole.           *)
Follows(s, n) == \A k \in DOMAIN s : s[k] = n + (k - 1)

(* The first frame that is neither heard nor being posted. *)
Due == IF sender = "posting" THEN Len(heard) + Len(batch) + 1 ELSE Len(heard) + 1

(* The first frame behind the waiting batches. *)
QueueEnd == IF queue = <<>> THEN Due ELSE queue[Len(queue)][1] + Len(queue[Len(queue)])

InOrder ==
  /\ \A i \in DOMAIN queue : /\ Len(queue[i]) > 0 /\ Follows(queue[i], queue[i][1])
                             /\ queue[i][1] + Len(queue[i]) <= rendered + 1
  /\ queue # <<>> => queue[1][1] = Due
  /\ \A i \in 1..(Len(queue) - 1) : queue[i + 1][1] = queue[i][1] + Len(queue[i])

Enqueued(f) == f \in Range(pending) \/ \E i \in DOMAIN queue : f \in Range(queue[i])

HeardOK ==
  /\ Follows(heard, 1) /\ Len(heard) <= rendered
  /\ sender = "posting" => Follows(batch, Len(heard) + 1) /\ Len(heard) + Len(batch) <= rendered

(* A sender that was not cancelled takes the batches in order, and while nothing
   has failed they lack no frame.                                           *)
WaitOK ==
  /\ Sends /\ (~cancelled \/ ~failed) => InOrder
  /\ Sends /\ ~failed => /\ Follows(pending, QueueEnd) /\ QueueEnd + Len(pending) = rendered + 1
                         /\ \A f \in Due..rendered : Enqueued(f)

(* Where nothing has failed, the sender is stopped when it has sent all. *)
PhaseOK ==
  /\ cancelled => sender \notin {"none", "ended"}
  /\ call = "opening" => sender = "none" /\ ~failed /\ rendered = 0 /\ Len(heard) = 0
                         /\ queue = <<>> /\ pending = <<>>
  /\ ~failed /\ (cancelled \/ sender \in {"closing", "ended"}) => call \in {"stopping", "done"}
  /\ call = "join" /\ ~failed => pending = <<>> /\ sender # "none"
  /\ call \in {"stop", "stopping", "done"} /\ ~failed /\ sender # "none" =>
       /\ queue = <<>> /\ pending = <<>> /\ Len(heard) = rendered
       /\ sender \notin {"posting", "answered"}
  /\ status # "none" => call = "done"
  /\ status = "published" => ~failed /\ sender = "ended"

MonitorInv == MonitorTypeOK /\ HeardOK /\ WaitOK /\ PhaseOK

LEMMA MonitorInvInit == MonitorInit => MonitorInv
<1> SUFFICES ASSUME MonitorInit PROVE MonitorInv
  OBVIOUS
<1>1. MonitorTypeOK
  <2>1. 0 < BatchFrames /\ 0 <= QueueSize /\ 0 \in 0..MaxFrames
    BY MonitorAssumption
  <2>2. /\ <<>> \in Seq(1..MaxFrames) /\ <<>> \in Seq(Seq(1..MaxFrames)) /\ Len(<<>>) = 0
    OBVIOUS
  <2> QED
    BY <2>1, <2>2 DEF MonitorInit, MonitorTypeOK
<1> QED
  BY <1>1 DEF MonitorInit, MonitorInv, HeardOK, WaitOK, PhaseOK, Follows, Sends

LEMMA EndIsNat == ASSUME MonitorInv, InOrder PROVE Due \in Nat /\ QueueEnd \in Nat
<1>1. /\ queue \in Seq(Seq(1..MaxFrames)) /\ heard \in Seq(1..MaxFrames) /\ batch \in Seq(1..MaxFrames)
      /\ MaxFrames \in Nat
  BY MonitorAssumption DEF MonitorInv, MonitorTypeOK
<1>2. Due \in Nat
  BY <1>1 DEF Due
<1>3. CASE queue = <<>>
  BY <1>2, <1>3 DEF QueueEnd
<1>4. CASE queue # <<>>
  <2>1. Len(queue) \in DOMAIN queue
    BY <1>1, <1>4
  <2>2. queue[Len(queue)] \in Seq(1..MaxFrames) /\ Len(queue[Len(queue)]) > 0
    BY <1>1, <2>1 DEF InOrder
  <2>3. queue[Len(queue)][1] \in Nat /\ Len(queue[Len(queue)]) \in Nat
    BY <1>1, <2>2
  <2> QED
    BY <1>2, <1>4, <2>3 DEF QueueEnd
<1> QED
  BY <1>2, <1>3, <1>4

(* A batch joins the queue. *)
LEMMA AppendStep ==
  ASSUME MonitorInv, InOrder, NEW p \in Seq(1..MaxFrames), Len(p) > 0, Follows(p, QueueEnd),
         QueueEnd + Len(p) <= rendered' + 1, rendered <= rendered', rendered' \in Nat,
         queue' = Append(queue, p), UNCHANGED <<heard, sender, batch>>
  PROVE  /\ InOrder' /\ QueueEnd' = QueueEnd + Len(p) /\ Due' = Due
         /\ queue' \in Seq(Seq(1..MaxFrames)) /\ Len(queue') = Len(queue) + 1
         /\ \A f : (\E i \in DOMAIN queue : f \in Range(queue[i])) \/ f \in Range(p)
                   => \E i \in DOMAIN queue' : f \in Range(queue'[i])
<1>1. queue \in Seq(Seq(1..MaxFrames)) /\ heard \in Seq(1..MaxFrames) /\ batch \in Seq(1..MaxFrames)
  BY DEF MonitorInv, MonitorTypeOK
<1>2. /\ queue' \in Seq(Seq(1..MaxFrames)) /\ Len(queue') = Len(queue) + 1 /\ queue' # <<>>
      /\ DOMAIN queue' = 1..(Len(queue) + 1) /\ DOMAIN queue = 1..Len(queue)
      /\ queue'[Len(queue) + 1] = p /\ \A i \in 1..Len(queue) : queue'[i] = queue[i]
  <2>1. /\ queue' \in Seq(Seq(1..MaxFrames)) /\ Len(queue') = Len(queue) + 1
        /\ queue'[Len(queue) + 1] = p /\ \A i \in 1..Len(queue) : queue'[i] = queue[i]
    BY <1>1
  <2> QED
    BY SMTT(30), <1>1, <2>1
<1>3. Due' = Due /\ Due \in Nat
  BY <1>1 DEF Due
<1>q. QueueEnd \in Nat
  BY EndIsNat
<1>4. p[1] = QueueEnd /\ p[1] \in Nat /\ MaxFrames \in Nat
  <2>1. 1 \in DOMAIN p
    OBVIOUS
  <2>2. p[1] = QueueEnd + (1 - 1)
    BY <2>1 DEF Follows
  <2> QED
    BY <1>q, <2>2, MonitorAssumption
<1>5. Follows(p, p[1])
  BY <1>4 DEF Follows
<1>6. InOrder'
  <2>1. ASSUME NEW i \in DOMAIN queue'
        PROVE  /\ Len(queue'[i]) > 0 /\ Follows(queue'[i], queue'[i][1])
               /\ queue'[i][1] + Len(queue'[i]) <= rendered' + 1
    <3>1. CASE i \in 1..Len(queue)
      <4>1. /\ Len(queue[i]) > 0 /\ Follows(queue[i], queue[i][1])
            /\ queue[i][1] + Len(queue[i]) <= rendered + 1
        BY <1>2, <3>1 DEF InOrder
      <4>2. queue[i] \in Seq(1..MaxFrames) /\ rendered \in Nat
        BY SMTT(30), <1>1, <3>1, MonitorAssumption DEF MonitorInv, MonitorTypeOK
      <4>3. queue[i][1] \in Nat
        BY SMTT(30), <4>1, <4>2, MonitorAssumption
      <4> QED
        BY SMTT(30), <1>2, <3>1, <4>1, <4>2, <4>3
    <3>2. CASE i = Len(queue) + 1
      BY <1>2, <1>4, <1>5, <3>2
    <3> QED
      BY <1>1, <1>2, <2>1, <3>1, <3>2
  <2>2. queue'[1][1] = Due'
    <3>1. CASE queue = <<>>
      BY <1>2, <1>3, <1>4, <3>1 DEF QueueEnd
    <3>2. CASE queue # <<>>
      <4>1. 1 \in 1..Len(queue)
        BY <1>1, <3>2
      <4> QED
        BY <1>2, <1>3, <3>2, <4>1 DEF InOrder
    <3> QED
      BY <3>1, <3>2
  <2>3. ASSUME NEW i \in 1..(Len(queue') - 1)
        PROVE  queue'[i + 1][1] = queue'[i][1] + Len(queue'[i])
    <3>0. i \in 1..Len(queue) /\ Len(queue) \in Nat
      BY <1>1, <1>2
    <3>1. CASE i = Len(queue)
      <4>1. queue # <<>>
        BY <1>1, <3>0
      <4> QED
        BY <1>2, <1>4, <3>0, <3>1, <4>1 DEF QueueEnd
    <3>2. CASE i # Len(queue)
      <4>1. i \in 1..(Len(queue) - 1) /\ i + 1 \in 1..Len(queue)
        BY <3>0, <3>2
      <4> QED
        BY <1>2, <3>0, <4>1 DEF InOrder
    <3> QED
      BY <3>1, <3>2
  <2> QED
    BY <2>1, <2>2, <2>3 DEF InOrder
<1>7. QueueEnd' = QueueEnd + Len(p)
  BY <1>2, <1>4 DEF QueueEnd
<1>8. ASSUME NEW f, (\E i \in DOMAIN queue : f \in Range(queue[i])) \/ f \in Range(p)
      PROVE  \E i \in DOMAIN queue' : f \in Range(queue'[i])
  <2>1. Len(queue) + 1 \in DOMAIN queue' /\ \A i \in DOMAIN queue : i \in DOMAIN queue'
    BY <1>1, <1>2
  <2> QED
    BY <1>2, <1>8, <2>1
<1> QED
  BY <1>2, <1>3, <1>6, <1>7, <1>8

(* A frame is rendered. *)
LEMMA RenderStep ==
  ASSUME MonitorInv, Render, call \in {"on", "tail"},
         UNCHANGED <<call, sender, batch, bus, heard, status, cutOff>>, pump' \in BOOLEAN
  PROVE  MonitorInv'
<1> DEFINE p == Append(pending, rendered')
<1>1. /\ pending \in Seq(1..MaxFrames) /\ Len(pending) < BatchFrames /\ rendered \in 0..MaxFrames
      /\ queue \in Seq(Seq(1..MaxFrames)) /\ Len(queue) <= QueueSize /\ heard \in Seq(1..MaxFrames)
      /\ batch \in Seq(1..MaxFrames)
      /\ MaxFrames \in Nat /\ BatchFrames \in Nat \ {0} /\ QueueSize \in Nat \ {0}
  BY MonitorAssumption DEF MonitorInv, MonitorTypeOK
<1>2. rendered' = rendered + 1 /\ rendered' \in 0..MaxFrames /\ rendered' \in 1..MaxFrames
  BY <1>1 DEF Render
<1>3. /\ p \in Seq(1..MaxFrames) /\ Len(p) = Len(pending) + 1 /\ p[Len(pending) + 1] = rendered'
      /\ \A k \in 1..Len(pending) : p[k] = pending[k]
      /\ DOMAIN p = 1..(Len(pending) + 1) /\ DOMAIN pending = 1..Len(pending)
  BY <1>1, <1>2
<1>4. HeardOK' /\ Due' = Due /\ Due \in Nat /\ Len(heard) <= rendered
  BY <1>1, <1>2 DEF MonitorInv, HeardOK, Follows, Due
<1>5. InOrder /\ queue' = queue => InOrder' /\ QueueEnd' = QueueEnd
  <2> SUFFICES ASSUME InOrder, queue' = queue PROVE InOrder' /\ QueueEnd' = QueueEnd
    OBVIOUS
  <2>1. ASSUME NEW i \in DOMAIN queue PROVE queue[i][1] + Len(queue[i]) <= rendered' + 1
    <3>1. queue[i] \in Seq(1..MaxFrames) /\ Len(queue[i]) > 0 /\ queue[i][1] + Len(queue[i]) <= rendered + 1
      BY <1>1 DEF InOrder
    <3>2. queue[i][1] \in Nat
      BY SMTT(30), <1>1, <3>1
    <3> QED
      BY SMTT(30), <1>1, <1>2, <3>1, <3>2
  <2> QED
    BY <1>4, <2>1 DEF InOrder, QueueEnd
<1>7. CASE ~(Sends /\ ~failed)
  <2>1. UNCHANGED <<pending, queue, failed, cancelled>>
    BY <1>7 DEF Render
  <2>2. MonitorTypeOK'
    BY <1>2, <2>1 DEF MonitorInv, MonitorTypeOK
  <2>3. PhaseOK' /\ WaitOK'
    BY <1>5, <1>7, <2>1 DEF MonitorInv, PhaseOK, WaitOK, Sends
  <2> QED
    BY <1>4, <2>2, <2>3 DEF MonitorInv
<1>8. CASE Sends /\ ~failed
  <2>1. /\ InOrder /\ Follows(pending, QueueEnd) /\ QueueEnd + Len(pending) = rendered + 1
        /\ \A f \in Due..rendered : Enqueued(f)
    BY <1>8 DEF MonitorInv, WaitOK
  <2>2. QueueEnd \in Nat
    BY <2>1, EndIsNat
  <2>3. Follows(p, QueueEnd) /\ QueueEnd + Len(p) = rendered' + 1
    <3>1. ASSUME NEW k \in DOMAIN p PROVE p[k] = QueueEnd + (k - 1)
      <4>1. CASE k \in 1..Len(pending)
        BY <1>3, <2>1, <4>1 DEF Follows
      <4>2. CASE k = Len(pending) + 1
        BY <1>1, <1>2, <1>3, <2>1, <2>2, <4>2
      <4> QED
        BY <1>1, <1>3, <4>1, <4>2
    <3> QED
      BY <1>1, <1>2, <1>3, <2>1, <2>2, <3>1 DEF Follows
  <2>4. rendered' \in Range(p) /\ \A f \in Range(pending) : f \in Range(p)
    <3> HIDE DEF p
    <3>1. Len(pending) + 1 \in DOMAIN p /\ \A k \in DOMAIN pending : k \in DOMAIN p /\ p[k] = pending[k]
      BY <1>1, <1>3
    <3> QED
      BY <1>3, <3>1 DEF Range
  <2>5. \A f \in Due..rendered' : f \in Range(p) \/ \E i \in DOMAIN queue : f \in Range(queue[i])
    <3>1. \A f \in Due..rendered' : f \in Due..rendered \/ f = rendered'
      BY <1>1, <1>2, <1>4
    <3> QED
      BY <2>1, <2>4, <3>1 DEF Enqueued
  <2>6. QueueOrFail(p)
    BY <1>8 DEF Render
  <2> HIDE DEF p
  <2>7. CASE Len(p) < BatchFrames
    <3>1. pending' = p /\ UNCHANGED <<queue, failed, cancelled>>
      BY <2>6, <2>7 DEF QueueOrFail
    <3>2. MonitorTypeOK'
      BY <1>2, <1>3, <2>7, <3>1 DEF MonitorInv, MonitorTypeOK
    <3>3. WaitOK'
      BY <1>4, <1>5, <2>1, <2>3, <2>5, <3>1 DEF WaitOK, Enqueued, Sends
    <3>4. PhaseOK'
      BY <3>1 DEF MonitorInv, PhaseOK
    <3> QED
      BY <1>4, <3>2, <3>3, <3>4 DEF MonitorInv
  <2>8. CASE ~(Len(p) < BatchFrames) /\ Len(queue) < QueueSize
    <3>1. pending' = <<>> /\ queue' = Append(queue, p) /\ UNCHANGED <<failed, cancelled>>
      BY <2>6, <2>8 DEF QueueOrFail
    <3>2. /\ InOrder' /\ QueueEnd' = QueueEnd + Len(p) /\ Due' = Due
          /\ queue' \in Seq(Seq(1..MaxFrames)) /\ Len(queue') = Len(queue) + 1
          /\ \A f : (\E i \in DOMAIN queue : f \in Range(queue[i])) \/ f \in Range(p)
                    => \E i \in DOMAIN queue' : f \in Range(queue'[i])
      <4>1. Len(p) > 0 /\ QueueEnd + Len(p) <= rendered' + 1 /\ rendered <= rendered' /\ rendered' \in Nat
        BY <1>1, <1>2, <1>3, <2>2, <2>3
      <4> QED
        BY <1>3, <2>1, <2>3, <3>1, <4>1, AppendStep
    <3>3. MonitorTypeOK'
      BY <1>1, <1>2, <2>8, <3>1, <3>2 DEF MonitorInv, MonitorTypeOK
    <3>4. Follows(pending', QueueEnd') /\ QueueEnd' + Len(pending') = rendered' + 1
      BY <2>2, <2>3, <1>1, <1>3, <3>1, <3>2 DEF Follows
    <3>5. WaitOK'
      BY <2>5, <3>2, <3>4 DEF WaitOK, Enqueued
    <3>6. PhaseOK'
      BY <3>1 DEF MonitorInv, PhaseOK
    <3> QED
      BY <1>4, <3>3, <3>5, <3>6 DEF MonitorInv
  <2>9. CASE ~(Len(p) < BatchFrames) /\ ~(Len(queue) < QueueSize)
    <3>1. /\ pending' = <<>> /\ queue' = queue /\ failed' = TRUE
          /\ cancelled' = (sender \notin {"none", "ended"})
      BY <2>6, <2>9 DEF QueueOrFail, CancelSender
    <3>2. MonitorTypeOK'
      BY <1>1, <1>2, <3>1 DEF MonitorInv, MonitorTypeOK
    <3>3. WaitOK' /\ PhaseOK'
      BY <1>8, <3>1 DEF MonitorInv, WaitOK, PhaseOK, Sends
    <3> QED
      BY <1>4, <3>2, <3>3 DEF MonitorInv
  <2> QED
    BY <2>7, <2>8, <2>9
<1> QED
  BY <1>7, <1>8

(* The sender takes the first batch, whose frames are the next. *)
LEMMA TakeStep == ASSUME MonitorInv, TakeBatch PROVE MonitorInv'
<1>1. /\ sender = "idle" /\ ~cancelled /\ queue # <<>> /\ batch' = Head(queue) /\ queue' = Tail(queue)
      /\ sender' = "posting" /\ InOrder
      /\ UNCHANGED <<call, pump, cancelled, failed, rendered, pending, bus, heard, status, cutOff>>
  BY DEF TakeBatch, MonitorInv, WaitOK, Sends
<1>2. /\ queue \in Seq(Seq(1..MaxFrames)) /\ Len(queue) <= QueueSize /\ heard \in Seq(1..MaxFrames)
      /\ rendered \in Nat /\ MaxFrames \in Nat /\ QueueSize \in Nat
  BY MonitorAssumption DEF MonitorInv, MonitorTypeOK
<1>3. /\ batch' = queue[1] /\ batch' \in Seq(1..MaxFrames) /\ queue' \in Seq(Seq(1..MaxFrames))
      /\ Len(queue') = Len(queue) - 1 /\ Len(queue) >= 1
      /\ DOMAIN queue' = 1..(Len(queue) - 1) /\ DOMAIN queue = 1..Len(queue)
      /\ \A i \in 1..(Len(queue) - 1) : queue'[i] = queue[i + 1]
  BY <1>1, <1>2
<1>4. /\ queue[1][1] = Len(heard) + 1 /\ Len(batch') > 0 /\ Follows(batch', Len(heard) + 1)
      /\ Len(heard) + Len(batch') <= rendered /\ Len(batch') \in Nat /\ Len(heard) \in Nat
  <2>1. 1 \in DOMAIN queue
    BY <1>2, <1>3
  <2>2. Due = Len(heard) + 1 /\ Len(heard) \in Nat /\ Len(batch') \in Nat
    BY <1>1, <1>2, <1>3 DEF Due
  <2>3. /\ Len(queue[1]) > 0 /\ Follows(queue[1], queue[1][1]) /\ queue[1][1] = Due
        /\ queue[1][1] + Len(queue[1]) <= rendered + 1
    BY <1>1, <2>1 DEF InOrder
  <2>4. Len(heard) + 1 + Len(batch') <= rendered + 1
    BY <1>3, <2>2, <2>3
  <2>5. Len(heard) + Len(batch') <= rendered
    BY <1>2, <2>2, <2>4
  <2> QED
    BY <1>3, <2>2, <2>3, <2>5
<1>5. /\ Due' = queue[1][1] + Len(queue[1]) /\ Due' = Len(heard) + Len(batch') + 1 /\ Due = Len(heard) + 1
      /\ Due \in Nat /\ Due' \in Nat /\ Due < Due'
  <2> PICK m \in Nat, n \in Nat : m = Len(heard) /\ n = Len(batch') /\ n > 0
    BY <1>4
  <2>1. Due' = m + n + 1 /\ Due = m + 1
    BY <1>1, <1>2 DEF Due
  <2>2. queue[1][1] + Len(queue[1]) = (m + 1) + n
    BY <1>3, <1>4
  <2>3. m + n + 1 = (m + 1) + n /\ m + 1 \in Nat /\ m + n + 1 \in Nat /\ m + 1 < m + n + 1
    OBVIOUS
  <2> QED
    BY <2>1, <2>2, <2>3
<1>6. InOrder'
  <2>1. \A i \in DOMAIN queue' : i + 1 \in DOMAIN queue
    BY SMTT(30), <1>2, <1>3
  <2>2. queue' # <<>> => queue'[1] = queue[2] /\ 1 \in 1..(Len(queue) - 1)
    BY SMTT(30), <1>2, <1>3
  <2>3. ASSUME queue' # <<>> PROVE queue'[1][1] = Due'
    <3>1. queue[1 + 1][1] = queue[1][1] + Len(queue[1])
      BY <1>1, <2>2, <2>3 DEF InOrder
    <3> QED
      BY <1>5, <2>2, <2>3, <3>1
  <2>4. ASSUME NEW i \in 1..(Len(queue') - 1)
        PROVE  queue'[i + 1][1] = queue'[i][1] + Len(queue'[i])
    <3>1. i + 1 \in 1..(Len(queue) - 1) /\ i \in 1..(Len(queue) - 1)
      BY <1>2, <1>3
    <3> QED
      BY <1>1, <1>3, <3>1 DEF InOrder
  <2>5. \A i \in DOMAIN queue' : queue'[i] = queue[i + 1]
    BY <1>3
  <2>6. ASSUME NEW i \in DOMAIN queue'
        PROVE  /\ Len(queue'[i]) > 0 /\ Follows(queue'[i], queue'[i][1])
               /\ queue'[i][1] + Len(queue'[i]) <= rendered' + 1
    BY <1>1, <2>1, <2>5 DEF InOrder
  <2> QED
    BY <2>3, <2>4, <2>6 DEF InOrder
<1>7. QueueEnd' = QueueEnd
  <2>1. CASE Len(queue) = 1
    <3>1. queue' = <<>> /\ queue # <<>>
      BY <1>1, <1>3, <2>1
    <3>2. QueueEnd' = Due' /\ QueueEnd = queue[1][1] + Len(queue[1])
      BY <2>1, <3>1 DEF QueueEnd
    <3> QED
      BY <1>5, <3>2
  <2>2. CASE Len(queue) > 1
    <3>1. queue' # <<>> /\ queue'[Len(queue')] = queue[Len(queue)]
      BY <1>2, <1>3, <2>2
    <3> QED
      BY <1>1, <3>1 DEF QueueEnd
  <2> QED
    BY <1>2, <1>3, <2>1, <2>2
<1>8. ASSUME NEW f \in Due'..rendered, Enqueued(f) PROVE Enqueued(f)'
  <2>1. CASE f \in Range(pending)
    BY <1>1, <2>1 DEF Enqueued
  <2>2. ASSUME NEW i \in DOMAIN queue, f \in Range(queue[i]) PROVE Enqueued(f)'
    <3>1. CASE i = 1
      <4>1. PICK k \in DOMAIN queue[1] : f = queue[1][k]
        BY <2>2, <3>1 DEF Range
      <4>2. k \in DOMAIN batch' /\ f = Len(heard) + 1 + (k - 1)
        BY <1>3, <1>4, <4>1 DEF Follows
      <4>3. k \in 1..Len(batch')
        BY <1>3, <4>2
      <4>4. f < Due'
        <5> PICK m \in Nat, n \in Nat : m = Len(heard) /\ n = Len(batch')
          BY <1>4
        <5>1. f = m + 1 + (k - 1) /\ k \in 1..n /\ Due' = m + n + 1
          BY <1>5, <4>2, <4>3
        <5> QED
          BY <5>1
      <4> QED
        BY SMTT(30), <1>2, <1>5, <4>4
    <3>2. CASE i # 1
      <4>1. i - 1 \in DOMAIN queue' /\ queue'[i - 1] = queue[i]
        <5>1. i - 1 \in 1..(Len(queue) - 1) /\ (i - 1) + 1 = i
          <6> PICK n \in Nat : n = Len(queue)
            BY <1>2
          <6>1. i \in 1..n
            BY <1>3
          <6>2. i - 1 \in 1..(n - 1) /\ (i - 1) + 1 = i
            BY <3>2, <6>1
          <6> QED
            BY <6>2
        <5> QED
          BY <1>3, <5>1
      <4> QED
        BY <2>2, <4>1 DEF Enqueued
    <3> QED
      BY <3>1, <3>2
  <2> QED
    BY <1>8, <2>1, <2>2 DEF Enqueued
<1>9. HeardOK'
  BY <1>1, <1>4 DEF MonitorInv, HeardOK
<1>10. WaitOK'
  <2>1. ~failed => /\ Follows(pending, QueueEnd) /\ QueueEnd + Len(pending) = rendered + 1
                   /\ \A f \in Due..rendered : Enqueued(f)
    BY <1>1 DEF MonitorInv, WaitOK, Sends
  <2>2. \A f \in Due'..rendered : f \in Due..rendered
    <3>1. Due \in Nat /\ Due' \in Nat /\ Due < Due'
      BY <1>5
    <3> QED
      BY <1>2, <3>1
  <2> QED
    BY <1>1, <1>6, <1>7, <1>8, <2>1, <2>2 DEF WaitOK
<1>11. PhaseOK'
  BY <1>1 DEF MonitorInv, PhaseOK
<1>12. MonitorTypeOK'
  <2>1. Len(queue') <= QueueSize
    BY <1>2, <1>3
  <2> QED
    BY <1>1, <1>3, <2>1 DEF MonitorInv, MonitorTypeOK
<1> QED
  BY <1>9, <1>10, <1>11, <1>12 DEF MonitorInv

(* The batch being posted is heard. *)
LEMMA ArriveStep == ASSUME MonitorInv, BatchArrives PROVE MonitorInv'
<1>1. /\ sender = "posting" /\ heard' = heard \o batch /\ sender' = "answered"
      /\ UNCHANGED <<call, pump, cancelled, failed, media, bus, status, cutOff>>
  BY DEF BatchArrives
<1>2. /\ heard \in Seq(1..MaxFrames) /\ batch \in Seq(1..MaxFrames) /\ rendered \in Nat
      /\ Follows(heard, 1) /\ Follows(batch, Len(heard) + 1) /\ Len(heard) + Len(batch) <= rendered
  BY <1>1, MonitorAssumption DEF MonitorInv, MonitorTypeOK, HeardOK
<1>3. /\ heard' \in Seq(1..MaxFrames) /\ Len(heard') = Len(heard) + Len(batch)
      /\ Len(heard) \in Nat /\ Len(batch) \in Nat
      /\ DOMAIN heard' = 1..(Len(heard) + Len(batch))
      /\ \A k \in 1..Len(heard) : heard'[k] = heard[k]
      /\ \A k \in 1..(Len(heard) + Len(batch)) : k > Len(heard) => heard'[k] = batch[k - Len(heard)]
  BY <1>1, <1>2
<1>4. Follows(heard', 1)
  <2>1. ASSUME NEW k \in DOMAIN heard' PROVE heard'[k] = 1 + (k - 1)
    <3>1. CASE k <= Len(heard)
      <4>1. k \in DOMAIN heard
        BY <1>2, <1>3, <3>1
      <4> QED
        BY <1>2, <1>3, <3>1, <4>1 DEF Follows
    <3>2. CASE k > Len(heard)
      <4>1. k - Len(heard) \in DOMAIN batch /\ k \in Nat
        BY <1>2, <1>3, <3>2
      <4>2. batch[k - Len(heard)] = Len(heard) + 1 + (k - Len(heard) - 1)
        BY <1>2, <4>1 DEF Follows
      <4> QED
        BY <1>3, <3>2, <4>1, <4>2
    <3> QED
      BY <1>3, <3>1, <3>2
  <2> QED
    BY <2>1 DEF Follows
<1>5. Due' = Due
  BY <1>1, <1>3 DEF Due
<1>6. QueueEnd' = QueueEnd /\ (InOrder => InOrder')
  BY <1>1, <1>5 DEF QueueEnd, InOrder, media
<1>7. HeardOK'
  BY <1>1, <1>2, <1>3, <1>4 DEF HeardOK, media
<1>8. WaitOK'
  BY <1>1, <1>5, <1>6 DEF MonitorInv, WaitOK, Sends, Enqueued, media
<1>9. PhaseOK'
  BY <1>1 DEF MonitorInv, PhaseOK, media
<1>10. MonitorTypeOK'
  BY <1>1, <1>3 DEF MonitorInv, MonitorTypeOK, media
<1> QED
  BY <1>7, <1>8, <1>9, <1>10 DEF MonitorInv

(* The sender ends what it did, is cancelled, or ends; the broadcast closes. *)
LEMMA SenderStep ==
  ASSUME MonitorInv,
         BatchSent \/ PostFails \/ SenderCancelled \/ CloseArrives \/ CloseEnds \/ BusRestarts
  PROVE  MonitorInv'
<1>1. /\ UNCHANGED <<call, pump, rendered, pending, queue, heard, status>>
      /\ failed' \in BOOLEAN /\ cancelled' \in BOOLEAN /\ cutOff' \in BOOLEAN
      /\ bus' \in {"none", "open", "closed"} /\ batch' \in {batch, <<>>}
      /\ sender' \in {sender, "idle", "closing", "ended"} /\ (failed => failed')
      /\ (sender' # "posting" \/ (sender' = sender /\ batch' = batch))
  BY DEF BatchSent, PostFails, SenderCancelled, CloseArrives, CloseEnds, BusRestarts, media,
         MonitorInv, MonitorTypeOK
<1>2. \/ sender' = sender /\ UNCHANGED <<batch, cancelled, failed>>
      \/ sender = "answered" /\ sender' = "idle" /\ UNCHANGED <<cancelled, failed>>
      \/ sender' \in {"closing", "ended"} /\ (failed' \/ cancelled \/ sender = "closing")
         /\ cancelled' = FALSE /\ sender \notin {"none", "ended"}
  <2>1. CASE BatchSent
    BY <2>1 DEF BatchSent
  <2>2. CASE PostFails
    BY <2>2 DEF PostFails, MonitorInv, MonitorTypeOK
  <2>3. CASE SenderCancelled
    <3>1. cancelled => sender \notin {"none", "ended"}
      BY DEF MonitorInv, PhaseOK
    <3> QED
      BY <2>3, <3>1 DEF SenderCancelled
  <2>4. CASE CloseArrives
    BY <2>4 DEF CloseArrives, media
  <2>5. CASE CloseEnds
    BY <2>5 DEF CloseEnds, media, MonitorInv, MonitorTypeOK
  <2>6. CASE BusRestarts
    BY <2>6 DEF BusRestarts, media
  <2> QED
    BY <2>1, <2>2, <2>3, <2>4, <2>5, <2>6
<1>3. MonitorTypeOK'
  <2>1. batch' \in Seq(1..MaxFrames)
    <3>1. batch \in Seq(1..MaxFrames) /\ <<>> \in Seq(1..MaxFrames)
      BY DEF MonitorInv, MonitorTypeOK
    <3> QED
      BY <1>1, <3>1
  <2> QED
    BY <1>1, <2>1 DEF MonitorInv, MonitorTypeOK
<1>4. HeardOK'
  BY <1>1 DEF MonitorInv, HeardOK
<1>5. Due' = Due \/ sender' \in {"closing", "ended"}
  BY <1>1, <1>2 DEF Due
<1>6. WaitOK'
  BY <1>1, <1>2, <1>5 DEF MonitorInv, WaitOK, Sends, Enqueued, InOrder, QueueEnd
<1>7. PhaseOK'
  BY <1>1, <1>2 DEF MonitorInv, PhaseOK
<1> QED
  BY <1>3, <1>4, <1>6, <1>7 DEF MonitorInv

(* The call goes on and may fail, but posts, hears and renders nothing. *)
LEMMA CallStep ==
  ASSUME MonitorInv,
         StartMonitor \/ Disable \/ FinishBegins \/ TailFails \/ Joined \/ JoinTimesOut
           \/ StopSender \/ Report
  PROVE  MonitorInv'
<1>1. /\ UNCHANGED <<rendered, pending, queue, batch, heard>>
      /\ sender' = sender \/ (call = "opening" /\ sender' = "idle" /\ ~failed')
      /\ (failed => failed')
  BY DEF StartMonitor, Disable, FinishBegins, TailFails, Joined, JoinTimesOut, StopSender, Report,
         media, MonitorInv, PhaseOK
<1>2. MonitorTypeOK'
  <2>1. /\ call' \in {"on", "tail", "stop", "stopping", "done", call}
        /\ pump' \in {pump, FALSE} /\ cancelled' \in {cancelled, TRUE, FALSE} /\ failed' \in {failed, TRUE}
        /\ bus' \in {bus, "none", "open"} /\ cutOff' \in {cutOff, TRUE, FALSE}
        /\ status' \in {status, "unavailable", "not_configured", "published"}
    BY DEF StartMonitor, Disable, FinishBegins, TailFails, Joined, JoinTimesOut, StopSender, Report,
           CancelSender
  <2>2. /\ call' \in {"opening", "on", "tail", "join", "stop", "stopping", "done"}
        /\ pump' \in BOOLEAN /\ cancelled' \in BOOLEAN /\ failed' \in BOOLEAN /\ cutOff' \in BOOLEAN
    BY <2>1 DEF MonitorInv, MonitorTypeOK
  <2>3. /\ sender' \in {"none", "idle", "posting", "answered", "closing", "ended"}
        /\ bus' \in {"none", "open", "closed"}
        /\ status' \in {"none", "unavailable", "not_configured", "published"}
    BY <1>1, <2>1 DEF MonitorInv, MonitorTypeOK
  <2> QED
    BY <1>1, <2>2, <2>3 DEF MonitorInv, MonitorTypeOK
<1>3. PhaseOK'
  <2>1. CASE StartMonitor
    BY <2>1, <1>1 DEF StartMonitor, MonitorInv, MonitorTypeOK, PhaseOK
  <2>2. CASE Disable
    BY <2>2, <1>1 DEF Disable, CancelSender, MonitorInv, MonitorTypeOK, PhaseOK
  <2>3. CASE FinishBegins
    BY <2>3, <1>1 DEF FinishBegins, MonitorInv, MonitorTypeOK, PhaseOK
  <2>4. CASE TailFails
    BY <2>4, <1>1 DEF TailFails, CancelSender, MonitorInv, MonitorTypeOK, PhaseOK
  <2>5. CASE Joined
    <3>1. /\ call = "join" /\ queue = <<>> /\ sender \notin {"posting", "answered"} /\ call' = "stop"
          /\ UNCHANGED <<sender, cancelled, failed, status>>
      BY <2>5 DEF Joined
    <3>2. ASSUME ~failed PROVE sender = "idle" /\ pending = <<>> /\ Len(heard) = rendered
      <4>1. sender = "idle" /\ pending = <<>>
        BY <3>1, <3>2 DEF MonitorInv, MonitorTypeOK, PhaseOK
      <4>2. Due = Len(heard) + 1 /\ QueueEnd = Due /\ QueueEnd + 0 = rendered + 1
        BY <3>1, <3>2, <4>1 DEF Due, QueueEnd, MonitorInv, WaitOK, Sends
      <4>3. Len(heard) \in Nat /\ rendered \in Nat
        BY MonitorAssumption DEF MonitorInv, MonitorTypeOK
      <4> QED
        BY <4>1, <4>2, <4>3
    <3> QED
      BY <1>1, <3>1, <3>2 DEF MonitorInv, PhaseOK
  <2>6. CASE JoinTimesOut
    BY <2>6, <1>1 DEF JoinTimesOut, MonitorInv, MonitorTypeOK, PhaseOK
  <2>7. CASE StopSender
    BY <2>7, <1>1 DEF StopSender, CancelSender, MonitorInv, MonitorTypeOK, PhaseOK
  <2>8. CASE Report
    BY <2>8, <1>1 DEF Report, MonitorInv, MonitorTypeOK, PhaseOK
  <2> QED
    BY <2>1, <2>2, <2>3, <2>4, <2>5, <2>6, <2>7, <2>8
<1>4. CASE sender' = sender
  <2>1. HeardOK'
    BY <1>1, <1>4 DEF MonitorInv, HeardOK
  <2>2. Due' = Due /\ QueueEnd' = QueueEnd /\ (InOrder => InOrder') /\ \A f : Enqueued(f)' <=> Enqueued(f)
    BY <1>1, <1>4 DEF Due, QueueEnd, InOrder, Enqueued
  <2>3. ~cancelled' => ~cancelled \/ ~Sends
    BY <1>4 DEF StartMonitor, Disable, FinishBegins, TailFails, Joined, JoinTimesOut, StopSender,
                Report, CancelSender, Sends
  <2>4. WaitOK'
    BY <1>1, <1>4, <2>2, <2>3 DEF MonitorInv, WaitOK, Sends
  <2> QED
    BY <1>2, <1>3, <2>1, <2>4 DEF MonitorInv
<1>5. CASE call = "opening" /\ sender' = "idle" /\ ~failed'
  <2>1. rendered = 0 /\ Len(heard) = 0 /\ queue = <<>> /\ pending = <<>>
    BY <1>5 DEF MonitorInv, PhaseOK
  <2>2. HeardOK'
    BY <1>1, <1>5 DEF MonitorInv, HeardOK
  <2>3. Due' = 1 /\ QueueEnd' = 1 /\ queue' = <<>> /\ pending' = <<>> /\ rendered' = 0
    BY <1>1, <1>5, <2>1 DEF Due, QueueEnd
  <2>4. WaitOK'
    BY <2>3 DEF WaitOK, InOrder, Follows
  <2> QED
    BY <1>2, <1>3, <2>2, <2>4 DEF MonitorInv
<1> QED
  BY <1>1, <1>4, <1>5

(* The rest is queued behind the batches. *)
LEMMA TailStep == ASSUME MonitorInv, TailEnds PROVE MonitorInv'
<1>1. /\ call = "tail" /\ pending' = <<>>
      /\ call' = (IF sender # "none" /\ ~failed' THEN "join" ELSE "stop")
      /\ UNCHANGED <<pump, sender, cancelled, rendered, batch, bus, heard, status, cutOff>>
  BY DEF TailEnds
<1>2. /\ pending \in Seq(1..MaxFrames) /\ rendered \in Nat /\ Len(pending) \in Nat
      /\ queue \in Seq(Seq(1..MaxFrames)) /\ QueueSize \in Nat /\ Len(queue) <= QueueSize
      /\ <<>> \in Seq(1..MaxFrames) /\ Len(<<>>) = 0 /\ 0 < BatchFrames /\ failed \in BOOLEAN
      /\ Len(queue) \in Nat
  BY MonitorAssumption DEF MonitorInv, MonitorTypeOK
<1>3. HeardOK' /\ Due' = Due
  BY <1>1 DEF MonitorInv, HeardOK, Due
<1>4. CASE pending # <<>> /\ Sends /\ ~failed /\ Len(queue) < QueueSize
  <2>1. queue' = Append(queue, pending) /\ failed' = failed
    BY <1>4 DEF TailEnds
  <2>2. /\ InOrder /\ Follows(pending, QueueEnd) /\ QueueEnd + Len(pending) = rendered + 1
        /\ \A f \in Due..rendered : Enqueued(f)
    BY <1>4 DEF MonitorInv, WaitOK
  <2>3. QueueEnd \in Nat
    BY <2>2, EndIsNat
  <2>4. Len(pending) > 0
    BY <1>2, <1>4
  <2>5. /\ InOrder' /\ QueueEnd' = QueueEnd + Len(pending) /\ Due' = Due
        /\ queue' \in Seq(Seq(1..MaxFrames)) /\ Len(queue') = Len(queue) + 1
        /\ \A f : (\E i \in DOMAIN queue : f \in Range(queue[i])) \/ f \in Range(pending)
                  => \E i \in DOMAIN queue' : f \in Range(queue'[i])
    <3>1. QueueEnd + Len(pending) <= rendered' + 1 /\ rendered <= rendered' /\ rendered' \in Nat
      BY <1>1, <1>2, <2>2, <2>3
    <3> QED
      BY <1>1, <1>2, <2>1, <2>2, <2>4, <3>1, AppendStep
  <2>6. MonitorTypeOK'
    <3>1. Len(queue') <= QueueSize
      BY <1>2, <1>4, <2>5
    <3> QED
      BY <1>1, <1>2, <2>1, <2>5, <3>1 DEF MonitorInv, MonitorTypeOK
  <2>7. QueueEnd' + Len(pending') = rendered' + 1 /\ Follows(pending', QueueEnd')
    <3>1. QueueEnd' \in Nat /\ QueueEnd' = rendered + 1
      BY <1>2, <2>2, <2>3, <2>5
    <3> QED
      BY <1>1, <1>2, <3>1 DEF Follows
  <2>8. WaitOK'
    BY <1>1, <2>2, <2>5, <2>7 DEF WaitOK, Enqueued
  <2>9. PhaseOK'
    BY <1>1, <1>4, <2>1 DEF MonitorInv, PhaseOK, Sends
  <2> QED
    BY <1>3, <2>6, <2>8, <2>9 DEF MonitorInv
<1>5. CASE ~(pending # <<>> /\ Sends /\ ~failed /\ Len(queue) < QueueSize)
  <2>1. /\ queue' = queue /\ failed' \in BOOLEAN /\ (failed => failed')
        /\ (~failed' => ~failed /\ (pending = <<>> \/ ~Sends))
    BY <1>2, <1>5 DEF TailEnds
  <2>2. MonitorTypeOK'
    BY <1>1, <1>2, <2>1 DEF MonitorInv, MonitorTypeOK
  <2>3. QueueEnd' = QueueEnd /\ (InOrder => InOrder')
    BY <1>1, <1>3, <2>1 DEF QueueEnd, InOrder
  <2>4. ASSUME Sends', ~failed'
        PROVE  /\ Follows(pending', QueueEnd') /\ QueueEnd' + Len(pending') = rendered' + 1
               /\ \A f \in Due'..rendered' : Enqueued(f)'
    <3>1. Sends /\ ~failed /\ pending' = pending
      BY <1>1, <2>1, <2>4 DEF Sends
    <3> QED
      BY <1>1, <1>3, <2>1, <2>3, <3>1 DEF MonitorInv, WaitOK, Enqueued
  <2>5. WaitOK'
    BY <1>1, <2>1, <2>3, <2>4 DEF MonitorInv, WaitOK, Sends
  <2>6. PhaseOK'
    BY <1>1, <2>1 DEF MonitorInv, MonitorTypeOK, PhaseOK, Sends
  <2> QED
    BY <1>3, <2>2, <2>5, <2>6 DEF MonitorInv
<1> QED
  BY <1>4, <1>5

LEMMA MonitorInvStep == MonitorInv /\ [MonitorNext]_monitorVars => MonitorInv'
<1> SUFFICES ASSUME MonitorInv, [MonitorNext]_monitorVars PROVE MonitorInv'
  OBVIOUS
<1>1. CASE UNCHANGED monitorVars
  BY <1>1 DEF monitorVars, media, MonitorInv, MonitorTypeOK, HeardOK, WaitOK, PhaseOK, Follows,
              Due, QueueEnd, InOrder, Enqueued, Sends
<1>2. CASE Pump \/ RenderTail
  <2>1. /\ Render /\ call \in {"on", "tail"} /\ pump' \in BOOLEAN
        /\ UNCHANGED <<call, sender, batch, bus, heard, status, cutOff>>
    BY <1>2 DEF Pump, RenderTail, MonitorInv, MonitorTypeOK
  <2> QED
    BY <2>1, RenderStep
<1>3. CASE Sender \/ BusRestarts
  BY <1>3, TakeStep, ArriveStep, SenderStep DEF Sender
<1>4. CASE StartMonitor \/ Disable \/ FinishBegins
  BY <1>4, CallStep
<1>5. CASE FinishStep /\ ~RenderTail
  BY <1>5, CallStep, TailStep DEF FinishStep
<1> QED
  BY <1>1, <1>2, <1>3, <1>4, <1>5 DEF MonitorNext, FinishStep

LEMMA MonitorInvHolds == MonitorSpec => []MonitorInv
  BY MonitorInvInit, MonitorInvStep, PTL DEF MonitorSpec

(* Every reachable state is well typed. *)
THEOREM MonitorTypeCorrect == MonitorSpec => []MonitorTypeOK
  BY MonitorInvHolds, PTL DEF MonitorInv

(* _publish, _send and finish: however long the call, the queue and the batches,
   listeners hear the start of the recording in order and without a hole; what
   is missing of it waits, and a status "published" is only given when nothing
   is.                                                                      *)
THEOREM WholeOrUnavailableHolds == MonitorSpec => []WholeOrUnavailable
<1>1. ASSUME MonitorInv PROVE WholeOrUnavailable
  <2>1. /\ heard \in Seq(1..MaxFrames) /\ batch \in Seq(1..MaxFrames) /\ rendered \in Nat
        /\ Len(heard) \in Nat /\ Len(batch) \in Nat
        /\ Follows(heard, 1) /\ Len(heard) <= rendered
        /\ sender = "posting" => Follows(batch, Len(heard) + 1)
    BY <1>1, MonitorAssumption DEF MonitorInv, MonitorTypeOK, HeardOK
  <2>2. IsPrefix(heard, [i \in 1..rendered |-> i])
    <3> DEFINE all == [i \in 1..rendered |-> i]
    <3>1. all \in Seq(Nat) /\ Len(all) = rendered
      BY <2>1
    <3>2. \A i \in 1..Len(heard) : heard[i] = all[i]
      BY <2>1 DEF Follows
    <3> HIDE DEF all
    <3>3. SubSeq(heard, 1, Len(heard)) = SubSeq(all, 1, Len(heard))
      BY <2>1, <3>1, <3>2
    <3> QED
      BY <2>1, <3>1, <3>3 DEF IsPrefix, all
  <2>3. status = "published" => Len(heard) = rendered
    BY <1>1 DEF MonitorInv, PhaseOK
  <2>4. ASSUME Sends, ~failed, NEW f \in 1..rendered PROVE f \in Range(heard) \/ OnItsWay(f)
    <3>1. CASE f \in Due..rendered
      BY <1>1, <2>4, <3>1 DEF MonitorInv, WaitOK, Enqueued, OnItsWay
    <3>2. CASE f \in 1..Len(heard)
      <4>1. f \in DOMAIN heard /\ heard[f] = f
        BY <2>1, <3>2 DEF Follows
      <4> QED
        BY <4>1 DEF Range
    <3>3. CASE sender = "posting" /\ f > Len(heard) /\ f <= Len(heard) + Len(batch)
      <4>1. f - Len(heard) \in DOMAIN batch
        BY <2>1, <3>3
      <4>2. batch[f - Len(heard)] = Len(heard) + 1 + (f - Len(heard) - 1)
        BY <2>1, <3>3, <4>1 DEF Follows
      <4>3. batch[f - Len(heard)] = f
        BY <2>1, <4>2
      <4> QED
        BY <3>3, <4>1, <4>3 DEF Range, OnItsWay
    <3> QED
      BY <2>1, <3>1, <3>2, <3>3 DEF Due
  <2> QED
    BY <2>2, <2>3, <2>4 DEF WholeOrUnavailable
<1> QED
  BY <1>1, MonitorInvHolds, PTL
-----------------------------------------------------------------------------
(* Spoken turns: the inductive invariant.  Nothing happens once the session is
   over, and nothing is said or received after a protocol error.            *)

Segments == Nat \X Nat
Messages == [type : {"ready", "drained", "gone"}] \cup [type : {"final"}, segment : Segments]

TextTypes == /\ segments \in Seq(Segments) /\ inbox \in Seq(Messages)
             /\ said \in [Turns -> Seq(Segments)] /\ receipts \in [Turns -> Seq(Segments)]
             /\ spoken \in [Turns -> Nat] /\ sent \in [Turns -> Nat]
             /\ repeatable \subseteq Nat

(* Where the processor, the recogniser and the receiver are. *)
PhasesOK ==
  /\ wait # "none" \/ active \/ finalizing => turnOpen
  /\ turnOpen => opened = turn /\ turn \in Turns
  /\ protocolError => ~receiver /\ finalReceived
  /\ active \/ wait = "ready" => ~finalizing /\ (finalReceived => protocolError)
  /\ finalizing /\ finalReceived => protocolError
  /\ wait # "none" => ~active
  /\ wait \in {"restart", "end", "close"} => finalizing \/ finalReceived
  /\ wait = "ready" => provider = "local"

StreamsOK ==
  /\ active \/ wait = "ready" => server \in {"started", "open", "gone"}
  /\ finalizing => server \in {"final", "done", "gone"}
  /\ provider = "local" /\ ~active /\ wait # "ready" /\ ~finalizing => server \in {"done", "gone"}
  /\ provider = "cloud" => /\ server # "started"
                           /\ receiver => active \/ finalizing
                           /\ active \/ finalizing => receiver \/ protocolError

(* Every utterance of the turn has its stream, or waits for one. *)
VoiceOK ==
  /\ wait = "none" => /\ active <=> voicing
                      /\ prev = "speaking" => voicing
                      /\ active => prev # "quiet"
  /\ wait \in {"ready", "restart"} => voicing /\ vad = "speaking"
  /\ turn \in Turns => spoken[turn] = IF wait \in {"ready", "restart"} THEN sent[turn] + 1 ELSE sent[turn]
  /\ \A t \in Turns : t > turn => spoken[t] = 0 /\ sent[t] = 0 /\ said[t] = <<>>

TurnOK == /\ turnOpen => ~turnEmitted
          /\ ~turnOpen => /\ turnEmitted \/ segments = <<>>
                          /\ turn \in Turns => said[turn] = <<>>
          /\ \A i \in DOMAIN segments : segments[i][1] <= utterance

(* rtc-asr: what was found is in the text, but for the final that is on its way;
   what else is on its way was delivered before.                            *)
Final == <<utterance, 1>>
OnTheWay == \E i \in DOMAIN inbox : inbox[i] = [type |-> "final", segment |-> Final]
Waiting == finalizing /\ server \in {"done", "gone"} /\ said[turn] = Append(segments, Final) /\ OnTheWay
IsKnown == Waiting \/ \E i \in DOMAIN segments : segments[i] = Final

LocalOK ==
  /\ turnOpen => said[turn] = segments \/ Waiting
  /\ active \/ finalizing \/ wait = "ready" => \A i \in DOMAIN segments : segments[i][1] # utterance
  /\ \A u \in repeatable : u <= utterance
  /\ utterance \in repeatable => IsKnown
  /\ \A i \in DOMAIN inbox : inbox[i].type # "drained"
  /\ \A i \in DOMAIN inbox : inbox[i].type = "final" =>
       /\ inbox[i].segment[2] = 1 /\ inbox[i].segment[1] <= utterance
       /\ inbox[i].segment[1] = utterance => IsKnown

(* The clouds: what was found is the text and the segments in the inbox, in order. *)
Delivers(k) ==
  /\ Len(said[turn]) = Len(segments) + k
  /\ \A i \in 1..Len(segments) : said[turn][i] = segments[i]
  /\ \A i \in 1..k : inbox[i] = [type |-> "final", segment |-> said[turn][Len(segments) + i]]
  /\ \A i \in 1..Len(inbox) : i > k => inbox[i].type # "final"
  /\ k = Len(inbox) \/ server \in {"done", "gone"}

NumberedOK ==
  /\ \A i, j \in DOMAIN said[turn] : said[turn][i] = said[turn][j] => i = j
  /\ \A i \in DOMAIN said[turn] : /\ said[turn][i][1] <= utterance
                                  /\ i > Len(segments) => said[turn][i][1] = utterance
                                  /\ said[turn][i][1] = utterance => said[turn][i][2] <= Found

CloudOK ==
  /\ repeatable = {}
  /\ turnOpen /\ ~receiver => said[turn] = segments
  /\ turnOpen /\ receiver => \E k \in 0..Len(inbox) : Delivers(k)
  /\ turnOpen => NumberedOK
  /\ finalizing /\ server = "done" => \E i \in DOMAIN inbox : inbox[i].type = "drained"

SpeechInv ==
  /\ SpeechTypeOK /\ TextTypes /\ TurnIsWhole
  /\ ~over => PhasesOK /\ StreamsOK /\ VoiceOK
  /\ ~over /\ ~protocolError => /\ TurnOK
                                /\ provider = "local" => LocalOK
                                /\ provider = "cloud" => CloudOK

LEMMA NothingAfterOver == ASSUME over, SpeechNext PROVE FALSE
  BY DEF SpeechNext, StartUtterance, HoldBack, Resume, Started, Frame, End, EndTurn, EndSession, Fails,
         Detect, Idle, Reached

(* The steps, as the proofs take them. *)
Processor == \/ StartUtterance \/ HoldBack \/ Resume \/ Started \/ (\E s \in DOMAIN Following : Frame(s))
             \/ (\E kind \in {"end", "close"} : End(kind)) \/ EndTurn \/ EndSession \/ Fails

LEMMA SpeechSteps == SpeechNext => Processor \/ Recogniser \/ Receiver
  BY DEF SpeechNext, Processor

LEMMA States == DOMAIN Following = {"quiet", "speaking", "stopping"}
                /\ \A s \in DOMAIN Following : Following[s] \subseteq DOMAIN Following
  BY DEF Following

Controls == {active, finalizing, ready, finalReceived, turnOpen, turnEmitted, protocolError, over,
             receiver, voicing} \subseteq BOOLEAN
Marks == /\ provider \in {"local", "cloud"}
         /\ vad \in {"quiet", "speaking", "stopping"} /\ prev \in {"quiet", "speaking", "stopping"}
         /\ wait \in {"none", "ready", "restart", "end", "close"}
         /\ server \in {"started", "open", "final", "done", "gone"}
Counters == utterance \in Nat /\ opened \in Turns /\ turn \in 1..(MaxTurns + 1)

LEMMA SpeechTypes == SpeechTypeOK <=> Controls /\ Marks /\ Counters /\ ~(active /\ finalizing)
  BY States DEF SpeechTypeOK, Controls, Marks, Counters

LEMMA ControlsStep == ASSUME Controls, Processor \/ Recogniser \/ Receiver PROVE Controls'
<1> USE DEF Controls
<1>1. CASE StartUtterance
  BY <1>1 DEF StartUtterance, Detect, Open
<1>2. CASE Resume
  BY <1>2 DEF Resume, Open
<1>3. CASE HoldBack
  BY <1>3 DEF HoldBack, Detect, events, socket
<1>4. ASSUME NEW s \in DOMAIN Following, Frame(s)
      PROVE  Controls'
  BY ZenonT(60), <1>4 DEF Frame, Detect, Finalize, events
<1>5. CASE Started
  BY <1>5 DEF Started, events, socket
<1>6. ASSUME NEW kind \in {"end", "close"}, End(kind)
      PROVE  Controls'
  BY <1>6 DEF End, Finalize, events
<1>7. CASE EndTurn
  BY <1>7 DEF EndTurn, events, socket
<1>8. CASE EndSession
  BY <1>8 DEF EndSession, events
<1>9. CASE Fails
  BY <1>9 DEF Fails, Raise, events, socket
<1>10. CASE Recogniser
  BY <1>10 DEF Recogniser, ServerReady, ServerFinal, ServerRepeats, ServerSilent, ServerSegment, ServerDrained,
               ServerGone, ServerOnly, events
<1>11. CASE Receiver
  BY <1>11 DEF Receiver, ReceiveReady, ReceiveFinal, ReceiveDrained, ReceiveGone, ReceiverOnly
<1> QED
  BY <1>1, <1>2, <1>3, <1>4, <1>5, <1>6, <1>7, <1>8, <1>9, <1>10, <1>11 DEF Processor

LEMMA MarksStep == ASSUME Marks, Processor \/ Recogniser \/ Receiver PROVE Marks'
<1> USE States DEF Marks, Asked
<1>1. CASE StartUtterance
  BY <1>1 DEF StartUtterance, Detect, Open
<1>2. CASE Resume
  BY <1>2 DEF Resume, Open
<1>3. CASE HoldBack
  BY <1>3 DEF HoldBack, Detect, events, socket
<1>4. ASSUME NEW s \in DOMAIN Following, Frame(s)
      PROVE  Marks'
  BY <1>4 DEF Frame, Detect, Finalize, events
<1>5. CASE Started
  BY <1>5 DEF Started, events, socket
<1>6. ASSUME NEW kind \in {"end", "close"}, End(kind)
      PROVE  Marks'
  BY <1>6 DEF End, Finalize, events
<1>7. CASE EndTurn
  BY <1>7 DEF EndTurn, events, socket
<1>8. CASE EndSession
  BY <1>8 DEF EndSession, events
<1>9. CASE Fails
  BY <1>9 DEF Fails, Raise, events, socket
<1>10. CASE Recogniser
  BY <1>10 DEF Recogniser, ServerReady, ServerFinal, ServerRepeats, ServerSilent, ServerSegment, ServerDrained,
               ServerGone, ServerOnly, events
<1>11. CASE Receiver
  BY <1>11 DEF Receiver, ReceiveReady, ReceiveFinal, ReceiveDrained, ReceiveGone, ReceiverOnly
<1> QED
  BY <1>1, <1>2, <1>3, <1>4, <1>5, <1>6, <1>7, <1>8, <1>9, <1>10, <1>11 DEF Processor

LEMMA CountersStep ==
  ASSUME SpeechTypeOK, ~over => PhasesOK, Processor \/ Recogniser \/ Receiver, ~over
  PROVE  Counters'
<1>0. Counters /\ PhasesOK
  BY SpeechTypes
<1> USE SpeechAssumption DEF Counters, Turns
<1>1. CASE StartUtterance
  BY <1>0, <1>1 DEF StartUtterance, Detect, Open, Idle
<1>2. CASE Resume
  BY <1>0, <1>2 DEF Resume, Open, PhasesOK
<1>3. ASSUME UNCHANGED <<utterance, opened, turn>> PROVE Counters'
  BY <1>0, <1>3
<1>4. CASE EndTurn
  <2>1. turn \in Turns
    BY <1>0, <1>4 DEF EndTurn, Reached, Idle, PhasesOK
  <2> QED
    BY <1>0, <1>4, <2>1 DEF EndTurn
<1>5. CASE \/ HoldBack \/ Started \/ EndSession \/ Fails
           \/ (\E s \in DOMAIN Following : Frame(s)) \/ (\E kind \in {"end", "close"} : End(kind))
  BY <1>3, <1>5 DEF HoldBack, Started, Frame, End, EndSession, Fails, Raise
<1>6. CASE Recogniser
  BY <1>3, <1>6 DEF Recogniser, ServerReady, ServerFinal, ServerRepeats, ServerSilent, ServerSegment, ServerDrained,
               ServerGone, ServerOnly
<1>7. CASE Receiver
  BY <1>3, <1>7 DEF Receiver, ReceiveReady, ReceiveFinal, ReceiveDrained, ReceiveGone, ReceiverOnly
<1> QED
  BY <1>1, <1>2, <1>4, <1>5, <1>6, <1>7 DEF Processor

LEMMA MessageTypes ==
  /\ \A t \in {"ready", "drained", "gone"} : [type |-> t] \in Messages
  /\ \A x \in Segments : [type |-> "final", segment |-> x] \in Messages
  BY DEF Messages

LEMMA FinalTypes ==
  ASSUME NEW m \in Messages, m.type = "final"
  PROVE  m.segment \in Segments /\ m = [type |-> "final", segment |-> m.segment]
  BY DEF Messages

LEMMA FoundType ==
  ASSUME TextTypes, Counters
  PROVE  /\ Found \in Nat
         /\ Found > 0 <=> \E i \in DOMAIN said[opened] : said[opened][i][1] = utterance
<1> DEFINE s == said[opened]
           S == {i \in DOMAIN s : s[i][1] = utterance}
<1>1. s \in Seq(Segments) /\ DOMAIN s = 1..Len(s) /\ Len(s) \in Nat
  BY DEF TextTypes, Counters
<1>2. IsFiniteSet(1..Len(s))
  BY <1>1, FS_Interval
<1>3. IsFiniteSet(S)
  BY <1>1, <1>2, FS_Subset
<1>4. Cardinality(S) \in Nat /\ (Cardinality(S) = 0 <=> S = {})
  BY <1>3, FS_CardinalityType, FS_EmptySet
<1> QED
  BY <1>4 DEF Found

LEMMA OneMore == ASSUME NEW f \in [Turns -> Nat], NEW t PROVE [f EXCEPT ![t] = @ + 1] \in [Turns -> Nat]
<1>1. CASE t \in Turns
  <2>1. f[t] + 1 \in Nat
    BY <1>1
  <2> QED
    BY <2>1
<1>2. CASE t \notin Turns
  BY <1>2
<1> QED
  BY <1>1, <1>2

LEMMA TextTypesStep ==
  ASSUME SpeechTypeOK, TextTypes, ~over => PhasesOK, Processor \/ Recogniser \/ Receiver, ~over
  PROVE  TextTypes'
<1>0. Counters /\ PhasesOK
  BY SpeechTypes
<1> USE DEF TextTypes
<1>e. <<>> \in Seq(Segments) /\ <<>> \in Seq(Messages)
  OBVIOUS
<1>1. ASSUME UNCHANGED <<segments, inbox, said, receipts, spoken, sent, repeatable>> PROVE TextTypes'
  BY <1>1
<1>2. ASSUME NEW s, Detect(s) PROVE spoken' \in [Turns -> Nat]
  BY <1>2, OneMore DEF Detect
<1>3. ASSUME Open
      PROVE  /\ segments' \in Seq(Segments) /\ inbox' \in Seq(Messages) /\ sent' \in [Turns -> Nat]
             /\ UNCHANGED <<said, receipts, repeatable>>
  <2>1. sent' \in [Turns -> Nat]
    BY <1>3, OneMore DEF Open
  <2>2. segments' \in {segments, <<>>} /\ inbox' \in {inbox, <<>>}
    BY <1>3 DEF Open
  <2>3. segments' \in Seq(Segments) /\ inbox' \in Seq(Messages)
    BY <1>e, <2>2
  <2> QED
    BY <1>3, <2>1, <2>3 DEF Open
<1>4. CASE StartUtterance
  BY <1>2, <1>3, <1>4 DEF StartUtterance
<1>5. CASE Resume
  BY <1>3, <1>5 DEF Resume
<1>6. CASE HoldBack
  BY <1>2, <1>6 DEF HoldBack, socket
<1>7. CASE Started
  <2>1. sent' \in [Turns -> Nat]
    BY <1>7, OneMore DEF Started
  <2> QED
    BY <1>7, <2>1 DEF Started, socket
<1>8. ASSUME NEW s \in DOMAIN Following, Frame(s)
      PROVE  TextTypes'
  BY <1>2, <1>8 DEF Frame
<1>9. CASE EndTurn
  <2>1. turn \in Turns
    BY <1>0, <1>9 DEF EndTurn, Reached, Idle, PhasesOK
  <2>2. (IF turnEmitted THEN <<>> ELSE segments) \in Seq(Segments)
    OBVIOUS
  <2>3. receipts' \in [Turns -> Seq(Segments)]
    BY <1>9, <2>1, <2>2 DEF EndTurn
  <2> QED
    BY <1>9, <2>3 DEF EndTurn, socket
<1>10. CASE EndSession \/ Fails \/ (\E kind \in {"end", "close"} : End(kind))
  <2>1. inbox' \in {inbox, <<>>} /\ UNCHANGED <<segments, said, receipts, spoken, sent, repeatable>>
    BY <1>10 DEF EndSession, Fails, Raise, End, socket
  <2>2. inbox' \in Seq(Messages)
    BY <1>e, <2>1
  <2> QED
    BY <2>1, <2>2
<1>11. ASSUME NEW m \in Messages, Message(m) PROVE inbox' \in Seq(Messages)
  BY <1>11 DEF Message
<1>12. ASSUME NEW n \in Nat, Says(n)
       PROVE  inbox' \in Seq(Messages) /\ said' \in [Turns -> Seq(Segments)]
  <2>1. <<utterance, n>> \in Segments
    BY <1>0 DEF Segments, Counters
  <2>2. inbox' \in Seq(Messages)
    BY <1>12, <1>11, <2>1, MessageTypes DEF Says
  <2>3. Append(said[opened], <<utterance, n>>) \in Seq(Segments)
    BY <1>0, <2>1 DEF Counters
  <2> QED
    BY <1>12, <2>2, <2>3 DEF Says
<1>13. CASE Recogniser
  <2>1. CASE ServerFinal
    BY <1>0, <1>12, <2>1 DEF ServerFinal, ServerOnly, Counters
  <2>2. CASE ServerSegment
    BY <1>0, <1>12, <2>2, FoundType DEF ServerSegment, ServerOnly
  <2>3. CASE ServerRepeats
    <3>1. PICK u \in repeatable : Message([type |-> "final", segment |-> <<u, 1>>]) /\ repeatable' = repeatable \ {u}
      BY <2>3 DEF ServerRepeats
    <3>2. <<u, 1>> \in Segments
      BY DEF Segments
    <3> QED
      BY <1>11, <2>3, <3>1, <3>2, MessageTypes DEF ServerRepeats, ServerOnly
  <2>4. CASE ServerReady \/ ServerSilent \/ ServerDrained \/ ServerGone
    BY <1>11, <2>4, MessageTypes DEF ServerReady, ServerSilent, ServerDrained, ServerGone, ServerOnly
  <2> QED
    BY <1>13, <2>1, <2>2, <2>3, <2>4 DEF Recogniser
<1>14. CASE Receiver
  <2>1. inbox' \in Seq(Messages)
    <3>1. inbox # <<>> /\ inbox' = Tail(inbox)
      BY <1>14 DEF Receiver, ReceiveReady, ReceiveFinal, ReceiveDrained, ReceiveGone, Take
    <3> QED
      BY <3>1
  <2>2. segments' \in Seq(Segments)
    <3>1. CASE ReceiveFinal
      <4>1. Head(inbox) \in Messages /\ Head(inbox).type = "final"
        BY <3>1 DEF ReceiveFinal, Take
      <4>2. Head(inbox).segment \in Segments
        BY <4>1, FinalTypes
      <4>3. Append(segments, Head(inbox).segment) \in Seq(Segments)
        BY <4>2
      <4> QED
        BY <3>1, <4>3 DEF ReceiveFinal
    <3> QED
      BY <1>14, <3>1 DEF Receiver, ReceiveReady, ReceiveDrained, ReceiveGone
  <2> QED
    BY <1>14, <2>1, <2>2 DEF Receiver, ReceiveReady, ReceiveFinal, ReceiveDrained, ReceiveGone, ReceiverOnly
<1> QED
  BY <1>4, <1>5, <1>6, <1>7, <1>8, <1>9, <1>10, <1>13, <1>14 DEF Processor

LEMMA Bounds == ASSUME Counters PROVE turn \in Nat /\ opened \in Nat /\ MaxTurns \in Nat
  BY SpeechAssumption DEF Counters, Turns

(* A final of rtc-asr that is new is the one that is waited for. *)
LEMMA FinalIsAwaited ==
  ASSUME TextTypes, Counters, LocalOK, Take("final"),
         Head(inbox).segment[1] = utterance, NewFinal(Head(inbox).segment)
  PROVE  Waiting /\ Head(inbox).segment = Final
<1>1. inbox # <<>> /\ inbox \in Seq(Messages) /\ segments \in Seq(Segments)
  BY DEF Take, TextTypes
<1>2. 1 \in DOMAIN inbox /\ Head(inbox) = inbox[1] /\ inbox[1] \in Messages /\ inbox[1].type = "final"
  BY <1>1 DEF Take
<1>3. inbox[1].segment \in Segments
  BY <1>2, FinalTypes
<1>4. inbox[1].segment = Final
  BY <1>2, <1>3 DEF LocalOK, Final, Segments
<1>5. \A i \in DOMAIN segments : segments[i] # Final
  BY <1>1, <1>2, <1>4 DEF NewFinal, Contains
<1> QED
  BY <1>2, <1>4, <1>5 DEF LocalOK, IsKnown

LEMMA PhasesStep ==
  ASSUME SpeechTypeOK, TextTypes, PhasesOK, StreamsOK, ~protocolError /\ provider = "local" => LocalOK,
         Processor \/ Recogniser \/ Receiver, ~over, ~over'
  PROVE  PhasesOK'
<1> USE DEF PhasesOK
<1>0. Counters /\ Marks
  BY SpeechTypes
<1>1. CASE StartUtterance
  BY <1>0, <1>1 DEF StartUtterance, Detect, Open, Idle, Marks
<1>2. CASE Resume
  BY <1>0, <1>2 DEF Resume, Open, Marks
<1>3. CASE HoldBack
  BY <1>3 DEF HoldBack, Detect, Idle, events, socket
<1>4. ASSUME NEW s \in DOMAIN Following, Frame(s)
      PROVE  PhasesOK'
  BY <1>4 DEF Frame, Detect, Idle, Finalize, events
<1>5. CASE Started
  BY <1>5 DEF Started, events, socket
<1>6. ASSUME NEW kind \in {"end", "close"}, End(kind)
      PROVE  PhasesOK'
  BY <1>6 DEF End, Idle, Pending, Finalize, events
<1>7. CASE EndTurn
  BY <1>7 DEF EndTurn, Reached, Pending, Idle, events, socket
<1>8. CASE EndSession \/ Fails
  BY <1>8 DEF EndSession, Fails, Raise
<1>9. CASE Recogniser
  BY <1>9 DEF Recogniser, ServerReady, ServerFinal, ServerRepeats, ServerSilent, ServerSegment, ServerDrained,
               ServerGone, ServerOnly, events
<1>10. CASE Receiver
  <2>1. CASE ReceiveFinal
    <3>1. ~protocolError
      BY <2>1 DEF ReceiveFinal, Take, PhasesOK
    <3>2. \/ UNCHANGED <<finalizing, finalReceived>>
          \/ finalizing /\ server \in {"done", "gone"} /\ ~finalizing' /\ finalReceived' /\ provider = "local"
      BY <1>0, <2>1, <3>1, FinalIsAwaited DEF ReceiveFinal, Waiting
    <3>3. UNCHANGED <<receiver, protocolError>>
      BY <2>1 DEF ReceiveFinal
    <3> QED
      BY <2>1, <3>1, <3>2, <3>3 DEF ReceiveFinal, ReceiverOnly, PhasesOK
  <2>2. CASE ReceiveReady \/ ReceiveDrained \/ ReceiveGone
    BY <1>0, <2>2 DEF ReceiveReady, ReceiveDrained, ReceiveGone, ReceiverOnly, Take, PhasesOK, Marks
  <2> QED
    BY <1>10, <2>1, <2>2 DEF Receiver
<1> QED
  BY <1>1, <1>2, <1>3, <1>4, <1>5, <1>6, <1>7, <1>8, <1>9, <1>10 DEF Processor

LEMMA StreamsStep ==
  ASSUME SpeechTypeOK, TextTypes, PhasesOK, StreamsOK, ~protocolError /\ provider = "local" => LocalOK,
         Processor \/ Recogniser \/ Receiver, ~over, ~over'
  PROVE  StreamsOK'
<1> USE DEF StreamsOK, Asked
<1>0. Counters /\ Marks
  BY SpeechTypes
<1>1. CASE StartUtterance
  BY <1>0, <1>1 DEF StartUtterance, Detect, Open, Idle, Marks
<1>2. CASE Resume
  BY <1>0, <1>2 DEF Resume, Open, Marks, PhasesOK
<1>3. CASE HoldBack
  BY <1>3 DEF HoldBack, Detect, Idle, events, socket
<1>4. ASSUME NEW s \in DOMAIN Following, Frame(s)
      PROVE  StreamsOK'
  BY <1>4 DEF Frame, Detect, Idle, Finalize, events, PhasesOK
<1>5. CASE Started
  BY <1>0, <1>5 DEF Started, events, socket, PhasesOK, Marks
<1>6. ASSUME NEW kind \in {"end", "close"}, End(kind)
      PROVE  StreamsOK'
  BY <1>6 DEF End, Idle, Pending, Finalize, events, PhasesOK
<1>7. CASE EndTurn
  BY <1>7 DEF EndTurn, Reached, Pending, Idle, events, socket, PhasesOK
<1>8. CASE EndSession \/ Fails
  BY <1>8 DEF EndSession, Fails, Raise
<1>9. CASE Recogniser
  BY <1>0, <1>9 DEF Recogniser, ServerReady, ServerFinal, ServerRepeats, ServerSilent, ServerSegment, ServerDrained,
               ServerGone, ServerOnly, events, Marks
<1>10. CASE Receiver
  <2>1. CASE ReceiveFinal
    <3>1. ~protocolError
      BY <2>1 DEF ReceiveFinal, Take, PhasesOK
    <3>2. \/ UNCHANGED <<finalizing, finalReceived>>
          \/ finalizing /\ server \in {"done", "gone"} /\ ~finalizing' /\ finalReceived' /\ provider = "local"
      BY <1>0, <2>1, <3>1, FinalIsAwaited DEF ReceiveFinal, Waiting
    <3>3. UNCHANGED <<receiver, protocolError>>
      BY <2>1 DEF ReceiveFinal
    <3> QED
      BY <2>1, <3>1, <3>2, <3>3 DEF ReceiveFinal, ReceiverOnly, PhasesOK
  <2>2. CASE ReceiveReady
    BY <1>0, <2>2 DEF ReceiveReady, ReceiverOnly
  <2>3. CASE ReceiveDrained
    <3>1. provider # "local"
      <4>1. inbox # <<>> /\ inbox \in Seq(Messages) /\ ~protocolError
        BY <2>3 DEF ReceiveDrained, Take, TextTypes, PhasesOK
      <4>2. 1 \in DOMAIN inbox /\ Head(inbox) = inbox[1]
        BY <4>1
      <4> QED
        BY <2>3, <4>1, <4>2 DEF ReceiveDrained, Take, LocalOK
    <3> QED
      BY <1>0, <2>3, <3>1 DEF ReceiveDrained, ReceiverOnly, PhasesOK, Marks
  <2>4. CASE ReceiveGone
    BY <1>0, <2>4 DEF ReceiveGone, ReceiverOnly, Marks
  <2> QED
    BY <1>10, <2>1, <2>2, <2>3, <2>4 DEF Receiver
<1> QED
  BY <1>1, <1>2, <1>3, <1>4, <1>5, <1>6, <1>7, <1>8, <1>9, <1>10 DEF Processor


(* What the recogniser finds it finds in the turn that is on. *)
LEMMA SaidNow ==
  ASSUME SpeechTypeOK, TextTypes, PhasesOK, StreamsOK, Recogniser
  PROVE  \A t \in Turns : t # turn => said'[t] = said[t]
<1>0. Marks /\ said \in [Turns -> Seq(Segments)]
  BY SpeechTypes DEF TextTypes
<1>1. CASE ServerFinal \/ ServerSegment
  <2>1. opened = turn
    BY <1>0, <1>1 DEF ServerFinal, ServerSegment, PhasesOK, StreamsOK, Marks
  <2>2. \E x : said' = [said EXCEPT ![opened] = x]
    BY <1>1 DEF ServerFinal, ServerSegment, Says
  <2> QED
    BY <1>0, <2>1, <2>2
<1>2. CASE ~(ServerFinal \/ ServerSegment)
  BY <1>2 DEF Recogniser, ServerReady, ServerRepeats, ServerSilent, ServerDrained, ServerGone
<1> QED
  BY <1>1, <1>2

(* A turn that is over stays as it is. *)
LEMMA PastStays ==
  ASSUME SpeechTypeOK, TextTypes, PhasesOK, StreamsOK, Processor \/ Recogniser \/ Receiver, ~over
  PROVE  /\ \A t \in Turns : t # turn => /\ said'[t] = said[t] /\ spoken'[t] = spoken[t]
                                       /\ sent'[t] = sent[t] /\ receipts'[t] = receipts[t]
         /\ EndTurn \/ UNCHANGED <<turn, receipts>>
<1>0. /\ spoken \in [Turns -> Nat] /\ sent \in [Turns -> Nat] /\ said \in [Turns -> Seq(Segments)]
      /\ receipts \in [Turns -> Seq(Segments)]
  BY DEF TextTypes
<1> DEFINE Past == /\ \A t \in Turns : t # turn => /\ said'[t] = said[t] /\ spoken'[t] = spoken[t]
                                                 /\ sent'[t] = sent[t] /\ receipts'[t] = receipts[t]
                   /\ EndTurn \/ UNCHANGED <<turn, receipts>>
<1>1. ASSUME NEW s, Detect(s)
      PROVE  \A t \in Turns : t # turn => spoken'[t] = spoken[t]
  BY <1>0, <1>1 DEF Detect
<1>2. ASSUME Open
      PROVE  /\ \A t \in Turns : t # turn => sent'[t] = sent[t]
             /\ UNCHANGED <<turn, said, receipts>>
  BY <1>0, <1>2 DEF Open
<1>3. CASE StartUtterance
  BY <1>1, <1>2, <1>3 DEF StartUtterance
<1>4. CASE Resume
  BY <1>2, <1>4 DEF Resume
<1>5. CASE HoldBack
  BY <1>1, <1>5 DEF HoldBack
<1>6. CASE Started
  BY <1>0, <1>6 DEF Started
<1>7. ASSUME NEW s \in DOMAIN Following, Frame(s)
      PROVE  Past
  BY <1>1, <1>7 DEF Frame
<1>8. CASE EndTurn
  BY <1>0, <1>8 DEF EndTurn
<1>9. CASE EndSession \/ Fails \/ \E kind \in {"end", "close"} : End(kind)
  BY <1>9 DEF EndSession, Fails, Raise, End
<1>10. CASE Recogniser
  <2>1. UNCHANGED <<turn, receipts, spoken, sent>>
    BY <1>10 DEF Recogniser, ServerReady, ServerFinal, ServerRepeats, ServerSilent, ServerSegment, ServerDrained,
               ServerGone, ServerOnly
  <2> QED
    BY <1>10, <2>1, SaidNow
<1>11. CASE Receiver
  BY <1>11 DEF Receiver, ReceiveReady, ReceiveFinal, ReceiveDrained, ReceiveGone, ReceiverOnly
<1> QED
  BY <1>3, <1>4, <1>5, <1>6, <1>7, <1>8, <1>9, <1>10, <1>11 DEF Processor

LEMMA VoiceStep ==
  ASSUME SpeechTypeOK, TextTypes, PhasesOK, StreamsOK, VoiceOK, Processor \/ Recogniser \/ Receiver, ~over, ~over'
  PROVE  VoiceOK'
<1>0. Counters /\ Marks /\ spoken \in [Turns -> Nat] /\ sent \in [Turns -> Nat] /\ said \in [Turns -> Seq(Segments)]
  BY SpeechTypes DEF TextTypes
<1>1. turn \in Nat /\ MaxTurns \in Nat /\ \A t \in Turns : t \in Nat
  BY <1>0, Bounds DEF Turns
<1> DEFINE Later == \A t \in Turns : t > turn => spoken[t] = 0 /\ sent[t] = 0 /\ said[t] = <<>>
           Counts(n) == turn \in Turns => spoken[turn] = sent[turn] + n
<1>2. Later /\ Counts(IF wait \in {"ready", "restart"} THEN 1 ELSE 0)
  BY <1>0 DEF VoiceOK
(* An onset that is not within an utterance is counted. *)
<1>3. ASSUME Detect("speaking"), ~active, UNCHANGED <<turn, said>>
      PROVE  /\ spoken' = [spoken EXCEPT ![turn] = @ + 1] /\ voicing' /\ vad' = "speaking" /\ turn \in Turns
             /\ ~voicing /\ spoken'[turn] = sent[turn] + 1
             /\ \A t \in Turns : t > turn => spoken'[t] = 0 /\ sent[t] = 0 /\ said'[t] = <<>>
  <2>1. ~voicing /\ turn \in Turns /\ wait = "none"
    BY <1>3 DEF Detect, Idle, VoiceOK
  <2>2. spoken' = [spoken EXCEPT ![turn] = @ + 1] /\ voicing' /\ vad' = "speaking"
    BY <1>3, <2>1 DEF Detect
  <2>3. spoken'[turn] = spoken[turn] + 1 /\ \A t \in Turns : t # turn => spoken'[t] = spoken[t]
    BY <1>0, <2>1, <2>2
  <2>4. spoken[turn] = sent[turn]
    BY <1>0, <1>2, <2>1
  <2> QED
    BY <1>1, <1>2, <1>3, <2>1, <2>2, <2>3, <2>4
<1>4. ASSUME Open, turn \in Turns, voicing', vad' = "speaking", spoken'[turn] = sent[turn] + 1,
             \A t \in Turns : t > turn => spoken'[t] = 0 /\ sent[t] = 0 /\ said[t] = <<>>
      PROVE  VoiceOK'
  <2>1. UNCHANGED <<turn, said>>
    BY <1>4 DEF Open
  <2>2. CASE provider = "local"
    <3>1. wait' = "ready" /\ sent' = sent
      BY <1>4, <2>2 DEF Open
    <3> QED
      BY <1>4, <2>1, <3>1 DEF VoiceOK
  <2>3. CASE provider # "local"
    <3>1. wait' = "none" /\ active' /\ prev' = "speaking" /\ sent' = [sent EXCEPT ![turn] = @ + 1]
      BY <1>4, <2>3 DEF Open
    <3>2. sent'[turn] = sent[turn] + 1 /\ \A t \in Turns : t # turn => sent'[t] = sent[t]
      BY <1>0, <1>4, <3>1
    <3> QED
      BY <1>1, <1>4, <2>1, <3>1, <3>2 DEF VoiceOK
  <2> QED
    BY <2>2, <2>3
<1>5. CASE StartUtterance
  <2>1. Detect("speaking") /\ ~active /\ Open /\ UNCHANGED <<turn, said>>
    BY <1>5 DEF StartUtterance, Open
  <2> QED
    BY <1>3, <1>4, <2>1
<1>6. CASE Resume
  <2>1. Open /\ wait = "restart" /\ UNCHANGED <<vad, voicing, spoken>>
    BY <1>6 DEF Resume
  <2>2. turn \in Turns /\ voicing /\ vad = "speaking"
    BY <2>1 DEF PhasesOK, VoiceOK
  <2> QED
    BY <1>2, <1>4, <2>1, <2>2
<1>7. CASE HoldBack
  <2>1. Detect("speaking") /\ ~active /\ UNCHANGED <<turn, said, sent>> /\ wait' = "restart"
    BY <1>7 DEF HoldBack, PhasesOK
  <2> QED
    BY <1>3, <2>1 DEF VoiceOK
<1>8. CASE Started
  <2>1. /\ wait = "ready" /\ wait' = "none" /\ active' /\ prev' = vad
        /\ sent' = [sent EXCEPT ![turn] = @ + 1] /\ UNCHANGED <<vad, turn, voicing, spoken, said>>
    BY <1>8 DEF Started
  <2>2. turn \in Turns /\ voicing /\ vad = "speaking"
    BY <2>1 DEF PhasesOK, VoiceOK
  <2>3. sent'[turn] = sent[turn] + 1 /\ \A t \in Turns : t # turn => sent'[t] = sent[t]
    BY <1>0, <2>1, <2>2
  <2> QED
    BY <1>0, <1>1, <1>2, <2>1, <2>2, <2>3 DEF VoiceOK
<1>9. ASSUME NEW s \in DOMAIN Following, Frame(s)
      PROVE  VoiceOK'
  <2>1. wait = "none" /\ wait' = "none" /\ prev' = s /\ UNCHANGED <<turn, said, sent>>
        /\ s \in {"quiet", "speaking", "stopping"}
    BY <1>9, States DEF Frame, Detect, Idle
  <2>2. s = "speaking" => active /\ voicing
    BY <1>9, <2>1 DEF Frame, Onset, VoiceOK
  <2>3. spoken' = spoken /\ (voicing' <=> s # "quiet" /\ voicing)
    BY <1>9, <2>2 DEF Frame, Detect
  <2>4. active' <=> active /\ s # "quiet"
    BY <1>9, <2>1 DEF Frame, Finalize, VoiceOK
  <2> QED
    BY <2>1, <2>2, <2>3, <2>4 DEF VoiceOK
<1>10. ASSUME NEW kind \in {"end", "close"}, End(kind)
       PROVE  VoiceOK'
  BY <1>10 DEF End, Idle, VoiceOK
<1>11. CASE EndTurn
  <2>1. ~active /\ turn \in Turns /\ wait \notin {"ready", "restart"}
    BY <1>11 DEF EndTurn, Reached, Idle, Pending, PhasesOK
  <2>2. /\ wait' = "none" /\ prev' = "quiet" /\ ~voicing' /\ turn' = turn + 1
        /\ UNCHANGED <<active, spoken, sent, said>>
    BY <1>11 DEF EndTurn
  <2>3. VoiceOK!1' /\ VoiceOK!2'
    BY <2>1, <2>2 DEF VoiceOK
  <2>4. turn + 1 > turn /\ \A t \in Turns : t > turn + 1 => t > turn
    BY <1>1
  <2>5. VoiceOK!3' /\ VoiceOK!4'
    BY <1>2, <2>2, <2>4
  <2> QED
    BY <2>3, <2>5 DEF VoiceOK
<1>12. CASE EndSession \/ Fails
  BY <1>12 DEF EndSession, Fails, Raise
<1>13. CASE Recogniser
  <2>1. UNCHANGED <<wait, active, voicing, prev, vad, turn, spoken, sent>>
    BY <1>13 DEF Recogniser, ServerReady, ServerFinal, ServerRepeats, ServerSilent, ServerSegment, ServerDrained,
               ServerGone, ServerOnly
  <2>2. \A t \in Turns : t # turn => said'[t] = said[t]
    BY <1>13, SaidNow
  <2>3. \A t \in Turns : t > turn => said'[t] = said[t]
    BY <1>0, <1>1, <2>2
  <2> QED
    BY <1>2, <2>1, <2>3 DEF VoiceOK
<1>14. CASE Receiver
  BY <1>14 DEF Receiver, ReceiveReady, ReceiveFinal, ReceiveDrained, ReceiveGone, ReceiverOnly, VoiceOK
<1> QED
  BY <1>5, <1>6, <1>7, <1>8, <1>9, <1>10, <1>11, <1>12, <1>13, <1>14 DEF Processor

(* What the end of a turn finds. *)
LEMMA TurnEnds ==
  ASSUME SpeechInv, ~over, EndTurn
  PROVE  /\ turn \in Turns /\ ~active /\ ~finalizing /\ ~protocolError /\ wait \in {"none", "end"}
         /\ spoken[turn] = sent[turn]
         /\ receipts'[turn] = said[turn]
         /\ turnOpen => said[turn] = segments
<1>0. TextTypes /\ PhasesOK /\ StreamsOK /\ VoiceOK /\ Marks
  BY SpeechTypes DEF SpeechInv
<1>1. /\ turn \in Turns /\ ~active /\ ~finalizing /\ ~protocolError /\ wait \in {"none", "end"}
  BY <1>0 DEF EndTurn, Reached, Idle, Pending, PhasesOK
<1>2. spoken[turn] = sent[turn]
  BY <1>0, <1>1 DEF VoiceOK
<1>3. TurnOK /\ (provider = "local" => LocalOK) /\ (provider = "cloud" => CloudOK)
  BY <1>1 DEF SpeechInv
<1>4. turnOpen => said[turn] = segments
  BY <1>0, <1>1, <1>3 DEF LocalOK, Waiting, CloudOK, StreamsOK, Marks
<1>5. (IF turnEmitted THEN <<>> ELSE segments) = said[turn]
  BY <1>1, <1>3, <1>4 DEF TurnOK
<1>6. receipts' = [receipts EXCEPT ![turn] = IF turnEmitted THEN <<>> ELSE segments]
  BY DEF EndTurn
<1>7. receipts'[turn] = said[turn]
  BY <1>0, <1>1, <1>5, <1>6 DEF TextTypes
<1> QED
  BY <1>1, <1>2, <1>4, <1>7

LEMMA WholeStep ==
  ASSUME SpeechInv, ~over, Processor \/ Recogniser \/ Receiver
  PROVE  TurnIsWhole'
<1>0. SpeechTypeOK /\ TextTypes /\ PhasesOK /\ StreamsOK /\ Counters
  BY SpeechTypes DEF SpeechInv
<1>1. turn \in Nat /\ MaxTurns \in Nat /\ turn - 1 <= MaxTurns
  BY <1>0, Bounds DEF Counters
<1>2. \A t \in 1..(turn - 1) : /\ t \in Turns /\ t # turn
                               /\ receipts'[t] = said'[t] /\ sent'[t] = spoken'[t]
  <2>1. \A t \in 1..(turn - 1) : t \in Turns /\ t # turn
    BY <1>1 DEF Turns
  <2> QED
    BY <1>0, <2>1, PastStays DEF SpeechInv, TurnIsWhole
<1>3. CASE UNCHANGED turn
  BY <1>2, <1>3 DEF TurnIsWhole
<1>4. CASE EndTurn
  <2>1. turn' = turn + 1 /\ UNCHANGED <<said, spoken, sent>>
    BY <1>4 DEF EndTurn
  <2>2. receipts'[turn] = said'[turn] /\ sent'[turn] = spoken'[turn]
    BY <1>4, <2>1, TurnEnds
  <2>3. \A t \in 1..(turn' - 1) : t = turn \/ t \in 1..(turn - 1)
    BY <1>1, <2>1
  <2> QED
    BY <1>2, <2>2, <2>3 DEF TurnIsWhole
<1> QED
  BY <1>0, <1>3, <1>4, PastStays

LEMMA TurnOKStep ==
  ASSUME SpeechInv, ~over, ~protocolError, Processor \/ Recogniser \/ Receiver, ~over', ~protocolError'
  PROVE  TurnOK'
<1>0. /\ SpeechTypeOK /\ TextTypes /\ PhasesOK /\ StreamsOK /\ VoiceOK /\ Counters /\ Marks /\ TurnOK
      /\ segments \in Seq(Segments) /\ said \in [Turns -> Seq(Segments)]
  BY SpeechTypes DEF SpeechInv, TextTypes
<1>1. utterance \in Nat /\ turn \in Nat /\ \A i \in DOMAIN segments : segments[i][1] \in Nat
  BY <1>0, Bounds DEF Counters, Segments
<1> USE DEF TurnOK
<1>2. ASSUME Open PROVE TurnOK'
  <2>1. /\ turnOpen' /\ utterance' = utterance + 1
        /\ (turnOpen /\ UNCHANGED <<segments, turnEmitted>>) \/ (segments' = <<>> /\ ~turnEmitted')
    <3>1. CASE turnOpen
      <4>1. turnOpen' = TRUE /\ UNCHANGED <<segments, turnEmitted>>
        BY <1>2, <3>1 DEF Open
      <4>2. turnOpen'
        BY <1>2 DEF Open
      <4>3. utterance' = utterance + 1 /\ UNCHANGED <<said, turn, repeatable, finalizing>>
        BY <1>2 DEF Open
      <4> QED
        BY <3>1, <4>1, <4>2, <4>3
    <3>2. CASE ~turnOpen
      BY <1>2, <3>2 DEF Open
    <3> QED
      BY <3>1, <3>2
  <2>2. \A i \in DOMAIN segments' : segments'[i][1] <= utterance'
    BY <1>0, <1>1, <2>1
  <2> QED
    BY <1>0, <2>1, <2>2
<1>3. ASSUME UNCHANGED <<turnOpen, turnEmitted, segments, utterance, turn>>,
             turn \in Turns /\ ~turnOpen => said'[turn] = said[turn]
      PROVE  TurnOK'
  BY <1>0, <1>3
<1>4. CASE StartUtterance \/ Resume
  BY <1>2, <1>4 DEF StartUtterance, Resume
<1>5. CASE HoldBack \/ Started \/ Fails \/ (\E s \in DOMAIN Following : Frame(s))
           \/ (\E kind \in {"end", "close"} : End(kind))
  <2> HIDE DEF TurnOK
  <2> QED
    BY <1>3, <1>5 DEF HoldBack, Started, Frame, Fails, Raise, End
<1>6. CASE EndTurn
  <2>1. ~turnOpen' /\ turn' = turn + 1 /\ UNCHANGED <<segments, utterance, said>>
    BY <1>6 DEF EndTurn
  <2>2. turnEmitted'
    BY <1>6 DEF EndTurn
  <2>3. turn' \in Turns => said'[turn'] = <<>>
    BY <1>0, <1>1, <2>1 DEF VoiceOK
  <2> QED
    BY <1>0, <2>1, <2>2, <2>3
<1>7. CASE EndSession
  BY <1>7 DEF EndSession
<1>8. CASE Recogniser
  <2>1. UNCHANGED <<turnOpen, turnEmitted, segments, utterance, turn>>
    BY <1>8 DEF Recogniser, ServerReady, ServerFinal, ServerRepeats, ServerSilent, ServerSegment, ServerDrained,
               ServerGone, ServerOnly
  <2>2. CASE ~turnOpen
    <3>1. said' = said
      <4>1. ~active /\ ~finalizing /\ wait = "none"
        BY <1>0, <2>2 DEF PhasesOK
      <4> QED
        BY <1>0, <1>8, <4>1 DEF Recogniser, ServerReady, ServerFinal, ServerRepeats, ServerSilent, ServerSegment,
               ServerDrained, ServerGone, StreamsOK, Marks
    <3> QED
      BY <1>3, <2>1, <3>1
  <2>3. CASE turnOpen
    BY <1>3, <2>1, <2>3
  <2> QED
    BY <2>2, <2>3
<1>9. CASE Receiver
  <2>1. UNCHANGED <<turnOpen, turnEmitted, utterance, turn, said>>
    BY <1>9 DEF Receiver, ReceiveReady, ReceiveFinal, ReceiveDrained, ReceiveGone, ReceiverOnly
  <2>2. CASE UNCHANGED segments
    BY <1>3, <2>1, <2>2
  <2>3. CASE ~UNCHANGED segments
    <3>1. ReceiveFinal /\ Head(inbox).segment[1] = utterance /\ segments' = Append(segments, Head(inbox).segment)
      BY <1>9, <2>3 DEF Receiver, ReceiveReady, ReceiveFinal, ReceiveDrained, ReceiveGone
    <3>2. receiver /\ NewFinal(Head(inbox).segment) /\ Take("final")
      BY <2>3, <3>1 DEF ReceiveFinal, Take
    <3>3. turnOpen
      <4>1. CASE provider = "local"
        BY <1>0, <3>1, <3>2, <4>1, FinalIsAwaited DEF SpeechInv, Waiting, PhasesOK
      <4>2. CASE provider = "cloud"
        BY <1>0, <3>2, <4>2 DEF StreamsOK, PhasesOK
      <4> QED
        BY <1>0, <4>1, <4>2 DEF Marks
    <3>4. \A i \in DOMAIN segments' : segments'[i][1] <= utterance
      <4>1. DOMAIN segments' = 1..(Len(segments) + 1) /\ segments'[Len(segments) + 1] = Head(inbox).segment
            /\ \A i \in 1..Len(segments) : segments'[i] = segments[i]
        BY <1>0, <3>1
      <4> QED
        BY <1>0, <1>1, <3>1, <4>1
    <3> QED
      BY <1>0, <2>1, <3>3, <3>4
  <2> QED
    BY <2>2, <2>3
<1> QED
  BY <1>4, <1>5, <1>6, <1>7, <1>8, <1>9 DEF Processor

(* rtc-asr: what stays as it is when the text and the stream do. *)
LEMMA LocalStays ==
  ASSUME LocalOK, UNCHANGED <<segments, utterance>>,
         turnOpen' => (turnOpen /\ said'[turn'] = said[turn]) \/ Waiting',
         active' \/ finalizing' \/ wait' = "ready" => active \/ finalizing \/ wait = "ready",
         Waiting => Waiting', repeatable' \subseteq repeatable,
         \A i \in DOMAIN inbox' : \/ \E j \in DOMAIN inbox : inbox'[i] = inbox[j]
                                  \/ inbox'[i].type \in {"ready", "gone"}
                                  \/ /\ inbox'[i].type = "final" /\ inbox'[i].segment[2] = 1
                                     /\ inbox'[i].segment[1] \in repeatable
  PROVE  LocalOK'
<1>1. IsKnown => IsKnown'
  BY DEF IsKnown, Final
<1>2. turnOpen' => said'[turn'] = segments' \/ Waiting'
  BY DEF LocalOK
<1>3. LocalOK!2' /\ LocalOK!3' /\ LocalOK!4'
  BY <1>1 DEF LocalOK
<1>4. ASSUME NEW i \in DOMAIN inbox'
      PROVE  /\ inbox'[i].type # "drained"
             /\ inbox'[i].type = "final" => /\ inbox'[i].segment[2] = 1 /\ inbox'[i].segment[1] <= utterance'
                                            /\ inbox'[i].segment[1] = utterance' => IsKnown'
  <2>1. CASE \E j \in DOMAIN inbox : inbox'[i] = inbox[j]
    BY <1>1, <2>1 DEF LocalOK
  <2>2. CASE inbox'[i].type \in {"ready", "gone"}
    BY <2>2
  <2>3. CASE inbox'[i].type = "final" /\ inbox'[i].segment[2] = 1 /\ inbox'[i].segment[1] \in repeatable
    BY <1>1, <2>3 DEF LocalOK
  <2> QED
    BY <2>1, <2>2, <2>3
<1> QED
  BY <1>2, <1>3, <1>4 DEF LocalOK

LEMMA Appended ==
  ASSUME NEW S, NEW q \in Seq(S), NEW x \in S, NEW q2, q2 = Append(q, x)
  PROVE  /\ DOMAIN q = 1..Len(q) /\ DOMAIN q2 = 1..(Len(q) + 1) /\ Len(q) \in Nat /\ Len(q2) = Len(q) + 1
         /\ q2[Len(q) + 1] = x
         /\ \A i \in 1..Len(q) : q2[i] = q[i] /\ i \in 1..(Len(q) + 1)
         /\ \A i \in 1..(Len(q) + 1) : i \in 1..Len(q) \/ i = Len(q) + 1
  OBVIOUS

LEMMA TakenFirst ==
  ASSUME TextTypes, NEW type, Take(type)
  PROVE  /\ Len(inbox) \in Nat \ {0} /\ DOMAIN inbox = 1..Len(inbox) /\ Len(inbox') = Len(inbox) - 1
         /\ DOMAIN inbox' = 1..(Len(inbox) - 1)
         /\ Head(inbox) = inbox[1] /\ inbox[1] \in Messages /\ inbox[1].type = type
         /\ \A i \in 1..(Len(inbox) - 1) : inbox'[i] = inbox[i + 1] /\ i + 1 \in 1..Len(inbox)
         /\ \A i \in 1..Len(inbox) : i = 1 \/ (i - 1 \in 1..(Len(inbox) - 1) /\ inbox'[i - 1] = inbox[i])
<1>1. inbox # <<>> /\ inbox \in Seq(Messages) /\ inbox' = Tail(inbox) /\ Head(inbox).type = type
  BY DEF Take, TextTypes
<1>2. Len(inbox) \in Nat \ {0} /\ DOMAIN inbox = 1..Len(inbox) /\ Head(inbox) = inbox[1]
  BY <1>1
<1>3. DOMAIN inbox' = 1..(Len(inbox) - 1) /\ Len(inbox') = Len(inbox) - 1
      /\ \A i \in 1..(Len(inbox) - 1) : inbox'[i] = inbox[i + 1]
  BY <1>1, <1>2
<1>4. \A i \in 1..Len(inbox) : i = 1 \/ (i - 1 \in 1..(Len(inbox) - 1) /\ inbox'[i - 1] = inbox[i])
  <2>1. ASSUME NEW i \in 1..Len(inbox), i # 1
        PROVE  i - 1 \in 1..(Len(inbox) - 1) /\ (i - 1) + 1 = i
    BY <1>2, <2>1
  <2>2. ASSUME NEW i \in 1..Len(inbox), i # 1
        PROVE  inbox'[i - 1] = inbox[i]
    <3> DEFINE j == i - 1
    <3>1. j \in 1..(Len(inbox) - 1) /\ j + 1 = i
      BY <2>1, <2>2
    <3> QED
      BY <1>3, <3>1
  <2> QED
    <3> SUFFICES ASSUME NEW i \in 1..Len(inbox)
                 PROVE  i = 1 \/ (i - 1 \in 1..(Len(inbox) - 1) /\ inbox'[i - 1] = inbox[i])
      OBVIOUS
    <3>1. i # 1 => i - 1 \in 1..(Len(inbox) - 1) /\ inbox'[i - 1] = inbox[i]
      BY <2>1, <2>2
    <3> QED
      BY <3>1
<1>5. \A i \in 1..(Len(inbox) - 1) : i + 1 \in 1..Len(inbox)
  BY <1>2
<1>6. inbox[1] \in Messages /\ inbox[1].type = type
  BY <1>1, <1>2
<1> QED
  BY <1>2, <1>3, <1>4, <1>5, <1>6

LEMMA LocalOKStep ==
  ASSUME SpeechInv, ~over, ~protocolError, Processor \/ Recogniser \/ Receiver, ~over', ~protocolError',
         provider = "local"
  PROVE  LocalOK'
<1>0. /\ SpeechTypeOK /\ TextTypes /\ PhasesOK /\ StreamsOK /\ VoiceOK /\ Counters /\ Marks /\ TurnOK /\ LocalOK
      /\ segments \in Seq(Segments) /\ said \in [Turns -> Seq(Segments)] /\ inbox \in Seq(Messages)
      /\ utterance \in Nat
  BY SpeechTypes DEF SpeechInv, TextTypes, Counters
<1>1. /\ \A i \in DOMAIN segments : segments[i][1] \in Nat
      /\ \A i \in DOMAIN inbox : inbox[i].type = "final" => inbox[i].segment[1] \in Nat
      /\ repeatable \subseteq Nat
  <2>1. \A i \in DOMAIN inbox : inbox[i] \in Messages
    BY <1>0
  <2>2. \A i \in DOMAIN inbox : inbox[i].type = "final" => inbox[i].segment[1] \in Nat
    BY <2>1, FinalTypes DEF Segments
  <2> QED
    BY <1>0, <2>2 DEF Segments, TextTypes
<1>2. ASSUME Open, ~finalizing, turn \in Turns PROVE LocalOK'
  <2>1. /\ utterance' = utterance + 1 /\ UNCHANGED <<said, turn, inbox, repeatable, finalizing>>
        /\ (turnOpen /\ UNCHANGED segments) \/ (~turnOpen /\ segments' = <<>>)
    <3>1. CASE turnOpen
      <4>1. turnOpen' = TRUE /\ UNCHANGED <<segments, turnEmitted>>
        BY <1>2, <3>1 DEF Open
      <4>2. utterance' = utterance + 1 /\ UNCHANGED <<said, turn, inbox, repeatable, finalizing>>
        BY <1>2 DEF Open
      <4> QED
        BY <3>1, <4>1, <4>2
    <3>2. CASE ~turnOpen
      BY <1>2, <3>2 DEF Open
    <3> QED
      BY <3>1, <3>2
  <2>2. said'[turn'] = segments'
    BY <1>0, <1>2, <2>1 DEF LocalOK, Waiting, TurnOK
  <2>3. \A i \in DOMAIN segments' : segments'[i][1] # utterance'
    <3>1. \A i \in DOMAIN segments : segments[i][1] # utterance + 1
      BY <1>0, <1>1 DEF TurnOK
    <3> QED
      BY <2>1, <3>1
  <2>4. \A u \in repeatable' : u <= utterance' /\ u # utterance'
    <3>1. \A u \in repeatable : u \in Nat /\ u <= utterance
      BY <1>0, <1>1 DEF LocalOK
    <3>2. \A u \in Nat : u <= utterance => u <= utterance + 1 /\ u # utterance + 1
      BY <1>0
    <3> QED
      BY <2>1, <3>1, <3>2
  <2>5. \A i \in DOMAIN inbox' : inbox'[i].type # "drained"
    BY <1>0, <2>1 DEF LocalOK
  <2>6. \A i \in DOMAIN inbox' : inbox'[i].type = "final" =>
          inbox'[i].segment[2] = 1 /\ inbox'[i].segment[1] <= utterance' /\ inbox'[i].segment[1] # utterance'
    BY <1>0, <1>1, <2>1 DEF LocalOK
  <2> QED
    BY <2>2, <2>3, <2>4, <2>5, <2>6 DEF LocalOK
(* The processor otherwise leaves text, stream and inbox alone. *)
<1>3. ASSUME UNCHANGED <<segments, utterance, said, turn, repeatable, inbox, turnOpen>>,
             active' \/ finalizing' \/ wait' = "ready" => active \/ finalizing \/ wait = "ready",
             finalizing => finalizing' /\ UNCHANGED server
      PROVE  LocalOK'
  <2>1. Waiting => Waiting'
    BY <1>3 DEF Waiting, OnTheWay, Final
  <2> QED
    BY <1>0, <1>3, <2>1, LocalStays
<1>4. CASE StartUtterance
  BY <1>2, <1>4 DEF StartUtterance, Detect, Idle
<1>5. CASE Resume
  BY <1>0, <1>2, <1>5 DEF Resume, PhasesOK
<1>6. CASE HoldBack \/ Started
  BY <1>3, <1>6 DEF HoldBack, Started, socket
<1>7. ASSUME NEW s \in DOMAIN Following, Frame(s)
      PROVE  LocalOK'
  <2>1. wait = "none" /\ ~(active /\ finalizing)
    BY <1>0, <1>7 DEF Frame, Detect, Idle, PhasesOK
  <2> QED
    BY <1>3, <1>7, <2>1 DEF Frame, Finalize
<1>8. ASSUME NEW kind \in {"end", "close"}, End(kind)
      PROVE  LocalOK'
  <2>1. ~(active /\ finalizing)
    BY <1>0 DEF PhasesOK
  <2> QED
    BY <1>3, <1>8, <2>1 DEF End, Idle, Pending, Finalize
<1>9. CASE EndTurn
  <2>1. ~active /\ ~finalizing /\ wait' = "none" /\ ~turnOpen'
        /\ UNCHANGED <<segments, utterance, repeatable, inbox, active, finalizing>>
    BY <1>9, TurnEnds DEF EndTurn, socket
  <2>2. ~Waiting
    BY <2>1 DEF Waiting
  <2> QED
    BY <1>0, <2>1, <2>2, LocalStays
<1>10. CASE EndSession \/ Fails
  BY <1>10 DEF EndSession, Fails, Raise
<1>11. CASE Recogniser
  <2>1. UNCHANGED <<segments, utterance, turn, turnOpen, active, finalizing, wait>>
    BY <1>11 DEF Recogniser, ServerReady, ServerFinal, ServerRepeats, ServerSilent, ServerSegment, ServerDrained,
               ServerGone, ServerOnly
  <2>2. ASSUME NEW m \in Messages, Message(m)
        PROVE  /\ \A i \in DOMAIN inbox' : (\E j \in DOMAIN inbox : inbox'[i] = inbox[j]) \/ inbox'[i] = m
               /\ \A j \in DOMAIN inbox : j \in DOMAIN inbox' /\ inbox'[j] = inbox[j]
               /\ \E i \in DOMAIN inbox' : inbox'[i] = m
    <3>1. inbox' = Append(inbox, m)
      BY <2>2 DEF Message
    <3>2. /\ DOMAIN inbox = 1..Len(inbox) /\ DOMAIN inbox' = 1..(Len(inbox) + 1) /\ Len(inbox) \in Nat
          /\ inbox'[Len(inbox) + 1] = m /\ \A i \in 1..Len(inbox) : inbox'[i] = inbox[i]
          /\ \A i \in 1..(Len(inbox) + 1) : i \in 1..Len(inbox) \/ i = Len(inbox) + 1
      BY <1>0, <3>1, Appended
    <3>3. Len(inbox) + 1 \in DOMAIN inbox'
      BY <3>2
    <3> QED
      BY <3>2, <3>3
  <2>3. OnTheWay => OnTheWay'
    <3>1. \A j \in DOMAIN inbox : j \in DOMAIN inbox' /\ inbox'[j] = inbox[j]
      <4>1. CASE UNCHANGED inbox
        BY <4>1
      <4>2. CASE \E m \in Messages : Message(m)
        BY <2>2, <4>2
      <4>3. UNCHANGED inbox \/ \E m \in Messages : Message(m)
        <5>1. \A n : ServerFinal => <<utterance, 1>> \in Segments
          BY <1>0 DEF Segments
        <5>2. \A u \in repeatable : <<u, 1>> \in Segments
          BY <1>1 DEF Segments
        <5> QED
          BY <1>0, <1>11, <5>1, <5>2, MessageTypes DEF Recogniser, ServerReady, ServerFinal, ServerRepeats, ServerSilent, ServerSegment,
             ServerDrained, ServerGone, Says
      <4> QED
        BY <4>1, <4>2, <4>3
    <3> QED
      BY <2>1, <3>1 DEF OnTheWay, Final
  <2>4. CASE ServerReady
    <3>1. server = "started" /\ Message([type |-> "ready"]) /\ UNCHANGED <<repeatable, said>>
      BY <2>4 DEF ServerReady
    <3>2. ~Waiting
      BY <3>1 DEF Waiting
    <3>3. \A i \in DOMAIN inbox' : (\E j \in DOMAIN inbox : inbox'[i] = inbox[j]) \/ inbox'[i].type = "ready"
      BY <2>2, <3>1, MessageTypes
    <3> QED
      BY <1>0, <2>1, <3>1, <3>2, <3>3, LocalStays
  <2>5. CASE ServerGone
    <3>1. server' = "gone" /\ Message([type |-> "gone"]) /\ UNCHANGED <<repeatable, said>>
      BY <2>5 DEF ServerGone
    <3>2. Waiting => Waiting'
      BY <2>1, <2>3, <3>1 DEF Waiting, Final
    <3>3. \A i \in DOMAIN inbox' : (\E j \in DOMAIN inbox : inbox'[i] = inbox[j]) \/ inbox'[i].type = "gone"
      BY <2>2, <3>1, MessageTypes
    <3> QED
      BY <1>0, <2>1, <3>1, <3>2, <3>3, LocalStays
  <2>6. CASE ServerSilent
    <3>1. server = "final" /\ UNCHANGED <<repeatable, said, inbox>>
      BY <2>6 DEF ServerSilent
    <3>2. ~Waiting
      BY <3>1 DEF Waiting
    <3> QED
      BY <1>0, <2>1, <3>1, <3>2, LocalStays
  <2>7. CASE ServerRepeats
    <3>1. PICK u \in repeatable : Message([type |-> "final", segment |-> <<u, 1>>]) /\ repeatable' = repeatable \ {u}
      BY <2>7 DEF ServerRepeats
    <3>2. UNCHANGED <<server, said>>
      BY <2>7 DEF ServerRepeats
    <3>3. Waiting => Waiting'
      BY <2>1, <2>3, <3>2 DEF Waiting, Final
    <3>4. [type |-> "final", segment |-> <<u, 1>>] \in Messages
      BY <1>1, MessageTypes DEF Segments
    <3>5. \A i \in DOMAIN inbox' : \/ \E j \in DOMAIN inbox : inbox'[i] = inbox[j]
                                   \/ /\ inbox'[i].type = "final" /\ inbox'[i].segment[2] = 1
                                      /\ inbox'[i].segment[1] \in repeatable
      BY <2>2, <3>1, <3>4
    <3> QED
      BY <1>0, <2>1, <3>1, <3>2, <3>3, <3>5, LocalStays
  <2>8. CASE ServerFinal
    <3>1. /\ server = "final" /\ server' = "done" /\ Says(1) /\ repeatable' = repeatable \cup {utterance}
      BY <2>8 DEF ServerFinal
    <3>2. finalizing /\ turnOpen /\ opened = turn /\ turn \in Turns
      BY <1>0, <3>1 DEF StreamsOK, PhasesOK
    <3>3. said[turn] = segments
      BY <1>0, <3>1, <3>2 DEF LocalOK, Waiting
    <3>4. Message([type |-> "final", segment |-> Final]) /\ said' = [said EXCEPT ![turn] = Append(@, Final)]
      BY <3>1, <3>2 DEF Says, Final
    <3>5. said'[turn] = Append(segments, Final)
      BY <1>0, <3>2, <3>3, <3>4
    <3>6. [type |-> "final", segment |-> Final] \in Messages
      BY <1>0, MessageTypes DEF Segments, Final
    <3>7. Waiting' /\ IsKnown'
      BY <2>1, <2>2, <3>1, <3>2, <3>4, <3>5, <3>6 DEF Waiting, OnTheWay, Final, IsKnown
    <3>8. \A i \in DOMAIN inbox' : /\ inbox'[i].type # "drained"
                                   /\ inbox'[i].type = "final" => /\ inbox'[i].segment[2] = 1
                                                                  /\ inbox'[i].segment[1] <= utterance
      <4>1. Final[1] = utterance /\ Final[2] = 1 /\ utterance <= utterance
        BY <1>0 DEF Final
      <4> QED
        BY <1>0, <2>2, <3>4, <3>6, <4>1 DEF LocalOK
    <3>9. \A u \in repeatable' : u <= utterance
      BY <1>0, <3>1 DEF LocalOK
    <3>10. \A i \in DOMAIN segments : segments[i][1] # utterance
      BY <1>0, <3>2 DEF LocalOK
    <3> QED
      BY <2>1, <3>7, <3>8, <3>9, <3>10 DEF LocalOK
  <2>9. CASE ServerSegment \/ ServerDrained
    BY <2>9 DEF ServerSegment, ServerDrained
  <2> QED
    BY <1>11, <2>4, <2>5, <2>6, <2>7, <2>8, <2>9 DEF Recogniser
<1>12. CASE Receiver
  <2>1. UNCHANGED <<utterance, turn, turnOpen, active, wait, said, repeatable, server>>
    BY <1>12 DEF Receiver, ReceiveReady, ReceiveFinal, ReceiveDrained, ReceiveGone, ReceiverOnly
  <2>2. PICK type : Take(type)
    BY <1>12 DEF Receiver, ReceiveReady, ReceiveFinal, ReceiveDrained, ReceiveGone
  <2>3. \A i \in DOMAIN inbox' : \E j \in DOMAIN inbox : inbox'[i] = inbox[j]
    BY <1>0, <2>2, TakenFirst
  <2>4. \A i \in DOMAIN inbox : i = 1 \/ (i - 1 \in DOMAIN inbox' /\ inbox'[i - 1] = inbox[i])
    BY <1>0, <2>2, TakenFirst
  <2>5. OnTheWay /\ inbox[1] # [type |-> "final", segment |-> Final] => OnTheWay'
    BY <2>1, <2>4 DEF OnTheWay, Final
  <2>6. CASE ReceiveReady
    <3>1. inbox[1].type = "ready" /\ UNCHANGED <<finalizing, segments>>
      BY <1>0, <2>6, TakenFirst DEF ReceiveReady
    <3>2. Waiting => Waiting'
      BY <2>1, <2>5, <3>1 DEF Waiting, Final
    <3> QED
      BY <1>0, <2>1, <2>3, <3>1, <3>2, LocalStays
  <2>7. CASE ReceiveFinal
    <3>1. Take("final") /\ Head(inbox) = inbox[1] /\ Len(inbox) > 0
      BY <1>0, <2>7, TakenFirst DEF ReceiveFinal
    <3>2. CASE Head(inbox).segment[1] = utterance /\ NewFinal(Head(inbox).segment)
      <4>1. Waiting /\ Head(inbox).segment = Final
        BY <1>0, <3>1, <3>2, FinalIsAwaited
      <4>2. segments' = Append(segments, Final) /\ ~finalizing' /\ ~active /\ wait # "ready"
        BY <1>0, <2>7, <3>2, <4>1 DEF ReceiveFinal, Waiting, PhasesOK
      <4>3. said'[turn'] = segments'
        BY <2>1, <4>1, <4>2 DEF Waiting
      <4>4. IsKnown'
        <5>1. Final \in Segments
          BY <1>0 DEF Final, Segments
        <5>2. Len(segments) \in Nat /\ DOMAIN segments' = 1..(Len(segments) + 1) /\ segments'[Len(segments) + 1] = Final
          BY <1>0, <4>2, <5>1, Appended
        <5>3. Len(segments) + 1 \in DOMAIN segments'
          BY <5>2
        <5> QED
          BY <2>1, <5>2, <5>3 DEF IsKnown, Final
      <4> QED
        BY <1>0, <2>1, <2>3, <4>2, <4>3, <4>4 DEF LocalOK
    <3>3. CASE ~(Head(inbox).segment[1] = utterance /\ NewFinal(Head(inbox).segment))
      <4>1. UNCHANGED <<segments, finalizing>>
        BY <2>7, <3>3 DEF ReceiveFinal
      <4>2. ASSUME finalizing PROVE inbox[1] # [type |-> "final", segment |-> Final]
        <5>1. \A i \in DOMAIN segments : segments[i][1] # utterance
          BY <1>0, <4>2 DEF LocalOK
        <5>2. NewFinal(Final) /\ Final[1] = utterance
          BY <1>0, <5>1 DEF NewFinal, Contains, Final
        <5> QED
          BY <3>1, <3>3, <5>2
      <4>3. Waiting => Waiting'
        BY <2>1, <2>5, <4>1, <4>2 DEF Waiting, Final
      <4> QED
        BY <1>0, <2>1, <2>3, <4>1, <4>3, LocalStays
    <3> QED
      BY <3>2, <3>3
  <2>8. CASE ReceiveDrained
    <3>1. 1 \in DOMAIN inbox /\ inbox[1].type = "drained"
      BY <1>0, <2>8, TakenFirst DEF ReceiveDrained
    <3> QED
      BY <1>0, <3>1 DEF LocalOK
  <2>9. CASE ReceiveGone
    BY <2>9 DEF ReceiveGone
  <2> QED
    BY <1>12, <2>6, <2>7, <2>8, <2>9 DEF Receiver
<1> QED
  BY <1>4, <1>5, <1>6, <1>7, <1>8, <1>9, <1>10, <1>11, <1>12 DEF Processor

(* The clouds: what stays as it is when the text and the inbox do. *)
LEMMA CloudStays ==
  ASSUME CloudOK, UNCHANGED <<segments, utterance, said, turn, inbox, repeatable, receiver, opened>>,
         turnOpen' => turnOpen, server \in {"done", "gone"} => server' \in {"done", "gone"},
         finalizing' /\ server' = "done" => finalizing /\ server = "done"
  PROVE  CloudOK'
<1>1. Found' = Found
  BY DEF Found
<1>2. NumberedOK => NumberedOK'
  BY <1>1 DEF NumberedOK
<1>3. ASSUME NEW k \in 0..Len(inbox), Delivers(k)
      PROVE  Delivers(k)'
  BY <1>3 DEF Delivers
<1>4. turnOpen' /\ receiver' => \E k \in 0..Len(inbox') : Delivers(k)'
  BY <1>3 DEF CloudOK
<1>5. finalizing' /\ server' = "done" => \E i \in DOMAIN inbox' : inbox'[i].type = "drained"
  BY DEF CloudOK
<1>6. turnOpen' /\ ~receiver' => said'[turn'] = segments'
  BY DEF CloudOK
<1> QED
  BY <1>2, <1>4, <1>5, <1>6 DEF CloudOK

(* One more segment of the stream is found. *)
LEMMA FoundOneMore ==
  ASSUME TextTypes, Counters, NEW n \in Nat, UNCHANGED <<opened, utterance>>,
         said'[opened] = Append(said[opened], <<utterance, n>>)
  PROVE  Found' = Found + 1
<1> DEFINE s == said[opened]
           s2 == said'[opened]
           S == {i \in DOMAIN s : s[i][1] = utterance}
           T == {i \in DOMAIN s2 : s2[i][1] = utterance}
<1>1. s \in Seq(Segments) /\ <<utterance, n>> \in Segments
  BY DEF TextTypes, Counters, Segments
<1>2. /\ DOMAIN s = 1..Len(s) /\ DOMAIN s2 = 1..(Len(s) + 1) /\ Len(s) \in Nat
      /\ s2[Len(s) + 1] = <<utterance, n>> /\ \A i \in 1..Len(s) : s2[i] = s[i]
      /\ \A i \in 1..Len(s) : i \in 1..(Len(s) + 1)
      /\ \A i \in 1..(Len(s) + 1) : i \in 1..Len(s) \/ i = Len(s) + 1
  BY <1>1, Appended
<1> HIDE DEF s, s2
<1>3. T = S \cup {Len(s) + 1} /\ Len(s) + 1 \notin S
  <2>1. <<utterance, n>>[1] = utterance /\ Len(s) + 1 \in 1..(Len(s) + 1) /\ Len(s) + 1 \notin 1..Len(s)
    BY <1>2
  <2> QED
    BY <1>2, <2>1
<1>4. IsFiniteSet(S)
  <2>1. IsFiniteSet(1..Len(s)) /\ S \subseteq 1..Len(s)
    BY <1>2, FS_Interval
  <2> QED
    BY <2>1, FS_Subset
<1>5. Cardinality(T) = Cardinality(S) + 1
  BY <1>3, <1>4, FS_AddElement
<1>6. Found' = Cardinality(T) /\ Found = Cardinality(S)
  BY DEF Found, s, s2
<1> QED
  BY <1>5, <1>6

LEMMA CloudOKStep ==
  ASSUME SpeechInv, ~over, ~protocolError, Processor \/ Recogniser \/ Receiver, ~over', ~protocolError',
         provider = "cloud"
  PROVE  CloudOK'
<1>0. /\ SpeechTypeOK /\ TextTypes /\ PhasesOK /\ StreamsOK /\ VoiceOK /\ Counters /\ Marks /\ TurnOK /\ CloudOK
      /\ segments \in Seq(Segments) /\ said \in [Turns -> Seq(Segments)] /\ inbox \in Seq(Messages)
      /\ utterance \in Nat
  BY SpeechTypes DEF SpeechInv, TextTypes, Counters
<1>1. /\ Len(segments) \in Nat /\ DOMAIN segments = 1..Len(segments)
      /\ Len(inbox) \in Nat /\ DOMAIN inbox = 1..Len(inbox) /\ repeatable = {}
  BY <1>0 DEF CloudOK
<1>2. ASSUME turnOpen
      PROVE  /\ turn \in Turns /\ opened = turn /\ said[turn] \in Seq(Segments) /\ NumberedOK
             /\ Len(said[turn]) \in Nat /\ DOMAIN said[turn] = 1..Len(said[turn])
             /\ \A i \in DOMAIN said[turn] : said[turn][i] \in Segments
  <2>1. turn \in Turns /\ opened = turn /\ NumberedOK
    BY <1>0, <1>2 DEF PhasesOK, CloudOK
  <2>2. said[turn] \in Seq(Segments)
    BY <1>0, <2>1
  <2> QED
    BY <2>1, <2>2
<1>3. ASSUME Open, ~finalizing, ~active, turn \in Turns PROVE CloudOK'
  <2>1. /\ utterance' = utterance + 1 /\ UNCHANGED <<said, turn, repeatable>> /\ inbox' = <<>>
        /\ (turnOpen /\ UNCHANGED segments) \/ (~turnOpen /\ segments' = <<>>)
    <3>1. CASE turnOpen
      BY <1>3, <3>1 DEF Open
    <3>2. CASE ~turnOpen
      BY <1>3, <3>2 DEF Open
    <3> QED
      BY <3>1, <3>2
  <2>2. server' = "open" /\ receiver' = TRUE
    BY <1>3 DEF Open
  <2>3. said[turn] = segments' /\ said'[turn'] = segments'
    <3>1. CASE turnOpen
      BY <1>0, <1>3, <2>1, <3>1 DEF CloudOK, StreamsOK
    <3>2. CASE ~turnOpen
      BY <1>0, <1>3, <2>1, <3>2 DEF TurnOK
    <3> QED
      BY <3>1, <3>2
  <2>4. segments' \in Seq(Segments) /\ Len(segments') \in Nat /\ DOMAIN segments' = 1..Len(segments')
        /\ Len(inbox') = 0
    BY <1>0, <1>3, <2>1, <2>3
  <2>5. Delivers(0)'
    BY <2>1, <2>3, <2>4 DEF Delivers
  <2>6. 0 \in 0..Len(inbox')
    BY <2>4
  <2>7. \A i \in DOMAIN segments' : segments'[i][1] < utterance'
    <3>1. \A i \in DOMAIN segments' : segments'[i] \in Segments
      BY <2>4
    <3>2. \A i \in DOMAIN segments' : segments'[i][1] \in Nat /\ segments'[i][1] <= utterance
      <4>1. CASE turnOpen
        BY <1>2, <2>1, <2>3, <3>1, <4>1 DEF NumberedOK, Segments
      <4>2. CASE ~turnOpen
        BY <2>1, <4>2
      <4> QED
        BY <4>1, <4>2
    <3> QED
      BY <1>0, <2>1, <3>2
  <2>8. \A i, j \in DOMAIN segments' : segments'[i] = segments'[j] => i = j
    <3>1. CASE turnOpen
      BY <1>2, <2>3, <3>1 DEF NumberedOK
    <3>2. CASE ~turnOpen
      BY <2>1, <3>2
    <3> QED
      BY <3>1, <3>2
  <2>9. NumberedOK'
    <3>1. \A i \in DOMAIN segments' : segments'[i][1] <= utterance' /\ ~(i > Len(segments'))
                                      /\ segments'[i][1] # utterance'
      <4>1. \A i \in DOMAIN segments' : segments'[i][1] \in Nat
        BY <2>4 DEF Segments
      <4> QED
        BY <1>0, <2>1, <2>4, <2>7, <4>1
    <3> QED
      BY <2>3, <2>8, <3>1 DEF NumberedOK
  <2> QED
    BY <1>1, <2>1, <2>2, <2>5, <2>6, <2>9 DEF CloudOK
<1>4. CASE StartUtterance
  BY <1>3, <1>4 DEF StartUtterance, Detect, Idle
<1>5. CASE Resume
  BY <1>0, <1>3, <1>5 DEF Resume, PhasesOK
<1>6. CASE HoldBack \/ Started
  BY <1>0, <1>6, CloudStays DEF HoldBack, Started, socket
<1>7. ASSUME UNCHANGED <<segments, utterance, said, turn, inbox, repeatable, receiver, opened, turnOpen>>,
             IF active' = active THEN UNCHANGED <<finalizing, server>> ELSE active /\ Finalize
      PROVE  CloudOK'
  <2>1. CASE active' = active
    BY <1>0, <1>7, <2>1, CloudStays
  <2>2. CASE active' # active
    <3>1. server \in {"started", "open", "gone"} /\ server' = IF server = "gone" THEN "gone" ELSE "final"
      BY <1>0, <1>7, <2>2 DEF Finalize, Asked, StreamsOK
    <3> QED
      BY <1>0, <1>7, <3>1, CloudStays
  <2> QED
    BY <2>1, <2>2
<1>8. ASSUME NEW s \in DOMAIN Following, Frame(s)
      PROVE  CloudOK'
  <2>1. UNCHANGED <<segments, utterance, said, turn, inbox, repeatable, receiver, opened, turnOpen>>
    BY <1>8 DEF Frame
  <2>2. CASE active /\ s = "quiet" /\ prev # "quiet"
    BY <1>7, <1>8, <2>1, <2>2 DEF Frame, Finalize
  <2>3. CASE ~(active /\ s = "quiet" /\ prev # "quiet")
    BY <1>7, <1>8, <2>1, <2>3 DEF Frame
  <2> QED
    BY <2>2, <2>3
<1>9. ASSUME NEW kind \in {"end", "close"}, End(kind)
      PROVE  CloudOK'
  <2>1. UNCHANGED <<segments, utterance, said, turn, inbox, repeatable, receiver, opened, turnOpen>>
    BY <1>9 DEF End
  <2>2. CASE active
    BY <1>7, <1>9, <2>1, <2>2 DEF End, Finalize
  <2>3. CASE ~active
    BY <1>7, <1>9, <2>1, <2>3 DEF End
  <2> QED
    BY <2>2, <2>3
<1>10. CASE EndTurn
  <2>1. ~finalizing' /\ ~turnOpen' /\ repeatable' = repeatable
    BY <1>10, TurnEnds DEF EndTurn, socket
  <2> QED
    BY <1>1, <2>1 DEF CloudOK
<1>11. CASE EndSession \/ Fails
  BY <1>11 DEF EndSession, Fails, Raise
<1>12. CASE Recogniser
  <2>1. /\ UNCHANGED <<segments, utterance, turn, turnOpen, active, finalizing, wait, opened>> /\ receiver
        /\ UNCHANGED receiver
    BY <1>12 DEF Recogniser, ServerReady, ServerFinal, ServerRepeats, ServerSilent, ServerSegment, ServerDrained,
               ServerGone, ServerOnly
  <2>2. turnOpen
    BY <1>0, <2>1 DEF StreamsOK, PhasesOK
  <2>3. PICK k \in 0..Len(inbox) : Delivers(k)
    BY <1>0, <2>1, <2>2 DEF CloudOK
  <2>k. k \in Nat
    BY <1>1
  <2>d. /\ Len(said[turn]) = Len(segments) + k
        /\ \A i \in 1..Len(segments) : said[turn][i] = segments[i]
        /\ \A i \in 1..k : inbox[i] = [type |-> "final", segment |-> said[turn][Len(segments) + i]]
        /\ \A i \in 1..Len(inbox) : i > k => inbox[i].type # "final"
    BY <2>3 DEF Delivers
  <2>4. ASSUME NEW m \in Messages, Message(m)
        PROVE  /\ DOMAIN inbox' = 1..(Len(inbox) + 1) /\ Len(inbox') = Len(inbox) + 1
               /\ inbox'[Len(inbox) + 1] = m /\ \A i \in 1..Len(inbox) : inbox'[i] = inbox[i]
               /\ \A i \in 1..(Len(inbox) + 1) : i \in 1..Len(inbox) \/ i = Len(inbox) + 1
    BY <1>0, <2>4, Appended DEF Message
  (* A message that is no segment. *)
  <2>5. ASSUME NEW m \in Messages, Message(m), m.type # "final", UNCHANGED <<said, repeatable>>,
               server' \in {"done", "gone"}, server' = "done" => m.type = "drained"
        PROVE  CloudOK'
    <3>1. Delivers(k)'
      <4>1. /\ Len(said'[turn']) = Len(segments') + k
            /\ \A i \in 1..Len(segments') : said'[turn'][i] = segments'[i]
        BY <2>1, <2>3, <2>5 DEF Delivers
      <4>2. \A i \in 1..k : inbox'[i] = [type |-> "final", segment |-> said'[turn'][Len(segments') + i]]
        <5>1. \A i \in 1..k : i \in 1..Len(inbox)
          BY <1>1
        <5> QED
          BY <2>1, <2>3, <2>4, <2>5, <5>1 DEF Delivers
      <4>3. \A i \in 1..Len(inbox') : i > k => inbox'[i].type # "final"
        BY <2>3, <2>4, <2>5 DEF Delivers
      <4> QED
        BY <2>5, <4>1, <4>2, <4>3 DEF Delivers
    <3>2. k \in 0..Len(inbox')
      BY <1>1, <2>4, <2>5
    <3>3. Found' = Found
      BY <2>1, <2>5 DEF Found
    <3>4. NumberedOK'
      BY <1>2, <2>1, <2>2, <2>5, <3>3 DEF NumberedOK
    <3>5. server' = "done" => \E i \in DOMAIN inbox' : inbox'[i].type = "drained"
      <4>1. Len(inbox) + 1 \in DOMAIN inbox'
        BY <1>1, <2>4, <2>5
      <4> QED
        BY <2>4, <2>5, <4>1
    <3> QED
      BY <1>1, <2>1, <2>5, <3>1, <3>2, <3>4, <3>5 DEF CloudOK
  <2>6. CASE ServerDrained
    <3>1. Message([type |-> "drained"]) /\ server' = "done" /\ UNCHANGED <<said, repeatable>>
      BY <2>6 DEF ServerDrained
    <3> QED
      BY <2>5, <3>1, MessageTypes
  <2>7. CASE ServerGone
    <3>1. Message([type |-> "gone"]) /\ server' = "gone" /\ UNCHANGED <<said, repeatable>>
      BY <2>7 DEF ServerGone
    <3> QED
      BY <2>5, <3>1, MessageTypes
  <2>8. CASE ServerReady \/ ServerRepeats \/ ServerFinal \/ ServerSilent
    BY <1>0, <1>1, <2>8 DEF ServerReady, ServerRepeats, ServerFinal, ServerSilent, StreamsOK
  <2>9. CASE ServerSegment
    <3> DEFINE n == Found + 1
               x == <<utterance, n>>
               m == [type |-> "final", segment |-> x]
               s == said[turn]
               s2 == said'[turn]
    <3>1. /\ server \in {"open", "final"} /\ Says(n) /\ UNCHANGED <<server, repeatable>>
      BY <2>9 DEF ServerSegment
    <3>2. Found \in Nat /\ n \in Nat /\ x \in Segments /\ m \in Messages
      <4>1. Found \in Nat
        BY <1>0, FoundType
      <4>2. n \in Nat
        BY <4>1
      <4> HIDE DEF n
      <4>3. x \in Segments
        BY <1>0, <4>2 DEF Segments
      <4> HIDE DEF x
      <4> QED
        BY <4>1, <4>2, <4>3, MessageTypes
    <3>3. Message(m) /\ said' = [said EXCEPT ![turn] = Append(@, x)]
      BY <1>2, <2>2, <3>1 DEF Says
    <3>4. s2 = Append(s, x) /\ s \in Seq(Segments) /\ said'[opened] = Append(said[opened], x)
      BY <1>0, <1>2, <2>2, <3>3
    <3>5. Found' = Found + 1
      BY <1>0, <2>1, <3>2, <3>4, FoundOneMore
    <3>6. k = Len(inbox)
      BY <2>3, <3>1 DEF Delivers
    <3> HIDE DEF n
    <3>7. /\ DOMAIN s = 1..Len(s) /\ DOMAIN s2 = 1..(Len(s) + 1) /\ Len(s) \in Nat /\ Len(s2) = Len(s) + 1
          /\ s2[Len(s) + 1] = x /\ \A i \in 1..Len(s) : s2[i] = s[i]
          /\ \A i \in 1..(Len(s) + 1) : i \in 1..Len(s) \/ i = Len(s) + 1
      BY <3>2, <3>4, Appended
    <3>8. Len(s) = Len(segments) + k /\ k \in Nat
      BY <2>k, <2>d
    <3> HIDE DEF s2
    <3>9. Delivers(k + 1)'
      <4>1. Len(s2) = Len(segments) + (k + 1) /\ \A i \in 1..Len(segments) : s2[i] = segments[i]
        <5>1. \A i \in 1..Len(segments) : i \in 1..Len(s)
          BY <1>1, <3>7, <3>8
        <5> QED
          BY <1>1, <2>d, <3>7, <3>8, <5>1
      <4>2. ASSUME NEW i \in 1..(k + 1)
            PROVE  inbox'[i] = [type |-> "final", segment |-> s2[Len(segments) + i]]
        <5>1. CASE i = k + 1
          <6>1. Len(segments) + i = Len(s) + 1 /\ i = Len(inbox) + 1
            BY <1>1, <3>6, <3>8, <5>1
          <6> QED
            BY <2>4, <3>2, <3>3, <3>7, <6>1
        <5>2. CASE i # k + 1
          <6>1. i \in 1..k /\ Len(segments) + i \in 1..Len(s) /\ i \in 1..Len(inbox)
            BY <1>1, <3>6, <3>8, <5>2
          <6>2. inbox[i] = [type |-> "final", segment |-> s[Len(segments) + i]]
            BY <2>3, <6>1 DEF Delivers
          <6> QED
            BY <2>4, <3>2, <3>3, <3>7, <6>1, <6>2
        <5> QED
          BY <5>1, <5>2
      <4>3. Len(inbox') = k + 1 /\ \A i \in 1..Len(inbox') : ~(i > k + 1)
        BY <1>1, <2>4, <3>2, <3>3, <3>6, <3>8
      <4> QED
        BY <2>1, <4>1, <4>2, <4>3 DEF Delivers, s2
    <3>10. k + 1 \in 0..Len(inbox')
      BY <1>1, <2>4, <3>2, <3>3, <3>6, <3>8
    <3>11. NumberedOK'
      <4>1. /\ \A i, j \in DOMAIN s : s[i] = s[j] => i = j
            /\ \A i \in DOMAIN s : /\ s[i][1] <= utterance
                                   /\ i > Len(segments) => s[i][1] = utterance
                                   /\ s[i][1] = utterance => s[i][2] <= Found
                                   /\ s[i][2] \in Nat
        BY <1>2, <2>2 DEF NumberedOK, Segments
      <4>2. x[1] = utterance /\ x[2] = Found + 1 /\ utterance <= utterance
        BY <1>0 DEF n
      <4>3. \A i \in DOMAIN s : s[i] # x
        <5>1. \A i \in DOMAIN s : ~(s[i][1] = utterance /\ s[i][2] = Found + 1)
          BY <3>2, <4>1
        <5> QED
          BY <4>2, <5>1
      <4>4. \A i, j \in DOMAIN s2 : s2[i] = s2[j] => i = j
        BY SMTT(30), <3>7, <4>1, <4>3
      <4>5. \A i \in DOMAIN s : s[i][1] = utterance => s[i][2] <= Found + 1
        BY <3>2, <4>1
      <4>6. Found + 1 <= Found + 1
        BY <3>2
      <4>7. ASSUME NEW i \in DOMAIN s2
            PROVE  /\ s2[i][1] <= utterance
                   /\ i > Len(segments) => s2[i][1] = utterance
                   /\ s2[i][1] = utterance => s2[i][2] <= Found + 1
        <5>1. CASE i \in DOMAIN s
          BY <3>7, <4>1, <4>5, <5>1
        <5>2. CASE i = Len(s) + 1
          BY <3>7, <4>2, <4>6, <5>2
        <5> QED
          BY <3>7, <5>1, <5>2
      <4> QED
        BY <2>1, <3>5, <4>4, <4>7 DEF NumberedOK, s2
    <3> QED
      BY <1>1, <2>1, <3>1, <3>9, <3>10, <3>11 DEF CloudOK
  <2> QED
    BY <1>12, <2>6, <2>7, <2>8, <2>9 DEF Recogniser
<1>13. CASE Receiver
  <2>1. UNCHANGED <<utterance, turn, turnOpen, active, wait, said, repeatable, server, opened>> /\ receiver
    BY <1>13 DEF Receiver, ReceiveReady, ReceiveFinal, ReceiveDrained, ReceiveGone, ReceiverOnly, Take
  <2>2. turnOpen
    BY <1>0, <2>1 DEF StreamsOK, PhasesOK
  <2>3. PICK k \in 0..Len(inbox) : Delivers(k)
    BY <1>0, <2>1, <2>2 DEF CloudOK
  <2>k. k \in Nat
    BY <1>1
  <2>d. /\ Len(said[turn]) = Len(segments) + k
        /\ \A i \in 1..Len(segments) : said[turn][i] = segments[i]
        /\ \A i \in 1..k : inbox[i] = [type |-> "final", segment |-> said[turn][Len(segments) + i]]
        /\ \A i \in 1..Len(inbox) : i > k => inbox[i].type # "final"
    BY <2>3 DEF Delivers
  <2>f. ASSUME NEW i \in 1..k
        PROVE  inbox[i].type = "final" /\ inbox[i].segment = said[turn][Len(segments) + i]
    <3>1. inbox[i] = [type |-> "final", segment |-> said[turn][Len(segments) + i]]
      BY <2>d
    <3> DEFINE y == said[turn][Len(segments) + i]
    <3> HIDE DEF y
    <3>2. inbox[i] = [type |-> "final", segment |-> y]
      BY <3>1 DEF y
    <3>3. inbox[i].type = "final" /\ inbox[i].segment = y
      BY <3>2
    <3> QED
      BY <3>3 DEF y
  <2>4. PICK type : Take(type)
    BY <1>13 DEF Receiver, ReceiveReady, ReceiveFinal, ReceiveDrained, ReceiveGone
  <2>5. /\ Len(inbox) \in Nat \ {0} /\ Len(inbox') = Len(inbox) - 1 /\ DOMAIN inbox' = 1..(Len(inbox) - 1)
        /\ Head(inbox) = inbox[1] /\ inbox[1].type = type
        /\ \A i \in 1..(Len(inbox) - 1) : inbox'[i] = inbox[i + 1] /\ i + 1 \in 1..Len(inbox)
        /\ \A i \in 1..Len(inbox) : i = 1 \/ (i - 1 \in DOMAIN inbox' /\ inbox'[i - 1] = inbox[i])
    BY <1>0, <2>4, TakenFirst
  <2>6. k \in Nat /\ (k > 0 <=> inbox[1].type = "final")
    <3>1. k > 0 => 1 \in 1..k
      BY <1>1
    <3>2. ~(k > 0) => 1 > k /\ 1 \in 1..Len(inbox)
      BY <1>1, <2>5
    <3>3. ASSUME k > 0 PROVE inbox[1].type = "final"
      BY <2>f, <3>1, <3>3
    <3>4. ~(k > 0) => inbox[1].type # "final"
      BY <2>d, <3>2
    <3> QED
      BY <2>k, <3>3, <3>4
  <2>7. Found' = Found
    BY <2>1 DEF Found
  <2>8. inbox[1].type # "drained" => (finalizing /\ server = "done" => \E i \in DOMAIN inbox' : inbox'[i].type = "drained")
    <3>1. finalizing /\ server = "done" => \E i \in 1..Len(inbox) : inbox[i].type = "drained"
      BY <1>0, <1>1 DEF CloudOK
    <3> QED
      BY <2>5, <3>1
  <2>9. CASE ReceiveReady
    <3>1. inbox[1].type = "ready" /\ UNCHANGED <<segments, finalizing, receiver>>
      BY <2>5, <2>9 DEF ReceiveReady, Take
    <3>2. k = 0
      BY <2>6, <3>1
    <3>3. Delivers(0)'
      <4>1. \A i \in 1..Len(inbox') : inbox'[i].type # "final"
        <5>1. \A i \in 1..(Len(inbox) - 1) : i + 1 > 0
          BY <1>1
        <5> QED
          BY <2>3, <2>5, <3>2, <5>1 DEF Delivers
      <4>2. server \in {"done", "gone"}
        BY <2>3, <2>5, <3>2 DEF Delivers
      <4> QED
        BY <2>1, <2>3, <3>1, <3>2, <4>1, <4>2 DEF Delivers
    <3>4. NumberedOK'
      BY <1>2, <2>1, <2>2, <2>7, <3>1 DEF NumberedOK
    <3>5. 0 \in 0..Len(inbox')
      BY <2>5
    <3> QED
      BY <1>1, <2>1, <2>8, <3>1, <3>3, <3>4, <3>5 DEF CloudOK
  <2>10. CASE ReceiveFinal
    <3> DEFINE x == said[turn][Len(segments) + 1]
    <3>1. inbox[1].type = "final" /\ k > 0
      BY <2>5, <2>6, <2>10 DEF ReceiveFinal, Take
    <3>2. inbox[1].segment = x /\ Len(said[turn]) = Len(segments) + k
          /\ \A i \in 1..Len(segments) : said[turn][i] = segments[i]
      <4>1. 1 \in 1..k
        BY <2>6, <3>1
      <4>2. \A i \in 1..k : inbox[i].segment = said[turn][Len(segments) + i]
        BY <2>f
      <4>3. inbox[1].segment = said[turn][Len(segments) + 1]
        BY <4>1, <4>2
      <4> QED
        BY <2>d, <4>3
    <3>3. Len(segments) + 1 \in DOMAIN said[turn] /\ \A i \in 1..Len(segments) : i \in DOMAIN said[turn]
      BY <1>1, <1>2, <2>2, <2>6, <3>1, <3>2
    <3>4. x \in Segments /\ x[1] = utterance /\ NewFinal(x)
      <4>1. x \in Segments
        BY <1>2, <2>2, <3>3
      <4>2. x[1] = utterance
        <5>1. Len(segments) + 1 > Len(segments)
          BY <1>1
        <5> QED
          BY <1>2, <2>2, <3>3, <5>1 DEF NumberedOK
      <4>3. \A i \in 1..Len(segments) : segments[i] # x
        <5>1. \A i \in 1..Len(segments) : i # Len(segments) + 1
          BY <1>1
        <5> QED
          BY <1>2, <2>2, <3>2, <3>3, <5>1 DEF NumberedOK
      <4> QED
        BY <4>1, <4>2, <4>3 DEF NewFinal, Contains
    <3>5. segments' = Append(segments, x) /\ UNCHANGED <<finalizing, receiver>>
      BY <1>0, <2>5, <2>10, <3>2, <3>4 DEF ReceiveFinal
    <3> HIDE DEF x
    <3>6. /\ Len(segments') = Len(segments) + 1 /\ segments'[Len(segments) + 1] = x
          /\ \A i \in 1..Len(segments) : segments'[i] = segments[i]
          /\ \A i \in 1..(Len(segments) + 1) : i \in 1..Len(segments) \/ i = Len(segments) + 1
      BY <1>0, <3>4, <3>5, Appended
    <3>7. Delivers(k - 1)'
      <4>1. Len(said[turn]) = Len(segments') + (k - 1) /\ \A i \in 1..Len(segments') : said[turn][i] = segments'[i]
        <5>1. Len(segments) + k = (Len(segments) + 1) + (k - 1)
          BY <1>1, <2>k
        <5>2. \A i \in 1..(Len(segments) + 1) : said[turn][i] = segments'[i]
          BY <2>d, <3>6 DEF x
        <5> QED
          BY <2>d, <3>6, <5>1, <5>2
      <4>2. \A i \in 1..(k - 1) : inbox'[i] = [type |-> "final", segment |-> said[turn][Len(segments') + i]]
        <5>1. ASSUME NEW i \in 1..(k - 1)
              PROVE  inbox'[i] = [type |-> "final", segment |-> said[turn][Len(segments') + i]]
          <6>1. i \in 1..(Len(inbox) - 1) /\ i + 1 \in 1..k /\ Len(segments') + i = Len(segments) + (i + 1)
            BY <1>1, <2>6, <3>6
          <6>2. inbox[i + 1] = [type |-> "final", segment |-> said[turn][Len(segments) + (i + 1)]]
            BY <2>3, <6>1 DEF Delivers
          <6> QED
            BY <2>5, <6>1, <6>2
        <5> QED
          BY <5>1
      <4>3. \A i \in 1..Len(inbox') : i > k - 1 => inbox'[i].type # "final"
        <5>1. ASSUME NEW i \in 1..Len(inbox'), i > k - 1
              PROVE  inbox'[i].type # "final"
          <6>1. i \in 1..(Len(inbox) - 1) /\ i + 1 \in 1..Len(inbox) /\ i + 1 > k
            BY <1>1, <2>5, <2>6, <5>1
          <6> QED
            BY <2>3, <2>5, <6>1 DEF Delivers
        <5> QED
          BY <5>1
      <4>4. k - 1 = Len(inbox') \/ server \in {"done", "gone"}
        BY <1>1, <2>3, <2>5, <2>6 DEF Delivers
      <4> QED
        BY <2>1, <4>1, <4>2, <4>3, <4>4 DEF Delivers
    <3>8. k - 1 \in 0..Len(inbox')
      BY <1>1, <2>5, <2>6, <3>1
    <3>9. NumberedOK'
      <4>1. \A i \in DOMAIN said[turn] : i > Len(segments') => i > Len(segments)
        BY <1>1, <1>2, <2>2, <3>6
      <4> QED
        BY <1>2, <2>1, <2>2, <2>7, <4>1 DEF NumberedOK
    <3> QED
      BY <1>1, <2>1, <2>8, <3>1, <3>5, <3>7, <3>8, <3>9 DEF CloudOK
  <2>11. CASE ReceiveDrained
    <3>1. inbox[1].type = "drained" /\ ~finalizing' /\ ~receiver' /\ UNCHANGED segments
      BY <2>5, <2>11 DEF ReceiveDrained, Take
    <3>2. k = 0
      BY <2>6, <3>1
    <3>3. said[turn] = segments
      <4>1. Len(said[turn]) = Len(segments) /\ \A i \in 1..Len(segments) : said[turn][i] = segments[i]
        BY <1>1, <2>3, <3>2 DEF Delivers
      <4>2. said[turn] \in Seq(Segments) /\ segments \in Seq(Segments)
        BY <1>0, <1>2, <2>2
      <4> QED
        BY <4>1, <4>2
    <3>4. NumberedOK'
      BY <1>2, <2>1, <2>2, <2>7, <3>1 DEF NumberedOK
    <3> QED
      BY <1>1, <2>1, <3>1, <3>3, <3>4 DEF CloudOK
  <2>12. CASE ReceiveGone
    BY <2>12 DEF ReceiveGone
  <2> QED
    BY <1>13, <2>9, <2>10, <2>11, <2>12 DEF Receiver
<1> QED
  BY <1>4, <1>5, <1>6, <1>8, <1>9, <1>10, <1>11, <1>12, <1>13 DEF Processor

LEMMA SpeechInvInit == SpeechInit => SpeechInv
<1> SUFFICES ASSUME SpeechInit PROVE SpeechInv
  OBVIOUS
<1> USE SpeechAssumption DEF SpeechInit
<1>1. Controls /\ Marks /\ Counters /\ ~(active /\ finalizing)
  <2>1. Controls /\ ~(active /\ finalizing)
    BY DEF Controls
  <2>2. Marks
    BY DEF Marks
  <2>3. 1 \in Turns /\ turn = 1 /\ opened = 1 /\ utterance = 0
    BY DEF Turns
  <2>4. Counters
    BY <2>3 DEF Counters, Turns
  <2> QED
    BY <2>1, <2>2, <2>4
<1>2. SpeechTypeOK
  BY <1>1, SpeechTypes
<1>3. <<>> \in Seq(Segments) /\ <<>> \in Seq(Messages) /\ Len(inbox) = 0 /\ Len(segments) = 0
      /\ DOMAIN inbox = {} /\ DOMAIN segments = {}
  OBVIOUS
<1>4. TextTypes
  BY <1>3 DEF TextTypes
<1>5. 1 \in Turns /\ \A t \in Turns : said[t] = <<>> /\ spoken[t] = 0 /\ sent[t] = 0
  BY DEF Turns
<1>6. TurnIsWhole
  BY DEF TurnIsWhole
<1>7. PhasesOK /\ StreamsOK
  BY <1>5 DEF PhasesOK, StreamsOK
<1>8. VoiceOK
  BY <1>5 DEF VoiceOK
<1>9. TurnOK
  BY <1>3, <1>5 DEF TurnOK
<1>10. LocalOK /\ CloudOK
  BY <1>3 DEF LocalOK, CloudOK
<1> QED
  BY <1>2, <1>4, <1>6, <1>7, <1>8, <1>9, <1>10 DEF SpeechInv

LEMMA SpeechInvStep == ASSUME SpeechInv, [SpeechNext]_speechVars PROVE SpeechInv'
<1>1. CASE SpeechNext
  <2>1. ~over /\ (Processor \/ Recogniser \/ Receiver)
    BY <1>1, NothingAfterOver, SpeechSteps
  <2>2. SpeechTypeOK /\ TextTypes /\ PhasesOK /\ StreamsOK /\ VoiceOK
        /\ (~protocolError => TurnOK /\ (provider = "local" => LocalOK) /\ (provider = "cloud" => CloudOK))
    BY <2>1 DEF SpeechInv
  <2>3. Controls /\ Marks /\ Counters
    BY <2>2, SpeechTypes
  <2>4. TextTypes'
    BY <2>1, <2>2, TextTypesStep
  <2>5. ~over' => PhasesOK' /\ StreamsOK' /\ VoiceOK'
    BY <2>1, <2>2, PhasesStep, StreamsStep, VoiceStep
  <2>6. Controls' /\ Marks' /\ Counters'
    BY <2>1, <2>2, <2>3, ControlsStep, MarksStep, CountersStep
  <2>7. ~(active' /\ finalizing')
    <3>1. CASE ~over'
      BY <2>5, <3>1 DEF PhasesOK
    <3>2. CASE over'
      <4>1. \/ Fails \/ EndSession \/ EndTurn
        BY <2>1, <3>2 DEF Processor, StartUtterance, HoldBack, Resume, Started, Frame, End, Open, Recogniser, ServerReady,
              ServerFinal, ServerRepeats, ServerSilent, ServerSegment, ServerDrained, ServerGone, ServerOnly, Receiver,
              ReceiveReady, ReceiveFinal, ReceiveDrained, ReceiveGone, ReceiverOnly
      <4> QED
        BY <2>2, <4>1 DEF Fails, Raise, EndSession, EndTurn, SpeechTypeOK
    <3> QED
      BY <3>1, <3>2
  <2>8. SpeechTypeOK'
    BY <2>6, <2>7, SpeechTypes, States DEF SpeechTypeOK, Controls, Marks, Counters
  <2>9. TurnIsWhole'
    BY <2>1, WholeStep
  <2>10. ASSUME ~over', ~protocolError'
         PROVE  TurnOK' /\ (provider' = "local" => LocalOK') /\ (provider' = "cloud" => CloudOK')
    <3>1. ~protocolError /\ provider' = provider
      BY <2>1, <2>10 DEF Processor, StartUtterance, HoldBack, Resume, Started, Frame, End, Open, Recogniser, ServerReady,
              ServerFinal, ServerRepeats, ServerSilent, ServerSegment, ServerDrained, ServerGone, ServerOnly, Receiver,
              ReceiveReady, ReceiveFinal, ReceiveDrained, ReceiveGone, ReceiverOnly, EndTurn, EndSession, Fails, Raise
    <3> QED
      BY <2>1, <2>10, <3>1, TurnOKStep, LocalOKStep, CloudOKStep
  <2> QED
    BY <2>4, <2>5, <2>8, <2>9, <2>10 DEF SpeechInv
<1>2. CASE UNCHANGED speechVars
  <2> USE <1>2 DEF speechVars, events, socket
  <2>1. SpeechTypeOK' /\ TextTypes' /\ TurnIsWhole'
    BY DEF SpeechInv, SpeechTypeOK, TextTypes, TurnIsWhole
  <2>2. (PhasesOK => PhasesOK') /\ (StreamsOK => StreamsOK') /\ (VoiceOK => VoiceOK') /\ (TurnOK => TurnOK')
    BY DEF PhasesOK, StreamsOK, VoiceOK, TurnOK
  <2>3. Waiting' <=> Waiting
    BY DEF Waiting, OnTheWay, Final
  <2>4. IsKnown' <=> IsKnown
    BY <2>3 DEF IsKnown, Final
  <2>5. LocalOK => LocalOK'
    BY <2>3, <2>4 DEF LocalOK
  <2>6. CloudOK => CloudOK'
    BY CloudStays
  <2> QED
    BY <2>1, <2>2, <2>5, <2>6 DEF SpeechInv
<1> QED
  BY <1>1, <1>2

LEMMA SpeechInvHolds == SpeechSpec => []SpeechInv
  BY SpeechInvInit, SpeechInvStep, PTL DEF SpeechSpec

LEMMA NoticedFollows == SpeechInv => FinalIsNoticed
<1> SUFFICES ASSUME SpeechInv, wait \in {"restart", "end", "close"}, ~over, inbox = <<>>, server = "done",
                    provider = "cloud" \/ Found > 0
             PROVE  finalReceived
  BY DEF FinalIsNoticed
<1>0. PhasesOK /\ TextTypes /\ Counters /\ Marks
  BY SpeechTypes DEF SpeechInv
<1>1. CASE protocolError
  BY <1>0, <1>1 DEF PhasesOK
<1>2. CASE ~protocolError /\ ~finalReceived
  <2>1. finalizing /\ turnOpen /\ opened = turn
    BY <1>0, <1>2 DEF PhasesOK
  <2>2. DOMAIN inbox = {}
    OBVIOUS
  <2>3. CASE provider = "local"
    <3>1. LocalOK /\ Found > 0
      BY <1>2, <2>3 DEF SpeechInv
    <3>2. said[turn] = segments /\ \A i \in DOMAIN segments : segments[i][1] # utterance
      BY <2>1, <2>2, <3>1 DEF LocalOK, Waiting, OnTheWay
    <3>3. \E i \in DOMAIN said[opened] : said[opened][i][1] = utterance
      BY <1>0, <3>1, FoundType
    <3> QED
      BY <2>1, <3>2, <3>3
  <2>4. CASE provider = "cloud"
    BY <1>2, <2>1, <2>2, <2>4 DEF SpeechInv, CloudOK
  <2> QED
    BY <1>0, <2>3, <2>4 DEF Marks
<1> QED
  BY <1>1, <1>2

(* The variables of a session keep their types (streaming_media.py, speech_providers.py). *)
THEOREM SpeechTypeCorrect == SpeechSpec => []SpeechTypeOK
<1>1. SpeechInv => SpeechTypeOK
  BY DEF SpeechInv
<1> QED
  BY <1>1, SpeechInvHolds, PTL

(* The end of a turn is preceded by one transcript that holds what was found in all
   its utterances, and who waits for a final gets it (streaming_media.py:726).      *)
THEOREM TurnsAreWhole == SpeechSpec => [](TurnIsWhole /\ FinalIsNoticed)
<1>1. SpeechInv => TurnIsWhole /\ FinalIsNoticed
  BY NoticedFollows DEF SpeechInv
<1> QED
  BY <1>1, SpeechInvHolds, PTL
=============================================================================
