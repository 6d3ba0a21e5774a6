-------------------------- MODULE LiveAudioMonitor --------------------------
(***************************************************************************)
(* The live monitor of a Waylo call: services/live_audio_monitor.py with   *)
(* the mixer of apps/pipecat/continuous_audio.py.  A pump renders the mix  *)
(* of the call in frames, batches of them wait in a bounded queue, and a   *)
(* sender posts them to the listener bus of the media process.             *)
(*                                                                         *)
(* The tasks share one event loop: a step is what runs between two awaits. *)
(* Frames are numbered as they are rendered.                               *)
(***************************************************************************)
EXTENDS Naturals, Sequences, SequencesExt

CONSTANTS QueueSize,   \* batches that may wait
          BatchFrames, \* frames of a batch
          MaxFrames    \* bound on the length of a call

ASSUME MonitorAssumption ==
  QueueSize \in Nat \ {0} /\ BatchFrames \in Nat \ {0} /\ MaxFrames \in Nat

VARIABLES
  call,      \* the call: "opening", "on", then finish: "tail", "join", "stop", "done"
  pump,      \* it renders
  sender,    \* "none", "idle", "posting", "answered", "closing" or "ended"
  cancelled, \* the sender was cancelled and has not run since
  failed,    \* monitoring is unavailable
  rendered,  \* frames committed to the recording
  pending,   \* frames of the next batch
  queue, batch, \* batches that wait, and the one being posted
  bus,       \* the broadcast: "none", "open" or "closed"
  heard,     \* the frames it got
  status,    \* the monitoring status that finish reports
  cutOff     \* history: the answer to open, or the request to close, was lost

media == <<rendered, pending, queue, batch>>
monitorVars == <<call, pump, sender, cancelled, failed, media, bus, heard, status, cutOff>>

MonitorInit ==
  /\ call = "opening"
  /\ pump = TRUE /\ sender = "none" /\ cancelled = FALSE
  /\ failed = FALSE
  /\ rendered = 0 /\ pending = <<>> /\ queue = <<>> /\ batch = <<>>
  /\ bus = "none" /\ heard = <<>>
  /\ status = "none" /\ cutOff = FALSE

Sends == sender \in {"idle", "posting", "answered"}

(* task.cancel(), on a task that has not ended *)
CancelSender == cancelled' = (sender \notin {"none", "ended"})

-----------------------------------------------------------------------------
(* start: monitoring may not be configured; the broadcast is opened, or not, or
   its answer is lost.                                                      *)
StartMonitor ==
  /\ call = "opening"
  /\ \/ UNCHANGED <<sender, failed, bus, cutOff>>
     \/ sender' = "idle" /\ bus' = "open" /\ UNCHANGED <<failed, cutOff>>
     \/ failed' = TRUE /\ UNCHANGED <<sender, bus, cutOff>>
     \/ failed' = TRUE /\ bus' = "open" /\ cutOff' = TRUE /\ UNCHANGED sender
  /\ call' = "on"
  /\ UNCHANGED <<pump, cancelled, media, heard, status>>

(* Mutant: a batch that finds the queue full is dropped. *)
QueueOrDrop(p) ==
  IF Len(p) < BatchFrames THEN pending' = p /\ UNCHANGED <<queue, failed, cancelled>>
  ELSE /\ pending' = <<>>
       /\ IF Len(queue) < QueueSize THEN queue' = Append(queue, p) ELSE UNCHANGED queue
       /\ UNCHANGED <<failed, cancelled>>

(* _publish, of the pending frames with the new one: a full queue makes
   monitoring unavailable.                                                  *)
QueueOrFail(p) ==
  IF Len(p) < BatchFrames THEN pending' = p /\ UNCHANGED <<queue, failed, cancelled>>
  ELSE /\ pending' = <<>>
       /\ IF Len(queue) < QueueSize
          THEN queue' = Append(queue, p) /\ UNCHANGED <<failed, cancelled>>
          ELSE failed' = TRUE /\ CancelSender /\ UNCHANGED queue

(* A frame is rendered and, while somebody can listen, published. *)
Render ==
  /\ rendered < MaxFrames
  /\ rendered' = rendered + 1
  /\ IF Sends /\ ~failed THEN QueueOrFail(Append(pending, rendered'))
     ELSE UNCHANGED <<pending, queue, failed, cancelled>>

(* _pump *)
Pump ==
  /\ pump /\ call = "on" /\ Render
  /\ UNCHANGED <<call, pump, sender, batch, bus, heard, status, cutOff>>

(* disable, after add or the pump failed: a bad frame, or too long a call. *)
Disable ==
  /\ call \in {"on", "tail", "join"}
  /\ pump' = FALSE /\ failed' = TRUE /\ CancelSender
  /\ UNCHANGED <<call, sender, media, bus, heard, status, cutOff>>

-----------------------------------------------------------------------------
(* _send                                                                   *)

TakeBatch ==
  /\ sender = "idle" /\ ~cancelled /\ queue # <<>>
  /\ batch' = Head(queue) /\ queue' = Tail(queue)
  /\ sender' = "posting"
  /\ UNCHANGED <<call, pump, cancelled, failed, rendered, pending, bus, heard, status, cutOff>>

(* The media process publishes the audio. *)
BatchArrives ==
  /\ sender = "posting" /\ bus = "open"
  /\ heard' = heard \o batch
  /\ sender' = "answered"
  /\ UNCHANGED <<call, pump, cancelled, failed, media, bus, status, cutOff>>

BatchSent ==
  /\ sender = "answered" /\ ~cancelled
  /\ batch' = <<>>
  /\ sender' = "idle"
  /\ UNCHANGED <<call, pump, cancelled, failed, rendered, pending, queue, bus, heard, status, cutOff>>

(* Refused, not answered in time, or the answer is lost. *)
PostFails ==
  /\ sender \in {"posting", "answered"} /\ ~cancelled
  /\ batch' = <<>>
  /\ failed' = TRUE
  /\ sender' = "closing"
  /\ UNCHANGED <<call, pump, cancelled, rendered, pending, queue, bus, heard, status, cutOff>>

(* Mutant: a cancelled sender leaves its publisher to finish. *)
SenderDies ==
  /\ cancelled
  /\ cancelled' = FALSE
  /\ batch' = <<>>
  /\ sender' = "ended"
  /\ UNCHANGED <<call, pump, failed, rendered, pending, queue, bus, heard, status, cutOff>>

(* The cancelled sender stops what it waits for, and closes its publisher; when
   that is what it waits for, the broadcast may never learn of it.          *)
SenderCancelled ==
  /\ cancelled
  /\ cancelled' = FALSE
  /\ batch' = <<>>
  /\ IF Sends THEN sender' = "closing" /\ UNCHANGED cutOff
     ELSE sender' = "ended" /\ cutOff' = (cutOff \/ bus = "open")
  /\ UNCHANGED <<call, pump, failed, rendered, pending, queue, bus, heard, status>>

(* _close_publisher *)
CloseArrives ==
  /\ sender = "closing" /\ bus = "open"
  /\ bus' = "closed"
  /\ UNCHANGED <<call, pump, sender, cancelled, failed, media, heard, status, cutOff>>

(* Answered, or failed, which is ignored. *)
CloseEnds ==
  /\ sender = "closing" /\ ~cancelled
  /\ sender' = "ended"
  /\ cutOff' = (cutOff \/ bus = "open")
  /\ UNCHANGED <<call, pump, cancelled, failed, media, bus, heard, status>>

(* The media process restarts, without its broadcasts. *)
BusRestarts ==
  /\ bus = "open"
  /\ bus' = "closed"
  /\ UNCHANGED <<call, pump, sender, cancelled, failed, media, heard, status, cutOff>>

-----------------------------------------------------------------------------
(* finish, also of a call that was cancelled while it opened the broadcast. *)

FinishBegins ==
  /\ call \in {"opening", "on"}
  /\ IF call = "opening" THEN bus' \in {"none", "open"} ELSE UNCHANGED bus
  /\ cutOff' = (cutOff \/ bus' # bus)
  /\ pump' = FALSE
  /\ call' = "tail"
  /\ UNCHANGED <<sender, cancelled, failed, media, heard, status>>

RenderTail ==
  /\ call = "tail" /\ Render
  /\ UNCHANGED <<call, pump, sender, batch, bus, heard, status, cutOff>>

(* The rest is queued, or monitoring is unavailable after all; nothing reads the
   pending frames again.                                                    *)
TailEnds ==
  /\ call = "tail"
  /\ IF pending # <<>> /\ Sends /\ ~failed
     THEN IF Len(queue) < QueueSize THEN queue' = Append(queue, pending) /\ UNCHANGED failed
          ELSE failed' = TRUE /\ UNCHANGED queue
     ELSE UNCHANGED <<queue, failed>>
  /\ call' = IF sender # "none" /\ ~failed' THEN "join" ELSE "stop"
  /\ pending' = <<>>
  /\ UNCHANGED <<pump, sender, cancelled, rendered, batch, bus, heard, status, cutOff>>

(* The last frames cannot be rendered. *)
TailFails ==
  /\ call = "tail"
  /\ failed' = TRUE /\ CancelSender
  /\ call' = "stop"
  /\ UNCHANGED <<pump, sender, media, bus, heard, status, cutOff>>

(* queue.join(): each batch was taken and dealt with. *)
Joined ==
  /\ call = "join" /\ queue = <<>> /\ sender \notin {"posting", "answered"}
  /\ call' = "stop"
  /\ UNCHANGED <<pump, sender, cancelled, failed, media, bus, heard, status, cutOff>>

JoinTimesOut ==
  /\ call = "join"
  /\ failed' = TRUE
  /\ call' = "stop"
  /\ UNCHANGED <<pump, sender, cancelled, media, bus, heard, status, cutOff>>

(* The sender is cancelled, whatever it does, and waited for. *)
StopSender ==
  /\ call = "stop"
  /\ CancelSender
  /\ call' = "stopping"
  /\ UNCHANGED <<pump, sender, failed, media, bus, heard, status, cutOff>>

Report ==
  /\ call = "stopping" /\ sender \in {"none", "ended"}
  /\ status' = IF failed THEN "unavailable"
               ELSE IF sender = "none" THEN "not_configured" ELSE "published"
  /\ call' = "done"
  /\ UNCHANGED <<pump, sender, cancelled, failed, media, bus, heard, cutOff>>

Sender == TakeBatch \/ BatchArrives \/ BatchSent \/ PostFails \/ SenderCancelled
          \/ CloseArrives \/ CloseEnds

FinishStep == RenderTail \/ TailEnds \/ TailFails \/ Joined \/ JoinTimesOut \/ StopSender \/ Report

MonitorNext == StartMonitor \/ Pump \/ Disable \/ Sender \/ BusRestarts
               \/ FinishBegins \/ FinishStep

MonitorSpec == MonitorInit /\ [][MonitorNext]_monitorVars

(* The event loop runs what can run, requests and the join have timeouts, and a
   frame is rendered for each of the tail: nothing is said of the call itself. *)
MonitorFairSpec == MonitorSpec /\ WF_monitorVars(Sender) /\ WF_monitorVars(FinishStep)
-----------------------------------------------------------------------------
MonitorTypeOK ==
  /\ call \in {"opening", "on", "tail", "join", "stop", "stopping", "done"}
  /\ pump \in BOOLEAN /\ cancelled \in BOOLEAN /\ failed \in BOOLEAN /\ cutOff \in BOOLEAN
  /\ sender \in {"none", "idle", "posting", "answered", "closing", "ended"}
  /\ rendered \in 0..MaxFrames
  /\ pending \in Seq(1..MaxFrames) /\ Len(pending) < BatchFrames
  /\ queue \in Seq(Seq(1..MaxFrames)) /\ Len(queue) <= QueueSize
  /\ batch \in Seq(1..MaxFrames) /\ heard \in Seq(1..MaxFrames)
  /\ bus \in {"none", "open", "closed"}
  /\ status \in {"none", "unavailable", "not_configured", "published"}

(* A frame that waits, or is being posted. *)
OnItsWay(f) ==
  \/ f \in Range(pending) \/ \E i \in DOMAIN queue : f \in Range(queue[i])
  \/ sender = "posting" /\ f \in Range(batch)

(* live_audio_monitor.py:107: "Do not build seconds of hidden lag, replay old
   packets, or discard a hole while claiming monitoring remained continuous".
   Until monitoring is reported unavailable, listeners got the start of the
   recording, in order and without a hole, and what is missing of it is on its
   way; "published" means that they got all of it.                          *)
WholeOrUnavailable ==
  /\ IsPrefix(heard, [i \in 1..rendered |-> i])
  /\ status = "published" => Len(heard) = rendered
  /\ Sends /\ ~failed => \A f \in 1..rendered : f \in Range(heard) \/ OnItsWay(f)

(* However a call ends, finish returns and its broadcast is closed, unless the
   answer to open or the request to close was lost on the way.              *)
Finishing == call = "tail"
Closed == call = "done" /\ (bus = "open" => cutOff)

FinishCloses == Finishing ~> Closed
=============================================================================
