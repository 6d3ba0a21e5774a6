---------------------------- MODULE SpeechTurns ----------------------------
(***************************************************************************)
(* The speech recognition of a duplex session in the media process: the    *)
(* processors of streaming_media.py (rtc-asr, "local") and                 *)
(* speech_providers.py (Deepgram and Cartesia, "cloud").  The voice        *)
(* activity detector cuts the audio of a turn into utterances; each is a   *)
(* stream of the recogniser, and the end of the turn must carry all of     *)
(* them.                                                                   *)
(*                                                                         *)
(* The processor handles one frame at a time and a receiver task takes the *)
(* messages of the recogniser: a step is what runs between two awaits.     *)
(* Streams are numbered; a segment of recognised text is <<stream, n>>.    *)
(* The recogniser is external: rtc-asr returns one final per stream, which *)
(* it may deliver again; the clouds return segments at any time and        *)
(* acknowledge when all are out.  A state STARTING of the detector is      *)
(* treated as QUIET by every test of the code.                             *)
(***************************************************************************)
EXTENDS Naturals, Sequences, FiniteSets, SequencesExt

CONSTANTS MaxTurns,
          MaxUtterances,  \* per turn
          MaxSegments     \* per utterance, of a cloud recogniser

Turns == 1..MaxTurns

ASSUME SpeechAssumption == MaxTurns \in Nat \ {0} /\ {MaxUtterances, MaxSegments} \subseteq Nat

VARIABLES
  provider,
  vad,        \* state of the detector
  prev,       \* previous_state
  wait,       \* what process_frame waits for: none, ready, restart, end, close
  utterance,  \* current_stream_id
  active, finalizing, ready, finalReceived, turnOpen, turnEmitted,
  segments,   \* final_segments; their stream and number are the event ids
  protocolError,
  over,       \* the session goes no further: error frame, empty turn or end
  receiver,   \* the receiver task runs
  inbox,      \* messages it has not taken yet
  server,     \* the recogniser's side of the current stream
  repeatable, \* streams whose final rtc-asr may deliver again
  turn,
  voicing,    \* history: the speaker is in an utterance
  spoken,     \* history: utterances of each turn,
  sent,       \* those a stream took,
  said,       \* segments the recogniser found in them,
  receipts,   \* and the transcript that preceded the end of the turn
  opened      \* history: turn of the current stream

socket == <<receiver, inbox, server, repeatable>>
events == <<ready, finalReceived>>
speechVars == <<provider, vad, prev, wait, utterance, active, finalizing, events, turnOpen,
                turnEmitted, segments, protocolError, over, socket, turn, voicing, spoken, sent,
                said, receipts, opened>>

SpeechInit ==
  /\ provider \in {"local", "cloud"}
  /\ vad = "quiet" /\ prev = "quiet" /\ wait = "none"
  /\ utterance = 0 /\ segments = <<>> /\ inbox = <<>>
  /\ server = "done" /\ repeatable = {}
  /\ turn = 1 /\ opened = 1
  /\ spoken = [t \in Turns |-> 0] /\ sent = [t \in Turns |-> 0]
  /\ said = [t \in Turns |-> <<>>] /\ receipts = [t \in Turns |-> <<>>]
  /\ active = FALSE /\ finalizing = FALSE /\ ready = FALSE /\ finalReceived = FALSE
  /\ turnOpen = FALSE /\ turnEmitted = FALSE /\ protocolError = FALSE /\ over = FALSE
  /\ receiver = FALSE /\ voicing = FALSE

-----------------------------------------------------------------------------
(* The processor.                                                          *)

(* An exception becomes an error frame, and the exchange fails with it. *)
Raise == /\ over' = TRUE
         /\ UNCHANGED <<provider, vad, prev, wait, utterance, active, finalizing, events,
                        turnOpen, turnEmitted, segments, protocolError, socket, turn, voicing,
                        spoken, sent, said, receipts, opened>>

Idle == ~over /\ turn \in Turns /\ wait = "none"

Following == [quiet |-> {"quiet", "speaking"}, speaking |-> {"speaking", "stopping"},
              stopping |-> {"stopping", "speaking", "quiet"}]

(* What the detector makes of the next frame. *)
Detect(s) ==
  /\ Idle /\ s \in Following[vad]
  /\ s = "speaking" /\ ~voicing => spoken[turn] < MaxUtterances
  /\ vad' = s
  /\ voicing' = (s # "quiet" /\ (voicing \/ s = "speaking"))
  /\ spoken' = IF s = "speaking" /\ ~voicing THEN [spoken EXCEPT ![turn] = @ + 1] ELSE spoken

Onset(s) == s = "speaking" /\ prev # "speaking"

(* A request to a recogniser that may be gone. *)
Asked(what) == IF server = "gone" THEN "gone" ELSE what

(* _start_utterance up to the message that starts the stream, or the new
   connection of a cloud recogniser.  The text of a turn is kept until its
   end.                                                                     *)
Open ==
  /\ ~protocolError
  /\ IF turnOpen THEN UNCHANGED <<segments, turnEmitted>>
     ELSE segments' = <<>> /\ turnEmitted' = FALSE
  /\ turnOpen' = TRUE
  /\ ready' = FALSE /\ finalReceived' = FALSE
  /\ utterance' = utterance + 1 /\ opened' = turn
  /\ receiver' = TRUE
  /\ IF provider = "local"
     THEN wait' = "ready" /\ server' = Asked("started") /\ UNCHANGED <<active, inbox, prev,
                                                                       sent>>
     ELSE /\ wait' = "none" /\ server' = "open" /\ active' = TRUE /\ inbox' = <<>>
          /\ prev' = "speaking"
          /\ sent' = [sent EXCEPT ![turn] = @ + 1]
  /\ UNCHANGED <<provider, finalizing, protocolError, over, repeatable, turn, said, receipts>>

(* An utterance begins. *)
StartUtterance ==
  /\ Detect("speaking") /\ Onset("speaking") /\ ~active /\ ~finalizing
  /\ Open

(* Speech resumes before the final of the previous utterance: the frames wait. *)
HoldBack ==
  /\ Detect("speaking") /\ Onset("speaking") /\ finalizing
  /\ wait' = "restart"
  /\ UNCHANGED <<provider, prev, utterance, active, finalizing, events, turnOpen, turnEmitted,
                 segments, protocolError, over, socket, turn, sent, said, receipts, opened>>

Resume ==
  /\ wait = "restart" /\ ~over /\ finalReceived
  /\ Open
  /\ UNCHANGED <<vad, voicing, spoken>>

(* ready: the audio that was kept is sent. *)
Started ==
  /\ wait = "ready" /\ ~over /\ ready /\ ~protocolError
  /\ wait' = "none" /\ active' = TRUE /\ prev' = vad
  /\ sent' = [sent EXCEPT ![turn] = @ + 1]
  /\ UNCHANGED <<provider, vad, utterance, finalizing, events, turnOpen, turnEmitted,
                 segments, protocolError, over, socket, turn, voicing, spoken, said, receipts,
                 opened>>

(* _finalize *)
Finalize == active' = FALSE /\ finalizing' = TRUE /\ server' = Asked("final")

(* Any other frame: sent to the stream, which a silence ends. *)
Frame(s) ==
  /\ Detect(s) /\ (active \/ ~Onset(s)) /\ (active => ~protocolError)
  /\ prev' = s
  /\ IF active /\ s = "quiet" /\ prev # "quiet" THEN Finalize
     ELSE UNCHANGED <<active, finalizing, server>>
  /\ UNCHANGED <<provider, wait, utterance, events, turnOpen, turnEmitted, segments,
                 protocolError, over, receiver, inbox, repeatable, turn, sent, said, receipts,
                 opened>>

(* Mutant: the end of the turn waits for a stream it ends itself only. *)
PendingActive == active

(* A final is to come before the turn may end. *)
Pending == active \/ finalizing

(* The frame that ends the turn, or the session, arrives. *)
End(kind) ==
  /\ Idle /\ Pending
  /\ wait' = kind
  /\ IF active THEN Finalize ELSE UNCHANGED <<active, finalizing, server>>
  /\ UNCHANGED <<provider, vad, prev, utterance, events, turnOpen, turnEmitted, segments,
                 protocolError, over, receiver, inbox, repeatable, turn, voicing, spoken,
                 sent, said, receipts, opened>>

Reached(kind) == (wait = kind /\ ~over /\ finalReceived) \/ (Idle /\ ~Pending)

(* _emit_turn_final, then the end of the turn.  Without a transcript nobody
   answers, and the exchange never completes.                               *)
EndTurn ==
  /\ Reached("end") /\ ~protocolError
  /\ LET text == IF turnEmitted THEN <<>> ELSE segments IN
       /\ receipts' = [receipts EXCEPT ![turn] = text]
       /\ turnEmitted' = (turnEmitted \/ text # <<>>)
       /\ over' = (text = <<>>)
  /\ prev' = "quiet" /\ turnOpen' = FALSE /\ wait' = "none"
  /\ turn' = turn + 1 /\ voicing' = FALSE
  /\ UNCHANGED <<provider, vad, utterance, active, finalizing, events, segments,
                 protocolError, socket, spoken, sent, said, opened>>

(* EndFrame: _close.  A transcript that is still to be emitted then is ignored
   downstream (server.py:677).                                              *)
EndSession ==
  /\ Reached("close") /\ ~protocolError
  /\ over' = TRUE /\ wait' = "none"
  /\ receiver' = FALSE /\ inbox' = <<>> /\ server' = "done"
  /\ active' = FALSE /\ finalizing' = FALSE /\ turnOpen' = FALSE
  /\ UNCHANGED <<provider, vad, prev, utterance, events, turnEmitted, segments, protocolError,
                 repeatable, turn, voicing, spoken, sent, said, receipts, opened>>

(* A protocol error surfaces, a connection is refused, or a wait ends at its
   limit.                                                                   *)
Fails ==
  /\ ~over
  /\ \/ protocolError /\ (Idle \/ (wait = "ready" /\ ready) \/ (wait # "none" /\ finalReceived))
     \/ ~active /\ ~finalizing /\ (Idle \/ wait = "restart")
     \/ (wait = "ready" /\ ~ready) \/ (wait \in {"restart", "end", "close"} /\ ~finalReceived)
  /\ Raise

-----------------------------------------------------------------------------
(* The recogniser.                                                         *)

Message(m) == inbox' = Append(inbox, m)

ServerOnly == UNCHANGED <<provider, vad, prev, wait, utterance, active, finalizing, events,
                          turnOpen, turnEmitted, segments, protocolError, over, receiver,
                          turn, voicing, spoken, sent, receipts, opened>>

Says(n) ==
  /\ Message([type |-> "final", segment |-> <<utterance, n>>])
  /\ said' = [said EXCEPT ![opened] = Append(@, <<utterance, n>>)]

(* How many segments of the current stream are out. *)
Found == Cardinality({i \in DOMAIN said[opened] : said[opened][i][1] = utterance})

(* rtc-asr is ready, returns its final, with or without text, and perhaps
   again.                                                                   *)
ServerReady == /\ receiver /\ server = "started" /\ server' = "open"
               /\ Message([type |-> "ready"])
               /\ UNCHANGED <<repeatable, said>> /\ ServerOnly

ServerFinal == /\ receiver /\ provider = "local" /\ server = "final" /\ server' = "done"
               /\ Says(1) /\ repeatable' = repeatable \cup {utterance} /\ ServerOnly

ServerRepeats == /\ receiver /\ \E u \in repeatable :
                      /\ Message([type |-> "final", segment |-> <<u, 1>>])
                      /\ repeatable' = repeatable \ {u}
                 /\ UNCHANGED <<server, said>> /\ ServerOnly

ServerSilent == /\ receiver /\ provider = "local" /\ server = "final" /\ server' = "done"
                /\ UNCHANGED <<inbox, repeatable, said>> /\ ServerOnly

(* The clouds. *)
ServerSegment == /\ receiver /\ provider = "cloud" /\ server \in {"open", "final"}
                 /\ Found < MaxSegments /\ Says(Found + 1)
                 /\ UNCHANGED <<server, repeatable>> /\ ServerOnly

ServerDrained == /\ receiver /\ provider = "cloud" /\ server = "final" /\ server' = "done"
                 /\ Message([type |-> "drained"])
                 /\ UNCHANGED <<repeatable, said>> /\ ServerOnly

(* An error message, or the connection breaks. *)
ServerGone == /\ receiver /\ server # "gone" /\ server' = "gone"
              /\ Message([type |-> "gone"])
              /\ UNCHANGED <<repeatable, said>> /\ ServerOnly

Recogniser == \/ ServerReady \/ ServerFinal \/ ServerRepeats \/ ServerSilent
              \/ ServerSegment \/ ServerDrained \/ ServerGone

-----------------------------------------------------------------------------
(* The receiver task.                                                      *)

(* Mutant: deliveries are told apart by their revision only. *)
NewRevision(segment) == \A i \in DOMAIN segments : segments[i][2] # segment[2]

(* _record_final_segment: not delivered before. *)
NewFinal(segment) == ~Contains(segments, segment)

Take(type) == /\ receiver /\ inbox # <<>> /\ Head(inbox).type = type
              /\ inbox' = Tail(inbox)

ReceiverOnly == UNCHANGED <<provider, vad, prev, wait, utterance, active, turnOpen,
                            turnEmitted, over, server, repeatable, turn, voicing, spoken,
                            sent, said, receipts, opened>>

ReceiveReady == /\ Take("ready") /\ ready' = TRUE
                /\ UNCHANGED <<finalizing, finalReceived, segments, protocolError, receiver>>
                /\ ReceiverOnly

(* A final of the current stream that is new; it completes a local stream. *)
ReceiveFinal ==
  /\ Take("final")
  /\ LET segment == Head(inbox).segment IN
     IF segment[1] = utterance /\ NewFinal(segment)
     THEN /\ segments' = Append(segments, segment)
          /\ IF provider = "local" THEN finalizing' = FALSE /\ finalReceived' = TRUE
             ELSE UNCHANGED <<finalizing, finalReceived>>
     ELSE UNCHANGED <<segments, finalizing, finalReceived>>
  /\ UNCHANGED <<ready, protocolError, receiver>> /\ ReceiverOnly

(* Metadata or flush_done: every segment is in. *)
ReceiveDrained ==
  /\ Take("drained") /\ finalizing
  /\ finalizing' = FALSE /\ finalReceived' = TRUE /\ receiver' = FALSE
  /\ UNCHANGED <<ready, segments, protocolError>> /\ ReceiverOnly

ReceiveGone ==
  /\ Take("gone")
  /\ protocolError' = TRUE /\ ready' = TRUE /\ finalReceived' = TRUE /\ receiver' = FALSE
  /\ UNCHANGED <<finalizing, segments>> /\ ReceiverOnly

Receiver == ReceiveReady \/ ReceiveFinal \/ ReceiveDrained \/ ReceiveGone

SpeechNext ==
  \/ StartUtterance \/ HoldBack \/ Resume \/ Started \/ \E s \in DOMAIN Following : Frame(s)
  \/ \E kind \in {"end", "close"} : End(kind)
  \/ EndTurn \/ EndSession \/ Fails
  \/ ~over /\ (Recogniser \/ Receiver)

SpeechSpec == SpeechInit /\ [][SpeechNext]_speechVars
-----------------------------------------------------------------------------
SpeechTypeOK ==
  /\ provider \in {"local", "cloud"}
  /\ {vad, prev} \subseteq DOMAIN Following
  /\ wait \in {"none", "ready", "restart", "end", "close"}
  /\ server \in {"started", "open", "final", "done", "gone"}
  /\ {active, finalizing, ready, finalReceived, turnOpen, turnEmitted, protocolError, over,
      receiver, voicing} \subseteq BOOLEAN
  /\ ~(active /\ finalizing)
  /\ utterance \in Nat /\ opened \in Turns /\ turn \in 1..(MaxTurns + 1)

(* docs/speech-providers.md:63, streaming_media.py:726: the end of a turn is
   preceded by one transcript that holds exactly what the recogniser found in
   the utterances of that turn, each of which it was given; none is cut off by
   the end of the turn, counted twice, or left for the next.                *)
TurnIsWhole ==
  \A t \in 1..(turn - 1) : receipts[t] = said[t] /\ sent[t] = spoken[t]

(* Who waits for a final gets it: the processor never runs into its limit when
   the recogniser has returned all it found.                                *)
FinalIsNoticed ==
  /\ wait \in {"restart", "end", "close"} /\ ~over
  /\ inbox = <<>> /\ server = "done" /\ (provider = "cloud" \/ Found > 0)
  => finalReceived
=============================================================================
