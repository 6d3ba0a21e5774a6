---------------------------- MODULE ListenerBus ----------------------------
(***************************************************************************)
(* Live listening to one execution run in the media process                *)
(* (apps/pipecat/server.py).  The conversations of the run are sessions    *)
(* 1, 2, ... that put their audio on a broadcast; REFERENCE_DUPLEX_RUNS    *)
(* holds the current broadcast of the run.  A broadcast is named after the *)
(* session that created it.  Browsers join with a listener id; they stay   *)
(* on the bus from one conversation to the next.                           *)
(*                                                                         *)
(* All of it runs on one event loop: a step is what happens between two    *)
(* awaits.  One audio key stands for the speech of a session.              *)
(***************************************************************************)
EXTENDS Integers, FiniteSets

CONSTANTS NumSessions,
          Joins,  \* requests to listen
          Ids,    \* listener ids, one per token
          None

Sessions == 1..NumSessions

Closings == [bus : Sessions, by : {"stop", "expire"}]

ASSUME ListenerAssumption ==
  /\ NumSessions \in Nat \ {0}
  /\ None \notin Sessions \cup Joins \cup Ids
  /\ None \notin Closings

VARIABLES
  kind,       \* how the run talks to its agent; one adapter per run
  current,    \* the broadcast on the bus
  active, publishers, listeners, started, \* of each broadcast
  retiring,   \* broadcasts whose retirement timer runs
  pc, home,   \* of each session: progress, and the broadcast it holds
  step, id,   \* of each join: progress, the listener id it carries,
  bus,        \* and the broadcast it found
  disclosed,  \* the keys its answer names as started before it attached
  missed,     \* history: keys it has not got from their first chunk on
  expiring,   \* joins whose expiry task sleeps
  closing     \* joins taken off the bus whose connection is being closed

broadcasts == <<current, active, publishers, listeners, started, retiring>>
joining == <<step, id, bus, disclosed>>
vars == <<kind, broadcasts, pc, home, joining, missed, expiring, closing>>

Init ==
  /\ kind \in {"native", "public", "outbound"}
  /\ current = None
  /\ active = [b \in Sessions |-> FALSE]
  /\ publishers = [b \in Sessions |-> {}]
  /\ listeners = [b \in Sessions |-> [i \in Ids |-> None]]
  /\ started = [b \in Sessions |-> {}]
  /\ retiring = {}
  /\ pc = [s \in Sessions |-> "idle"]
  /\ home = [s \in Sessions |-> None]
  /\ step = [j \in Joins |-> "waiting"]
  /\ id = [j \in Joins |-> None]
  /\ bus = [j \in Joins |-> None]
  /\ disclosed = [j \in Joins |-> {}]
  /\ missed = [j \in Joins |-> {}]
  /\ expiring = {}
  /\ closing = [j \in Joins |-> None]

Hearers(b) == {listeners[b][i] : i \in Ids} \ {None}

OnTheBus == IF current = None THEN {} ELSE Hearers(current)

-----------------------------------------------------------------------------
(* Conversations.                                                          *)

(* The orchestrator runs the conversations of a run one after the other; a
   session in this process may go on after its client has left.             *)
MyTurn(s) == /\ pc[s] = "idle"
             /\ \A t \in 1..(s - 1) : /\ pc[t] # "idle"
                                      /\ kind = "outbound" => pc[t] # "on"

IsActive == current # None /\ active[current]

(* Replacement of a broadcast: its listeners move to the new one. *)
TakenOver(s) ==
  IF current = None THEN listeners
  ELSE [listeners EXCEPT ![s] = listeners[current], ![current] = [i \in Ids |-> None]]

(* A new broadcast; a native one has no other publisher. *)
Replace(s) ==
  /\ MyTurn(s) /\ ~IsActive
  /\ listeners' = TakenOver(s)
  /\ current' = s
  /\ active' = [active EXCEPT ![s] = TRUE]
  /\ publishers' = [publishers EXCEPT ![s] = {s}]
  /\ pc' = [pc EXCEPT ![s] = "on"]
  /\ home' = [home EXCEPT ![s] = s]
  /\ UNCHANGED <<kind, started, retiring, joining, missed, expiring, closing>>

(* An active broadcast is shared, except by a native session. *)
Share(s) ==
  /\ MyTurn(s) /\ IsActive /\ kind # "native"
  /\ publishers' = [publishers EXCEPT ![current] = @ \cup {s}]
  /\ pc' = [pc EXCEPT ![s] = "on"]
  /\ home' = [home EXCEPT ![s] = current]
  /\ UNCHANGED <<kind, current, active, listeners, started, retiring, joining,
                 missed, expiring, closing>>

Refuse(s) ==
  /\ MyTurn(s) /\ IsActive /\ kind = "native"
  /\ pc' = [pc EXCEPT ![s] = "refused"]
  /\ UNCHANGED <<kind, broadcasts, home, joining, missed, expiring, closing>>

Start(s) == Replace(s) \/ Share(s) \/ Refuse(s)

Running(s) == pc[s] = "on"

(* mark_audio_started *)
Announce(s) ==
  /\ kind # "outbound" /\ Running(s)
  /\ started' = [started EXCEPT ![home[s]] = @ \cup {s}]
  /\ UNCHANGED <<kind, current, active, publishers, listeners, retiring, pc, home,
                 joining, missed, expiring, closing>>

(* Joins that are, or may yet be, on a broadcast. *)
Following == {j \in Joins : step[j] = "negotiating"}
               \cup UNION {Hearers(b) : b \in Sessions}

MissedBut(S, s) ==
  [j \in Joins |-> IF j \in Following \ S THEN missed[j] \cup {s} ELSE missed[j]]

(* Mutant: audio is published before it is announced. *)
AnnouncedLater(s) == TRUE

Announced(s) == s \in started[home[s]]

(* publish: a chunk to everyone on the broadcast the session holds. *)
Air(s) ==
  /\ kind # "outbound" /\ Running(s) /\ Announced(s)
  /\ missed' = MissedBut(Hearers(home[s]), s)
  /\ UNCHANGED <<kind, broadcasts, pc, home, joining, expiring, closing>>

(* outbound_voice_broadcast_audio: refused on a broadcast of another session,
   whose name the keys must carry.                                          *)
Audio(s) ==
  /\ kind = "outbound" /\ pc[s] = "on"
  /\ IsActive /\ s \in publishers[current] /\ current = s
  /\ started' = [started EXCEPT ![s] = @ \cup {s}]
  /\ missed' = MissedBut(Hearers(s), s)
  /\ UNCHANGED <<kind, current, active, publishers, listeners, retiring, pc, home,
                 joining, expiring, closing>>

(* The last publisher of b ends the broadcast. *)
Unpublish(s, b) ==
  /\ publishers' = [publishers EXCEPT ![b] = @ \ {s}]
  /\ IF publishers[b] \ {s} = {}
     THEN active' = [active EXCEPT ![b] = FALSE] /\ retiring' = retiring \cup {b}
     ELSE UNCHANGED <<active, retiring>>

(* The finally clause of a session in this process. *)
Finish(s) ==
  /\ kind # "outbound" /\ Running(s)
  /\ Unpublish(s, home[s])
  /\ pc' = [pc EXCEPT ![s] = "off"]
  /\ UNCHANGED <<kind, current, listeners, started, home, joining, missed, expiring, closing>>

(* outbound_voice_broadcast_close *)
Close(s) ==
  /\ kind = "outbound" /\ pc[s] = "on"
  /\ IF current # None /\ s \in publishers[current] THEN Unpublish(s, current)
     ELSE UNCHANGED <<publishers, active, retiring>>
  /\ pc' = [pc EXCEPT ![s] = "off"]
  /\ UNCHANGED <<kind, current, listeners, started, home, joining, missed, expiring, closing>>

(* The call to open or to close fails on its way; nobody repeats it. *)
CloseLost(s) ==
  /\ kind = "outbound" /\ pc[s] = "on"
  /\ pc' = [pc EXCEPT ![s] = "lost"]
  /\ UNCHANGED <<kind, broadcasts, home, joining, missed, expiring, closing>>

-----------------------------------------------------------------------------
(* Listeners.                                                              *)

(* reference_duplex_listen, up to the negotiation of the connection.  A join
   that finds no broadcast in time, or its id taken, is told to try again.   *)
Enter(j, i) ==
  /\ step[j] = "waiting" /\ IsActive
  /\ listeners[current][i] = None
  /\ step' = [step EXCEPT ![j] = "negotiating"]
  /\ id' = [id EXCEPT ![j] = i]
  /\ bus' = [bus EXCEPT ![j] = current]
  /\ missed' = [missed EXCEPT ![j] = started[current]]
  /\ UNCHANGED <<kind, broadcasts, pc, home, disclosed, expiring, closing>>

(* Negotiation fails. *)
GiveUp(j) ==
  /\ step[j] = "negotiating"
  /\ step' = [step EXCEPT ![j] = "refused"]
  /\ id' = [id EXCEPT ![j] = None]
  /\ bus' = [bus EXCEPT ![j] = None]
  /\ missed' = [missed EXCEPT ![j] = {}]
  /\ UNCHANGED <<kind, broadcasts, pc, home, disclosed, expiring, closing>>

(* The rest of it: the listener is on the broadcast it found. *)
Attach(j) ==
  /\ step[j] = "negotiating"
  /\ step' = [step EXCEPT ![j] = "answered"]
  /\ disclosed' = [disclosed EXCEPT ![j] = started[bus[j]]]
  /\ listeners' = [listeners EXCEPT ![bus[j]][id[j]] = j]
  /\ expiring' = expiring \cup {j}
  /\ UNCHANGED <<kind, current, active, publishers, started, retiring, pc, home, id, bus,
                 missed, closing>>

(* Mutants: whoever is on the bus is removed; nobody is. *)
SweptAny(b, S) == IF ~active[b] /\ S = {} THEN None ELSE current
SweptNone(b, S) == current

(* An inactive broadcast left with the listeners S leaves the bus. *)
Swept(b, S) == IF current = b /\ ~active[b] /\ S = {} THEN None ELSE current

(* Take the listener with this id off the bus; its connection is closed
   across an await, before the broadcast is swept.                         *)
TakeOff(i, by) ==
  IF current = None THEN UNCHANGED <<current, listeners, closing>>
  ELSE LET j == listeners[current][i] IN
       IF j = None
       THEN current' = Swept(current, Hearers(current)) /\ UNCHANGED <<listeners, closing>>
       ELSE /\ listeners' = [listeners EXCEPT ![current][i] = None]
            /\ closing' = [closing EXCEPT ![j] = [bus |-> current, by |-> by]]
            /\ UNCHANGED current

(* reference_duplex_listener_stop *)
Stop(i) ==
  /\ TakeOff(i, "stop")
  /\ UNCHANGED <<kind, active, publishers, started, retiring, pc, home, joining, missed, expiring>>

(* _expire_reference_listener *)
Expire(j) ==
  /\ j \in expiring
  /\ expiring' = expiring \ {j}
  /\ TakeOff(id[j], "expire")
  /\ UNCHANGED <<kind, active, publishers, started, retiring, pc, home, joining, missed>>

(* Both, after the connection is closed. *)
Closed(j) ==
  /\ closing[j] # None
  /\ current' = Swept(closing[j].bus, Hearers(closing[j].bus))
  /\ closing' = [closing EXCEPT ![j] = None]
  /\ UNCHANGED <<kind, active, publishers, listeners, started, retiring, pc, home, joining,
                 missed, expiring>>

(* Closing fails: a stop request is answered with the error. *)
StopFails(j) ==
  /\ closing[j] # None /\ closing[j].by = "stop"
  /\ closing' = [closing EXCEPT ![j] = None]
  /\ UNCHANGED <<kind, broadcasts, pc, home, joining, missed, expiring>>

(* Mutant: listeners do not keep a broadcast. *)
RetiredAlways(b) == IF current = b THEN None ELSE current

Retired(b) == IF current = b /\ Hearers(b) = {} THEN None ELSE current

(* _retire_reference_broadcast, after its sleep *)
Retire(b) ==
  /\ b \in retiring
  /\ retiring' = retiring \ {b}
  /\ current' = Retired(b)
  /\ UNCHANGED <<kind, active, publishers, listeners, started, pc, home, joining, missed,
                 expiring, closing>>

Next ==
  \/ \E s \in Sessions : \/ Start(s) \/ Announce(s) \/ Air(s) \/ Audio(s)
                         \/ Finish(s) \/ Close(s) \/ CloseLost(s) \/ Retire(s)
  \/ \E j \in Joins : (\E i \in Ids : Enter(j, i)) \/ GiveUp(j) \/ Attach(j) \/ Expire(j) \/ Closed(j) \/ StopFails(j)
  \/ \E i \in Ids : Stop(i)

Spec == Init /\ [][Next]_vars

(* Sleeping tasks of the event loop wake up, and closing a connection ends. *)
FairSpec == /\ Spec
            /\ \A s \in Sessions : WF_vars(Retire(s))
            /\ \A j \in Joins : WF_vars(Expire(j)) /\ WF_vars(Closed(j) \/ StopFails(j))

-----------------------------------------------------------------------------
Filed ==
  \A b \in Sessions : \A i \in Ids :
    listeners[b][i] # None =>
      /\ id[listeners[b][i]] = i
      /\ \A c \in Sessions \ {b} : listeners[c][i] # listeners[b][i]

(* Types, and the listeners of a broadcast are filed under their id and on no
   other broadcast: mixing two would send a listener every chunk twice.      *)
TypeOK ==
  /\ kind \in {"native", "public", "outbound"}
  /\ current \in Sessions \cup {None}
  /\ active \in [Sessions -> BOOLEAN]
  /\ publishers \in [Sessions -> SUBSET Sessions]
  /\ listeners \in [Sessions -> [Ids -> Joins \cup {None}]]
  /\ started \in [Sessions -> SUBSET Sessions]
  /\ retiring \subseteq Sessions
  /\ pc \in [Sessions -> {"idle", "on", "off", "lost", "refused"}]
  /\ home \in [Sessions -> Sessions \cup {None}]
  /\ step \in [Joins -> {"waiting", "negotiating", "answered", "refused"}]
  /\ id \in [Joins -> Ids \cup {None}]
  /\ bus \in [Joins -> Sessions \cup {None}]
  /\ disclosed \in [Joins -> SUBSET Sessions]
  /\ missed \in [Joins -> SUBSET Sessions]
  /\ expiring \subseteq Joins
  /\ closing \in [Joins -> Closings \cup {None}]
  /\ Filed

(* A session that publishes holds the broadcast that is on the bus, and that
   broadcast is active: timers and clean-up of earlier conversations never
   remove it (server.py:1805, :2348, :2381), and no other session ends it.   *)
OnAir == \A s \in Sessions : Running(s) => home[s] = current /\ active[current]

(* A key a listener on the bus did not get from its first chunk on is named
   in its answer among those started before it attached (server.py:2294), so
   that the page can show the gap; it gets all of every other key, those of
   later conversations included.                                             *)
HeardOrDisclosed == \A j \in OnTheBus : missed[j] \subseteq disclosed[j]

(* Retiring, replacing and cleaning up broadcasts takes no listener off the
   bus: only the end of its own token does, a request to stop, or another
   join with the same token (server.py:1803).                                *)
NeverCutOff ==
  [][\A j \in OnTheBus \ OnTheBus' :
       \/ closing'[j] # None
       \/ \E k \in Joins \ {j} : id[k] = id[j] /\ k \in OnTheBus']_vars

(* An inactive broadcast does not stay: with listeners, the last of them to
   expire removes it, even if its timer fired before (server.py:1803, :2345). *)
GhostsLeave ==
  \A b \in Sessions : (current = b /\ ~active[b]) ~> (current # b)
=============================================================================
