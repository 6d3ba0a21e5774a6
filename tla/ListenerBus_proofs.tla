------------------------- MODULE ListenerBus_proofs -------------------------
(***************************************************************************)
(* Theorems about ListenerBus, for all numbers of conversations, joins and *)
(* tokens.  Only the broadcast on the bus is active, and one that has been *)
(* replaced never comes back: that is why no old timer, no old clean-up    *)
(* and no late join can do anything to it.                                 *)
(***************************************************************************)
EXTENDS ListenerBus, TLAPS

(* What a step in progress refers to exists. *)
Linked ==
  /\ \A s \in Sessions : Running(s) => home[s] \in Sessions
  /\ \A j \in Joins : step[j] \in {"negotiating", "answered"} => bus[j] \in Sessions /\ id[j] \in Ids
  /\ \A j \in expiring : step[j] = "answered"
  /\ \A b \in Sessions : \A i \in Ids :
       listeners[b][i] # None => step[listeners[b][i]] = "answered"

Shape == TypeOK /\ Linked

LEMMA Names == None \notin Sessions /\ None \notin Joins /\ None \notin Ids
  BY ListenerAssumption

LEMMA CurrentTyped == ASSUME TypeOK, current # None PROVE current \in Sessions
  BY DEF TypeOK

(* Row by row, where the listeners are after a replacement. *)
LEMMA TakenOverRows ==
  ASSUME TypeOK, NEW s \in Sessions
  PROVE  /\ TakenOver(s) \in [Sessions -> [Ids -> Joins \cup {None}]]
         /\ \A b \in Sessions : \A i \in Ids :
              TakenOver(s)[b][i] =
                IF current = None THEN listeners[b][i]
                ELSE IF b = current THEN None
                ELSE IF b = s THEN listeners[current][i] ELSE listeners[b][i]
<1>1. CASE current = None
  BY <1>1 DEF TakenOver, TypeOK
<1>2. CASE current # None
  <2> DEFINE none == [i \in Ids |-> None]
  <2>1. current \in Sessions
    BY <1>2 DEF TypeOK
  <2>2. none \in [Ids -> Joins \cup {None}] /\ \A i \in Ids : none[i] = None
    OBVIOUS
  <2>3. TakenOver(s) = [listeners EXCEPT ![s] = listeners[current], ![current] = none]
    BY <1>2 DEF TakenOver
  <2> HIDE DEF none
  <2> QED
    BY <1>2, <2>1, <2>2, <2>3 DEF TypeOK
<1> QED
  BY <1>1, <1>2

(* Taking a listener off the bus disturbs the rows and the closing joins. *)
LEMMA TakeOffShape ==
  ASSUME Shape, NEW i \in Ids, NEW by \in {"stop", "expire"}, TakeOff(i, by)
  PROVE  /\ current' \in {current, None}
         /\ listeners' \in [Sessions -> [Ids -> Joins \cup {None}]]
         /\ \A b \in Sessions : \A k \in Ids : listeners'[b][k] \in {listeners[b][k], None}
         /\ closing' \in [Joins -> Closings \cup {None}]
<1>1. CASE current = None
  BY <1>1 DEF TakeOff, Shape, TypeOK
<1>2. CASE current # None /\ listeners[current][i] = None
  BY <1>2 DEF TakeOff, Shape, TypeOK, Swept
<1>3. CASE current # None /\ listeners[current][i] # None
  <2>1. PICK j \in Joins : j = listeners[current][i]
    BY <1>3, CurrentTyped DEF Shape, TypeOK
  <2>2. /\ current \in Sessions
        /\ listeners' = [listeners EXCEPT ![current][i] = None]
        /\ closing' = [closing EXCEPT ![j] = [bus |-> current, by |-> by]]
        /\ current' = current
    BY <1>3, <2>1, CurrentTyped DEF TakeOff, Shape
  <2>3. [bus |-> current, by |-> by] \in Closings
    BY <2>2 DEF Closings
  <2>4. closing' \in [Joins -> Closings \cup {None}]
    BY <2>2, <2>3 DEF Shape, TypeOK
  <2> QED
    BY <2>2, <2>4 DEF Shape, TypeOK
<1> QED
  BY <1>1, <1>2, <1>3

LEMMA ShapeInit == Init => Shape
<1> SUFFICES ASSUME Init PROVE Shape
  OBVIOUS
<1>1. /\ \A s \in Sessions : ~Running(s)
      /\ \A b \in Sessions : \A i \in Ids : listeners[b][i] = None
  BY DEF Init, Running
<1>2. Filed /\ Linked
  BY <1>1 DEF Init, Filed, Linked
<1> QED
  BY <1>2 DEF Init, Shape, TypeOK

(* A step that leaves the joins alone. *)
LEMMA ShapeOfSessions ==
  ASSUME Shape, NEW s \in Sessions,
         Share(s) \/ Refuse(s) \/ Announce(s) \/ Air(s) \/ Audio(s) \/ Finish(s)
           \/ Close(s) \/ CloseLost(s) \/ Retire(s)
  PROVE  Shape'
<1>0. listeners' = listeners /\ UNCHANGED <<joining, expiring, closing>>
  BY DEF Share, Refuse, Announce, Air, Audio, Finish, Close, CloseLost, Retire, broadcasts
<1>1. Filed'
  BY <1>0 DEF Filed, Shape, TypeOK, joining
<1>2. ASSUME (\A t \in Sessions : Running(t) => home[t] \in Sessions)' PROVE Linked'
  BY <1>0, <1>2 DEF Linked, Shape, joining
<1>3. \A S \in SUBSET Joins : MissedBut(S, s) \in [Joins -> SUBSET Sessions]
  BY DEF MissedBut, Shape, TypeOK
<1>4. \A b \in Sessions : Hearers(b) \in SUBSET Joins
  BY DEF Hearers, Shape, TypeOK
<1>a. ASSUME NEW b \in Sessions, Unpublish(s, b)
      PROVE  /\ publishers' \in [Sessions -> SUBSET Sessions]
             /\ active' \in [Sessions -> BOOLEAN]
             /\ retiring' \subseteq Sessions
  <2>1. publishers' = [publishers EXCEPT ![b] = @ \ {s}]
    BY <1>a DEF Unpublish
  <2>2. publishers' \in [Sessions -> SUBSET Sessions]
    BY <2>1 DEF Shape, TypeOK
  <2>3. active' \in [Sessions -> BOOLEAN] /\ retiring' \subseteq Sessions
    BY <1>a DEF Unpublish, Shape, TypeOK
  <2> QED
    BY <2>2, <2>3
<1> USE <1>0, <1>1, <1>2 DEF Shape, TypeOK, Linked, Running, joining, broadcasts
<1>5. CASE Share(s)
  BY <1>5, CurrentTyped DEF Share, IsActive
<1>6. CASE Refuse(s)
  BY <1>6 DEF Refuse
<1>8. CASE Announce(s)
  BY <1>8 DEF Announce
<1>9. CASE Air(s)
  BY <1>9, <1>3, <1>4 DEF Air
<1>10. CASE Audio(s)
  BY <1>10, <1>3, <1>4 DEF Audio
<1>11. CASE Finish(s)
  <2>1. home[s] \in Sessions
    BY <1>11 DEF Finish
  <2>2. Unpublish(s, home[s])
    BY <1>11 DEF Finish
  <2> QED
    BY <1>a, <1>11, <2>1, <2>2 DEF Finish
<1>12. CASE Close(s)
  <2>1. CASE current # None /\ s \in publishers[current]
    BY <1>a, <1>12, <2>1, CurrentTyped DEF Close
  <2>2. CASE ~(current # None /\ s \in publishers[current])
    BY <1>12, <2>2 DEF Close
  <2> QED
    BY <2>1, <2>2
<1>13. CASE CloseLost(s)
  BY <1>13 DEF CloseLost
<1>14. CASE Retire(s)
  BY <1>14 DEF Retire, Retired
<1> QED
  BY <1>5, <1>6, <1>8, <1>9, <1>10, <1>11, <1>12, <1>13, <1>14

LEMMA ShapeOfReplace == ASSUME Shape, NEW s \in Sessions, Replace(s) PROVE Shape'
<1>1. /\ listeners' \in [Sessions -> [Ids -> Joins \cup {None}]]
      /\ \A b \in Sessions : \A i \in Ids :
           listeners'[b][i] = IF current = None THEN listeners[b][i]
                              ELSE IF b = current THEN None
                              ELSE IF b = s THEN listeners[current][i] ELSE listeners[b][i]
  BY TakenOverRows DEF Replace, Shape
<1>2. UNCHANGED <<joining, expiring, closing, missed>>
  BY DEF Replace
<1>3. current # None => current \in Sessions
  BY CurrentTyped DEF Shape
<1>a. \A b \in Sessions : \A i \in Ids :
        listeners[b][i] # None =>
          id[listeners[b][i]] = i /\ \A c \in Sessions \ {b} : listeners[c][i] # listeners[b][i]
  BY DEF Filed, Shape, TypeOK
<1>4. Filed'
  <2> SUFFICES ASSUME NEW b \in Sessions, NEW i \in Ids, listeners'[b][i] # None
               PROVE  /\ id[listeners'[b][i]] = i
                      /\ \A c \in Sessions \ {b} : listeners'[c][i] # listeners'[b][i]
    BY <1>2 DEF Filed, joining
  <2>1. CASE current = None
    BY <1>a, <1>1, <2>1
  <2>2. CASE current # None /\ b = s
    <3>1. s # current /\ listeners'[b][i] = listeners[current][i]
      BY <1>1, <2>2
    <3> QED
      BY <1>a, <1>1, <1>3, <2>2, <3>1
  <2>3. CASE current # None /\ b # s
    <3>1. b # current /\ listeners'[b][i] = listeners[b][i]
      BY <1>1, <2>3
    <3> QED
      BY <1>a, <1>1, <1>3, <2>3, <3>1
  <2> QED
    BY <2>1, <2>2, <2>3
<1>5. Linked'
  <2>1. \A b \in Sessions : \A i \in Ids :
          listeners'[b][i] # None => \E c \in Sessions : listeners'[b][i] = listeners[c][i]
    BY <1>1, <1>3
  <2> QED
    BY <1>2, <2>1 DEF Linked, Shape, TypeOK, Running, Replace, joining
<1> QED
  BY <1>1, <1>2, <1>4, <1>5 DEF Shape, TypeOK, Replace, joining

LEMMA ShapeOfTakeOff ==
  ASSUME Shape, NEW i \in Ids, NEW by \in {"stop", "expire"}, TakeOff(i, by),
         UNCHANGED <<kind, active, publishers, started, retiring, pc, home, joining, missed>>,
         expiring' \subseteq expiring
  PROVE  Shape'
<1>1. /\ current' \in {current, None}
      /\ listeners' \in [Sessions -> [Ids -> Joins \cup {None}]]
      /\ \A b \in Sessions : \A k \in Ids : listeners'[b][k] \in {listeners[b][k], None}
      /\ closing' \in [Joins -> Closings \cup {None}]
  BY TakeOffShape
<1>2. Filed'
  BY <1>1 DEF Filed, Shape, TypeOK, joining
<1>3. Linked'
  BY <1>1 DEF Linked, Shape, TypeOK, Running, joining
<1> QED
  BY <1>1, <1>2, <1>3 DEF Shape, TypeOK, joining

LEMMA ShapeOfAttach == ASSUME Shape, NEW j \in Joins, Attach(j) PROVE Shape'
<1>1. /\ step[j] = "negotiating" /\ bus[j] \in Sessions /\ id[j] \in Ids /\ j # None
      /\ listeners' = [listeners EXCEPT ![bus[j]][id[j]] = j]
      /\ step' = [step EXCEPT ![j] = "answered"]
      /\ id' = id /\ bus' = bus
  BY ListenerAssumption DEF Attach, Shape, Linked
<1>2. /\ listeners' \in [Sessions -> [Ids -> Joins \cup {None}]]
      /\ \A b \in Sessions : \A i \in Ids :
           listeners'[b][i] = IF b = bus[j] /\ i = id[j] THEN j ELSE listeners[b][i]
  BY <1>1 DEF Shape, TypeOK
<1>3. \A b \in Sessions : \A i \in Ids : listeners[b][i] # j
  BY <1>1 DEF Shape, Linked
<1>4. Filed'
  BY <1>1, <1>2, <1>3 DEF Filed, Shape, TypeOK
<1>5. Linked'
  BY <1>1, <1>2 DEF Linked, Shape, TypeOK, Running, Attach
<1> QED
  BY <1>1, <1>2, <1>4, <1>5 DEF Shape, TypeOK, Attach

LEMMA ShapeOfJoins ==
  ASSUME Shape, NEW j \in Joins,
         (\E i \in Ids : Enter(j, i)) \/ GiveUp(j) \/ Closed(j) \/ StopFails(j)
  PROVE  Shape'
<1>0. listeners' = listeners /\ UNCHANGED <<kind, active, publishers, started, retiring, pc, home, expiring>>
  BY DEF Enter, GiveUp, Closed, StopFails, broadcasts
<1>1. j \in Joins /\ (step[j] # "answered" => \A b \in Sessions : \A i \in Ids : listeners[b][i] # j)
  BY ListenerAssumption DEF Shape, Linked
<1>2. CASE \E i \in Ids : Enter(j, i)
  <2>1. PICK i \in Ids : Enter(j, i)
    BY <1>2
  <2>2. current \in Sessions
    BY <2>1, CurrentTyped DEF Enter, IsActive, Shape
  <2>3. Filed' /\ Linked'
    BY <1>0, <1>1, <2>1, <2>2 DEF Enter, Filed, Linked, Running, Shape, TypeOK
  <2> QED
    BY <1>0, <2>1, <2>2, <2>3 DEF Enter, Shape, TypeOK, broadcasts
<1>3. CASE GiveUp(j)
  <2>1. Filed' /\ Linked'
    BY <1>0, <1>1, <1>3 DEF GiveUp, Filed, Linked, Running, Shape, TypeOK
  <2> QED
    BY <1>0, <1>3, <2>1 DEF GiveUp, Shape, TypeOK, broadcasts
<1>4. CASE Closed(j) \/ StopFails(j)
  <2>1. UNCHANGED <<joining, missed>>
    BY <1>4 DEF Closed, StopFails
  <2>2. Filed' /\ Linked'
    BY <1>0, <2>1 DEF Filed, Linked, Running, Shape, TypeOK, joining
  <2> QED
    BY <1>0, <1>4, <2>1, <2>2 DEF Closed, StopFails, Swept, Shape, TypeOK, joining, broadcasts
<1> QED
  BY <1>2, <1>3, <1>4

LEMMA ShapeStep == Shape /\ [Next]_vars => Shape'
<1> SUFFICES ASSUME Shape, [Next]_vars PROVE Shape'
  OBVIOUS
<1>1. CASE UNCHANGED vars
  <2>1. Filed' /\ Linked'
    BY <1>1 DEF vars, broadcasts, joining, Filed, Linked, Running, Shape, TypeOK
  <2> QED
    BY <1>1, <2>1 DEF vars, broadcasts, joining, Shape, TypeOK
<1>2. ASSUME NEW i \in Ids, Stop(i) PROVE Shape'
  BY <1>2, ShapeOfTakeOff DEF Stop
<1>3. ASSUME NEW j \in Joins, Expire(j) PROVE Shape'
  <2>1. id[j] \in Ids
    BY <1>3 DEF Expire, Shape, Linked
  <2> QED
    BY <1>3, <2>1, ShapeOfTakeOff DEF Expire
<1> QED
  BY <1>1, <1>2, <1>3, ShapeOfSessions, ShapeOfReplace, ShapeOfAttach, ShapeOfJoins DEF Next, Start

(* Every reachable state is well typed, and no listener is on two broadcasts
   or filed under the id of another.                                        *)
THEOREM TypeCorrect == Spec => []TypeOK
<1>1. Spec => []Shape
  BY ShapeInit, ShapeStep, PTL DEF Spec
<1> QED
  BY <1>1, PTL DEF Shape

-----------------------------------------------------------------------------
(* Nothing refers to a session that has not started. *)
Unborn ==
  \A s \in Sessions : pc[s] = "idle" =>
    /\ current # s /\ s \notin retiring /\ home[s] = None
    /\ \A i \in Ids : listeners[s][i] = None
    /\ \A t \in Sessions : home[t] # s
    /\ \A j \in Joins : bus[j] # s

(* The broadcast on the bus is the only one that is active; a session that
   publishes is one of its publishers.                                      *)
OnlyActive ==
  /\ \A b \in Sessions : active[b] => current = b
  /\ \A b \in retiring : ~active[b]
  /\ \A s \in Sessions : Running(s) => s \in publishers[home[s]]

Bus == Unborn /\ OnlyActive /\ OnAir

LEMMA BusInit == Init => Bus
<1> SUFFICES ASSUME Init PROVE Bus
  OBVIOUS
<1>1. \A s \in Sessions : ~Running(s) /\ s # None
  BY ListenerAssumption DEF Init, Running
<1>2. \A j \in Joins : bus[j] = None
  BY DEF Init
<1> QED
  BY <1>1, <1>2 DEF Init, Bus, Unborn, OnlyActive, OnAir

LEMMA BusOfReplace == ASSUME Shape, Bus, NEW s \in Sessions, Replace(s) PROVE Bus'
<1>1. /\ \A b \in Sessions : \A i \in Ids :
           listeners'[b][i] = IF current = None THEN listeners[b][i]
                              ELSE IF b = current THEN None
                              ELSE IF b = s THEN listeners[current][i] ELSE listeners[b][i]
  BY TakenOverRows DEF Replace, Shape
<1>2. /\ pc[s] = "idle"
      /\ \A b \in Sessions : ~active[b]
      /\ current' = s
      /\ active' = [active EXCEPT ![s] = TRUE]
      /\ publishers' = [publishers EXCEPT ![s] = {s}]
      /\ pc' = [pc EXCEPT ![s] = "on"]
      /\ home' = [home EXCEPT ![s] = s]
      /\ UNCHANGED <<retiring, bus>>
  <2>1. \A b \in Sessions : ~active[b]
    <3> SUFFICES ASSUME NEW b \in Sessions, active[b] PROVE FALSE
      OBVIOUS
    <3>1. current = b /\ b # None
      BY Names DEF Bus, OnlyActive
    <3> QED
      BY <3>1 DEF Replace, IsActive
  <2> QED
    BY <2>1 DEF Replace, MyTurn, joining
<1>3. \A t \in Sessions : ~Running(t)
  BY <1>2 DEF Bus, OnAir, Shape, Linked
<1>7. Unborn'
  <2> SUFFICES ASSUME NEW t \in Sessions, pc'[t] = "idle"
               PROVE  /\ current' # t /\ t \notin retiring' /\ home'[t] = None
                      /\ \A i \in Ids : listeners'[t][i] = None
                      /\ \A u \in Sessions : home'[u] # t
                      /\ \A j \in Joins : bus'[j] # t
    BY DEF Unborn
  <2>1. t # s /\ pc[t] = "idle" /\ current # t
    BY <1>2 DEF Bus, Unborn, Shape, TypeOK
  <2>2. \A i \in Ids : listeners'[t][i] = None
    BY <1>1, <2>1 DEF Bus, Unborn
  <2> QED
    BY <1>2, <2>1, <2>2 DEF Bus, Unborn, Shape, TypeOK
<1>8. OnlyActive'
  <2>1. s # None /\ s \notin retiring
    BY <1>2, Names DEF Bus, Unborn
  <2>2. \A t \in Sessions : Running(t)' => t = s
    BY <1>2, <1>3 DEF Running, Shape, TypeOK
  <2> QED
    BY <1>2, <2>1, <2>2 DEF OnlyActive, Bus, Shape, TypeOK
<1>9. OnAir'
  <2>1. \A t \in Sessions : Running(t)' => t = s
    BY <1>2, <1>3 DEF Running, Shape, TypeOK
  <2> QED
    BY <1>2, <2>1 DEF OnAir, Shape, TypeOK
<1> QED
  BY <1>7, <1>8, <1>9 DEF Bus

(* Progress of sessions, and what only adds to a broadcast. *)
LEMMA BusOfSessions ==
  ASSUME Shape, Bus, NEW s \in Sessions,
         Share(s) \/ Refuse(s) \/ Announce(s) \/ Air(s) \/ Audio(s) \/ CloseLost(s)
  PROVE  Bus'
<1> USE DEF Bus, Unborn, OnlyActive, OnAir, Running, Shape, TypeOK, Linked, joining, broadcasts
<1>1. CASE Share(s)
  <2>1. current \in Sessions /\ current # s
    BY <1>1, CurrentTyped DEF Share, MyTurn, IsActive
  <2>2. pc[current] # "idle"
    BY <2>1
  <2> QED
    BY <1>1, <2>1, <2>2 DEF Share, MyTurn, IsActive
<1>2. CASE Refuse(s)
  BY <1>2 DEF Refuse, MyTurn
<1>4. CASE Announce(s)
  BY <1>4 DEF Announce
<1>5. CASE Air(s)
  BY <1>5 DEF Air
<1>6. CASE Audio(s)
  BY <1>6 DEF Audio
<1>7. CASE CloseLost(s)
  BY <1>7 DEF CloseLost
<1> QED
  BY <1>1, <1>2, <1>4, <1>5, <1>6, <1>7

(* The end of a session: who still publishes on its broadcast keeps it. *)
LEMMA BusOfUnpublish ==
  ASSUME Shape, Bus, NEW s \in Sessions, NEW b \in Sessions, pc[b] # "idle", Unpublish(s, b),
         pc[s] # "idle", pc' = [pc EXCEPT ![s] = "off"],
         UNCHANGED <<current, listeners, home, bus>>
  PROVE  Bus'
<1>1. /\ publishers' = [publishers EXCEPT ![b] = @ \ {s}]
      /\ active' = active \/ (active' = [active EXCEPT ![b] = FALSE] /\ publishers[b] \ {s} = {})
      /\ retiring' = retiring \/ (retiring' = retiring \cup {b} /\ active'[b] = FALSE)
  BY DEF Unpublish, Shape, TypeOK
<1>2. \A t \in Sessions : (pc'[t] = "idle" <=> pc[t] = "idle") /\ (Running(t)' => Running(t) /\ t # s)
  BY DEF Running, Shape, TypeOK
<1>3. Unborn'
  BY <1>1, <1>2 DEF Bus, Unborn
<1>4. \A t \in Sessions : Running(t)' =>
        t \in publishers'[home'[t]] /\ home'[t] = current' /\ active'[current']
  <2> SUFFICES ASSUME NEW t \in Sessions, Running(t)'
               PROVE  t \in publishers'[home[t]] /\ home[t] = current /\ active'[current]
    OBVIOUS
  <2>1. /\ t # s /\ t \in publishers[home[t]] /\ home[t] \in Sessions
        /\ home[t] = current /\ active[current]
    BY <1>2 DEF Bus, OnlyActive, OnAir, Shape, Linked
  <2>2. t \in publishers'[home[t]]
    BY <1>1, <2>1 DEF Shape, TypeOK
  <2>3. current = b => publishers[b] \ {s} # {}
    BY <2>1
  <2>4. active'[current]
    BY <1>1, <2>1, <2>3 DEF Shape, TypeOK
  <2> QED
    BY <2>1, <2>2, <2>4
<1>5. (\A c \in Sessions : active[c] => current = c)' /\ (\A c \in retiring : ~active[c])'
  <2>1. active \in [Sessions -> BOOLEAN] /\ retiring \subseteq Sessions
    BY DEF Shape, TypeOK
  <2>2. /\ \A c \in Sessions : active[c] => current = c
        /\ \A c \in retiring : ~active[c]
    BY DEF Bus, OnlyActive
  <2>3. \A c \in Sessions : active'[c] => active[c]
    BY <1>1, <2>1
  <2> QED
    BY <1>1, <2>1, <2>2, <2>3
<1>6. OnlyActive' /\ OnAir'
  BY <1>4, <1>5 DEF Bus, OnlyActive, OnAir
<1> QED
  BY <1>3, <1>6 DEF Bus

LEMMA BusOfEnds == ASSUME Shape, Bus, NEW s \in Sessions, Finish(s) \/ Close(s) PROVE Bus'
<1>1. CASE Finish(s)
  <2>1. home[s] \in Sessions /\ pc[home[s]] # "idle" /\ pc[s] # "idle"
    BY <1>1 DEF Finish, Running, Shape, Linked, Bus, Unborn
  <2> QED
    BY <1>1, <2>1, BusOfUnpublish DEF Finish, joining
<1>2. CASE Close(s) /\ current # None /\ s \in publishers[current]
  <2>1. current \in Sessions /\ pc[current] # "idle" /\ pc[s] # "idle"
    BY <1>2, CurrentTyped DEF Close, Shape, Bus, Unborn
  <2> QED
    BY <1>2, <2>1, BusOfUnpublish DEF Close, joining
<1>3. CASE Close(s) /\ ~(current # None /\ s \in publishers[current])
  <2>1. Running(s)
    BY <1>3 DEF Close, Running
  <2>2. home[s] \in Sessions /\ home[s] = current /\ s \in publishers[current]
    BY <2>1 DEF Bus, OnAir, OnlyActive, Shape, Linked
  <2> QED
    BY <1>3, <2>2, Names
<1> QED
  BY <1>1, <1>2, <1>3

(* Old timers, clean-up and listeners only ever take an inactive broadcast
   off the bus.                                                             *)
LEMMA BusOfRemovals ==
  ASSUME Shape, Bus, UNCHANGED <<active, publishers, pc, home>>,
         retiring' \subseteq retiring,
         current' = current \/ (current' = None /\ current \in Sessions /\ ~active[current]),
         \A s \in Sessions : pc[s] = "idle" =>
           (\A i \in Ids : listeners'[s][i] = None) /\ (\A j \in Joins : bus'[j] # s)
  PROVE  Bus'
<1>1. \A s \in Sessions : ~Running(s) \/ current' = current
  BY DEF Bus, OnAir
<1>2. \A b \in Sessions : active[b] => current' = current
  BY DEF Bus, OnlyActive
<1>3. current' \in {current, None}
  OBVIOUS
<1>5. Unborn'
  BY <1>3, Names DEF Bus, Unborn
<1>6. OnlyActive'
  <2>1. retiring \subseteq Sessions
    BY DEF Shape, TypeOK
  <2> QED
    BY <1>2, <1>3, <2>1 DEF Bus, OnlyActive, Running
<1>7. OnAir'
  BY <1>1 DEF Bus, OnAir, Running
<1> QED
  BY <1>5, <1>6, <1>7 DEF Bus

LEMMA BusOfJoins ==
  ASSUME Shape, Bus, NEW j \in Joins,
         (\E i \in Ids : Enter(j, i)) \/ GiveUp(j) \/ Attach(j) \/ Closed(j) \/ StopFails(j)
  PROVE  Bus'
<1> USE DEF Shape, TypeOK, broadcasts, joining
<1>1. CASE \E i \in Ids : Enter(j, i)
  <2>1. current \in Sessions /\ pc[current] # "idle"
    BY <1>1 DEF Enter, IsActive, Bus, Unborn
  <2> QED
    BY <1>1, <2>1, BusOfRemovals DEF Enter, Bus, Unborn
<1>2. CASE GiveUp(j)
  BY <1>2, Names, BusOfRemovals DEF GiveUp, Bus, Unborn
<1>3. CASE Attach(j)
  <2>1. bus[j] \in Sessions /\ id[j] \in Ids /\ pc[bus[j]] # "idle"
    BY <1>3 DEF Attach, Linked, Bus, Unborn
  <2>2. \A s \in Sessions : pc[s] = "idle" => listeners'[s] = listeners[s]
    BY <1>3, <2>1 DEF Attach
  <2> QED
    BY <1>3, <2>2, BusOfRemovals DEF Attach, Bus, Unborn
<1>4. CASE Closed(j)
  <2>1. current' = current \/ (current' = None /\ current \in Sessions /\ ~active[current])
    BY <1>4 DEF Closed, Swept
  <2> QED
    BY <1>4, <2>1, BusOfRemovals DEF Closed, Bus, Unborn
<1>5. CASE StopFails(j)
  BY <1>5, BusOfRemovals DEF StopFails, Bus, Unborn
<1> QED
  BY <1>1, <1>2, <1>3, <1>4, <1>5

LEMMA BusOfTakeOff ==
  ASSUME Shape, Bus, NEW i \in Ids, NEW by \in {"stop", "expire"}, TakeOff(i, by),
         UNCHANGED <<active, publishers, retiring, pc, home, joining>>
  PROVE  Bus'
<1>1. \A b \in Sessions : \A k \in Ids : listeners'[b][k] \in {listeners[b][k], None}
  BY TakeOffShape
<1>2. current' = current \/ (current' = None /\ current \in Sessions /\ ~active[current])
  BY CurrentTyped DEF TakeOff, Swept, Shape
<1> QED
  BY <1>1, <1>2, BusOfRemovals DEF Bus, Unborn, joining

LEMMA BusStep == Shape /\ Bus /\ [Next]_vars => Bus'
<1> SUFFICES ASSUME Shape, Bus, [Next]_vars PROVE Bus'
  OBVIOUS
<1>1. CASE UNCHANGED vars
  BY <1>1, BusOfRemovals DEF vars, broadcasts, joining, Bus, Unborn
<1>2. ASSUME NEW i \in Ids, Stop(i) PROVE Bus'
  BY <1>2, BusOfTakeOff DEF Stop
<1>3. ASSUME NEW j \in Joins, Expire(j) PROVE Bus'
  <2>1. id[j] \in Ids
    BY <1>3 DEF Expire, Shape, Linked
  <2> QED
    BY <1>3, <2>1, BusOfTakeOff DEF Expire
<1>4. ASSUME NEW b \in Sessions, Retire(b) PROVE Bus'
  <2>1. current' = current \/ (current' = None /\ current \in Sessions /\ ~active[current])
    BY <1>4 DEF Retire, Retired, Bus, OnlyActive
  <2> QED
    BY <1>4, <2>1, BusOfRemovals DEF Retire, joining, Bus, Unborn
<1> QED
  BY <1>1, <1>2, <1>3, <1>4, BusOfReplace, BusOfSessions, BusOfEnds, BusOfJoins DEF Next, Start

LEMMA BusAlways == Spec => [](Shape /\ Bus)
  BY ShapeInit, ShapeStep, BusInit, BusStep, PTL DEF Spec

(* Who publishes holds the broadcast on the bus, which is active. *)
THEOREM OnAirHolds == Spec => []OnAir
  BY BusAlways, PTL DEF Bus

-----------------------------------------------------------------------------
(* What a join that negotiates with the broadcast on the bus has missed so far
   will be in its answer.                                                     *)
ToBeTold ==
  \A j \in Joins : step[j] = "negotiating" /\ bus[j] = current => missed[j] \subseteq started[bus[j]]

Heard == ToBeTold /\ HeardOrDisclosed

LEMMA HeardInit == Init => Heard
  BY DEF Init, Heard, ToBeTold, HeardOrDisclosed, OnTheBus

LEMMA OnTheBusJoins ==
  ASSUME Shape
  PROVE  OnTheBus \subseteq Joins /\ \A j \in OnTheBus : step[j] = "answered"
  BY CurrentTyped DEF OnTheBus, Hearers, Shape, TypeOK, Linked

(* Steps that publish nothing, attach no one and bring no broadcast. *)
LEMMA HeardOfOthers ==
  ASSUME Shape, Heard, OnTheBus' \subseteq OnTheBus, current' \in {current, None},
         UNCHANGED <<joining, missed>>,
         \A b \in Sessions : started[b] \subseteq started'[b]
  PROVE  Heard'
<1>1. ToBeTold'
  BY Names DEF Heard, ToBeTold, Shape, Linked, joining
<1>2. HeardOrDisclosed'
  BY DEF Heard, HeardOrDisclosed, joining
<1> QED
  BY <1>1, <1>2 DEF Heard

(* A chunk reaches everyone on the bus, and its key is marked. *)
LEMMA HeardOfAudio ==
  ASSUME Shape, Bus, Heard, NEW s \in Sessions, Air(s) \/ Audio(s) PROVE Heard'
<1>1. /\ Running(s) /\ home[s] \in Sessions /\ home[s] = current /\ current # None
      /\ UNCHANGED <<current, listeners, disclosed, bus, step>>
  BY Names DEF Air, Audio, Running, Bus, OnAir, Shape, Linked, joining, broadcasts
<1>2. missed' = MissedBut(OnTheBus, s) /\ s \in started'[current]
      /\ \A b \in Sessions : started[b] \subseteq started'[b]
  <2>1. CASE Air(s)
    <3>1. UNCHANGED started /\ s \in started[home[s]]
      BY <2>1 DEF Air, Announced, broadcasts
    <3>2. missed' = MissedBut(Hearers(home[s]), s)
      BY <2>1 DEF Air
    <3> QED
      BY <1>1, <3>1, <3>2 DEF OnTheBus
  <2>2. CASE Audio(s)
    <3>1. current = s /\ started' = [started EXCEPT ![s] = @ \cup {s}]
      BY <2>2 DEF Audio
    <3>2. missed' = MissedBut(Hearers(s), s)
      BY <2>2 DEF Audio
    <3> QED
      BY <1>1, <3>1, <3>2 DEF OnTheBus, Shape, TypeOK
  <2> QED
    BY <2>1, <2>2
<1>3. OnTheBus' = OnTheBus
  BY <1>1 DEF OnTheBus, Hearers
<1>4. \A j \in Joins : /\ missed'[j] \subseteq missed[j] \cup {s}
                       /\ j \in OnTheBus => missed'[j] = missed[j]
  BY <1>2 DEF MissedBut, Shape, TypeOK
<1>5. ToBeTold'
  BY <1>1, <1>2, <1>4 DEF Heard, ToBeTold
<1>6. HeardOrDisclosed'
  BY <1>1, <1>3, <1>4, OnTheBusJoins DEF Heard, HeardOrDisclosed
<1> QED
  BY <1>5, <1>6 DEF Heard

(* Nobody negotiates with a broadcast that is new. *)
LEMMA HeardOfReplace == ASSUME Shape, Bus, Heard, NEW s \in Sessions, Replace(s) PROVE Heard'
<1>1. pc[s] = "idle" /\ current' = s /\ UNCHANGED <<joining, missed>>
  BY DEF Replace, MyTurn
<1>2. ToBeTold'
  BY <1>1 DEF ToBeTold, Bus, Unborn, joining
<1>3. OnTheBus' \subseteq OnTheBus
  <2>1. \A i \in Ids : listeners'[s][i] = IF current = None THEN None ELSE listeners[current][i]
    BY <1>1, TakenOverRows DEF Replace, Shape, Bus, Unborn
  <2>2. OnTheBus' = {listeners'[s][i] : i \in Ids} \ {None}
    BY <1>1, Names DEF OnTheBus, Hearers
  <2> QED
    BY <2>1, <2>2 DEF OnTheBus, Hearers
<1>4. HeardOrDisclosed'
  BY <1>1, <1>3 DEF Heard, HeardOrDisclosed, joining
<1> QED
  BY <1>2, <1>4 DEF Heard

LEMMA HeardOfAttach == ASSUME Shape, Heard, NEW j \in Joins, Attach(j) PROVE Heard'
<1>1. /\ step[j] = "negotiating" /\ bus[j] \in Sessions /\ id[j] \in Ids
      /\ step' = [step EXCEPT ![j] = "answered"]
      /\ disclosed' = [disclosed EXCEPT ![j] = started[bus[j]]]
      /\ listeners' = [listeners EXCEPT ![bus[j]][id[j]] = j]
      /\ UNCHANGED <<current, missed, started, bus>>
  BY DEF Attach, Shape, Linked
<1>2. OnTheBus \subseteq Joins /\ j \notin OnTheBus
  BY <1>1, OnTheBusJoins
<1>3. \A k \in OnTheBus' : k \in OnTheBus \/ (k = j /\ bus[j] = current)
  <2>1. ASSUME NEW b \in Sessions, NEW i \in Ids
        PROVE  listeners'[b][i] = IF b = bus[j] /\ i = id[j] THEN j ELSE listeners[b][i]
    BY <1>1 DEF Shape, TypeOK
  <2> QED
    BY <1>1, <2>1, CurrentTyped DEF OnTheBus, Hearers, Shape
<1>4. ToBeTold'
  BY <1>1 DEF Heard, ToBeTold, Shape, TypeOK
<1>5. HeardOrDisclosed'
  BY <1>1, <1>2, <1>3 DEF Heard, HeardOrDisclosed, ToBeTold, Shape, TypeOK
<1> QED
  BY <1>4, <1>5 DEF Heard

(* A join that enters or gives up is not on the bus. *)
LEMMA HeardOfJoins ==
  ASSUME Shape, Heard, NEW j \in Joins, (\E i \in Ids : Enter(j, i)) \/ GiveUp(j) PROVE Heard'
<1>1. /\ step[j] # "answered"
      /\ \A k \in Joins \ {j} : step'[k] = step[k] /\ bus'[k] = bus[k] /\ missed'[k] = missed[k]
      /\ step'[j] = "negotiating" => missed'[j] = started[current] /\ bus'[j] = current
      /\ UNCHANGED <<current, listeners, disclosed, started>>
  BY DEF Enter, GiveUp, Shape, TypeOK, broadcasts
<1>2. OnTheBus' = OnTheBus /\ j \notin OnTheBus /\ OnTheBus \subseteq Joins
  BY <1>1, OnTheBusJoins DEF OnTheBus, Hearers
<1>3. ToBeTold'
  BY <1>1 DEF Heard, ToBeTold
<1>4. HeardOrDisclosed'
  BY <1>1, <1>2 DEF Heard, HeardOrDisclosed
<1> QED
  BY <1>3, <1>4 DEF Heard

(* Who is taken off, and who stays. *)
LEMMA BusOfListeners ==
  ASSUME Shape, NEW i \in Ids, NEW by \in {"stop", "expire"}, TakeOff(i, by)
  PROVE  /\ OnTheBus' \subseteq OnTheBus
         /\ \A j \in OnTheBus \ OnTheBus' : closing'[j] # None
<1>1. CASE current = None
  BY <1>1 DEF TakeOff, OnTheBus
<1>2. CASE current # None /\ listeners[current][i] = None
  BY <1>2 DEF TakeOff, OnTheBus, Swept, Hearers
<1>3. CASE current # None /\ listeners[current][i] # None
  <2>1. PICK j \in Joins : j = listeners[current][i]
    BY <1>3, CurrentTyped DEF Shape, TypeOK
  <2>2. /\ current \in Sessions /\ current' = current
        /\ listeners' = [listeners EXCEPT ![current][i] = None]
        /\ closing' = [closing EXCEPT ![j] = [bus |-> current, by |-> by]]
    BY <1>3, <2>1, CurrentTyped DEF TakeOff, Shape
  <2>3. \A k \in Ids : listeners'[current][k] = IF k = i THEN None ELSE listeners[current][k]
    BY <2>2 DEF Shape, TypeOK
  <2>4. OnTheBus' = OnTheBus \ {j} \/ OnTheBus' = OnTheBus
    BY <1>3, <2>1, <2>2, <2>3 DEF OnTheBus, Hearers, Shape, TypeOK, Filed
  <2>5. closing'[j] = [bus |-> current, by |-> by]
    BY <2>2 DEF Shape, TypeOK
  <2>6. [bus |-> current, by |-> by] # None
    BY <2>2, ListenerAssumption DEF Closings
  <2> QED
    BY <2>4, <2>5, <2>6
<1> QED
  BY <1>1, <1>2, <1>3

LEMMA HeardStep == Shape /\ Bus /\ Heard /\ [Next]_vars => Heard'
<1> SUFFICES ASSUME Shape, Bus, Heard, [Next]_vars PROVE Heard'
  OBVIOUS
<1>1. CASE UNCHANGED vars
  BY <1>1, HeardOfOthers DEF vars, OnTheBus, Hearers, broadcasts
<1>2. ASSUME NEW s \in Sessions,
             Share(s) \/ Refuse(s) \/ Announce(s) \/ Finish(s) \/ Close(s) \/ CloseLost(s)
      PROVE  Heard'
  <2>1. UNCHANGED <<current, listeners, joining, missed>>
    BY <1>2 DEF Share, Refuse, Announce, Finish, Close, CloseLost, broadcasts
  <2>2. OnTheBus' = OnTheBus
    BY <2>1 DEF OnTheBus, Hearers
  <2>3. \A b \in Sessions : started[b] \subseteq started'[b]
    <3>1. CASE Announce(s)
      BY <3>1 DEF Announce, Shape, TypeOK
    <3>2. CASE ~Announce(s)
      BY <1>2, <3>2 DEF Share, Refuse, Finish, Close, CloseLost, broadcasts
    <3> QED
      BY <3>1, <3>2
  <2> QED
    BY <2>1, <2>2, <2>3, HeardOfOthers
<1>3. ASSUME NEW s \in Sessions, Retire(s) PROVE Heard'
  <2>1. OnTheBus' \subseteq OnTheBus /\ current' \in {current, None}
    BY <1>3 DEF Retire, Retired, OnTheBus, Hearers
  <2> QED
    BY <1>3, <2>1, HeardOfOthers DEF Retire
<1>4. ASSUME NEW j \in Joins, Closed(j) \/ StopFails(j) PROVE Heard'
  <2>1. OnTheBus' \subseteq OnTheBus /\ current' \in {current, None}
    BY <1>4 DEF Closed, StopFails, Swept, OnTheBus, Hearers, broadcasts
  <2>2. UNCHANGED <<joining, missed, started>>
    BY <1>4 DEF Closed, StopFails, broadcasts
  <2> QED
    BY <2>1, <2>2, HeardOfOthers
<1>5. ASSUME NEW i \in Ids, Stop(i) PROVE Heard'
  <2>1. OnTheBus' \subseteq OnTheBus /\ current' \in {current, None}
    BY <1>5, BusOfListeners, TakeOffShape DEF Stop
  <2> QED
    BY <1>5, <2>1, HeardOfOthers DEF Stop
<1>6. ASSUME NEW j \in Joins, Expire(j) PROVE Heard'
  <2>1. id[j] \in Ids
    BY <1>6 DEF Expire, Shape, Linked
  <2>2. OnTheBus' \subseteq OnTheBus /\ current' \in {current, None}
    BY <1>6, <2>1, BusOfListeners, TakeOffShape DEF Expire
  <2> QED
    BY <1>6, <2>2, HeardOfOthers DEF Expire
<1> QED
  BY <1>1, <1>2, <1>3, <1>4, <1>5, <1>6, HeardOfReplace, HeardOfAudio, HeardOfAttach, HeardOfJoins
     DEF Next, Start

(* A listener on the bus got every chunk since the broadcast it found, or was
   told what it could not hear.                                             *)
THEOREM HeardOrDisclosedHolds == Spec => []HeardOrDisclosed
<1>1. Spec => []Heard
  BY BusAlways, HeardInit, HeardStep, PTL DEF Spec
<1> QED
  BY <1>1, PTL DEF Heard

-----------------------------------------------------------------------------
(* What NeverCutOff says of one step. *)
Kept ==
  \A j \in OnTheBus \ OnTheBus' :
    \/ closing'[j] # None
    \/ \E k \in Joins \ {j} : id[k] = id[j] /\ k \in OnTheBus'

LEMMA KeptStep == Shape /\ Bus /\ [Next]_vars => [Kept]_vars
<1> SUFFICES ASSUME Shape, Bus, Next PROVE Kept
  OBVIOUS
<1> USE DEF joining, broadcasts
<1>1. ASSUME NEW s \in Sessions, Replace(s) PROVE Kept
  <2>1. current # None => \A i \in Ids : listeners'[s][i] = listeners[current][i]
    <3>1. current' = s /\ listeners' = TakenOver(s) /\ s # current
      BY <1>1 DEF Replace, MyTurn, Bus, Unborn
    <3> QED
      BY <3>1, TakenOverRows DEF Shape
  <2>2. OnTheBus' = {listeners'[s][i] : i \in Ids} \ {None}
    BY <1>1, Names DEF Replace, OnTheBus, Hearers
  <2>3. OnTheBus \subseteq OnTheBus'
    BY <2>1, <2>2 DEF OnTheBus, Hearers
  <2> QED
    BY <2>3 DEF Kept
<1>2. ASSUME UNCHANGED <<current, listeners>> PROVE Kept
  BY <1>2 DEF Kept, OnTheBus, Hearers
<1>3. ASSUME UNCHANGED listeners,
             current' = current \/ (current # None /\ Hearers(current) = {}) PROVE Kept
  BY <1>3 DEF Kept, OnTheBus, Hearers
<1>4. ASSUME NEW j \in Joins, Attach(j) PROVE Kept
  <2>1. /\ bus[j] \in Sessions /\ id[j] \in Ids /\ j # None /\ current' = current /\ id' = id
        /\ step[j] = "negotiating"
        /\ listeners' = [listeners EXCEPT ![bus[j]][id[j]] = j]
    BY <1>4, Names DEF Attach, Shape, Linked
  <2>2. ASSUME NEW b \in Sessions, NEW i \in Ids
        PROVE  listeners'[b][i] = IF b = bus[j] /\ i = id[j] THEN j ELSE listeners[b][i]
    BY <2>1 DEF Shape, TypeOK
  <2>3. SUFFICES ASSUME NEW k \in OnTheBus \ OnTheBus'
                 PROVE  j # k /\ id[j] = id[k] /\ j \in OnTheBus'
    BY DEF Kept
  <2>4. PICK i \in Ids : k = listeners[current][i] /\ k # None /\ current # None
    BY DEF OnTheBus, Hearers
  <2>5. current \in Sessions
    BY <2>4, CurrentTyped DEF Shape
  <2>6. current = bus[j] /\ i = id[j]
    BY <2>1, <2>2, <2>4, <2>5 DEF OnTheBus, Hearers
  <2>7. id[k] = i /\ j # k
    BY <2>1, <2>4, <2>5 DEF Shape, TypeOK, Filed, Linked
  <2>8. listeners'[current][i] = j
    BY <2>2, <2>5, <2>6
  <2>9. j \in OnTheBus'
    BY <2>1, <2>4, <2>8 DEF OnTheBus, Hearers
  <2> QED
    BY <2>6, <2>7, <2>9
<1>5. ASSUME NEW i \in Ids, Stop(i) PROVE Kept
  BY <1>5, BusOfListeners DEF Stop, Kept
<1>6. ASSUME NEW j \in Joins, Expire(j) PROVE Kept
  <2>1. id[j] \in Ids
    BY <1>6 DEF Expire, Shape, Linked
  <2> QED
    BY <1>6, <2>1, BusOfListeners DEF Expire, Kept
<1>7. ASSUME NEW b \in Sessions, Retire(b) PROVE Kept
  BY <1>7, <1>3, Names DEF Retire, Retired
<1>8. ASSUME NEW j \in Joins, Closed(j) PROVE Kept
  <2>1. closing[j] \in Closings
    BY <1>8 DEF Closed, Shape, TypeOK
  <2>2. closing[j].bus # None
    BY <2>1, Names DEF Closings
  <2> QED
    BY <1>8, <1>3, <2>2 DEF Closed, Swept
<1>9. ASSUME NEW s \in Sessions,
             Share(s) \/ Refuse(s) \/ Announce(s) \/ Air(s) \/ Audio(s) \/ Finish(s)
               \/ Close(s) \/ CloseLost(s)
      PROVE  Kept
  BY <1>9, <1>2 DEF Share, Refuse, Announce, Air, Audio, Finish, Close, CloseLost
<1>10. ASSUME NEW j \in Joins, (\E i \in Ids : Enter(j, i)) \/ GiveUp(j) \/ StopFails(j) PROVE Kept
  BY <1>10, <1>2 DEF Enter, GiveUp, StopFails
<1> QED
  BY <1>1, <1>4, <1>5, <1>6, <1>7, <1>8, <1>9, <1>10 DEF Next, Start

(* Only its own stop, its own expiry or its own token takes a listener off. *)
THEOREM NeverCutOffHolds == Spec => NeverCutOff
<1>1. Shape /\ Bus /\ [Next]_vars =>
        [\A j \in OnTheBus \ OnTheBus' :
           \/ closing'[j] # None
           \/ \E k \in Joins \ {j} : id[k] = id[j] /\ k \in OnTheBus']_vars
  BY KeptStep DEF Kept
<1> QED
  BY <1>1, BusAlways, PTL DEF Spec, NeverCutOff
=============================================================================
