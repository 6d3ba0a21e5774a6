----------------------- MODULE WayloConnection_proofs -----------------------
(***************************************************************************)
(* Theorems about WayloConnection, for all tabs, sign-ins, runs, targets   *)
(* and clocks.  A grant is fresh when it is installed, so what a proof, a  *)
(* lease or a binding says about it cannot change under them; and every    *)
(* way to end a grant takes its bindings along.                            *)
(***************************************************************************)
EXTENDS WayloConnection, FiniteSetTheorems, TLAPS

(* Nobody knows a grant before it is installed: no tab and no connect request
   can end it, and it has no timer.                                         *)
Fresh == \A k \in Connects : step[k] \in {"idle", "signing"} =>
           /\ k \notin grants /\ k \notin ended /\ timer[k] = "off"
           /\ \A b \in Tabs : proof[b] # k
           /\ \A j \in Connects : previous[j] # k

(* A grant that was ended has left the store, for good. *)
Gone == grants \cap ended = {}

(* A proof that works is held by the tab that obtained it. *)
Own == \A b \in Tabs : proof[b] \in grants => tab[proof[b]] = b

Holding == {"authorized", "started", "bound", "between", "call", "request", "waiting",
            "cancelling"}

(* What a run in progress holds: a lease its tab obtained, from the start on
   for its target.                                                          *)
Held == \A r \in Runs : pc[r] \in Holding =>
          /\ lease[r] \in Connects
          /\ step[lease[r]] \notin {"idle", "signing"}
          /\ tab[lease[r]] = owner[r]
          /\ pc[r] # "authorized" => consented[lease[r]] = dialled[r]

(* RunsAreBacked, and only a run past bind_run is bound. *)
Bound == \A r \in Runs : runs[r] # None =>
           /\ pc[r] \notin {"none", "authorized", "started"}
           /\ runs[r] \in grants /\ runs[r] = lease[r]
           /\ consented[lease[r]] = dialled[r]

(* A wait leaves room for one attempt more; outside a request there is none. *)
Tries == \A r \in Runs : /\ pc[r] = "waiting" => attempt[r] < MaxAttempts
                         /\ pc[r] \notin {"request", "waiting"} => attempt[r] = 0

IInv == TypeOK /\ Tries /\ Fresh /\ Gone /\ Own /\ Held /\ Bound

-----------------------------------------------------------------------------
LEMMA MinOfTwo == \A x, y \in Int : Min({x, y}) \in Int
<1> SUFFICES ASSUME NEW x \in Int, NEW y \in Int PROVE Min({x, y}) \in Int
  OBVIOUS
<1>1. \E m \in {x, y} : \A n \in {x, y} : m <= n
  <2>1. CASE x <= y
    BY <2>1
  <2>2. CASE ~(x <= y)
    BY <2>2
  <2> QED
    BY <2>1, <2>2
<1>2. Min({x, y}) \in {x, y}
  BY <1>1 DEF Min
<1> QED
  BY <1>2

LEMMA OneMore ==
  ASSUME NEW S, IsFiniteSet(S), NEW k
  PROVE  Cardinality(S \cup {k}) \in Nat /\ Cardinality(S \cup {k}) <= Cardinality(S) + 1
<1>1. Cardinality(S) \in Nat /\ IsFiniteSet(S \cup {k})
  BY FS_CardinalityType, FS_AddElement
<1>2. Cardinality(S \cup {k}) \in Nat
  BY <1>1, FS_CardinalityType
<1>3. Cardinality(S \cup {k}) = IF k \in S THEN Cardinality(S) ELSE Cardinality(S) + 1
  BY FS_AddElement
<1> QED
  BY <1>1, <1>2, <1>3

LEMMA SweptLives == Swept \subseteq grants
BY DEF Swept

(* Ending grants leaves the store well formed; a run keeps its binding or
   loses it, and keeps it only to a grant that is left.                     *)
LEMMA KeepOK ==
  ASSUME StoreOK, NEW S, S \subseteq grants
  PROVE  /\ S \in SUBSET Connects /\ Cardinality(S) <= Capacity
         /\ TimersFor(S) \in [Connects -> {"off", "armed", "fired"}]
         /\ \A k \in Connects : /\ k \in S => TimersFor(S)[k] \in {"armed", "fired"}
                                /\ TimersFor(S)[k] = "armed" => k \in S
         /\ RunsFor(S) \in [Runs -> Connects \cup {None}]
         /\ \A r \in Runs : RunsFor(S)[r] # None =>
              RunsFor(S)[r] = runs[r] /\ (runs[r] \in grants => runs[r] \in S)
<1>1. Cardinality(S) <= Capacity
  <2>1. IsFiniteSet(grants)
    BY FS_Subset, WayloAssumption DEF StoreOK
  <2>2. Cardinality(S) <= Cardinality(grants) /\ IsFiniteSet(S)
    BY <2>1, FS_Subset
  <2>3. Cardinality(S) \in Nat /\ Cardinality(grants) \in Nat
    BY <2>1, <2>2, FS_CardinalityType
  <2> QED
    BY <2>2, <2>3, WayloAssumption DEF StoreOK
<1>2. S \in SUBSET Connects
  BY DEF StoreOK
<1>3. /\ TimersFor(S) \in [Connects -> {"off", "armed", "fired"}]
      /\ \A k \in Connects : /\ k \in S => TimersFor(S)[k] \in {"armed", "fired"}
                             /\ TimersFor(S)[k] = "armed" => k \in S
  BY DEF StoreOK, TimersFor
<1>4. /\ RunsFor(S) \in [Runs -> Connects \cup {None}]
      /\ \A r \in Runs : RunsFor(S)[r] # None =>
           RunsFor(S)[r] = runs[r] /\ (runs[r] \in grants => runs[r] \in S)
  BY DEF StoreOK, RunsFor
<1> QED
  BY <1>1, <1>2, <1>3, <1>4

(* Ending grants, as an action: bindings that stay are backed. *)
LEMMA KeepStep ==
  ASSUME IInv, NEW S, S \subseteq grants, Keep(S)
  PROVE  /\ StoreOK' /\ grants' \subseteq grants
         /\ \A k \in Connects : timer[k] = "off" => timer'[k] = "off"
         /\ \A r \in Runs : runs'[r] # None => runs'[r] = runs[r] /\ runs'[r] \in grants'
<1> USE DEF IInv
<1>1. grants' = S /\ timer' = TimersFor(S) /\ runs' = RunsFor(S)
  BY DEF Keep
<1>2. StoreOK'
  BY <1>1, KeepOK DEF StoreOK, TypeOK
<1>3. \A r \in Runs : runs'[r] # None => runs'[r] = runs[r] /\ runs'[r] \in grants'
  BY <1>1, KeepOK DEF TypeOK, Bound
<1>4. \A k \in Connects : timer[k] = "off" => timer'[k] = "off"
  BY <1>1 DEF TimersFor
<1> QED
  BY <1>1, <1>2, <1>3, <1>4

LEMMA InitOK == Init => IInv
<1> SUFFICES ASSUME Init PROVE IInv
  OBVIOUS
<1> USE DEF Init
<1>1. StoreOK
  <2>1. Cardinality(grants) = 0
    BY FS_EmptySet
  <2> QED
    BY <2>1, WayloAssumption DEF StoreOK
<1>2. TypeOK /\ Tries
  BY <1>1, WayloAssumption DEF TypeOK, Tries
<1>3. Fresh /\ Gone /\ Own /\ Held /\ Bound
  BY WayloAssumption DEF Fresh, Gone, Own, Held, Bound, Holding
<1> QED
  BY <1>2, <1>3 DEF IInv

(* A task moves on while grants end, those among them that are put on record. *)
LEMMA TaskMoves ==
  ASSUME IInv, NEW S, S \subseteq grants, Keep(S),
         NEW r \in Runs, pc[r] \in Holding \ {"authorized", "started"},
         NEW s \in {"between", "call", "request", "waiting", "cancelling", "ended"},
         NEW n \in 0..MaxAttempts,
         s = "waiting" => n < MaxAttempts, s \notin {"request", "waiting"} => n = 0,
         pc' = [pc EXCEPT ![r] = s], attempt' = [attempt EXCEPT ![r] = n],
         NEW E, E \subseteq {lease[r]}, E \cap S = {}, ended' = ended \cup E,
         UNCHANGED <<connecting, held, saved, proof, clocks>>
  PROVE  IInv'
<1> USE DEF IInv, connecting, clocks, held
<1>0. pc[r] \in Holding /\ lease[r] \in Connects /\ step[lease[r]] \notin {"idle", "signing"}
  BY DEF Held
<1>1. /\ StoreOK' /\ grants' \subseteq grants
      /\ \A k \in Connects : timer[k] = "off" => timer'[k] = "off"
      /\ \A q \in Runs : runs'[q] # None => runs'[q] = runs[q] /\ runs'[q] \in grants'
  BY KeepStep
<1>2. /\ pc' \in [Runs -> {"none", "authorized", "started", "bound", "between", "call",
                           "request", "waiting", "cancelling", "ended"}]
      /\ pc'[r] = s /\ \A q \in Runs : q # r => pc'[q] = pc[q]
      /\ attempt' \in [Runs -> 0..MaxAttempts]
  BY DEF TypeOK
<1>3. TypeOK'
  BY <1>0, <1>1, <1>2 DEF TypeOK
<1>t. Tries'
  BY DEF TypeOK, Tries
<1>4. Fresh' /\ Own'
  BY <1>0, <1>1 DEF Fresh, Own
<1>g. Gone'
  BY <1>1 DEF Gone, Keep
<1>5. Held'
  <2> SUFFICES ASSUME NEW q \in Runs, pc'[q] \in Holding PROVE Held!(q)'
    BY DEF Held
  <2>1. CASE q = r
    BY <1>2, <2>1 DEF Held, Holding
  <2>2. CASE q # r
    BY <1>2, <2>2 DEF Held
  <2> QED
    BY <2>1, <2>2
<1>6. Bound'
  BY <1>1, <1>2 DEF Bound, Holding
<1> QED
  BY <1>3, <1>t, <1>4, <1>g, <1>5, <1>6

(* Grants end, those among them that are put on record, and proofs are
   forgotten or stay.                                                       *)
LEMMA GrantsEnd ==
  ASSUME IInv, NEW S, S \subseteq grants, Keep(S),
         proof' \in [Tabs -> Connects \cup {None}],
         \A b \in Tabs : proof'[b] \in {proof[b], None},
         NEW E, E \subseteq {proof[b] : b \in Tabs} \cap Connects, E \cap S = {},
         ended' = ended \cup E,
         UNCHANGED <<connecting, running, saved, clocks>>
  PROVE  IInv'
<1> USE DEF IInv, connecting, clocks, running, held
<1>1. /\ StoreOK' /\ grants' \subseteq grants
      /\ \A k \in Connects : timer[k] = "off" => timer'[k] = "off"
      /\ \A q \in Runs : runs'[q] # None => runs'[q] = runs[q] /\ runs'[q] \in grants'
  BY KeepStep
<1>2. TypeOK' /\ Tries'
  BY <1>1 DEF TypeOK, Tries
<1>3. None \notin grants
  BY WayloAssumption DEF TypeOK, StoreOK
<1>4. Fresh'
  BY <1>1, WayloAssumption DEF Fresh
<1>g. Gone'
  BY <1>1 DEF Gone, Keep
<1>5. Own'
  BY <1>1, <1>3 DEF Own
<1>6. Held' /\ Bound'
  BY <1>1 DEF Held, Bound
<1> QED
  BY <1>2, <1>4, <1>g, <1>5, <1>6

LEMMA KeepAll == ASSUME StoreOK, UNCHANGED store PROVE Keep(grants)
<1>1. TimersFor(grants) = timer /\ RunsFor(grants) = runs
  BY DEF TimersFor, RunsFor, StoreOK
<1> QED
  BY <1>1 DEF Keep, store

-----------------------------------------------------------------------------
LEMMA TaskStep == ASSUME IInv, NEW r \in Runs, Task(r), ~Release(r) PROVE IInv'
<1> USE SweptLives, WayloAssumption DEF Holding
<1>0. StoreOK /\ attempt \in [Runs -> 0..MaxAttempts] /\ 0 \in 0..MaxAttempts
      /\ pc \in [Runs -> {"none"} \cup Holding \cup {"ended"}]
      /\ ended = ended \cup {} /\ Swept \cap {} = {} /\ grants \cap {} = {}
  BY DEF IInv, TypeOK
<1>1. CASE Dies(r)
  BY <1>0, <1>1, KeepAll, TaskMoves DEF Dies, Goto
<1>2. CASE Call(r)
  <2>1. PICK s \in {"between", "call"} : Goto(r, s)
    BY <1>2 DEF Call
  <2>2. Keep(Swept) /\ ended' = ended \cup {} /\ UNCHANGED <<connecting, held, saved, proof, clocks>>
    BY <1>2 DEF Call
  <2>3. pc[r] \in Holding \ {"authorized", "started"}
    BY <1>2 DEF Call
  <2>4. /\ s \in {"between", "call", "request", "waiting", "cancelling", "ended"}
        /\ {} \subseteq {lease[r]} /\ {} \cap Swept = {} /\ Swept \subseteq grants
    BY <2>1
  <2> QED
    BY <1>0, <2>1, <2>2, <2>3, <2>4, TaskMoves DEF Goto
<1>3. CASE Send(r)
  <2>1. PICK s \in {"between", "call", "request"}, n \in 0..MaxAttempts :
          /\ s = "waiting" => n < MaxAttempts
          /\ s \notin {"request", "waiting"} => n = 0
          /\ pc' = [pc EXCEPT ![r] = s] /\ attempt' = [attempt EXCEPT ![r] = n]
    BY <1>0, <1>3 DEF Send, Fail, Goto, Tries, IInv
  <2>2. Keep(Swept) /\ ended' = ended \cup {} /\ UNCHANGED <<connecting, held, saved, proof, clocks>>
    BY <1>3 DEF Send
  <2>3. pc[r] \in Holding \ {"authorized", "started"}
    BY <1>3 DEF Send
  <2>4. /\ s \in {"between", "call", "request", "waiting", "cancelling", "ended"}
        /\ {} \subseteq {lease[r]} /\ {} \cap Swept = {} /\ Swept \subseteq grants
    BY <2>1
  <2> QED
    BY <2>1, <2>2, <2>3, <2>4, TaskMoves
<1>4. CASE Retry(r)
  <2>1. PICK s \in {"between", "call", "waiting"}, n \in 0..MaxAttempts :
          /\ s = "waiting" => n < MaxAttempts
          /\ s \notin {"request", "waiting"} => n = 0
          /\ pc' = [pc EXCEPT ![r] = s] /\ attempt' = [attempt EXCEPT ![r] = n]
    BY <1>0, <1>4 DEF Retry, Wait, Fail, Goto
  <2>2. Keep(grants) /\ ended' = ended \cup {} /\ UNCHANGED <<connecting, held, saved, proof, clocks>>
    BY <1>0, <1>4, KeepAll DEF Retry
  <2>3. pc[r] \in Holding \ {"authorized", "started"}
    BY <1>4 DEF Retry
  <2>4. /\ s \in {"between", "call", "request", "waiting", "cancelling", "ended"}
        /\ {} \subseteq {lease[r]} /\ {} \cap grants = {} /\ grants \subseteq grants
    BY <2>1
  <2> QED
    BY <2>1, <2>2, <2>3, <2>4, TaskMoves
<1>5. CASE Receive(r)
  <2>1. PICK s \in {"between", "call", "waiting"}, n \in 0..MaxAttempts :
          /\ s = "waiting" => n < MaxAttempts
          /\ s \notin {"request", "waiting"} => n = 0
          /\ pc' = [pc EXCEPT ![r] = s] /\ attempt' = [attempt EXCEPT ![r] = n]
    BY <1>0, <1>5 DEF Receive, Wait, Fail, Goto
  <2>2. Keep(Swept) /\ ended' = ended \cup {} /\ UNCHANGED <<connecting, held, saved, proof, clocks>>
    BY <1>5 DEF Receive
  <2>3. pc[r] \in Holding \ {"authorized", "started"}
    BY <1>5 DEF Receive
  <2>4. /\ s \in {"between", "call", "request", "waiting", "cancelling", "ended"}
        /\ {} \subseteq {lease[r]} /\ {} \cap Swept = {} /\ Swept \subseteq grants
    BY <2>1
  <2> QED
    BY <2>1, <2>2, <2>3, <2>4, TaskMoves
<1>6. CASE Rejected(r)
  <2>1. Swept \ {lease[r]} \subseteq grants /\ {lease[r]} \cap (Swept \ {lease[r]}) = {}
    OBVIOUS
  <2> QED
    BY <1>0, <1>6, <2>1, TaskMoves DEF Rejected, Fail, Goto
<1>7. CASE HangUp(r)
  BY <1>0, <1>7, TaskMoves DEF HangUp, Goto
<1>8. CASE Guard(r)
  BY <1>0, <1>8, TaskMoves DEF Guard, Goto
<1>9. CASE Cancelled(r)
  BY <1>0, <1>9, KeepAll, TaskMoves DEF Cancelled, Goto
<1> QED
  BY <1>1, <1>2, <1>3, <1>4, <1>5, <1>6, <1>7, <1>8, <1>9 DEF Task

LEMMA ReleaseStep == ASSUME IInv, NEW r \in Runs, Release(r) PROVE IInv'
<1> USE DEF IInv, Release, End, Goto, connecting, held, clocks
<1>1. /\ \A q \in Runs : q # r => /\ runs'[q] = runs[q] /\ pc'[q] = pc[q] /\ lease'[q] = lease[q]
                                  /\ owner'[q] = owner[q] /\ dialled'[q] = dialled[q]
      /\ runs'[r] = None /\ pc'[r] = "ended"
  BY DEF TypeOK, StoreOK
<1>2. TypeOK' /\ Tries'
  BY WayloAssumption DEF TypeOK, Tries, StoreOK
<1>3. Fresh' /\ Gone' /\ Own'
  BY DEF Fresh, Gone, Own
<1>4. Held'
  BY <1>1 DEF Held, Holding
<1>5. Bound'
  BY <1>1 DEF Bound
<1> QED
  BY <1>2, <1>3, <1>4, <1>5

LEMMA TabStep ==
  ASSUME IInv, NEW b \in Tabs, Disconnect(b) \/ Status(b) \/ Forget(b) PROVE IInv'
<1>0. /\ StoreOK /\ proof \in [Tabs -> Connects \cup {None}]
      /\ ended = ended \cup {} /\ Swept \cap {} = {} /\ grants \cap {} = {}
      /\ {} \subseteq {proof[c] : c \in Tabs} \cap Connects
  BY DEF IInv, TypeOK
<1>1. CASE Disconnect(b)
  <2>1. /\ grants \ {proof[b]} \subseteq grants
        /\ {proof[b]} \cap (grants \ {proof[b]}) = {}
        /\ {proof[b]} \subseteq {proof[c] : c \in Tabs} \cap Connects
    BY <1>0, <1>1 DEF Disconnect
  <2> QED
    BY <1>0, <1>1, <2>1, GrantsEnd DEF Disconnect
<1>2. CASE Status(b)
  BY <1>0, <1>2, SweptLives, GrantsEnd DEF Status
<1>3. CASE Forget(b)
  BY <1>0, <1>3, KeepAll, GrantsEnd DEF Forget
<1> QED
  BY <1>1, <1>2, <1>3

-----------------------------------------------------------------------------
LEMMA InstallStep == ASSUME IInv, NEW k \in Connects, Install(k) PROVE IInv'
<1> USE DEF IInv, clocks, running, held
<1>0. k \notin grants /\ \A r \in Runs : pc[r] \in Holding => lease[r] # k
  BY DEF Install, Fresh, Held
<1>1. PICK left \in Lifetimes, t \in Targets : Install(k)!2!(left, t)
  BY DEF Install
<1> DEFINE seconds == Min({left, MaxLocal})
<1>2. seconds \in Int
  BY MinOfTwo, WayloAssumption
<1>k. /\ Swept \in SUBSET Connects /\ Cardinality(Swept) <= Capacity
      /\ TimersFor(Swept) \in [Connects -> {"off", "armed", "fired"}]
      /\ \A j \in Connects : /\ j \in Swept => TimersFor(Swept)[j] \in {"armed", "fired"}
                             /\ TimersFor(Swept)[j] = "armed" => j \in Swept
      /\ RunsFor(Swept) \in [Runs -> Connects \cup {None}]
      /\ \A r \in Runs : RunsFor(Swept)[r] # None =>
           RunsFor(Swept)[r] = runs[r] /\ (runs[r] \in grants => runs[r] \in Swept)
  BY SweptLives, KeepOK DEF TypeOK
<1>s. step[k] = "signing" /\ UNCHANGED <<tab, previous, running, saved, proof, clocks, ended>>
  BY DEF Install
<1>3. CASE ~(seconds > 0 /\ HasRoom)
  <2>1. /\ Keep(Swept) /\ step' = [step EXCEPT ![k] = "done"]
        /\ UNCHANGED <<consented, deadline, expires>>
    BY <1>1, <1>3
  <2>2. /\ StoreOK' /\ grants' \subseteq grants
        /\ \A j \in Connects : timer[j] = "off" => timer'[j] = "off"
        /\ \A q \in Runs : runs'[q] # None => runs'[q] = runs[q] /\ runs'[q] \in grants'
    BY <2>1, SweptLives, KeepStep
  <2>3. TypeOK' /\ Tries'
    BY <1>s, <2>1, <2>2 DEF TypeOK, Tries
  <2>4. Fresh' /\ Gone' /\ Own'
    BY <1>s, <2>1, <2>2 DEF Fresh, Gone, Own, TypeOK
  <2>5. Held' /\ Bound'
    BY <1>s, <2>1, <2>2 DEF Held, Bound, TypeOK
  <2> QED
    BY <2>3, <2>4, <2>5
<1>4. CASE seconds > 0 /\ HasRoom
  <2>1. /\ grants' = Swept \cup {k}
        /\ timer' = [TimersFor(Swept) EXCEPT ![k] = "armed"]
        /\ runs' = RunsFor(Swept)
        /\ consented' = [consented EXCEPT ![k] = t]
        /\ deadline' = [deadline EXCEPT ![k] = mono + seconds]
        /\ expires' = [expires EXCEPT ![k] = wall + seconds]
        /\ step' = [step EXCEPT ![k] = "installed"]
    BY <1>1, <1>4
  <2>2. Cardinality(grants') <= Capacity
    <3>1. IsFiniteSet(Swept)
      BY <1>k, FS_Subset, WayloAssumption
    <3>2. Cardinality(Swept) \in Nat
      BY <3>1, FS_CardinalityType
    <3>3. Cardinality(Swept \cup {k}) \in Nat /\ Cardinality(Swept \cup {k}) <= Cardinality(Swept) + 1
      BY <3>1, OneMore
    <3> QED
      BY <1>4, <2>1, <3>2, <3>3, WayloAssumption DEF HasRoom
  <2>3. StoreOK'
    BY <1>k, <2>1, <2>2 DEF StoreOK
  <2>4. mono + seconds \in Nat /\ wall + seconds \in Nat
    BY <1>2, <1>4 DEF TypeOK
  <2>5. TypeOK' /\ Tries'
    BY <1>s, <2>1, <2>3, <2>4 DEF TypeOK, Tries
  <2>t. \A j \in Connects : j # k /\ timer[j] = "off" => timer'[j] = "off"
    BY <1>k, <2>1 DEF TimersFor, TypeOK, StoreOK
  <2>6. Fresh' /\ Gone'
    BY <1>0, <1>s, <2>1, <2>t, SweptLives DEF Fresh, Gone, TypeOK
  <2>7. Own'
    BY <1>s, <2>1, SweptLives DEF Own, Fresh
  <2>8. Held'
    BY <1>0, <1>s, <2>1 DEF Held, TypeOK
  <2>9. Bound'
    BY <1>0, <1>k, <1>s, <2>1, SweptLives DEF Bound, TypeOK
  <2> QED
    BY <2>5, <2>6, <2>7, <2>8, <2>9
<1> QED
  BY <1>3, <1>4

LEMMA RouteStep == ASSUME IInv, NEW k \in Connects, Route(k) PROVE IInv'
<1> USE DEF IInv, clocks, running, held
<1>1. ASSUME NEW b \in Tabs, SignIn(k, b) PROVE IInv'
  <2> USE <1>1 DEF SignIn, store
  <2>0. k \notin grants /\ \A r \in Runs : pc[r] \in Holding => lease[r] # k
    BY DEF Fresh, Held
  <2>1. TypeOK' /\ Tries'
    BY DEF TypeOK, Tries, StoreOK
  <2>2. Fresh' /\ Gone' /\ Own'
    BY <2>0 DEF Fresh, Gone, Own, TypeOK
  <2>3. Held' /\ Bound'
    BY <2>0 DEF Held, Bound, TypeOK
  <2> QED
    BY <2>1, <2>2, <2>3
<1>2. CASE SignInFails(k)
  <2> USE <1>2 DEF SignInFails, store
  <2>1. TypeOK' /\ Tries'
    BY DEF TypeOK, Tries, StoreOK
  <2>2. Fresh' /\ Gone' /\ Own'
    BY DEF Fresh, Gone, Own, TypeOK
  <2>3. Held' /\ Bound'
    BY DEF Held, Bound, TypeOK
  <2> QED
    BY <2>1, <2>2, <2>3
<1>3. CASE Install(k)
  BY <1>3, InstallStep
<1>4. CASE DropPrevious(k)
  <2> USE <1>4 DEF DropPrevious
  <2>0. grants \ {previous[k]} \subseteq grants
    OBVIOUS
  <2>1. /\ StoreOK' /\ grants' \subseteq grants
        /\ \A j \in Connects : timer[j] = "off" => timer'[j] = "off"
        /\ \A q \in Runs : runs'[q] # None => runs'[q] = runs[q] /\ runs'[q] \in grants'
    BY <2>0, KeepStep
  <2>2. TypeOK' /\ Tries'
    BY <2>1 DEF TypeOK, Tries
  <2>3. Fresh'
    <3>1. \A j \in Connects : step'[j] \in {"idle", "signing"} =>
            step[j] \in {"idle", "signing"} /\ previous[k] # j /\ j # None
      BY WayloAssumption DEF Fresh, TypeOK
    <3>2. \A j \in Connects : previous'[j] \in {previous[j], None}
      BY DEF TypeOK
    <3> QED
      BY <2>1, <3>1, <3>2 DEF Fresh
  <2>g. Gone' /\ Own'
    BY <2>1, WayloAssumption DEF Gone, Own, Keep, TypeOK, StoreOK
  <2>4. Held' /\ Bound'
    BY <2>1 DEF Held, Bound, TypeOK
  <2> QED
    BY <2>2, <2>3, <2>g, <2>4
<1>5. CASE Connected(k)
  <2> USE <1>5 DEF Connected, store
  <2>1. TypeOK' /\ Tries'
    BY DEF TypeOK, Tries, StoreOK
  <2>2. Fresh' /\ Gone' /\ Own'
    BY DEF Fresh, Gone, Own, TypeOK
  <2>3. Held' /\ Bound'
    BY DEF Held, Bound, TypeOK
  <2> QED
    BY <2>1, <2>2, <2>3
<1> QED
  BY <1>1, <1>2, <1>3, <1>4, <1>5 DEF Route

-----------------------------------------------------------------------------
LEMMA QueueStep == ASSUME IInv, NEW r \in Runs, Queue(r) PROVE IInv'
<1> USE DEF IInv, clocks, connecting, held
<1>n. 0 \in 0..MaxAttempts
  BY WayloAssumption
<1>k. \A S \in SUBSET grants : Keep(S) =>
        /\ StoreOK' /\ grants' \subseteq grants
        /\ \A j \in Connects : timer[j] = "off" => timer'[j] = "off"
        /\ \A q \in Runs : runs'[q] # None => runs'[q] = runs[q] /\ runs'[q] \in grants'
  BY KeepStep
<1>1. ASSUME NEW b \in Tabs, Authorize(r, b) PROVE IInv'
  <2> USE <1>1 DEF Authorize, Goto
  <2>1. /\ StoreOK' /\ grants' \subseteq grants
        /\ \A j \in Connects : timer[j] = "off" => timer'[j] = "off"
        /\ \A q \in Runs : runs'[q] # None => runs'[q] = runs[q] /\ runs'[q] \in grants'
    BY <1>k, SweptLives
  <2>2. CASE ~Authorized(proof[b], saved)
    <3>1. TypeOK' /\ Tries'
      BY <1>n, <2>1, <2>2 DEF TypeOK, Tries
    <3>2. Fresh' /\ Gone' /\ Own' /\ Held' /\ Bound'
      BY <2>1, <2>2 DEF Fresh, Gone, Own, Held, Bound
    <3> QED
      BY <3>1, <3>2
  <2>3. CASE Authorized(proof[b], saved)
    <3>0. /\ proof[b] \in grants /\ proof[b] \in Connects
          /\ tab[proof[b]] = b /\ step[proof[b]] \notin {"idle", "signing"}
      BY <2>3, SweptLives DEF Authorized, Own, Fresh, TypeOK, StoreOK
    <3>1. TypeOK' /\ Tries'
      BY <1>n, <2>1, <2>3 DEF TypeOK, Tries
    <3>2. Fresh' /\ Gone' /\ Own'
      BY <2>1, <2>3 DEF Fresh, Gone, Own
    <3>3. Held'
      BY <2>3, <3>0 DEF Held, Holding, TypeOK
    <3>4. Bound'
      BY <2>1, <2>3 DEF Bound, TypeOK
    <3> QED
      BY <3>1, <3>2, <3>3, <3>4
  <2> QED
    BY <2>2, <2>3
<1>2. CASE Start(r)
  <2> USE <1>2 DEF Start, Goto
  <2>1. /\ StoreOK' /\ grants' \subseteq grants
        /\ \A j \in Connects : timer[j] = "off" => timer'[j] = "off"
        /\ \A q \in Runs : runs'[q] # None => runs'[q] = runs[q] /\ runs'[q] \in grants'
    BY <1>k, SweptLives
  <2>2. CASE ~(Authorized(lease[r], saved) /\ Remaining(lease[r]) >= Required)
    <3> USE <2>2 DEF End
    <3>1. TypeOK' /\ Tries'
      BY <1>n, <2>1 DEF TypeOK, Tries
    <3>2. Fresh' /\ Gone' /\ Own'
      BY <2>1 DEF Fresh, Gone, Own
    <3>3. Held'
      BY DEF Held, Holding, TypeOK
    <3>4. Bound'
      BY <2>1 DEF Bound, TypeOK
    <3> QED
      BY <3>1, <3>2, <3>3, <3>4
  <2>3. CASE Authorized(lease[r], saved) /\ Remaining(lease[r]) >= Required
    <3>1. TypeOK' /\ Tries'
      BY <1>n, <2>1, <2>3 DEF TypeOK, Tries
    <3>2. Fresh' /\ Gone' /\ Own'
      BY <2>1, <2>3 DEF Fresh, Gone, Own
    <3>3. Held'
      BY <2>3 DEF Held, Holding, TypeOK, Authorized
    <3>4. Bound'
      BY <2>1, <2>3 DEF Bound, TypeOK
    <3> QED
      BY <3>1, <3>2, <3>3, <3>4
  <2> QED
    BY <2>2, <2>3
<1>3. CASE Bind(r)
  <2> USE <1>3 DEF Bind, Goto
  <2>k. /\ Swept \in SUBSET Connects /\ Cardinality(Swept) <= Capacity
        /\ TimersFor(Swept) \in [Connects -> {"off", "armed", "fired"}]
        /\ \A j \in Connects : /\ j \in Swept => TimersFor(Swept)[j] \in {"armed", "fired"}
                               /\ TimersFor(Swept)[j] = "armed" => j \in Swept
        /\ RunsFor(Swept) \in [Runs -> Connects \cup {None}]
        /\ \A q \in Runs : RunsFor(Swept)[q] # None =>
             RunsFor(Swept)[q] = runs[q] /\ (runs[q] \in grants => runs[q] \in Swept)
    BY SweptLives, KeepOK DEF TypeOK
  <2>t. \A j \in Connects : timer[j] = "off" => timer'[j] = "off"
    BY DEF TimersFor
  <2> DEFINE ok == /\ lease[r] \in Swept
                   /\ Cardinality({s \in Runs : RunsFor(Swept)[s] # None}) < RunCapacity
  <2>1. CASE ~ok
    <3>a. runs' = RunsFor(Swept) /\ End(r)
      BY <2>1
    <3> HIDE DEF ok
    <3> USE DEF End
    <3>1. StoreOK'
      BY <2>k, <3>a DEF StoreOK
    <3>2. TypeOK' /\ Tries'
      BY <1>n, <3>1, <3>a DEF TypeOK, Tries
    <3>3. Fresh' /\ Gone' /\ Own'
      BY <2>t, SweptLives DEF Fresh, Gone, Own
    <3>4. Held'
      BY <3>a DEF Held, Holding, TypeOK
    <3>5. Bound'
      BY <2>k, <3>a, SweptLives DEF Bound, TypeOK
    <3> QED
      BY <3>2, <3>3, <3>4, <3>5
  <2>2. CASE ok
    <3>a. /\ runs' = [RunsFor(Swept) EXCEPT ![r] = lease[r]] /\ lease[r] \in Swept
          /\ Goto(r, "bound") /\ UNCHANGED <<owner, lease, dialled>>
      BY <2>2
    <3> HIDE DEF ok
    <3>1. StoreOK'
      BY <2>k, <3>a DEF StoreOK
    <3>2. TypeOK' /\ Tries'
      BY <1>n, <3>1, <3>a DEF TypeOK, Tries
    <3>3. Fresh' /\ Gone' /\ Own'
      BY <2>t, SweptLives DEF Fresh, Gone, Own
    <3>4. Held'
      BY <3>a DEF Held, Holding, TypeOK
    <3>5. Bound'
      BY <2>k, <3>a, SweptLives DEF Bound, Held, Holding, TypeOK
    <3> QED
      BY <3>2, <3>3, <3>4, <3>5
  <2> QED
    BY <2>1, <2>2
<1> QED
  BY <1>1, <1>2, <1>3 DEF Queue

LEMMA TimeStep ==
  ASSUME IInv,
         \/ Edit \/ Tick \/ Jump \/ Restart \/ UNCHANGED vars
         \/ \E k \in Connects : TimerFires(k) \/ Expire(k)
  PROVE  IInv'
<1> USE DEF IInv
<1>1. CASE Edit \/ Tick \/ Jump \/ UNCHANGED vars
  <2> USE <1>1 DEF Edit, Tick, Jump, vars, store, connecting, running, held, clocks
  <2>1. TypeOK' /\ Tries'
    BY WayloAssumption DEF TypeOK, Tries, StoreOK
  <2>2. Fresh' /\ Gone' /\ Own' /\ Held' /\ Bound'
    BY DEF Fresh, Gone, Own, Held, Bound
  <2> QED
    BY <2>1, <2>2
<1>2. ASSUME NEW k \in Connects, TimerFires(k) PROVE IInv'
  <2> USE <1>2 DEF TimerFires, connecting, running, held, clocks
  <2>1. TypeOK' /\ Tries'
    BY DEF TypeOK, Tries, StoreOK
  <2>2. Fresh' /\ Gone' /\ Own' /\ Held' /\ Bound'
    BY DEF Fresh, Gone, Own, Held, Bound
  <2> QED
    BY <2>1, <2>2
<1>3. ASSUME NEW k \in Connects, Expire(k) PROVE IInv'
  <2> USE <1>3 DEF Expire, connecting, running, held, clocks
  <2>0. Cardinality(grants \ {k}) <= Capacity
    <3>1. grants \ {k} \subseteq grants
      OBVIOUS
    <3> QED
      BY <3>1, KeepOK DEF TypeOK
  <2>1. TypeOK' /\ Tries'
    BY <2>0 DEF TypeOK, Tries, StoreOK
  <2>2. Fresh' /\ Gone' /\ Own' /\ Held'
    BY DEF Fresh, Gone, Own, Held
  <2>3. Bound'
    BY DEF Bound, TypeOK, StoreOK
  <2> QED
    BY <2>1, <2>2, <2>3
<1>4. CASE Restart
  <2> USE <1>4 DEF Restart, clocks
  <2>0. Cardinality({}) = 0
    BY FS_EmptySet
  <2>1. TypeOK' /\ Tries'
    BY <2>0, WayloAssumption DEF TypeOK, Tries, StoreOK
  <2>2. Fresh' /\ Gone' /\ Own'
    BY WayloAssumption DEF Fresh, Gone, Own, TypeOK
  <2>3. Held' /\ Bound'
    BY DEF Held, Holding, Bound, TypeOK
  <2> QED
    BY <2>1, <2>2, <2>3
<1> QED
  BY <1>1, <1>2, <1>3, <1>4

LEMMA Inductive == IInv /\ [Next]_vars => IInv'
<1> SUFFICES ASSUME IInv, [Next]_vars PROVE IInv'
  OBVIOUS
<1> QED
  BY RouteStep, TabStep, QueueStep, TaskStep, ReleaseStep, TimeStep DEF Next

LEMMA Invariance == Spec => []IInv
BY InitOK, Inductive, PTL DEF Spec

(* The store never exceeds its capacity and never has a timer armed for a
   grant it does not hold.                                                  *)
THEOREM TypeCorrect == Spec => []TypeOK
<1>1. IInv => TypeOK
  BY DEF IInv
<1> QED
  BY <1>1, Invariance, PTL

(* A binding never outlives its grant, however it ends. *)
THEOREM RunsAreBackedHolds == Spec => []RunsAreBacked
<1>1. IInv => RunsAreBacked
  BY DEF IInv, Bound, RunsAreBacked
<1> QED
  BY <1>1, Invariance, PTL

(* A request goes out with the consent of the tab that queued the run. *)
THEOREM RequestsAreConsentedHolds == Spec => []RequestsAreConsented
<1>1. IInv => RequestsAreConsented
  BY DEF IInv, Held, Holding, RequestsAreConsented
<1> QED
  BY <1>1, Invariance, PTL

(* However the call, its tab, Waylo, the timer and the clocks interleave, an
   attempt starts only while its grant has not ended.                       *)
THEOREM NoAttemptAfterEndHolds == Spec => NoAttemptAfterEnd
<1> DEFINE Current == \A r \in Runs : attempt'[r] > attempt[r] =>
              /\ lease[r] \in grants \ ended
              /\ mono < deadline[lease[r]] /\ wall < expires[lease[r]]
<1>1. IInv /\ [Next]_vars => [Current]_vars
  <2> SUFFICES ASSUME IInv, Next, NEW r \in Runs, attempt'[r] > attempt[r]
               PROVE  /\ lease[r] \in grants \ ended
                      /\ mono < deadline[lease[r]] /\ wall < expires[lease[r]]
    OBVIOUS
  <2>1. attempt \in [Runs -> Nat]
    BY WayloAssumption DEF IInv, TypeOK
  <2>2. Send(r)
    <3>1. \A q \in Runs : \A s : ~Goto(q, s)
      BY <2>1 DEF Goto
    <3>2. attempt' # attempt
      BY <2>1
    <3>3. \A q \in Runs : ~Wait(q) /\ ~Fail(q) /\ ~End(q)
      BY <3>1, <3>2 DEF Wait, Fail, End
    <3>r. ~Restart
      BY <2>1 DEF Restart
    <3>4. PICK q \in Runs : Queue(q) \/ Task(q)
      BY <3>2, <3>r DEF Next, Route, SignIn, SignInFails, Install, DropPrevious, Connected,
         Disconnect, Status, Forget, Edit, Tick, Jump, TimerFires, Expire, running
    <3>5. Send(q)
      BY <3>1, <3>2, <3>3, <3>4 DEF Queue, Task, Authorize, Start, Bind, Dies, Call,
         Retry, Receive, Rejected, HangUp, Guard, Cancelled, Release
    <3> QED
      BY <2>1, <3>5, <3>3 DEF Send
  <2>3. lease[r] \in Swept
    BY <2>1, <2>2 DEF Send, Fail, Goto
  <2>4. lease[r] \in Connects /\ mono \in Nat /\ wall \in Nat
        /\ deadline \in [Connects -> Nat] /\ expires \in [Connects -> Nat]
    BY <2>3 DEF IInv, TypeOK, StoreOK, Swept
  <2> QED
    BY <2>3, <2>4 DEF Swept, Expired, IInv, Gone
<1>2. Spec => [][Current]_vars
  BY <1>1, Invariance, PTL DEF Spec
<1> QED
  BY <1>2 DEF NoAttemptAfterEnd
=============================================================================
