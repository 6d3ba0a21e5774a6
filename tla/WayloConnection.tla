-------------------------- MODULE WayloConnection --------------------------
(***************************************************************************)
(* Temporary Waylo sign-ins: services/waylo_connection.py, a store of      *)
(* grants in the memory of one API process, with everyone who uses it: the *)
(* browser tab that signs in and holds the proof, the connect route, the   *)
(* route that queues a run, the background task that calls the agent and   *)
(* the guard that cancels the call when its grant has ended.               *)
(*                                                                         *)
(* A proof is fresh and random, so a grant is named after the connect      *)
(* request that created it.  A grant ends on the first of two clocks: the  *)
(* monotonic one, which a timer follows, and the wall, which may jump.     *)
(* A request is a few attempts with a wait between them, and the grant may *)
(* end during any of these.                                                *)
(***************************************************************************)
EXTENDS Integers, FiniteSets, FiniteSetsExt

CONSTANTS Tabs, Connects, Runs,
          Targets,               \* endpoint, workspace and agent
          Capacity, RunCapacity, \* of the store
          MaxLocal,              \* MAX_LOCAL_SECONDS
          Lifetimes,             \* what is left of a token when it is issued
          Required,              \* what a run must have left when it is queued
          MaxAttempts,           \* of a request
          MaxTime, MaxJumps,     \* bounds on the clocks and on jumps of the wall
          None

ASSUME WayloAssumption ==
  /\ IsFiniteSet(Connects) /\ IsFiniteSet(Runs)
  /\ Capacity \in Nat \ {0} /\ RunCapacity \in Nat \ {0}
  /\ MaxAttempts \in Nat \ {0}
  /\ MaxLocal \in Nat /\ Lifetimes \subseteq Int /\ Required \in Nat
  /\ MaxTime \in Nat /\ MaxJumps \in Nat
  /\ None \notin Connects \cup Tabs \cup Targets

VARIABLES
  grants,    \* the grants in the store
  tab,       \* who sent a connect request
  previous,  \* the proof it carried
  step,      \* what the connect route does next for it
  consented, \* the target its grant is for
  deadline, expires, \* the end of its grant on either clock
  timer,     \* the timer of its grant
  runs,      \* the lease a run is bound to
  pc,        \* what the queueing route, then the task, does next for a run
  owner,     \* who queued a run
  lease,     \* the lease they hold for it
  dialled,   \* the target the run was queued for
  attempt,   \* the attempts made for its current request
  saved,     \* the target saved in the agent
  proof,     \* what a tab holds
  mono, wall, jumps,
  ended      \* history: the grants that were disconnected, replaced by a
             \* reconnect, rejected by Waylo or expired by their timer

clocks == <<mono, wall, jumps>>
store == <<grants, timer, runs>>
connecting == <<tab, previous, step, consented, deadline, expires>>
held == <<owner, lease, dialled>>
running == <<pc, attempt, held>>
vars == <<store, connecting, running, saved, proof, clocks, ended>>

Init ==
  /\ grants = {}
  /\ tab = [k \in Connects |-> None]
  /\ previous = [k \in Connects |-> None]
  /\ step = [k \in Connects |-> "idle"]
  /\ consented = [k \in Connects |-> None]
  /\ deadline = [k \in Connects |-> 0]
  /\ expires = [k \in Connects |-> 0]
  /\ timer = [k \in Connects |-> "off"]
  /\ runs = [r \in Runs |-> None]
  /\ pc = [r \in Runs |-> "none"]
  /\ owner = [r \in Runs |-> None]
  /\ lease = [r \in Runs |-> None]
  /\ dialled = [r \in Runs |-> None]
  /\ saved \in Targets
  /\ proof = [b \in Tabs |-> None]
  /\ attempt = [r \in Runs |-> 0]
  /\ mono = 0 /\ wall = 0 /\ jumps = 0
  /\ ended = {}

(* To a place where no request is under way. *)
Goto(r, s) == /\ pc' = [pc EXCEPT ![r] = s]
              /\ attempt' = [attempt EXCEPT ![r] = 0]

(* Nobody holds the lease any more. *)
End(r) == /\ Goto(r, "ended")
          /\ owner' = [owner EXCEPT ![r] = None]
          /\ lease' = [lease EXCEPT ![r] = None]
          /\ dialled' = [dialled EXCEPT ![r] = None]

-----------------------------------------------------------------------------
(* The store; every operation is one section under its lock.               *)

(* Mutant: only the monotonic clock. *)
ExpiredByTimer(k) == mono >= deadline[k]

(* _remaining_unlocked is not positive. *)
Expired(k) == mono >= deadline[k] \/ wall >= expires[k]

Remaining(k) == Min({deadline[k] - mono, expires[k] - wall})

(* _sweep_unlocked leaves these. *)
Swept == {k \in grants : ~Expired(k)}

(* _revoke_unlocked of all grants but those in S: their timers are cancelled
   and their runs lose the binding.                                         *)
TimersFor(S) == [k \in Connects |-> IF k \in grants \ S /\ timer[k] = "armed"
                                    THEN "off" ELSE timer[k]]

(* Mutant: a binding outlives its grant. *)
RunsKept(S) == runs

RunsFor(S) == [r \in Runs |-> IF runs[r] \in grants \ S THEN None ELSE runs[r]]

Keep(S) == grants' = S /\ timer' = TimersFor(S) /\ runs' = RunsFor(S)

(* Mutant: any live grant will do. *)
AuthorizedAnyTarget(k, t) == k \in Swept

(* authorize, authorize_lease_target, run_lease *)
Authorized(k, t) == k \in Swept /\ consented[k] = t

-----------------------------------------------------------------------------
(* The tab and the connect route.                                          *)

(* POST /connect with the proof the tab holds now; the route awaits Waylo. *)
SignIn(k, b) ==
  /\ step[k] = "idle"
  /\ step' = [step EXCEPT ![k] = "signing"]
  /\ tab' = [tab EXCEPT ![k] = b]
  /\ previous' = [previous EXCEPT ![k] = proof[b]]
  /\ UNCHANGED <<store, consented, deadline, expires, running, saved, proof, clocks, ended>>

SignInFails(k) ==
  /\ step[k] = "signing"
  /\ step' = [step EXCEPT ![k] = "done"]
  /\ UNCHANGED <<store, tab, previous, consented, deadline, expires, running, saved, proof, clocks, ended>>

HasRoom == Cardinality(Swept) < Capacity

(* connect: an expired token or a full store is an error. *)
Install(k) ==
  /\ step[k] = "signing"
  /\ \E left \in Lifetimes, t \in Targets :
       LET seconds == Min({left, MaxLocal}) IN
         IF seconds > 0 /\ HasRoom
         THEN /\ grants' = Swept \cup {k}
              /\ timer' = [TimersFor(Swept) EXCEPT ![k] = "armed"]
              /\ runs' = RunsFor(Swept)
              /\ consented' = [consented EXCEPT ![k] = t]
              /\ deadline' = [deadline EXCEPT ![k] = mono + seconds]
              /\ expires' = [expires EXCEPT ![k] = wall + seconds]
              /\ step' = [step EXCEPT ![k] = "installed"]
         ELSE /\ Keep(Swept)
              /\ step' = [step EXCEPT ![k] = "done"]
              /\ UNCHANGED <<consented, deadline, expires>>
  /\ UNCHANGED <<tab, previous, running, saved, proof, clocks, ended>>

(* Then the proof the request carried is disconnected. *)
DropPrevious(k) ==
  /\ step[k] = "installed"
  /\ Keep(grants \ {previous[k]})
  /\ step' = [step EXCEPT ![k] = "answering"]
  /\ previous' = [previous EXCEPT ![k] = None]
  /\ ended' = ended \cup ({previous[k]} \ {None})
  /\ UNCHANGED <<tab, consented, deadline, expires, running, saved, proof, clocks>>

(* The tab replaces the proof it holds, if it is still there. *)
Connected(k) ==
  /\ step[k] = "answering"
  /\ step' = [step EXCEPT ![k] = "done"]
  /\ proof' \in {proof, [proof EXCEPT ![tab[k]] = k]}
  /\ UNCHANGED <<store, tab, previous, consented, deadline, expires, running, saved, clocks, ended>>

Disconnect(b) ==
  /\ proof[b] # None
  /\ Keep(grants \ {proof[b]})
  /\ proof' = [proof EXCEPT ![b] = None]
  /\ ended' = ended \cup {proof[b]}
  /\ UNCHANGED <<connecting, running, saved, clocks>>

(* GET /status; the tab forgets a proof that is not connected. *)
Status(b) ==
  /\ proof[b] # None
  /\ Keep(Swept)
  /\ proof' = IF proof[b] \in Swept THEN proof ELSE [proof EXCEPT ![b] = None]
  /\ UNCHANGED <<connecting, running, saved, clocks, ended>>

(* The tab is reloaded, or finds its proof expired. *)
Forget(b) ==
  /\ proof[b] # None
  /\ proof' = [proof EXCEPT ![b] = None]
  /\ UNCHANGED <<store, connecting, running, saved, clocks, ended>>

-----------------------------------------------------------------------------
(* Queueing a run.                                                         *)

(* create_execution_run authorizes the proof of the tab for the agent as it
   is saved.                                                                *)
Authorize(r, b) ==
  /\ pc[r] = "none" /\ proof[b] # None
  /\ Keep(Swept)
  /\ IF Authorized(proof[b], saved)
     THEN /\ lease' = [lease EXCEPT ![r] = proof[b]]
          /\ owner' = [owner EXCEPT ![r] = b]
          /\ Goto(r, "authorized")
     ELSE UNCHANGED <<lease, owner, pc, attempt>>
  /\ UNCHANGED <<connecting, dialled, saved, proof, clocks, ended>>

(* start_execution_run reads the agent again, into the run's snapshot. *)
Start(r) ==
  /\ pc[r] = "authorized"
  /\ Keep(Swept)
  /\ IF Authorized(lease[r], saved) /\ Remaining(lease[r]) >= Required
     THEN /\ dialled' = [dialled EXCEPT ![r] = saved]
          /\ Goto(r, "started")
          /\ UNCHANGED <<owner, lease>>
     ELSE End(r)
  /\ UNCHANGED <<connecting, saved, proof, clocks, ended>>

(* bind_run; the background task only follows when it succeeds. *)
Bind(r) ==
  /\ pc[r] = "started"
  /\ grants' = Swept /\ timer' = TimersFor(Swept)
  /\ IF lease[r] \in Swept /\ Cardinality({s \in Runs : RunsFor(Swept)[s] # None}) < RunCapacity
     THEN /\ runs' = [RunsFor(Swept) EXCEPT ![r] = lease[r]]
          /\ Goto(r, "bound")
          /\ UNCHANGED <<owner, lease, dialled>>
     ELSE /\ runs' = RunsFor(Swept)
          /\ End(r)
  /\ UNCHANGED <<connecting, saved, proof, clocks, ended>>

(* The target of the agent is edited. *)
Edit == /\ saved' \in Targets \ {saved}
        /\ UNCHANGED <<store, connecting, running, proof, clocks, ended>>

-----------------------------------------------------------------------------
(* The background task, one conversation after the other.                  *)

(* The task dies before its try: nothing releases the binding. *)
Dies(r) ==
  /\ pc[r] = "bound"
  /\ Goto(r, "ended")
  /\ UNCHANGED <<store, connecting, held, saved, proof, clocks, ended>>

(* run_lease, then a WayloClient for the call; the guard starts with it. *)
Call(r) ==
  /\ pc[r] \in {"bound", "between"}
  /\ Keep(Swept)
  /\ IF RunsFor(Swept)[r] # None /\ Authorized(runs[r], dialled[r])
     THEN Goto(r, "call")
     ELSE Goto(r, "between")
  /\ UNCHANGED <<connecting, held, saved, proof, clocks, ended>>

(* The call fails, unless it catches the error and goes on. *)
Fail(r) == \E s \in {"call", "between"} : Goto(r, s)

(* Mutant: a request takes the token once, for all its attempts. *)
SendWithToken(r) ==
  /\ pc[r] \in {"call", "waiting"}
  /\ IF pc[r] = "call" THEN Keep(Swept) ELSE UNCHANGED store
  /\ IF pc[r] = "waiting" \/ lease[r] \in Swept
     THEN /\ pc' = [pc EXCEPT ![r] = "request"]
          /\ attempt' = [attempt EXCEPT ![r] = @ + 1]
     ELSE Fail(r)
  /\ UNCHANGED <<connecting, held, saved, proof, clocks, ended>>

(* WayloClient.request, an attempt: it takes the token, if there still is one. *)
Send(r) ==
  /\ pc[r] \in {"call", "waiting"}
  /\ Keep(Swept)
  /\ IF lease[r] \in Swept
     THEN /\ pc' = [pc EXCEPT ![r] = "request"]
          /\ attempt' = [attempt EXCEPT ![r] = @ + 1]
     ELSE Fail(r)
  /\ UNCHANGED <<connecting, held, saved, proof, clocks, ended>>

(* The request sleeps before its next attempt. *)
Wait(r) == /\ attempt[r] < MaxAttempts
           /\ pc' = [pc EXCEPT ![r] = "waiting"]
           /\ UNCHANGED attempt

(* Transport failed: the grant is not looked at. *)
Retry(r) ==
  /\ pc[r] = "request"
  /\ Wait(r) \/ Fail(r)
  /\ UNCHANGED <<store, connecting, held, saved, proof, clocks, ended>>

(* A response counts when the grant is still there; Waylo may be overloaded. *)
Receive(r) ==
  /\ pc[r] = "request"
  /\ Keep(Swept)
  /\ (lease[r] \in Swept /\ Wait(r)) \/ Fail(r)
  /\ UNCHANGED <<connecting, held, saved, proof, clocks, ended>>

(* Waylo answers 401: the grant is revoked for every run. *)
Rejected(r) ==
  /\ pc[r] = "request"
  /\ Keep(Swept \ {lease[r]})
  /\ Fail(r)
  /\ ended' = ended \cup {lease[r]}
  /\ UNCHANGED <<connecting, held, saved, proof, clocks>>

(* The call ends by itself; its grant is checked once more. *)
HangUp(r) ==
  /\ pc[r] = "call"
  /\ Keep(Swept)
  /\ Goto(r, "between")
  /\ UNCHANGED <<connecting, held, saved, proof, clocks, ended>>

(* Mutant: no check while a request is pending. *)
GuardIdle(r) ==
  /\ pc[r] = "call" /\ lease[r] \notin Swept
  /\ Keep(Swept)
  /\ Goto(r, "cancelling")
  /\ UNCHANGED <<connecting, held, saved, proof, clocks, ended>>

(* monitor_authorization: ten checks a second, here those that fail. *)
Guard(r) ==
  /\ pc[r] \in {"call", "request", "waiting"} /\ lease[r] \notin Swept
  /\ Keep(Swept)
  /\ Goto(r, "cancelling")
  /\ UNCHANGED <<connecting, held, saved, proof, clocks, ended>>

Cancelled(r) ==
  /\ pc[r] = "cancelling"
  /\ Goto(r, "between")
  /\ UNCHANGED <<store, connecting, held, saved, proof, clocks, ended>>

(* release_run *)
Release(r) ==
  /\ pc[r] = "between"
  /\ runs' = [runs EXCEPT ![r] = None]
  /\ End(r)
  /\ UNCHANGED <<grants, timer, connecting, saved, proof, clocks, ended>>

-----------------------------------------------------------------------------
(* Time, timers and restarts.                                              *)

Tick == /\ mono < MaxTime
        /\ mono' = mono + 1 /\ wall' = wall + 1
        /\ UNCHANGED <<store, connecting, running, saved, proof, jumps, ended>>

(* The wall is set back or forward, or the machine was asleep. *)
Jump == /\ jumps < MaxJumps
        /\ wall' \in (0..MaxTime) \ {wall}
        /\ jumps' = jumps + 1
        /\ UNCHANGED <<store, connecting, running, saved, proof, mono, ended>>

(* Mutant: the timer follows the wall. *)
TimerFiresByWall(k) ==
  /\ timer[k] = "armed" /\ wall >= expires[k]
  /\ timer' = [timer EXCEPT ![k] = "fired"]
  /\ UNCHANGED <<grants, runs, connecting, running, saved, proof, clocks, ended>>

(* The thread of the timer is past cancelling, and waits for the lock. *)
TimerFires(k) ==
  /\ timer[k] = "armed" /\ mono >= deadline[k]
  /\ timer' = [timer EXCEPT ![k] = "fired"]
  /\ UNCHANGED <<grants, runs, connecting, running, saved, proof, clocks, ended>>

(* _expire *)
Expire(k) ==
  /\ timer[k] = "fired"
  /\ grants' = grants \ {k}
  /\ timer' = [timer EXCEPT ![k] = "off"]
  /\ runs' = [r \in Runs |-> IF runs[r] = k THEN None ELSE runs[r]]
  /\ ended' = ended \cup {k}
  /\ UNCHANGED <<connecting, running, saved, proof, clocks>>

(* A restart loses all grants and tasks; the tabs keep their proofs. *)
Restart ==
  /\ grants' = {}
  /\ timer' = [k \in Connects |-> "off"]
  /\ runs' = [r \in Runs |-> None]
  /\ step' = [k \in Connects |-> IF step[k] = "idle" THEN "idle" ELSE "done"]
  /\ tab' = [k \in Connects |-> None] /\ previous' = tab' /\ consented' = tab'
  /\ deadline' = [k \in Connects |-> 0] /\ expires' = deadline'
  /\ pc' = [r \in Runs |-> IF pc[r] = "none" THEN "none" ELSE "ended"]
  /\ attempt' = [r \in Runs |-> 0]
  /\ owner' = [r \in Runs |-> None] /\ lease' = owner' /\ dialled' = owner'
  /\ UNCHANGED <<saved, proof, clocks, ended>>

-----------------------------------------------------------------------------
Route(k) == \/ \E b \in Tabs : SignIn(k, b)
            \/ SignInFails(k) \/ Install(k) \/ DropPrevious(k) \/ Connected(k)

Queue(r) == (\E b \in Tabs : Authorize(r, b)) \/ Start(r) \/ Bind(r)

Task(r) == \/ Dies(r) \/ Call(r) \/ Send(r) \/ Retry(r) \/ Receive(r) \/ Rejected(r)
           \/ HangUp(r) \/ Guard(r) \/ Cancelled(r) \/ Release(r)

Next == \/ \E k \in Connects : Route(k) \/ TimerFires(k) \/ Expire(k)
        \/ \E b \in Tabs : Disconnect(b) \/ Status(b) \/ Forget(b)
        \/ \E r \in Runs : Queue(r) \/ Task(r)
        \/ Edit \/ Tick \/ Jump \/ Restart

Spec == Init /\ [][Next]_vars

(* The guard runs every tenth of a second and a cancelled call is joined; a
   timer that is due fires, and its thread gets the lock.                   *)
FairSpec == /\ Spec
            /\ \A r \in Runs : WF_vars(Guard(r)) /\ WF_vars(Cancelled(r))
            /\ \A k \in Connects : WF_vars(TimerFires(k)) /\ WF_vars(Expire(k))
-----------------------------------------------------------------------------
StoreOK ==
  /\ grants \in SUBSET Connects /\ Cardinality(grants) <= Capacity
  /\ timer \in [Connects -> {"off", "armed", "fired"}]
  /\ \A k \in Connects : /\ k \in grants => timer[k] \in {"armed", "fired"}
                         /\ timer[k] = "armed" => k \in grants
  /\ runs \in [Runs -> Connects \cup {None}]

TypeOK ==
  /\ StoreOK
  /\ tab \in [Connects -> Tabs \cup {None}]
  /\ previous \in [Connects -> Connects \cup {None}]
  /\ step \in [Connects -> {"idle", "signing", "installed", "answering", "done"}]
  /\ consented \in [Connects -> Targets \cup {None}]
  /\ deadline \in [Connects -> Nat] /\ expires \in [Connects -> Nat]
  /\ pc \in [Runs -> {"none", "authorized", "started", "bound", "between", "call", "request",
                      "waiting", "cancelling", "ended"}]
  /\ attempt \in [Runs -> 0..MaxAttempts]
  /\ owner \in [Runs -> Tabs \cup {None}]
  /\ lease \in [Runs -> Connects \cup {None}]
  /\ dialled \in [Runs -> Targets \cup {None}]
  /\ saved \in Targets
  /\ proof \in [Tabs -> Connects \cup {None}]
  /\ mono \in Nat /\ wall \in Nat /\ jumps \in 0..MaxJumps
  /\ ended \in SUBSET Connects

InCall(r) == pc[r] \in {"call", "request", "waiting", "cancelling"}

(* A binding never outlives its grant, whoever ends it and on whichever clock:
   a bound run holds the lease of a live grant, for the target it was queued
   for.                                                                      *)
RunsAreBacked ==
  \A r \in Runs : runs[r] # None =>
    runs[r] \in grants /\ runs[r] = lease[r] /\ consented[lease[r]] = dialled[r]

(* Whatever is edited, reconnected or revoked between queueing a run and its
   requests, a request goes out with the token its own tab obtained, and to the
   target that token was obtained for.                                       *)
RequestsAreConsented ==
  \A r \in Runs : pc[r] = "request" =>
    tab[lease[r]] = owner[r] /\ consented[lease[r]] = dialled[r]

(* docs/waylo-target-adapter.md:117: "Credentials are rechecked on HTTP retries
   and during RTC".  Whoever ended a grant at whatever time - a tab that
   disconnects or reconnects, Waylo that rejects the token in another run, the
   timer - no attempt of a request starts under it again: not after the wait
   between two attempts, not in a call that outlives the error of a request, and
   not when the wall is set back.                                            *)
NoAttemptAfterEnd ==
  [][\A r \in Runs : attempt'[r] > attempt[r] =>
       /\ lease[r] \in grants \ ended
       /\ mono < deadline[lease[r]] /\ wall < expires[lease[r]]]_vars

(* docs/waylo-target-adapter.md:118: "disconnect, expiry and successful
   reconnect cancel active calls": a call whose grant is gone, or past its
   monotonic end, does not go on.                                            *)
CallsEnd ==
  \A r \in Runs, k \in Connects :
    InCall(r) /\ lease[r] = k /\ (k \notin grants \/ mono >= deadline[k]) ~> ~InCall(r)

(* docs/waylo-target-adapter.md:110: the token stays in memory no longer than
   its expiry or 15 minutes, also when nobody uses the store any more.       *)
TokensAreForgotten ==
  \A k \in Connects : k \in grants /\ mono >= deadline[k] ~> k \notin grants
=============================================================================
