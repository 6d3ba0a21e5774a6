---------------------------- MODULE Runs_proofs -----------------------------
(***************************************************************************)
(* Theorems about the runs, for all their constants: the record of a run   *)
(* in the store (RunStore), the route and the task that run it             *)
(* (ExecutionRun), and suite runs (SuiteRun).                              *)
(*                                                                         *)
(* In the process that created a run the memory copy is never missing, so  *)
(* no reader loads the file, and what a writer is about to acknowledge is  *)
(* in memory from the moment it takes the lock.                            *)
(***************************************************************************)
EXTENDS RunStore, ExecutionRun, SuiteRun, FiniteSetTheorems, TLAPS

(* The fact of a client writing the file is in memory; a reader about to
   install holds a row it loaded.                                           *)
ClientsOK == \A c \in Clients :
  /\ pc[c] = "write" => memory \in SUBSET Facts /\ local[c] \in memory
  /\ pc[c] = "install" => local[c] \in SUBSET Facts

LEMMA StoreTypeInit == Init => TypeOK /\ ClientsOK
<1> SUFFICES ASSUME Init PROVE TypeOK /\ ClientsOK
  OBVIOUS
<1>1. crashes \in 0..MaxCrashes
  BY StoreAssumption DEF Init
<1> QED
  BY <1>1, StoreAssumption DEF Init, TypeOK, ClientsOK

LEMMA StoreTypeStep == TypeOK /\ ClientsOK /\ [Next]_vars => TypeOK' /\ ClientsOK'
<1> SUFFICES ASSUME TypeOK, ClientsOK, [Next]_vars PROVE TypeOK' /\ ClientsOK'
  OBVIOUS
<1>0. lock = None => \A c \in Clients : pc[c] # "write"
  BY StoreAssumption DEF TypeOK
<1>a. \A c \in Clients : c # None
  BY StoreAssumption
<1> USE DEF TypeOK, ClientsOK, Goto
<1>1. ASSUME NEW c \in Clients, NEW f \in Facts, Save(c, f) PROVE TypeOK' /\ ClientsOK'
  <2>1. Saved \in SUBSET Facts
    BY <1>1 DEF Save, Saved
  <2> QED
    BY <1>0, <1>1, <2>1 DEF Save
<1>2. ASSUME NEW c \in Clients, NEW f \in Facts, SaveError(c, f) PROVE TypeOK' /\ ClientsOK'
  <2>1. Saved \in SUBSET Facts
    BY <1>2 DEF SaveError, Saved
  <2> QED
    BY <1>0, <1>2, <2>1 DEF SaveError
<1>3. ASSUME NEW c \in Clients, NEW f \in Facts, SaveAgain(c, f) PROVE TypeOK' /\ ClientsOK'
  <2>1. Saved \in SUBSET Facts
    BY <1>3 DEF SaveAgain, Saved
  <2> QED
    BY <1>0, <1>3, <2>1 DEF SaveAgain
<1>4. ASSUME NEW c \in Clients, Written(c) \/ WriteError(c) \/ Miss(c) \/ Load(c) \/ Install(c)
                                \/ Hydrate(c)
      PROVE  TypeOK' /\ ClientsOK'
  <2>1. CASE Written(c)
    BY <1>a, <2>1 DEF Written
  <2>2. CASE WriteError(c)
    BY <1>a, <2>2 DEF WriteError
  <2>3. CASE Miss(c)
    BY <2>3 DEF Miss
  <2>4. CASE Load(c)
    BY <2>4 DEF Load
  <2>5. CASE Install(c)
    BY <1>0, <2>5 DEF Install
  <2>6. CASE Hydrate(c)
    BY <1>0, <2>6 DEF Hydrate
  <2> QED
    BY <1>4, <2>1, <2>2, <2>3, <2>4, <2>5, <2>6
<1>5. CASE Crash
  BY <1>5, StoreAssumption DEF Crash
<1>6. CASE UNCHANGED vars
  BY <1>6 DEF vars
<1> QED
  BY <1>1, <1>2, <1>3, <1>4, <1>5, <1>6 DEF Next, Step

(* Every reachable state is well typed, and the holder of _LOCK is the one
   client writing run.json.                                                 *)
THEOREM StoreTypeCorrect == Spec => []TypeOK
<1>1. Spec => [](TypeOK /\ ClientsOK)
  BY StoreTypeInit, StoreTypeStep, PTL DEF Spec
<1> QED
  BY <1>1, PTL

(* Before any restart: memory holds the run, nobody reads the file, and what
   was acknowledged is in memory, with one product project at most.         *)
FirstLife ==
  crashes = 0 => /\ memory # None
                 /\ \A c \in Clients : pc[c] \notin {"load", "install"}
                 /\ acked \subseteq memory
                 /\ \A p, q \in memory \cap Products : p = q

LEMMA FirstLifeStep == TypeOK /\ ClientsOK /\ FirstLife /\ [Next]_vars => FirstLife'
<1> SUFFICES ASSUME TypeOK, ClientsOK, FirstLife, [Next]_vars, crashes' = 0
             PROVE  /\ memory' # None
                    /\ \A c \in Clients : pc'[c] \notin {"load", "install"}
                    /\ acked' \subseteq memory'
                    /\ \A p, q \in memory' \cap Products : p = q
  BY DEF FirstLife
<1>0. crashes = 0
  BY DEF TypeOK, Next, Step, vars, Save, SaveError, SaveAgain, Written, WriteError, Miss, Load,
         Install, Hydrate, Crash
<1>1. /\ memory \in SUBSET Facts
      /\ \A c \in Clients : pc[c] \notin {"load", "install"}
      /\ acked \subseteq memory
      /\ \A p, q \in memory \cap Products : p = q
      /\ Saved = memory
  BY <1>0 DEF FirstLife, TypeOK, Saved
<1>2. ASSUME NEW c \in Clients, NEW f \in Facts, Save(c, f) \/ SaveError(c, f)
      PROVE  /\ memory' = memory \cup {f}
             /\ f \in Products => \A p \in memory \cap Products : p = f
             /\ acked' = acked
             /\ \A d \in Clients : pc'[d] \notin {"load", "install"}
  BY <1>1, <1>2 DEF Save, SaveError, Refused, Goto, TypeOK
<1>3. ASSUME NEW c \in Clients, NEW f \in Facts, SaveAgain(c, f)
      PROVE  /\ memory' = memory /\ f \in memory /\ acked' = acked \cup {f}
             /\ \A d \in Clients : pc'[d] \notin {"load", "install"}
  BY <1>1, <1>3 DEF SaveAgain, Recorded, Goto, TypeOK
<1>4. ASSUME NEW c \in Clients, Written(c) \/ WriteError(c)
      PROVE  /\ memory' = memory /\ acked' \subseteq memory
             /\ \A d \in Clients : pc'[d] \notin {"load", "install"}
  BY <1>1, <1>4 DEF Written, WriteError, ClientsOK, Goto, TypeOK
<1>5. ASSUME NEW c \in Clients
      PROVE  ~Miss(c) /\ ~Load(c) /\ ~Install(c) /\ ~Hydrate(c)
  BY <1>0, <1>1 DEF Miss, Load, Install, Hydrate, FirstLife
<1>6. ~Crash
  BY <1>0 DEF Crash
<1>7. memory \in SUBSET Facts => memory # None
  BY StoreAssumption
<1>8. CASE UNCHANGED vars
  BY <1>1, <1>7, <1>8 DEF vars
<1>9. CASE \E c \in Clients : Step(c)
  <2>1. CASE \E c \in Clients, f \in Facts : Save(c, f) \/ SaveError(c, f)
    <3>1. PICK c \in Clients, f \in Facts : Save(c, f) \/ SaveError(c, f)
      BY <2>1
    <3>2. memory' \in SUBSET Facts
      BY <1>1, <1>2, <3>1
    <3>3. memory' # None
      BY <3>2, StoreAssumption
    <3>4. \A p, q \in memory' \cap Products : p = q
      BY <1>1, <1>2, <3>1
    <3> QED
      BY <1>1, <1>2, <3>1, <3>3, <3>4
  <2>2. CASE \E c \in Clients, f \in Facts : SaveAgain(c, f)
    BY <1>1, <1>3, <1>7, <2>2
  <2>3. CASE \E c \in Clients : Written(c) \/ WriteError(c)
    BY <1>1, <1>4, <1>7, <2>3
  <2> QED
    BY <1>5, <1>9, <2>1, <2>2, <2>3 DEF Step
<1> QED
  BY <1>6, <1>8, <1>9 DEF Next

(* In the process that created the run, what a client was told is recorded
   stays recorded, and two clients are never told of different bindings.    *)
THEOREM KeptUntilRestartHolds == Spec => []KeptUntilRestart
<1>1. Init => FirstLife
  BY StoreAssumption DEF Init, FirstLife
<1>2. TypeOK /\ FirstLife => KeptUntilRestart
  BY DEF TypeOK, FirstLife, KeptUntilRestart
<1>3. Spec => [](TypeOK /\ ClientsOK /\ FirstLife)
  BY <1>1, StoreTypeInit, StoreTypeStep, FirstLifeStep, PTL DEF Spec
<1> QED
  BY <1>2, <1>3, PTL
-----------------------------------------------------------------------------
(* Across one restart.  In the first life the file is what memory holds, or
   torn while a client writes it.  After it, as long as the process has not
   touched the run, no client holds the lock, and what was acknowledged is in
   the file, unless that is torn.                                           *)
FileKeeps ==
  /\ crashes = 0 /\ ~failures => disk = IF lock = None THEN memory ELSE Torn
  /\ memory = None => lock = None
  /\ crashes <= 1 /\ memory = None /\ ~failures => disk = Torn \/ acked \subseteq disk

LEMMA FileKeepsInit == Init => FileKeeps
  BY StoreAssumption DEF Init, FileKeeps

(* Who touches a run that is not in memory takes it from the file. *)
LEMMA TakesFile ==
  ASSUME TypeOK, ClientsOK, memory = None, memory' # None, [Next]_vars,
         \A c \in Clients : pc[c] # "install"
  PROVE  disk # Torn /\ disk \subseteq memory'
<1>1. \A c \in Clients : pc[c] # "write"
  BY StoreAssumption DEF ClientsOK
<1>2. ASSUME NEW c \in Clients, NEW f \in Facts, Save(c, f) \/ SaveError(c, f) \/ SaveAgain(c, f)
      PROVE  disk # Torn /\ disk \subseteq memory'
  BY <1>2 DEF Save, SaveError, SaveAgain, Saved
<1>3. ASSUME NEW c \in Clients, Hydrate(c)
      PROVE  disk # Torn /\ disk \subseteq memory'
  BY <1>3 DEF Hydrate
<1>4. ASSUME NEW c \in Clients PROVE ~Written(c) /\ ~WriteError(c) /\ ~Miss(c) /\ ~Load(c) /\ ~Install(c)
  BY <1>1 DEF Written, WriteError, Miss, Load, Install
<1>5. ~Crash /\ ~UNCHANGED vars
  BY DEF Crash, vars
<1> QED
  BY <1>2, <1>3, <1>4, <1>5 DEF Next, Step

LEMMA FileKeepsStep == TypeOK /\ ClientsOK /\ FirstLife /\ FileKeeps /\ [Next]_vars => FileKeeps'
<1> SUFFICES ASSUME TypeOK, ClientsOK, FirstLife, FileKeeps, [Next]_vars PROVE FileKeeps'
  OBVIOUS
<1>t. \A x \in SUBSET Facts : x # None /\ x # Torn
  BY StoreAssumption
<1>n. crashes \in Nat /\ \A c \in Clients : c # None
  BY StoreAssumption DEF TypeOK
<1>1. ASSUME NEW c \in Clients, NEW f \in Facts, Save(c, f)
      PROVE  FileKeeps'
  <2>1. memory' \in SUBSET Facts
    BY <1>1 DEF Save, Saved, TypeOK
  <2> QED
    BY <1>1, <1>n, <1>t, <2>1 DEF Save, FileKeeps
<1>2. ASSUME NEW c \in Clients, NEW f \in Facts, SaveError(c, f) \/ SaveAgain(c, f)
      PROVE  FileKeeps'
  <2>1. memory' \in SUBSET Facts
    BY <1>2 DEF SaveError, SaveAgain, Saved, TypeOK
  <2>2. crashes = 0 => Saved = memory
    BY DEF Saved, FirstLife
  <2> QED
    BY <1>2, <1>t, <2>1, <2>2 DEF SaveError, SaveAgain, FileKeeps
<1>3. ASSUME NEW c \in Clients, Written(c) \/ WriteError(c) PROVE FileKeeps'
  <2>1. memory \in SUBSET Facts
    BY <1>3 DEF Written, WriteError, ClientsOK
  <2> QED
    BY <1>3, <1>t, <2>1 DEF Written, WriteError, FileKeeps
<1>4. ASSUME NEW c \in Clients, Miss(c) \/ Load(c) PROVE FileKeeps'
  BY <1>4 DEF Miss, Load, FileKeeps
<1>5. ASSUME NEW c \in Clients, Install(c) \/ Hydrate(c) PROVE FileKeeps'
  <2>1. memory' \in SUBSET Facts /\ crashes # 0
    BY <1>5 DEF Install, Hydrate, ClientsOK, TypeOK, FirstLife
  <2> QED
    BY <1>5, <1>t, <2>1 DEF Install, Hydrate, FileKeeps
<1>6. CASE Crash
  <2>1. crashes' # 0 /\ (crashes' <= 1 => crashes = 0)
    BY <1>6, <1>n DEF Crash
  <2>2. crashes = 0 /\ ~failures => disk = Torn \/ acked \subseteq disk
    BY DEF FileKeeps, FirstLife
  <2> QED
    BY <1>6, <2>1, <2>2 DEF Crash, FileKeeps
<1>7. CASE UNCHANGED vars
  BY <1>7 DEF vars, FileKeeps
<1> QED
  BY <1>1, <1>2, <1>3, <1>4, <1>5, <1>6, <1>7 DEF Next, Step

(* One restart later the run still holds everything that was acknowledged
   before it, seen at the moment the restarted process first touches the run:
   for any number of clients and facts.                                     *)
THEOREM RestartKeepsHolds == Spec => RestartKeeps
<1> DEFINE Keeps == memory = None /\ memory' # None /\ ~failures /\ crashes <= 1
                    /\ (\A c \in Clients : pc[c] # "install") => acked \subseteq memory'
<1>1. TypeOK /\ ClientsOK /\ FileKeeps /\ [Next]_vars => [Keeps]_vars
  BY TakesFile DEF FileKeeps
<1>2. Init => FirstLife
  BY StoreAssumption DEF Init, FirstLife
<1>3. Spec => [](TypeOK /\ ClientsOK /\ FirstLife /\ FileKeeps)
  BY <1>2, StoreTypeInit, StoreTypeStep, FirstLifeStep, FileKeepsInit, FileKeepsStep, PTL DEF Spec
<1> HIDE DEF Keeps
<1>4. Spec => [][Keeps]_vars
  BY <1>1, <1>3, PTL DEF Spec
<1> QED
  BY <1>4 DEF Keeps, RestartKeeps
-----------------------------------------------------------------------------
(* While the task is at work it has a run that has not ended. *)
Working == runPc \in {"queued", "mark", "prepare", "begin", "talk", "save", "append", "finish"}
                => run # Lost /\ ~Ended(run)

(* Once queued the run is in memory until a restart, also when the task cleans
   up and after it.                                                         *)
Held == runPc # "start" /\ runCrashes = 0 => run # Lost

(* The conversations before the current one are over, it is running or just
   over, and those after it have no row.                                    *)
RowsInOrder ==
  LET last == IF runPc \in {"append", "finish"} THEN job ELSE job - 1 IN
  runPc \in {"begin", "talk", "save", "append", "finish"} =>
       /\ \A j \in Jobs : j <= last => run.rows[j] \in Finished
       /\ \A j \in Jobs : j > job => run.rows[j] = "absent"
       /\ runPc = "begin" => run.rows[job] = "absent"
       /\ runPc \in {"talk", "save"} => run.rows[job] = "running"
       /\ runPc = "finish" => job = NumJobs

NotStarted == runPc \in {"queued", "mark", "prepare"} =>
                   job = 1 /\ \A j \in Jobs : run.rows[j] = "absent"

AtStart == runPc = "start" => job = 1

(* A restarted process has no task; until then the live events of the run are
   those published, also in the record about to be saved, and conversations
   still to come have none.                                                 *)
Counted ==
  /\ runPc \notin {"ended", "dead"} => runCrashes = 0
  /\ runPc = "save" => result.events = run.events[job]
  /\ runPc \in {"start", "queued", "mark", "prepare", "begin"} =>
          \A j \in Jobs : j >= job => published[j] = 0
  /\ runPc \in {"talk", "save", "append"} => \A j \in Jobs : j > job => published[j] = 0

RunInv == /\ RunTypeOK /\ Working /\ Held /\ RowsInOrder /\ NotStarted /\ AtStart /\ VerdictIsEarned
       /\ Counted /\ EventsKept

LEMMA OneIsAJob == 1 \in Jobs
  BY RunAssumption DEF Jobs

LEMMA CountDoneType == ASSUME NEW rows PROVE CountDone(rows) \in 0..NumJobs
<1> DEFINE D == {j \in Jobs : rows[j] \in Finished}
<1>1. IsFiniteSet(Jobs) /\ Cardinality(Jobs) = NumJobs
  BY RunAssumption, FS_Interval DEF Jobs
<1>2. D \in SUBSET Jobs
  OBVIOUS
<1>3. IsFiniteSet(D) /\ Cardinality(D) <= NumJobs
  BY <1>1, <1>2, FS_Subset
<1>4. Cardinality(D) \in Nat
  BY <1>3, FS_CardinalityType
<1> QED
  BY <1>3, <1>4, RunAssumption DEF CountDone

LEMMA MaxOfOne == ASSUME NEW j \in Nat PROVE Max({j}) = j
  BY DEF Max

(* What upsert_conversation does when no other conversation is running. *)
LEMMA UpsertFields ==
  ASSUME NEW r \in Runs, NEW j \in Jobs, NEW status \in {"running"} \cup Finished,
         NEW n \in 0..MaxEvents, \A k \in Jobs : k # j => r.rows[k] # "running"
  PROVE  /\ Upsert(r, j, status, n) \in Runs
         /\ Upsert(r, j, status, n).rows = [r.rows EXCEPT ![j] = status]
         /\ Upsert(r, j, status, n).status = r.status
         /\ Upsert(r, j, status, n).events = [r.events EXCEPT ![j] = n]
<1> DEFINE rows == [r.rows EXCEPT ![j] = status]
           open == {k \in Jobs : rows[k] = "running"}
           act == IF open = {} THEN 0 ELSE Max(open)
           evs == [r.events EXCEPT ![j] = n]
<1>1. rows \in [Jobs -> {"absent", "running"} \cup Finished] /\ evs \in [Jobs -> 0..MaxEvents]
  BY DEF Runs
<1>2. open \subseteq {j}
  BY DEF Runs
<1>3. act \in 0..NumJobs
  BY <1>2, MaxOfOne, RunAssumption DEF Jobs
<1>4. CountDone(rows) \in 0..NumJobs
  BY CountDoneType
<1>5. Upsert(r, j, status, n) =
        [status |-> r.status, error |-> r.error, rows |-> rows, events |-> evs,
         completed |-> CountDone(rows), active |-> act]
  BY DEF Upsert
<1> HIDE DEF rows, evs, act, open
<1>6. Upsert(r, j, status, n) \in Runs
  BY <1>1, <1>3, <1>4, <1>5 DEF Runs
<1> QED
  BY <1>5, <1>6 DEF rows, evs

LEMMA CloseFields ==
  ASSUME NEW r \in Runs, NEW status \in Finished, NEW error \in BOOLEAN
  PROVE  Close(r, status, error) \in Runs
  BY RunAssumption DEF Close, Runs

LEMMA CloseKeeps ==
  ASSUME NEW r, NEW status, NEW error
  PROVE  Close(r, status, error).events = r.events
  BY DEF Close

LEMMA FailedFields ==
  ASSUME NEW r \in Runs
  PROVE  AsFailed(r) \in Runs /\ AsFailed(r).error /\ Earned(AsFailed(r))
<1>1. AsFailed(r) \in Runs
  BY CloseFields DEF AsFailed, Finished
<1> QED
  BY <1>1 DEF AsFailed, Close, Earned

(* A save leaves the file with the new run, the old one, or nothing. *)
LEMMA SaveStep ==
  ASSUME RunTypeOK, VerdictIsEarned, NEW new \in Runs, Earned(new), NEW ok, NEW failed,
         SaveRun(new, ok, failed)
  PROVE  /\ run' = new /\ run' \in Runs /\ run' # Lost
         /\ saved' \in Runs \cup {Lost} /\ faults' \in BOOLEAN
         /\ VerdictIsEarned'
         /\ runPc' = ok \/ runPc' = failed
<1>1. Earned(Lost)
  BY DEF Earned
<1>2. saved' \in {new, saved, Lost}
  BY DEF SaveRun
<1>3. new # Lost
  BY RunAssumption
<1>4. Earned(saved')
  BY <1>1, <1>2 DEF VerdictIsEarned
<1> QED
  BY <1>2, <1>3, <1>4 DEF SaveRun, RunTypeOK, VerdictIsEarned, RunGoto

LEMMA RunInvInit == RunInit => RunInv
<1> SUFFICES ASSUME RunInit PROVE RunInv
  OBVIOUS
<1>1. RunTypeOK
  <2>1. 0 \in 0..MaxEvents /\ 0 \in 0..MaxRunCrashes
    BY RunAssumption
  <2>2. lines \in Seq(Jobs \X Finished)
    BY DEF RunInit
  <2>3. result \in [status : Finished, events : 0..MaxEvents]
    BY <2>1 DEF RunInit, Finished
  <2>4. published \in [Jobs -> 0..MaxEvents]
    BY <2>1 DEF RunInit
  <2> QED
    BY <2>1, <2>2, <2>3, <2>4, OneIsAJob DEF RunInit, RunTypeOK
<1>2. VerdictIsEarned
  BY DEF RunInit, VerdictIsEarned, Earned
<1>3. Counted /\ EventsKept
  BY DEF RunInit, Counted, EventsKept
<1> QED
  BY <1>1, <1>2, <1>3 DEF RunInit, RunInv, Working, Held, RowsInOrder, NotStarted, AtStart

(* The steps before the first conversation. *)
LEMMA RunStartStep ==
  ASSUME RunInv, Queue \/ Bind \/ BindRefused \/ MarkRunning \/ Prepare
  PROVE  RunInv'
<1> USE DEF RunInv
<1>1. CASE Queue
  <2>1. NewRun \in Runs /\ Earned(NewRun) /\ ~Ended(NewRun)
    BY RunAssumption DEF NewRun, Runs, Earned, Ended, Finished
  <2>2. SaveRun(NewRun, "queued", "dead")
    BY <1>1 DEF Queue
  <2>3. /\ run' = NewRun /\ run' \in Runs /\ run' # Lost
        /\ saved' \in Runs \cup {Lost} /\ faults' \in BOOLEAN
        /\ VerdictIsEarned' /\ runPc' \in {"queued", "dead"}
    BY <2>1, <2>2, SaveStep
  <2>4. RunTypeOK'
    BY <1>1, <2>3 DEF Queue, RunTypeOK
  <2>5. NotStarted'
    BY <1>1, <2>3 DEF Queue, AtStart, NotStarted, NewRun
  <2>6. \A j \in Jobs : j >= 1
    BY DEF Jobs
  <2>7. published = [j \in Jobs |-> 0]
    BY <1>1, <2>6 DEF Queue, AtStart, Counted, RunTypeOK
  <2>8. EventsKept'
    BY <1>1, <2>3, <2>7 DEF Queue, EventsKept, NewRun
  <2>9. Counted'
    BY <1>1, <2>3 DEF Queue, Counted
  <2> QED
    BY <2>1, <2>3, <2>4, <2>5, <2>8, <2>9 DEF Working, Held, RowsInOrder, AtStart
<1>2. CASE Bind
  <2>1. RunTypeOK' /\ VerdictIsEarned'
    BY <1>2 DEF Bind, RunGoto, RunTypeOK, VerdictIsEarned
  <2>2. Counted' /\ EventsKept'
    BY <1>2 DEF Bind, RunGoto, Counted, EventsKept
  <2> QED
    BY <1>2, <2>1, <2>2 DEF Bind, RunGoto, Working, Held, RowsInOrder, NotStarted, AtStart
<1>3. CASE BindRefused
  <2>1. run \in Runs
    BY <1>3 DEF BindRefused, Working, RunTypeOK
  <2>2. SaveRun(AsFailed(run), "ended", "dead")
    BY <1>3 DEF BindRefused
  <2>3. /\ run' = AsFailed(run) /\ run' \in Runs /\ run' # Lost
        /\ saved' \in Runs \cup {Lost} /\ faults' \in BOOLEAN
        /\ VerdictIsEarned' /\ runPc' \in {"ended", "dead"}
    BY <2>1, <2>2, FailedFields, SaveStep
  <2>4. RunTypeOK'
    BY <1>3, <2>3 DEF BindRefused, RunTypeOK
  <2>5. Counted' /\ EventsKept'
    BY <1>3, <2>3, CloseKeeps DEF BindRefused, Counted, EventsKept, AsFailed, Working
  <2> QED
    BY <2>3, <2>4, <2>5 DEF Working, Held, RowsInOrder, NotStarted, AtStart
<1>4. CASE MarkRunning
  <2>1. run \in Runs /\ ~Ended(run)
    BY <1>4 DEF MarkRunning, Working, RunTypeOK
  <2> DEFINE new == [run EXCEPT !.status = "running"]
  <2>2. /\ new \in Runs /\ new.status = "running" /\ new.rows = run.rows
        /\ new.events = run.events
    BY <2>1 DEF Runs
  <2>3. Earned(new) /\ ~Ended(new)
    BY <2>2 DEF Earned, Ended, Finished
  <2>4. SaveRun(new, "prepare", "dead")
    BY <1>4 DEF MarkRunning
  <2> HIDE DEF new
  <2>5. /\ run' = new /\ run' \in Runs /\ run' # Lost
        /\ saved' \in Runs \cup {Lost} /\ faults' \in BOOLEAN
        /\ VerdictIsEarned' /\ runPc' \in {"prepare", "dead"}
    BY <2>2, <2>3, <2>4, SaveStep
  <2>6. RunTypeOK'
    BY <1>4, <2>5 DEF MarkRunning, RunTypeOK
  <2>7. NotStarted'
    BY <1>4, <2>2, <2>5 DEF MarkRunning, NotStarted
  <2>8. Counted' /\ EventsKept'
    BY <1>4, <2>2, <2>5 DEF MarkRunning, Counted, EventsKept, Working
  <2> QED
    BY <2>3, <2>5, <2>6, <2>7, <2>8 DEF Working, Held, RowsInOrder, AtStart
<1>5. CASE Prepare
  <2>1. RunTypeOK' /\ VerdictIsEarned'
    BY <1>5 DEF Prepare, RunTypeOK, VerdictIsEarned
  <2>2. RowsInOrder'
    BY <1>5, OneIsAJob DEF Prepare, NotStarted, RowsInOrder, Jobs
  <2>3. Counted' /\ EventsKept'
    BY <1>5 DEF Prepare, Counted, EventsKept
  <2> QED
    BY <1>5, <2>1, <2>2, <2>3 DEF Prepare, Working, Held, NotStarted, AtStart
<1> QED
  BY <1>1, <1>2, <1>3, <1>4, <1>5

(* The steps of one conversation. *)
LEMMA RunJobStep ==
  ASSUME RunInv, BeginJob \/ Publish \/ Converse \/ EndJob \/ AppendLine \/ AppendError
  PROVE  RunInv'
<1> USE DEF RunInv
<1>0. runPc \in {"begin", "talk", "save", "append"} => run \in Runs /\ ~Ended(run)
  BY DEF Working, RunTypeOK
<1>1. CASE BeginJob
  <2> DEFINE new == Upsert(run, job, "running", 0)
  <2>1. runPc = "begin" /\ run \in Runs /\ ~Ended(run) /\ job \in Jobs
    BY <1>0, <1>1 DEF BeginJob, RunTypeOK
  <2>a. /\ \A k \in Jobs : k <= job - 1 => run.rows[k] \in Finished
        /\ \A k \in Jobs : k > job => run.rows[k] = "absent"
    BY <2>1 DEF RowsInOrder
  <2>2. \A k \in Jobs : k # job => run.rows[k] # "running"
    BY <2>1, <2>a, RunAssumption DEF Jobs, Finished
  <2>3. 0 \in 0..MaxEvents
    BY RunAssumption
  <2>4. new \in Runs /\ new.rows = [run.rows EXCEPT ![job] = "running"] /\ new.status = run.status
        /\ new.events = [run.events EXCEPT ![job] = 0]
    BY <2>1, <2>2, <2>3, UpsertFields
  <2>5. ~Ended(new) /\ Earned(new)
    BY <2>1, <2>4 DEF Ended, Earned
  <2>6. SaveRun(new, "talk", "abort")
    BY <1>1 DEF BeginJob
  <2> HIDE DEF new
  <2>7. /\ run' = new /\ run' \in Runs /\ run' # Lost
        /\ saved' \in Runs \cup {Lost} /\ faults' \in BOOLEAN
        /\ VerdictIsEarned' /\ runPc' \in {"talk", "abort"}
    BY <2>4, <2>5, <2>6, SaveStep
  <2>8. RunTypeOK'
    BY <1>1, <2>7 DEF BeginJob, RunTypeOK
  <2>9. /\ \A k \in Jobs : k <= job - 1 => new.rows[k] \in Finished
        /\ \A k \in Jobs : k > job => new.rows[k] = "absent"
        /\ new.rows[job] = "running"
    <3>1. new.rows[job] = "running"
      BY <2>1, <2>4 DEF Runs
    <3>2. \A k \in Jobs : k # job => new.rows[k] = run.rows[k]
      BY <2>1, <2>4 DEF Runs
    <3>3. \A k \in Jobs : k <= job - 1 \/ k > job => k # job
      BY <2>1, RunAssumption DEF Jobs
    <3> QED
      BY <2>a, <3>1, <3>2, <3>3
  <2>10. RowsInOrder'
    BY <1>1, <2>7, <2>9 DEF BeginJob, RowsInOrder
  <2>11. EventsKept'
    <3>1. run.events = published /\ published[job] = 0
      BY <2>1, RunAssumption DEF EventsKept, Counted, Jobs, Working
    <3>2. new.events = run.events
      BY <2>1, <2>4, <3>1 DEF Runs
    <3> QED
      BY <1>1, <2>7, <3>1, <3>2 DEF BeginJob, EventsKept
  <2>12. Counted'
    BY <1>1, <2>1, <2>7, RunAssumption DEF BeginJob, Counted, Jobs
  <2> QED
    BY <2>5, <2>7, <2>8, <2>10, <2>11, <2>12 DEF Working, Held, NotStarted, AtStart
<1>2. CASE Publish
  <2> DEFINE events == [run.events EXCEPT ![job] = @ + 1]
             new == [run EXCEPT !.events = events]
  <2>1. /\ runPc = "talk" /\ run \in Runs /\ ~Ended(run) /\ job \in Jobs
        /\ run.events[job] < MaxEvents /\ run.events[job] \in 0..MaxEvents
    BY <1>0, <1>2 DEF Publish, RunTypeOK, Runs
  <2>2. events \in [Jobs -> 0..MaxEvents] /\ events[job] \in 0..MaxEvents
    BY <2>1, RunAssumption DEF Runs
  <2>3. /\ new \in Runs /\ new.rows = run.rows /\ new.status = run.status
        /\ new.events = events
    BY <2>1, <2>2 DEF Runs
  <2>4. ~Ended(new) /\ Earned(new)
    BY <2>1, <2>3 DEF Ended, Earned
  <2>5. SaveRun(new, "talk", "save") /\ result' = [status |-> "failed", events |-> new.events[job]]
    BY <1>2 DEF Publish
  <2> HIDE DEF new, events
  <2>6. /\ run' = new /\ run' \in Runs /\ run' # Lost
        /\ saved' \in Runs \cup {Lost} /\ faults' \in BOOLEAN
        /\ VerdictIsEarned' /\ runPc' \in {"talk", "save"}
    BY <2>3, <2>4, <2>5, SaveStep
  <2>7. result' \in [status : Finished, events : 0..MaxEvents]
    BY <2>2, <2>3, <2>5 DEF Finished
  <2>a. run.events = published
    BY <2>1 DEF EventsKept, Counted, Working
  <2>8. published' \in [Jobs -> 0..MaxEvents] /\ published' = events
    BY <1>2, <2>2, <2>a DEF Publish, events
  <2>9. RunTypeOK'
    BY <1>2, <2>6, <2>7, <2>8 DEF Publish, RunTypeOK
  <2>10. RowsInOrder'
    BY <1>2, <2>1, <2>3, <2>6 DEF Publish, RowsInOrder
  <2>11. EventsKept'
    BY <2>3, <2>6, <2>8 DEF EventsKept
  <2>12. \A j \in Jobs : j > job => published'[j] = 0
    BY <2>1, <2>a, <2>8, RunAssumption DEF Counted, events, Jobs, Runs
  <2>13. Counted'
    BY <1>2, <2>1, <2>5, <2>6, <2>12 DEF Publish, Counted
  <2> QED
    BY <2>4, <2>6, <2>9, <2>10, <2>11, <2>13 DEF Working, Held, NotStarted, AtStart
<1>3. CASE Converse
  <2>1. run \in Runs /\ job \in Jobs /\ runPc = "talk"
    BY <1>0, <1>3 DEF Converse, RunTypeOK
  <2>2. result' \in [status : Finished, events : 0..MaxEvents]
    BY <1>3, <2>1 DEF Converse, Runs
  <2>3. RunTypeOK' /\ VerdictIsEarned'
    BY <1>3, <2>2 DEF Converse, RunGoto, RunTypeOK, VerdictIsEarned
  <2>4. Counted' /\ EventsKept'
    BY <1>3, <2>1 DEF Converse, RunGoto, Counted, EventsKept
  <2> QED
    BY <1>3, <2>3, <2>4 DEF Converse, RunGoto, Working, Held, RowsInOrder, NotStarted, AtStart
<1>4. CASE EndJob
  <2> DEFINE new == Upsert(run, job, result.status, result.events)
  <2>1. /\ runPc = "save" /\ run \in Runs /\ ~Ended(run) /\ job \in Jobs
        /\ result.status \in Finished /\ result.events \in 0..MaxEvents
    BY <1>0, <1>4 DEF EndJob, RunTypeOK
  <2>a. /\ \A k \in Jobs : k <= job - 1 => run.rows[k] \in Finished
        /\ \A k \in Jobs : k > job => run.rows[k] = "absent"
    BY <2>1 DEF RowsInOrder
  <2>2. \A k \in Jobs : k # job => run.rows[k] # "running"
    BY <2>1, <2>a, RunAssumption DEF Jobs, Finished
  <2>b. PICK status \in {"running"} \cup Finished, n \in 0..MaxEvents :
          status = result.status /\ n = result.events
    BY <2>1
  <2>c. LET record == Upsert(run, job, status, n)
        IN  /\ record \in Runs /\ record.rows = [run.rows EXCEPT ![job] = status]
            /\ record.status = run.status /\ record.events = [run.events EXCEPT ![job] = n]
    BY <2>1, <2>2, UpsertFields
  <2>3. new \in Runs /\ new.rows = [run.rows EXCEPT ![job] = result.status] /\ new.status = run.status
        /\ new.events = [run.events EXCEPT ![job] = result.events]
    BY <2>b, <2>c
  <2>4. ~Ended(new) /\ Earned(new)
    BY <2>1, <2>3 DEF Ended, Earned
  <2>5. SaveRun(new, "append", "abort")
    BY <1>4 DEF EndJob
  <2> HIDE DEF new
  <2>6. /\ run' = new /\ run' \in Runs /\ run' # Lost
        /\ saved' \in Runs \cup {Lost} /\ faults' \in BOOLEAN
        /\ VerdictIsEarned' /\ runPc' \in {"append", "abort"}
    BY <2>3, <2>4, <2>5, SaveStep
  <2>7. RunTypeOK'
    BY <1>4, <2>6 DEF EndJob, RunTypeOK
  <2>8. /\ \A k \in Jobs : k <= job => new.rows[k] \in Finished
        /\ \A k \in Jobs : k > job => new.rows[k] = "absent"
    <3>1. new.rows[job] \in Finished
      BY <2>1, <2>3 DEF Runs
    <3>2. \A k \in Jobs : k # job => new.rows[k] = run.rows[k]
      BY <2>1, <2>3 DEF Runs
    <3>3. \A k \in Jobs : k <= job => k = job \/ k <= job - 1
      BY <2>1, RunAssumption DEF Jobs
    <3>4. \A k \in Jobs : k > job => k # job
      BY <2>1, RunAssumption DEF Jobs
    <3> QED
      BY <2>a, <3>1, <3>2, <3>3, <3>4
  <2>9. RowsInOrder'
    BY <1>4, <2>6, <2>8 DEF EndJob, RowsInOrder
  <2>10. EventsKept'
    <3>1. run.events = published /\ result.events = run.events[job]
      BY <2>1 DEF EventsKept, Counted, Working
    <3>2. new.events = run.events
      BY <2>1, <2>3, <3>1 DEF Runs
    <3> QED
      BY <1>4, <2>6, <3>1, <3>2 DEF EndJob, EventsKept
  <2>11. Counted'
    BY <1>4, <2>1, <2>6 DEF EndJob, Counted
  <2> QED
    BY <2>4, <2>6, <2>7, <2>9, <2>10, <2>11 DEF Working, Held, NotStarted, AtStart
<1>5. CASE AppendLine
  <2>1. job \in Jobs /\ result.status \in Finished /\ runPc = "append"
    BY <1>5 DEF AppendLine, RunTypeOK
  <2>2. lines' \in Seq(Jobs \X Finished)
    BY <1>5, <2>1 DEF AppendLine, RunTypeOK
  <2>3. job' \in Jobs /\ runPc' \in {"begin", "finish"}
    BY <1>5, <2>1, RunAssumption DEF AppendLine, RunGoto, Jobs
  <2>4. RunTypeOK' /\ VerdictIsEarned'
    BY <1>5, <2>2, <2>3 DEF AppendLine, RunTypeOK, VerdictIsEarned
  <2>5. RowsInOrder'
    BY <1>5, <2>1, RunAssumption DEF AppendLine, RunGoto, RowsInOrder, Jobs
  <2>6. EventsKept'
    BY <1>5 DEF AppendLine, EventsKept
  <2>7. Counted'
    BY <1>5, <2>1, RunAssumption DEF AppendLine, RunGoto, Counted, Jobs
  <2> QED
    BY <1>5, <2>3, <2>4, <2>5, <2>6, <2>7 DEF AppendLine, Working, Held, NotStarted, AtStart
<1>6. CASE AppendError
  <2>1. RunTypeOK' /\ VerdictIsEarned'
    BY <1>6 DEF AppendError, RunGoto, RunTypeOK, VerdictIsEarned
  <2>2. Counted' /\ EventsKept'
    BY <1>6 DEF AppendError, RunGoto, Counted, EventsKept
  <2> QED
    BY <1>6, <2>1, <2>2 DEF AppendError, RunGoto, Working, Held, RowsInOrder, NotStarted, AtStart
<1> QED
  BY <1>1, <1>2, <1>3, <1>4, <1>5, <1>6

(* The end of the run, and restarts. *)
LEMMA RunEndStep ==
  ASSUME RunInv, Finish \/ Abort \/ Release \/ RunCrash \/ UNCHANGED runVars
  PROVE  RunInv'
<1> USE DEF RunInv
<1>1. CASE Finish
  <2> DEFINE status == Verdict(run.rows)
             new == Close(run, status, run.error)
  <2>1. runPc = "finish" /\ run \in Runs /\ job \in Jobs
    BY <1>1 DEF Finish, Working, RunTypeOK
  <2>2. \A j \in Jobs : run.rows[j] \in Finished
    BY <2>1, RunAssumption DEF RowsInOrder, Jobs
  <2>3. status \in Finished
    BY DEF Verdict, Finished
  <2>4. new \in Runs
    <3>1. run.error \in BOOLEAN
      BY <2>1 DEF Runs
    <3> QED
      BY <2>1, <2>3, <3>1, CloseFields
  <2>5. new.rows = run.rows /\ new.status = status /\ new.events = run.events
    BY DEF Close
  <2>6. Earned(new)
    <3>1. status = "failed" => \E j \in Jobs : run.rows[j] = "failed"
      BY DEF Verdict
    <3>2. status # "failed" => \A j \in Jobs : run.rows[j] # "failed"
      BY DEF Verdict
    <3>3. status = "needs_review" => \E j \in Jobs : run.rows[j] = "needs_review"
      BY DEF Verdict
    <3>4. status = "completed" => \A j \in Jobs : run.rows[j] # "needs_review"
      BY DEF Verdict
    <3> HIDE DEF new, status
    <3>5. status = "completed" => \A j \in Jobs : run.rows[j] = "completed"
      BY <2>2, <3>2, <3>4 DEF Finished
    <3> QED
      BY <2>2, <2>5, <3>1, <3>2, <3>3, <3>5 DEF Earned
  <2>7. SaveRun(new, "release", "abort")
    BY <1>1 DEF Finish
  <2> HIDE DEF new, status
  <2>8. /\ run' = new /\ run' \in Runs /\ run' # Lost
        /\ saved' \in Runs \cup {Lost} /\ faults' \in BOOLEAN
        /\ VerdictIsEarned' /\ runPc' \in {"release", "abort"}
    BY <2>4, <2>6, <2>7, SaveStep
  <2>9. RunTypeOK'
    BY <1>1, <2>8 DEF Finish, RunTypeOK
  <2>10. Counted' /\ EventsKept'
    BY <1>1, <2>1, <2>5, <2>8 DEF Finish, Counted, EventsKept, Working
  <2> QED
    BY <2>8, <2>9, <2>10 DEF Working, Held, RowsInOrder, NotStarted, AtStart
<1>2. CASE Abort
  <2>1. run \in Runs /\ SaveRun(AsFailed(run), "release", "release")
    BY <1>2 DEF Abort, Held, Counted, RunTypeOK
  <2>2. /\ run' = AsFailed(run) /\ run' \in Runs /\ run' # Lost
        /\ saved' \in Runs \cup {Lost} /\ faults' \in BOOLEAN
        /\ VerdictIsEarned' /\ runPc' = "release"
    BY <2>1, FailedFields, SaveStep
  <2>3. RunTypeOK'
    BY <1>2, <2>2 DEF Abort, RunTypeOK
  <2>4. Counted' /\ EventsKept'
    BY <1>2, <2>2, CloseKeeps DEF Abort, Counted, EventsKept, AsFailed, Held
  <2> QED
    BY <2>2, <2>3, <2>4 DEF Working, Held, RowsInOrder, NotStarted, AtStart
<1>3. CASE Release
  <2>1. RunTypeOK' /\ VerdictIsEarned'
    BY <1>3 DEF Release, RunGoto, RunTypeOK, VerdictIsEarned
  <2>2. Counted' /\ EventsKept'
    BY <1>3 DEF Release, RunGoto, Counted, EventsKept
  <2> QED
    BY <1>3, <2>1, <2>2 DEF Release, RunGoto, Working, Held, RowsInOrder, NotStarted, AtStart
<1>4. CASE RunCrash
  <2>0. runCrashes' \in 0..MaxRunCrashes /\ runCrashes' # 0
    BY <1>4, RunAssumption DEF RunCrash, RunTypeOK
  <2>1. RunTypeOK' /\ VerdictIsEarned'
    BY <1>4, <2>0 DEF RunCrash, RunGoto, RunTypeOK, VerdictIsEarned
  <2>2. Counted' /\ EventsKept'
    BY <1>4, <2>0 DEF RunCrash, RunGoto, Counted, EventsKept
  <2> QED
    BY <1>4, <2>0, <2>1, <2>2 DEF RunCrash, RunGoto, Working, Held, RowsInOrder, NotStarted, AtStart
<1>5. CASE UNCHANGED runVars
  BY <1>5 DEF runVars, RunTypeOK, VerdictIsEarned, Working, Held, RowsInOrder, NotStarted, AtStart,
     Counted, EventsKept
<1> QED
  BY <1>1, <1>2, <1>3, <1>4, <1>5

LEMMA RunInvHolds == RunSpec => []RunInv
<1>1. RunInv /\ [RunNext]_runVars => RunInv'
  BY RunStartStep, RunJobStep, RunEndStep DEF RunNext, Task
<1> QED
  BY <1>1, RunInvInit, PTL DEF RunSpec

(* Every reachable state is well typed. *)
THEOREM RunTypeCorrect == RunSpec => []RunTypeOK
<1>1. RunInv => RunTypeOK
  BY DEF RunInv
<1> QED
  BY <1>1, RunInvHolds, PTL

(* A run that ended without an error, as served and as saved, ran all its
   conversations and is as bad as its worst one, whatever saves failed and
   wherever the process was restarted.                                      *)
THEOREM VerdictIsEarnedHolds == RunSpec => []VerdictIsEarned
<1>1. RunInv => VerdictIsEarned
  BY DEF RunInv
<1> QED
  BY <1>1, RunInvHolds, PTL

(* Until the process is restarted the run shows every live event its adapters
   published, also after the running row has been replaced by the record.   *)
THEOREM EventsKeptHolds == RunSpec => []EventsKept
<1>1. RunInv => EventsKept
  BY DEF RunInv
<1> QED
  BY <1>1, RunInvHolds, PTL
-----------------------------------------------------------------------------
(* What a reader is told.  The task's own view is not enough: a restart puts
   the saved run in the place of the served one, so both must be true; and the
   file may only then hold an outcome when the task has written all its lines. *)

Line(r, n) == [k \in 1..n |-> <<k, r.rows[k]>>]

AuditOf(r) == r # Lost /\ Ended(r) /\ ~r.error => lines = Line(r, NumJobs)

ProgressOf(r) ==
  r # Lost =>
    /\ r.completed = CountDone(r.rows)
    /\ r.active # 0 => r.rows[r.active] = "running"
    /\ Ended(r) => r.active = 0 /\ (~r.error => r.completed = NumJobs)

(* The lines written while the task is at work: one for every conversation
   before the current one, and the record about to be written.              *)
LinesTold ==
  /\ runPc \in {"start", "queued", "mark", "prepare"} => lines = <<>>
  /\ runPc \in {"begin", "talk", "save", "append"} => lines = Line(run, job - 1)
  /\ runPc = "append" => result.status = run.rows[job]
  /\ runPc = "finish" => lines = Line(run, NumJobs)

(* The file holds no outcome before the task has closed the run. *)
AtWork == runPc \in {"start", "queued", "mark", "prepare", "begin", "talk", "save", "append", "finish"}
             => saved = Lost \/ ~Ended(saved)

Told == LinesTold /\ AtWork /\ AuditOf(run) /\ AuditOf(saved) /\ ProgressOf(run) /\ ProgressOf(saved)

(* What a save does to what is told: nothing new but the run saved. *)
LEMMA SaveTells ==
  ASSUME Told, NEW new \in Runs, NEW ok, NEW failed, SaveRun(new, ok, failed),
         ProgressOf(new), AuditOf(new), lines' = lines
  PROVE  AuditOf(run)' /\ AuditOf(saved)' /\ ProgressOf(run)' /\ ProgressOf(saved)'
<1>1. run' = new /\ saved' \in {new, saved, Lost}
  BY DEF SaveRun
<1>2. AuditOf(Lost) /\ ProgressOf(Lost)
  BY DEF AuditOf, ProgressOf
<1>3. CASE saved' = new
  BY <1>1, <1>3 DEF AuditOf, ProgressOf
<1>4. CASE saved' = saved
  BY <1>1, <1>4 DEF Told, AuditOf, ProgressOf
<1>5. CASE saved' = Lost
  BY <1>1, <1>5 DEF AuditOf, ProgressOf
<1> QED
  BY <1>1, <1>3, <1>4, <1>5

(* A run that has not ended says nothing of its lines. *)
LEMMA OpenAudit == ASSUME NEW r, ~Ended(r) PROVE AuditOf(r)
  BY DEF AuditOf

LEMMA UpsertProgress ==
  ASSUME NEW r \in Runs, NEW j \in Jobs, NEW status \in {"running"} \cup Finished,
         NEW n \in 0..MaxEvents, \A k \in Jobs : k # j => r.rows[k] # "running", ~Ended(r)
  PROVE  ProgressOf(Upsert(r, j, status, n))
<1> DEFINE rows == [r.rows EXCEPT ![j] = status]
           open == {k \in Jobs : rows[k] = "running"}
           new == Upsert(r, j, status, n)
<1>1. new.rows = rows /\ new.completed = CountDone(rows) /\ new.status = r.status
      /\ new.active = IF open = {} THEN 0 ELSE Max(open)
  BY DEF Upsert
<1>2. open = {} \/ open = {j}
  BY DEF Runs
<1>3. j \in Nat
  BY RunAssumption DEF Jobs
<1>4. open # {} => new.active = j /\ rows[j] = "running"
  BY <1>1, <1>2, <1>3, MaxOfOne
<1>5. ~Ended(new)
  BY <1>1 DEF Ended
<1> HIDE DEF rows
<1> QED
  BY <1>1, <1>4, <1>5 DEF ProgressOf

LEMMA CloseProgress ==
  ASSUME NEW r \in Runs, NEW status \in Finished, NEW error \in BOOLEAN, ProgressOf(r),
         ~error => \A j \in Jobs : r.rows[j] \in Finished
  PROVE  ProgressOf(Close(r, status, error))
<1>1. r # Lost
  BY RunAssumption
<1>2. r.completed = CountDone(r.rows)
  BY <1>1 DEF ProgressOf
<1>3. ASSUME ~error PROVE r.completed = NumJobs
  <2>1. {j \in Jobs : r.rows[j] \in Finished} = Jobs
    BY <1>3
  <2>2. Cardinality(Jobs) = NumJobs
    BY RunAssumption, FS_Interval DEF Jobs
  <2> QED
    BY <1>2, <2>1, <2>2 DEF CountDone
<1> QED
  BY <1>2, <1>3 DEF Close, ProgressOf

LEMMA FailedTells ==
  ASSUME NEW r \in Runs, ProgressOf(r) PROVE ProgressOf(AsFailed(r)) /\ AuditOf(AsFailed(r))
<1>1. ProgressOf(AsFailed(r))
  BY CloseProgress DEF AsFailed, Finished
<1> QED
  BY <1>1 DEF AsFailed, Close, AuditOf

LEMMA ToldInit == RunInit => Told
  BY DEF RunInit, Told, LinesTold, AtWork, AuditOf, ProgressOf

LEMMA ToldStart ==
  ASSUME RunInv, Told, Queue \/ Bind \/ BindRefused \/ MarkRunning \/ Prepare
  PROVE  Told'
<1>1. CASE Queue
  <2>1. NewRun \in Runs /\ ~Ended(NewRun)
    BY RunAssumption DEF NewRun, Runs, Ended, Finished
  <2>2. ProgressOf(NewRun) /\ AuditOf(NewRun)
    <3>1. {j \in Jobs : NewRun.rows[j] \in Finished} = {}
      BY DEF NewRun, Finished
    <3>2. NewRun.completed = 0 /\ NewRun.active = 0
      BY DEF NewRun
    <3> QED
      BY <2>1, <3>1, <3>2, FS_EmptySet, OpenAudit DEF ProgressOf, CountDone
  <2>3. SaveRun(NewRun, "queued", "dead") /\ lines' = lines
    BY <1>1 DEF Queue
  <2>4. AuditOf(run)' /\ AuditOf(saved)' /\ ProgressOf(run)' /\ ProgressOf(saved)'
    BY <2>1, <2>2, <2>3, SaveTells
  <2>5. LinesTold' /\ AtWork'
    BY <1>1, <2>1, <2>3 DEF Queue, SaveRun, RunGoto, Told, LinesTold, AtWork
  <2> QED
    BY <2>4, <2>5 DEF Told
<1>2. CASE Bind
  BY <1>2 DEF Bind, RunGoto, Told, LinesTold, AtWork, AuditOf, ProgressOf
<1>3. CASE BindRefused
  <2>1. run \in Runs /\ SaveRun(AsFailed(run), "ended", "dead") /\ lines' = lines
    BY <1>3 DEF BindRefused, RunInv, Working, RunTypeOK
  <2>2. AuditOf(run)' /\ AuditOf(saved)' /\ ProgressOf(run)' /\ ProgressOf(saved)'
    BY <2>1, FailedFields, FailedTells, SaveTells DEF Told
  <2> QED
    BY <2>1, <2>2 DEF SaveRun, RunGoto, Told, LinesTold, AtWork
<1>4. CASE MarkRunning
  <2> DEFINE new == [run EXCEPT !.status = "running"]
  <2>1. run \in Runs /\ run # Lost /\ ~Ended(run) /\ runPc = "mark"
    BY <1>4 DEF MarkRunning, RunInv, Working, RunTypeOK
  <2>2. /\ new \in Runs /\ new.status = "running" /\ new.rows = run.rows
        /\ new.active = run.active /\ new.completed = run.completed
    BY <2>1 DEF Runs
  <2>3. SaveRun(new, "prepare", "dead") /\ lines' = lines
    BY <1>4 DEF MarkRunning
  <2> HIDE DEF new
  <2>4. ~Ended(new)
    BY <2>2 DEF Ended, Finished
  <2>5. ProgressOf(new) /\ AuditOf(new)
    BY <2>1, <2>2, <2>4, OpenAudit DEF Told, ProgressOf
  <2>6. AuditOf(run)' /\ AuditOf(saved)' /\ ProgressOf(run)' /\ ProgressOf(saved)'
    BY <2>2, <2>3, <2>5, SaveTells
  <2> QED
    BY <2>1, <2>3, <2>4, <2>6 DEF SaveRun, RunGoto, Told, LinesTold, AtWork
<1>5. CASE Prepare
  <2>1. runPc = "prepare" /\ run' = run /\ saved' = saved /\ job' = job /\ lines' = lines
        /\ runPc' \in {"begin", "dead"}
    BY <1>5 DEF Prepare
  <2>2. Line(run, job - 1) = <<>>
    BY <2>1 DEF RunInv, NotStarted, Line
  <2>3. LinesTold'
    BY <2>1, <2>2 DEF Told, LinesTold, Line
  <2> QED
    BY <2>1, <2>3 DEF Told, AtWork, AuditOf, ProgressOf
<1> QED
  BY <1>1, <1>2, <1>3, <1>4, <1>5

LEMMA ToldJob ==
  ASSUME RunInv, Told, BeginJob \/ Publish \/ Converse \/ EndJob \/ AppendLine \/ AppendError
  PROVE  Told'
<1>0. runPc \in {"begin", "talk", "save", "append"} =>
        run \in Runs /\ run # Lost /\ ~Ended(run) /\ ProgressOf(run) /\ lines = Line(run, job - 1)
  BY DEF RunInv, Working, RunTypeOK, Told, LinesTold
<1>j. job \in Jobs /\ job \in Nat /\ NumJobs \in Nat
  BY RunAssumption DEF RunInv, RunTypeOK, Jobs
<1>1. CASE BeginJob
  <2> DEFINE new == Upsert(run, job, "running", 0)
  <2>1. runPc = "begin" /\ run \in Runs /\ job \in Jobs
    BY <1>0, <1>1, <1>j DEF BeginJob
  <2>2. \A k \in Jobs : k # job => run.rows[k] # "running"
    BY <1>j, <2>1, RunAssumption DEF RunInv, RowsInOrder, Jobs, Finished
  <2>3. 0 \in 0..MaxEvents
    BY RunAssumption
  <2>4. new \in Runs /\ new.rows = [run.rows EXCEPT ![job] = "running"] /\ new.status = run.status
        /\ new.events = [run.events EXCEPT ![job] = 0]
    BY <2>1, <2>2, <2>3, UpsertFields
  <2>5. ProgressOf(new)
    BY <1>0, <1>j, <2>1, <2>2, <2>3, UpsertProgress
  <2>6. SaveRun(new, "talk", "abort") /\ lines' = lines /\ job' = job
    BY <1>1 DEF BeginJob
  <2>7. Line(new, job - 1) = Line(run, job - 1)
    <3>1. \A k \in 1..(job - 1) : k \in Jobs /\ k # job
      BY <1>j DEF Jobs
    <3>2. \A k \in 1..(job - 1) : new.rows[k] = run.rows[k]
      BY <1>0, <2>1, <2>4, <3>1 DEF Runs
    <3> HIDE DEF new
    <3> QED
      BY <3>2 DEF Line
  <2> HIDE DEF new
  <2>8. ~Ended(new)
    BY <1>0, <2>1, <2>4 DEF Ended
  <2>9. AuditOf(run)' /\ AuditOf(saved)' /\ ProgressOf(run)' /\ ProgressOf(saved)'
    BY <2>4, <2>5, <2>6, <2>8, OpenAudit, SaveTells
  <2>10. run' = new /\ saved' \in {new, saved, Lost} /\ runPc' \in {"talk", "abort"}
    BY <2>6 DEF SaveRun, RunGoto
  <2>11. LinesTold' /\ AtWork'
    BY <1>0, <2>1, <2>6, <2>7, <2>8, <2>10 DEF Told, LinesTold, AtWork
  <2> QED
    BY <2>9, <2>11 DEF Told
<1>2. CASE Publish
  <2> DEFINE events == [run.events EXCEPT ![job] = @ + 1]
             new == [run EXCEPT !.events = events]
  <2>1. /\ runPc = "talk" /\ run.events[job] < MaxEvents /\ run.events[job] \in 0..MaxEvents
    BY <1>0, <1>2, <1>j DEF Publish, Runs
  <2>2. events \in [Jobs -> 0..MaxEvents]
    BY <1>0, <1>j, <2>1, RunAssumption DEF Runs
  <2>3. /\ new \in Runs /\ new.rows = run.rows /\ new.status = run.status
        /\ new.active = run.active /\ new.completed = run.completed
    BY <1>0, <2>1, <2>2 DEF Runs
  <2>4. SaveRun(new, "talk", "save") /\ lines' = lines /\ job' = job
    BY <1>2 DEF Publish
  <2> HIDE DEF new
  <2>5. ~Ended(new)
    BY <1>0, <2>1, <2>3 DEF Ended
  <2>6. ProgressOf(new) /\ AuditOf(new)
    BY <1>0, <2>1, <2>3, <2>5, OpenAudit DEF ProgressOf
  <2>7. AuditOf(run)' /\ AuditOf(saved)' /\ ProgressOf(run)' /\ ProgressOf(saved)'
    BY <2>3, <2>4, <2>6, SaveTells
  <2>8. run' = new /\ saved' \in {new, saved, Lost} /\ runPc' \in {"talk", "save"}
    BY <2>4 DEF SaveRun, RunGoto
  <2>9. LinesTold' /\ AtWork'
    BY <1>0, <2>1, <2>3, <2>4, <2>5, <2>8 DEF Told, LinesTold, AtWork, Line
  <2> QED
    BY <2>7, <2>9 DEF Told
<1>3. CASE Converse
  BY <1>3 DEF Converse, RunGoto, Told, LinesTold, AtWork, AuditOf, ProgressOf
<1>4. CASE EndJob
  <2> DEFINE new == Upsert(run, job, result.status, result.events)
  <2>1. /\ runPc = "save" /\ run \in Runs /\ job \in Jobs
        /\ result.status \in Finished /\ result.events \in 0..MaxEvents
    BY <1>0, <1>4, <1>j DEF EndJob, RunInv, RunTypeOK
  <2>2. \A k \in Jobs : k # job => run.rows[k] # "running"
    BY <1>j, <2>1, RunAssumption DEF RunInv, RowsInOrder, Jobs, Finished
  <2>a. PICK status \in {"running"} \cup Finished, n \in 0..MaxEvents :
          status = result.status /\ n = result.events
    BY <2>1
  <2>b. LET record == Upsert(run, job, status, n)
        IN  /\ record \in Runs /\ record.rows = [run.rows EXCEPT ![job] = status]
            /\ record.status = run.status /\ record.events = [run.events EXCEPT ![job] = n]
    BY <2>1, <2>2, UpsertFields
  <2>c. ProgressOf(Upsert(run, job, status, n))
    BY <1>0, <1>j, <2>1, <2>2, UpsertProgress
  <2>4. new \in Runs /\ new.rows = [run.rows EXCEPT ![job] = result.status] /\ new.status = run.status
    BY <2>a, <2>b
  <2>5. ProgressOf(new)
    BY <2>a, <2>c
  <2>6. SaveRun(new, "append", "abort") /\ lines' = lines /\ job' = job /\ result' = result
    BY <1>4 DEF EndJob
  <2>7. Line(new, job - 1) = Line(run, job - 1)
    <3>1. \A k \in 1..(job - 1) : k \in Jobs /\ k # job
      BY <1>j DEF Jobs
    <3>2. \A k \in 1..(job - 1) : new.rows[k] = run.rows[k]
      BY <1>0, <2>1, <2>4, <3>1 DEF Runs
    <3> HIDE DEF new
    <3> QED
      BY <3>2 DEF Line
  <2>d. new.rows[job] = result.status
    BY <1>0, <1>j, <2>1, <2>4 DEF Runs
  <2> HIDE DEF new
  <2>8. ~Ended(new)
    BY <1>0, <2>1, <2>4 DEF Ended
  <2>9. AuditOf(run)' /\ AuditOf(saved)' /\ ProgressOf(run)' /\ ProgressOf(saved)'
    BY <2>4, <2>5, <2>6, <2>8, OpenAudit, SaveTells
  <2>10. run' = new /\ saved' \in {new, saved, Lost} /\ runPc' \in {"append", "abort"}
    BY <2>6 DEF SaveRun, RunGoto
  <2>11. LinesTold' /\ AtWork'
    BY <1>0, <2>1, <2>6, <2>7, <2>8, <2>10, <2>d DEF Told, LinesTold, AtWork
  <2> QED
    BY <2>9, <2>11 DEF Told
<1>5. CASE AppendLine
  <2>1. /\ runPc = "append" /\ lines' = Append(lines, <<job, result.status>>)
        /\ run' = run /\ saved' = saved /\ result' = result
        /\ \/ job < NumJobs /\ job' = job + 1 /\ runPc' = "begin"
           \/ job = NumJobs /\ job' = job /\ runPc' = "finish"
    BY <1>5, <1>j DEF AppendLine, RunGoto, Jobs
  <2>2. lines' = Line(run, job)
    <3>1. lines = Line(run, job - 1) /\ result.status = run.rows[job]
      BY <1>0, <2>1 DEF Told, LinesTold
    <3>2. job - 1 \in Nat
      BY <1>j DEF Jobs
    <3>3. Len(Line(run, job - 1)) = job - 1
      BY <3>2 DEF Line
    <3>4. lines' = [k \in 1..job |-> IF k = job THEN <<job, run.rows[job]>> ELSE <<k, run.rows[k]>>]
      BY <2>1, <3>1, <3>2, <3>3, <1>j DEF Line
    <3> QED
      BY <3>4 DEF Line
  <2>3. LinesTold'
    <3>1. runPc' = "begin" => job' - 1 = job
      BY <1>j, <2>1
    <3>2. CASE runPc' = "begin"
      BY <2>1, <2>2, <3>1, <3>2 DEF LinesTold
    <3>3. CASE runPc' = "finish"
      BY <2>1, <2>2, <3>3 DEF LinesTold
    <3> QED
      BY <2>1, <3>2, <3>3
  <2>4. AtWork' /\ ~Ended(run) /\ (saved = Lost \/ ~Ended(saved))
    BY <1>0, <2>1 DEF Told, AtWork
  <2> QED
    BY <2>1, <2>3, <2>4 DEF Told, AuditOf, ProgressOf
<1>6. CASE AppendError
  BY <1>6 DEF AppendError, RunGoto, Told, LinesTold, AtWork, AuditOf, ProgressOf
<1> QED
  BY <1>1, <1>2, <1>3, <1>4, <1>5, <1>6

LEMMA ToldEnd ==
  ASSUME RunInv, Told, Finish \/ Abort \/ Release \/ RunCrash \/ UNCHANGED runVars
  PROVE  Told'
<1>1. CASE Finish
  <2> DEFINE status == Verdict(run.rows)
             new == Close(run, status, run.error)
  <2>1. /\ runPc = "finish" /\ run \in Runs /\ run.error \in BOOLEAN /\ ProgressOf(run)
        /\ lines = Line(run, NumJobs)
    BY <1>1 DEF Finish, RunInv, Working, RunTypeOK, Told, LinesTold, Runs
  <2>2. \A j \in Jobs : run.rows[j] \in Finished
    BY <2>1, RunAssumption DEF RunInv, RowsInOrder, Jobs
  <2>3. status \in Finished
    BY DEF Verdict, Finished
  <2>4. new \in Runs /\ ProgressOf(new)
    BY <2>1, <2>2, <2>3, CloseFields, CloseProgress
  <2>5. AuditOf(new)
    BY <2>1 DEF AuditOf, Close, Line
  <2>6. SaveRun(new, "release", "abort") /\ lines' = lines
    BY <1>1 DEF Finish
  <2> HIDE DEF new, status
  <2>7. AuditOf(run)' /\ AuditOf(saved)' /\ ProgressOf(run)' /\ ProgressOf(saved)'
    BY <2>4, <2>5, <2>6, SaveTells
  <2> QED
    BY <2>6, <2>7 DEF SaveRun, RunGoto, Told, LinesTold, AtWork
<1>2. CASE Abort
  <2>1. run \in Runs /\ SaveRun(AsFailed(run), "release", "release") /\ lines' = lines /\ ProgressOf(run)
    BY <1>2 DEF Abort, RunInv, Held, Counted, RunTypeOK, Told
  <2>2. AuditOf(run)' /\ AuditOf(saved)' /\ ProgressOf(run)' /\ ProgressOf(saved)'
    BY <2>1, FailedFields, FailedTells, SaveTells
  <2> QED
    BY <2>1, <2>2 DEF SaveRun, RunGoto, Told, LinesTold, AtWork
<1>3. CASE Release
  BY <1>3 DEF Release, RunGoto, Told, LinesTold, AtWork, AuditOf, ProgressOf
<1>4. CASE RunCrash
  BY <1>4 DEF RunCrash, RunGoto, Told, LinesTold, AtWork, AuditOf, ProgressOf
<1>5. CASE UNCHANGED runVars
  BY <1>5 DEF runVars, Told, LinesTold, AtWork, AuditOf, ProgressOf
<1> QED
  BY <1>1, <1>2, <1>3, <1>4, <1>5

LEMMA ToldHolds == RunSpec => []Told
<1>1. RunInv /\ Told /\ [RunNext]_runVars => Told'
  BY ToldStart, ToldJob, ToldEnd DEF RunNext, Task
<1> QED
  BY <1>1, ToldInit, RunInvHolds, PTL DEF RunSpec

(* What a reader is told of the run is so: the count and the active
   conversation while it runs, and, once it ended without an error, one line of
   the inference set for every conversation, in order; also after a restart
   has brought the saved run back.                                          *)
THEOREM ReportIsTrueHolds == RunSpec => []ReportIsTrue
<1>1. Told => Auditable
  BY DEF Told, AuditOf, Line, Auditable, Jobs
<1>2. Told => ProgressIsTrue
  BY DEF Told, ProgressOf, CountDone, ProgressIsTrue
<1> QED
  BY <1>1, <1>2, ToldHolds, PTL DEF ReportIsTrue

(* As long as no save failed, memory and file agree, and the task cleans up
   after a failure only when one did.                                       *)
InStep == /\ ~faults => run = saved
          /\ runPc = "abort" => faults
          /\ runPc = "start" => run = Lost

LEMMA InStepHolds == RunSpec => []InStep
<1>1. RunInit => InStep
  BY DEF RunInit, InStep
<1>2. RunInv /\ InStep /\ [RunNext]_runVars => InStep'
  <2> SUFFICES ASSUME InStep, [RunNext]_runVars PROVE InStep'
    OBVIOUS
  <2>1. CASE Queue \/ BindRefused \/ MarkRunning \/ BeginJob \/ EndJob \/ Finish
    BY <2>1 DEF Queue, BindRefused, MarkRunning, BeginJob, EndJob, Finish, SaveRun, RunGoto, InStep
  <2>2. CASE Bind \/ Prepare \/ Converse \/ AppendLine \/ AppendError \/ Release \/ RunCrash
    BY <2>2 DEF Bind, Prepare, Converse, AppendLine, AppendError, Release, RunCrash, RunGoto, InStep
  <2>3. CASE Publish
    BY <2>3 DEF Publish, SaveRun, RunGoto, InStep
  <2>4. CASE Abort
    BY <2>4 DEF Abort, SaveRun, RunGoto, InStep
  <2>5. CASE UNCHANGED runVars
    BY <2>5 DEF runVars, InStep
  <2> QED
    BY <2>1, <2>2, <2>3, <2>4, <2>5 DEF RunNext, Task
<1> QED
  BY <1>1, <1>2, RunInvHolds, PTL DEF RunSpec

(* No step takes back an outcome that was shown, unless a save failed before or
   in that very step: a restart brings back the run that was served.        *)
THEOREM OutcomeSurvivesHolds == RunSpec => OutcomeSurvives
<1> DEFINE Keeps == run # Lost /\ ~faults =>
                      run' # Lost /\ (Ended(run) => run'.status = run.status \/ faults')
<1>1. ASSUME RunInv, RunInv', InStep, RunNext, run # Lost, ~faults PROVE Keeps
  <2>1. CASE RunCrash
    BY <1>1, <2>1 DEF RunCrash, InStep
  <2>2. CASE Queue \/ Abort
    BY <1>1, <2>2 DEF Queue, Abort, InStep
  <2>3. CASE Bind \/ Prepare \/ Converse \/ AppendLine \/ AppendError \/ Release
    BY <1>1, <2>3 DEF Bind, Prepare, Converse, AppendLine, AppendError, Release
  <2>4. CASE BindRefused \/ MarkRunning \/ BeginJob \/ Publish \/ EndJob \/ Finish
    <3>1. ~Ended(run) /\ run \in Runs
      BY <1>1, <2>4 DEF BindRefused, MarkRunning, BeginJob, Publish, EndJob, Finish, RunInv, Working, RunTypeOK
    <3>2. runPc' # "start" /\ runCrashes' = 0
      BY <1>1, <2>4 DEF BindRefused, MarkRunning, BeginJob, Publish, EndJob, Finish, SaveRun, RunGoto,
                        RunInv, Counted
    <3>3. run' # Lost
      BY <1>1, <3>2 DEF RunInv, Held
    <3> QED
      BY <3>1, <3>3
  <2> QED
    BY <1>1, <2>1, <2>2, <2>3, <2>4 DEF RunNext, Task
<1>2. RunInv /\ RunInv' /\ InStep /\ [RunNext]_runVars => [Keeps]_runVars
  BY <1>1
<1> HIDE DEF Keeps
<1>3. RunSpec => [][Keeps]_runVars
  BY <1>2, RunInvHolds, InStepHolds, PTL DEF RunSpec
<1> QED
  BY <1>3 DEF Keeps, OutcomeSurvives
-----------------------------------------------------------------------------
(* Suite runs: the row is never deleted, so who has read it when there was one
   has read a row; and a verdict is there from the evaluation on.           *)
RowIsThere ==
  /\ \A s \in Submissions : task[s] \in {"queued", "mark", "evaluate", "persist", "persisting",
                                         "scenarios", "except", "failing"} => row # NoSuite
  /\ \A s \in Submissions : loaded[s] # NoSuite => row # NoSuite
  /\ \A s \in Submissions : task[s] \in {"mark", "failing"} => loaded[s] # NoSuite
  /\ \A s \in Submissions : task[s] \in {"persist", "persisting"} => verdict[s] \in Outcomes

SuiteInv == SuiteTypeOK /\ RowIsThere /\ SuiteRowIsTrue

(* What the row must say of itself. *)
RowSays(r) ==
  /\ r.status = r.life
  /\ r.status \in {"completed", "needs_review"} => StatusOf[r.report] = r.status /\ ~r.error
  /\ r.status = "queued" => r.report = "none"
  /\ r.status = "failed" => r.error \/ r.report = "fail"

(* A commit writes a row; if nobody has changed what was read, it is the row
   meant.                                                                   *)
LEMMA CommitStep ==
  ASSUME SuiteInv, NEW s \in Submissions, NEW new \in Rows, Commits(s, new),
         loaded[s] # NoSuite => row # NoSuite
  PROVE  /\ row' \in Rows /\ row' # NoSuite /\ raced' \in BOOLEAN
         /\ loaded' \in [Submissions -> Rows \cup {NoSuite}]
         /\ \A t \in Submissions : loaded'[t] = IF t = s THEN NoSuite ELSE loaded[t]
         /\ ~raced' => row' = new /\ loaded[s] = row
<1>1. row' = new \/ (row # NoSuite /\ row' = [new EXCEPT !.status = row.status])
  BY DEF Commits
<1>2. row # NoSuite => row \in Rows
  BY DEF SuiteInv, SuiteTypeOK
<1>3. row' \in Rows
  BY <1>1, <1>2 DEF Rows
<1>4. row' # NoSuite
  BY <1>3, SuiteAssumption
<1>5. raced' \in BOOLEAN /\ loaded' = [loaded EXCEPT ![s] = NoSuite]
  BY DEF Commits, SuiteInv, SuiteTypeOK
<1>6. loaded \in [Submissions -> Rows \cup {NoSuite}]
  BY DEF SuiteInv, SuiteTypeOK
<1>7. ASSUME ~raced' PROVE row' = new /\ loaded[s] = row
  <2>1. loaded[s] = row
    BY <1>7 DEF Commits
  <2>2. CASE row # NoSuite /\ new.status = row.status
    <3>1. [new EXCEPT !.status = row.status] = new
      BY <2>2 DEF Rows
    <3> QED
      BY <2>1, <2>2, <3>1 DEF Commits
  <2> QED
    BY <2>1, <2>2 DEF Commits
<1> QED
  BY <1>3, <1>4, <1>5, <1>6, <1>7

LEMMA RowTrue ==
  ASSUME ~raced' => RowSays(row') PROVE SuiteRowIsTrue'
  BY DEF SuiteRowIsTrue, RowSays

LEMMA SuiteInvInit == SuiteInit => SuiteInv
<1> SUFFICES ASSUME SuiteInit PROVE SuiteInv
  OBVIOUS
<1>1. SuiteTypeOK
  <2>1. 0 \in 0..MaxSuiteCrashes
    BY SuiteAssumption
  <2> QED
    BY <2>1 DEF SuiteInit, SuiteTypeOK
<1>2. RowIsThere /\ SuiteRowIsTrue
  BY DEF SuiteInit, RowIsThere, SuiteRowIsTrue
<1> QED
  BY <1>1, <1>2 DEF SuiteInv

SuiteSteps == {"idle", "create", "queued", "mark", "evaluate", "persist", "persisting",
          "scenarios", "except", "failing", "done"}

LEMMA CommitInv ==
  ASSUME SuiteInv, NEW s \in Submissions, NEW new \in Rows, Commits(s, new),
         ~raced' /\ loaded[s] = row => RowSays(new),
         NEW step \in {"queued", "evaluate", "scenarios", "done"}, task' = [task EXCEPT ![s] = step],
         UNCHANGED <<verdict, suiteCrashes, broken>>
  PROVE  SuiteInv'
<1>1. loaded[s] # NoSuite => row # NoSuite
  BY DEF SuiteInv, RowIsThere
<1>2. /\ row' \in Rows /\ row' # NoSuite /\ raced' \in BOOLEAN
      /\ loaded' \in [Submissions -> Rows \cup {NoSuite}]
      /\ \A t \in Submissions : loaded'[t] = IF t = s THEN NoSuite ELSE loaded[t]
      /\ ~raced' => row' = new /\ loaded[s] = row
  BY <1>1, CommitStep
<1>3. /\ task' \in [Submissions -> SuiteSteps]
      /\ \A t \in Submissions : task'[t] = IF t = s THEN step ELSE task[t]
  BY DEF SuiteInv, SuiteTypeOK, SuiteSteps
<1>4. SuiteTypeOK'
  BY <1>2, <1>3 DEF SuiteInv, SuiteTypeOK, SuiteSteps
<1>5. RowIsThere'
  BY <1>2, <1>3 DEF SuiteInv, RowIsThere
<1>6. SuiteRowIsTrue'
  BY <1>2, RowTrue
<1> QED
  BY <1>4, <1>5, <1>6 DEF SuiteInv

(* The steps that commit a change of the row. *)
LEMMA SuiteCommits ==
  ASSUME SuiteInv, NEW s \in Submissions, Create(s) \/ MarkedSuiteRunning(s) \/ Persisted(s) \/ MarkedFailed(s)
  PROVE  SuiteInv'
<1>t. /\ loaded[s] # NoSuite => loaded[s] \in Rows
      /\ row # NoSuite /\ ~raced => RowSays(row)
  BY DEF SuiteInv, SuiteTypeOK, SuiteRowIsTrue, RowSays
<1>1. CASE Create(s)
  <2>1. Queued \in Rows /\ RowSays(Queued)
    BY DEF Queued, Rows, Terminals, Outcomes, RowSays
  <2> QED
    BY <1>1, <2>1, CommitInv DEF Create, Requeued, TaskTo
<1>2. CASE MarkedSuiteRunning(s)
  <2> DEFINE new == [loaded[s] EXCEPT !.status = "running", !.life = "running"]
  <2>1. loaded[s] \in Rows
    BY <1>2, <1>t DEF MarkedSuiteRunning, SuiteInv, RowIsThere
  <2>2. new \in Rows /\ RowSays(new)
    BY <2>1 DEF Rows, RowSays
  <2>3. Commits(s, new) /\ task' = [task EXCEPT ![s] = "evaluate"] /\ UNCHANGED <<verdict, suiteCrashes, broken>>
    BY <1>2 DEF MarkedSuiteRunning, TaskTo
  <2> HIDE DEF new
  <2> QED
    BY <2>2, <2>3, CommitInv
<1>3. CASE Persisted(s)
  <2> DEFINE status == StatusOf[verdict[s]]
             new == [status |-> status, life |-> status, report |-> verdict[s], error |-> FALSE]
  <2>1. verdict[s] \in Outcomes
    BY <1>3 DEF Persisted, SuiteInv, RowIsThere
  <2>2. status \in Terminals /\ (status = "failed" => verdict[s] = "fail")
    BY <2>1 DEF StatusOf, Terminals, Outcomes
  <2>3. new \in Rows
    BY <2>1, <2>2 DEF Rows
  <2>4. RowSays(new)
    BY <2>2 DEF RowSays, Terminals
  <2>5. Commits(s, new) /\ task' = [task EXCEPT ![s] = "scenarios"] /\ UNCHANGED <<verdict, suiteCrashes, broken>>
    BY <1>3 DEF Persisted, TaskTo
  <2> HIDE DEF new, status
  <2> QED
    BY <2>3, <2>4, <2>5, CommitInv
<1>4. CASE MarkedFailed(s)
  <2> DEFINE new == [loaded[s] EXCEPT !.status = "failed", !.life = "failed", !.error = TRUE]
  <2>1. loaded[s] \in Rows
    BY <1>4, <1>t DEF MarkedFailed, SuiteInv, RowIsThere
  <2>2. new \in Rows /\ RowSays(new)
    BY <2>1 DEF Rows, RowSays, Terminals
  <2>3. Commits(s, new) /\ task' = [task EXCEPT ![s] = "done"] /\ UNCHANGED <<verdict, suiteCrashes, broken>>
    BY <1>4 DEF MarkedFailed, TaskTo
  <2> HIDE DEF new
  <2> QED
    BY <2>2, <2>3, CommitInv
<1> QED
  BY <1>1, <1>2, <1>3, <1>4

(* The steps that read the row, or leave it alone. *)
LEMMA SuiteReads ==
  ASSUME SuiteInv, NEW s \in Submissions, NEW from \in SuiteSteps, NEW to \in SuiteSteps, Loads(s, from, to),
         from # "idle" => row # NoSuite, from = "idle" => to = "create",
         to \in {"persist", "persisting"} => verdict[s] \in Outcomes,
         UNCHANGED <<row, verdict, suiteCrashes, raced, broken>>
  PROVE  SuiteInv'
<1>1. /\ task' \in [Submissions -> SuiteSteps]
      /\ \A t \in Submissions : task'[t] = IF t = s THEN to ELSE task[t]
  BY DEF Loads, TaskTo, SuiteInv, SuiteTypeOK, SuiteSteps
<1>2. /\ loaded' \in [Submissions -> Rows \cup {NoSuite}]
      /\ \A t \in Submissions : loaded'[t] = IF t = s THEN row ELSE loaded[t]
  BY DEF Loads, SuiteInv, SuiteTypeOK
<1>3. SuiteTypeOK'
  BY <1>1, <1>2 DEF SuiteInv, SuiteTypeOK, SuiteSteps
<1>4. RowIsThere'
  BY <1>1, <1>2 DEF SuiteInv, RowIsThere
<1> QED
  BY <1>3, <1>4 DEF SuiteInv, SuiteRowIsTrue

LEMMA SuiteMoves ==
  ASSUME SuiteInv, NEW s \in Submissions,
         \/ Submit(s) \/ CreateFails(s) \/ MarkSuiteRunning(s) \/ Evaluate(s) \/ Persist(s)
         \/ SaveScenarios(s) \/ MarkFailed(s) \/ DatabaseFails(s)
  PROVE  SuiteInv'
<1>t. task \in [Submissions -> SuiteSteps]
  BY DEF SuiteInv, SuiteTypeOK, SuiteSteps
<1>1. CASE Submit(s)
  BY <1>1, SuiteReads DEF Submit, SuiteSteps
<1>2. CASE MarkSuiteRunning(s)
  <2>1. row # NoSuite
    BY <1>2 DEF MarkSuiteRunning, Loads, SuiteInv, RowIsThere
  <2> QED
    BY <1>2, <2>1, SuiteReads DEF MarkSuiteRunning, SuiteSteps
<1>3. CASE Persist(s)
  <2>1. row # NoSuite /\ verdict[s] \in Outcomes
    BY <1>3 DEF Persist, Loads, SuiteInv, RowIsThere
  <2> QED
    BY <1>3, <2>1, SuiteReads DEF Persist, SuiteSteps
<1>4. CASE MarkFailed(s)
  <2>1. row # NoSuite
    BY <1>4 DEF MarkFailed, Loads, SuiteInv, RowIsThere
  <2> QED
    BY <1>4, <2>1, SuiteReads DEF MarkFailed, SuiteSteps
<1>5. CASE CreateFails(s) \/ SaveScenarios(s) \/ DatabaseFails(s)
  <2>1. PICK to \in {"done", "except"} : task' = [task EXCEPT ![s] = to] /\ (to = "except" => task[s] = "scenarios")
    BY <1>5 DEF CreateFails, SaveScenarios, DatabaseFails, TaskTo
  <2>2. /\ loaded' \in [Submissions -> Rows \cup {NoSuite}]
        /\ \A t \in Submissions : loaded'[t] = loaded[t] \/ (t = s /\ loaded'[t] = NoSuite)
        /\ UNCHANGED <<row, verdict, suiteCrashes, raced>> /\ broken' \in BOOLEAN
    BY <1>5 DEF CreateFails, SaveScenarios, DatabaseFails, SuiteInv, SuiteTypeOK
  <2>3. SuiteTypeOK'
    BY <1>t, <2>1, <2>2 DEF SuiteInv, SuiteTypeOK, SuiteSteps
  <2>4. RowIsThere'
    BY <1>t, <2>1, <2>2 DEF SuiteInv, RowIsThere
  <2> QED
    BY <2>2, <2>3, <2>4 DEF SuiteInv, SuiteRowIsTrue
<1>6. CASE Evaluate(s)
  <2>1. PICK to \in {"persist", "except"} :
          /\ task' = [task EXCEPT ![s] = to] /\ task[s] = "evaluate"
          /\ to = "persist" => \E v \in Outcomes : verdict' = [verdict EXCEPT ![s] = v]
          /\ to = "except" => verdict' = verdict
    BY <1>6 DEF Evaluate, TaskTo
  <2>2. /\ verdict' \in [Submissions -> Outcomes \cup {"none"}]
        /\ \A t \in Submissions : t # s => verdict'[t] = verdict[t]
        /\ to = "persist" => verdict'[s] \in Outcomes
    BY <2>1 DEF SuiteInv, SuiteTypeOK
  <2>3. UNCHANGED <<row, loaded, suiteCrashes, raced, broken>>
    BY <1>6 DEF Evaluate
  <2>4. SuiteTypeOK'
    BY <1>t, <2>1, <2>2, <2>3 DEF SuiteInv, SuiteTypeOK, SuiteSteps
  <2>5. RowIsThere'
    BY <1>t, <2>1, <2>2, <2>3 DEF SuiteInv, RowIsThere
  <2> QED
    BY <2>3, <2>4, <2>5 DEF SuiteInv, SuiteRowIsTrue
<1> QED
  BY <1>1, <1>2, <1>3, <1>4, <1>5, <1>6

LEMMA SuiteRestarts == ASSUME SuiteInv, RestartSuites PROVE SuiteInv'
<1>1. SuiteTypeOK'
  BY SuiteAssumption DEF RestartSuites, SuiteInv, SuiteTypeOK
<1>2. RowIsThere'
  BY DEF RestartSuites, RowIsThere
<1> QED
  BY <1>1, <1>2 DEF RestartSuites, SuiteInv, SuiteRowIsTrue

LEMMA SuiteInvHolds == SuiteSpec => []SuiteInv
<1>1. SuiteInv /\ [SuiteNext]_suiteVars => SuiteInv'
  <2> SUFFICES ASSUME SuiteInv, [SuiteNext]_suiteVars PROVE SuiteInv'
    OBVIOUS
  <2>1. CASE UNCHANGED suiteVars
    BY <2>1 DEF suiteVars, SuiteInv, SuiteTypeOK, RowIsThere, SuiteRowIsTrue
  <2>2. CASE SuiteNext
    BY <2>2, SuiteCommits, SuiteMoves, SuiteRestarts DEF SuiteNext, SuiteStep
  <2> QED
    BY <2>1, <2>2
<1> QED
  BY <1>1, SuiteInvInit, PTL DEF SuiteSpec

(* The row of a suite run says one thing, through failures, restarts and any
   number of resubmissions, as long as no two of them change it at once.    *)
THEOREM SuiteRowIsTrueHolds == SuiteSpec => []SuiteRowIsTrue
<1>1. SuiteInv => SuiteRowIsTrue
  BY DEF SuiteInv
<1> QED
  BY <1>1, SuiteInvHolds, PTL
=============================================================================
