------------------------------ MODULE SuiteRun ------------------------------
(***************************************************************************)
(* Suite runs that are queued: run-async and simulate-async in             *)
(* routes/benchmarks.py, the background task that executes one, and the    *)
(* row of services/benchmark_suite_run_store.py.  The id of a suite run is *)
(* a hash of its suite and payload: who submits the same again, by a retry *)
(* or a second click, shares the row.                                      *)
(*                                                                         *)
(* Each of create, mark_running, persist and mark_failed reads the row and *)
(* commits a change of it, in a session of its own.  The ORM writes the    *)
(* columns that differ from what it has read.                              *)
(***************************************************************************)
EXTENDS Naturals

CONSTANTS Submissions,     \* of one payload
          MaxSuiteCrashes, \* bound on the restarts of the API process
          NoSuite          \* no row, nothing read

Outcomes == {"pass", "fail", "needs_review"}
StatusOf == [v \in Outcomes |-> IF v = "pass" THEN "completed" ELSE IF v = "fail" THEN "failed" ELSE v]
Terminals == {"completed", "needs_review", "failed"}

(* life: run_lifecycle.status in report_json, next to the report and an error. *)
Rows == [status : {"queued", "running"} \cup Terminals,
         life : {"queued", "running"} \cup Terminals,
         report : Outcomes \cup {"none"}, error : BOOLEAN]

ASSUME SuiteAssumption == NoSuite \notin Rows /\ MaxSuiteCrashes \in Nat

(* The statuses that last. *)
SuiteFinished(r) == r # NoSuite /\ r.status \in Terminals

VARIABLES
  row,
  task,    \* of each submission: its request, then its background task
  loaded,  \* the row it has read
  verdict, \* of the report it has made
  suiteCrashes,
  raced,   \* history: a row was written that had changed since it was read
  broken   \* history: the process died, or the database failed a task

suiteVars == <<row, task, loaded, verdict, suiteCrashes, raced, broken>>

SuiteInit ==
  /\ row = NoSuite
  /\ task = [s \in Submissions |-> "idle"]
  /\ loaded = [s \in Submissions |-> NoSuite]
  /\ verdict = [s \in Submissions |-> "none"]
  /\ suiteCrashes = 0 /\ raced = FALSE /\ broken = FALSE

TaskTo(s, step) == task' = [task EXCEPT ![s] = step]

Loads(s, from, to) ==
  /\ task[s] = from /\ TaskTo(s, to)
  /\ loaded' = [loaded EXCEPT ![s] = row]

(* report_json always changes, with its times. *)
Commits(s, new) ==
  /\ row' = IF loaded[s] # NoSuite /\ new.status = loaded[s].status
            THEN [new EXCEPT !.status = row.status] ELSE new
  /\ raced' = (raced \/ loaded[s] # row)
  /\ loaded' = [loaded EXCEPT ![s] = NoSuite]

Queued == [status |-> "queued", life |-> "queued", report |-> "none", error |-> FALSE]

-----------------------------------------------------------------------------
(* Mutant: a payload that was submitted before keeps its report. *)
RequeuedAsIs(s) == IF loaded[s] = NoSuite THEN Queued
                   ELSE [loaded[s] EXCEPT !.status = "queued"]

(* create_benchmark_suite_run_record *)
Requeued(s) == Queued

Submit(s) == Loads(s, "idle", "create") /\ UNCHANGED <<row, verdict, suiteCrashes, raced, broken>>

Create(s) ==
  /\ task[s] = "create"
  /\ loaded[s] = NoSuite => row = NoSuite
  /\ Commits(s, Requeued(s))
  /\ TaskTo(s, "queued")
  /\ UNCHANGED <<verdict, suiteCrashes, broken>>

(* Another request has inserted the row: an error, and no task. *)
CreateFails(s) ==
  /\ task[s] = "create" /\ loaded[s] = NoSuite /\ row # NoSuite
  /\ TaskTo(s, "done")
  /\ UNCHANGED <<row, loaded, verdict, suiteCrashes, raced, broken>>

(* mark_benchmark_suite_run_running, before the try *)
MarkSuiteRunning(s) == Loads(s, "queued", "mark") /\ UNCHANGED <<row, verdict, suiteCrashes, raced, broken>>

MarkedSuiteRunning(s) ==
  /\ task[s] = "mark"
  /\ Commits(s, [loaded[s] EXCEPT !.status = "running", !.life = "running"])
  /\ TaskTo(s, "evaluate")
  /\ UNCHANGED <<verdict, suiteCrashes, broken>>

(* run_suite or simulate_suite, which may raise. *)
Evaluate(s) ==
  /\ task[s] = "evaluate"
  /\ \/ \E v \in Outcomes : verdict' = [verdict EXCEPT ![s] = v] /\ TaskTo(s, "persist")
     \/ UNCHANGED verdict /\ TaskTo(s, "except")
  /\ UNCHANGED <<row, loaded, suiteCrashes, raced, broken>>

(* persist_benchmark_suite_run *)
Persist(s) == Loads(s, "persist", "persisting") /\ UNCHANGED <<row, verdict, suiteCrashes, raced, broken>>

Persisted(s) ==
  /\ task[s] = "persisting"
  /\ LET status == StatusOf[verdict[s]]
     IN  Commits(s, [status |-> status, life |-> status, report |-> verdict[s], error |-> FALSE])
  /\ TaskTo(s, "scenarios")
  /\ UNCHANGED <<verdict, suiteCrashes, broken>>

(* The runs of its scenarios are saved one by one; one may be refused. *)
SaveScenarios(s) ==
  /\ task[s] = "scenarios"
  /\ TaskTo(s, "done") \/ TaskTo(s, "except")
  /\ UNCHANGED <<row, loaded, verdict, suiteCrashes, raced, broken>>

(* Mutant: the failure is not recorded. *)
FailSilently(s) ==
  /\ task[s] = "except" /\ TaskTo(s, "done")
  /\ UNCHANGED <<row, loaded, verdict, suiteCrashes, raced, broken>>

(* mark_benchmark_suite_run_failed keeps what report there is. *)
MarkFailed(s) == Loads(s, "except", "failing") /\ UNCHANGED <<row, verdict, suiteCrashes, raced, broken>>

MarkedFailed(s) ==
  /\ task[s] = "failing"
  /\ Commits(s, [loaded[s] EXCEPT !.status = "failed", !.life = "failed", !.error = TRUE])
  /\ TaskTo(s, "done")
  /\ UNCHANGED <<verdict, suiteCrashes, broken>>

(* The database fails a commit: the session refuses what follows, and so does
   mark_benchmark_suite_run_failed in it.                                   *)
DatabaseFails(s) ==
  /\ task[s] \in {"create", "mark", "persisting", "scenarios", "failing"}
  /\ TaskTo(s, "done")
  /\ loaded' = [loaded EXCEPT ![s] = NoSuite]
  /\ broken' = (broken \/ task[s] # "create")
  /\ UNCHANGED <<row, verdict, suiteCrashes, raced>>

RestartSuites ==
  /\ suiteCrashes < MaxSuiteCrashes
  /\ suiteCrashes' = suiteCrashes + 1
  /\ task' = [s \in Submissions |-> IF task[s] = "idle" THEN "idle" ELSE "done"]
  /\ loaded' = [s \in Submissions |-> NoSuite]
  /\ broken' = TRUE
  /\ UNCHANGED <<row, verdict, raced>>

SuiteStep(s) == \/ Create(s) \/ CreateFails(s) \/ MarkSuiteRunning(s) \/ MarkedSuiteRunning(s) \/ Evaluate(s)
                \/ Persist(s) \/ Persisted(s) \/ SaveScenarios(s) \/ MarkFailed(s) \/ MarkedFailed(s)

SuiteNext == \/ \E s \in Submissions : Submit(s) \/ SuiteStep(s) \/ DatabaseFails(s)
             \/ RestartSuites

SuiteSpec == SuiteInit /\ [][SuiteNext]_suiteVars

(* A request is answered, and its background task runs to its end. *)
SuiteFairSpec == SuiteSpec /\ \A s \in Submissions : WF_suiteVars(SuiteStep(s))
-----------------------------------------------------------------------------
SuiteTypeOK ==
  /\ row \in Rows \cup {NoSuite}
  /\ task \in [Submissions -> {"idle", "create", "queued", "mark", "evaluate", "persist", "persisting",
                               "scenarios", "except", "failing", "done"}]
  /\ loaded \in [Submissions -> Rows \cup {NoSuite}]
  /\ verdict \in [Submissions -> Outcomes \cup {"none"}]
  /\ suiteCrashes \in 0..MaxSuiteCrashes /\ raced \in BOOLEAN /\ broken \in BOOLEAN

(* The row says one thing: its status is that of its life cycle, the status of a
   finished run is that of the report it holds, and a queued run holds none.
   That is so through failures, restarts and resubmissions, as long as no two of
   them change the row at the same time: nothing but luck prevents that.    *)
SuiteRowIsTrue ==
  row # NoSuite /\ ~raced =>
    /\ row.status = row.life
    /\ row.status \in {"completed", "needs_review"} => StatusOf[row.report] = row.status /\ ~row.error
    /\ row.status = "queued" => row.report = "none"
    /\ row.status = "failed" => row.error \/ row.report = "fail"

(* routes/benchmarks.py:491: "Background tasks must retain failures in run
   history".  A suite run that was accepted gets an outcome, also when the same
   payload is submitted again meanwhile and their writes race: unless the
   process dies or the database fails.                                      *)
SuiteAccepted == row # NoSuite /\ ~SuiteFinished(row)
SuiteConcluded == SuiteFinished(row) \/ broken

SuiteConcludes == SuiteAccepted ~> SuiteConcluded
=============================================================================
