---------------------------- MODULE ExecutionRun ----------------------------
(***************************************************************************)
(* The life of one execution run: services/execution_runner.py on top of   *)
(* services/execution_run_store.py, from the route that queues it to its   *)
(* verdict.  A background task runs the conversations one after another    *)
(* and saves the run at every step; any save may fail, and the process may *)
(* be restarted anywhere, in which case nobody takes the run up again.     *)
(*                                                                         *)
(* A save changes memory first and then the file (RunStore models the file *)
(* write itself), so a failed save leaves the two apart.                   *)
(***************************************************************************)
EXTENDS Naturals, Sequences, FiniteSets, FiniteSetsExt

CONSTANTS NumJobs,    \* conversations of the run: iterations times scenarios
          MaxEvents,  \* bound on live events of one conversation
          MaxRunCrashes, \* bound on restarts of the API process
          Lost        \* a run.json that no longer parses, or a run nobody has

Jobs == 1..NumJobs

VARIABLES run,       \* the run as the process serves it, or Lost
          saved,     \* the run as run.json holds it, or Lost
          runPc,        \* where the route or the background task is
          job,       \* the conversation it is at
          result,    \* the conversation record it is about to save
          lines,     \* inference_set.jsonl: <<job, status>> in order
          leased,    \* the run holds a Waylo lease
          published, \* live events the adapters have published, per job
          faults,    \* some save has failed
          runCrashes    \* restarts so far

runVars == <<run, saved, runPc, job, result, lines, leased, published, faults, runCrashes>>

Finished == {"completed", "needs_review", "failed"}
Ended(r) == r.status \in Finished

(* ExecutionRunRecord, as far as the runner writes it; 0 is no conversation. *)
Runs == [status : {"queued", "running"} \cup Finished, error : BOOLEAN,
         completed : 0..NumJobs, active : 0..NumJobs,
         rows : [Jobs -> {"absent", "running"} \cup Finished],
         events : [Jobs -> 0..MaxEvents]]

ASSUME RunAssumption == /\ NumJobs \in Nat \ {0} /\ MaxEvents \in Nat /\ MaxRunCrashes \in Nat
                        /\ Lost \notin Runs

NewRun == [status |-> "queued", error |-> FALSE, completed |-> 0, active |-> 0,
           rows |-> [j \in Jobs |-> "absent"], events |-> [j \in Jobs |-> 0]]

RunInit == /\ run = Lost /\ saved = Lost
           /\ runPc = "start" /\ job = 1
           /\ result = [status |-> "failed", events |-> 0]
           /\ lines = <<>> /\ leased = FALSE
           /\ published = [j \in Jobs |-> 0]
           /\ faults = FALSE /\ runCrashes = 0

RunGoto(step) == runPc' = step

(* Save the run and go on at ok; at failed when the save raised. *)
SaveRun(new, ok, failed) ==
  /\ run' = new
  /\ \/ saved' = new /\ RunGoto(ok) /\ UNCHANGED faults
     \/ saved' \in {saved, Lost} /\ RunGoto(failed) /\ faults' = TRUE

-----------------------------------------------------------------------------
(* The route that queues the run, and the start of the task *)

Queue == /\ runPc = "start"
         /\ SaveRun(NewRun, "queued", "dead")
         /\ UNCHANGED <<job, result, lines, leased, published, runCrashes>>

(* Nothing to bind for an ordinary target; else bind_run of the lease. *)
Bind == /\ runPc = "queued"
        /\ leased' \in BOOLEAN
        /\ RunGoto("mark")
        /\ UNCHANGED <<run, saved, job, result, lines, published, faults, runCrashes>>

(* _update_run when the run is over: no conversation is active any more. *)
Close(r, status, error) ==
  [status |-> status, error |-> error, completed |-> r.completed, active |-> 0,
   rows |-> r.rows, events |-> r.events]

(* mark_execution_run_failed, from the route or from the task. *)
AsFailed(r) == Close(r, "failed", TRUE)

(* bind_run refuses (the lease ended, or too many runs): 400, no task. *)
BindRefused == /\ runPc = "queued"
               /\ SaveRun(AsFailed(run), "ended", "dead")
               /\ UNCHANGED <<job, result, lines, leased, published, runCrashes>>

MarkRunning == /\ runPc = "mark"
               /\ SaveRun([run EXCEPT !.status = "running"], "prepare", "dead")
               /\ UNCHANGED <<job, result, lines, leased, published, runCrashes>>

(* The saved request is read and the output directory made, before the try. *)
Prepare == /\ runPc = "prepare"
           /\ runPc' \in {"begin", "dead"}
           /\ UNCHANGED <<run, saved, job, result, lines, leased, published, faults, runCrashes>>

-----------------------------------------------------------------------------
(* One conversation *)

CountDone(rows) == Cardinality({j \in Jobs : rows[j] \in Finished})

(* upsert_conversation: the row, and the progress computed from all rows. *)
Upsert(r, j, status, events) ==
  LET rows == [r.rows EXCEPT ![j] = status]
      open == {k \in Jobs : rows[k] = "running"}
  IN [status |-> r.status, error |-> r.error,
      rows |-> rows, events |-> [r.events EXCEPT ![j] = events],
      completed |-> CountDone(rows),
      active |-> IF open = {} THEN 0 ELSE Max(open)]

BeginJob == /\ runPc = "begin"
            /\ SaveRun(Upsert(run, job, "running", 0), "talk", "abort")
            /\ UNCHANGED <<job, result, lines, leased, published, runCrashes>>

(* An adapter publishes a live event.  A save that fails raises in the
   adapter, which ends the conversation as failed.                          *)
Publish ==
  /\ runPc = "talk" /\ run.events[job] < MaxEvents
  /\ published' = [published EXCEPT ![job] = @ + 1]
  /\ LET new == [run EXCEPT !.events = [run.events EXCEPT ![job] = @ + 1]]
     IN SaveRun(new, "talk", "save") /\ result' = [status |-> "failed", events |-> new.events[job]]
  /\ UNCHANGED <<job, lines, leased, runCrashes>>

(* Mutant: the record of a conversation that raised has no live events. *)
ConverseDropsEvents ==
  /\ runPc = "talk"
  /\ \E status \in Finished :
       result' = [status |-> status, events |-> IF status = "failed" THEN 0 ELSE run.events[job]]
  /\ RunGoto("save")
  /\ UNCHANGED <<run, saved, job, lines, leased, published, faults, runCrashes>>

(* The adapter returns a verdict, or raises: a failed record.  Either keeps
   the live events saved so far.                                            *)
Converse == /\ runPc = "talk"
            /\ \E status \in Finished :
                 result' = [status |-> status, events |-> run.events[job]]
            /\ RunGoto("save")
            /\ UNCHANGED <<run, saved, job, lines, leased, published, faults, runCrashes>>

EndJob == /\ runPc = "save"
          /\ SaveRun(Upsert(run, job, result.status, result.events), "append", "abort")
          /\ UNCHANGED <<job, result, lines, leased, published, runCrashes>>

(* Mutant: conversations that failed are left out of the inference set. *)
AppendUnlessFailed ==
  /\ runPc = "append"
  /\ lines' = IF result.status = "failed" THEN lines ELSE Append(lines, <<job, result.status>>)
  /\ IF job < NumJobs THEN job' = job + 1 /\ RunGoto("begin") ELSE RunGoto("finish") /\ UNCHANGED job
  /\ UNCHANGED <<run, saved, result, leased, published, faults, runCrashes>>

(* Mutant: one job too many. *)
AppendPastTheLast ==
  /\ runPc = "append"
  /\ lines' = Append(lines, <<job, result.status>>)
  /\ IF job <= NumJobs THEN job' = job + 1 /\ RunGoto("begin") ELSE RunGoto("finish") /\ UNCHANGED job
  /\ UNCHANGED <<run, saved, result, leased, published, faults, runCrashes>>

AppendLine ==
  /\ runPc = "append"
  /\ lines' = Append(lines, <<job, result.status>>)
  /\ IF job < NumJobs THEN job' = job + 1 /\ RunGoto("begin") ELSE RunGoto("finish") /\ UNCHANGED job
  /\ UNCHANGED <<run, saved, result, leased, published, faults, runCrashes>>

AppendError == /\ runPc = "append"
               /\ RunGoto("abort")
               /\ faults' = TRUE
               /\ UNCHANGED <<run, saved, job, result, lines, leased, published, runCrashes>>

-----------------------------------------------------------------------------
(* The end of the run *)

(* Mutant: one needs_review hides a failure. *)
VerdictReviewFirst(rows) ==
  IF \E j \in Jobs : rows[j] = "needs_review" THEN "needs_review"
  ELSE IF \E j \in Jobs : rows[j] = "failed" THEN "failed" ELSE "completed"

Verdict(rows) ==
  IF \E j \in Jobs : rows[j] = "failed" THEN "failed"
  ELSE IF \E j \in Jobs : rows[j] = "needs_review" THEN "needs_review" ELSE "completed"

(* Mutant: the outcome is reported but not saved. *)
FinishUnsaved ==
  /\ runPc = "finish"
  /\ run' = Close(run, Verdict(run.rows), run.error)
  /\ RunGoto("release")
  /\ UNCHANGED <<saved, job, result, lines, leased, published, faults, runCrashes>>

Finish == /\ runPc = "finish"
          /\ SaveRun(Close(run, Verdict(run.rows), run.error), "release", "abort")
          /\ UNCHANGED <<job, result, lines, leased, published, runCrashes>>

(* Mutant: without a finally clause a failed save skips the release. *)
AbortNoFinally == /\ runPc = "abort"
                  /\ SaveRun(AsFailed(run), "release", "dead")
                  /\ UNCHANGED <<job, result, lines, leased, published, runCrashes>>

Abort == /\ runPc = "abort"
         /\ SaveRun(AsFailed(run), "release", "release")
         /\ UNCHANGED <<job, result, lines, leased, published, runCrashes>>

(* The finally clause: release_run. *)
Release == /\ runPc = "release"
           /\ leased' = FALSE
           /\ RunGoto("ended")
           /\ UNCHANGED <<run, saved, job, result, lines, published, faults, runCrashes>>

(* The process is restarted: memory, leases and the task are gone. *)
RunCrash == /\ runCrashes < MaxRunCrashes
            /\ run' = saved
            /\ leased' = FALSE
            /\ RunGoto(IF runPc = "ended" THEN "ended" ELSE "dead")
            /\ runCrashes' = runCrashes + 1
            /\ UNCHANGED <<saved, job, result, lines, published, faults>>

Task == \/ Queue \/ Bind \/ BindRefused \/ MarkRunning \/ Prepare
        \/ BeginJob \/ Publish \/ Converse \/ EndJob \/ AppendLine \/ AppendError
        \/ Finish \/ Abort \/ Release

RunNext == Task \/ RunCrash

RunSpec == RunInit /\ [][RunNext]_runVars

RunFairSpec == RunSpec /\ WF_runVars(Task)
-----------------------------------------------------------------------------
RunTypeOK ==
  /\ run \in Runs \cup {Lost} /\ saved \in Runs \cup {Lost}
  /\ runPc \in {"start", "queued", "mark", "prepare", "begin", "talk", "save", "append",
                "finish", "abort", "release", "ended", "dead"}
  /\ job \in Jobs
  /\ result \in [status : Finished, events : 0..MaxEvents]
  /\ lines \in Seq(Jobs \X Finished)
  /\ published \in [Jobs -> 0..MaxEvents]
  /\ leased \in BOOLEAN /\ faults \in BOOLEAN /\ runCrashes \in 0..MaxRunCrashes

(* A run that ended without an error, as served and as saved, has run every
   conversation and is as bad as its worst one.                             *)
Earned(r) ==
  r # Lost /\ Ended(r) /\ ~r.error =>
    /\ \A j \in Jobs : r.rows[j] \in Finished
    /\ r.status = "completed" => \A j \in Jobs : r.rows[j] = "completed"
    /\ r.status = "needs_review" => /\ \A j \in Jobs : r.rows[j] # "failed"
                                    /\ \E j \in Jobs : r.rows[j] = "needs_review"
    /\ r.status = "failed" => \E j \in Jobs : r.rows[j] = "failed"
VerdictIsEarned == Earned(run) /\ Earned(saved)

(* Such a run can be audited: inference_set.jsonl has one line for every
   conversation, in order, the failed ones included.                        *)
Auditable ==
  run # Lost /\ Ended(run) /\ ~run.error =>
    lines = [j \in Jobs |-> <<j, run.rows[j]>>]

(* What the progress bar shows: the count is of conversations that are over,
   the active one is really running, and a run that ended shows none.       *)
ProgressIsTrue ==
  run # Lost =>
    /\ run.completed = Cardinality({j \in Jobs : run.rows[j] \in Finished})
    /\ run.active # 0 => run.rows[run.active] = "running"
    /\ Ended(run) => run.active = 0 /\ (~run.error => run.completed = NumJobs)

(* What a reader is told of the run is so: its progress while it runs, and the
   inference set once it has ended.                                         *)
ReportIsTrue == Auditable /\ ProgressIsTrue

(* Replacing the running row with the conversation record loses no live
   event that was published, whatever the conversation ended with.          *)
EventsKept == run # Lost /\ runCrashes = 0 => run.events = published

(* A restart does not take back an outcome that was shown, unless a save had
   failed before.                                                           *)
OutcomeSurvives ==
  [][run # Lost /\ ~faults => run' # Lost /\ (Ended(run) => run'.status = run.status \/ faults')]_runVars

(* From the first conversation on, the task reaches an outcome and gives the
   lease back, whatever fails, unless the process is restarted.             *)
RunBegun == runPc = "begin"
RunConcluded == (run # Lost /\ Ended(run) /\ ~leased) \/ runCrashes > 0

Concludes == RunBegun ~> RunConcluded
=============================================================================
