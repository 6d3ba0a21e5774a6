----------------------------- MODULE MCRecords -----------------------------
(* The record of a run in the store, the route and the task that run it, the
   monitor of its calls, the record of a suite run, the transcripts of a spoken
   session, the evaluation of what they recorded, the projects a run belongs to,
   and the designs and scenarios written for them.  But for the last three, which
   share the projects, the modules share no state: one run checks them, part by
   part, one of which moves in each behaviour.                              *)
EXTENDS RunStore, ExecutionRun, LiveAudioMonitor, SuiteRun, SpeechTurns, MCEvaluation,
        SpecVersions, UserScenarios

CONSTANTS p1, p2, v1, u1, c3, ann, ben, team

(* Two calls of one tool, two processes, two clients of the store and the requests
   about scenarios: one permutation serves four parts.                      *)
Symmetry == Permutations({x1, x2})

(* Ann founds a workspace; Ben is offered to read or to edit there.  Ann approves
   a design, and Ben two.                                                   *)
FounderOf == [p \in Places |-> ann]
OffersMade == Places \X {ben} \X {"viewer", "editor"}
UserOfAuthor == [a \in Authors |-> IF a = "ann's editor" THEN ann ELSE ben]
DraftsOf == [a \in Authors |-> IF a = "ann's editor" THEN 1 ELSE 2]

VARIABLE part

recordVars == <<part, vars, runVars, monitorVars, suiteVars, speechVars, evaluationVars,
                workspaceVars, specVars, scenarioVars>>

written == <<specVars, scenarioVars>>

OfStore(A) ==
  /\ part = "store" /\ A
  /\ UNCHANGED <<part, runVars, monitorVars, suiteVars, speechVars, evaluationVars, workspaceVars, written>>
OfRunner(A) ==
  /\ part = "runner" /\ A
  /\ UNCHANGED <<part, vars, monitorVars, suiteVars, speechVars, evaluationVars, workspaceVars, written>>
OfMonitor(A) ==
  /\ part = "monitor" /\ A
  /\ UNCHANGED <<part, vars, runVars, suiteVars, speechVars, evaluationVars, workspaceVars, written>>
OfSuite(A) ==
  /\ part = "suite" /\ A
  /\ UNCHANGED <<part, vars, runVars, monitorVars, speechVars, evaluationVars, workspaceVars, written>>
OfSpeech(A) ==
  /\ part = "speech" /\ A
  /\ UNCHANGED <<part, vars, runVars, monitorVars, suiteVars, evaluationVars, workspaceVars, written>>
OfEvaluation(A) ==
  /\ part = "evaluation" /\ A
  /\ UNCHANGED <<part, vars, runVars, monitorVars, suiteVars, speechVars, workspaceVars, written>>

recorded == <<vars, runVars, monitorVars, suiteVars, speechVars, evaluationVars>>

OfProjects(A) ==
  part = "projects" /\ A /\ UNCHANGED <<part, recorded, written>>
OfAuthoring(A) ==
  part = "authoring" /\ A /\ UNCHANGED <<part, recorded, scenarioVars>>
OfScenarios(A) ==
  part = "scenarios" /\ A /\ UNCHANGED <<part, recorded, workspaceVars, specVars>>

(* The parts that do not move keep one of their initial states. *)
RecordsInit ==
  /\ part \in {"store", "runner", "monitor", "suite", "speech", "evaluation",
               "projects", "authoring", "scenarios"}
  /\ Init /\ RunInit /\ MonitorInit /\ SuiteInit
  /\ SpeechInit /\ (part = "speech" \/ provider = "local")
  /\ EvaluationInit /\ (part = "evaluation" \/ <<design, final>> = <<Ordered, "absent">>)
  /\ WorkspacesInit /\ SpecVersionsInit /\ UserScenariosInit

RecordsNext == \/ OfStore(Next) \/ OfRunner(RunNext) \/ OfMonitor(MonitorNext)
               \/ OfSuite(SuiteNext) \/ OfSpeech(SpeechNext) \/ OfEvaluation(EvaluationNext)
               \/ OfProjects(WorkspacesNext) \/ OfAuthoring(SpecVersionsNext)
               \/ OfScenarios(UserScenariosNext)

(* The fairness of RunFairSpec, MonitorFairSpec and SuiteFairSpec, each for its
   part.                                                                    *)
RecordsSpec ==
  /\ RecordsInit /\ [][RecordsNext]_recordVars
  /\ WF_recordVars(OfRunner(Task))
  /\ WF_recordVars(OfMonitor(Sender)) /\ WF_recordVars(OfMonitor(FinishStep))
  /\ \A s \in Submissions : WF_recordVars(OfSuite(SuiteStep(s)))

(* The type invariants of the parts. *)
RecordsTypeOK == TypeOK /\ RunTypeOK /\ MonitorTypeOK /\ SuiteTypeOK /\ SpeechTypeOK
                 /\ EvaluationTypeOK
                 /\ WorkspacesTypeOK /\ SpecVersionsTypeOK /\ UserScenariosTypeOK

(* What was acknowledged is there after a restart: in the file of a run, and the
   outcome of a run that was reported.                                      *)
RestartsKeep == RestartKeeps /\ OutcomeSurvives

(* A turn that ends carries all that was found in it, and the processor that
   waits for a final transcript is woken by it.                             *)
TurnIsHeard == TurnIsWhole /\ FinalIsNoticed

(* A failure is shown by what was captured, and a review proposes no pass that
   the evidence does not support.                                           *)
EvidenceDecides == FailureIsShown /\ PassIsSupported

(* What begins ends: the route and its task bring a run to an end with its lease
   released, finishing a monitored call closes its broadcast, a submitted suite
   run is completed or failed.  Concludes, FinishCloses and SuiteConcludes, each
   of its part, in one formula.                                             *)
WorkBegun == \/ part = "runner" /\ RunBegun
             \/ part = "monitor" /\ Finishing
             \/ part = "suite" /\ SuiteAccepted

WorkConcluded == \/ part = "runner" /\ RunConcluded
                 \/ part = "monitor" /\ Closed
                 \/ part = "suite" /\ SuiteConcluded

WorkConcludes == WorkBegun ~> WorkConcluded
=============================================================================
