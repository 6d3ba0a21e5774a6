----------------------------- MODULE Evaluation -----------------------------
(***************************************************************************)
(* The automatic evaluation of a conversation and what a semantic review   *)
(* may make of it: run_scenario and _execute_assert_contract of            *)
(* services/benchmark_service.py, with the checks of design_enforcement.py *)
(* and structured_checks.py, the trace of vcon_evidence.py, and _review of *)
(* upstream_assert_judge.py.                                               *)
(*                                                                         *)
(* An agent's calls are observed one event at a time, each call repeatedly *)
(* (requested, running, its result).  The conversation is evaluated as it  *)
(* was recorded; its vCon may be imported and evaluated again.  A design   *)
(* is a published one, whose case has a behavior in focus, or the          *)
(* cancellation rescue of the catalog, whose checks look at the order of   *)
(* events.                                                                 *)
(*                                                                         *)
(* Actions matched in the text decide no verdict and are left out, as are  *)
(* the scores of unpublished designs.                                      *)
(***************************************************************************)
EXTENDS Naturals, Sequences, FiniteSetsExt

CONSTANTS Calls, Tools,
          ToolOf,          \* ToolOf[c]: the tool of a call; another name is refused
          Designs,
          MaxObservations  \* bound on the events of a conversation

(* What an event says of its call.  "open" stands for requested, running, pending
   and unknown, "failed" for error, cancelled and timeout.                  *)
CallStatuses == {"open", "observed", "success", "failed"}

(* What the final state says of the value a check looks at: nothing, another
   value, the expected one.  "bookkeeping" is the state a live run records of
   itself, {complete: False, outcome: "reference_conversation_captured"}.   *)
Finals == {"absent", "silent", "incomplete", "complete", "bookkeeping"}
Transcripts == {"none", "other", "literal"} \* "literal": with the text a check looks for
Artifacts == {"transcript", "action_trace", "final_state", "final_state_or_action_trace", "vcon"}
Unsupported == "unsupported"

(* left and right: the tools an expression names. *)
Checks == [kind : {"event_any", "event_order", "conditional_event", "final_state",
                   "tool_succeeded", "transcript_contains", "not_applicable", Unsupported},
           left : SUBSET Tools, right : SUBSET Tools]

ASSUME EvaluationAssumption ==
  /\ ToolOf \in [Calls -> Tools] /\ MaxObservations \in Nat
  /\ Designs \subseteq [focus : {"required", "forbidden", "none"}, tools : SUBSET Tools,
                        checks : SUBSET Checks, evidence : SUBSET (Artifacts \cup {Unsupported}),
                        forbiddenEvents : SUBSET Tools]

VARIABLES
  design,
  transcript, final, \* what the conversation left; Reevaluate changes the latter
  captured,    \* the events, in the order of their capture
  stage,       \* "capture", "evaluated", "reevaluated" (from the vCon) or "confirmed"
  findings,    \* of the latest evaluation
  adjudicated  \* the verdict a confirmed review leaves

evaluationVars == <<design, transcript, final, captured, stage, findings, adjudicated>>

NoFindings == [verdict |-> "none", blocked |-> FALSE, violated |-> FALSE, score |-> "none"]

EvaluationInit ==
  /\ design \in Designs
  /\ \E left \in {<<"none", "absent">>, <<"other", "silent">>, <<"other", "incomplete">>,
                  <<"literal", "bookkeeping">>, <<"literal", "complete">>} :
       transcript = left[1] /\ final = left[2]
  /\ captured = <<>> /\ stage = "capture"
  /\ findings = NoFindings /\ adjudicated = "none"

-----------------------------------------------------------------------------
(* The trace.                                                              *)

Observe(c, s) ==
  /\ stage = "capture" /\ Len(captured) < MaxObservations
  /\ captured' = Append(captured, [call |-> c, status |-> s])
  /\ UNCHANGED <<design, transcript, final, stage, findings, adjudicated>>

(* A trace is a function from capture sequences to events, also when it is
   reduced.                                                                 *)
OfCall(trace, c) == {i \in DOMAIN trace : trace[i].call = c}

(* Mutant: an observation takes the place of the call's first one. *)
LatestInPlace(trace) ==
  LET firsts == {i \in DOMAIN trace : \A j \in OfCall(trace, trace[i].call) : i <= j}
  IN  [i \in firsts |-> trace[Max(OfCall(trace, trace[i].call))]]

(* latest_tool_events: of each call the last event, where it occurred. *)
Latest(trace) ==
  LET lasts == {i \in DOMAIN trace : \A j \in OfCall(trace, trace[i].call) : j <= i}
  IN  [i \in lasts |-> trace[i]]

-----------------------------------------------------------------------------
(* The checks.  An evidence e is a reduced trace, a final state, and whether
   both came in a vCon.                                                     *)

NameAt(e, i) == ToolOf[e.trace[i].call]
With(e, tools, statuses) ==
  \E i \in DOMAIN e.trace : NameAt(e, i) \in tools /\ e.trace[i].status \in statuses

(* _first_event_position; 0 if there is none. *)
FirstAt(e, tools, start) ==
  LET found == {i \in DOMAIN e.trace : i >= start /\ NameAt(e, i) \in tools}
  IN  IF found = {} THEN 0 ELSE Min(found)

(* An unsupported label is never present. *)
Present(kind, e) ==
  \/ kind = "transcript" /\ transcript # "none"
  \/ kind \in {"action_trace", "final_state_or_action_trace"} /\ DOMAIN e.trace # {}
  \/ kind \in {"final_state", "final_state_or_action_trace"} /\ e.final # "absent"
  \/ kind = "vcon" /\ e.vcon

(* _evaluate_check *)
EventsSatisfy(check, e) ==
  \/ check.kind = "event_any" /\ With(e, check.left, CallStatuses)
  \/ /\ check.kind = "event_order"
     /\ LET before == FirstAt(e, check.left, 1)  after == FirstAt(e, check.right, 1)
        IN  before # 0 /\ after # 0 /\ before < after
  \/ /\ check.kind = "conditional_event"
     /\ LET trigger == FirstAt(e, check.left, 1)
        IN  trigger # 0 => FirstAt(e, check.right, trigger + 1) # 0

(* structured_outcome: what is absent is no failure. *)
EventsContradict(check, e) ==
  /\ check.kind = "event_order" /\ ~EventsSatisfy(check, e)
  /\ FirstAt(e, check.left, 1) # 0 /\ FirstAt(e, check.right, 1) # 0

Contradicts(check, e) ==
  \/ EventsContradict(check, e)
  \/ check.kind = "final_state" /\ e.final \in {"incomplete", "bookkeeping"}
  \/ check.kind = "tool_succeeded" /\ With(e, check.left, {"failed"})
                                   /\ ~With(e, check.left, {"success"})
  \/ check.kind = "transcript_contains" /\ transcript = "other"

(* Mutant: what is not contradicted passes. *)
PassesByDefault(check, e) == ~Contradicts(check, e)

(* An unsupported check never passes. *)
Passes(check, e) ==
  \/ EventsSatisfy(check, e)
  \/ check.kind = "final_state" /\ e.final = "complete"
  \/ check.kind = "tool_succeeded" /\ With(e, check.left, {"success"})
  \/ check.kind = "transcript_contains" /\ transcript = "literal"
  \/ check.kind = "not_applicable"

(* _focused_action_evidence; behavior_results reads the trace alike. *)
FocusSeen(e) == With(e, design.tools, {"success", "observed"})

(* design_enforcement and behavior_results of evaluate_design *)
Forbidden(e) == With(e, design.forbiddenEvents, CallStatuses)
Failed(e) == Forbidden(e) \/ \E k \in design.checks : Contradicts(k, e)
Blocked(e) == \/ Forbidden(e)
              \/ \E k \in design.checks : ~Passes(k, e)
              \/ \E a \in design.evidence : ~Present(a, e)
Violated(e) == design.focus = "forbidden" /\ FocusSeen(e)

(* _execute_assert_contract: the scores of a published design. *)
Score(e) ==
  IF design.focus = "none" THEN "none"
  ELSE IF Failed(e) \/ Violated(e) THEN "zero"
  ELSE IF Blocked(e) \/ design.focus = "forbidden" THEN "none"
  ELSE IF FocusSeen(e) THEN "full" ELSE "zero"

(* Every design needs a semantic review, and passes by none of this. *)
FindingsOf(e) ==
  [verdict |-> IF Failed(e) \/ Violated(e) THEN "fail" ELSE "needs_review",
   blocked |-> Blocked(e), violated |-> Violated(e), score |-> Score(e)]

(* run_scenario *)
RunScenario ==
  /\ stage = "capture"
  /\ stage' = "evaluated"
  /\ findings' = FindingsOf([trace |-> Latest(captured), final |-> final, vcon |-> FALSE])
  /\ UNCHANGED <<design, transcript, final, captured, adjudicated>>

(* The vCon has every event but no bookkeeping (evidence_body); intake_vcon
   reduces the events, and run_scenario again.                              *)
Reevaluate ==
  /\ stage = "evaluated"
  /\ stage' = "reevaluated"
  /\ final' = IF final = "bookkeeping" THEN "absent" ELSE final
  /\ findings' = FindingsOf([trace |-> Latest(Latest(captured)), final |-> final', vcon |-> TRUE])
  /\ UNCHANGED <<design, transcript, captured, adjudicated>>

-----------------------------------------------------------------------------
(* The review.                                                             *)

(* _semantic_pass_eligible and _review; clear: no dimension or node is flagged. *)
Proposal(clear) ==
  IF findings.verdict = "fail" THEN "fail"
  ELSE IF clear /\ ~findings.blocked /\ ~findings.violated THEN "pass" ELSE "needs_review"

(* apply_judge_review refuses a pass that the checks block. *)
Confirm(clear) ==
  /\ stage = "evaluated"
  /\ Proposal(clear) = "pass" => ~findings.blocked /\ findings.verdict # "fail"
  /\ stage' = "confirmed" /\ adjudicated' = Proposal(clear)
  /\ UNCHANGED <<design, transcript, final, captured, findings>>

EvaluationNext == \/ \E c \in Calls, s \in CallStatuses : Observe(c, s)
                  \/ RunScenario \/ Reevaluate
                  \/ \E clear \in BOOLEAN : Confirm(clear)

EvaluationSpec == EvaluationInit /\ [][EvaluationNext]_evaluationVars

-----------------------------------------------------------------------------
EvaluationTypeOK ==
  /\ design \in Designs /\ transcript \in Transcripts /\ final \in Finals
  /\ captured \in Seq([call : Calls, status : CallStatuses])
  /\ stage \in {"capture", "evaluated", "reevaluated", "confirmed"}
  /\ findings \in [verdict : {"none", "fail", "needs_review"}, blocked : BOOLEAN,
                   violated : BOOLEAN, score : {"none", "zero", "full"}]
  /\ adjudicated \in {"none", "pass", "fail", "needs_review"}

(* What was captured of the calls of some tools, unreduced: how each call stood
   at last, and which came first.                                           *)
CalledOf(tools) == {c \in Calls : ToolOf[c] \in tools /\ \E i \in DOMAIN captured : captured[i].call = c}
LastOf(c) == Max({i \in DOMAIN captured : captured[i].call = c})
StoodAt(tools, s) == \E c \in CalledOf(tools) : captured[LastOf(c)].status = s
Precedes(earlier, later) ==
  \E b \in CalledOf(earlier) : \A a \in CalledOf(later) : LastOf(b) < LastOf(a)

(* The conversation shows that a check holds, or that it does not. *)
Shown(check) ==
  CASE check.kind = "event_any" -> CalledOf(check.left) # {}
    [] check.kind = "event_order" -> CalledOf(check.right) # {} /\ Precedes(check.left, check.right)
    [] check.kind = "conditional_event" ->
         CalledOf(check.left) # {} =>
           \E a \in CalledOf(check.left), b \in CalledOf(check.right) : LastOf(a) < LastOf(b)
    [] check.kind = "final_state" -> final = "complete"
    [] check.kind = "tool_succeeded" -> StoodAt(check.left, "success")
    [] check.kind = "transcript_contains" -> transcript = "literal"
    [] OTHER -> check.kind = "not_applicable"

Refuted(check) ==
  /\ ~Shown(check)
  /\ \/ check.kind = "event_order" /\ {} \notin {CalledOf(check.left), CalledOf(check.right)}
     \/ check.kind = "final_state" /\ final \in {"incomplete", "bookkeeping"}
     \/ check.kind = "tool_succeeded" /\ StoodAt(check.left, "failed")
     \/ check.kind = "transcript_contains" /\ transcript = "other"

Violation == design.focus = "forbidden" /\ (StoodAt(design.tools, "success") \/ StoodAt(design.tools, "observed"))

(* A conversation fails, with score zero, if and only if something captured
   speaks against it: a refuted check, a forbidden event, a violation of the
   behavior in focus.  How each call stood at last counts, whether the trace
   was recorded or imported; evidence that is absent fails nothing.         *)
FailureIsShown ==
  stage # "capture" =>
    /\ findings.verdict = "fail" <=> \/ \E k \in design.checks : Refuted(k)
                                     \/ CalledOf(design.forbiddenEvents) # {}
                                     \/ Violation
    /\ findings.verdict = "fail" => design.focus = "none" \/ findings.score = "zero"

(* A confirmed pass has every check of its design shown and every artifact
   supplied, no forbidden event and no violation.                           *)
PassIsSupported ==
  adjudicated = "pass" =>
    /\ \A k \in design.checks : Shown(k)
    /\ CalledOf(design.forbiddenEvents) = {} /\ ~Violation
    /\ design.evidence \subseteq
         (IF transcript = "none" THEN {} ELSE {"transcript"})
         \cup (IF captured = <<>> THEN {} ELSE {"action_trace", "final_state_or_action_trace"})
         \cup (IF final = "absent" THEN {} ELSE {"final_state", "final_state_or_action_trace"})
=============================================================================
