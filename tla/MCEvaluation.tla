---------------------------- MODULE MCEvaluation ----------------------------
(* Designs of the two kinds for TLC, over two tools. *)
EXTENDS Evaluation

CONSTANTS x1, x2, y1

ToolOfCall == [c \in Calls |-> IF c = y1 THEN "Y" ELSE "X"]

Check(kind, left, right) == [kind |-> kind, left |-> left, right |-> right]

Rescue(checks, forbiddenEvents) ==
  [focus |-> "none", tools |-> {}, checks |-> checks, forbiddenEvents |-> forbiddenEvents,
   evidence |-> {"transcript", "action_trace", "final_state"}]

Published(focus, tools, checks, evidence) ==
  [focus |-> focus, tools |-> tools, checks |-> checks, evidence |-> evidence, forbiddenEvents |-> {}]

(* One that looks at the order of events. *)
Ordered ==
  Rescue({Check("event_order", {"X"}, {"Y"}), Check("event_any", {"X", "Y"}, {}),
          Check("conditional_event", {"X"}, {"Y"})}, {})

Bench == {
  Ordered,
  Rescue({Check("final_state", {}, {}), Check("not_applicable", {}, {}),
          Check(Unsupported, {}, {})}, {"Y"}),
  Published("required", {"X"}, {Check("tool_succeeded", {"Y"}, {}), Check("transcript_contains", {}, {})},
            {"transcript", "final_state_or_action_trace"}),
  Published("forbidden", {"X"}, {Check("final_state", {}, {})}, {"final_state"}),
  Published("required", {"Y"}, {}, {"action_trace", "vcon"})}
=============================================================================
