--------------------------- MODULE ResponseStream ---------------------------
(***************************************************************************)
(* The three collectors of a Responses event stream: _parse_responses_sse  *)
(* and _http_json_post_stream of services/llm_providers/openai_codex.py,   *)
(* and collect_response of integrations/chatgpt_assert_cli.py.             *)
(*                                                                         *)
(* The provider says a text of some parts, each in some chunks.  It may    *)
(* deliver a part chunk by chunk, in one final text, or both, and all of   *)
(* them as a message or in the terminal snapshot; the parts may come out   *)
(* of their order, as in tests/test_chatgpt_plan.py:563.  A stream may be  *)
(* cut off, fail or be refused, and any line of it may be unreadable.      *)
(* What is put between the parts of a snapshot is left out.                *)
(***************************************************************************)
EXTENDS Naturals, Sequences, SequencesExt

CONSTANTS Parts, Chunks \* how many

ASSUME StreamAssumption == Parts \in Nat \ {0} /\ Chunks \in Nat \ {0}

Troubles == {"failed", "refusal", "junk"}

VARIABLES
  order,       \* the parts as they come
  ways,        \* how each of them is delivered: "delta", "done"
  wholes,      \* how all of them are: "message", "snapshot"
  said, begun, \* how many parts are finished, and how many chunks of the next one
  ending,      \* "parts", "message" (the last part is over) or "completed"
  events,      \* what has been received
  given        \* what _http_json_post_stream has yielded meanwhile

provider == <<order, ways, wholes>>
streamVars == <<provider, said, begun, ending, events, given>>

Part(p) == [c \in 1..Chunks |-> <<p, c>>]
UpTo(n) == FlattenSeq([p \in 1..n |-> Part(p)])
Whole == UpTo(Parts)

(* An event that is of no part is of part 0. *)
Event(kind, p, text) == [kind |-> kind, part |-> p, text |-> text]

(* No text is left out: each part is delivered, or all of them are, or there is none. *)
StreamInit ==
  /\ order \in Bijection(1..Parts, 1..Parts)
  /\ ways \in [1..Parts -> SUBSET {"delta", "done"}]
  /\ wholes \in SUBSET {"message", "snapshot"}
  /\ wholes # {} \/ {} \notin {ways[p] : p \in 1..Parts} \/ {{}} = {ways[p] : p \in 1..Parts}
  /\ said = 0 /\ begun = 0 /\ ending = "parts"
  /\ events = <<>> /\ given = <<>>

(* A line arrives, perhaps unreadable: its text is lost then. *)
Receive(kind, p, text) ==
  \E k \in {kind, "junk"} : events' = Append(events, Event(k, p, text))

Deliver(delivered, kind, p, text) ==
  IF delivered THEN Receive(kind, p, text) ELSE UNCHANGED events

(* The stream has raised an error in _http_json_post_stream. *)
Broken == \E i \in DOMAIN events : events[i].kind \in Troubles

SayChunk ==
  /\ said < Parts /\ begun < Chunks
  /\ LET p == order[said + 1]
         chunk == <<<<p, begun + 1>>>>
     IN  /\ Deliver("delta" \in ways[p], "delta", p, chunk)
         /\ given' = IF "delta" \in ways[p] /\ ~Broken' THEN given \o chunk ELSE given
  /\ begun' = begun + 1
  /\ UNCHANGED <<provider, said, ending>>

FinishPart ==
  /\ said < Parts /\ begun = Chunks
  /\ LET p == order[said + 1] IN Deliver("done" \in ways[p], "done", p, Part(p))
  /\ said' = said + 1 /\ begun' = 0
  /\ UNCHANGED <<provider, ending, given>>

FinishMessage ==
  /\ said = Parts /\ ending = "parts"
  /\ Deliver("message" \in wholes, "message", 0, Whole)
  /\ ending' = "message"
  /\ UNCHANGED <<provider, said, begun, given>>

Complete ==
  /\ ending = "message"
  /\ Receive("completed", 0, IF "snapshot" \in wholes THEN Whole ELSE <<>>)
  /\ ending' = "completed"
  /\ UNCHANGED <<provider, said, begun, given>>

(* Once, at any time, the stream fails, is refused, or has a line that is no JSON. *)
DisturbStream ==
  /\ \A i \in DOMAIN events : events[i].kind \in Troubles => events[i].text # <<>>
  /\ \E trouble \in Troubles : events' = Append(events, Event(trouble, 0, <<>>))
  /\ UNCHANGED <<provider, said, begun, ending, given>>

StreamNext == SayChunk \/ FinishPart \/ FinishMessage \/ Complete \/ DisturbStream

StreamSpec == StreamInit /\ [][StreamNext]_streamVars
-----------------------------------------------------------------------------
(* Also of an answer without text, which each caller turns into an error. *)
NoAnswer == <<>>

Has(kind) == \E i \in DOMAIN events : events[i].kind = kind

(* The text of all events of a kind and of some parts, in the order of their arrival. *)
AnyPart == 0..Parts
TextOf(kind, parts) ==
  FlattenSeq([i \in DOMAIN events |->
                IF events[i].kind = kind /\ events[i].part \in parts THEN events[i].text ELSE <<>>])

(* The first of some texts that is not empty. *)
FirstOf(a, b, c) == IF a # <<>> THEN a ELSE IF b # <<>> THEN b ELSE c

(* Mutant: what has arrived is an answer, also of a stream that was cut off. *)
UsableWithoutEnd == ~Has("failed") /\ ~Has("refusal")

(* _validate_responses_stream_event over all events, and the check at the end *)
Usable == Has("completed") /\ ~Has("failed") /\ ~Has("refusal")

(* _parse_responses_sse prefers final texts, and skips what it cannot read. *)
Buffered ==
  IF Usable THEN FirstOf(TextOf("done", AnyPart), TextOf("delta", AnyPart), TextOf("completed", AnyPart))
  ELSE NoAnswer

(* _http_json_post_stream has yielded the deltas by then. *)
Streamed ==
  IF Usable /\ ~Has("junk")
  THEN FirstOf(given, TextOf("done", AnyPart), TextOf("completed", AnyPart))
  ELSE NoAnswer

(* Mutant: a final text is joined to the deltas of its part. *)
JoinedText(p) == TextOf("delta", {p}) \o TextOf("done", {p})

(* collect_response: the last final text of a part replaces its deltas. *)
PartText(p) ==
  LET finals == {i \in DOMAIN events : events[i].kind = "done" /\ events[i].part = p}
  IN  IF finals = {} THEN TextOf("delta", {p}) ELSE events[Max(finals)].text

Merged == FlattenSeq([p \in 1..Parts |-> PartText(p)])

(* It prefers the snapshot, and then the messages. *)
CollectedText == FirstOf(TextOf("completed", AnyPart), TextOf("message", AnyPart), Merged)

(* Mutant: what cannot be read is skipped. *)
CollectReadable == IF Usable THEN CollectedText ELSE NoAnswer

Collected == IF Usable /\ ~Has("junk") THEN CollectedText ELSE NoAnswer
-----------------------------------------------------------------------------
StreamTypeOK ==
  /\ order \in Bijection(1..Parts, 1..Parts)
  /\ ways \in [1..Parts -> SUBSET {"delta", "done"}] /\ wholes \subseteq {"message", "snapshot"}
  /\ said \in 0..Parts /\ begun \in 0..Chunks
  /\ ending \in {"parts", "message", "completed"}
  /\ events \in Seq([kind : {"delta", "done", "message", "completed"} \cup Troubles,
                     part : AnyPart, text : Seq(Nat \X Nat)])
  /\ given \in Seq(Nat \X Nat)

(* The parts come in their order, and all in the same ways. *)
Plain == /\ \A k \in 1..Parts : order[k] = k
         /\ \A p \in 1..Parts : ways[p] = ways[1]

(* Every line that had a text could be read. *)
Lossless == \A i \in DOMAIN events : events[i].kind = "junk" => events[i].text = <<>>

(* The docstring at chatgpt_assert_cli.py:89: "Never return partial text on a
   failed/incomplete/interrupted stream".  collect_response answers with the whole
   text, each part once and in its place, or not at all: in whichever ways and order
   the parts come, wherever the stream breaks, and whichever line cannot be read.
   The other two do so for parts that come in their order and all in the same ways,
   _parse_responses_sse, which skips what it cannot read, only if no text was in it;
   and what _http_json_post_stream has yielded is then a beginning of the text.
   All three only answer once a stream has ended well.                      *)
WholeAnswerOrNone ==
  /\ Collected \in {NoAnswer, Whole}
  /\ Plain => /\ Streamed \in {NoAnswer, Whole}
              /\ given = SubSeq(Whole, 1, Len(given))
              /\ Lossless => Buffered \in {NoAnswer, Whole}
  /\ {Buffered, Streamed, Collected} # {NoAnswer} =>
       /\ ending = "completed"
       /\ \A i \in DOMAIN events : events[i].kind \notin {"failed", "refusal"}
=============================================================================
