--------------------------- MODULE JudgeRequests ---------------------------
(***************************************************************************)
(* The table assert_judge_requests, services/assert_judge_requests.py.     *)
(* Every operation below is one committed SQL transaction; the caller's    *)
(* other transactions and every other process interleave between them.     *)
(***************************************************************************)
EXTENDS ReviewTypes

VARIABLE requests     \* requests[k] = [status, fp, output], a row of the table

NoRow == [status |-> "absent", fp |-> None, output |-> None]

RequestRows == [status : {"absent", "running", "failed", "judged", "completed"},
                fp : Fingerprints \cup {None}, output : Outputs \cup {None}]

RequestType == requests \in [Keys -> RequestRows]

RequestsInit == requests = [k \in Keys |-> NoRow]

(* Mutant: the INSERT replaces the row of a duplicate. *)
InsertOrReplace(k, fp) ==
  requests' = [requests EXCEPT ![k] = [status |-> "running", fp |-> fp, output |-> None]]

(* The primary key makes the INSERT succeed for exactly one caller. *)
Insert(k, fp) ==
  /\ requests[k] = NoRow
  /\ requests' = [requests EXCEPT ![k] = [status |-> "running", fp |-> fp, output |-> None]]

(* What claim does with the row it reads after its INSERT was refused. *)
Conflicting(k, fp) == requests[k].fp # fp
Retained(k)        == requests[k].status \in {"judged", "completed"} /\ requests[k].output # None
Retryable(k)       == requests[k].status = "failed"

(* UPDATE ... SET status='running' WHERE status='failed'. *)
Reopen(k) == /\ requests[k].status = "failed"
             /\ requests' = [requests EXCEPT ![k].status = "running"]

(* retain writes the response whatever the status was. *)
Retain(k, output, status) ==
  requests' = [requests EXCEPT ![k] = [@ EXCEPT !.status = status, !.output = output]]

(* failed: only a running row becomes retryable. *)
Fail(k) == requests' = IF requests[k].status = "running"
                       THEN [requests EXCEPT ![k].status = "failed"]
                       ELSE requests
=============================================================================
