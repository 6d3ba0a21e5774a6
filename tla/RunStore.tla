------------------------------ MODULE RunStore ------------------------------
(***************************************************************************)
(* How one execution run is kept: services/execution_run_store.py in local *)
(* mode.  The run lives in the process's memory (_RUNS) and in run.json.   *)
(* Every writer changes memory and rewrites the file under _LOCK; a reader *)
(* that misses memory reads the file WITHOUT the lock and installs what it *)
(* read.  Requests are served by a thread pool, so clients interleave      *)
(* wherever the lock is not held, and inside a file write.                 *)
(*                                                                         *)
(* What a run records is a set of facts: the product project it is bound   *)
(* to, the reviews confirmed on it, the updates of its runner.             *)
(***************************************************************************)
EXTENDS Naturals

CONSTANTS Products,   \* product projects a client may bind the run to
          Reviews,    \* reviews an operator may confirm
          Updates,    \* progress the runner saves
          Clients,    \* requests being served
          MaxCrashes, \* bound on restarts of the API process
          Torn,       \* a truncated or half-written file: json.loads refuses it
          None

Facts == Products \cup Reviews \cup Updates

ASSUME StoreAssumption == /\ MaxCrashes \in Nat
                          /\ Products \cap Reviews = {} /\ Products \cap Updates = {}
                          /\ Reviews \cap Updates = {}
                          /\ None \notin Facts /\ None \notin Clients
                          /\ \A row \in SUBSET Facts : None # row /\ Torn # row

VARIABLES memory,   \* the run in _RUNS, or None when this process has not loaded it
          disk,     \* the content of run.json
          lock,     \* the client that holds _LOCK while it writes the file
          pc,       \* what each client does next
          local,    \* the fact a writer saves, or the row a reader has loaded
          acked,    \* facts some client was told are recorded
          crashes,  \* restarts so far
          failures  \* whether a file write has failed

vars == <<memory, disk, lock, pc, local, acked, crashes, failures>>

Init == /\ memory = {} /\ disk = {}     \* create_execution_run
        /\ lock = None
        /\ pc = [c \in Clients |-> "idle"]
        /\ local = [c \in Clients |-> None]
        /\ acked = {} /\ crashes = 0 /\ failures = FALSE

Goto(c, step) == pc' = [pc EXCEPT ![c] = step]

(* _get_run_unlocked, and the same lines of every writer. *)
Saved == IF memory # None THEN memory ELSE disk

-----------------------------------------------------------------------------
(* The writers: bind_execution_run_product_project, apply_judge_review,    *)
(* and the runner's updates, which differ in what they refuse.             *)

(* Mutant: a binding replaces the one recorded before. *)
RefusedNever(f, facts) == FALSE

(* The run is already bound to another product project. *)
Refused(f, facts) == f \in Products /\ \E p \in Products \cap facts : p # f

(* Nothing to write: the same binding, or a review that is already applied. *)
Recorded(f, facts) == f \in facts \cap (Products \cup Reviews)

(* Mutant: the row a process has not loaded starts out empty. *)
SaveForgetsDisk(c, f) ==
  /\ pc[c] = "idle" /\ lock = None
  /\ ~Recorded(f, IF memory = None THEN {} ELSE memory)
  /\ memory' = (IF memory = None THEN {} ELSE memory) \cup {f}
  /\ disk' = Torn
  /\ lock' = c
  /\ local' = [local EXCEPT ![c] = f]
  /\ Goto(c, "write")
  /\ UNCHANGED <<acked, crashes, failures>>

(* The fact is in memory, and write_text has truncated the file. *)
Save(c, f) ==
  /\ pc[c] = "idle" /\ lock = None
  /\ Saved # Torn /\ ~Refused(f, Saved) /\ ~Recorded(f, Saved)
  /\ memory' = Saved \cup {f}
  /\ disk' = Torn
  /\ lock' = c
  /\ local' = [local EXCEPT ![c] = f]
  /\ Goto(c, "write")
  /\ UNCHANGED <<acked, crashes, failures>>

(* The file cannot even be opened: memory has changed, the file has not. *)
SaveError(c, f) ==
  /\ pc[c] = "idle" /\ lock = None
  /\ Saved # Torn /\ ~Refused(f, Saved) /\ ~Recorded(f, Saved)
  /\ memory' = Saved \cup {f}
  /\ failures' = TRUE
  /\ Goto(c, "done")
  /\ UNCHANGED <<disk, lock, local, acked, crashes>>

(* A repeated bind or confirmation answers at once. *)
SaveAgain(c, f) ==
  /\ pc[c] = "idle" /\ lock = None
  /\ Saved # Torn /\ ~Refused(f, Saved) /\ Recorded(f, Saved)
  /\ memory' = Saved
  /\ acked' = acked \cup {f}
  /\ Goto(c, "done")
  /\ UNCHANGED <<disk, lock, local, crashes, failures>>

(* The rest of write_text, and the answer. *)
Written(c) ==
  /\ pc[c] = "write"
  /\ disk' = memory
  /\ lock' = None
  /\ acked' = acked \cup {local[c]}
  /\ Goto(c, "done")
  /\ UNCHANGED <<memory, local, crashes, failures>>

(* The disk is full: the file stays truncated, the caller gets an error. *)
WriteError(c) ==
  /\ pc[c] = "write"
  /\ lock' = None
  /\ failures' = TRUE
  /\ Goto(c, "done")
  /\ UNCHANGED <<memory, disk, local, acked, crashes>>

-----------------------------------------------------------------------------
(* The readers *)

(* get_execution_run misses memory and lets go of the lock. *)
Miss(c) == /\ pc[c] = "idle" /\ lock = None
           /\ memory = None
           /\ Goto(c, "load")
           /\ UNCHANGED <<memory, disk, lock, local, acked, crashes, failures>>

(* _load_from_disk: an unreadable file is an unknown run. *)
Load(c) == /\ pc[c] = "load"
           /\ IF disk = Torn THEN Goto(c, "done") /\ UNCHANGED local
              ELSE Goto(c, "install") /\ local' = [local EXCEPT ![c] = disk]
           /\ UNCHANGED <<memory, disk, lock, acked, crashes, failures>>

(* The lock again, and what was loaded replaces what memory holds now. *)
Install(c) == /\ pc[c] = "install" /\ lock = None
              /\ memory' = local[c]
              /\ Goto(c, "done")
              /\ UNCHANGED <<disk, lock, local, acked, crashes, failures>>

(* list_execution_runs: _hydrate_from_disk loads under the lock. *)
Hydrate(c) == /\ pc[c] = "idle" /\ lock = None
              /\ memory = None /\ disk # Torn
              /\ memory' = disk
              /\ Goto(c, "done")
              /\ UNCHANGED <<disk, lock, local, acked, crashes, failures>>

(* The API process is restarted; clients in flight are gone. *)
Crash == /\ crashes < MaxCrashes
         /\ memory' = None /\ lock' = None
         /\ pc' = [c \in Clients |-> IF pc[c] = "idle" THEN "idle" ELSE "done"]
         /\ crashes' = crashes + 1
         /\ UNCHANGED <<disk, local, acked, failures>>

Step(c) == \/ \E f \in Facts : Save(c, f) \/ SaveError(c, f) \/ SaveAgain(c, f)
           \/ Written(c) \/ WriteError(c)
           \/ Miss(c) \/ Load(c) \/ Install(c) \/ Hydrate(c)

Next == (\E c \in Clients : Step(c)) \/ Crash

Spec == Init /\ [][Next]_vars
-----------------------------------------------------------------------------
(* Types, and the one thing _LOCK is for: whoever holds it is the one client
   writing the file.                                                        *)
TypeOK ==
  /\ memory \in (SUBSET Facts) \cup {None}
  /\ disk \in (SUBSET Facts) \cup {Torn}
  /\ lock \in Clients \cup {None}
  /\ pc \in [Clients -> {"idle", "write", "load", "install", "done"}]
  /\ \A c \in Clients : lock = c <=> pc[c] = "write"
  /\ local \in [Clients -> Facts \cup (SUBSET Facts) \cup {None}]
  /\ acked \subseteq Facts
  /\ crashes \in 0..MaxCrashes
  /\ failures \in BOOLEAN

(* In the process that created the run, what a client was told is recorded
   stays recorded, and the run never has two product projects.              *)
KeptUntilRestart ==
  crashes = 0 => /\ acked \subseteq memory
                 /\ \A p, q \in acked \cap Products : p = q

(* One restart later the run still holds everything that was acknowledged
   before it, unless a write failed or was cut off, or a reader overwrote it:
   seen at the moment the restarted process first touches the run.          *)
RestartKeeps ==
  [][memory = None /\ memory' # None /\ ~failures /\ crashes <= 1
     /\ (\A c \in Clients : pc[c] # "install") => acked \subseteq memory']_vars

(* The docstring of bind_execution_run_product_project: "Never replace a
   previously recorded binding, even during concurrent review attempts."
   Asked here of runs whose file writes all succeeded.                      *)
BindingNeverReplaced == ~failures => \A p, q \in acked \cap Products : p = q
=============================================================================
