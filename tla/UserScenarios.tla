--------------------------- MODULE UserScenarios ---------------------------
(***************************************************************************)
(* The scenarios a user writes: user_scenario_store.py of the API, on a    *)
(* local installation, with its file and the catalog the benchmark service *)
(* reads.                                                                  *)
(*                                                                         *)
(* The records and the file change under a lock.  The catalog is brought   *)
(* up to date after it is released, from a copy of the records, in the     *)
(* steps of sync_catalog.  The other suites of the catalog are left out.   *)
(***************************************************************************)
EXTENDS Naturals, FiniteSets

CONSTANTS ScenarioIds,
          Requests,          \* the requests at work at a time
          Unreadable,              \* a file that holds no JSON
          MaxScenarioFaults  \* bound on restarts and failing writes

ASSUME UserScenariosAssumption == MaxScenarioFaults \in Nat

VARIABLES
  records,  \* _RECORDS, by their ids
  file,     \* what user_scenarios.json holds
  suite,    \* the scenarios of the suite in _SUITES_BY_ID
  cases,    \* those in _SCENARIOS_BY_ID
  sync,     \* sync[x]: where request x is, and the ids it works with
  mixed,    \* requests were at work at a time, since one worked alone
  unsaved,  \* a write failed after the records changed, since one did not
  scenarioFaults

scenarioVars == <<records, file, suite, cases, sync, mixed, unsaved, scenarioFaults>>

AtRest == [step |-> "idle", copy |-> {}, keys |-> {}]

UserScenariosInit ==
  /\ records = {} /\ file = {} /\ suite = {} /\ cases = {}
  /\ sync = [x \in Requests |-> AtRest]
  /\ mixed = FALSE /\ unsaved = FALSE /\ scenarioFaults = 0

AtStep(x, step) == sync[x].step = step
Move(x, s) == sync' = [sync EXCEPT ![x] = s]
Quiet == \A x \in Requests : AtStep(x, "idle")
-----------------------------------------------------------------------------
(* create_user_scenario and delete_user_scenario up to the release of the lock.
   A write that fails, possibly half done, leaves the records changed and the
   catalog as it is.                                                        *)
Change(x, changed) ==
  /\ AtStep(x, "idle") /\ records' = changed
  /\ \/ /\ file' = changed /\ unsaved' = FALSE
        /\ Move(x, [AtRest EXCEPT !.step = "copy"])
        /\ mixed' = ~Quiet
        /\ UNCHANGED scenarioFaults
     \/ /\ scenarioFaults < MaxScenarioFaults /\ scenarioFaults' = scenarioFaults + 1
        /\ file' \in {file, Unreadable} /\ unsaved' = TRUE
        /\ UNCHANGED <<sync, mixed>>
  /\ UNCHANGED <<suite, cases>>

CreateScenario(x) == \E id \in ScenarioIds \ records : Change(x, records \cup {id})
DeleteScenario(x) == \E id \in records : Change(x, records \ {id})

(* sync_catalog: the records are copied under the lock, the suite is replaced, *)
CopyRecords(x) ==
  /\ AtStep(x, "copy")
  /\ Move(x, [step |-> "suite", copy |-> records, keys |-> {}])
  /\ UNCHANGED <<records, file, suite, cases, mixed, unsaved, scenarioFaults>>

PutSuite(x) ==
  /\ AtStep(x, "suite")
  /\ suite' = sync[x].copy /\ Move(x, [sync[x] EXCEPT !.step = "keys"])
  /\ UNCHANGED <<records, file, cases, mixed, unsaved, scenarioFaults>>

(* Mutant: only the keys of the copy are replaced. *)
KeysOfCopy(x) == sync[x].copy \cap cases

(* the keys are listed, *)
Keys(x) == cases

ListKeys(x) ==
  /\ AtStep(x, "keys")
  /\ Move(x, [sync[x] EXCEPT !.step = "drop", !.keys = Keys(x)])
  /\ UNCHANGED <<records, file, suite, cases, mixed, unsaved, scenarioFaults>>

(* and deleted; one that another request has deleted meanwhile is a KeyError. *)
DropKeys(x) ==
  /\ AtStep(x, "drop")
  /\ IF sync[x].keys \subseteq cases
     THEN /\ cases' = cases \ sync[x].keys
          /\ Move(x, [sync[x] EXCEPT !.step = "fill", !.keys = {}])
     ELSE /\ cases' \in {cases \ k : k \in SUBSET (sync[x].keys \cap cases)}
          /\ Move(x, AtRest)
  /\ UNCHANGED <<records, file, suite, mixed, unsaved, scenarioFaults>>

FillCases(x) ==
  /\ AtStep(x, "fill")
  /\ cases' = cases \cup sync[x].copy /\ Move(x, AtRest)
  /\ UNCHANGED <<records, file, suite, mixed, unsaved, scenarioFaults>>

(* The process restarts, also during a write; _ensure_loaded takes a torn file
   for an empty one, and the catalog is filled before requests are served.  *)
RestartScenarios ==
  /\ scenarioFaults < MaxScenarioFaults /\ scenarioFaults' = scenarioFaults + 1
  /\ file' \in {file, Unreadable}
  /\ records' = IF file' = Unreadable THEN {} ELSE file'
  /\ suite' = records' /\ cases' = records'
  /\ sync' = [x \in Requests |-> AtRest]
  /\ mixed' = FALSE /\ unsaved' = (file' = Unreadable)

UserScenariosNext ==
  \/ RestartScenarios
  \/ \E x \in Requests : \/ CreateScenario(x) \/ DeleteScenario(x) \/ CopyRecords(x) \/ PutSuite(x)
                         \/ ListKeys(x) \/ DropKeys(x) \/ FillCases(x)

UserScenariosSpec == UserScenariosInit /\ [][UserScenariosNext]_scenarioVars
-----------------------------------------------------------------------------
UserScenariosTypeOK ==
  /\ {records, suite, cases} \subseteq SUBSET ScenarioIds
  /\ file \in (SUBSET ScenarioIds) \cup {Unreadable}
  /\ sync \in [Requests -> [step : {"idle", "copy", "suite", "keys", "drop", "fill"},
                            copy : SUBSET ScenarioIds, keys : SUBSET ScenarioIds]]
  /\ {mixed, unsaved} \subseteq BOOLEAN /\ scenarioFaults \in 0..MaxScenarioFaults

(* user_scenario_store.py:112, tests/test_user_scenarios.py:82: a scenario is in
   the file and in the catalog after it is created, and in neither after it is
   deleted.  What requests that overlap, or a failing write, may leave behind
   the next one that works alone puts right.                                *)
CatalogHeals ==
  /\ ~unsaved => file = records
  /\ Quiet /\ ~mixed /\ ~unsaved => suite = records /\ cases = records
=============================================================================
