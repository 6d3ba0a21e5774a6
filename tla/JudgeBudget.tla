---------------------------- MODULE JudgeBudget ----------------------------
(***************************************************************************)
(* The daily credit budget that semantic judging and test generation       *)
(* share, and the slots that bound how many of each run at once:           *)
(* services/judge_budget.py with its callers in upstream_assert_judge.py   *)
(* and upstream_assert_generation.py, in one API process.                  *)
(*                                                                         *)
(* A request takes a slot, reads the budget (a quote, with today's date),  *)
(* reserves its credits under the ledger lock, runs the evaluator in a     *)
(* subprocess and gives the credits back when that fails.  The ledger file *)
(* carries a date; on another day it reads as zero.                        *)
(***************************************************************************)
EXTENDS Naturals, FiniteSets, FiniteSetsExt

CONSTANTS Judges, Generations, \* requests of either kind
          MaxActive,           \* slots of a kind: ASSERT_JUDGE_MAX_CONCURRENT, ...
          Limit,               \* daily limit less the credits set aside
          JudgeCost, GenerationCost,
          MaxDays,             \* bound on the days that pass
          MaxBudgetCrashes           \* bound on restarts of the API process

Requests == Judges \cup Generations

ASSUME BudgetAssumption ==
  /\ Judges \cap Generations = {} /\ IsFiniteSet(Requests)
  /\ MaxActive \in [{"judge", "generation"} -> Nat]
  /\ Limit \in Nat /\ JudgeCost \in Nat /\ GenerationCost \in Nat
  /\ MaxDays \in Nat \ {0} /\ MaxBudgetCrashes \in Nat

VARIABLES day,      \* today
          ledger,   \* llm_judge_spend.json
          active,   \* slots in use, per kind
          budgetPc,       \* what each request does next
          quote,    \* the budget each request read before it reserved
          reserved, \* the day a request's credits were reserved on, or 0
          returned, \* its credits were given back
          outcome,  \* how its evaluator ended
          budgetCrashes

budgetVars == <<day, ledger, active, budgetPc, quote, reserved, returned, outcome, budgetCrashes>>

Kind(r) == IF r \in Judges THEN "judge" ELSE "generation"
Cost(r) == IF r \in Judges THEN JudgeCost ELSE GenerationCost

NoQuote == [date |-> 0, spent |-> 0]

BudgetInit == /\ day = 1
              /\ ledger = [date |-> 1, spent |-> 0]
              /\ active = [k \in {"judge", "generation"} |-> 0]
              /\ budgetPc = [r \in Requests |-> "idle"]
              /\ quote = [r \in Requests |-> NoQuote]
              /\ reserved = [r \in Requests |-> 0]
              /\ returned = [r \in Requests |-> FALSE]
              /\ outcome = [r \in Requests |-> "none"]
              /\ budgetCrashes = 0

BudgetGoto(r, step) == budgetPc' = [budgetPc EXCEPT ![r] = step]

(* _load_judge_spend: yesterday's file counts for nothing. *)
Spent == IF ledger.date = day THEN ledger.spent ELSE 0

-----------------------------------------------------------------------------
Enter(r) ==
  /\ budgetPc[r] = "idle"
  /\ IF active[Kind(r)] < MaxActive[Kind(r)]
     THEN active' = [active EXCEPT ![Kind(r)] = @ + 1] /\ BudgetGoto(r, "quote")
     ELSE BudgetGoto(r, "done") /\ UNCHANGED active      \* busy
  /\ UNCHANGED <<day, ledger, quote, reserved, returned, outcome, budgetCrashes>>

(* _judge_spend_control, outside the ledger lock. *)
Quote(r) ==
  /\ budgetPc[r] = "quote"
  /\ quote' = [quote EXCEPT ![r] = [date |-> day, spent |-> Spent]]
  /\ BudgetGoto(r, "reserve")
  /\ UNCHANGED <<day, ledger, active, reserved, returned, outcome, budgetCrashes>>

(* Mutant: the quote is trusted, not the ledger under the lock. *)
ReserveAsQuoted(r) ==
  /\ budgetPc[r] = "reserve" /\ quote[r].spent + Cost(r) <= Limit
  /\ ledger' = [date |-> day, spent |-> Spent + Cost(r)]
  /\ reserved' = [reserved EXCEPT ![r] = day]
  /\ BudgetGoto(r, "call")
  /\ UNCHANGED <<day, active, quote, returned, outcome, budgetCrashes>>

(* _reserve_judge_credits reads the ledger again, and saves it. *)
Reserve(r) ==
  /\ budgetPc[r] = "reserve" /\ Spent + Cost(r) <= Limit
  /\ ledger' = [date |-> day, spent |-> Spent + Cost(r)]
  /\ reserved' = [reserved EXCEPT ![r] = day]
  /\ BudgetGoto(r, "call")
  /\ UNCHANGED <<day, active, quote, returned, outcome, budgetCrashes>>

(* Mutant: a request that is refused keeps its slot. *)
RefusedKeepsSlot(r) ==
  /\ budgetPc[r] = "reserve"
  /\ BudgetGoto(r, "done")
  /\ UNCHANGED <<day, ledger, active, quote, reserved, returned, outcome, budgetCrashes>>

(* The budget is exhausted, or the ledger cannot be saved: the temporary file
   never replaces it.                                                       *)
BudgetRefused(r) ==
  /\ budgetPc[r] = "reserve"
  /\ BudgetGoto(r, "leave")
  /\ UNCHANGED <<day, ledger, active, quote, reserved, returned, outcome, budgetCrashes>>

(* The subprocess returns a valid result, or fails or times out. *)
Called(r) ==
  /\ budgetPc[r] = "call"
  /\ \/ outcome' = [outcome EXCEPT ![r] = "ready"] /\ BudgetGoto(r, "leave")
     \/ outcome' = [outcome EXCEPT ![r] = "failed"] /\ BudgetGoto(r, "refund")
  /\ UNCHANGED <<day, ledger, active, quote, reserved, returned, budgetCrashes>>

(* _refund_judge_credits: not when the quote was of another day. *)
Refund(r) ==
  /\ budgetPc[r] = "refund"
  /\ IF quote[r].date = day
     THEN /\ ledger' = [date |-> day, spent |-> Max({Spent, Cost(r)}) - Cost(r)]
          /\ returned' = [returned EXCEPT ![r] = TRUE]
     ELSE UNCHANGED <<ledger, returned>>
  /\ BudgetGoto(r, "leave")
  /\ UNCHANGED <<day, active, quote, reserved, outcome, budgetCrashes>>

(* The ledger cannot be saved: the credits stay spent. *)
RefundError(r) ==
  /\ budgetPc[r] = "refund"
  /\ outcome' = [outcome EXCEPT ![r] = "unrefunded"]
  /\ BudgetGoto(r, "leave")
  /\ UNCHANGED <<day, ledger, active, quote, reserved, returned, budgetCrashes>>

Leave(r) ==
  /\ budgetPc[r] = "leave"
  /\ active' = [active EXCEPT ![Kind(r)] = @ - 1]
  /\ quote' = [quote EXCEPT ![r] = NoQuote]
  /\ BudgetGoto(r, "done")
  /\ UNCHANGED <<day, ledger, reserved, returned, outcome, budgetCrashes>>

Midnight == /\ day < MaxDays
            /\ day' = day + 1
            /\ UNCHANGED <<ledger, active, budgetPc, quote, reserved, returned, outcome, budgetCrashes>>

(* The process and its subprocesses are gone; the ledger file stays. *)
BudgetCrash == /\ budgetCrashes < MaxBudgetCrashes
               /\ budgetCrashes' = budgetCrashes + 1
               /\ active' = [k \in DOMAIN active |-> 0]
               /\ budgetPc' = [r \in Requests |-> IF budgetPc[r] = "idle" THEN "idle" ELSE "done"]
               /\ quote' = [r \in Requests |-> NoQuote]
               /\ UNCHANGED <<day, ledger, reserved, returned, outcome>>

BudgetStep(r) == \/ Enter(r) \/ Quote(r) \/ Reserve(r) \/ BudgetRefused(r) \/ Called(r)
                 \/ Refund(r) \/ RefundError(r) \/ Leave(r)

BudgetNext == (\E r \in Requests : BudgetStep(r)) \/ Midnight \/ BudgetCrash

BudgetSpec == BudgetInit /\ [][BudgetNext]_budgetVars
-----------------------------------------------------------------------------
BudgetTypeOK ==
  /\ day \in 1..MaxDays
  /\ ledger \in [date : 1..MaxDays, spent : 0..Limit]
  /\ active \in [{"judge", "generation"} -> Nat]
  /\ budgetPc \in [Requests -> {"idle", "quote", "reserve", "call", "refund", "leave", "done"}]
  /\ quote \in [Requests -> [date : 0..MaxDays, spent : 0..Limit]]
  /\ reserved \in [Requests -> 0..MaxDays]
  /\ returned \in [Requests -> BOOLEAN]
  /\ outcome \in [Requests -> {"none", "ready", "failed", "unrefunded"}]
  /\ budgetCrashes \in 0..MaxBudgetCrashes

(* Requests whose credits of day d are spent or still reserved. *)
Charged(d) == {r \in Requests : reserved[r] = d /\ ~returned[r]}

Worth(set) == JudgeCost * Cardinality(set \cap Judges)
                + GenerationCost * Cardinality(set \cap Generations)

(* The ledger of today is exactly what today's requests hold or have spent:
   no refund lowers another request's credits, whatever day it is.          *)
LedgerIsExact == Spent = Worth(Charged(day))

(* However requests, refunds, midnights and restarts interleave, no day's
   requests are charged more than the limit.                                *)
WithinLimit == \A d \in 1..MaxDays : Worth(Charged(d)) <= Limit

(* Both: the ledger is exact, and no day goes past its limit. *)
BudgetIsKept == LedgerIsExact /\ WithinLimit

(* A slot is in use exactly while a request holds it, however it ended. *)
SlotsAreHeld ==
  \A k \in {"judge", "generation"} :
    /\ active[k] = Cardinality({r \in Requests : Kind(r) = k /\ budgetPc[r] \notin {"idle", "done"}})
    /\ active[k] <= MaxActive[k]

(* docs/assert-test-generation.md:159: failures "release the request's shared
   generation/judge credit reservation".  Asked on the day they were reserved
   and of refunds that could be saved.                                      *)
FailureReleases ==
  \A r \in Requests : outcome[r] = "failed" /\ budgetPc[r] = "leave" /\ reserved[r] = day => returned[r]
=============================================================================
