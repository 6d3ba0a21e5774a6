---------------------------- MODULE MCProviders ----------------------------
(* What judges and agents need of their providers: credits of the budget, a
   session of the ChatGPT plan or of Codex, and the text of an answer; and the
   quotas of hosted users.  The modules share no state: one run checks them, part by part, one of which moves
   in each behaviour.                                                       *)
EXTENDS JudgeBudget, ChatGPTPlan, CodexAccount, ResponseStream, RateLimit, TLC

CONSTANTS j1, j2, j3, g1, a1, a2

VARIABLE part

providers == <<part, budgetVars, planVars, codexVars, streamVars, quotaVars>>

ProvidersInit ==
  /\ part \in {"budget", "plan", "codex", "stream", "quota"}
  /\ BudgetInit /\ PlanInit
  /\ CodexInit /\ (part = "codex" \/ {stored, expiring, home} = {FALSE})
  /\ StreamInit
  /\ part = "stream" \/ (order = [p \in 1..Parts |-> p] /\ wholes = {} /\ ways = [p \in 1..Parts |-> {}])
  /\ QuotaInit

ProvidersNext ==
  /\ UNCHANGED part
  /\ \/ part = "budget" /\ BudgetNext /\ UNCHANGED <<planVars, codexVars, streamVars, quotaVars>>
     \/ part = "plan" /\ PlanNext /\ UNCHANGED <<budgetVars, codexVars, streamVars, quotaVars>>
     \/ part = "codex" /\ CodexNext /\ UNCHANGED <<budgetVars, planVars, streamVars, quotaVars>>
     \/ part = "stream" /\ StreamNext /\ UNCHANGED <<budgetVars, planVars, codexVars, quotaVars>>
     \/ part = "quota" /\ QuotaNext /\ UNCHANGED <<budgetVars, planVars, codexVars, streamVars>>

ProvidersSpec == ProvidersInit /\ [][ProvidersNext]_providers

(* The type invariants of the parts. *)
ProvidersTypeOK == BudgetTypeOK /\ PlanTypeOK /\ CodexTypeOK /\ StreamTypeOK /\ QuotaTypeOK

TwoJudgesOneGeneration == [k \in {"judge", "generation"} |-> IF k = "judge" THEN 2 ELSE 1]

(* Two requests a minute and two a day, which has two minutes here. *)
TwoAndTwo == [q \in {"minute", "day"} |-> 2]
MinuteAndDay == [q \in {"minute", "day"} |-> IF q = "minute" THEN 1 ELSE 2]
MinuteThenDay == [r \in HostedRequests |-> <<"minute", "day">>]

(* The judges are the hosted requests: one permutation is of both. *)
Symmetry == Permutations(Judges) \cup Permutations(Accounts)
=============================================================================
