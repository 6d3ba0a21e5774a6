\* Three judge requests and one generation for a budget of two credits.
CONSTANTS
  j1 = j1
  j2 = j2
  j3 = j3
  g1 = g1
  Judges = {j1, j2, j3}
  Generations = {g1}
  MaxActive <- TwoJudgesOneGeneration
  Limit = 2
  JudgeCost = 1
  GenerationCost = 2
  MaxDays = 2
  MaxBudgetCrashes = 1
\* Two ChatGPT accounts, the API and a judge process.
  a1 = a1
  a2 = a2
  Accounts = {a1, a2}
  Threads = {"api"}
  JudgeProcesses = {"cli"}
  MaxGeneration = 2
  MaxTokens = 2
  NoAccount = NoAccount
\* Two threads that use the Codex session.
  Callers = {"poll", "run"}
\* An answer of two parts.
  Parts = 2
  Chunks = 2
\* Three requests of a hosted user, named like the judges.
  HostedRequests = {j1, j2, j3}
  Limits <- TwoAndTwo
  Lengths <- MinuteAndDay
  QuotasOf <- MinuteThenDay
  MaxTime = 2
SPECIFICATION ProvidersSpec
INVARIANTS
  ProvidersTypeOK BudgetIsKept SlotsAreHeld
  SignedOutStays SessionIsCurrent AttemptIsServed WholeAnswerOrNone QuotaIsExact
PROPERTY OnlyFlightsReturn
SYMMETRY Symmetry
\* Requests end.
CHECK_DEADLOCK FALSE
