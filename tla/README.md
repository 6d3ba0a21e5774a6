# Verification of VoiceAI QA (ConversationAgentEvals)

This directory holds TLA+ models of the server side of VoiceAI QA, the TLC
configurations that check them on small instances, and theorems about them that
the TLAPS proof system checks for every instance. Every definition is translated
from the code; paths below are relative to `src/`, and `S/` stands for
`apps/api/app/services/`, `R/` for `apps/api/app/routes/`.
`PROJECT.json` maps each definition to the lines it models and lists runs,
mutants, hazards, findings and theorems.

1. [The system](#1-the-system)
2. [Inventory](#2-inventory)
3. [Modules and the code](#3-modules-and-the-code)
4. [What the runs check](#4-what-the-runs-check)
5. [What is proved](#5-what-is-proved)
6. [Findings and observations](#6-findings-and-observations)
7. [Limits](#7-limits)
8. [Plan](#8-plan)
9. [How to run it](#9-how-to-run-it)

## 1. The system

An operator starts an *execution run*: the API talks to a conversational agent
through an adapter, keeps transcript and evidence of every *conversation*,
grades each one with deterministic rules and saves the run. A paid *semantic
judge* (the upstream ASSERT evaluator) can read a finished conversation and
propose a verdict; the proposal is a *pending review* until an operator confirms
it, which may change the status of the run. Conversations captured from the
hosted Waylo agent can later be *refreshed*, which replaces their evidence. While
a run talks, browsers may listen to it live.

```
 browser ──► routes (FastAPI thread pool / event loop)
   │            │ queue run            │ judge, apply, refresh
   │            ▼                      ▼
   │       execution_runner ──► execution_run_store ◄── assert_judge ──► evaluator process
   │            │ adapter          (_RUNS + run.json)      │    │            ▲
   │            ▼                                          │    └─ budget ───┘
   │       Waylo / Pipecat / ... ◄── waylo_connection      └─ assert_judge_requests (SQL)
   │            │                     (grants in memory)
   └── WebRTC ─ pipecat server (listener bus)
```

Three processes matter: the API process (a thread pool and one event loop), the
media process `apps/pipecat/server.py` (one event loop), and evaluator
subprocesses. Memory is lost when the API restarts; `run.json`, the SQL tables
and the budget file are not. Nothing resumes interrupted work.

## 2. Inventory

*Hard* names the behaviour that tests hardly reach; *correct when* what the
properties should say. The last column is where it is modelled, or why not.

| component | state | operations | hard | correct when | model |
|---|---|---|---|---|---|
| semantic review pipeline: `R/assert_judge.py`, `S/assert_judge_requests.py`, `S/assert_review_status.py`, review half of `S/execution_run_store.py` | table `assert_judge_requests`; `judge_reviews`, `adjudication_result`, run status; audit events | judge, repeat, retry; record, apply; refresh evidence; select a contract; change the grader | several requests and processes around one paid call; evidence that changes meanwhile; four transactions after the call | nobody pays twice; a review describes the evidence it is filed for; confirmed history survives; pass is earned | `JudgeReview` and what it extends |
| run store: `S/execution_run_store.py` | `_RUNS` in memory, `run.json` | create, bind, update, confirm, read, list | a reader that loads without the lock; a write that truncates first; restarts | what was acknowledged stays | `RunStore` |
| execution runner: `S/execution_runner.py`, `R/execution.py` | the run, its rows, live events, `inference_set.jsonl`, the Waylo lease | queue, bind, run conversations, publish events, finish, abort | any save may fail half way; restart anywhere | the outcome is supported by the conversations, in memory and on disk | `ExecutionRun` |
| judge budget: `S/judge_budget.py`, `S/upstream_assert_judge.py`, `S/upstream_assert_generation.py` | slots, `llm_judge_spend.json` | take a slot, quote, reserve, call, refund, release | the quote is stale when credits are reserved; midnight; failed saves | exact ledger, limit kept, slots freed | `JudgeBudget` |
| temporary Waylo sign-in: `S/waylo_connection.py`, `R/waylo_connection.py`, `web/lib/wayloConnection.ts` | grants, timers, run bindings, proof in the tab | connect, disconnect, reconnect, expire, bind, release, request, guard | two clocks; timer threads past cancelling; await in the middle of a connect; edits of the target | requests carry consented tokens, and no attempt of one starts after its grant has ended; calls end with their grant | `WayloConnection` |
| listener bus: `apps/pipecat/server.py` | broadcasts, publishers, listeners, timers | publish, replace, retire, clean up, join, attach, stop, expire | clean-up of one conversation runs during the next; an await between finding a bus and joining it | who publishes is on the bus; gaps are disclosed | `ListenerBus` |
| listener tokens: `R/execution.py` | dictionary of tokens with a lifetime | issue, check | a token outlives its run | — | ids in `ListenerBus`; the dictionary is not |
| ChatGPT plan connection: `S/llm_providers/chatgpt_plan.py`, `integrations/chatgpt_assert_cli.py` | attempt, port and timer in memory; accounts and sessions in a file under a file lock | begin, cancel, callback, expire, select, refresh, disconnect | the callback exchanges its code without the lock; the provider rotates the refresh token before its successor is saved; two processes renew | a late callback installs nothing; a stored session is the current one; a pending attempt is served | `ChatGPTPlan`, `ResponseStream` |
| Codex and API-key providers: `S/llm_providers/openai_codex.py`, `user_openai.py` | attempt and callback server; a token file without a lock; tombstone | connect, callback, disconnect, import, renew; calls | renewals, imports and sign-out interleave; stopping the server waits for its thread | after a sign-out only what was in flight returns; an answer is whole or an error | `CodexAccount`, `ResponseStream`; keys are rows of one transaction |
| live audio monitor: `S/live_audio_monitor.py` | queue of one second, pump, sender | write, pump, send, finish | full queue; two-second join, then cancel | listeners hear the recording without a hole, or monitoring is reported unavailable; finish closes the broadcast | `LiveAudioMonitor` |
| media process, duplex sessions: `apps/pipecat/*.py` | detector, streams of a recogniser, segments of the turn; pipelines of the framework | start, cut, finalize, receive, end | an utterance ends while the answer to the last one is awaited; repeated, late and missing messages | the end of a turn carries all that was recognised in it, once, in order | `SpeechTurns`; synthesis, mixing and WebRTC are signal processing |
| deterministic evaluation: `S/benchmark_service.py`, `design_enforcement.py`, `structured_checks.py` | none | evaluate a conversation, or its vCon; confirm a review | a call is observed several times, with others in between; evidence that is absent, unsupported or contradictory; the order of the gates | a failure is shown by the evidence, a pass lacks none | `Evaluation`; its verdict is an input of `ExecutionRun` and `ReviewStore` |
| benchmark and suite runs: `S/benchmark_suite_run_store.py`, `R/benchmarks.py` | a row per payload, a background task per submission | submit, start, complete, fail | the same payload submitted twice; unguarded read-modify-writes; a restart | the row says one thing; a suite run gets an outcome | `SuiteRun` |
| call adapters and agents: `S/waylo_livekit.py`, `acc_realtime_target.py`, ... | sessions with providers | converse, import | provider failures | — | a conversation is one action with any outcome; the authorization of Waylo calls is in `WayloConnection` |
| evidence, exports, provenance: `S/execution_vcon.py`, `vcon_*.py`, ... | none | conversions | what an export drops | — | the trace and what an import gives back, in `Evaluation`; the rest is formatting |
| specs, scenarios, agents: `S/editable_assert_spec.py`, `spec_scenario_authoring.py`, `user_scenario_store.py`, `agent_store.py` | versions and publications in SQL, a catalog in each process, the file of user scenarios | save, publish, refresh; create, delete | two processes take the same number; the key of a project changes its meaning between saving and publishing; a catalog brought up to date outside the lock | what is published is what its author approved; the catalog lists it | `SpecVersions`, `UserScenarios`; agents are single documents under one lock |
| product: `S/product_service.py` | workspaces, roles, invitations, projects, audit | found, invite, accept, share, resolve | a key becomes ambiguous after a run was bound to one of its projects | a run keeps its project, and its user access to it | `Workspaces`; the audit event in `JudgeReview` |
| hosted mode and quotas: `hosted_middleware.py`, `S/rate_limit.py`, `db/` | tenants, buckets | admit, filter | two requests insert the first bucket; a window ends under a request | quotas are neither exceeded nor cut short | `RateLimit` |
| presentation sessions: `S/session_service.py` | rows | one transaction each | — | — | a demonstration beside the product |
| web interface: `apps/web` | tabs | render, hold the Waylo proof | — | — | the tab, in `WayloConnection` |
| settings, scripts, deployment | — | — | — | — | no product behaviour |

How they interact: the runner calls the store at every step and the Waylo store
at the beginning (bind), during (authorize, guard) and at the end (release) of a
run. The judge handler reads the store, claims a row of the admission table,
takes a slot and credits of the budget, calls the evaluator, and then writes
table, store, audit log and table again, each in its own transaction. The
modules model each component with its callers; where two share state, one module
has the detail and the other a summary: `ExecutionRun.Save`
summarises the file write of `RunStore`, `ReviewStore` starts from the rows
`ExecutionRun` can leave (`FinishedRow`), and `JudgeReview.JudgeError` includes
every refusal of `JudgeBudget`.

## 3. Modules and the code

| module | models | one step is |
|---|---|---|
| `ReviewTypes` | the values judge requests, reviews and rows are made of. Transcripts, rubrics and settings are opaque: the code compares their SHA-256 digests only | — |
| `JudgeRequests` (extends `ReviewTypes`) | the SQL table of judge requests | one committed transaction |
| `ReviewStore` (extends `ReviewTypes`) | reviews, confirmations, refresh and contract selection of one finished run | one critical section of the store's `_LOCK` |
| `JudgeReview` (extends both) | the judge handler over them, with refreshes, operators, reconfiguration and crashes | one transaction, critical section or external call |
| `JudgeLedger` | abstract specification: what the admission table promises | — |
| `RunStore` | memory and file of one run in local mode | a critical section; a file write is two steps (truncate, write) |
| `ExecutionRun` | the route that queues a run and the task that runs it | up to and including the next save |
| `JudgeBudget` | slots, quotes, ledger | a section under the ledger lock, or the unlocked quote |
| `WayloConnection` | store of grants, connect route, queueing route, calls and guard | a section under the store's lock, or what lies between two awaits |
| `ListenerBus` | broadcasts of one run, joins and their timers | what runs between two awaits of the event loop |
| `ChatGPTPlan` | the sign-in attempt with its callback, port and timer; accounts and sessions; renewal by the API and by judge processes | a section under the mutex or the file lock, or an exchange with the provider |
| `CodexAccount` | attempt, callback server and its thread, token file, tombstone, import and renewal | what lies between two accesses of the lock, the file or the provider |
| `ResponseStream` | the three collectors of a streamed answer, as operators over the events received | one event |
| `LiveAudioMonitor` | pump, queue, sender and finish of one monitored call | what runs between two awaits of the event loop |
| `RateLimit` | the quotas of one hosted user, in several processes over one database | a statement that waits for rows, or the transaction that commits |
| `SuiteRun` | the row of a queued suite run with the requests and tasks that write it | reading the row, or committing a change |
| `SpeechTurns` | voice activity, recogniser streams and the end of a turn of a duplex session | what runs between two awaits of the processor and of the receiver task |
| `Evaluation` | the automatic evaluation of one conversation, of its vCon, and the review of it | one event, or one evaluation |
| `Workspaces` | workspaces, projects that have one key, the run and the reviews of a user | one request, which is one transaction |
| `SpecVersions` (extends `Workspaces`) | the editor, versions of one design, publications and the catalogs of API processes | up to a lock, or one transaction |
| `UserScenarios` | the records, file and catalog of user scenarios | a section under the lock, or a step of `sync_catalog` |
| `MCRecords`, `MCProviders` | runs of several components, part by part | — |
| `MCJudgeParts` | two instances of `JudgeReview` in one run | — |
| other `MC*` | model values, small functions and symmetry for TLC | — |
| `*_proofs` | theorems | — |

Correspondence worth knowing when reading them against the code:

* **`JudgeReview`.** `pc` follows `judge_execution_conversation`: `claim`
  (INSERT), `lookup` (the row that was there), `reopen` (the conditional UPDATE),
  `judge` (the paid call), `fail`, `retain`, `record`, `audit`, `finish`. A review
  is named by the request that produced it. The list `judge_reviews` is kept as
  the set `before` of reviews listed ahead of each one, which is all that
  `_compact_judge_review_history` looks at. `ready` is a history variable that
  counts outputs obtained from the evaluator. `Answered` counts every end of the
  handler as an answer, 409 and 5xx included.
* **`ReviewStore.FinishedRow`** says which rows the runner can leave: graded rows,
  Waylo captures (never graded by design checks), and the row of a run that aborted
  in the middle.
* **`RunStore`.** A run is a set of facts. `Save` is `write_text` up to the
  truncation, `Written` the rest; `SaveError` fails before the truncation,
  `WriteError` after it. `Miss`, `Load`, `Install` are `get_execution_run`, which
  reads the file between two sections of the lock.
* **`ExecutionRun.Save(new, ok, failed)`** changes memory, then the file; when the
  write raises, the file is either as before or unreadable.
* **`JudgeBudget`.** The quote is taken outside the lock and carries its date,
  which decides whether a refund is made.
* **`WayloConnection`.** A proof is random, so a grant is named by the connect
  request that created it. `mono` drives timers, `wall` may jump; a grant ends on
  the first of its two limits. A timer that has fired waits for the lock in a
  thread of its own and can no longer be cancelled (`timer = "fired"`). A request is
  up to `MaxAttempts` attempts (three in the code), with a wait between two of them
  (`waiting`) during which grants may end; a call may catch the error of a request and go
  on (`Fail`). `ended` is a history variable: the grants that someone has ended.
* **`ListenerBus`.** A broadcast is named by the session that created it; one audio
  key stands for the speech of a session; `missed` is a history variable.
* **`ChatGPTPlan`.** An attempt is named after its generation, a session after its
  refresh token; tokens are numbered as the provider mints them, so a spent token is
  one that is not the account's latest. A lost answer or a crash between exchange and
  save leaves the file with a spent one (`unsaved`). `StartOAuth` has three outcomes: the
  page is given to the user (history variable `opened`), the port is busy, or the file
  cannot be saved, which leaves an attempt that waits and whose page nobody has. The
  rename is the last thing a save can fail at (`S/llm_providers/chatgpt_plan.py:120`):
  setting the mode of the file after it is assumed to succeed.
* **`CodexAccount`.** `lock` is held across `server.shutdown()`, which waits for the
  thread of the server. The history variable `flights` is the set of threads whose
  request or import began before the last disconnect.
* **`ResponseStream`.** Each part is delivered in its own `ways` (deltas, a final text,
  both or none), all of them perhaps again as a message or a snapshot (`wholes`), in any
  `order`; `said`, `begun` and `ending` are how far the provider has got, `events` what has
  arrived. Any line of the stream may be unreadable, one with a text as well (`Receive`),
  and a cut, a failure, a refusal or one line more may come anywhere. A collector is an
  operator over the events received; `given` is what `_http_json_post_stream` has yielded.
* **`LiveAudioMonitor`.** Frames are numbered as they are rendered and the samples
  left out. `cutOff` records that the answer to *open* or the request to *close* was
  lost, the only ways a broadcast outlives `finish`.
* **`RateLimit`.** Waiting for a row lock and retrying after a unique violation are
  steps of their own; `late` is the set of windows a request wrote to when they were
  over.
* **`SuiteRun`.** `loaded` is the row a transaction has read; SQLAlchemy writes only
  the columns it changed. `raced` and `broken` say that two tasks overwrote each other
  or that the database failed one.
* **`SpeechTurns`.** Streams are numbered and a recognised segment is a stream and a
  number. A detector that is STARTING is QUIET to every test of the code. The
  recogniser is external. What was really voiced, said and answered is kept in history
  variables (`voicing`, `spoken`, `sent`, `said`, `receipts`, `opened`).
* **`Evaluation`.** A design is a constant record: its focus, checks, evidence labels and
  forbidden events. `captured` has every event; `Latest` is the trace that is graded.
  The statuses of a call are four classes, a transcript and a final state what checks
  tell apart. The properties look at `captured` only.
* **`Workspaces`.** A project is named after its owner, who has at most one for a key;
  owner and administrator are one role, as no check tells them apart. `resolving` is the
  project a review has resolved, in SQL, and not yet bound, in the store.
* **`SpecVersions`.** The database has one writer at a time, and a request that inserts
  a project has it until its version is committed. `tried` and `listed` are history
  variables. A read of the catalog refreshes it too, by the same two steps.
* **`UserScenarios`.** `mixed` and `unsaved` are history variables: requests overlapped,
  or a write failed, since a request last had the store to itself.

## 4. What the runs check

Every run finishes without truncation; the states given are distinct states.

| run | instance | properties | what they say |
|---|---|---|---|
| `judge_refresh` | 1 conversation, 3 contents, 1 optional source, 2 handlers, 1 refresh, explicit and canonical ids, 1 configuration; 239 K states | `ReviewMatchesEvidence`, `AdjudicationIsCurrent`, `HistoryKept`, `PaidOnce`, `ClosedIsAudited`, `Answered` | a late output is never filed for evidence it was not computed from; the confirmed review describes what is shown; history is only superseded; no second output is bought; no completion without audit; every request is answered |
| `judge_run` | 2 handlers; 2 conversations, or 1 and 2 configurations; 490 K | `PassIsEarned`, `ImplementsLedger` | no confirmation lifts a failed or blocked conversation, and completed runs have passing conversations only; the table and its callers refine `JudgeLedger` |
| `records` | store: 3 clients, 2 projects, 2 restarts; runner: 3 conversations, 2 live events each, 1 restart; monitor: 8 frames, a queue of 2 batches; suite run: 2 submissions, 1 restart; speech: 2 turns of 2 utterances; evaluation: 5 designs, 3 events of 3 calls of 2 tools; projects: 2 users, 1 workspace, 1 run; authoring: 2 authors, 3 designs, 2 processes, 2 attempts, 1 restart; scenarios: 2, of 2 requests, 2 faults; 417 K | `RecordsTypeOK`; `KeptUntilRestart`; `VerdictIsEarned`, `ReportIsTrue`, `EventsKept`; `RestartsKeep`; `WholeOrUnavailable`; `SuiteRowIsTrue`; `TurnIsHeard`; `EvidenceDecides`; `BoundStays`; `AuthoringIsKept`; `CatalogHeals`; `WorkConcludes` | store: nothing acknowledged is lost in the first process. Runner: outcome, inference set, progress and events agree with what happened. `RestartsKeep`: a restart loses nothing that was acknowledged, and no outcome that was shown. Monitor: no hole goes unreported. Suite run: the row says one thing. Speech: the end of a turn carries what was recognised in it; a wait for a final that was sent never runs to its limit. Evaluation: exactly what captured events refute fails; a confirmed pass has every check shown and every artifact supplied. Projects: a run keeps its project and the access to it. Authoring: a version holds what its author approved, also when published; versions have no gaps and a save gives up only for others; a catalog that was refreshed has all publications. Scenarios: file and catalog follow what was created and deleted, and the next request alone puts right what overlapping or failing ones left. `WorkConcludes`: a task that began concludes and releases its lease, finish closes the broadcast, a suite run gets an outcome |
| `providers` | budget: 3 judge requests, 1 generation, 2 credits, 2 days, 1 restart; plan: 2 accounts, 2 operations, 2 sessions, the API and a judge process; Codex: 2 threads; answers: 2 parts of 2 chunks; quotas: 3 requests, 2 a minute and 2 a day; 1135 K | `ProvidersTypeOK`; `BudgetIsKept`, `SlotsAreHeld`; `SignedOutStays`, `SessionIsCurrent`, `AttemptIsServed`; `OnlyFlightsReturn`; `WholeAnswerOrNone`; `QuotaIsExact` | today's ledger is what today's requests hold or spent, and no day is overcharged; slots follow their holders. Plan: a late callback installs nothing, a stored session can be renewed, a pending attempt whose page the user was given is served, whatever fails to be saved. Codex: after a sign-out only what had begun returns. `collect_response` gives the whole text or an error, whichever line is unreadable; the other two under the conditions of [section 6](#6-findings-and-observations). Quotas are neither exceeded nor cut short |
| `waylo_grants` | 2 tabs, 2 sign-ins, 1 run, 3 attempts of a request, 2 targets, clocks to 1 with one jump; 329 K | `RunsAreBacked`, `RequestsAreConsented`, `NoAttemptAfterEnd`, `CallsEnd`, `TokensAreForgotten` | bindings never outlive grants; tokens are consented; no attempt, first or repeated, starts under a grant that anyone has ended or that a clock has passed; calls end with their grant; expired tokens are dropped |
| `listener_bus` | 2 conversations, 2 joins, 2 ids, any kind of adapter; 385 K | `OnAir`, `HeardOrDisclosed`, `NeverCutOff`, `GhostsLeave` | who publishes is on the bus; what a listener missed was disclosed; nobody is cut off by clean-up; inactive broadcasts leave |
| `judge_returned`, `judge_aborted`, `store_replaced`, `budget_released`, `codex_returned`, `codex_blocked` | small | one each, violated | see [findings](#6-findings-and-observations) |

**Joined properties.** A property of `MCRecords` whose name no component has joins those
of a part, or of several: `RestartsKeep` is `RestartKeeps` of the store and
`OutcomeSurvives` of the runner, `TurnIsHeard` is `TurnIsWhole` and `FinalIsNoticed`,
`EvidenceDecides` is `FailureIsShown` and `PassIsSupported`, `WorkConcludes` is
`Concludes`, `FinishCloses` and `SuiteConcludes`; `AuthoringIsKept` of `SpecVersions`
joins `DesignIsKept`, `ConflictIsProgress` and `PublishedIsListed`. Each of the safety
properties joined has a mutant of its own.

**Parts.** `records` and `providers` each hold components that share no state (projects
and authoring share theirs, which only one of them moves), and
`judge_run` two instances of one. A variable `part` is chosen initially and only
that part moves, so a run has the sum of the states of its parts and not their
product; the fairness of a part is assumed in its own behaviours only. An invariant
of one part is constant in the others.

**Why the bounds are enough.** Each property needs a known number of actors to
go wrong, and the instance has them. A duplicate needs two handlers; a request
that stalls, a retry and a conflict over one explicit id need two as well, since a
handler that is done or crashed leaves its row behind. Stale evidence needs the
runner's contents and two further ones, so that a refresh can change contents and change
them to something the handler did not read. `MaxPending = 1` reaches the
compaction with two reviews. A lost update in the store needs a writer, a
conflicting writer and a reader; two restarts let a restart meet the
effects of an earlier one. Three conversations have a first, a middle and a last. A
limit of 2 with costs 1 and 2 is reached exactly by both kinds of request, and
refused to either; two days have one midnight. Two operations of the ChatGPT user are
an attempt and what overtakes it, and two minted sessions a token and its successor;
two Codex threads are one that renews and one that reads. Two parts of two chunks tell
a repeated chunk, part and text apart. Eight frames fill the queue, the batch being
posted and the next one. Three requests for two admissions make one that must be
refused, across two minutes of one day. Two submissions are a click and its retry. Two
turns of two utterances have a message that arrives in the next utterance and in the
next turn. Three events of two calls of one tool and a call of another are a request, an
event in between and a result, and the five designs have every kind of check. Two sign-ins of two tabs include reconnects, foreign proofs and expiry
during a connect; two conversations have one hand-over. One author who
saves twice in the same project makes another lose both attempts, and two processes
give each a lock of its own; one workspace makes a key ambiguous. Two scenarios and two
requests let one delete a key under the other, and of two faults one follows the other. The safety properties hold
for every value of the constants (section 5), so these bounds matter for the liveness
properties and for the mutants.

**Symmetry.** `judge_run` and `providers` are permuted in safety runs only
(`ImplementsLedger` and `OnlyFlightsReturn` are safety properties). In `providers` the
hosted requests bear the names of the judge requests, so that one permutation serves
both parts. In `records` two calls of a tool, two API processes, two clients of the
store and two requests bear the same two names for the same reason; the parts whose
liveness is checked there (runner, monitor, suite run) never move a variable that holds
one of them. `waylo_grants` permutes tabs and targets and `listener_bus` ids; no fairness
condition and no liveness property of theirs names an element of those sets, so
merging permuted states leaves their liveness verdicts sound.

**Deadlock** is not checked where requests are served once and the instance
really comes to rest; that nobody is stuck half way is what `Answered`,
`WorkConcludes`, `CallsEnd` and `GhostsLeave` say.

**Fairness** is weak, and only where the code schedules the step:

| specification | fair steps | why the code justifies it |
|---|---|---|
| `JudgeReview.FairSpec` | a handler that has been started | it runs in a worker thread to its return; database calls return or raise, the evaluator process has a timeout (`S/upstream_assert_judge.py`) |
| `ExecutionRun.RunFairSpec` | the background task | nothing waits without a timeout; adapters end by their own deadlines |
| `LiveAudioMonitor.MonitorFairSpec` | the sender, the steps of finish | tasks of a running event loop; requests have a timeout, the join two seconds |
| `SuiteRun.SuiteFairSpec` | a submission that was accepted | a background task runs to its end; each transaction returns or raises |
| `CodexAccount.CodexFairSpec` | connect, disconnect and the callback's thread | threads that wait for the lock or for each other only; used to show that a disconnect can wait for ever |
| `WayloConnection.FairSpec` | the guard and the cancelled call, a due timer and its thread | the guard polls every tenth of a second; `threading.Timer` fires; the lock is held only for in-memory work |
| `ListenerBus.FairSpec` | sleeping retirement and expiry tasks, the closing of a connection | tasks of a running event loop; no external step (a session ending, a browser) is assumed fair |

In `judge_refresh` the configuration stays (`SteadySpec`), and `records` states the
fairness of its parts. The other specifications are safety only. New requests,
refreshes, operators, crashes, sessions, users and clock ticks are never fair.

**Mutants.** Every property of every passing run has a mutant: a plausible bug,
written beside the definition it replaces (comment `Mutant:`), under which TLC finds
the property violated.

## 5. What is proved

All proofs are checked by TLAPS with Z3, Zenon and LS4; nothing is assumed but
the named assumptions on constants. Every safety property that a run checks is a
theorem.

| module | theorems | inductive invariant and why it is needed |
|---|---|---|
| `JudgeReview_proofs` | `TypeCorrect` | `TypeOK /\ CallOK`: a handler past its first step holds a typed call, a refresh in flight a conversation. `TypeOK` alone lets a handler at `retain` hold nothing |
| | `PaidOnceHolds`, `ClosedIsAuditedHolds`, `LedgerImplemented` | `AdmissionInv`. A handler between claim and the end of its evaluator call owns its row, which is *running* and has no other owner (`OneOwner`); what was paid can be read off the owner's step (`PaidByOwner`) and the row's status (`PaidByRow`); what is answered is what the row holds (`AnsweredFromRow`); `AuditedFirst`. `PaidOnce` alone is not inductive: it does not exclude a second owner |
| `JudgeEvidence_proofs` | `AdjudicationIsCurrentHolds`, `HistoryKeptHolds`, `PassIsEarnedHolds`, `ReviewMatchesEvidenceHolds` | `Matching`. Evidence that was refreshed has exactly one automatic verdict, and another refresh keeps it (`Settled`); so contents and verdict read together stay together (`Agrees`) although they are compared apart, in output, row and call (`RowsAgree`, `CallAgrees`). Without `Settled` an output retained under an explicit id could be filed for the same contents with another verdict |
| `Runs_proofs`, run store | `StoreTypeCorrect`, `KeptUntilRestartHolds`, `RestartKeepsHolds` | `ClientsOK`, `FirstLife`: before the first restart memory holds the run, so no reader is on its way to the file, what was acknowledged is in memory, and memory never has two projects. `FileKeeps`, across one restart: where no write failed, the file is what memory holds whenever the lock is free, and after the restart it has all that was acknowledged, unless the crash tore it |
| `Runs_proofs`, runner | `RunTypeCorrect`, `VerdictIsEarnedHolds`, `EventsKeptHolds`, `ReportIsTrueHolds`, `OutcomeSurvivesHolds` | `RunInv`: the rows before the current one are over and those after it absent (`RowsInOrder`), the run exists while the task works (`Working`, `Held`), and rows still to come have no events (`Counted`). `Told`: which rows have a line in the inference set, step by step (`LinesTold`), and that neither memory nor a file still to be written says more than happened (`AuditOf`, `ProgressOf`, `AtWork`). `InStep`: while no save failed, memory and file agree, and only a failure leads to the clean-up |
| `Runs_proofs`, suite runs | `SuiteRowIsTrueHolds` | `SuiteInv` with `RowIsThere`: the row is never deleted, so whoever read it when there was one read a row, and from the evaluation on a task holds a verdict; otherwise a task that writes back what it read could remove the row |
| `Calls_proofs`, monitor | `MonitorTypeCorrect`, `WholeOrUnavailableHolds` | `MonitorInv`: what was heard is a beginning of what was rendered, and the batch being posted follows it (`HeardOK`); the queued batches follow each other and, as long as nothing failed, with the pending frames reach up to what was rendered (`WaitOK`); where nothing failed the sender is not stopped before it has sent all (`PhaseOK`). That no frame is lost is not inductive without their order |
| `Calls_proofs`, speech; `Records_proofs` | `SpeechTypeCorrect`, `TurnsAreWhole`, `TurnIsHeardHolds` | `SpeechInv`: which phases go together (`PhasesOK`, `StreamsOK`, `VoiceOK`, `TurnOK`), and what was found but is not yet in the text of the turn: for rtc-asr at most the final of the present utterance, which is in the inbox (`LocalOK`); for the cloud recognisers the finals in the inbox, in order and nothing else (`CloudOK`). That the turn is whole at its end says nothing of what is on its way before |
| `Providers_proofs`, budget | `BudgetTypeCorrect`, `BudgetIsKeptHolds`, `SlotsAreHeldHolds` | `BudgetInv`: only a request that was never charged reserves; one that is refunded was charged no earlier than its quote (`Charge`); the ledger is never dated ahead. `BudgetTypeOK` itself needs the sums: subtracting a refund stays a natural number only because the ledger contains it. `LedgerIsExact` and `WithinLimit` are the two halves of `BudgetIsKept` |
| `Providers_proofs`, plan | `PlanTypeCorrect`, `SignedOutStaysHolds`, `SessionIsCurrentHolds`, `AttemptIsServedHolds` | `PlanInv`: no attempt whose page was given is of a later generation than the present one, and after a sign-out what still waits with its page, or exchanges, is of an earlier one (`AttemptsOK`); then nobody renews, and the selected account has no session (`SignOutOK`); a token is in one place only, in a session, a callback or a reply (`SessionsOK`, `GrantsOK`); who refreshes holds the file lock and the session it read (`RefreshOK`). Without the last two, two renewals could spend one token |
| `Providers_proofs`, Codex | `CodexTypeCorrect`, `OnlyFlightsReturnHolds` | `CodexInv`: after Disconnect nothing of a sign-in is left, the tombstone is there while the token is gone, and whoever is at work began before (`SignedOff`) |
| `Providers_proofs`, answers | `StreamTypeCorrect`, `WholeAnswerOrNoneHolds` | `StreamInv`: as long as no text was lost, the deltas of each part are what has been said of it, and all of them in place if the parts are (`DeltasAreSaid`), and each part that is delivered so has its final text, which is the part's whatever was lost (`FinalsAreParts`); message and snapshot come last and are whole or lost (`EndsAreWhole`); no part alone is left out (`NothingIsLeftOut`); what was yielded are the deltas until the stream is disturbed (`GivenBegins`). Texts are joined by a recursive function of the library: by the least counterexample that function exists and is unique (`JoinExists`, `JoinUnique`), so one more event adds its text at the end (`FlattenAppend`, `TextArrives`) |
| `Providers_proofs`, quotas | `QuotaTypeCorrect`, `QuotaIsExactHolds` | `QuotaInv`: the row of a window counts who was admitted until it expires (`CountOK`); who is counted in a window has passed that quota (so nobody counts twice); who retries found a row. The count alone does not tell that the same request is not admitted again |
| `Records_proofs`, projects | `WorkspacesTypeCorrect`, `BoundStaysHolds` | the type invariant; `BoundStays` is shown of each step from `Grows` (nobody loses a project) and `KeepsBound` |
| `Records_proofs`, designs | `AuthoringIsKeptHolds` | `SpecInv`: versions are numbered without gaps (`NoGaps`); an editor holds what its step says, and has lost numbers to rows of others that are there (`EditorOK`); a refresh has read at least what its process lists and is alone there (`CatalogsOK`), so listing never takes back what an author was shown |
| `Records_proofs`, scenarios | `CatalogHealsHolds` | `ScenariosInv`: while no two requests overlap only one is at work (`Alone`), and from copy to last key it keeps what it will make of the catalog (`Syncs`) |
| `Records_proofs`, evaluation | `EvidenceDecidesHolds` | `EvaluationInv`: the findings are those of the evidence as it is now, with the trace reduced once (`LatestTwice`: twice is the same). The lemmas relate a check over the reduced trace to what was captured: it keeps exactly the last event of each call (`KeptFacts`), a first position is a last observation (`FirstOfAll`, `OrderKept`), so a check passes exactly if it is shown (`ShownPasses`) and is contradicted exactly if it is refuted (`RefutedContradicts`) |
| `WayloConnection_proofs` | `TypeCorrect`, `RunsAreBackedHolds`, `RequestsAreConsentedHolds`, `NoAttemptAfterEndHolds` | `IInv`: nobody knows a grant before it is installed, so nobody can end it too early (`Fresh`), a grant that was ended has left the store and never returns (`Gone`), a request has an attempt left when it waits (`Tries`), a working proof is its tab's own (`Own`), a lease was obtained by the tab that queued the run (`Held`), only runs past `bind_run` are bound (`Bound`) |
| `ListenerBus_proofs` | `TypeCorrect`, `OnAirHolds`, `HeardOrDisclosedHolds`, `NeverCutOffHolds` | `Shape` (types, and a broadcast's links), `Bus` (nothing refers to a session that has not started, and the broadcast on the bus is the only active one and knows its publishers), `ToBeTold` (what a negotiating listener has missed is among the keys its answer will name) |

`LedgerImplemented` is the refinement: initial states map to initial states and each
step of the handlers maps to one step of `JudgeLedger` or to a stutter, with
`stage` and `kept` read off the rows of the table.

**Compositions.** `records` and `providers` check several components in one
specification. That a step of it is a step or a stutter of each component
(`RecordsMove`) gives that the composition implies each component's
specification (`RecordsAreTheirs`, `ProvidersAreTheirs`), which carries the theorems
over: `RecordsTypeCorrect`, `RestartsKeepHolds`, `RecordsHold`, `TurnIsHeardHolds`,
`EvidenceDecidesHolds`, `ProvidersTypeCorrect`, `ProvidersHold`. Projects are the exception, since authors
move them as well: `ProjectsOK` is kept by the steps of both, and `RecordsKeepBound`
extends `BoundStaysHolds` to saves that create a project (`AuthorsMove`).

Assumptions on constants, all evaluated by TLC in the runs:

| assumption | why the code justifies it |
|---|---|
| `ReviewAssumption` | a conversation has a first capture; counts are natural; at least one pending review is kept (20 in the code) |
| `NoneAssumption`, `StoreAssumption`, `RunAssumption`, `WayloAssumption`, `ListenerAssumption` | absent values differ from present ones; counts and bounds are natural; kinds of facts are disjoint |
| `RequestAssumption` | a canonical key is prefixed `canonical:` (`S/assert_judge_requests.py:22`), and the pattern of `request_id` has no colon |
| `BudgetAssumption` | finitely many requests of two kinds, natural costs and limits |
| `QuotaAssumption` | limits and windows are positive; a request passes each of its quotas once (`hosted_middleware.py:113-170`) |
| `PlanAssumption`, `StreamAssumption`, `MonitorAssumption`, `SuiteAssumption`, `SpeechAssumption`, `WorkspacesAssumption`, `SpecVersionsAssumption`, `UserScenariosAssumption` | threads, processes and absent values are distinct; sizes and lengths are positive, bounds natural; users found and are offered workspaces |
| `EvaluationAssumption` | a call has one tool; designs are records of known parts |

Only model-checked, not proved: the liveness properties (`Answered`, `WorkConcludes`,
`CallsEnd`, `TokensAreForgotten`, `GhostsLeave`). Liveness from fairness needs ENABLED,
which this prover does not handle.

The type invariants of the components are proved with the rest; `JudgeReview`,
`WayloConnection` and `ListenerBus` have no run that repeats theirs.

## 6. Findings and observations

Runs that end in a counterexample; each checks one statement of the repository.

* **`judge_returned`** (`S/execution_run_store.py:342`). A refresh that changes
  only evidence the judge does not read supersedes all reviews, but changes neither
  fingerprint nor snapshot. The same request repeated then answers 200 with the
  superseded review, which nobody can confirm.
* **`judge_aborted`** (`S/execution_run_store.py:625`). Confirming a review
  recomputes the run's status from its conversations and forgets `run.error`: a run
  that aborted before its later scenarios becomes completed.
* **`store_replaced`** (`S/execution_run_store.py:51`). After a restart, a reader
  that loaded the file before a binding was written installs the older row
  afterwards; the next binding to another project is accepted.
* **`budget_released`** (`S/judge_budget.py:101`). When midnight falls between quote and
  reservation, the credits are charged to the new day and never refunded.
* **`codex_returned`** (`S/llm_providers/openai_codex.py:339`). Without a command-line
  login: a renewal begun before Disconnect has deleted the token file writes the file
  afterwards, and removes the tombstone: the account is connected again.
* **`codex_blocked`** (`S/llm_providers/openai_codex.py:215`). Disconnect during a
  callback holds the lock while it waits for the callback server's only thread, which
  waits for the lock: neither returns, and the token stays.

Behaviours the models have that contradict no statement of the repository:

* `RunStore`: a confirmation whose file write fails has changed memory; the retry is
  answered as recorded and nothing is ever written (`S/execution_run_store.py:627`).
* `RunStore`: a crash inside `write_text` (`:755`) leaves a file no later process can
  parse.
* `ExecutionRun`: reading the queued request and making the output directory happen
  before the `try` (`S/execution_runner.py:281`); if they raise, the run stays *running*
  and keeps its lease.
* `WayloConnection`: when two sign-ins of one tab overlap, the second does not end
  the grant of the first, although the tab holds only the second proof
  (`R/waylo_connection.py:121`).
* `ListenerBus`: a join can attach to a broadcast that was replaced while it
  negotiated (`apps/pipecat/server.py:2295`); neither its expiry nor a stop request
  then finds its connection. A lost close call (`:2241`) keeps a broadcast active for
  ever, and the next conversation's audio is refused. Of two joins with one token, the
  later overwrites the earlier.
* `JudgeReview`: a request in flight when the process dies stays *running*; every
  repetition is answered 409.
* `ChatGPTPlan`: when the save of `start_oauth` fails (`S/llm_providers/chatgpt_plan.py:198`),
  the attempt stays pending although nobody has its page. It cannot be completed; the port
  and the timer of an earlier attempt may stay, and that timer no longer ends anything. The
  next operation puts it right, which `AttemptIsServed` and `SignedOutStays` include.
  A failed exchange keeps the attempt pending until its timer. A
  cancelled sign-in whose code was already exchanged leaves a session at the provider
  that nobody holds. Outside the model, `select_judge_model` decides on a list it read
  before an await.
* `CodexAccount`: an import of the command line's login comes back like the renewal of
  `codex_returned`: a status poll that looked for the tombstone before Disconnect has
  written it writes the token file afterwards (`S/llm_providers/openai_codex.py:650`).
  `OnlyFlightsReturn` lets both return, and nothing else.
  Two threads can spend the same refresh token, since the file has no
  lock, and a reader can meet a half-written file, which it takes for no login.
* `ResponseStream`: `_parse_responses_sse` skips a line it cannot decode
  (`S/llm_providers/openai_codex.py:955-964`), so a stream whose unreadable line held a
  delta, and that ends well, is answered with the rest as if it were whole. `splitlines`
  makes such lines of readable ones: it also splits at U+2028 and U+0085, which JSON may leave
  unescaped. An unreadable refusal is skipped in the same way. `collect_response` and
  `_http_json_post_stream` raise an error instead. Where some parts come as deltas and
  others as final texts, or parts come out of order, both functions of `openai_codex.py`
  drop or disorder text; `collect_response` does not. `WholeAnswerOrNone` states these
  conditions (`Lossless`, `Plain`); no statement of the repository promises more of the two.
* `LiveAudioMonitor`: finish can cancel the sender while it closes after a failed post,
  and the answer to *open* can be lost; then the broadcast stays open.
* `RateLimit`: a request that read the clock before its window ended can re-create the
  row of that window after it was deleted; the row then stays until the next clean-up.
* `SuiteRun`: the same payload submitted again shares the row, and two tasks that
  overwrite each other may leave it completed without a report, or failed with one. An
  error of the database in `persist` leaves the run *running*, because `mark_failed`
  uses the session that failed.
* `Evaluation`: a live run evaluates its own bookkeeping, `{complete: False, ...}`
  (`S/execution_runner.py:2132`), as the final state of the conversation: a design that
  checks `final_state_complete` fails with score zero, and evidence `final_state` counts
  as supplied. The vCon of the run leaves that state out (`S/vcon_evidence.py:150`), so
  importing it gives *needs_review* without a score: here the sentence "Deterministic
  scoring round-trips" (`docs/vcon-execution-evidence.md:23`) does not hold.
  `Reevaluate` has both evaluations; no run is spent on the difference.
* `Workspaces` and `SpecVersions`: two resolvers read a key differently. Saving a design
  prefers the one shared project (`S/editable_assert_spec.py:585`), a run refuses a key
  with two (`S/product_service.py:374`). An administrator can give any member, the
  founder too, a lower role.
* `SpecVersions`: one publication that no longer validates fails the refresh of all
  (`S/spec_scenario_authoring.py:161`, by intent), so also every listing.
* `UserScenarios`: two requests that overlap in `sync_catalog` can leave an old catalog,
  or fail with a `KeyError` after their change was saved (`S/user_scenario_store.py:148`);
  a crash while `user_scenarios.json` is written loses all scenarios, as a file that does
  not parse is taken for an empty one (`:168`).
* `SpeechTurns`: a final of rtc-asr without text is dropped, so the wait for it runs to
  its limit and fails the exchange. A turn in which nothing is recognised never
  completes; its caller waits until the idle limit of the pipeline. After a protocol
  error the end of the session is not forwarded, and closing waits its ten seconds.

## 7. Limits

* One run, one process at a time. `JudgeReview` has any number of API processes as
  far as SQL is concerned, but one store; the hosted mode, where runs are SQL
  documents, is not modelled.
* The dialogue, audio and provider protocols inside a conversation are one action
  with any outcome. `Evaluation` is not composed with the modules that take its verdict
  as an input, and leaves out what decides no verdict: actions matched in the text, the
  rubric, workflow order, and scores of designs without a behavior in focus.
* Digests are collision-free: equal iff their inputs are.
* The wall clock of the budget is the date only; the two clocks of
  `WayloConnection` are bounded by `MaxTime` and `MaxJumps` in the runs, and by
  nothing but `Nat` in the proofs.
* `MaxCrashes`, `MaxDays`, `MaxEvents` and `NumSessions` bound the runs; the
  theorems hold for every value of them. `waylo_grants` never meets a full store (two
  sign-ins, capacity two); `TypeCorrect` covers refusal at every capacity. It has one run, so a grant that Waylo rejects in another
  run is covered by `NoAttemptAfterEndHolds` only.
* `ChatGPTPlan` leaves out the choice of a judge model and the lists of models;
  `LiveAudioMonitor` a second cancellation of finish and the callback that reports
  monitoring unavailable; `RateLimit` the tenancy filter of the queries; `SpeechTurns`
  speech synthesis, mixing, language models, and rtc-asr servers that send no stream ids.
* Most lines of the repository are not in the map: rendering and validation of
  documents, provider protocols, text matching, exports and
  deployment scripts keep no state that steps of two actors share.
* No theorem is about liveness. The modules declare no RECURSIVE operator; where a proof
  needs induction (a set of naturals has a least element, a bounded one a greatest) it
  uses that the naturals are well founded.

## 8. Plan

Done, in the order of importance: the judge pipeline, the run store, the execution
runner, the judge budget, the Waylo sign-in and the listener bus; then the ChatGPT plan,
Codex, streamed answers, the live monitor, quotas, suite runs, speech turns, the
evaluation, projects, spec versions and scenarios; then the proofs of section 5. Next:

1. Composition of `ExecutionRun` and `WayloConnection` over the lease, and of
   `Evaluation` and `ReviewStore` over the verdict.
2. The choice of a judge model, and agents with their assisted authoring.

## 9. How to run it

```
tlc -workers 2 -config JudgeReview_refresh.cfg MCJudgeReview
tlapm Records_proofs.tla
```

The run table of `PROJECT.json` names the module and configuration of every run. The
longest runs take about three minutes on two cores, each proof module less than four, from nothing.
