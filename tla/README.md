# TLA+ verification of ai_programmer

The program takes a programming task over HTTP, lets a planner and a developer
agent (language models with tools) work on it in a sandbox, has a verifier
build, type-check, test and lint the result, and ships what passes. This
directory models that pipeline in TLA+, checks it with TLC on small instances
and proves every safety property of the model with TLAPS for all values of its
parameters. `PROJECT.json` lists the runs, the mutants each
property is tested with, the source lines behind every definition, the hazards,
the findings and the theorems.

1. [Inventory of the system](#1-inventory-of-the-system)
2. [Modules and their correspondence to the code](#2-modules-and-their-correspondence-to-the-code)
3. [Runs](#3-runs)
4. [Findings](#4-findings)
5. [Fairness](#5-fairness)
6. [Proofs](#6-proofs)
7. [Abstractions and what is not modelled](#7-abstractions-and-what-is-not-modelled)
8. [Plan](#8-plan)

## 1. Inventory of the system

Everything is asyncio Python. The task API, the sandbox service, the verifier
service and the context provider are FastAPI processes; the orchestrator and
both agents run inside the task API's process. They share one Postgres
database, a docker daemon and a directory of git worktrees.

```
 client --POST/GET /tasks--> task API --launch--> orchestrator.execute
                                |                   |  plan -> build -> verify -> ship
                                |                   |      |        |
                             Postgres <--rows-------+   developer   |
                                ^                       |  |  |     |
                                |        context provider  |  |     |
                                |                    sandbox  |     |
                                |                    service  |     |
                                +--verifier_runs-------- verifier service
```

| Component | State it keeps | Operations | Correct when |
|---|---|---|---|
| task API (`services/task-api`) | task row, set of background asyncio tasks | `POST /tasks` (commit, then `launch`), `GET /tasks/{id}` (three queries), `GET /tasks` (one query per page) | answers are consistent with a verdict; every accepted task gets one; no task is missing from a walk through the list |
| orchestrator: wiring (`main.py`) | four environment variables, read by every run | which of planner, developer, verifier and teardown is real, which a fake | any incomplete configuration still runs end to end |
| orchestrator (`services/orchestrator`) | where `execute` stands, the graph state (`edits`, `verifier_facts`); session row, turns, task status | `load_task`, `open_session`, the four nodes, the route, the verdict, `_cleanup_sandbox`, the error handler, `close_session` | ships only on green; never both ships and fails verification; ends with a verdict, a closed session and no sandbox |
| planner (`agents/planner`) | none | one model call, one turn, one retry | every call is on the ledger |
| developer (`agents/developer`) | the loop's locals (tokens, last facts, repeat counter, messages) | the ReAct loop and its tools; the adapter's spawn and destroy around it | `passed` is earned; limits hold; the audit trail is complete; no sandbox outlives a loop that raised |
| sandbox service and controller (`services/sandbox`) | `_handles` in memory; containers; worktrees | spawn, exec, diff, delete, each a sequence of `docker` and `git` subprocesses | the registry matches what exists; nothing is orphaned |
| verifier (`services/verifier`) | `verifier_runs` rows | `POST /verify`: four runners, persist, answer | the report is that of the worktree; it is persisted before it is returned |
| context provider (`services/context-provider`) | none | routes a query to one of two MCP servers, with a fallback | an index that is down is not taken for an empty one |
| database (`packages/db`) | `tasks`, `task_sessions`, `agent_turns`, `verifier_runs` | one transaction per repository call | |
| telemetry, pricing, prompts, console, demo repository | none that matters | | |

What is hard about it:

* **Concurrency.** Runs of different tasks interleave at every `await`; so do
  the handlers of the sandbox service at every subprocess, and a poller's three
  queries with the run's transactions.
* **Failure in the middle.** Every database call, HTTP call and subprocess can
  fail, also the ones inside error handlers, and a `COMMIT` can take effect
  although its caller gets an exception.
* **Callers that give up.** The HTTP timeouts (120 s and 180 s) are shorter than
  what they wait for (a spawn may take 600 s, a verification has no limit), and
  the services do not notice that nobody waits any more.
* **Names that are used again.** The id of a sandbox names its path and its
  registry entry; handlers look a handle up, await subprocesses, and then act on
  the id.
* **Pages of a moving table.** Each page is a query of its own, and rows become
  visible in another order than they are listed in.
* **Crash and shutdown.** Runs live in the API process; the registry of
  sandboxes lives in the sandbox service. Rows, worktrees and containers
  outlive both.
* **Judgement.** Two readers of a verifier report, the developer's loop and the
  ship gate, decide with different predicates.

The hazards at their source lines, with the properties that cover them, are
under `hazards` in `PROJECT.json`.

## 2. Modules and their correspondence to the code

| Module | Models | Role |
|---|---|---|
| `Reports` | verifier reports, `_verify_passed`, `_is_green` | shared by all |
| `TaskLifecycle` | what the rows of one task promise a reader | abstract specification |
| `SandboxContract` | what a user of the sandbox service relies on | abstract specification, implemented on both sides |
| `BuildContract` | one build of the developer as its caller sees it | abstract specification, implemented on both sides |
| `TaskRun` | `Orchestrator.execute`, wiring, persistence, adapter, clients, fakes, services as they answer | the core; implements `TaskLifecycle`, `SandboxContract` and `BuildContract` |
| `TaskApi` | pollers of `GET /tasks/{id}` | composes with `TaskRun` (EXTENDS) |
| `TaskList` | `GET /tasks`, its query, and a client that walks through the pages | component |
| `DeveloperLoop` | `DeveloperAgent.build` with its tools, and the context provider behind `retrieve` | component; implements `BuildContract` |
| `SandboxService` | endpoints, registry, controller | component; implements `SandboxContract` |
| `Verification` | `POST /verify`, its four runners, and the run that edits and verifies one worktree | composes verifier, tools, adapter and Verify node around the worktree |
| `TaskRun_proofs`, `TaskRunEnds_proofs`, `TaskApi_proofs`, `TaskList_proofs`, `DeveloperLoop_proofs`, `SandboxService_proofs`, `Verification_proofs` | | theorems (section 6) |
| `MC...` | | instances for TLC |

**TaskRun.** One run per task. `pc[t]` is the `await` at which `execute` (or the
adapter inside it) stands; each action is the code between two awaits. `status`,
`phase`, `ended`, `turns` and `row` are columns: `tasks.status`,
`task_sessions.phase`, `ended_at IS NOT NULL`, the agents with a row in
`agent_turns`, and the session's latest `verifier_runs` row. A task has at most
one session, because `open_session` is called once per run and a run is launched
once. `TxnOutcomes` is what a transaction may do: commit and return; raise and
leave nothing; raise although it committed. `InTry` and `BeforeTry` say which
locations the `except` of `execute` covers, which is what decides where an
exception goes. The planner and the developer appear as what they do to shared
state; the developer's own logic is in `DeveloperLoop`. `Spawn` to `LoopFinish`
are the adapter: `spawn` lies outside its `try`, everything in the loop inside,
and only an exception destroys the sandbox. A request to the verifier
(`request`, `reply`) is served by `ServeVerify`, which persists before it
answers, and whose error answer may come before or after the row is there; when
the caller gives up it becomes an `orphan`, which may still write its row.
`Crash` kills every run where it is, `Shutdown` cancels them, which sends each
through the `finally` blocks that cover it (`CancelTo`). A transaction that a
run is awaiting when it is cancelled may still be committed: `Commit(C)` writes
what the runs of any subset of `InTransaction` were about to write
(`StatusWritten`, `PhaseWritten`, `TurnWritten`, or `ended_at`). So a run that is
cancelled in `open_session`, before the `try`, may leave a session that nobody
closes, and one that is cancelled in `set_task_status` may have its verdict.

`env` is the set of settings the process was started with, chosen anew by
`Restart`. `faults` is the set of kinds of faults that happen in a behaviour,
drawn once from `FaultSets`: the properties that need a fault to be absent say
so, and one run checks them together with every combination. `RealPlanner`,
`Wired` and `RealVerifier` are the conditions under which
`main.default_orchestrator` replaces each fake: the planner needs the key, the
developer and with it the teardown hook need the key and the service trio, and
the verifier needs its URL *and* a real developer. `FakePlan`, `FakeBuild` and
`FakeVerify` are the fakes of `protocols.py`, which write turns and rows like
the real ones and never raise. `Plan` and `Replan` are the two calls of the
planner. A DELETE has three outcomes: it is answered (`DeleteAnswered`; 404 for
a sandbox that is gone, which changes nothing), it fails and leaves the sandbox
as it was (`DeleteFails`), or its caller stops waiting (`DeleteTimesOut`), and
then a sandbox that was alive is `deleting` until the service has finished it or
failed to (`ServeSandbox`). The adapter raises on an error answer, the hook of
`main.py` only looks for exceptions.

**TaskLifecycle.** Status, phase and `ended_at` of one task with the mechanism
left out: phases go forward one at a time, a verdict is given once by an open
session and only from the phase that entitles to it, a verdict may be retracted
to `failed` while the session is open, and a closed session is final. That
retraction had to be in the abstract specification is the first finding below. A
step may move several tasks, because a shutdown may commit for several runs.

**SandboxContract.** The life of a worktree: `none`, `spawning`, `live`,
`deleting`, `gone`. It is asked for once (and may be refused at once), it is taken
away only after its removal fell due, a removal may fail, and what is gone does
not come back. A removal falls due with a DELETE of the id, or, as the service
may see fit, when a command in the sandbox runs out of time: the code stops at
the container there, and `docs/PROGRESS.md` R7 wants the whole sandbox destroyed,
so the contract allows both. `SandboxService!ImplementsContract` shows that the
service provides this life, `TaskRun!ImplementsSandboxLife` that the sandbox the
orchestrator's runs deal with lives it; that is what ties the two levels
together.

**BuildContract.** What `TaskRun` may take for granted of the loop it leaves out:
a build works or waits for one verification, asks for one only with a turn of
the developer on record, returns while it waits for none and with its final turn
on record, and may raise at any time. Whoever runs it may be gone at any time.
`DeveloperLoop!ImplementsBuild` shows it of the loop (`Shown` is when the caller
or the verifier can see that a turn is on record), `TaskRun!ImplementsBuild` of
the builds in the orchestrator's runs, where the adapter's `destroy` on the way
out of an exception belongs to `raised`.

**TaskApi.** A client's request reads the task row, then the latest session,
then its latest verifier run. The answer is only trusted when the request is
over (`at = "idle"`).

**TaskList.** `post[t]` is a submission: its transaction begins (`Create`, which
fixes `created_at`), commits, and is answered. `Rank` is a row's place under
`ORDER BY created_at DESC, id DESC`, `Page` what `LIMIT` and `OFFSET` cut out.
The client walks with any of the limits and counts its offset; `known`, `seen`,
`twice` and `grown` are history variables of one walk.

**DeveloperLoop.** `pending` are the tool calls of the response being worked
off, `iteration` the `for` counter, the next five variables the loop's locals.
`asked`/`answered` stand for the message history: tool calls of the last
assistant message and results collected for them. `audit` stands for the rows
the recorder has written and the tokens they add up to. `gap` and `edited`
observe the worktree: what has happened to it since the last report. A tool call
is a tool name, whether the dispatcher's type checks accept its arguments, its
mode if it is a `retrieve`, and nothing else; two calls are the same signature
exactly when they are equal.
`Observe`, `EditFile`, `RunVerifier` and `Stuck` are the branches of one
iteration of the inner loop; `Verified` is what follows the report. `SearchNodes`
and `QueryGraph` are the two backends that the context provider asks, in the
order its router gives them; `hits` is what each has answered to the last call,
`told` the index that the model's observation names.

**SandboxService.** Each request is a coroutine whose stage `at[r]` is the
subprocess it runs next. A caller may name the id, so one id may be spawned
again, while a sandbox of that id exists and after it is gone. A sandbox is
therefore identified by the request that spawned it: `worktree[i]` is the one
whose worktree is at the path of id `i`, `handles[i]` the one registered,
`held[r]` the one whose handle request `r` works with. A handle names its own
container, but only the path of its worktree: `RemoveWorktree` takes away
whatever is there and marks the id `robbed` if that was somebody else's. Where
the controller does not read an exit code the effect may be missing and the
handler goes on; the id is then `spoiled`. The two history variables are what the
properties use to say precisely which promises survive which faults. The codes
are those the handlers produce: 400 for a `repo_path` that is no directory, 404
for an id that is not registered, 502 for `SandboxError` where it
is caught, 500 where an exception (a `KeyError`, a `FileNotFoundError`, a
`SandboxError` in DELETE) escapes.

**Verification.** The worktree as the place where three parts meet that share no
lock: the developer's tools (write, then verify), the verifier (four tools at
once) and the removal of the sandbox. `client` is where the run stands, `edit` a
write that the sandbox is still performing, `runner[r][c]` the four coroutines
under `asyncio.gather`, `found` what they returned, `ledger` the requests whose
row is committed. Whatever raises in the loop (`LoopFails`) ends it, and the
adapter removes the worktree. A source is reduced to what the tools find in it; what they
exit with and print (`ToolRun`, external) is turned into a status by the
functions of `pnpm.py`, which read exit code and output differently for each
tool. `ChecksRunAlone` and `ReportIsCurrent` hold although neither the service
nor the worktree is protected, because every failure to get an answer is a
`DeveloperError` that ends the build: the mutant that makes it an observation
like other tool errors lets the next edit fall into the abandoned verification.

## 3. Runs

| Run | Question | Properties | States |
|---|---|---|---|
| `taskrun_faults` | do rows, worktrees and sandboxes stay as promised under every fault? | `TypeOK`, `ShippedOnGreen`, `FailedVerifyUnshipped`, `WorktreeOutlivesGate`, `ImplementsLifecycle`, `ImplementsSandboxLife`, `ImplementsBuild` | 701,437 |
| `taskrun_settles` | does every run end, and end well, in every configuration and under every combination of faults? | `SandboxReleased`, `FallbacksRunThrough`, `VerdictStable`, `RunsAdvance`, `RunSettles` | 81,358 |
| `taskapi` | can a poller be told a verdict the rest of the answer contradicts, or one that is taken back? | `ApiTypeOK`, `AnswerSupportsVerdict`, `AnswersStand` | 103,035 |
| `tasklist` | can a walk through the pages miss a task? | `TypeOK`, `NoTaskSkipped`, `RepeatsMeanGrowth` | 324,012 |
| `developer` | are the loop's limits, ledger, verdict and retrievals right, and is it the build its caller expects? | `TypeOK`, `BudgetHolds`, `StuckExact`, `EditsVerified`, `AuditComplete`, `ToolCallsAnswered`, `RetrievalComplete`, `EveryStepCounts`, `ImplementsBuild`, `Terminates` | 459,384 |
| `sandbox` | what do concurrent requests, ids used again and failing subprocesses leave? | `TypeOK`, `RegisteredHasWorktree`, `NothingOrphaned`, `RobbedByDoubleDelete`, `DeleteIsFinal`, `TimedOutIsStopped`, `ImplementsContract` | 43,554 |
| `verification` | do the reports say what the worktree is like? | `TypeOK`, `ChecksRunAlone`, `ReportIsCurrent`, `DurableReports`, `ShipsTestedCode` | 591,795 |
| five `violation` runs | the findings of section 4 | one each | |

Each property of a passing run has a mutant of the code in `PROJECT.json` that
breaks it; the variants are the operators commented "Variant:" next to the
definition they replace.

**Bounds, and why they are enough.** The theorems of section 6 hold without any
of them; they matter for the liveness properties and for what the mutants show.

* *Tasks: 2* in `taskrun_faults` (runs share the process and nothing else, so
  two are enough for `Shutdown` and `Crash` to meet any pair of locations), 1 in
  `taskrun_settles` and `taskapi`. Liveness is a matter of each run by itself:
  no action of a run waits for another one, so a second task adds no way to get
  stuck; `RunsAdvance`, which says that nobody else sets a run back, is proved
  for all tasks. In `taskapi` the other actors are the two clients.
* *MaxLoopVerifies: 1*, and 2 in `taskrun_settles`. A verification inside the
  loop only leaves a row and possibly an orphan; a later one differs from the
  gate's in nothing that the gate looks at. Two are enough for the loop to go
  back and forth.
* *Environments:* the full deployment in `taskrun_faults`; all 16 subsets of the
  settings in `taskrun_settles`; in `taskapi` the full one and the empty one. A
  restart may change it.
* *Fault sets:* all kinds together in `taskrun_faults` and `taskapi`, each of the
  8 combinations in `taskrun_settles`. There `SandboxReleased` and
  `VerdictStable` speak of the behaviours in which neither the database nor a
  DELETE fails, `FallbacksRunThrough` of those with a database that does not
  (the first finding and the second are what happens otherwise); `RunsAdvance`
  and the first two clauses of `RunSettles` speak of all.
* *Reports: 4 of 81* in `taskrun_faults` (all pass; lint fails; typecheck fails;
  tests skipped), one in each class that the gate and `_is_green` tell apart; one
  on either side of the gate elsewhere.
* *Task list: 4 tasks, limits 1 and 2, 2 clock readings.* Two tasks of one time,
  two of another, and pages that end between and within them.
* *Developer: 3 iterations, 3 repetitions (the code's constant), budget 4 with
  costs 1 and 3, up to 2 calls per response, 7 different calls.* Repetitions run
  across turns and within one; the budget is met exactly and overshot;
  iterations, repetitions and budget can each be the limit that ends the build.
* *Sandbox: 1 id, 5 requests.* Handlers of different ids share nothing but the
  daemon. Five requests are two spawns, two DELETEs of the first and one that
  meets what they leave; or a spawn with an exec that times out, a diff and two
  DELETEs beside it. Requests are symmetric; no liveness is checked there.
* *Verification: 2 requests, 5 of 64 sources.* One request inside the loop, which
  may be abandoned, and another after it, which is the next in the loop or the
  gate's. The sources have each status of each check, and each way the tests can
  come out.
* `RunSettles` has three clauses. A launched run opens its session, or ends
  because the database or a shutdown ended it before that (also with the COMMIT
  of `open_session` done). A run with a session gets to the point where it closes
  it, whatever fails, the DELETEs and the writes of the error handlers included.
  While the database works, it ends with the session closed and, unless it was
  cancelled, with a verdict; only a shutdown that interrupts the very closing
  leaves a session open, and then the verdict is there.
* Symmetry is used only in runs without liveness. `ImplementsLifecycle`,
  `ImplementsSandboxLife` and `ImplementsBuild` are safety properties
  (`Init /\ [][...]_vars`), whose mappings treat all tasks, or requests, alike.

`CHECK_DEADLOCK FALSE` stands only where the system really stops: every task has
been submitted and the walk is over, the build has returned, the run has left
its worktree, or the behaviour has no fault that stops the process and its runs
are over.

## 4. Findings

| Run | What the code does | What it is said to do |
|---|---|---|
| `taskrun_cleanup_raises` | when the teardown DELETE raises after the verdict was committed (`graph.py:150`), the handler rewrites the row from `completed` or `failed_verify` to `failed` (`VerdictFinal`) | the end-to-end test stops polling at `completed` or `failed_verify` as terminal; `graph.py:145-147` |
| `taskrun_lost_launch` | a failure of `load_task` or `open_session` (`graph.py:129-130`) is recorded nowhere; the task stays `queued` | `runner.py:38-39`: a failed run is recorded on the task row by the orchestrator itself |
| `sandbox_setup_timeout` | a setup command over its ceiling raises past `destroy` (`controller.py:127`): container and worktree stay, unregistered | `controller.py:66-68`: a bad install never leaves a half-provisioned container behind |
| `developer_no_edit` | `run_verifier` on the untouched worktree ends the build as `passed` | `agent.py:7`: a verifier run *after an edit* |
| `verification_false_pass` | with JSON in the output, `parse_vitest_json` looks at the numbers of tests and at nothing else (`pnpm.py:158-159`): a test file that cannot be loaded counts no failed test, and beside a passing file the report says `pass` | `docs/adr/0006-verifier-reviewer-split.md:62`: false-positive test-pass claims are among the "class of bugs eliminated" |

`verification_false_pass` rests on vitest's JSON reporter as `Vitest` models it:
`numFailedTests` counts tests, a file that fails to load has none, and vitest
says so by its exit code 1 and, in the JSON, by `success` and
`numFailedTestSuites`, which the verifier's parser does not read. ADR-0006 also
concedes (line 63) that a verifier that is misconfigured can be wrong.

Seen on the way and not counted: the developer's loop stops with `passed` on a
report with skipped tests (`_is_green`), which the gate refuses
(`_verify_passed`), and does not accept a report in which lint alone fails,
which the gate ships; each is consistent with its own comment, and only the gate
decides. The theorem `ReadersDiffer` says on exactly which of the 81 reports the
two disagree.

Known to the repository and modelled as it is, not counted as findings: the
sandbox leak between Build and the end of the run (`docs/PROGRESS.md` R5;
`SandboxReleased` says exactly when), the killed container that stays registered
(R7; the contract of the sandbox allows the removal that R7 asks for), DELETE
answering 500 and keeping the handle (R13).

## 5. Fairness

* `TaskRun!FairSpec`: weak fairness on `RunStep(t)` for each task. The event
  loop runs every task that is not waiting. Every wait for a service has a
  timeout in the code (HTTP clients 120 s and 180 s, the model SDK's), after
  which the action for the failure is enabled. The services get no fairness:
  `RunSettles` holds although the verifier or the sandbox service may never
  answer. For the database there is no timeout (`platform_db/session.py`
  configures none): that a transaction comes to an end, because Postgres answers
  or because the connection breaks, is an assumption of this fairness, and a
  Postgres that keeps a connection open and never answers is outside of it. Clients need not submit, and the process
  need neither stop nor restart. The developer's loop inside a run is bounded by
  `MaxLoopVerifies` here; that it ends is `Terminates` of `DeveloperLoop`.
* `DeveloperLoop!FairSpec`: weak fairness on `Next`, one coroutine whose awaits
  return or time out.

The other specifications state no fairness: their properties are safety.

Fairness contributes very little to either property. `RunsAdvance` says that
each step of a run lowers a natural number (`Distance`), and that no step of a
service, of the process or of another run raises it; `EveryStepCounts` says the
same of a build (`Remaining`). Both are proved for all values of the constants,
so all that is left to fairness is that an enabled step is eventually taken, and
all that is left to TLC that a run or a build that is not over has one.

## 6. Proofs

Every safety property that a passing run checks is also a theorem, for every set
of tasks, clients, ids and requests, every environment, every subset of the
faults, every set of reports, calls and sources, and every limit.

| Module | Theorem | Property |
|---|---|---|
| `TaskRun_proofs` | `TypeCorrect` | `TypeOK` |
| | `RunInvariant` | the inductive invariant `RunInv` |
| | `ShipGate` | `ShippedOnGreen` |
| | `FailGate` | `FailedVerifyUnshipped` |
| | `WorktreeProtected` | `WorktreeOutlivesGate` |
| | `RowsFollowLifecycle` | `ImplementsLifecycle` (refinement) |
| | `ReadersDiffer` | where the loop's and the gate's reading of a report differ |
| `TaskRunEnds_proofs` | `FallbacksFit` | `FallbacksRunThrough` |
| | `VerdictsFinal` | `VerdictStable`, which is about behaviours whose `faults` are within `{"stop"}` |
| | `LeaksAreKnown` | `SandboxReleased`, which is about the same behaviours |
| | `SandboxesAreDeleted` | `ImplementsSandboxLife` (refinement) |
| | `BuildsKeepContract` | `ImplementsBuild` (refinement) |
| | `RunsOnlyAdvance` | `RunsAdvance` (a measure) |
| | `OneDeletePerRun` | a run that has sent its DELETE comes to no other |
| `TaskApi_proofs` | `ApiTypeCorrect`, `AnswersFit`, `AnswersAreStable` | `ApiTypeOK`, `AnswerSupportsVerdict`, `AnswersStand` |
| `TaskList_proofs` | `TypeCorrect`, `NothingSkipped`, `PagesDisjoint` | `TypeOK`, `NoTaskSkipped`, `RepeatsMeanGrowth` |
| `DeveloperLoop_proofs` | `TypeCorrect`, `BudgetIsKept`, `StuckIsExact`, `EditsAreVerified`, `AuditIsComplete`, `CallsAreAnswered`, `RetrievalIsComplete` | the invariants of `developer` |
| | `BuildsAreBounded` | `EveryStepCounts` (a measure) |
| | `StepsAreBounded` | that measure is at most `MaxIterations * (3 * MaxCalls + 1) + 3` |
| | `LoopKeepsContract` | `ImplementsBuild` (refinement) |
| `SandboxService_proofs` | `TypeCorrect`, `RegisteredIsUsable`, `OrphansAreKnown`, `RobbedOnlyByDeletes`, `DeletesAreFinal`, `TimeoutsKill` | the invariants of `sandbox` |
| | `ServiceInvariant` | the inductive invariant `ServiceInv` |
| | `ContractIsKept` | `ImplementsContract` (refinement) |
| | `SingleDeletesAreSafe` | no id is robbed if each sandbox gets one DELETE (rely and guarantee) |
| | `HandlersOnlyAdvance` | a handler comes to no stage twice and answers once (a measure) |
| `Verification_proofs` | `TypeCorrect`, `NoTwoMeet`, `ReportsAreCurrent`, `LedgerIsComplete`, `GateMeansTested` | the invariants of `verification` |
| | `LedgerStands` | rows, their reports and answers are never changed |

Assumptions are those declared with the constants: environments are sets of
settings, faults are fault kinds, results are reports, bounds are natural
numbers, limits of a page lie in 1..100, there are finitely many task ids and
they are ordered, costs are natural numbers, calls are well formed, and the
"none" values differ from the real ones. None is about the behaviour of the
system.

**Runs.** `ShippedOnGreen` is not inductive: it says nothing of the steps before
the verdict. `RunInv` ties each location of a run to its rows:

* `RowsInv`: the location determines status, phase and `ended_at`; nothing is
  decided before `complete` or `fail_verify`.
* `TurnsInv`: which agents have turns by then; a shipper turn exists only from
  `complete` on.
* `RequestInv`: who waits for the verifier, and that only a wired run does; an
  answered request's report is the latest row; a request that was given up on
  belongs to a run that has failed or will be marked failed. This is what keeps
  a late row from replacing the report that a completed task was shipped on.
* `FactsInv`: from the record of Verify to the verdict, the graph's facts are
  the report on record, green on the way to Ship and not green on the way to
  `failed_verify`.
* `VerdictInv`: what a verdict stands for; it carries the two gate properties
  past the end of the run, where the location says nothing any more.
* `SandboxInv`: from the loop to the end of the run the sandbox is alive, also
  under an orphaned verification of a run that got past Build.

It needs `ProcessInv` (no run outlives its process), because `Wired` is read
from the environment of the process and a restart may change that. That `RunInv`
is kept is proved action by action. Every action of a run touches one task, so
each case shows that the others are `Untouched`, states what changes for the
task in a few pointwise facts, proves `TaskInv(t)'`, and closes by the lemma
`OneTask`. `Crash` and `Shutdown` change all tasks at once and are proved
directly; what a shutdown that meets a COMMIT leaves in the rows is stated task by
task (`Interrupted`) in the lemma `ShutdownRows`. The refinement shows from
`TypeOK` and `RunInv` that each step is, for every task, a `Submit`, `Advance`,
`Decide`, `Retract` or `Close`, or a stutter of the three columns.

**How runs end.** Three more invariants rest on `RunInv`. `FallbackInv`: without
failing transactions only a real planner leads to the handler. `UndecidedInv`:
with at most `stop` among the faults, a run in the handler has no verdict yet, so
the handler changes none. `LeakInv`: which runs reach their end with a sandbox.
The contract needs no more than that no action but a DELETE's moves a sandbox
away from `live` (`ContractStep`). `ImplementsBuild` needs `UnbuiltInv` as well:
before the loop starts no turn of the developer is on record, so that a turn
seen later is one of this build.

**Measures.** `Course` numbers the locations so that every step goes down, with
one exception: a verification the loop asks for goes up by one, and is paid for
with two in `MaxLoopVerifies - calls[t]`. That `Distance` falls needs nothing
but `TypeOK` (`RunStepAdvances` for the run's own steps, `CourseFalls` for what
the process does to it), and so holds under every fault. `OneDeletePerRun`
follows from `Course` alone: below the locations that send a DELETE there is
none that does. For `Remaining`, `LoopInv` is needed, which says that the
iteration of pending calls was still to be had: a response pays for its calls,
at most `MaxCalls`, with what that iteration was worth.

**Answers.** `AnswerInv` says of an answer that is being put together that what
it has read still stands: a verdict, once read, is `Carried` by the other
columns in every later state (`CarriedStable`), although the column it was read
from may be rewritten to `failed` between two queries. `AnswersStand` rests on a
lemma about rows alone (`RowsStand`): whatever a step is, a verdict stays or
becomes `failed`, and a phase does not fall back.

**Pages.** `RankGrows`: a row's place never moves towards the front, whatever
commits. Hence `WalkInv`: every known row above the offset has been seen, and in
a table that has not grown the rows seen are exactly those above it.

**The loop.** `LoopInv` counts: results plus pending calls are the calls asked
for, requests are iterations, tokens are the ledger's. `RouteInv` says which
index has been asked at each stage of a retrieval. `StuckInv` relates the
counter to the history: the last `repeatCount` calls are the same and the one
before them is another, which the lemma `LastAppend` carries over a window that
forgets its oldest entry. The refinement of `BuildContract` rests on `ShownInv`:
once a report has come back a turn is on record, because `Respond` records it
before it looks at the calls. `StepSeen` sorts all actions by what the caller
sees of them.

**The service.** `ServiceInv` has `RequestInv` (which operation is at which
subprocess, and that handles come from spawns that were answered), `OwnerInv`
(until it is robbed, the worktree at an id belongs to the sandbox registered
there, to the spawn under way, or to the one a DELETE takes away, and then only
a sibling with the same handle can have come first), `RemovedInv` (past
`docker rm` there is no container), and the properties themselves. The lemmas
`WorktreeMoves`, `ContainerMoves` and `HandlesMove` say once what any step can
do to each resource; the other lemmas work from them, not from the actions.

**Verification.** `VerifyInv` says that only the client's last request can have
tools running, and only while the client waits for it or has left for good; that
is why nobody needs a lock. What a runner has found is what its tool says of the
present source.

**Only model-checked:** the liveness properties `RunSettles` and `Terminates`
(liveness under fairness is outside what the prover handles), and the five
violations.

## 7. Abstractions and what is not modelled

* What plans, edits, diffs and prompts say; costs in dollars (`pricing`, one
  multiplication per turn); the prompt registry, which reads files.
* Telemetry. Its decorators re-raise what they see, so no run depends on it. One
  hazard is listed without a property: `default_orchestrator` calls `configure`
  for every run (`main.py:118`), which builds a tracer provider, and with an
  endpoint an exporter with a thread of its own. A model would show that the
  count grows with the runs and nothing else.
* The command line sends one request and prints the answer; the console is a
  placeholder. The schema migration runs before anything else. Column types,
  tenants and money of the database models are left out.
* The client methods of the context provider that nobody calls (`get_node`,
  `shortest_path` and others).
* The loop's dispatcher lets any string pass as a mode (`agent.py:259`); the
  service then answers 422 and the build raises. `Retrieve` models it; no
  property is about it, since raising is what the code does with every failure.
* The end-to-end stubs and the demo repository, which are test material.
* In `TaskRun` a report is any element of `VerifierResults`; where it comes from
  is the subject of `Verification`. Error texts and positions are left out.
* What the four tools do to each other's files (`docs/PROGRESS.md` R10): a tool
  may break down at any time, but is not misled by another one's output.
* In `TaskRun` the sandbox service is reduced to the fate of one sandbox per
  task. Both sides implement `SandboxContract`; that a whole system of the two is
  no more than their conjunction is not stated. Robbed ids need a caller that
  sends two DELETEs for one sandbox: the orchestrator never names a `task_id`,
  the service draws a fresh uuid4, and a run sends one DELETE at most
  (`OneDeletePerRun`), which is what `SingleDeletesAreSafe` asks of callers. The
  client's timeouts appear as failures that may come at any moment.
* In `SandboxService`, `git` and `docker` are installed: a subprocess that cannot
  be started at all is modelled only where the code can cause it, in a worktree
  that is gone. The subprocesses of a service that was killed do not go on after
  `Restart`. The branch of a worktree stays when the worktree is removed, which
  nothing looks at.
* Memory, disk and container resource limits.
* Shutdown is graceful (runs are cancelled once); a second signal is `Crash`.
* `TaskList` has one client: walks of different clients share no state.

## 8. Plan

Done: all modules of section 2, their runs, and the proofs of section 6.

What could follow, in this order:

1. A composition of `TaskRun` with one `SandboxService` in place of the abstract
   sandbox. `OneDeletePerRun` and `SingleDeletesAreSafe` are its two halves: a
   run sends no second DELETE, and without one no id is robbed.
2. The telemetry setup with a bound on the number of runs, should `configure`
   come to share its provider.
