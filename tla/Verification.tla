---------------------------- MODULE Verification ----------------------------
(***************************************************************************)
(* One worktree, its user and the verifier service.  The user is one run:  *)
(* the developer's tools edit and ask for verifications, then the          *)
(* orchestrator's Verify node asks for the last one.  The service runs     *)
(* four tools at once in the worktree, writes the report down and answers. *)
(* Nothing but the user's own waiting keeps edits, verifications and the   *)
(* removal of the worktree apart: the service knows no lock and no         *)
(* cancellation, and the user gives up on it when a timeout expires.       *)
(***************************************************************************)
EXTENDS Naturals, FiniteSets, Reports

CONSTANTS Requests,  \* the POST /verify requests there may be
          Sources,   \* what the worktree may contain
          None       \* no request

\* Of its content only what the tools find matters: whether it compiles, has
\* the right types, is formatted, and which kinds of test files it has.
Suites == {"passing", "failing", "unloadable"}
AllSources == [compiles : BOOLEAN, typed : BOOLEAN, linted : BOOLEAN,
               suites : SUBSET Suites]

ASSUME SourcesAssumption == Sources \subseteq AllSources
ASSUME NoneAssumption == None \notin Requests

VARIABLES
  client,    \* where the run stands
  current,   \* its last request
  edit,      \* a write is under way in the sandbox
  source,    \* the content of the worktree
  present,   \* the worktree exists
  at,        \* the handler of each request
  runner,    \* the four runners of each request
  found,     \* the statuses they have returned
  code,      \* the response's status code, 0 before there is one
  ledger     \* the requests with a verifier_runs row

worktree == <<edit, source, present>>
service == <<at, runner, found, code, ledger>>
vars == <<client, current, worktree, service>>

ClientStages == {"loop", "editing", "waiting", "gate", "gating", "over", "failed", "left"}
RunnerStages == {"idle", "starting", "running", "done", "raised"}

TypeOK ==
  /\ client \in ClientStages
  /\ current \in Requests \cup {None}
  /\ edit \in BOOLEAN
  /\ source \in Sources
  /\ present \in BOOLEAN
  /\ at \in [Requests -> {"new", "checks", "respond", "answered"}]
  /\ runner \in [Requests -> [Checks -> RunnerStages]]
  /\ found \in [Requests -> [Checks -> Outcomes \cup {"none"}]]
  /\ code \in [Requests -> {0, 200, 400, 500}]
  /\ ledger \subseteq Requests

Init ==
  /\ client = "loop"
  /\ current = None
  /\ edit = FALSE
  /\ source \in Sources
  /\ present = TRUE
  /\ at = [r \in Requests |-> "new"]
  /\ runner = [r \in Requests |-> [c \in Checks |-> "idle"]]
  /\ found = [r \in Requests |-> [c \in Checks |-> "none"]]
  /\ code = [r \in Requests |-> 0]
  /\ ledger = {}

-----------------------------------------------------------------------------
(***************************************************************************)
(* What a tool exits with and what its output says: "errors" or "clean", a *)
(* report of "nothing" to run, or "noise" that no parser recognises.       *)
(* vitest counts no failed test for a test file it cannot load.  It says   *)
(* so by its exit code, and by `success' and `numFailedTestSuites' in its  *)
(* JSON, which no parser of the verifier reads.                            *)
(***************************************************************************)
Exit(ok) == IF ok THEN 0 ELSE 1

Output(ok) == IF ok THEN "clean" ELSE "errors"

Vitest(suites) ==
  [exit |-> Exit(suites = {"passing"}),
   output |-> IF suites \subseteq {"unloadable"} THEN "nothing"
              ELSE Output("failing" \notin suites)]

ToolRun(check, s) ==
  CASE check = "build" -> [exit |-> Exit(s.compiles), output |-> "noise"]
    [] check = "typecheck" -> [exit |-> Exit(s.typed), output |-> Output(s.typed)]
    [] check = "tests" -> Vitest(s.suites)
    [] check = "lint" -> [exit |-> Exit(s.linted), output |-> Output(s.linted)]

\* A tool may also break down, in a worktree that is being removed for one.
ToolRuns(check, s) == {ToolRun(check, s), [exit |-> 1, output |-> "noise"]}

BuildStatus(run) == IF run.exit = 0 THEN "pass" ELSE "fail"

\* Variant: a status the readers of a report do not know.
TypecheckStatusMisnamed(run) ==
  IF run.exit = 0 /\ run.output # "errors" THEN "pass" ELSE "errors"

TypecheckStatus(run) ==
  IF run.exit = 0 /\ run.output # "errors" THEN "pass" ELSE "fail"

\* Variant: zero tests count as passed.
ParseVitestNothing(run) ==
  IF run.output = "noise" THEN BuildStatus(run)
  ELSE IF run.output = "errors" THEN "fail" ELSE "pass"

\* The exit code only counts when there is no JSON in the output.
ParseVitest(run) ==
  IF run.output = "noise" THEN BuildStatus(run)
  ELSE IF run.output = "nothing" THEN "skip"
  ELSE IF run.output = "errors" THEN "fail" ELSE "pass"

ParseBiome(run) ==
  IF run.output = "noise" THEN BuildStatus(run)
  ELSE IF run.output = "errors" THEN "fail" ELSE "pass"

Status(check, run) ==
  CASE check = "build" -> BuildStatus(run)
    [] check = "typecheck" -> TypecheckStatus(run)
    [] check = "tests" -> ParseVitest(run)
    [] check = "lint" -> ParseBiome(run)

-----------------------------------------------------------------------------
(* The run: the developer's tools, then the Verify node. *)

\* POST /verify: 400 without a directory, else the four runners are created.
Post(r, next) ==
  /\ at[r] = "new"
  /\ current' = r
  /\ client' = next
  /\ IF present
       THEN /\ at' = [at EXCEPT ![r] = "checks"]
            /\ runner' = [runner EXCEPT ![r] = [c \in Checks |-> "starting"]]
            /\ UNCHANGED code
       ELSE /\ at' = [at EXCEPT ![r] = "answered"]
            /\ code' = [code EXCEPT ![r] = 400]
            /\ UNCHANGED runner
  /\ UNCHANGED <<worktree, found, ledger>>

\* edit_file sends its shell script to the sandbox.
EditFile ==
  /\ client = "loop"
  /\ client' = "editing"
  /\ edit' = TRUE
  /\ UNCHANGED <<current, source, present, service>>

\* The script's effect: the file is written, or truncated by a failing script.
Write ==
  /\ edit
  /\ edit' = FALSE
  /\ source' \in Sources
  /\ UNCHANGED <<client, current, present, service>>

\* Variant: the verification is asked for without waiting for the write.
EditedEarly(r) ==
  /\ client = "editing"
  /\ Post(r, "waiting")

\* The script succeeded: the verifier is run at once.
Edited(r) ==
  /\ client = "editing"
  /\ ~edit
  /\ Post(r, "waiting")

\* The script failed: an observation for the model.
EditFailed ==
  /\ client = "editing"
  /\ ~edit
  /\ client' = "loop"
  /\ UNCHANGED <<current, worktree, service>>

RunVerifier(r) == client = "loop" /\ Post(r, "waiting")

Received == code[current] = 200

Observe ==
  /\ client = "waiting"
  /\ Received
  /\ client' = "loop"
  /\ UNCHANGED <<current, worktree, service>>

\* The loop ends; it depends on no report how (passed, stuck, ...).
LoopEnds ==
  /\ client = "loop"
  /\ client' = "gate"
  /\ UNCHANGED <<current, worktree, service>>

Verify(r) == client = "gate" /\ Post(r, "gating")

Verified ==
  /\ client = "gating"
  /\ Received
  /\ client' = "over"
  /\ UNCHANGED <<current, worktree, service>>

\* Variant: a service that does not answer is an observation too.
LoopFailsObserved ==
  /\ client \in {"editing", "waiting"}
  /\ client' = "loop"
  /\ UNCHANGED <<current, worktree, service>>

\* Whatever raises ends the build: an error answer or a timeout of the client
\* (DeveloperError), the model's call or its row on the ledger, a retrieval, a
\* read or the diff.
LoopFails ==
  /\ client \in {"loop", "editing", "waiting"}
  /\ client' = "failed"
  /\ UNCHANGED <<current, worktree, service>>

\* The Verify node fails, or the process stops: nobody removes the sandbox.
Leaves ==
  /\ client \notin {"failed", "left"}
  /\ client' = "left"
  /\ UNCHANGED <<current, worktree, service>>

\* DELETE: by the adapter after an error, by the run at its end.  A write
\* that is under way ends with its container.
Destroy ==
  /\ client \in {"failed", "over"}
  /\ present
  /\ present' = FALSE
  /\ edit' = FALSE
  /\ UNCHANGED <<client, current, source, service>>

-----------------------------------------------------------------------------
(* The service. *)

\* The subprocess is created; without its directory that raises.
StartRunner(r, c) ==
  /\ runner[r][c] = "starting"
  /\ runner' = [runner EXCEPT ![r][c] = IF present THEN "running" ELSE "raised"]
  /\ UNCHANGED <<client, current, worktree, at, found, code, ledger>>

EndRunner(r, c) ==
  /\ runner[r][c] = "running"
  /\ runner' = [runner EXCEPT ![r][c] = "done"]
  /\ \E run \in ToolRuns(c, source) :
       found' = [found EXCEPT ![r][c] = Status(c, run)]
  /\ UNCHANGED <<client, current, worktree, at, code, ledger>>

\* A tool that is not there, or JSON that does not fit its model.
RunnerRaises(r, c) ==
  /\ runner[r][c] \in {"starting", "running"}
  /\ runner' = [runner EXCEPT ![r][c] = "raised"]
  /\ UNCHANGED <<client, current, worktree, at, found, code, ledger>>

Answer(r, c) == /\ at' = [at EXCEPT ![r] = "answered"]
                /\ code' = [code EXCEPT ![r] = c]

\* gather raises with the first runner that does; the others run on.
GatherRaises(r) ==
  /\ at[r] = "checks"
  /\ \E c \in Checks : runner[r][c] = "raised"
  /\ Answer(r, 500)
  /\ UNCHANGED <<client, current, worktree, runner, found, ledger>>

AllDone(r) == \A c \in Checks : runner[r][c] = "done"

\* Variant: the row is written after the response.
PersistLater(r) ==
  /\ at[r] = "checks"
  /\ AllDone(r)
  /\ Answer(r, 200)
  /\ UNCHANGED <<client, current, worktree, runner, found, ledger>>

\* persist_run: one transaction, which may fail before or after its commit.
PersistRun(r) ==
  /\ at[r] = "checks"
  /\ AllDone(r)
  /\ \/ /\ ledger' = ledger \cup {r}
        /\ at' = [at EXCEPT ![r] = "respond"]
        /\ UNCHANGED code
     \/ /\ ledger' \in {ledger, ledger \cup {r}}
        /\ Answer(r, 500)
  /\ UNCHANGED <<client, current, worktree, runner, found>>

Respond(r) ==
  /\ at[r] = "respond"
  /\ Answer(r, 200)
  /\ UNCHANGED <<client, current, worktree, runner, found, ledger>>

-----------------------------------------------------------------------------
ClientStep ==
  \/ EditFile \/ EditFailed \/ Observe \/ LoopEnds \/ Verified
  \/ LoopFails \/ Leaves \/ Destroy
  \/ \E r \in Requests : Edited(r) \/ RunVerifier(r) \/ Verify(r)

ServiceStep(r) ==
  \/ GatherRaises(r) \/ PersistRun(r) \/ Respond(r)
  \/ \E c \in Checks : StartRunner(r, c) \/ EndRunner(r, c) \/ RunnerRaises(r, c)

Next == ClientStep \/ Write \/ \E r \in Requests : ServiceStep(r)

Spec == Init /\ [][Next]_vars

-----------------------------------------------------------------------------
(* Properties. *)

Busy(r) == \E c \in Checks : runner[r][c] \in {"starting", "running"}

\* No two verifications run in the worktree at once, and none runs while a
\* write is under way, also when requests were given up on or answered 500
\* with tools still running: whoever gives up never touches the worktree
\* again but to remove it (tools._post raises DeveloperError, the adapter
\* destroys).
ChecksRunAlone ==
  /\ \A r, q \in Requests : Busy(r) /\ Busy(q) => r = q
  /\ edit => \A r \in Requests : ~Busy(r)

\* Every status the run receives is one its tool gives for the worktree as it
\* is at that moment, and so is every status the gate decides on: no report
\* of an earlier content is ever taken for one of the present content.
ReportIsCurrent ==
  client \in {"waiting", "gating", "over"} /\ current # None /\ Received =>
    \A c \in Checks : \E run \in ToolRuns(c, source) : found[current][c] = Status(c, run)

\* A report that was returned is on the ledger, and the ledger holds no
\* report of which a runner is missing (docstring of verifier.service: the
\* row is persisted before the response returns).
DurableReports ==
  /\ \A r \in Requests : code[r] = 200 => r \in ledger
  /\ \A r \in ledger : AllDone(r) /\ found[r] \in Reports

\* What the gate ships on has been built, typed and tested: a report with
\* passed tests comes from a worktree that has tests, none of which fails.
ShipsTestedCode ==
  client = "over" /\ VerifyPassed(found[current]) =>
    /\ source.compiles /\ source.typed
    /\ "passing" \in source.suites /\ "failing" \notin source.suites

\* The verifier makes no false claim that tests pass: vitest itself, run in
\* the worktree the report is about, succeeds (ADR-0006).
NoFalseTestPass ==
  client = "over" /\ found[current]["tests"] = "pass" =>
    ToolRun("tests", source).exit = 0
=============================================================================
