------------------------------ MODULE TaskRun ------------------------------
(***************************************************************************)
(* One orchestrator run per submitted task: Orchestrator.execute driving   *)
(* Plan -> Build -> Verify -> Ship over the database rows that the task    *)
(* API reads, the sandbox service and the verifier service.                *)
(*                                                                         *)
(* The runs of all tasks are asyncio tasks of one API process; every await *)
(* is a step here.  A repository call is one committed transaction.  The   *)
(* planner and the developer appear as what they do to the shared state:   *)
(* the turns they record, the sandbox, the verifications they ask for.     *)
(* Each is real or a fake, as the environment of the process says.         *)
(***************************************************************************)
EXTENDS Naturals, FiniteSets, Reports

CONSTANTS
  Tasks,            \* the tasks clients may submit
  Environments,     \* the environments the process may be started with
  FaultSets,        \* the kinds of faults that may come together in a behaviour
  VerifierResults,  \* the reports a verification may produce
  MaxLoopVerifies,  \* bound: verifications one build asks for
  NoReport          \* no verifier report

FaultKinds == {"db",      \* a transaction raises, rolled back or committed
               "delete",  \* DELETE /sandboxes/{id} may fail
               "stop"}    \* the API process is killed or shut down

\* The variables of the environment that main.py looks at.
Settings == {"ANTHROPIC_API_KEY", "SANDBOX_URL", "VERIFIER_URL", "CONTEXT_PROVIDER_URL"}

ASSUME EnvironmentsAssumption == Environments \subseteq SUBSET Settings
ASSUME FaultSetsAssumption == FaultSets \subseteq SUBSET FaultKinds
ASSUME ResultsAssumption == VerifierResults \subseteq Reports
ASSUME BoundAssumption == MaxLoopVerifies \in Nat
ASSUME NoReportAssumption == NoReport \notin Reports

VARIABLES
  \* rows, they survive the process
  status,   \* tasks.status
  phase,    \* task_sessions.phase
  ended,    \* task_sessions.ended_at is not NULL
  turns,    \* the agents with a row in agent_turns
  row,      \* the latest verifier_runs row of the session
  \* the run of a task: where execute() stands, and its verifier_facts
  pc, facts,
  calls,    \* verifications the developer has asked for so far
  \* the services
  sandbox,  \* the container and worktree of the task
  request,  \* POST /verify the run is waiting for
  reply,    \* its answer, when it has one
  orphan,   \* a POST /verify still running that its caller gave up on
  process,  \* the API process
  env,      \* the settings it was started with
  faults    \* the kinds of faults that happen in this behaviour

rows == <<status, phase, ended, turns, row>>
services == <<sandbox, request, reply, orphan>>
host == <<process, env, faults>>
vars == <<status, phase, ended, turns, row, pc, facts, calls, sandbox,
          request, reply, orphan, process, env, faults>>

Statuses == {"none", "queued", "completed", "failed_verify", "failed"}
Phases == {"none", "plan", "build", "verify", "ship"}
Agents == {"planner", "developer", "verifier", "shipper"}

Idle == {"absent", "rejected", "done", "killed"}
BeforeTry == {"created", "load", "open"}
InTry == {"plan", "replan", "advance_plan", "build", "spawning", "loop", "loop_verify",
          "destroy_error", "destroy_cancel", "advance_build", "verify",
          "verifying", "record_verify", "ship", "complete", "fail_verify",
          "cleanup"}
Deleting == {"destroy_error", "destroy_cancel", "cleanup"}
Locations == Idle \cup BeforeTry \cup InTry \cup {"handler", "close"}

\* "deleting": a DELETE its caller does not wait for any more.
SandboxStates == {"none", "spawning", "live", "deleting", "gone"}

TypeOK ==
  /\ status \in [Tasks -> Statuses]
  /\ phase \in [Tasks -> Phases]
  /\ ended \in [Tasks -> BOOLEAN]
  /\ turns \in [Tasks -> SUBSET Agents]
  /\ row \in [Tasks -> Reports \cup {NoReport}]
  /\ pc \in [Tasks -> Locations]
  /\ facts \in [Tasks -> Reports \cup {NoReport}]
  /\ calls \in [Tasks -> 0 .. MaxLoopVerifies]
  /\ sandbox \in [Tasks -> SandboxStates]
  /\ request \in [Tasks -> {"none", "running", "replied", "failed"}]
  /\ reply \in [Tasks -> Reports \cup {NoReport}]
  /\ orphan \in [Tasks -> BOOLEAN]
  /\ process \in {"up", "stopping", "down"}
  /\ env \in SUBSET Settings
  /\ faults \in SUBSET FaultKinds

Init ==
  /\ status = [t \in Tasks |-> "none"]
  /\ phase = [t \in Tasks |-> "none"]
  /\ ended = [t \in Tasks |-> FALSE]
  /\ turns = [t \in Tasks |-> {}]
  /\ row = [t \in Tasks |-> NoReport]
  /\ pc = [t \in Tasks |-> "absent"]
  /\ facts = [t \in Tasks |-> NoReport]
  /\ calls = [t \in Tasks |-> 0]
  /\ sandbox = [t \in Tasks |-> "none"]
  /\ request = [t \in Tasks |-> "none"]
  /\ reply = [t \in Tasks |-> NoReport]
  /\ orphan = [t \in Tasks |-> FALSE]
  /\ process = "up"
  /\ env \in Environments
  /\ faults \in FaultSets

-----------------------------------------------------------------------------
(***************************************************************************)
(* One transaction: it commits and returns, or raises.  When the           *)
(* connection breaks during COMMIT the row may be written all the same.    *)
(***************************************************************************)
TxnOutcomes == {"ok"} \cup IF "db" \in faults THEN {"rolled_back", "unacked"} ELSE {}

Committed(o) == o # "rolled_back"

Goto(t, l) == pc' = [pc EXCEPT ![t] = l]

\* The exception of a failed transaction propagates to location l.
OnReturn(t, o, next, l) == Goto(t, IF o = "ok" THEN next ELSE l)

\* Variant: the session is closed by the handler, not by `finally'.
CancelToSkipsFinally(l) ==
  IF l \in Idle THEN l
  ELSE IF l \in {"loop", "loop_verify"} THEN "destroy_cancel"
  ELSE "done"

\* The location a cancelled run goes on from: `finally' inside the try,
\* through the adapter's teardown when the developer loop was running.
CancelTo(l) ==
  IF l \in Idle THEN l
  ELSE IF l \in BeforeTry THEN "done"
  ELSE IF l \in {"loop", "loop_verify"} THEN "destroy_cancel"
  ELSE IF l \in InTry \cup {"handler"} THEN "close"
  ELSE "done"

-----------------------------------------------------------------------------
(* What main.default_orchestrator wires.  Every run reads the environment   *)
(* for itself, which is the same as long as its process lives.              *)

RealPlanner == "ANTHROPIC_API_KEY" \in env

\* The service trio and the key: the developer, and with it the hook that
\* removes its sandbox.
Wired == Settings \subseteq env

\* Variant: the URL alone makes the verifier real.
VerifierByUrl == "VERIFIER_URL" \in env

\* There is nothing on disk to verify without the real developer.
RealVerifier == "VERIFIER_URL" \in env /\ Wired

-----------------------------------------------------------------------------
(* POST /tasks: the queued row is committed, then the run is launched. *)

CreateTask(t) ==
  /\ process = "up"
  /\ pc[t] = "absent"
  /\ status[t] = "none"
  /\ \E o \in TxnOutcomes :
       /\ status' = IF Committed(o) THEN [status EXCEPT ![t] = "queued"] ELSE status
       /\ OnReturn(t, o, "created", "rejected")
  /\ UNCHANGED <<phase, ended, turns, row, facts, calls, services, host>>

Launch(t) ==
  /\ pc[t] = "created"
  /\ Goto(t, "load")
  /\ UNCHANGED <<rows, facts, calls, services, host>>

\* The two reads and writes before the try: a failure ends the run there.
LoadTask(t) ==
  /\ pc[t] = "load"
  /\ \E o \in TxnOutcomes : OnReturn(t, o, "open", "done")
  /\ UNCHANGED <<rows, facts, calls, services, host>>

OpenSession(t) ==
  /\ pc[t] = "open"
  /\ \E o \in TxnOutcomes :
       /\ phase' = IF Committed(o) THEN [phase EXCEPT ![t] = "plan"] ELSE phase
       /\ OnReturn(t, o, "plan", "done")
  /\ UNCHANGED <<status, ended, turns, row, facts, calls, services, host>>

-----------------------------------------------------------------------------
(* Plan. *)

\* One model call and its turn, recorded before the output is parsed.  A plan
\* goes on to `advance_plan', an unusable output to one of `otherwise'.
PlannerCall(t, at, otherwise) ==
  /\ pc[t] = at
  /\ \/ Goto(t, "handler") /\ UNCHANGED turns
     \/ \E o \in TxnOutcomes :
          /\ turns' = IF Committed(o) THEN [turns EXCEPT ![t] = @ \cup {"planner"}] ELSE turns
          /\ \E l \in {"advance_plan"} \cup otherwise : OnReturn(t, o, l, "handler")
  /\ UNCHANGED <<status, phase, ended, row, facts, calls, services, host>>

\* Malformed output is asked for again, truncated output is not.
Plan(t) == RealPlanner /\ PlannerCall(t, "plan", {"replan", "handler"})

Replan(t) == PlannerCall(t, "replan", {"handler"})

\* A fake agent leaves a placeholder turn.
FakeTurn(t, at, agent, next) ==
  /\ pc[t] = at
  /\ \E o \in TxnOutcomes :
       /\ turns' = IF Committed(o) THEN [turns EXCEPT ![t] = @ \cup {agent}] ELSE turns
       /\ OnReturn(t, o, next, "handler")
  /\ UNCHANGED <<status, phase, ended, row, facts, calls, services, host>>

FakePlan(t) == ~RealPlanner /\ FakeTurn(t, "plan", "planner", "advance_plan")

AdvancePhase(t, at, p, next) ==
  /\ pc[t] = at
  /\ \E o \in TxnOutcomes :
       /\ phase' = IF Committed(o) THEN [phase EXCEPT ![t] = p] ELSE phase
       /\ OnReturn(t, o, next, "handler")
  /\ UNCHANGED <<status, ended, turns, row, facts, calls, services, host>>

AdvancePlan(t) == AdvancePhase(t, "advance_plan", "plan", "build")

-----------------------------------------------------------------------------
(* Build: the fake developer, or the adapter around the ReAct loop. *)

FakeBuild(t) == ~Wired /\ FakeTurn(t, "build", "developer", "advance_build")

\* POST /sandboxes.  A bad SANDBOX_SETUP_COMMANDS raises before the request.
Spawn(t) ==
  /\ Wired
  /\ pc[t] = "build"
  /\ \/ Goto(t, "handler") /\ UNCHANGED sandbox
     \/ Goto(t, "spawning") /\ sandbox' = [sandbox EXCEPT ![t] = "spawning"]
  /\ UNCHANGED <<rows, facts, calls, request, reply, orphan, host>>

Spawned(t) ==
  /\ pc[t] = "spawning"
  /\ sandbox[t] = "live"
  /\ Goto(t, "loop")
  /\ UNCHANGED <<rows, facts, calls, services, host>>

\* Variant: a spawn that failed is asked for again.
SpawnFailsRetries(t) ==
  /\ pc[t] = "spawning"
  /\ Goto(t, "build")
  /\ UNCHANGED <<rows, facts, calls, services, host>>

\* An error answer, or the client's timeout: spawn is outside the adapter's
\* try, so nothing is destroyed, and the service may still finish its work.
SpawnFails(t) ==
  /\ pc[t] = "spawning"
  /\ Goto(t, "handler")
  /\ UNCHANGED <<rows, facts, calls, services, host>>

\* A developer turn is recorded, then its run_verifier tool is dispatched.
LoopVerify(t) ==
  /\ pc[t] = "loop"
  /\ calls[t] < MaxLoopVerifies
  /\ calls' = [calls EXCEPT ![t] = @ + 1]
  /\ turns' = [turns EXCEPT ![t] = @ \cup {"developer"}]
  /\ request' = [request EXCEPT ![t] = "running"]
  /\ Goto(t, "loop_verify")
  /\ UNCHANGED <<status, phase, ended, row, facts, sandbox, reply, orphan, host>>

\* The run takes the answer of its POST /verify.
Receive(t) ==
  /\ request' = [request EXCEPT ![t] = "none"]
  /\ reply' = [reply EXCEPT ![t] = NoReport]

LoopVerified(t) ==
  /\ pc[t] = "loop_verify"
  /\ request[t] = "replied"
  /\ Receive(t)
  /\ Goto(t, "loop")
  /\ UNCHANGED <<rows, facts, calls, sandbox, orphan, host>>

\* What the service does with a request whose caller is gone: it goes on.
Abandon(t) ==
  /\ orphan' = [orphan EXCEPT ![t] = @ \/ request[t] = "running"]
  /\ Receive(t)

\* Variant: the adapter does not destroy the sandbox of a loop that raised.
LoopErrorKeepsSandbox(t) ==
  /\ pc[t] \in {"loop", "loop_verify"}
  /\ turns' = [turns EXCEPT ![t] = @ \cup {"developer"}]
  /\ Abandon(t)
  /\ Goto(t, "handler")
  /\ UNCHANGED <<status, phase, ended, row, facts, calls, sandbox, host>>

\* Variant: an error in the loop is taken for its end.
LoopErrorReturns(t) ==
  /\ pc[t] \in {"loop", "loop_verify"}
  /\ turns' = [turns EXCEPT ![t] = @ \cup {"developer"}]
  /\ Abandon(t)
  /\ Goto(t, "advance_build")
  /\ UNCHANGED <<status, phase, ended, row, facts, calls, sandbox, host>>

\* DeveloperError: the verifier, the sandbox, the model or a record failed.
LoopError(t) ==
  /\ pc[t] \in {"loop", "loop_verify"}
  /\ \/ UNCHANGED turns
     \/ turns' = [turns EXCEPT ![t] = @ \cup {"developer"}]
  /\ Abandon(t)
  /\ Goto(t, "destroy_error")
  /\ UNCHANGED <<status, phase, ended, row, facts, calls, sandbox, host>>

\* Variant: the adapter destroys the sandbox on success too.
LoopFinishDestroys(t) ==
  /\ pc[t] = "loop"
  /\ turns' = [turns EXCEPT ![t] = @ \cup {"developer"}]
  /\ sandbox' = [sandbox EXCEPT ![t] = "deleting"]
  /\ Goto(t, "advance_build")
  /\ UNCHANGED <<status, phase, ended, row, facts, calls, request, reply, orphan, host>>

\* The loop stopped (passed, stuck, budget or iterations: all the same to
\* the graph); the final turn is recorded and the sandbox stays alive.
LoopFinish(t) ==
  /\ pc[t] = "loop"
  /\ turns' = [turns EXCEPT ![t] = @ \cup {"developer"}]
  /\ Goto(t, "advance_build")
  /\ UNCHANGED <<status, phase, ended, row, facts, calls, services, host>>

\* The answers of DELETE /sandboxes/{id}.  A sandbox that is not there any
\* more is answered 404; an error answer, or none, leaves it as it was; and
\* the service goes on with a DELETE whose caller has stopped waiting.
DeleteAnswered(t) == sandbox' = [sandbox EXCEPT ![t] = IF @ = "live" THEN "gone" ELSE @]

DeleteFails(t) == "delete" \in faults /\ UNCHANGED sandbox

DeleteTimesOut(t) ==
  /\ "delete" \in faults
  /\ sandbox' = [sandbox EXCEPT ![t] = IF @ = "live" THEN "deleting" ELSE @]

\* The adapter's `except BaseException': after an error, or on a cancellation.
\* When it raises itself, its exception replaces the one that was propagating.
Destroy(t) ==
  /\ pc[t] \in {"destroy_error", "destroy_cancel"}
  /\ \/ /\ DeleteAnswered(t)
        /\ Goto(t, IF pc[t] = "destroy_cancel" THEN "close" ELSE "handler")
     \/ /\ DeleteFails(t) \/ DeleteTimesOut(t)
        /\ Goto(t, "handler")
  /\ UNCHANGED <<rows, facts, calls, request, reply, orphan, host>>

\* Variant: the end of Build is not recorded.
AdvanceBuildForgotten(t) ==
  /\ pc[t] = "advance_build"
  /\ Goto(t, "verify")
  /\ UNCHANGED <<rows, facts, calls, services, host>>

AdvanceBuild(t) == AdvancePhase(t, "advance_build", "build", "verify")

-----------------------------------------------------------------------------
(* Verify. *)

FakeVerify(t) ==
  /\ ~RealVerifier
  /\ pc[t] = "verify"
  /\ facts' = [facts EXCEPT ![t] = AllPass]
  /\ Goto(t, "record_verify")
  /\ UNCHANGED <<rows, calls, services, host>>

\* The client raises without a worktree_path, which only a real developer
\* sets; the service answers 400 when the worktree is gone.
Verify(t) ==
  /\ RealVerifier
  /\ pc[t] = "verify"
  /\ request' = [request EXCEPT ![t] =
                   IF sandbox[t] \in {"none", "gone"} THEN "failed" ELSE "running"]
  /\ Goto(t, "verifying")
  /\ UNCHANGED <<rows, facts, calls, sandbox, reply, orphan, host>>

Verified(t) ==
  /\ pc[t] = "verifying"
  /\ request[t] = "replied"
  /\ facts' = [facts EXCEPT ![t] = reply[t]]
  /\ Receive(t)
  /\ Goto(t, "record_verify")
  /\ UNCHANGED <<rows, calls, sandbox, orphan, host>>

\* Variant: the client waits without a timeout.
VerifyFailsOnAnswer(t) ==
  /\ pc[t] = "verifying"
  /\ request[t] = "failed"
  /\ Abandon(t)
  /\ Goto(t, "handler")
  /\ UNCHANGED <<rows, facts, calls, sandbox, host>>

\* Variant: a verification that timed out is asked for again.
VerifyFailsRetries(t) ==
  /\ pc[t] = "verifying"
  /\ Abandon(t)
  /\ Goto(t, "verify")
  /\ UNCHANGED <<rows, facts, calls, sandbox, host>>

\* The client's 120 s timeout, a broken connection or an error answer.
VerifyFails(t) ==
  /\ pc[t] = "verifying"
  /\ Abandon(t)
  /\ Goto(t, "handler")
  /\ UNCHANGED <<rows, facts, calls, sandbox, host>>

\* record_node: phase and turn in one transaction; then the route is taken.
RecordNode(t, at, p, agent, next) ==
  /\ pc[t] = at
  /\ \E o \in TxnOutcomes :
       /\ phase' = IF Committed(o) THEN [phase EXCEPT ![t] = p] ELSE phase
       /\ turns' = IF Committed(o) THEN [turns EXCEPT ![t] = @ \cup {agent}] ELSE turns
       /\ OnReturn(t, o, next, "handler")
  /\ UNCHANGED <<status, ended, row, facts, calls, services, host>>

RouteAfterVerify(t) == IF VerifyPassed(facts[t]) THEN "ship" ELSE "fail_verify"

RecordVerify(t) ==
  RecordNode(t, "record_verify", "verify", "verifier", RouteAfterVerify(t))

-----------------------------------------------------------------------------
(* Ship and the end of the run. *)

RecordShip(t) == RecordNode(t, "ship", "ship", "shipper", "complete")

SetTaskStatus(t, at, s, next) ==
  /\ pc[t] = at
  /\ \E o \in TxnOutcomes :
       /\ status' = IF Committed(o) THEN [status EXCEPT ![t] = s] ELSE status
       /\ OnReturn(t, o, next, IF at = "handler" THEN "close" ELSE "handler")
  /\ UNCHANGED <<phase, ended, turns, row, facts, calls, services, host>>

\* Variant: `failed_verify' is set without looking at the final phase.
CompleteThenFailVerify(t) == SetTaskStatus(t, "complete", "completed", "fail_verify")

Complete(t) == SetTaskStatus(t, "complete", "completed", "cleanup")

\* Variant: a status outside the vocabulary of the readers.
FailVerifyMisspelt(t) == SetTaskStatus(t, "fail_verify", "verify_failed", "cleanup")

FailVerify(t) == SetTaskStatus(t, "fail_verify", "failed_verify", "cleanup")

\* The hook ignores the answer's status code but raises on a broken call,
\* inside the try: the error handler then runs after the verdict.
CleanupSandbox(t) ==
  /\ pc[t] = "cleanup"
  /\ \/ /\ ~Wired
        /\ Goto(t, "close")
        /\ UNCHANGED sandbox
     \/ /\ Wired
        /\ DeleteAnswered(t) \/ DeleteFails(t)
        /\ Goto(t, "close")
     \/ /\ Wired
        /\ DeleteFails(t) \/ DeleteTimesOut(t)
        /\ Goto(t, "handler")
  /\ UNCHANGED <<rows, facts, calls, request, reply, orphan, host>>

\* Variant: a run that raised is queued again.
HandleErrorRequeues(t) == SetTaskStatus(t, "handler", "queued", "close")

HandleError(t) == SetTaskStatus(t, "handler", "failed", "close")

CloseSession(t) ==
  /\ pc[t] = "close"
  /\ \E o \in TxnOutcomes :
       ended' = IF Committed(o) THEN [ended EXCEPT ![t] = TRUE] ELSE ended
  /\ Goto(t, "done")
  /\ UNCHANGED <<status, phase, turns, row, facts, calls, services, host>>

-----------------------------------------------------------------------------
(* The services, which outlive their callers. *)

\* A spawn ends with a registered sandbox or tears it down again; a delete
\* ends with the sandbox removed or still there.
ServeSandbox(t) ==
  /\ sandbox[t] \in {"spawning", "deleting"}
  /\ \E s \in {"live", "gone"} : sandbox' = [sandbox EXCEPT ![t] = s]
  /\ UNCHANGED <<rows, pc, facts, calls, request, reply, orphan, host>>

\* persist_run commits the row before the report is returned; an error answer
\* may come before the commit or after it.
ServeVerify(t) ==
  /\ request[t] = "running"
  /\ \/ \E f \in VerifierResults :
          /\ row' = [row EXCEPT ![t] = f]
          /\ \/ /\ reply' = [reply EXCEPT ![t] = f]
                /\ request' = [request EXCEPT ![t] = "replied"]
             \/ /\ request' = [request EXCEPT ![t] = "failed"]
                /\ UNCHANGED reply
     \/ /\ request' = [request EXCEPT ![t] = "failed"]
        /\ UNCHANGED <<row, reply>>
  /\ UNCHANGED <<status, phase, ended, turns, pc, facts, calls, sandbox, orphan, host>>

ServeOrphan(t) ==
  /\ orphan[t]
  /\ orphan' = [orphan EXCEPT ![t] = FALSE]
  /\ \/ \E f \in VerifierResults : row' = [row EXCEPT ![t] = f]
     \/ UNCHANGED row
  /\ UNCHANGED <<status, phase, ended, turns, pc, facts, calls, sandbox, request, reply,
                 host>>

-----------------------------------------------------------------------------
(* The API process: killed, or shut down with its tasks cancelled. *)

\* Requests that have reached a service are served all the same.
AbandonAll ==
  /\ orphan' = [t \in Tasks |-> orphan[t] \/ request[t] = "running"]
  /\ request' = [t \in Tasks |-> "none"]
  /\ reply' = [t \in Tasks |-> NoReport]
  /\ \E D \in SUBSET {t \in Tasks : Wired /\ pc[t] \in Deleting /\ sandbox[t] = "live"} :
       sandbox' = [t \in Tasks |-> IF t \in D THEN "deleting" ELSE sandbox[t]]

Crash ==
  /\ "stop" \in faults
  /\ process # "down"
  /\ process' = "down"
  /\ pc' = [t \in Tasks |-> IF pc[t] \in Idle THEN pc[t] ELSE "killed"]
  /\ AbandonAll
  /\ UNCHANGED <<rows, facts, calls, env, faults>>

\* What the transaction that a run awaits at a location writes: the status, the
\* phase, the agent whose turn it is.
StatusWritten == [complete |-> "completed", fail_verify |-> "failed_verify",
                  handler |-> "failed"]

PhaseWritten == [open |-> "plan", advance_plan |-> "plan", advance_build |-> "build",
                 record_verify |-> "verify", ship |-> "ship"]

TurnWritten == [plan |-> "planner", replan |-> "planner", build |-> "developer",
                loop |-> "developer", record_verify |-> "verifier", ship |-> "shipper"]

InTransaction ==
  {t \in Tasks :
     \/ pc[t] \in DOMAIN StatusWritten \cup DOMAIN PhaseWritten \cup {"close"}
     \/ pc[t] \in DOMAIN TurnWritten /\ ~(pc[t] = "build" /\ Wired)}

\* The transactions of the tasks C commit.
Commit(C) ==
  /\ status' = [t \in Tasks |-> IF t \in C /\ pc[t] \in DOMAIN StatusWritten
                                  THEN StatusWritten[pc[t]] ELSE status[t]]
  /\ phase' = [t \in Tasks |-> IF t \in C /\ pc[t] \in DOMAIN PhaseWritten
                                 THEN PhaseWritten[pc[t]] ELSE phase[t]]
  /\ turns' = [t \in Tasks |-> IF t \in C /\ pc[t] \in DOMAIN TurnWritten
                                 THEN turns[t] \cup {TurnWritten[pc[t]]} ELSE turns[t]]
  /\ ended' = [t \in Tasks |-> ended[t] \/ (t \in C /\ pc[t] = "close")]
  /\ UNCHANGED row

\* Requests being handled are finished first, then every task is cancelled; a
\* transaction whose COMMIT is under way may be written all the same.
Shutdown ==
  /\ "stop" \in faults
  /\ process = "up"
  /\ \A t \in Tasks : pc[t] # "created"
  /\ process' = "stopping"
  /\ pc' = [t \in Tasks |-> CancelTo(pc[t])]
  /\ \E C \in SUBSET InTransaction : Commit(C)
  /\ AbandonAll
  /\ UNCHANGED <<facts, calls, env, faults>>

Exit ==
  /\ process = "stopping"
  /\ \A t \in Tasks : pc[t] \in Idle
  /\ process' = "down"
  /\ UNCHANGED <<rows, pc, facts, calls, services, env, faults>>

Restart ==
  /\ process = "down"
  /\ process' = "up"
  /\ env' \in Environments
  /\ UNCHANGED <<rows, pc, facts, calls, services, faults>>

-----------------------------------------------------------------------------
\* The run's own next step: awaits that return or raise.
RunStep(t) ==
  \/ Launch(t) \/ LoadTask(t) \/ OpenSession(t)
  \/ Plan(t) \/ Replan(t) \/ FakePlan(t) \/ AdvancePlan(t)
  \/ FakeBuild(t) \/ Spawn(t) \/ Spawned(t) \/ SpawnFails(t)
  \/ LoopVerify(t) \/ LoopVerified(t) \/ LoopError(t) \/ LoopFinish(t)
  \/ Destroy(t) \/ AdvanceBuild(t)
  \/ FakeVerify(t) \/ Verify(t) \/ Verified(t) \/ VerifyFails(t) \/ RecordVerify(t)
  \/ RecordShip(t) \/ Complete(t) \/ FailVerify(t) \/ CleanupSandbox(t)
  \/ HandleError(t) \/ CloseSession(t)

ServiceStep(t) == ServeSandbox(t) \/ ServeVerify(t) \/ ServeOrphan(t)

ProcessStep == Crash \/ Shutdown \/ Exit \/ Restart

Next == \/ \E t \in Tasks : CreateTask(t) \/ RunStep(t) \/ ServiceStep(t)
        \/ ProcessStep

Spec == Init /\ [][Next]_vars

\* The event loop keeps running every task that is not waiting.  Every call to
\* a service has a client's timeout, so the services need no fairness; the waits
\* for the database have none, and end because it answers or the connection breaks.
FairSpec == Spec /\ \A t \in Tasks : WF_vars(RunStep(t))

-----------------------------------------------------------------------------
(* Properties. *)

Verdicts == {"completed", "failed_verify", "failed"}

Green(f) == \A c \in Checks \ {"lint"} : f[c] = "pass"

\* A task is only `completed' in the ship phase, with the turns of all four
\* agents recorded, and on a verification in which build, typecheck and tests
\* passed; when the developer was real, that verification is still the latest
\* verifier_runs row, whatever requests were given up on and finished late
\* (graph._verify_passed, _ship_node; verifier.persist_run).
ShippedOnGreen ==
  \A t \in Tasks : status[t] = "completed" =>
    /\ phase[t] = "ship"
    /\ turns[t] = Agents
    /\ Green(facts[t])
    /\ sandbox[t] # "none" => row[t] = facts[t]

\* A task that failed verification never reached ship: no shipper turn, hence
\* no pull request URL, and the report on record is one that failed the gate
\* (graph._route_after_verify and the status written after ainvoke).
FailedVerifyUnshipped ==
  \A t \in Tasks : status[t] = "failed_verify" =>
    /\ phase[t] = "verify"
    /\ "shipper" \notin turns[t]
    /\ row[t] # NoReport /\ ~Green(row[t])

\* Once the developer is done, nobody removes the worktree under a
\* verification that is being served, also when the orchestrator has given up
\* on it (adapter.build keeps the sandbox, execute deletes it only at the end).
WorktreeOutlivesGate ==
  \A t \in Tasks :
    \/ pc[t] = "verifying" /\ request[t] = "running"
    \/ orphan[t] /\ phase[t] \in {"build", "verify", "ship"}
    => sandbox[t] = "live"

\* As long as only the process can fail, a run that closes its session by
\* itself leaves a sandbox behind only in the two ways the code knows of: the
\* client gave up on the spawn, or the run raised between Build and its end
\* (docs/PROGRESS.md, R5).  An error inside the developer's loop never leaks,
\* and neither does a run with a verdict.
SandboxReleased ==
  faults \subseteq {"stop"} =>
    \A t \in Tasks :
      process = "up" /\ pc[t] = "close" /\ sandbox[t] \in {"spawning", "live"} =>
        /\ status[t] = "failed"
        /\ "developer" \notin turns[t] \/ phase[t] = "build"

\* Whatever part of the configuration is missing, the fakes fit together: with
\* no API key nothing but the database can make a run fail (docstring of
\* orchestrator.main: "fall back to their fakes so the graph still runs
\* end-to-end").
FallbacksRunThrough ==
  "db" \notin faults =>
    \A t \in Tasks : pc[t] = "handler" => "ANTHROPIC_API_KEY" \in env

\* A run that is over has recorded its outcome on the task row (the claim of
\* task_api.runner: a failed run is recorded by the orchestrator itself).
FailedRunRecorded == \A t \in Tasks : pc[t] = "done" => status[t] \in Verdicts

\* No step changes a verdict once it is on the row, where a poller may have
\* seen it.
VerdictFinal ==
  [][\A t \in Tasks : status[t] \in Verdicts => status'[t] = status[t]]_vars

\* Kills and shutdowns, whenever they come and whatever they interrupt, take no
\* verdict back: of the faults, only a DELETE or a database that fails can.
VerdictStable ==
  [][faults \subseteq {"stop"} =>
       \A t \in Tasks : status[t] \in Verdicts => status'[t] = status[t]]_vars

\* The rows follow the life cycle the API's readers rely on.
Lifecycle == INSTANCE TaskLifecycle
               WITH Tasks <- Tasks, status <- status, phase <- phase, ended <- ended
ImplementsLifecycle == Lifecycle!Spec

\* A sandbox is being deleted from the moment a run sends the DELETE.
SandboxState(t) ==
  IF sandbox[t] = "live" /\ pc[t] \in Deleting THEN "deleting" ELSE sandbox[t]

Contract == INSTANCE SandboxContract
              WITH Sandboxes <- Tasks, state <- [t \in Tasks |-> SandboxState(t)]

\* Between a run and the service a sandbox lives the life that the service
\* promises for it (SandboxService!ImplementsContract): a run asks for it once,
\* also when the answer to its spawn is an error or never comes, and on the run's
\* side only a DELETE of the adapter or of the end of the run, answered or given
\* up on, takes it away.
ImplementsSandboxLife == Contract!Spec

\* The build of a task: there is one while the adapter is at work.
BuildPlaces == [loop |-> "working", loop_verify |-> "verifying",
                destroy_error |-> "raised", destroy_cancel |-> "raised",
                advance_build |-> "returned"]

BuildState(t) ==
  IF pc[t] \in DOMAIN BuildPlaces /\ Wired
    THEN [at |-> BuildPlaces[pc[t]], recorded |-> "developer" \in turns[t]]
  ELSE IF pc[t] \in BeforeTry \cup {"absent", "plan", "replan", "advance_plan", "build",
                                    "spawning"}
    THEN [at |-> "none", recorded |-> FALSE]
  ELSE [at |-> "over", recorded |-> FALSE]

Build == INSTANCE BuildContract
           WITH Builds <- Tasks, build <- [t \in Tasks |-> BuildState(t)]

\* What a run takes its developer to do is what the contract says, and what the
\* loop itself does, too (DeveloperLoop!ImplementsBuild): a verification never
\* goes out nor does a build return without a turn on record, and no error on
\* the way passes for a result (adapter.build re-raises whatever it catches).
ImplementsBuild == Build!Spec

\* How far each location is from the end of a run, and from there the steps a
\* run can still take: each verification the loop may ask for is worth two.
Course == [absent |-> 19, created |-> 18, load |-> 17, open |-> 16, plan |-> 15,
           replan |-> 14, advance_plan |-> 13, build |-> 12, spawning |-> 11,
           loop |-> 10, loop_verify |-> 11, advance_build |-> 9, verify |-> 8,
           verifying |-> 7, record_verify |-> 6, ship |-> 5, complete |-> 4,
           fail_verify |-> 4, destroy_error |-> 3, destroy_cancel |-> 3, cleanup |-> 3,
           handler |-> 2, close |-> 1, done |-> 0, killed |-> 0, rejected |-> 0]

Distance(t) == Course[pc[t]] + 2 * (MaxLoopVerifies - calls[t])

\* No run goes back or stays where it is: a step of its own, a cancellation and
\* a kill each bring it closer to its end, so whatever fails, nothing is done
\* over but the planner's one repair and the loop's verifications (the graph
\* has no edge back, and each handler ends in `finally').
RunsAdvance ==
  [][\A t \in Tasks :
       RunStep(t) \/ pc'[t] # pc[t] => Distance(t)' \in 0 .. Distance(t) - 1]_vars

\* Every run comes to its end unless its process is killed, under every
\* combination of faults and with services that never answer:
\*  - it opens its session, or ends for the database's or a shutdown's sake; a
\*    cancellation that meets the COMMIT of open_session, before the `try',
\*    leaves a session behind that nobody closes;
\*  - a run with a session gets to close it, whatever raises on the way;
\*  - while the database works, it ends with its session closed, and with a
\*    verdict unless it was cancelled; only a shutdown that interrupts the very
\*    closing, after the verdict, leaves the session open.
RunSettles ==
  \A t \in Tasks :
    /\ pc[t] = "load" ~> \/ pc[t] \in {"plan", "killed"}
                         \/ pc[t] = "done" /\ ("db" \in faults \/ process = "stopping")
    /\ pc[t] = "plan" ~> pc[t] \in {"close", "killed"}
    /\ pc[t] = "plan" /\ "db" \notin faults ~>
         \/ pc[t] = "killed"
         \/ /\ pc[t] = "done"
            /\ status[t] \in Verdicts \/ process = "stopping"
            /\ ended[t] \/ (status[t] \in Verdicts /\ process = "stopping")
=============================================================================
