--------------------------- MODULE TaskRun_proofs ---------------------------
(***************************************************************************)
(* Proofs about TaskRun, for every set of tasks, all environments the      *)
(* process may be started with, and every combination of faults.           *)
(***************************************************************************)
EXTENDS TaskRun, TLAPS

USE EnvironmentsAssumption, FaultSetsAssumption, ResultsAssumption, BoundAssumption,
    NoReportAssumption

-----------------------------------------------------------------------------
\* A transition of one run, a service or the process keeps every variable in
\* its type: the statuses and phases written are those the readers know.
THEOREM TypeCorrect == Spec => []TypeOK
<1>. USE DEF TypeOK, Statuses, Phases, Agents, Idle, BeforeTry, InTry, Locations,
             SandboxStates, Goto, OnReturn, Receive, Abandon
<1>1. Init => TypeOK
  BY DEF Init
<1>2. TypeOK /\ [Next]_vars => TypeOK'
  <2>. SUFFICES ASSUME TypeOK, [Next]_vars PROVE TypeOK'
    OBVIOUS
  <2>. USE DEF rows, services, host
  <2>1. ASSUME NEW t \in Tasks, CreateTask(t) PROVE TypeOK'
    BY <2>1 DEF CreateTask
  <2>2. ASSUME NEW t \in Tasks, Launch(t) \/ LoadTask(t) \/ OpenSession(t) PROVE TypeOK'
    BY <2>2 DEF Launch, LoadTask, OpenSession
  <2>3. ASSUME NEW t \in Tasks, Plan(t) \/ Replan(t) \/ FakePlan(t) PROVE TypeOK'
    BY <2>3 DEF Plan, Replan, PlannerCall, FakePlan, FakeTurn
  <2>4. ASSUME NEW t \in Tasks, AdvancePlan(t) \/ AdvanceBuild(t) PROVE TypeOK'
    BY <2>4 DEF AdvancePlan, AdvanceBuild, AdvancePhase
  <2>5. ASSUME NEW t \in Tasks, FakeBuild(t) \/ LoopFinish(t) PROVE TypeOK'
    BY <2>5 DEF FakeBuild, FakeTurn, LoopFinish
  <2>6. ASSUME NEW t \in Tasks, Spawn(t) \/ Spawned(t) \/ SpawnFails(t) PROVE TypeOK'
    BY <2>6 DEF Spawn, Spawned, SpawnFails
  <2>7. ASSUME NEW t \in Tasks, LoopVerify(t) PROVE TypeOK'
    BY <2>7 DEF LoopVerify
  <2>8. ASSUME NEW t \in Tasks, LoopVerified(t) PROVE TypeOK'
    BY <2>8 DEF LoopVerified
  <2>9. ASSUME NEW t \in Tasks, LoopError(t) PROVE TypeOK'
    <3>1. orphan' \in [Tasks -> BOOLEAN]
      BY <2>9, Zenon DEF LoopError
    <3>. QED
      BY <2>9, <3>1 DEF LoopError
  <2>10. ASSUME NEW t \in Tasks, Destroy(t) \/ CleanupSandbox(t) PROVE TypeOK'
    BY <2>10 DEF Destroy, CleanupSandbox, DeleteAnswered, DeleteFails,
         DeleteTimesOut
  <2>11. ASSUME NEW t \in Tasks, FakeVerify(t) PROVE TypeOK'
    BY <2>11 DEF FakeVerify, AllPass, Reports, Outcomes
  <2>12. ASSUME NEW t \in Tasks, Verify(t) PROVE TypeOK'
    BY <2>12 DEF Verify
  <2>13. ASSUME NEW t \in Tasks, Verified(t) PROVE TypeOK'
    BY <2>13 DEF Verified
  <2>14. ASSUME NEW t \in Tasks, VerifyFails(t) PROVE TypeOK'
    <3>1. orphan' \in [Tasks -> BOOLEAN]
      BY <2>14, Zenon DEF VerifyFails
    <3>. QED
      BY <2>14, <3>1 DEF VerifyFails
  <2>15. ASSUME NEW t \in Tasks, RecordVerify(t) \/ RecordShip(t) PROVE TypeOK'
    BY <2>15 DEF RecordVerify, RecordShip, RecordNode, RouteAfterVerify
  <2>16. ASSUME NEW t \in Tasks, Complete(t) \/ FailVerify(t) \/ HandleError(t) PROVE TypeOK'
    BY <2>16 DEF Complete, FailVerify, HandleError, SetTaskStatus
  <2>17. ASSUME NEW t \in Tasks, CloseSession(t) PROVE TypeOK'
    BY <2>17 DEF CloseSession
  <2>18. ASSUME NEW t \in Tasks, ServiceStep(t) PROVE TypeOK'
    <3>1. CASE ServeSandbox(t)
      BY <3>1 DEF ServeSandbox
    <3>2. CASE ServeVerify(t)
      BY <3>2 DEF ServeVerify
    <3>3. CASE ServeOrphan(t)
      BY <3>3 DEF ServeOrphan
    <3>. QED
      BY <2>18, <3>1, <3>2, <3>3 DEF ServiceStep
  <2>19. CASE Crash
    BY <2>19 DEF Crash, AbandonAll
  <2>20. CASE Shutdown
    <3>1. /\ pc' \in [Tasks -> Locations]
          /\ request' \in [Tasks -> {"none", "running", "replied", "failed"}]
          /\ reply' \in [Tasks -> Reports \cup {NoReport}]
          /\ orphan' \in [Tasks -> BOOLEAN]
          /\ sandbox' \in [Tasks -> SandboxStates]
          /\ process' \in {"up", "stopping", "down"}
      BY <2>20 DEF Shutdown, AbandonAll, CancelTo
    <3>2. /\ status' \in [Tasks -> Statuses]
          /\ phase' \in [Tasks -> Phases]
          /\ turns' \in [Tasks -> SUBSET Agents]
          /\ ended' \in [Tasks -> BOOLEAN]
          /\ row' = row
      BY <2>20 DEF Shutdown, Commit, StatusWritten, PhaseWritten, TurnWritten
    <3>. QED
      BY <2>20, <3>1, <3>2 DEF Shutdown
  <2>21. CASE Exit \/ Restart
    BY <2>21 DEF Exit, Restart
  <2>22. CASE UNCHANGED vars
    BY <2>22 DEF vars
  <2>. QED
    BY <2>1, <2>2, <2>3, <2>4, <2>5, <2>6, <2>7, <2>8, <2>9, <2>10, <2>11,
       <2>12, <2>13, <2>14, <2>15, <2>16, <2>17, <2>18, <2>19, <2>20, <2>21, <2>22
       DEF Next, RunStep, ProcessStep
<1>. QED
  BY <1>1, <1>2, PTL DEF Spec

-----------------------------------------------------------------------------
\* No run outlives its process, so none sees another environment.
ProcessInv == process = "down" => \A t \in Tasks : pc[t] \in Idle

LEMMA ProcessInvStep == TypeOK /\ ProcessInv /\ [Next]_vars => ProcessInv'
<1>. SUFFICES ASSUME TypeOK, ProcessInv, [Next]_vars PROVE ProcessInv'
  OBVIOUS
<1>. USE DEF TypeOK, ProcessInv, Idle, rows, services, host
<1>1. ASSUME NEW t \in Tasks, RunStep(t) PROVE ProcessInv'
  <2>1. pc[t] \notin Idle /\ process' = process
    BY <1>1 DEF RunStep, Launch, LoadTask, OpenSession, Plan, Replan, PlannerCall, FakePlan,
       FakeTurn, AdvancePlan, AdvancePhase, FakeBuild, Spawn, Spawned, SpawnFails,
       LoopVerify, LoopVerified, LoopError, LoopFinish, Destroy, AdvanceBuild, FakeVerify,
       Verify, Verified, VerifyFails, RecordVerify, RecordShip, RecordNode, Complete,
       FailVerify, HandleError, SetTaskStatus, CleanupSandbox, CloseSession
  <2>. QED
    BY <2>1
<1>2. ASSUME NEW t \in Tasks, CreateTask(t) \/ ServiceStep(t) PROVE ProcessInv'
  BY <1>2 DEF CreateTask, ServiceStep, ServeSandbox, ServeVerify, ServeOrphan
<1>3. CASE Crash \/ Exit
  BY <1>3 DEF Crash, Exit
<1>4. CASE Shutdown \/ Restart \/ UNCHANGED vars
  BY <1>4 DEF Shutdown, Restart, vars
<1>. QED
  BY <1>1, <1>2, <1>3, <1>4 DEF Next, ProcessStep

LEMMA ProcessInvariant == Spec => []ProcessInv
<1>1. Init => ProcessInv
  BY DEF Init, ProcessInv
<1>. QED
  BY <1>1, ProcessInvStep, TypeCorrect, PTL DEF Spec

\* What a shutdown does to the rows of one task: nothing, or what the transaction
\* that its run awaits writes.
Interrupted(t) ==
  \/ status'[t] = status[t] /\ phase'[t] = phase[t] /\ turns'[t] = turns[t]
       /\ ended'[t] = ended[t]
  \/ /\ pc[t] \in {"plan", "replan", "build", "loop"}
     /\ turns'[t] = turns[t] \cup {IF pc[t] \in {"plan", "replan"} THEN "planner"
                                   ELSE "developer"}
     /\ status'[t] = status[t] /\ phase'[t] = phase[t] /\ ended'[t] = ended[t]
  \/ /\ \/ pc[t] \in {"open", "advance_plan"} /\ phase'[t] = "plan"
        \/ pc[t] = "advance_build" /\ phase'[t] = "build"
     /\ status'[t] = status[t] /\ turns'[t] = turns[t] /\ ended'[t] = ended[t]
  \/ /\ \/ /\ pc[t] = "record_verify" /\ phase'[t] = "verify"
           /\ turns'[t] = turns[t] \cup {"verifier"}
        \/ /\ pc[t] = "ship" /\ phase'[t] = "ship"
           /\ turns'[t] = turns[t] \cup {"shipper"}
     /\ status'[t] = status[t] /\ ended'[t] = ended[t]
  \/ /\ \/ pc[t] = "complete" /\ status'[t] = "completed"
        \/ pc[t] = "fail_verify" /\ status'[t] = "failed_verify"
        \/ pc[t] = "handler" /\ status'[t] = "failed"
     /\ phase'[t] = phase[t] /\ turns'[t] = turns[t] /\ ended'[t] = ended[t]
  \/ /\ pc[t] = "close" /\ ended'[t]
     /\ status'[t] = status[t] /\ phase'[t] = phase[t] /\ turns'[t] = turns[t]

LEMMA ShutdownRows ==
  ASSUME TypeOK, Shutdown, NEW t \in Tasks
  PROVE  Interrupted(t)
<1>1. PICK C \in SUBSET InTransaction : Commit(C)
  BY DEF Shutdown
<1>2. CASE t \notin C
  BY <1>1, <1>2 DEF Commit, TypeOK, Interrupted
<1>3. CASE t \in C
  <2>. DEFINE s == DOMAIN StatusWritten
              p == DOMAIN PhaseWritten
              a == DOMAIN TurnWritten
  <2>1. pc[t] \in s \cup p \cup {"close"} \cup a
    BY <1>3 DEF InTransaction
  <2>2. /\ s = {"complete", "fail_verify", "handler"}
        /\ p = {"open", "advance_plan", "advance_build", "record_verify", "ship"}
        /\ a = {"plan", "replan", "build", "loop", "record_verify", "ship"}
    BY DEF StatusWritten, PhaseWritten, TurnWritten
  <2>3. /\ status'[t] = IF pc[t] \in s THEN StatusWritten[pc[t]] ELSE status[t]
        /\ phase'[t] = IF pc[t] \in p THEN PhaseWritten[pc[t]] ELSE phase[t]
        /\ turns'[t] = IF pc[t] \in a THEN turns[t] \cup {TurnWritten[pc[t]]} ELSE turns[t]
        /\ ended'[t] = (ended[t] \/ pc[t] = "close")
    BY <1>1, <1>3 DEF Commit
  <2>4. /\ StatusWritten["complete"] = "completed"
        /\ StatusWritten["fail_verify"] = "failed_verify"
        /\ StatusWritten["handler"] = "failed"
        /\ PhaseWritten["open"] = "plan" /\ PhaseWritten["advance_plan"] = "plan"
        /\ PhaseWritten["advance_build"] = "build"
        /\ PhaseWritten["record_verify"] = "verify" /\ PhaseWritten["ship"] = "ship"
        /\ TurnWritten["plan"] = "planner" /\ TurnWritten["replan"] = "planner"
        /\ TurnWritten["build"] = "developer" /\ TurnWritten["loop"] = "developer"
        /\ TurnWritten["record_verify"] = "verifier" /\ TurnWritten["ship"] = "shipper"
    BY DEF StatusWritten, PhaseWritten, TurnWritten
  <2>. HIDE DEF s, p, a
  <2>5. CASE pc[t] \in {"complete", "fail_verify", "handler", "close"}
    <3>1. phase'[t] = phase[t] /\ turns'[t] = turns[t]
      BY <2>2, <2>3, <2>5
    <3>2. CASE pc[t] = "close"
      BY <2>2, <2>3, <3>1, <3>2 DEF Interrupted
    <3>3. CASE pc[t] # "close"
      <4>1. ended'[t] = ended[t]
        BY <2>3, <3>3 DEF TypeOK
      <4>2. status'[t] = StatusWritten[pc[t]]
        BY <2>2, <2>3, <2>5, <3>3
      <4>. QED
        BY <2>4, <2>5, <3>1, <3>3, <4>1, <4>2 DEF Interrupted
    <3>. QED
      BY <3>2, <3>3
  <2>6. CASE pc[t] \notin {"complete", "fail_verify", "handler", "close"}
    <3>1. status'[t] = status[t] /\ ended'[t] = ended[t]
      BY <2>2, <2>3, <2>6 DEF TypeOK
    <3>2. CASE pc[t] \in {"open", "advance_plan", "advance_build"}
      <4>1. phase'[t] = PhaseWritten[pc[t]] /\ turns'[t] = turns[t]
        BY <2>2, <2>3, <3>2
      <4>. QED
        BY <2>4, <3>1, <3>2, <4>1 DEF Interrupted
    <3>3. CASE pc[t] \in {"plan", "replan", "build", "loop"}
      <4>1. phase'[t] = phase[t] /\ turns'[t] = turns[t] \cup {TurnWritten[pc[t]]}
        BY <2>2, <2>3, <3>3
      <4>. QED
        BY <2>4, <3>1, <3>3, <4>1 DEF Interrupted
    <3>4. CASE pc[t] \in {"record_verify", "ship"}
      <4>1. /\ phase'[t] = PhaseWritten[pc[t]]
            /\ turns'[t] = turns[t] \cup {TurnWritten[pc[t]]}
        BY <2>2, <2>3, <3>4
      <4>. QED
        BY <2>4, <3>1, <3>4, <4>1 DEF Interrupted
    <3>. QED
      BY <2>1, <2>2, <2>6, <3>2, <3>3, <3>4
  <2>. QED
    BY <2>5, <2>6
<1>. QED
  BY <1>2, <1>3

\* There is a real verifier exactly when there is a real developer.
LEMMA RealVerifierIsWired == RealVerifier <=> Wired
  BY DEF RealVerifier, Wired, Settings

(***************************************************************************)
(* The inductive invariant.  It ties the rows of a task to the point its   *)
(* run has reached, which is what the ship gate, the life cycle of the     *)
(* rows and the protection of the worktree rest on.                        *)
(***************************************************************************)
BeforeSession == {"absent", "rejected", "created", "load", "open"}

Planning == {"plan", "replan", "advance_plan", "build", "spawning", "loop", "loop_verify",
             "destroy_error", "destroy_cancel", "advance_build"}

Verifying == {"verify", "verifying", "record_verify"}

\* The run has not written a verdict yet.
Undecided == {"created", "load", "open"} \cup Planning \cup Verifying
               \cup {"ship", "fail_verify", "complete"}

\* Nothing but the end of the run is left.
Ending == {"cleanup", "handler", "close", "done", "killed"}

\* Where execute() stands determines status, phase and ended_at.
RowsInv(t) ==
  /\ pc[t] \in Undecided => status[t] = "queued"
  /\ pc[t] = "absent" => status[t] = "none"
  /\ pc[t] \in BeforeSession => phase[t] = "none"
  /\ pc[t] \in Planning => phase[t] = "plan"
  /\ pc[t] \in Verifying => phase[t] = "build"
  /\ pc[t] \in {"ship", "fail_verify"} => phase[t] = "verify"
  /\ pc[t] = "complete" => phase[t] = "ship"
  /\ pc[t] \in {"cleanup", "handler", "close"} => status[t] # "none" /\ phase[t] # "none"
  /\ ended[t] => pc[t] = "done"

\* Which agents have turns on record.
TurnsInv(t) ==
  /\ pc[t] \in (Planning \ {"plan"}) \cup Verifying \cup {"ship", "fail_verify", "complete"}
       => "planner" \in turns[t]
  /\ pc[t] \in {"advance_build", "ship", "fail_verify", "complete"} \cup Verifying
       => "developer" \in turns[t]
  /\ pc[t] \in {"ship", "fail_verify", "complete"} => "verifier" \in turns[t]
  /\ pc[t] = "complete" => "shipper" \in turns[t]
  /\ "shipper" \in turns[t] => pc[t] \in {"complete"} \cup Ending

\* Who waits for the verifier, and that a request given up on can only touch
\* the report of a run that has already failed.
RequestInv(t) ==
  /\ request[t] # "none" => pc[t] \in {"loop_verify", "verifying"}
  /\ orphan[t] => /\ pc[t] \in {"destroy_error", "destroy_cancel"} \cup (Ending \ {"cleanup"})
                  /\ status[t] \in {"queued", "failed"}
  /\ request[t] = "replied" => reply[t] \in Reports /\ row[t] = reply[t]
  /\ pc[t] \in {"spawning", "loop", "loop_verify", "destroy_error", "destroy_cancel",
               "verifying"} => Wired

\* The facts the gate decides on are the report on record.
FactsInv(t) ==
  /\ pc[t] \in {"record_verify", "ship", "fail_verify", "complete"} =>
       IF Wired THEN facts[t] \in Reports /\ row[t] = facts[t] ELSE facts[t] = AllPass
  /\ pc[t] \in {"ship", "complete"} => Green(facts[t])
  /\ pc[t] = "fail_verify" => Wired /\ ~Green(facts[t])

\* What a verdict on the task row stands for.
VerdictInv(t) ==
  /\ status[t] \in {"completed", "failed_verify"} => pc[t] \in Ending
  /\ status[t] = "completed" => /\ phase[t] = "ship"
                                /\ turns[t] = Agents
                                /\ Green(facts[t])
                                /\ sandbox[t] # "none" => /\ row[t] = facts[t]
                                                         /\ row[t] \in Reports
  /\ status[t] = "failed_verify" => /\ phase[t] = "verify"
                                    /\ "shipper" \notin turns[t]
                                    /\ row[t] \in Reports
                                    /\ ~Green(row[t])

\* The developer's sandbox lives until the end of the run.
SandboxInv(t) ==
  /\ Wired /\ pc[t] \in {"loop", "loop_verify", "destroy_error", "destroy_cancel",
                        "advance_build", "ship", "fail_verify", "complete", "cleanup"}
                         \cup Verifying
       => sandbox[t] = "live"
  /\ pc[t] \in BeforeSession \cup {"plan", "replan", "advance_plan", "build"}
       => sandbox[t] = "none"
  /\ pc[t] \notin Idle /\ sandbox[t] # "none" => Wired
  /\ orphan[t] /\ phase[t] \in {"build", "verify", "ship"} => sandbox[t] = "live"

TaskInv(t) == /\ RowsInv(t) /\ TurnsInv(t) /\ RequestInv(t)
              /\ FactsInv(t) /\ VerdictInv(t) /\ SandboxInv(t)

RunInv == \A t \in Tasks : TaskInv(t)

-----------------------------------------------------------------------------
\* The gate and the property read a report alike: `lint' is not asked.
LEMMA GateIsGreen == \A f \in Reports : VerifyPassed(f) <=> Green(f)
  BY DEF VerifyPassed, Green, Checks, Reports

\* Where the loop and the gate judge one report differently, for every report
\* there is: a build that `passed' is not shipped exactly when its typecheck or
\* its tests were skipped, and the gate ships what was not good enough for the
\* loop exactly when lint alone failed (agent._is_green, graph._verify_passed).
THEOREM ReadersDiffer ==
  \A f \in Reports :
    /\ IsGreen(f) /\ ~VerifyPassed(f) <=>
         /\ f["build"] = "pass" /\ \A c \in Checks : f[c] # "fail"
         /\ "skip" \in {f["typecheck"], f["tests"]}
    /\ VerifyPassed(f) /\ ~IsGreen(f) <=>
         f["lint"] = "fail" /\ \A c \in Checks \ {"lint"} : f[c] = "pass"
  BY DEF IsGreen, VerifyPassed, Reports, Checks, Outcomes

\* The fake verifier's report passes the gate.
LEMMA AllPassIsGreen == AllPass \in Reports /\ Green(AllPass)
  BY DEF AllPass, Green, Checks, Reports, Outcomes

Untouched(u) ==
  /\ status'[u] = status[u] /\ phase'[u] = phase[u] /\ ended'[u] = ended[u]
  /\ turns'[u] = turns[u] /\ row'[u] = row[u] /\ pc'[u] = pc[u]
  /\ facts'[u] = facts[u] /\ sandbox'[u] = sandbox[u]
  /\ request'[u] = request[u] /\ reply'[u] = reply[u] /\ orphan'[u] = orphan[u]
  /\ Wired' = Wired

\* A step that leaves a task's own state alone keeps what holds of it.
LEMMA UntouchedKeeps ==
  ASSUME NEW u \in Tasks, TaskInv(u), Untouched(u)
  PROVE  TaskInv(u)'
  BY DEF TaskInv, Untouched, RowsInv, TurnsInv, RequestInv, FactsInv, VerdictInv,
         SandboxInv

\* A step of one task's run, or of a service on its behalf, keeps RunInv when
\* it keeps what holds of that task.
LEMMA OneTask ==
  ASSUME RunInv, NEW t \in Tasks, \A u \in Tasks \ {t} : Untouched(u), TaskInv(t)'
  PROVE  RunInv'
  BY UntouchedKeeps DEF RunInv

\* Every step of the system keeps RunInv.
LEMMA RunInvStep == TypeOK /\ ProcessInv /\ RunInv /\ [Next]_vars => RunInv'
<1>. USE DEF Goto, OnReturn, rows, services, host
<1>. SUFFICES ASSUME TypeOK, ProcessInv, RunInv, [Next]_vars PROVE RunInv'
  OBVIOUS
<1>1. \A t \in Tasks : TaskInv(t)
  BY DEF RunInv
<1>. USE DEF TypeOK, BeforeSession, Planning, Verifying, Undecided, Ending, Idle
<1>2. ASSUME NEW t \in Tasks, CreateTask(t) \/ RunStep(t) \/ ServiceStep(t) PROVE RunInv'
  <2>0. Wired' = Wired
    BY <1>2 DEF Wired, CreateTask, RunStep, Launch, LoadTask, OpenSession, Plan, Replan,
       PlannerCall, FakePlan, FakeTurn, AdvancePlan, AdvancePhase, FakeBuild, Spawn,
       Spawned, SpawnFails, LoopVerify, LoopVerified, LoopError, LoopFinish, Destroy,
       AdvanceBuild, FakeVerify, Verify, Verified, VerifyFails, RecordVerify, RecordShip,
       RecordNode, Complete, FailVerify, HandleError, SetTaskStatus, CleanupSandbox,
       CloseSession, ServiceStep, ServeSandbox, ServeVerify, ServeOrphan
  <2>1. CASE CreateTask(t)
    <3>1. \A u \in Tasks \ {t} : Untouched(u)
      BY <2>0, <2>1 DEF Untouched, CreateTask, Committed
    <3>2. /\ pc[t] = "absent" /\ pc'[t] \in {"created", "rejected"}
          /\ status[t] = "none" /\ status'[t] \in {"none", "queued"}
          /\ pc'[t] = "created" => status'[t] = "queued"
          /\ phase' = phase /\ ended' = ended /\ turns' = turns
          /\ row' = row /\ facts' = facts /\ sandbox' = sandbox
          /\ request' = request /\ reply' = reply /\ orphan' = orphan
      BY <2>1 DEF CreateTask, Committed
    <3>3. TaskInv(t)'
      BY <1>1, <2>0, <3>2 DEF TaskInv, RowsInv, TurnsInv, RequestInv, FactsInv,
         VerdictInv, SandboxInv
    <3>. QED
      BY <3>1, <3>3, OneTask
  <2>2. CASE Launch(t)
    <3>1. \A u \in Tasks \ {t} : Untouched(u)
      BY <2>0, <2>2 DEF Untouched, Launch
    <3>2. /\ pc[t] = "created" /\ pc'[t] = "load"
          /\ status' = status /\ phase' = phase /\ ended' = ended
          /\ turns' = turns /\ row' = row /\ facts' = facts
          /\ sandbox' = sandbox /\ request' = request /\ reply' = reply
          /\ orphan' = orphan
      BY <2>2 DEF Launch
    <3>3. TaskInv(t)'
      BY <1>1, <2>0, <3>2 DEF TaskInv, RowsInv, TurnsInv, RequestInv, FactsInv,
         VerdictInv, SandboxInv
    <3>. QED
      BY <3>1, <3>3, OneTask
  <2>3. CASE LoadTask(t)
    <3>1. \A u \in Tasks \ {t} : Untouched(u)
      BY <2>0, <2>3 DEF Untouched, LoadTask
    <3>2. /\ pc[t] = "load" /\ pc'[t] \in {"open", "done"}
          /\ status' = status /\ phase' = phase /\ ended' = ended
          /\ turns' = turns /\ row' = row /\ facts' = facts
          /\ sandbox' = sandbox /\ request' = request /\ reply' = reply
          /\ orphan' = orphan
      BY <2>3 DEF LoadTask
    <3>3. TaskInv(t)'
      BY <1>1, <2>0, <3>2 DEF TaskInv, RowsInv, TurnsInv, RequestInv, FactsInv,
         VerdictInv, SandboxInv
    <3>. QED
      BY <3>1, <3>3, OneTask
  <2>4. CASE OpenSession(t)
    <3>1. \A u \in Tasks \ {t} : Untouched(u)
      BY <2>0, <2>4 DEF Untouched, OpenSession, Committed
    <3>2. /\ pc[t] = "open" /\ pc'[t] \in {"plan", "done"}
          /\ phase'[t] \in {phase[t], "plan"}
          /\ pc'[t] = "plan" => phase'[t] = "plan"
          /\ status' = status /\ ended' = ended /\ turns' = turns
          /\ row' = row /\ facts' = facts /\ sandbox' = sandbox
          /\ request' = request /\ reply' = reply /\ orphan' = orphan
      BY <2>4 DEF OpenSession, Committed
    <3>3. TaskInv(t)'
      BY <1>1, <2>0, <3>2 DEF TaskInv, RowsInv, TurnsInv, RequestInv, FactsInv,
         VerdictInv, SandboxInv
    <3>. QED
      BY <3>1, <3>3, OneTask
  <2>5. CASE Plan(t) \/ Replan(t) \/ FakePlan(t)
    <3>1. \A u \in Tasks \ {t} : Untouched(u)
      BY <2>0, <2>5 DEF Untouched, Plan, Replan, PlannerCall, FakePlan, FakeTurn
    <3>2. /\ pc[t] \in {"plan", "replan"} /\ pc'[t] \in {"replan", "advance_plan", "handler"}
          /\ turns'[t] \in {turns[t], turns[t] \cup {"planner"}}
          /\ pc'[t] # "handler" => "planner" \in turns'[t]
          /\ status' = status /\ phase' = phase /\ ended' = ended
          /\ row' = row /\ facts' = facts /\ sandbox' = sandbox
          /\ request' = request /\ reply' = reply /\ orphan' = orphan
      BY <2>5 DEF Plan, Replan, PlannerCall, FakePlan, FakeTurn, Committed
    <3>3. TaskInv(t)'
      BY <1>1, <2>0, <3>2 DEF TaskInv, RowsInv, TurnsInv, RequestInv, FactsInv,
         VerdictInv, SandboxInv
    <3>. QED
      BY <3>1, <3>3, OneTask
  <2>6. CASE AdvancePlan(t)
    <3>1. \A u \in Tasks \ {t} : Untouched(u)
      BY <2>0, <2>6 DEF Untouched, AdvancePlan, AdvancePhase
    <3>2. /\ pc[t] = "advance_plan" /\ pc'[t] \in {"build", "handler"}
          /\ phase'[t] \in {phase[t], "plan"}
          /\ status' = status /\ ended' = ended /\ turns' = turns
          /\ row' = row /\ facts' = facts /\ sandbox' = sandbox
          /\ request' = request /\ reply' = reply /\ orphan' = orphan
      BY <2>6 DEF AdvancePlan, AdvancePhase
    <3>3. TaskInv(t)'
      BY <1>1, <2>0, <3>2 DEF TaskInv, RowsInv, TurnsInv, RequestInv, FactsInv,
         VerdictInv, SandboxInv
    <3>. QED
      BY <3>1, <3>3, OneTask
  <2>7. CASE FakeBuild(t)
    <3>1. \A u \in Tasks \ {t} : Untouched(u)
      BY <2>0, <2>7 DEF Untouched, FakeBuild, FakeTurn, Committed
    <3>2. /\ ~Wired
          /\ pc[t] = "build" /\ pc'[t] \in {"advance_build", "handler"}
          /\ turns'[t] \in {turns[t], turns[t] \cup {"developer"}}
          /\ pc'[t] = "advance_build" => "developer" \in turns'[t]
          /\ status' = status /\ phase' = phase /\ ended' = ended
          /\ row' = row /\ facts' = facts /\ sandbox' = sandbox
          /\ request' = request /\ reply' = reply /\ orphan' = orphan
      BY <2>7 DEF FakeBuild, FakeTurn, Committed
    <3>3. TaskInv(t)'
      BY <1>1, <2>0, <3>2 DEF TaskInv, RowsInv, TurnsInv, RequestInv, FactsInv,
         VerdictInv, SandboxInv
    <3>. QED
      BY <3>1, <3>3, OneTask
  <2>8. CASE Spawn(t)
    <3>1. \A u \in Tasks \ {t} : Untouched(u)
      BY <2>0, <2>8 DEF Untouched, Spawn
    <3>2. /\ Wired
          /\ pc[t] = "build" /\ pc'[t] \in {"spawning", "handler"}
          /\ status' = status /\ phase' = phase /\ ended' = ended
          /\ turns' = turns /\ row' = row /\ facts' = facts
          /\ request' = request /\ reply' = reply /\ orphan' = orphan
      BY <2>8 DEF Spawn
    <3>3. TaskInv(t)'
      BY <1>1, <2>0, <3>2 DEF TaskInv, RowsInv, TurnsInv, RequestInv, FactsInv,
         VerdictInv, SandboxInv
    <3>. QED
      BY <3>1, <3>3, OneTask
  <2>9. CASE Spawned(t)
    <3>1. \A u \in Tasks \ {t} : Untouched(u)
      BY <2>0, <2>9 DEF Untouched, Spawned
    <3>2. /\ pc[t] = "spawning" /\ pc'[t] = "loop"
          /\ sandbox[t] = "live"
          /\ status' = status /\ phase' = phase /\ ended' = ended
          /\ turns' = turns /\ row' = row /\ facts' = facts
          /\ sandbox' = sandbox /\ request' = request /\ reply' = reply
          /\ orphan' = orphan
      BY <2>9 DEF Spawned
    <3>3. TaskInv(t)'
      BY <1>1, <2>0, <3>2 DEF TaskInv, RowsInv, TurnsInv, RequestInv, FactsInv,
         VerdictInv, SandboxInv
    <3>. QED
      BY <3>1, <3>3, OneTask
  <2>10. CASE SpawnFails(t)
    <3>1. \A u \in Tasks \ {t} : Untouched(u)
      BY <2>0, <2>10 DEF Untouched, SpawnFails
    <3>2. /\ pc[t] = "spawning" /\ pc'[t] = "handler"
          /\ status' = status /\ phase' = phase /\ ended' = ended
          /\ turns' = turns /\ row' = row /\ facts' = facts
          /\ sandbox' = sandbox /\ request' = request /\ reply' = reply
          /\ orphan' = orphan
      BY <2>10 DEF SpawnFails
    <3>3. TaskInv(t)'
      BY <1>1, <2>0, <3>2 DEF TaskInv, RowsInv, TurnsInv, RequestInv, FactsInv,
         VerdictInv, SandboxInv
    <3>. QED
      BY <3>1, <3>3, OneTask
  <2>11. CASE LoopVerify(t)
    <3>1. \A u \in Tasks \ {t} : Untouched(u)
      BY <2>0, <2>11 DEF Untouched, LoopVerify
    <3>2. /\ pc[t] = "loop" /\ pc'[t] = "loop_verify"
          /\ turns'[t] = turns[t] \cup {"developer"}
          /\ request'[t] = "running"
          /\ status' = status /\ phase' = phase /\ ended' = ended
          /\ row' = row /\ facts' = facts /\ sandbox' = sandbox
          /\ reply' = reply /\ orphan' = orphan
      BY <2>11 DEF LoopVerify
    <3>3. TaskInv(t)'
      BY <1>1, <2>0, <3>2 DEF TaskInv, RowsInv, TurnsInv, RequestInv, FactsInv,
         VerdictInv, SandboxInv
    <3>. QED
      BY <3>1, <3>3, OneTask
  <2>12. CASE LoopVerified(t)
    <3>1. \A u \in Tasks \ {t} : Untouched(u)
      BY <2>0, <2>12 DEF Untouched, LoopVerified, Receive
    <3>2. /\ pc[t] = "loop_verify" /\ pc'[t] = "loop"
          /\ request'[t] = "none"
          /\ status' = status /\ phase' = phase /\ ended' = ended
          /\ turns' = turns /\ row' = row /\ facts' = facts
          /\ sandbox' = sandbox /\ orphan' = orphan
      BY <2>12 DEF LoopVerified, Receive
    <3>3. TaskInv(t)'
      BY <1>1, <2>0, <3>2 DEF TaskInv, RowsInv, TurnsInv, RequestInv, FactsInv,
         VerdictInv, SandboxInv
    <3>. QED
      BY <3>1, <3>3, OneTask
  <2>13. CASE LoopError(t)
    <3>1. \A u \in Tasks \ {t} : Untouched(u)
      BY <2>0, <2>13 DEF Untouched, LoopError, Abandon, Receive
    <3>2. /\ pc[t] \in {"loop", "loop_verify"} /\ pc'[t] = "destroy_error"
          /\ turns'[t] \in {turns[t], turns[t] \cup {"developer"}}
          /\ request'[t] = "none"
          /\ status' = status /\ phase' = phase /\ ended' = ended
          /\ row' = row /\ facts' = facts /\ sandbox' = sandbox
      BY <2>13 DEF LoopError, Abandon, Receive
    <3>3. TaskInv(t)'
      BY <1>1, <2>0, <3>2 DEF TaskInv, RowsInv, TurnsInv, RequestInv, FactsInv,
         VerdictInv, SandboxInv
    <3>. QED
      BY <3>1, <3>3, OneTask
  <2>14. CASE LoopFinish(t)
    <3>1. \A u \in Tasks \ {t} : Untouched(u)
      BY <2>0, <2>14 DEF Untouched, LoopFinish
    <3>2. /\ pc[t] = "loop" /\ pc'[t] = "advance_build"
          /\ turns'[t] = turns[t] \cup {"developer"}
          /\ status' = status /\ phase' = phase /\ ended' = ended
          /\ row' = row /\ facts' = facts /\ sandbox' = sandbox
          /\ request' = request /\ reply' = reply /\ orphan' = orphan
      BY <2>14 DEF LoopFinish
    <3>3. TaskInv(t)'
      BY <1>1, <2>0, <3>2 DEF TaskInv, RowsInv, TurnsInv, RequestInv, FactsInv,
         VerdictInv, SandboxInv
    <3>. QED
      BY <3>1, <3>3, OneTask
  <2>15. CASE Destroy(t)
    <3>1. \A u \in Tasks \ {t} : Untouched(u)
      BY <2>0, <2>15 DEF Untouched, Destroy, DeleteAnswered, DeleteFails,
         DeleteTimesOut
    <3>2. /\ pc[t] \in {"destroy_error", "destroy_cancel"} /\ pc'[t] \in {"handler", "close"}
          /\ status' = status /\ phase' = phase /\ ended' = ended
          /\ turns' = turns /\ row' = row /\ facts' = facts
          /\ request' = request /\ reply' = reply /\ orphan' = orphan
      BY <2>15 DEF Destroy, DeleteAnswered, DeleteFails,
         DeleteTimesOut
    <3>3. TaskInv(t)'
      BY <1>1, <2>0, <3>2 DEF TaskInv, RowsInv, TurnsInv, RequestInv, FactsInv,
         VerdictInv, SandboxInv
    <3>. QED
      BY <3>1, <3>3, OneTask
  <2>16. CASE AdvanceBuild(t)
    <3>1. \A u \in Tasks \ {t} : Untouched(u)
      BY <2>0, <2>16 DEF Untouched, AdvanceBuild, AdvancePhase, Committed
    <3>2. /\ pc[t] = "advance_build" /\ pc'[t] \in {"verify", "handler"}
          /\ phase'[t] \in {phase[t], "build"}
          /\ pc'[t] = "verify" => phase'[t] = "build"
          /\ status' = status /\ ended' = ended /\ turns' = turns
          /\ row' = row /\ facts' = facts /\ sandbox' = sandbox
          /\ request' = request /\ reply' = reply /\ orphan' = orphan
      BY <2>16 DEF AdvanceBuild, AdvancePhase, Committed
    <3>3. TaskInv(t)'
      BY <1>1, <2>0, <3>2 DEF TaskInv, RowsInv, TurnsInv, RequestInv, FactsInv,
         VerdictInv, SandboxInv
    <3>. QED
      BY <3>1, <3>3, OneTask
  <2>17. CASE FakeVerify(t)
    <3>1. \A u \in Tasks \ {t} : Untouched(u)
      BY <2>0, <2>17 DEF Untouched, FakeVerify
    <3>2. /\ ~Wired
          /\ pc[t] = "verify" /\ pc'[t] = "record_verify"
          /\ facts'[t] = AllPass
          /\ status' = status /\ phase' = phase /\ ended' = ended
          /\ turns' = turns /\ row' = row /\ sandbox' = sandbox
          /\ request' = request /\ reply' = reply /\ orphan' = orphan
      BY <2>17, RealVerifierIsWired DEF FakeVerify
    <3>3. TaskInv(t)'
      BY <1>1, <2>0, <3>2 DEF TaskInv, RowsInv, TurnsInv, RequestInv, FactsInv,
         VerdictInv, SandboxInv
    <3>. QED
      BY <3>1, <3>3, OneTask
  <2>18. CASE Verify(t)
    <3>1. \A u \in Tasks \ {t} : Untouched(u)
      BY <2>0, <2>18 DEF Untouched, Verify
    <3>2. /\ Wired
          /\ pc[t] = "verify" /\ pc'[t] = "verifying"
          /\ request'[t] \in {"running", "failed"}
          /\ status' = status /\ phase' = phase /\ ended' = ended
          /\ turns' = turns /\ row' = row /\ facts' = facts
          /\ sandbox' = sandbox /\ reply' = reply /\ orphan' = orphan
      BY <2>18, RealVerifierIsWired DEF Verify
    <3>3. TaskInv(t)'
      BY <1>1, <2>0, <3>2 DEF TaskInv, RowsInv, TurnsInv, RequestInv, FactsInv,
         VerdictInv, SandboxInv
    <3>. QED
      BY <3>1, <3>3, OneTask
  <2>19. CASE Verified(t)
    <3>1. \A u \in Tasks \ {t} : Untouched(u)
      BY <2>0, <2>19 DEF Untouched, Verified, Receive
    <3>2. /\ pc[t] = "verifying" /\ pc'[t] = "record_verify"
          /\ request[t] = "replied" /\ request'[t] = "none"
          /\ facts'[t] = reply[t]
          /\ status' = status /\ phase' = phase /\ ended' = ended
          /\ turns' = turns /\ row' = row /\ sandbox' = sandbox
          /\ orphan' = orphan
      BY <2>19 DEF Verified, Receive
    <3>3. TaskInv(t)'
      BY <1>1, <2>0, <3>2 DEF TaskInv, RowsInv, TurnsInv, RequestInv, FactsInv,
         VerdictInv, SandboxInv
    <3>. QED
      BY <3>1, <3>3, OneTask
  <2>20. CASE VerifyFails(t)
    <3>1. \A u \in Tasks \ {t} : Untouched(u)
      BY <2>0, <2>20 DEF Untouched, VerifyFails, Abandon, Receive
    <3>2. /\ pc[t] = "verifying" /\ pc'[t] = "handler"
          /\ request'[t] = "none"
          /\ status' = status /\ phase' = phase /\ ended' = ended
          /\ turns' = turns /\ row' = row /\ facts' = facts
          /\ sandbox' = sandbox
      BY <2>20 DEF VerifyFails, Abandon, Receive
    <3>3. TaskInv(t)'
      BY <1>1, <2>0, <3>2 DEF TaskInv, RowsInv, TurnsInv, RequestInv, FactsInv,
         VerdictInv, SandboxInv
    <3>. QED
      BY <3>1, <3>3, OneTask
  <2>21. CASE RecordVerify(t)
    <3>1. \A u \in Tasks \ {t} : Untouched(u)
      BY <2>0, <2>21 DEF Untouched, RecordVerify, RecordNode, Committed
    <3>2. /\ pc[t] = "record_verify" /\ pc'[t] \in {"handler", RouteAfterVerify(t)}
          /\ \/ pc'[t] = "handler" /\ phase'[t] = phase[t] /\ turns'[t] = turns[t]
             \/ phase'[t] = "verify" /\ turns'[t] = turns[t] \cup {"verifier"}
          /\ status' = status /\ ended' = ended /\ row' = row
          /\ facts' = facts /\ sandbox' = sandbox /\ request' = request
          /\ reply' = reply /\ orphan' = orphan
      BY <2>21 DEF RecordVerify, RecordNode, Committed
    <3>3. TaskInv(t)'
      BY <1>1, <2>0, <3>2, GateIsGreen, AllPassIsGreen DEF TaskInv, RowsInv, TurnsInv,
         RequestInv, FactsInv, VerdictInv, SandboxInv,
         RouteAfterVerify
    <3>. QED
      BY <3>1, <3>3, OneTask
  <2>22. CASE RecordShip(t)
    <3>1. \A u \in Tasks \ {t} : Untouched(u)
      BY <2>0, <2>22 DEF Untouched, RecordShip, RecordNode, Committed
    <3>2. /\ pc[t] = "ship" /\ pc'[t] \in {"handler", "complete"}
          /\ \/ pc'[t] = "handler" /\ phase'[t] = phase[t] /\ turns'[t] = turns[t]
             \/ phase'[t] = "ship" /\ turns'[t] = turns[t] \cup {"shipper"}
          /\ status' = status /\ ended' = ended /\ row' = row
          /\ facts' = facts /\ sandbox' = sandbox /\ request' = request
          /\ reply' = reply /\ orphan' = orphan
      BY <2>22 DEF RecordShip, RecordNode, Committed
    <3>3. TaskInv(t)'
      BY <1>1, <2>0, <3>2 DEF TaskInv, RowsInv, TurnsInv, RequestInv, FactsInv,
         VerdictInv, SandboxInv
    <3>. QED
      BY <3>1, <3>3, OneTask
  <2>23. CASE Complete(t)
    <3>1. \A u \in Tasks \ {t} : Untouched(u)
      BY <2>0, <2>23 DEF Untouched, Complete, SetTaskStatus, Committed
    <3>2. /\ pc[t] = "complete" /\ pc'[t] \in {"handler", "cleanup"}
          /\ status'[t] \in {status[t], "completed"}
          /\ phase' = phase /\ ended' = ended /\ turns' = turns
          /\ row' = row /\ facts' = facts /\ sandbox' = sandbox
          /\ request' = request /\ reply' = reply /\ orphan' = orphan
      BY <2>23 DEF Complete, SetTaskStatus, Committed
    <3>3. TaskInv(t)'
      BY <1>1, <2>0, <3>2 DEF TaskInv, RowsInv, TurnsInv, RequestInv, FactsInv,
         VerdictInv, SandboxInv, Agents
    <3>. QED
      BY <3>1, <3>3, OneTask
  <2>24. CASE FailVerify(t)
    <3>1. \A u \in Tasks \ {t} : Untouched(u)
      BY <2>0, <2>24 DEF Untouched, FailVerify, SetTaskStatus, Committed
    <3>2. /\ pc[t] = "fail_verify" /\ pc'[t] \in {"handler", "cleanup"}
          /\ status'[t] \in {status[t], "failed_verify"}
          /\ phase' = phase /\ ended' = ended /\ turns' = turns
          /\ row' = row /\ facts' = facts /\ sandbox' = sandbox
          /\ request' = request /\ reply' = reply /\ orphan' = orphan
      BY <2>24 DEF FailVerify, SetTaskStatus, Committed
    <3>3. TaskInv(t)'
      BY <1>1, <2>0, <3>2 DEF TaskInv, RowsInv, TurnsInv, RequestInv, FactsInv,
         VerdictInv, SandboxInv
    <3>. QED
      BY <3>1, <3>3, OneTask
  <2>25. CASE CleanupSandbox(t)
    <3>1. \A u \in Tasks \ {t} : Untouched(u)
      BY <2>0, <2>25 DEF Untouched, CleanupSandbox, DeleteAnswered, DeleteFails,
         DeleteTimesOut
    <3>2. /\ pc[t] = "cleanup" /\ pc'[t] \in {"handler", "close"}
          /\ sandbox'[t] = sandbox[t] \/ Wired
          /\ status' = status /\ phase' = phase /\ ended' = ended
          /\ turns' = turns /\ row' = row /\ facts' = facts
          /\ request' = request /\ reply' = reply /\ orphan' = orphan
      BY <2>25 DEF CleanupSandbox, DeleteAnswered, DeleteFails,
         DeleteTimesOut
    <3>3. TaskInv(t)'
      BY <1>1, <2>0, <3>2 DEF TaskInv, RowsInv, TurnsInv, RequestInv, FactsInv,
         VerdictInv, SandboxInv
    <3>. QED
      BY <3>1, <3>3, OneTask
  <2>26. CASE HandleError(t)
    <3>1. \A u \in Tasks \ {t} : Untouched(u)
      BY <2>0, <2>26 DEF Untouched, HandleError, SetTaskStatus, Committed
    <3>2. /\ pc[t] = "handler" /\ pc'[t] = "close"
          /\ status'[t] \in {status[t], "failed"}
          /\ phase' = phase /\ ended' = ended /\ turns' = turns
          /\ row' = row /\ facts' = facts /\ sandbox' = sandbox
          /\ request' = request /\ reply' = reply /\ orphan' = orphan
      BY <2>26 DEF HandleError, SetTaskStatus, Committed
    <3>3. TaskInv(t)'
      BY <1>1, <2>0, <3>2 DEF TaskInv, RowsInv, TurnsInv, RequestInv, FactsInv,
         VerdictInv, SandboxInv
    <3>. QED
      BY <3>1, <3>3, OneTask
  <2>27. CASE CloseSession(t)
    <3>1. \A u \in Tasks \ {t} : Untouched(u)
      BY <2>0, <2>27 DEF Untouched, CloseSession, Committed
    <3>2. /\ pc[t] = "close" /\ pc'[t] = "done"
          /\ status' = status /\ phase' = phase /\ turns' = turns
          /\ row' = row /\ facts' = facts /\ sandbox' = sandbox
          /\ request' = request /\ reply' = reply /\ orphan' = orphan
      BY <2>27 DEF CloseSession, Committed
    <3>3. TaskInv(t)'
      BY <1>1, <2>0, <3>2 DEF TaskInv, RowsInv, TurnsInv, RequestInv, FactsInv,
         VerdictInv, SandboxInv
    <3>. QED
      BY <3>1, <3>3, OneTask
  <2>28. CASE ServeSandbox(t)
    <3>1. \A u \in Tasks \ {t} : Untouched(u)
      BY <2>0, <2>28 DEF Untouched, ServeSandbox
    <3>2. /\ sandbox[t] \in {"spawning", "deleting"}
          /\ status' = status /\ phase' = phase /\ ended' = ended
          /\ turns' = turns /\ row' = row /\ pc' = pc /\ facts' = facts
          /\ request' = request /\ reply' = reply /\ orphan' = orphan
      BY <2>28 DEF ServeSandbox
    <3>3. TaskInv(t)'
      BY <1>1, <2>0, <3>2 DEF TaskInv, RowsInv, TurnsInv, RequestInv, FactsInv,
         VerdictInv, SandboxInv
    <3>. QED
      BY <3>1, <3>3, OneTask
  <2>29. CASE ServeVerify(t)
    <3>1. \A u \in Tasks \ {t} : Untouched(u)
      BY <2>0, <2>29 DEF Untouched, ServeVerify
    <3>2. /\ request[t] = "running" /\ request'[t] \in {"replied", "failed"}
          /\ \/ request'[t] = "failed" /\ row'[t] = row[t] /\ reply'[t] = reply[t]
             \/ row'[t] \in Reports /\ (request'[t] = "failed" \/ reply'[t] = row'[t])
          /\ status' = status /\ phase' = phase /\ ended' = ended
          /\ turns' = turns /\ pc' = pc /\ facts' = facts
          /\ sandbox' = sandbox /\ orphan' = orphan
      BY <2>29 DEF ServeVerify
    <3>3. TaskInv(t)'
      BY <1>1, <2>0, <3>2 DEF TaskInv, RowsInv, TurnsInv, RequestInv, FactsInv,
         VerdictInv, SandboxInv
    <3>. QED
      BY <3>1, <3>3, OneTask
  <2>30. CASE ServeOrphan(t)
    <3>1. \A u \in Tasks \ {t} : Untouched(u)
      BY <2>0, <2>30 DEF Untouched, ServeOrphan
    <3>2. /\ orphan[t] /\ ~orphan'[t]
          /\ status' = status /\ phase' = phase /\ ended' = ended
          /\ turns' = turns /\ pc' = pc /\ facts' = facts
          /\ sandbox' = sandbox /\ request' = request /\ reply' = reply
      BY <2>30 DEF ServeOrphan
    <3>3. TaskInv(t)'
      BY <1>1, <2>0, <3>2 DEF TaskInv, RowsInv, TurnsInv, RequestInv, FactsInv,
         VerdictInv, SandboxInv
    <3>. QED
      BY <3>1, <3>3, OneTask
  <2>. QED
    BY <1>2, <2>1, <2>2, <2>3, <2>4, <2>5, <2>6, <2>7, <2>8, <2>9, <2>10, <2>11,
       <2>12, <2>13, <2>14, <2>15, <2>16, <2>17, <2>18, <2>19, <2>20, <2>21,
       <2>22, <2>23, <2>24, <2>25, <2>26, <2>27, <2>28, <2>29, <2>30 DEF RunStep, ServiceStep
<1>3. CASE Crash \/ Shutdown
  <2>. SUFFICES ASSUME NEW u \in Tasks PROVE TaskInv(u)'
    BY DEF RunInv
  <2>1. /\ row' = row /\ facts' = facts
        /\ request'[u] = "none"
        /\ orphan'[u] = (orphan[u] \/ request[u] = "running")
        /\ \/ sandbox'[u] = sandbox[u]
           \/ pc[u] \in Deleting /\ Wired
        /\ Wired' = Wired
    BY <1>3 DEF Crash, Shutdown, AbandonAll, Commit, Wired
  <2>2. CASE Crash
    <3>1. /\ pc'[u] = IF pc[u] \in Idle THEN pc[u] ELSE "killed"
          /\ status' = status /\ phase' = phase /\ ended' = ended /\ turns' = turns
      BY <2>2 DEF Crash
    <3>. QED
      BY <1>1, <2>1, <3>1 DEF Idle, Deleting, TaskInv, RowsInv, TurnsInv, RequestInv,
         FactsInv, VerdictInv, SandboxInv
  <2>3. CASE Shutdown
    <3>1. pc[u] # "created" /\ pc'[u] = CancelTo(pc[u])
      BY <2>3 DEF Shutdown
    <3>2. Interrupted(u)
      BY <2>3, ShutdownRows
    <3>. USE <1>1, <2>1, <3>1, <3>2 DEF Interrupted, CancelTo, Idle, BeforeTry, InTry,
             Locations, Deleting, TaskInv
    <3>3. RowsInv(u)'
      BY DEF RowsInv, VerdictInv
    <3>4. TurnsInv(u)'
      BY DEF TurnsInv
    <3>5. RequestInv(u)'
      BY DEF RequestInv, RowsInv
    <3>6. FactsInv(u)'
      BY DEF FactsInv
    <3>7. VerdictInv(u)'
      BY DEF VerdictInv, RowsInv, TurnsInv, FactsInv, SandboxInv, Agents
    <3>8. SandboxInv(u)'
      BY DEF SandboxInv, RequestInv, RowsInv
    <3>. QED
      BY <3>3, <3>4, <3>5, <3>6, <3>7, <3>8
  <2>. QED
    BY <1>3, <2>2, <2>3
<1>4. CASE Exit \/ UNCHANGED vars
  <2>1. \A t \in Tasks : Untouched(t)
    BY <1>4 DEF Untouched, Exit, vars, Wired
  <2>. QED
    BY <1>1, <2>1, UntouchedKeeps DEF RunInv
<1>5. CASE Restart
  <2>. SUFFICES ASSUME NEW u \in Tasks PROVE TaskInv(u)'
    BY DEF RunInv
  <2>1. /\ pc[u] \in Idle /\ pc' = pc
        /\ status' = status /\ phase' = phase /\ ended' = ended
        /\ turns' = turns /\ row' = row /\ facts' = facts /\ sandbox' = sandbox
        /\ request' = request /\ reply' = reply /\ orphan' = orphan
    BY <1>5 DEF Restart, ProcessInv
  <2>. QED
    BY <1>1, <2>1 DEF TaskInv, RowsInv, TurnsInv, RequestInv, FactsInv, VerdictInv,
       SandboxInv
<1>. QED
  BY <1>2, <1>3, <1>4, <1>5 DEF Next, ProcessStep

\* RunInv holds throughout: at every point of a run its rows, its facts, its
\* requests and its sandbox are as execute() left them, whatever failed.
THEOREM RunInvariant == Spec => []RunInv
<1>1. Init => RunInv
  BY DEF Init, RunInv, TaskInv, RowsInv, TurnsInv, RequestInv, FactsInv, VerdictInv,
     SandboxInv, BeforeSession, Planning, Verifying, Undecided, Ending, Idle
<1>. QED
  BY <1>1, RunInvStep, TypeCorrect, ProcessInvariant, PTL DEF Spec

-----------------------------------------------------------------------------
\* The ship gate: no interleaving of runs, late verifications, crashes and
\* failed transactions completes a task whose latest report is not green.
THEOREM ShipGate == Spec => []ShippedOnGreen
<1>1. RunInv => ShippedOnGreen
  BY DEF RunInv, TaskInv, VerdictInv, ShippedOnGreen
<1>. QED
  BY <1>1, RunInvariant, PTL

\* A task that failed verification has no shipper turn, and a red report.
THEOREM FailGate == Spec => []FailedVerifyUnshipped
<1>1. RunInv => FailedVerifyUnshipped
  BY NoReportAssumption DEF RunInv, TaskInv, VerdictInv, FailedVerifyUnshipped
<1>. QED
  BY <1>1, RunInvariant, PTL

\* The worktree is there for as long as a verification of it is served, the
\* gate's own and those it gave up on.
THEOREM WorktreeProtected == Spec => []WorktreeOutlivesGate
<1>1. RunInv => WorktreeOutlivesGate
  BY DEF RunInv, TaskInv, RequestInv, SandboxInv, Verifying, WorktreeOutlivesGate
<1>. QED
  BY <1>1, RunInvariant, PTL

-----------------------------------------------------------------------------
\* Each transaction is one step of TaskLifecycle, and everything else leaves
\* the rows alone.
LEMMA LifecycleStep ==
  ASSUME TypeOK, TypeOK', RunInv, [Next]_vars
  PROVE  \A t \in Tasks : Lifecycle!Stays(t) \/ Lifecycle!Moves(t)
<1>. SUFFICES ASSUME NEW t \in Tasks PROVE Lifecycle!Stays(t) \/ Lifecycle!Moves(t)
  OBVIOUS
<1>. USE DEF TypeOK, rows, services, host
<1>1. RowsInv(t) /\ VerdictInv(t)
  BY DEF RunInv, TaskInv
<1>2. ASSUME NEW u \in Tasks \ {t}, CreateTask(u) \/ RunStep(u) \/ ServiceStep(u)
      PROVE  Lifecycle!Stays(t)
  BY <1>2 DEF Lifecycle!Stays, CreateTask, RunStep, Launch, LoadTask, OpenSession, Plan,
     Replan, PlannerCall, FakePlan, FakeTurn, AdvancePlan, AdvancePhase, FakeBuild, Spawn,
     Spawned, SpawnFails, LoopVerify, LoopVerified, LoopError, LoopFinish, Destroy,
     AdvanceBuild, FakeVerify, Verify, Verified, VerifyFails, RecordVerify, RecordShip,
     RecordNode, Complete, FailVerify, HandleError, SetTaskStatus, CleanupSandbox,
     CloseSession, ServiceStep, ServeSandbox, ServeVerify, ServeOrphan
<1>3. ASSUME CreateTask(t) PROVE Lifecycle!Stays(t) \/ Lifecycle!Submit(t)
  BY <1>3 DEF CreateTask, Lifecycle!Stays, Lifecycle!Submit
<1>4. ASSUME \/ OpenSession(t) \/ AdvancePlan(t) \/ AdvanceBuild(t)
             \/ RecordVerify(t) \/ RecordShip(t)
      PROVE  Lifecycle!Stays(t) \/ Lifecycle!Advance(t)
  BY <1>1, <1>4 DEF OpenSession, AdvancePlan, AdvanceBuild, AdvancePhase, RecordVerify,
     RecordShip, RecordNode, RowsInv, Undecided, Planning, Verifying, BeforeSession,
     Lifecycle!Stays, Lifecycle!Advance, Lifecycle!Follows
<1>5. pc[t] = "handler" => status[t] \in {"queued", "completed", "failed_verify", "failed"}
  BY <1>1 DEF RowsInv, Statuses
<1>6. ASSUME Complete(t) \/ FailVerify(t) \/ HandleError(t)
      PROVE  Lifecycle!Stays(t) \/ Lifecycle!Decide(t) \/ Lifecycle!Retract(t)
  BY <1>1, <1>5, <1>6 DEF Complete, FailVerify, HandleError, SetTaskStatus, RowsInv, Undecided,
     Lifecycle!Stays, Lifecycle!Decide, Lifecycle!Retract, Lifecycle!Open,
     Lifecycle!Verdicts
<1>7. ASSUME CloseSession(t) PROVE Lifecycle!Stays(t) \/ Lifecycle!Close(t)
  BY <1>1, <1>7 DEF CloseSession, RowsInv, Lifecycle!Stays, Lifecycle!Close, Lifecycle!Open
<1>8. ASSUME \/ Launch(t) \/ LoadTask(t)
             \/ Plan(t) \/ Replan(t) \/ FakePlan(t) \/ FakeBuild(t)
             \/ Spawn(t) \/ Spawned(t) \/ SpawnFails(t)
             \/ LoopVerify(t) \/ LoopVerified(t) \/ LoopError(t) \/ LoopFinish(t)
             \/ Destroy(t) \/ FakeVerify(t) \/ Verify(t) \/ Verified(t)
             \/ VerifyFails(t) \/ CleanupSandbox(t) \/ ServiceStep(t)
      PROVE  Lifecycle!Stays(t)
  BY <1>8 DEF Lifecycle!Stays, Launch, LoadTask, Plan, Replan, PlannerCall, FakePlan, FakeTurn,
     FakeBuild, Spawn, Spawned, SpawnFails, LoopVerify, LoopVerified, LoopError, LoopFinish,
     Destroy, FakeVerify, Verify, Verified, VerifyFails, CleanupSandbox, ServiceStep,
     ServeSandbox, ServeVerify, ServeOrphan
<1>9. CASE Crash \/ Exit \/ Restart \/ UNCHANGED vars
  BY <1>9 DEF Lifecycle!Stays, Crash, Exit, Restart, vars
<1>10. CASE Shutdown
  <2>1. Interrupted(t)
    BY <1>10, ShutdownRows
  <2>. QED
    BY <1>1, <1>5, <2>1 DEF Interrupted, RowsInv, Undecided, Planning, Verifying,
       BeforeSession, Lifecycle!Stays, Lifecycle!Moves, Lifecycle!Advance, Lifecycle!Follows,
       Lifecycle!Decide, Lifecycle!Retract, Lifecycle!Close, Lifecycle!Open,
       Lifecycle!Verdicts
<1>. QED
  BY <1>2, <1>3, <1>4, <1>6, <1>7, <1>8, <1>9, <1>10
     DEF Next, RunStep, ProcessStep, Lifecycle!Moves

\* The orchestrator implements the life cycle of the rows.
THEOREM RowsFollowLifecycle == Spec => ImplementsLifecycle
<1>1. Init => Lifecycle!Init
  BY DEF Init, Lifecycle!Init
<1>2. TypeOK /\ TypeOK' /\ RunInv /\ [Next]_vars => [Lifecycle!Next]_(Lifecycle!vars)
  BY LifecycleStep DEF TypeOK, Statuses, Phases, Lifecycle!Next, Lifecycle!Statuses,
     Lifecycle!Verdicts, Lifecycle!Phases
<1>. QED
  BY <1>1, <1>2, TypeCorrect, RunInvariant, PTL DEF Spec, ImplementsLifecycle, Lifecycle!Spec

\* A later state of a task's rows: of its status, of its phase.
StatusStands(old, new) == old \in Verdicts => new \in {old, "failed"}

PhaseStands(old, new) ==
  \/ old = new
  \/ old = "none"
  \/ old = "plan" /\ new # "none"
  \/ old = "build" /\ new \in {"verify", "ship"}
  \/ old = "verify" /\ new = "ship"

\* What the rows of a task say is never unsaid.
LEMMA RowsStand ==
  ASSUME TypeOK, TypeOK', RunInv, [Next]_vars, NEW t \in Tasks
  PROVE  /\ StatusStands(status[t], status'[t])
         /\ PhaseStands(phase[t], phase'[t])
         /\ row[t] # NoReport => row'[t] # NoReport
<1>1. /\ StatusStands(status[t], status'[t])
      /\ PhaseStands(phase[t], phase'[t])
  <2>1. Lifecycle!Stays(t) \/ Lifecycle!Moves(t)
    BY LifecycleStep
  <2>. QED
    BY <2>1 DEF StatusStands, PhaseStands, Verdicts, Lifecycle!Stays, Lifecycle!Moves,
       Lifecycle!Submit, Lifecycle!Advance, Lifecycle!Follows, Lifecycle!Decide,
       Lifecycle!Retract, Lifecycle!Close
<1>2. row'[t] = row[t] \/ row'[t] \in VerifierResults
  <2>. USE DEF TypeOK, rows, services, host
  <2>1. ASSUME NEW u \in Tasks, CreateTask(u) \/ RunStep(u) PROVE row' = row
    BY <2>1 DEF CreateTask, RunStep, Launch, LoadTask, OpenSession, Plan, Replan, PlannerCall,
       FakePlan, FakeTurn, AdvancePlan, AdvancePhase, FakeBuild, Spawn, Spawned, SpawnFails,
       LoopVerify, LoopVerified, LoopError, LoopFinish, Destroy, AdvanceBuild, FakeVerify,
       Verify, Verified, VerifyFails, RecordVerify, RecordShip, RecordNode, Complete,
       FailVerify, HandleError, SetTaskStatus, CleanupSandbox, CloseSession
  <2>2. ASSUME NEW u \in Tasks, ServiceStep(u)
        PROVE  row'[t] = row[t] \/ row'[t] \in VerifierResults
    BY <2>2 DEF ServiceStep, ServeSandbox, ServeVerify, ServeOrphan
  <2>3. CASE ProcessStep \/ UNCHANGED vars
    BY <2>3 DEF ProcessStep, Crash, Shutdown, Commit, Exit, Restart, vars
  <2>. QED
    BY <2>1, <2>2, <2>3 DEF Next
<1>. QED
  BY <1>1, <1>2
=============================================================================
