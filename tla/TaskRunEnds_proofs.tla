------------------------- MODULE TaskRunEnds_proofs -------------------------
(***************************************************************************)
(* How runs end: what the fakes can do, when a verdict is final, which     *)
(* sandboxes are left behind, and the life of every sandbox.               *)
(***************************************************************************)
EXTENDS TaskRun_proofs

-----------------------------------------------------------------------------
\* The kinds of faults that happen are fixed for a behaviour.
LEMMA FaultsFixed == [Next]_vars => faults' = faults
<1>. USE DEF rows, services, host
<1>1. ASSUME NEW t \in Tasks, CreateTask(t) \/ RunStep(t) \/ ServiceStep(t)
      PROVE  faults' = faults
  BY <1>1 DEF CreateTask, RunStep, Launch, LoadTask, OpenSession, Plan, Replan,
     PlannerCall, FakePlan, FakeTurn, AdvancePlan, AdvancePhase, FakeBuild, Spawn, Spawned,
     SpawnFails, LoopVerify, LoopVerified, LoopError, LoopFinish, Destroy, AdvanceBuild,
     FakeVerify, Verify, Verified, VerifyFails, RecordVerify, RecordShip, RecordNode,
     Complete, FailVerify, HandleError, SetTaskStatus, CleanupSandbox, CloseSession,
     ServiceStep, ServeSandbox, ServeVerify, ServeOrphan
<1>2. CASE ProcessStep \/ UNCHANGED vars
  BY <1>2 DEF ProcessStep, Crash, Shutdown, Exit, Restart, vars
<1>. QED
  BY <1>1, <1>2 DEF Next

\* Without failing transactions only a real agent leads to the error handler.
FallbackInv ==
  "db" \notin faults => \A t \in Tasks : pc[t] \in {"replan", "handler"} => RealPlanner

LEMMA FallbackInvStep ==
  TypeOK /\ ProcessInv /\ RunInv /\ FallbackInv /\ [Next]_vars => FallbackInv'
<1>. SUFFICES ASSUME "db" \notin faults, TypeOK, ProcessInv, RunInv, FallbackInv, [Next]_vars
              PROVE  FallbackInv'
  BY FaultsFixed DEF FallbackInv
<1>. USE DEF TypeOK, FallbackInv, RealPlanner, rows, services, host, Goto, OnReturn
<1>1. TxnOutcomes = {"ok"}
  BY DEF TxnOutcomes
<1>2. \A t \in Tasks : pc[t] \in {"spawning", "destroy_error", "destroy_cancel", "verifying"}
                         => RealPlanner
  BY DEF RunInv, TaskInv, RequestInv, Wired, Settings
<1>3. ASSUME NEW t \in Tasks,
             \/ CreateTask(t) \/ Launch(t) \/ LoadTask(t) \/ OpenSession(t)
             \/ FakePlan(t) \/ AdvancePlan(t) \/ FakeBuild(t) \/ AdvanceBuild(t)
             \/ FakeVerify(t) \/ Verify(t) \/ Verified(t) \/ RecordVerify(t)
             \/ RecordShip(t) \/ Complete(t) \/ FailVerify(t) \/ HandleError(t)
             \/ CloseSession(t) \/ Spawned(t) \/ LoopVerify(t) \/ LoopVerified(t)
             \/ LoopError(t) \/ LoopFinish(t)
      PROVE  FallbackInv'
  BY <1>1, <1>3 DEF CreateTask, Launch, LoadTask, OpenSession, FakePlan, FakeTurn, AdvancePlan,
     AdvancePhase, FakeBuild, AdvanceBuild, FakeVerify, Verify, Verified, RecordVerify,
     RecordShip, RecordNode, RouteAfterVerify, Complete, FailVerify, HandleError,
     SetTaskStatus, CloseSession, Spawned, LoopVerify, LoopVerified, LoopError, LoopFinish
<1>4. ASSUME NEW t \in Tasks, Plan(t) \/ Replan(t) PROVE FallbackInv'
  BY <1>4 DEF Plan, Replan, PlannerCall
<1>5. ASSUME NEW t \in Tasks,
             Spawn(t) \/ SpawnFails(t) \/ Destroy(t) \/ VerifyFails(t) \/ CleanupSandbox(t)
      PROVE  FallbackInv'
  BY <1>2, <1>5 DEF Spawn, SpawnFails, Destroy, VerifyFails, CleanupSandbox, Wired, Settings
<1>6. ASSUME NEW t \in Tasks, ServiceStep(t) PROVE FallbackInv'
  BY <1>6 DEF ServiceStep, ServeSandbox, ServeVerify, ServeOrphan
<1>7. CASE Crash \/ Shutdown \/ Exit \/ UNCHANGED vars
  BY <1>7 DEF Crash, Shutdown, Exit, CancelTo, Idle, BeforeTry, InTry, vars
<1>8. CASE Restart
  BY <1>8 DEF Restart, ProcessInv, Idle
<1>. QED
  BY <1>3, <1>4, <1>5, <1>6, <1>7, <1>8 DEF Next, RunStep, ProcessStep

\* The fakes of any incomplete configuration fit together: without an API key
\* and without database faults no run ever reaches the error handler.
THEOREM FallbacksFit == Spec => []FallbacksRunThrough
<1>1. Init => FallbackInv
  BY DEF Init, FallbackInv
<1>2. FallbackInv => FallbacksRunThrough
  BY DEF FallbackInv, FallbacksRunThrough, RealPlanner
<1>. QED
  BY <1>1, <1>2, FallbackInvStep, TypeCorrect, ProcessInvariant, RunInvariant, PTL DEF Spec

-----------------------------------------------------------------------------
\* A verdict is only taken back by the handler of an exception that was raised
\* after it: by a transaction, or by the teardown.
UndecidedInv ==
  faults \subseteq {"stop"} => \A t \in Tasks : pc[t] = "handler" => status[t] = "queued"

LEMMA UndecidedInvStep == TypeOK /\ RunInv /\ UndecidedInv /\ [Next]_vars => UndecidedInv'
<1>. SUFFICES ASSUME faults \subseteq {"stop"}, TypeOK, RunInv, UndecidedInv, [Next]_vars
              PROVE  UndecidedInv'
  BY FaultsFixed DEF UndecidedInv
<1>. USE DEF TypeOK, UndecidedInv, rows, services, host, Goto, OnReturn
<1>1. TxnOutcomes = {"ok"} /\ \A t \in Tasks : ~DeleteFails(t) /\ ~DeleteTimesOut(t)
  BY DEF TxnOutcomes, DeleteFails, DeleteTimesOut
<1>2. \A t \in Tasks :
        pc[t] \in Undecided => status[t] = "queued"
  BY DEF RunInv, TaskInv, RowsInv
<1>. USE DEF Undecided, Planning, Verifying
<1>3. ASSUME NEW t \in Tasks,
             \/ CreateTask(t) \/ Launch(t) \/ LoadTask(t) \/ OpenSession(t)
             \/ FakePlan(t) \/ AdvancePlan(t) \/ FakeBuild(t) \/ AdvanceBuild(t)
             \/ FakeVerify(t) \/ Verify(t) \/ Verified(t) \/ RecordVerify(t)
             \/ RecordShip(t) \/ Complete(t) \/ FailVerify(t) \/ HandleError(t)
             \/ CloseSession(t) \/ Spawned(t) \/ LoopVerify(t) \/ LoopVerified(t)
             \/ LoopError(t) \/ LoopFinish(t) \/ CleanupSandbox(t)
      PROVE  UndecidedInv'
  BY <1>1, <1>3 DEF CreateTask, Launch, LoadTask, OpenSession, FakePlan, FakeTurn, AdvancePlan,
     AdvancePhase, FakeBuild, AdvanceBuild, FakeVerify, Verify, Verified, RecordVerify,
     RecordShip, RecordNode, RouteAfterVerify, Complete, FailVerify, HandleError,
     SetTaskStatus, CloseSession, Spawned, LoopVerify, LoopVerified, LoopError, LoopFinish,
     CleanupSandbox
<1>4. ASSUME NEW t \in Tasks,
             \/ Plan(t) \/ Replan(t) \/ Spawn(t) \/ SpawnFails(t) \/ Destroy(t)
             \/ VerifyFails(t)
      PROVE  UndecidedInv'
  BY <1>2, <1>4 DEF Plan, Replan, PlannerCall, Spawn, SpawnFails, Destroy, VerifyFails
<1>5. ASSUME NEW t \in Tasks, ServiceStep(t) PROVE UndecidedInv'
  BY <1>5 DEF ServiceStep, ServeSandbox, ServeVerify, ServeOrphan
<1>6. CASE ProcessStep \/ UNCHANGED vars
  BY <1>6 DEF ProcessStep, Crash, Shutdown, Exit, Restart, CancelTo, Idle, BeforeTry, InTry,
     vars
<1>. QED
  BY <1>3, <1>4, <1>5, <1>6 DEF Next, RunStep

\* Kills and shutdowns change no verdict: in every behaviour whose transactions
\* and DELETEs do not fail, what a poller has seen stays.
THEOREM VerdictsFinal == Spec => VerdictStable
<1>1. Init => UndecidedInv
  BY DEF Init, UndecidedInv
<1>2. ASSUME TypeOK, RunInv, UndecidedInv, [Next]_vars, faults \subseteq {"stop"},
             NEW t \in Tasks, status[t] \in Verdicts
      PROVE  status'[t] = status[t]
  <2>. USE <1>2 DEF TypeOK, rows, services, host
  <2>1. pc[t] \notin Undecided \cup {"absent", "handler"}
    BY DEF RunInv, TaskInv, RowsInv, UndecidedInv, Verdicts
  <2>2. ASSUME NEW u \in Tasks,
               CreateTask(u) \/ Complete(u) \/ FailVerify(u) \/ HandleError(u)
        PROVE  status'[t] = status[t]
    BY <2>1, <2>2 DEF CreateTask, Complete, FailVerify, HandleError, SetTaskStatus, Undecided,
       Verdicts
  <2>3. ASSUME NEW u \in Tasks,
               \/ Launch(u) \/ LoadTask(u) \/ OpenSession(u) \/ Plan(u) \/ Replan(u)
               \/ FakePlan(u) \/ AdvancePlan(u) \/ FakeBuild(u) \/ Spawn(u) \/ Spawned(u)
               \/ SpawnFails(u) \/ LoopVerify(u) \/ LoopVerified(u) \/ LoopError(u)
               \/ LoopFinish(u) \/ Destroy(u) \/ AdvanceBuild(u) \/ FakeVerify(u)
               \/ Verify(u) \/ Verified(u) \/ VerifyFails(u) \/ RecordVerify(u)
               \/ RecordShip(u) \/ CleanupSandbox(u) \/ CloseSession(u) \/ ServiceStep(u)
        PROVE  status' = status
    BY <2>3 DEF Launch, LoadTask, OpenSession, Plan, Replan, PlannerCall, FakePlan, FakeTurn,
       AdvancePlan, AdvancePhase, FakeBuild, Spawn, Spawned, SpawnFails, LoopVerify,
       LoopVerified, LoopError, LoopFinish, Destroy, AdvanceBuild, FakeVerify, Verify,
       Verified, VerifyFails, RecordVerify, RecordShip, RecordNode, CleanupSandbox,
       CloseSession, ServiceStep, ServeSandbox, ServeVerify, ServeOrphan
  <2>4. CASE Crash \/ Exit \/ Restart \/ UNCHANGED vars
    BY <2>4 DEF Crash, Exit, Restart, vars
  <2>5. CASE Shutdown
    BY <2>1, <2>5, ShutdownRows DEF Interrupted, Undecided
  <2>. QED
    BY <2>2, <2>3, <2>4, <2>5 DEF Next, RunStep, ProcessStep
<1>3. TypeOK /\ RunInv /\ UndecidedInv /\ [Next]_vars
        => [faults \subseteq {"stop"} =>
              \A t \in Tasks : status[t] \in Verdicts => status'[t] = status[t]]_vars
  BY <1>2
<1>. QED
  BY <1>1, <1>3, UndecidedInvStep, TypeCorrect, RunInvariant, PTL DEF Spec, VerdictStable

-----------------------------------------------------------------------------
\* A run that has not come to its build has no turn of a developer.
Unbuilt == BeforeTry \cup {"absent", "plan", "replan", "advance_plan", "build", "spawning"}

UnbuiltInv == \A t \in Tasks : pc[t] \in Unbuilt => "developer" \notin turns[t]

LEMMA UnbuiltInvStep == TypeOK /\ UnbuiltInv /\ [Next]_vars => UnbuiltInv'
<1>. SUFFICES ASSUME TypeOK, UnbuiltInv, [Next]_vars PROVE UnbuiltInv'
  OBVIOUS
<1>. USE DEF TypeOK, UnbuiltInv, Unbuilt, BeforeTry, rows, services, host, Goto, OnReturn
<1>1. ASSUME NEW t \in Tasks,
             \/ CreateTask(t) \/ Launch(t) \/ LoadTask(t) \/ OpenSession(t) \/ Plan(t)
             \/ Replan(t) \/ FakePlan(t) \/ AdvancePlan(t) \/ FakeBuild(t) \/ Spawn(t)
             \/ Spawned(t) \/ SpawnFails(t)
      PROVE  UnbuiltInv'
  BY <1>1 DEF CreateTask, Launch, LoadTask, OpenSession, Plan, Replan, PlannerCall, FakePlan,
     FakeTurn, AdvancePlan, AdvancePhase, FakeBuild, Spawn, Spawned, SpawnFails
<1>2. ASSUME NEW t \in Tasks,
             \/ LoopVerify(t) \/ LoopVerified(t) \/ LoopError(t) \/ LoopFinish(t)
             \/ Destroy(t) \/ AdvanceBuild(t) \/ FakeVerify(t) \/ Verify(t) \/ Verified(t)
             \/ VerifyFails(t)
      PROVE  UnbuiltInv'
  BY <1>2 DEF LoopVerify, LoopVerified, LoopError, LoopFinish, Destroy, AdvanceBuild,
     AdvancePhase, FakeVerify, Verify, Verified, VerifyFails
<1>3. ASSUME NEW t \in Tasks,
             \/ RecordVerify(t) \/ RecordShip(t) \/ Complete(t) \/ FailVerify(t)
             \/ CleanupSandbox(t) \/ HandleError(t) \/ CloseSession(t) \/ ServiceStep(t)
      PROVE  UnbuiltInv'
  BY <1>3 DEF RecordVerify, RecordShip, RecordNode, RouteAfterVerify, Complete, FailVerify,
     SetTaskStatus, CleanupSandbox, HandleError, CloseSession, ServiceStep, ServeSandbox,
     ServeVerify, ServeOrphan
<1>4. CASE Crash \/ Exit \/ Restart \/ UNCHANGED vars
  BY <1>4 DEF Crash, Exit, Restart, Idle, vars
<1>5. CASE Shutdown
  <2>1. \A t \in Tasks : pc'[t] \in Unbuilt => pc[t] = "absent" /\ pc'[t] = "absent"
    BY <1>5 DEF Shutdown, CancelTo, Idle, InTry
  <2>2. \A t \in Tasks : Interrupted(t)
    BY <1>5, ShutdownRows
  <2>. QED
    BY <2>1, <2>2 DEF Interrupted
<1>. QED
  BY <1>1, <1>2, <1>3, <1>4, <1>5 DEF Next, RunStep, ProcessStep

LEMMA UnbuiltInvariant == Spec => []UnbuiltInv
<1>1. Init => UnbuiltInv
  BY DEF Init, UnbuiltInv
<1>. QED
  BY <1>1, UnbuiltInvStep, TypeCorrect, PTL DEF Spec

\* Where a sandbox may be left behind, at every point of a run that nothing
\* but its process can disturb.
LeakInv ==
  faults \subseteq {"stop"} =>
    \A t \in Tasks :
      /\ pc[t] = "destroy_cancel" => process = "stopping"
      /\ pc[t] \notin Idle /\ process = "up" => sandbox[t] # "deleting"
      /\ pc[t] \in {"handler", "close"} /\ process = "up"
           /\ sandbox[t] \in {"spawning", "live"} =>
             /\ "developer" \notin turns[t] \/ phase[t] = "build"
             /\ pc[t] = "close" => status[t] = "failed"

LEMMA LeakInvStep ==
  TypeOK /\ ProcessInv /\ RunInv /\ UnbuiltInv /\ LeakInv /\ [Next]_vars => LeakInv'
<1>. SUFFICES ASSUME faults \subseteq {"stop"}, TypeOK, ProcessInv, RunInv, UnbuiltInv,
                     LeakInv, [Next]_vars
              PROVE  LeakInv'
  BY FaultsFixed DEF LeakInv
<1>. USE DEF TypeOK, LeakInv, Idle, rows, services, host, Goto, OnReturn
<1>1. TxnOutcomes = {"ok"} /\ \A t \in Tasks : ~DeleteFails(t) /\ ~DeleteTimesOut(t)
  BY DEF TxnOutcomes, DeleteFails, DeleteTimesOut
<1>2. \A t \in Tasks :
        /\ pc[t] \in Verifying => phase[t] = "build"
        /\ pc[t] \notin Idle /\ sandbox[t] # "none" => Wired
        /\ pc[t] = "absent" => sandbox[t] = "none"
        /\ pc[t] \in Unbuilt => "developer" \notin turns[t]
        /\ pc[t] \in {"loop", "loop_verify", "destroy_error", "destroy_cancel"} => Wired
        /\ Wired /\ pc[t] \in {"loop", "loop_verify", "destroy_error", "destroy_cancel",
                              "cleanup"} => sandbox[t] = "live"
  BY DEF RunInv, TaskInv, RowsInv, RequestInv, SandboxInv, Verifying, BeforeSession,
     UnbuiltInv
<1>3. ASSUME NEW t \in Tasks,
             \/ CreateTask(t) \/ Launch(t) \/ LoadTask(t) \/ OpenSession(t)
             \/ FakePlan(t) \/ AdvancePlan(t) \/ FakeBuild(t) \/ AdvanceBuild(t)
             \/ FakeVerify(t) \/ Verify(t) \/ Verified(t)
             \/ RecordVerify(t) \/ RecordShip(t) \/ Complete(t) \/ FailVerify(t)
             \/ HandleError(t) \/ CloseSession(t)
      PROVE  LeakInv'
  <2>1. CASE CreateTask(t) \/ Launch(t) \/ LoadTask(t) \/ OpenSession(t)
    BY <1>1, <1>2, <2>1 DEF CreateTask, Launch, LoadTask, OpenSession
  <2>2. CASE FakePlan(t) \/ AdvancePlan(t) \/ FakeBuild(t) \/ AdvanceBuild(t)
    BY <1>1, <2>2 DEF FakePlan, FakeTurn, AdvancePlan, AdvancePhase, FakeBuild, AdvanceBuild
  <2>3. CASE FakeVerify(t) \/ Verify(t) \/ Verified(t)
    BY <2>3 DEF FakeVerify, Verify, Verified
  <2>4. CASE RecordVerify(t) \/ RecordShip(t)
    BY <1>1, <2>4 DEF RecordVerify, RecordShip, RecordNode, RouteAfterVerify
  <2>5. CASE Complete(t) \/ FailVerify(t)
    BY <1>1, <2>5 DEF Complete, FailVerify, SetTaskStatus
  <2>6. CASE HandleError(t) \/ CloseSession(t)
    BY <1>1, <2>6 DEF HandleError, SetTaskStatus, CloseSession, Committed
  <2>. QED
    BY <1>3, <2>1, <2>2, <2>3, <2>4, <2>5, <2>6
<1>4. ASSUME NEW t \in Tasks, Plan(t) \/ Replan(t) \/ Spawn(t) \/ Spawned(t) \/ SpawnFails(t)
      PROVE  LeakInv'
  BY <1>2, <1>4 DEF Plan, Replan, PlannerCall, Spawn, Spawned, SpawnFails, Unbuilt
<1>5. ASSUME NEW t \in Tasks,
             \/ LoopVerify(t) \/ LoopVerified(t) \/ LoopError(t) \/ LoopFinish(t) \/ Destroy(t)
      PROVE  LeakInv'
  <2>1. CASE LoopVerify(t) \/ LoopVerified(t) \/ LoopError(t) \/ LoopFinish(t)
    BY <2>1 DEF LoopVerify, LoopVerified, LoopError, LoopFinish
  <2>2. CASE Destroy(t)
    <3>1. pc[t] \in {"destroy_error", "destroy_cancel"} /\ sandbox[t] = "live"
      BY <1>2, <2>2 DEF Destroy
    <3>. QED
      BY <1>1, <2>2, <3>1 DEF Destroy, DeleteAnswered
  <2>. QED
    BY <1>5, <2>1, <2>2
<1>6. ASSUME NEW t \in Tasks, VerifyFails(t) \/ CleanupSandbox(t) PROVE LeakInv'
  <2>1. CASE VerifyFails(t)
    BY <1>2, <2>1 DEF VerifyFails, Verifying
  <2>2. CASE CleanupSandbox(t) /\ Wired
    <3>1. pc[t] = "cleanup" /\ sandbox[t] = "live"
      BY <1>2, <2>2 DEF CleanupSandbox
    <3>. QED
      BY <1>1, <2>2, <3>1 DEF CleanupSandbox, DeleteAnswered
  <2>3. CASE CleanupSandbox(t) /\ ~Wired
    BY <1>2, <2>3 DEF CleanupSandbox
  <2>. QED
    BY <1>6, <2>1, <2>2, <2>3
<1>7. ASSUME NEW t \in Tasks, ServiceStep(t) PROVE LeakInv'
  BY <1>7 DEF ServiceStep, ServeSandbox, ServeVerify, ServeOrphan
<1>8. CASE Crash \/ Shutdown \/ Exit
  BY <1>8 DEF Crash, Shutdown, Exit, AbandonAll, CancelTo, BeforeTry, InTry
<1>9. CASE Restart \/ UNCHANGED vars
  BY <1>2, <1>9 DEF Restart, ProcessInv, vars
<1>. QED
  BY <1>3, <1>4, <1>5, <1>6, <1>7, <1>8, <1>9 DEF Next, RunStep, ProcessStep

\* The sandboxes that the code is known to leave behind are all it leaves.
THEOREM LeaksAreKnown == Spec => []SandboxReleased
<1>1. Init => LeakInv
  BY DEF Init, LeakInv
<1>2. LeakInv => SandboxReleased
  BY DEF LeakInv, SandboxReleased
<1>. QED
  BY <1>1, <1>2, LeakInvStep, UnbuiltInvariant, TypeCorrect, ProcessInvariant, RunInvariant, PTL
     DEF Spec

-----------------------------------------------------------------------------
\* A step that leads the sandbox of no task astray is a step of the contract.
LEMMA ContractStep ==
  ASSUME TypeOK, TypeOK', \A t \in Tasks :
           \/ SandboxState(t)' = SandboxState(t)
           \/ <<SandboxState(t), SandboxState(t)'>> \in Contract!Moves
  PROVE  [Contract!Next]_([t \in Tasks |-> SandboxState(t)])
<1>1. \A t \in Tasks : SandboxState(t) \in SandboxStates /\ SandboxState(t)' \in SandboxStates
  BY DEF TypeOK, SandboxState, SandboxStates
<1>. QED
  BY <1>1 DEF Contract!Next, Contract!States, SandboxStates

\* A run never loses a sandbox but by a DELETE of its own.
THEOREM SandboxesAreDeleted == Spec => ImplementsSandboxLife
<1>1. Init => Contract!Init
  BY DEF Init, Contract!Init, SandboxState, Deleting
<1>2. TypeOK /\ TypeOK' /\ RunInv /\ [Next]_vars
        => [Contract!Next]_([t \in Tasks |-> SandboxState(t)])
  <2>. SUFFICES ASSUME TypeOK, TypeOK', RunInv, [Next]_vars, NEW t \in Tasks
                PROVE  \/ SandboxState(t)' = SandboxState(t)
                       \/ <<SandboxState(t), SandboxState(t)'>> \in Contract!Moves
    BY ContractStep
  <2>. USE DEF TypeOK, SandboxState, Contract!Moves, Deleting, rows, services, host, Goto,
       OnReturn
  <2>1. \A u \in Tasks :
          /\ pc[u] \in {"absent", "plan", "build"} => sandbox[u] = "none"
          /\ Wired /\ pc[u] \in {"loop", "loop_verify", "destroy_error", "destroy_cancel",
                                  "cleanup"} => sandbox[u] = "live"
          /\ pc[u] \notin Idle /\ sandbox[u] # "none" => Wired
          /\ pc[u] \in {"loop", "loop_verify", "destroy_error", "destroy_cancel"} => Wired
    BY DEF RunInv, TaskInv, SandboxInv, RequestInv, BeforeSession
  <2>2. ASSUME NEW u \in Tasks,
               \/ CreateTask(u) \/ Launch(u) \/ LoadTask(u) \/ OpenSession(u) \/ Plan(u)
               \/ Replan(u) \/ FakePlan(u) \/ AdvancePlan(u) \/ FakeBuild(u) \/ Spawned(u)
               \/ SpawnFails(u) \/ LoopVerify(u) \/ LoopVerified(u) \/ LoopFinish(u)
               \/ AdvanceBuild(u) \/ FakeVerify(u) \/ Verify(u) \/ Verified(u)
               \/ VerifyFails(u) \/ RecordVerify(u) \/ RecordShip(u) \/ HandleError(u)
               \/ CloseSession(u)
        PROVE  SandboxState(t)' = SandboxState(t)
    BY <2>2 DEF CreateTask, Launch, LoadTask, OpenSession, Plan, Replan, PlannerCall, FakePlan,
       FakeTurn, AdvancePlan, AdvancePhase, FakeBuild, Spawned, SpawnFails, LoopVerify,
       LoopVerified, LoopFinish, AdvanceBuild, FakeVerify, Verify, Verified, VerifyFails,
       RecordVerify, RecordShip, RecordNode, RouteAfterVerify, HandleError, SetTaskStatus,
       CloseSession
  <2>3. ASSUME NEW u \in Tasks,
               \/ Spawn(u) \/ LoopError(u) \/ Destroy(u) \/ Complete(u) \/ FailVerify(u)
               \/ CleanupSandbox(u)
        PROVE  \/ SandboxState(t)' = SandboxState(t)
               \/ <<SandboxState(t), SandboxState(t)'>> \in Contract!Moves
    BY <2>1, <2>3 DEF Spawn, LoopError, Destroy, Complete, FailVerify, SetTaskStatus,
       CleanupSandbox, DeleteAnswered, DeleteFails, DeleteTimesOut, Idle
  <2>4. ASSUME NEW u \in Tasks, ServiceStep(u)
        PROVE  \/ SandboxState(t)' = SandboxState(t)
               \/ <<SandboxState(t), SandboxState(t)'>> \in Contract!Moves
    BY <2>4 DEF ServiceStep, ServeSandbox, ServeVerify, ServeOrphan
  <2>5. CASE Crash \/ Shutdown
    BY <2>1, <2>5 DEF Crash, Shutdown, AbandonAll, CancelTo, Idle, BeforeTry, InTry
  <2>6. CASE Exit \/ Restart \/ UNCHANGED vars
    BY <2>6 DEF Exit, Restart, vars
  <2>. QED
    BY <2>2, <2>3, <2>4, <2>5, <2>6 DEF Next, RunStep, ProcessStep
<1>. QED
  BY <1>1, <1>2, TypeCorrect, RunInvariant, PTL
     DEF Spec, ImplementsSandboxLife, Contract!Spec

-----------------------------------------------------------------------------
(***************************************************************************)
(* The build of a run.                                                     *)
(***************************************************************************)

\* The contract's view of a location, once for each of the three kinds.
LEMMA BuildStateIs ==
  ASSUME NEW t \in Tasks, UnbuiltInv
  PROVE  /\ pc[t] \in Unbuilt => BuildState(t) = Build!Absent
         /\ Wired /\ pc[t] \in DOMAIN BuildPlaces =>
              BuildState(t) = Build!At(BuildPlaces[pc[t]], "developer" \in turns[t])
         /\ pc[t] \notin Unbuilt /\ ~(Wired /\ pc[t] \in DOMAIN BuildPlaces)
              => BuildState(t) = Build!Over
         /\ BuildState(t).at = "over" => BuildState(t) = Build!Over
  BY DEF BuildState, BuildPlaces, Unbuilt, BeforeTry, Build!Absent, Build!Over, Build!At

\* A step of the process or of a run moves each build as the contract allows.
LEMMA BuildMoves ==
  ASSUME TypeOK, TypeOK', ProcessInv, RunInv, UnbuiltInv, UnbuiltInv', [Next]_vars,
         NEW t \in Tasks
  PROVE  BuildState(t)' = BuildState(t) \/ Build!Move(BuildState(t), BuildState(t)')
<1>. USE DEF rows, services, host
<1>1. /\ pc[t] \in Unbuilt => BuildState(t) = Build!Absent
      /\ Wired /\ pc[t] \in DOMAIN BuildPlaces =>
           BuildState(t) = Build!At(BuildPlaces[pc[t]], "developer" \in turns[t])
      /\ pc[t] \notin Unbuilt /\ ~(Wired /\ pc[t] \in DOMAIN BuildPlaces)
           => BuildState(t) = Build!Over
      /\ BuildState(t).at = "over" => BuildState(t) = Build!Over
  BY BuildStateIs
<1>2. /\ pc'[t] \in Unbuilt => BuildState(t)' = Build!Absent
      /\ Wired' /\ pc'[t] \in DOMAIN BuildPlaces =>
           BuildState(t)' = Build!At(BuildPlaces[pc'[t]], "developer" \in turns'[t])
      /\ pc'[t] \notin Unbuilt /\ ~(Wired' /\ pc'[t] \in DOMAIN BuildPlaces)
           => BuildState(t)' = Build!Over
  <2>1. (UnbuiltInv =>
           /\ pc[t] \in Unbuilt => BuildState(t) = Build!Absent
           /\ Wired /\ pc[t] \in DOMAIN BuildPlaces =>
                BuildState(t) = Build!At(BuildPlaces[pc[t]], "developer" \in turns[t])
           /\ pc[t] \notin Unbuilt /\ ~(Wired /\ pc[t] \in DOMAIN BuildPlaces)
                => BuildState(t) = Build!Over)'
    BY BuildStateIs, PTL
  <2>. QED
    BY <2>1 DEF BuildPlaces
<1>3. ASSUME BuildState(t)' = Build!Over
      PROVE  BuildState(t)' = BuildState(t) \/ Build!Move(BuildState(t), BuildState(t)')
  BY <1>1, <1>3, Zenon DEF Build!Move
<1>4. pc[t] \in {"loop", "loop_verify", "destroy_error", "destroy_cancel"} => Wired
  BY DEF RunInv, TaskInv, RequestInv
<1>5. ASSUME pc'[t] = pc[t], turns'[t] = turns[t], Wired' = Wired
      PROVE  BuildState(t)' = BuildState(t)
  BY <1>5 DEF BuildState, BuildPlaces
<1>6. ASSUME NEW u \in Tasks, CreateTask(u) \/ RunStep(u)
      PROVE  BuildState(t)' = BuildState(t) \/ Build!Move(BuildState(t), BuildState(t)')
  <2>. USE DEF TypeOK, Goto, OnReturn
  <2>1. ASSUME u # t PROVE pc'[t] = pc[t] /\ turns'[t] = turns[t]
    BY <1>6, <2>1 DEF CreateTask, RunStep, Launch, LoadTask, OpenSession, Plan, Replan,
       PlannerCall, FakePlan, FakeTurn, AdvancePlan, AdvancePhase, FakeBuild, Spawn, Spawned,
       SpawnFails, LoopVerify, LoopVerified, LoopError, LoopFinish, Destroy, AdvanceBuild,
       FakeVerify, Verify, Verified, VerifyFails, RecordVerify, RecordShip, RecordNode,
       Complete, FailVerify, HandleError, SetTaskStatus, CleanupSandbox, CloseSession
  <2>2. Wired' = Wired
    BY <1>6 DEF Wired, CreateTask, RunStep, Launch, LoadTask, OpenSession, Plan, Replan,
       PlannerCall, FakePlan, FakeTurn, AdvancePlan, AdvancePhase, FakeBuild, Spawn, Spawned,
       SpawnFails, LoopVerify, LoopVerified, LoopError, LoopFinish, Destroy, AdvanceBuild,
       FakeVerify, Verify, Verified, VerifyFails, RecordVerify, RecordShip, RecordNode,
       Complete, FailVerify, HandleError, SetTaskStatus, CleanupSandbox, CloseSession
  <2>3. ASSUME \/ CreateTask(t) \/ Launch(t) \/ LoadTask(t) \/ OpenSession(t) \/ Plan(t)
               \/ Replan(t) \/ FakePlan(t) \/ AdvancePlan(t) \/ Spawn(t) \/ SpawnFails(t)
        PROVE  /\ pc[t] \in Unbuilt
               /\ pc'[t] \in Unbuilt \cup {"rejected", "done", "handler"}
    BY <2>3 DEF CreateTask, Launch, LoadTask, OpenSession, Plan, Replan, PlannerCall, FakePlan,
       FakeTurn, AdvancePlan, AdvancePhase, Spawn, SpawnFails, Unbuilt, BeforeTry
  <2>4. ASSUME \/ FakeBuild(t) \/ Destroy(t) \/ AdvanceBuild(t) \/ FakeVerify(t) \/ Verify(t)
               \/ Verified(t) \/ VerifyFails(t) \/ RecordVerify(t) \/ RecordShip(t)
               \/ Complete(t) \/ FailVerify(t) \/ CleanupSandbox(t) \/ HandleError(t)
               \/ CloseSession(t)
        PROVE  /\ pc'[t] \notin Unbuilt
               /\ ~(Wired' /\ pc'[t] \in DOMAIN BuildPlaces)
    BY <2>2, <2>4 DEF FakeBuild, FakeTurn, Destroy, AdvanceBuild, AdvancePhase, FakeVerify,
       Verify, Verified, VerifyFails, RecordVerify, RecordShip, RecordNode, RouteAfterVerify,
       Complete, FailVerify, HandleError, SetTaskStatus, CleanupSandbox, CloseSession,
       Unbuilt, BeforeTry, BuildPlaces
  <2>5. ASSUME Spawned(t) PROVE Build!Move(BuildState(t), BuildState(t)')
    <3>1. /\ pc[t] = "spawning" /\ pc'[t] = "loop" /\ Wired
          /\ ("developer" \in turns'[t]) = FALSE
      BY <2>5 DEF Spawned, RunInv, TaskInv, RequestInv, UnbuiltInv, Unbuilt
    <3>2. /\ BuildState(t) = Build!Absent
          /\ BuildState(t)' = Build!At("working", FALSE)
      <4>. DEFINE s == "developer" \in turns'[t]
      <4>1. BuildState(t)' = Build!At(BuildPlaces[pc'[t]], s)
        BY <1>2, <2>2, <3>1 DEF BuildPlaces
      <4>2. BuildPlaces[pc'[t]] = "working" /\ s = FALSE
        BY <3>1 DEF BuildPlaces
      <4>. HIDE DEF s
      <4>3. BuildState(t)' = Build!At("working", FALSE)
        BY <4>1, <4>2, Zenon
      <4>. QED
        BY <1>1, <3>1, <4>3 DEF Unbuilt
    <3>. QED
      BY <3>2 DEF Build!Move, Build!Started
  <2>6. ASSUME LoopVerify(t) \/ LoopVerified(t) \/ LoopFinish(t) \/ LoopError(t)
        PROVE  Build!Move(BuildState(t), BuildState(t)')
    <3>. DEFINE r == "developer" \in turns[t]
                s == "developer" \in turns'[t]
                p == BuildPlaces[pc[t]]
                q == BuildPlaces[pc'[t]]
    <3>1. BuildState(t) = Build!At(p, r) /\ BuildState(t)' = Build!At(q, s)
      BY <1>1, <1>2, <1>4, <2>2, <2>6
         DEF LoopVerify, LoopVerified, LoopFinish, LoopError, BuildPlaces
    <3>2. \/ p = "working" /\ q = "verifying" /\ s = TRUE
          \/ p = "verifying" /\ q = "working" /\ s = r
          \/ p = "working" /\ q = "returned" /\ s = TRUE
          \/ p \in {"working", "verifying"} /\ q = "raised" /\ (s = r \/ s = TRUE)
      BY <2>6 DEF LoopVerify, LoopVerified, LoopFinish, LoopError, BuildPlaces
    <3>. HIDE DEF r, s, p, q
    <3>3. Build!At(p, r).at = p /\ Build!At(p, r).recorded = r
      BY DEF Build!At
    <3>4. CASE p = "working" /\ q = "verifying" /\ s = TRUE
      BY <3>1, <3>3, <3>4, Zenon DEF Build!Move, Build!Ask
    <3>5. CASE p = "verifying" /\ q = "working" /\ s = r
      BY <3>1, <3>3, <3>5, Zenon DEF Build!Move, Build!Answered
    <3>6. CASE p = "working" /\ q = "returned" /\ s = TRUE
      BY <3>1, <3>3, <3>6, Zenon DEF Build!Move, Build!Return
    <3>7. CASE p \in {"working", "verifying"} /\ q = "raised" /\ (s = r \/ s = TRUE)
      BY <3>1, <3>3, <3>7, Zenon DEF Build!Move, Build!Raise
    <3>. QED
      BY <3>2, <3>4, <3>5, <3>6, <3>7
  <2>7. CASE u = t
    BY <1>1, <1>2, <1>3, <1>6, <2>3, <2>4, <2>5, <2>6, <2>7
       DEF RunStep, Unbuilt, BeforeTry, BuildPlaces
  <2>. QED
    BY <1>5, <2>1, <2>2, <2>7
<1>7. ASSUME NEW u \in Tasks, ServiceStep(u)
      PROVE  BuildState(t)' = BuildState(t)
  BY <1>5, <1>7 DEF ServiceStep, ServeSandbox, ServeVerify, ServeOrphan, Wired
<1>8. CASE Crash \/ Shutdown
  <2>1. /\ Wired' = Wired
        /\ pc'[t] = pc[t] => turns'[t] = turns[t]
        /\ pc[t] \in {"loop", "loop_verify"} =>
             turns'[t] \in {turns[t], turns[t] \cup {"developer"}}
    <3>1. CASE Crash
      BY <3>1 DEF Crash, Wired
    <3>2. CASE Shutdown
      <4>1. Interrupted(t)
        BY <3>2, ShutdownRows
      <4>2. Wired' = Wired /\ pc'[t] = CancelTo(pc[t])
        BY <3>2 DEF Shutdown, Wired
      <4>. QED
        BY <4>1, <4>2 DEF Interrupted, CancelTo, Idle, BeforeTry, InTry
    <3>. QED
      BY <1>8, <3>1, <3>2
  <2>2. \/ pc'[t] = pc[t]
        \/ pc'[t] \in {"killed", "done", "close"}
        \/ pc[t] \in {"loop", "loop_verify"} /\ pc'[t] = "destroy_cancel"
    BY <1>8 DEF Crash, Shutdown, CancelTo, TypeOK
  <2>3. CASE pc'[t] \in {"killed", "done", "close"}
    BY <1>2, <1>3, <2>3 DEF Unbuilt, BeforeTry, BuildPlaces
  <2>4. CASE pc[t] \in {"loop", "loop_verify"} /\ pc'[t] = "destroy_cancel"
    <3>. DEFINE r == "developer" \in turns[t]
                s == "developer" \in turns'[t]
                p == BuildPlaces[pc[t]]
    <3>1. /\ BuildState(t) = Build!At(p, r) /\ BuildState(t)' = Build!At("raised", s)
          /\ p \in {"working", "verifying"}
      BY <1>1, <1>2, <1>4, <2>1, <2>4 DEF BuildPlaces
    <3>2. s = r \/ s = TRUE
      BY <2>1, <2>4
    <3>. HIDE DEF r, s, p
    <3>3. Build!At(p, r).at = p /\ Build!At(p, r).recorded = r
      BY DEF Build!At
    <3>. QED
      BY <3>1, <3>2, <3>3, Zenon DEF Build!Move, Build!Raise
  <2>. QED
    BY <1>5, <2>1, <2>2, <2>3, <2>4
<1>9. CASE Exit \/ UNCHANGED vars
  BY <1>5, <1>9 DEF Exit, vars, Wired
<1>10. CASE Restart
  <2>1. pc'[t] = pc[t] /\ pc[t] \in Idle
    BY <1>10 DEF Restart, ProcessInv
  <2>. QED
    BY <1>1, <1>2, <2>1 DEF Idle, Unbuilt, BeforeTry, BuildPlaces
<1>. QED
  BY <1>6, <1>7, <1>8, <1>9, <1>10 DEF Next, ProcessStep

\* The orchestrator takes its builds to be as the contract says: no verification
\* and no result without a turn on record, also across cancellations and kills.
THEOREM BuildsKeepContract == Spec => ImplementsBuild
<1>1. Init => Build!Init
  <2>1. Init => \A t \in Tasks : BuildState(t) = Build!Absent
    BY DEF Init, BuildState, BuildPlaces, Build!Absent, Build!At
  <2>. QED
    BY <2>1 DEF Build!Init
<1>2. TypeOK /\ TypeOK' /\ ProcessInv /\ RunInv /\ UnbuiltInv /\ UnbuiltInv' /\ [Next]_vars
        => [Build!Next]_([t \in Tasks |-> BuildState(t)])
  <2>. SUFFICES ASSUME TypeOK, TypeOK', ProcessInv, RunInv, UnbuiltInv, UnbuiltInv',
                       [Next]_vars
                PROVE  [Build!Next]_([t \in Tasks |-> BuildState(t)])
    OBVIOUS
  <2>1. \A t \in Tasks : BuildState(t)' \in Build!States
    BY DEF BuildState, BuildPlaces, Build!States, Build!Places
  <2>2. \A t \in Tasks :
          BuildState(t)' = BuildState(t) \/ Build!Move(BuildState(t), BuildState(t)')
    BY BuildMoves
  <2>. QED
    BY <2>1, <2>2 DEF Build!Next
<1>. QED
  BY <1>1, <1>2, TypeCorrect, ProcessInvariant, RunInvariant, UnbuiltInvariant, PTL
     DEF Spec, ImplementsBuild, Build!Spec

-----------------------------------------------------------------------------
(***************************************************************************)
(* How long a run can take.                                                *)
(***************************************************************************)

\* A run's own step moves it on: its course falls, or it has one verification
\* less to ask for.
LEMMA RunStepAdvances ==
  ASSUME TypeOK, NEW t \in Tasks, RunStep(t)
  PROVE  /\ \/ Course[pc'[t]] < Course[pc[t]] /\ calls' = calls
            \/ pc[t] = "loop" /\ pc'[t] = "loop_verify" /\ calls'[t] = calls[t] + 1
         /\ \A u \in Tasks \ {t} : pc'[u] = pc[u] /\ calls'[u] = calls[u]
<1>. USE DEF TypeOK, Course, Goto, OnReturn, rows, services, host
<1>1. CASE \/ Launch(t) \/ LoadTask(t) \/ OpenSession(t) \/ Plan(t) \/ Replan(t)
           \/ FakePlan(t) \/ AdvancePlan(t) \/ FakeBuild(t) \/ Spawn(t) \/ Spawned(t)
           \/ SpawnFails(t)
  BY <1>1 DEF Launch, LoadTask, OpenSession, Plan, Replan, PlannerCall, FakePlan, FakeTurn,
     AdvancePlan, AdvancePhase, FakeBuild, Spawn, Spawned, SpawnFails
<1>2. CASE \/ LoopVerify(t) \/ LoopVerified(t) \/ LoopError(t) \/ LoopFinish(t)
           \/ Destroy(t) \/ AdvanceBuild(t)
  BY <1>2 DEF LoopVerify, LoopVerified, LoopError, LoopFinish, Destroy, AdvanceBuild,
     AdvancePhase
<1>3. CASE \/ FakeVerify(t) \/ Verify(t) \/ Verified(t) \/ VerifyFails(t) \/ RecordVerify(t)
  BY <1>3 DEF FakeVerify, Verify, Verified, VerifyFails, RecordVerify, RecordNode,
     RouteAfterVerify
<1>4. CASE \/ RecordShip(t) \/ Complete(t) \/ FailVerify(t) \/ CleanupSandbox(t)
           \/ HandleError(t) \/ CloseSession(t)
  BY <1>4 DEF RecordShip, RecordNode, Complete, FailVerify, HandleError, SetTaskStatus,
     CleanupSandbox, CloseSession
<1>. QED
  BY <1>1, <1>2, <1>3, <1>4 DEF RunStep

\* No step of anybody takes a run back.
LEMMA CourseFalls ==
  ASSUME TypeOK, [Next]_vars, NEW t \in Tasks
  PROVE  \/ pc'[t] = pc[t] /\ calls'[t] = calls[t] /\ ~RunStep(t)
         \/ Course[pc'[t]] < Course[pc[t]] /\ calls'[t] = calls[t]
         \/ pc[t] = "loop" /\ pc'[t] = "loop_verify" /\ calls'[t] = calls[t] + 1
<1>. USE DEF rows, services, host
<1>1. CASE RunStep(t)
  BY <1>1, RunStepAdvances
<1>2. ASSUME ~RunStep(t), NEW u \in Tasks, RunStep(u)
      PROVE  pc'[t] = pc[t] /\ calls'[t] = calls[t]
  BY <1>2, RunStepAdvances
<1>3. ASSUME ~RunStep(t), NEW u \in Tasks, CreateTask(u)
      PROVE  \/ pc'[t] = pc[t] /\ calls'[t] = calls[t]
             \/ Course[pc'[t]] < Course[pc[t]] /\ calls'[t] = calls[t]
  BY <1>3 DEF CreateTask, OnReturn, Goto, TypeOK, Course
<1>4. ASSUME NEW u \in Tasks, ServiceStep(u)
      PROVE  pc'[t] = pc[t] /\ calls'[t] = calls[t]
  BY <1>4 DEF ServiceStep, ServeSandbox, ServeVerify, ServeOrphan
<1>5. CASE Crash \/ Shutdown
  BY <1>1, <1>5 DEF Crash, Shutdown, CancelTo, Idle, BeforeTry, InTry, Locations, TypeOK, Course
<1>6. CASE Exit \/ Restart \/ UNCHANGED vars
  BY <1>1, <1>6 DEF Exit, Restart, vars
<1>. QED
  BY <1>1, <1>2, <1>3, <1>4, <1>5, <1>6 DEF Next, ProcessStep

\* Whoever fails, is cancelled or is killed, a run only ever goes on towards its
\* end: there is a bound on its steps, and fairness is all that RunSettles adds.
THEOREM RunsOnlyAdvance == Spec => RunsAdvance
<1>1. ASSUME TypeOK, TypeOK', [Next]_vars, NEW t \in Tasks, RunStep(t) \/ pc'[t] # pc[t]
      PROVE  Distance(t)' \in 0 .. Distance(t) - 1
  <2>1. /\ pc[t] \in Locations /\ calls[t] \in 0 .. MaxLoopVerifies
        /\ pc'[t] \in Locations /\ calls'[t] \in 0 .. MaxLoopVerifies
    BY <1>1 DEF TypeOK
  <2>2. Course[pc[t]] \in Nat /\ Course[pc'[t]] \in Nat
    BY <2>1 DEF Course, Locations, Idle, BeforeTry, InTry
  <2>. DEFINE a == Course[pc[t]]
              b == Course[pc'[t]]
              k == calls[t]
              l == calls'[t]
  <2>3. \/ b < a /\ l = k
        \/ b = a + 1 /\ l = k + 1
    <3>1. Course["loop_verify"] = Course["loop"] + 1
      BY DEF Course
    <3>. QED
      BY <1>1, <2>2, <3>1, CourseFalls
  <2>4. /\ Distance(t) = a + 2 * (MaxLoopVerifies - k)
        /\ Distance(t)' = b + 2 * (MaxLoopVerifies - l)
    BY DEF Distance, Course
  <2>5. a \in Nat /\ b \in Nat /\ k \in 0 .. MaxLoopVerifies /\ l \in 0 .. MaxLoopVerifies
    BY <2>1, <2>2
  <2>. HIDE DEF a, b, k, l
  <2>6. b + 2 * (MaxLoopVerifies - l) \in 0 .. a + 2 * (MaxLoopVerifies - k) - 1
    BY <2>3, <2>5, BoundAssumption
  <2>. QED
    BY <2>4, <2>5, <2>6, BoundAssumption
<1>2. TypeOK /\ TypeOK' /\ [Next]_vars
        => [\A t \in Tasks : RunStep(t) \/ pc'[t] # pc[t]
                             => Distance(t)' \in 0 .. Distance(t) - 1]_vars
  BY <1>1
<1>. QED
  BY <1>2, TypeCorrect, PTL DEF Spec, RunsAdvance

\* What is left of a run after it has sent its DELETE, or never will.
PastDelete == {"handler", "close", "done", "killed", "rejected"}

\* A run sends one DELETE at most: when it leaves one, answered or not, it is on
\* the way out and comes to no other (adapter.build destroys only what it will
\* not return; execute's hook is behind every `raise' of the graph).
THEOREM OneDeletePerRun ==
  ASSUME NEW t \in Tasks
  PROVE  Spec => /\ [][pc[t] \in Deleting => pc'[t] = pc[t] \/ pc'[t] \in PastDelete]_vars
                 /\ [](pc[t] \in PastDelete => [](pc[t] \in PastDelete))
<1>1. ASSUME TypeOK, TypeOK', [Next]_vars, pc[t] \in Deleting \cup PastDelete, pc'[t] # pc[t]
      PROVE  pc'[t] \in PastDelete
  <2>1. Course[pc'[t]] < Course[pc[t]]
    BY <1>1, CourseFalls DEF Deleting, PastDelete
  <2>. QED
    BY <1>1, <2>1
       DEF TypeOK, Course, Locations, Idle, BeforeTry, InTry, Deleting, PastDelete
<1>2. TypeOK /\ TypeOK' /\ [Next]_vars
        => [pc[t] \in Deleting => pc'[t] = pc[t] \/ pc'[t] \in PastDelete]_vars
  BY <1>1
<1>3. TypeOK /\ TypeOK' /\ [Next]_vars /\ pc[t] \in PastDelete => (pc[t] \in PastDelete)'
  BY <1>1
<1>. QED
  BY <1>2, <1>3, TypeCorrect, PTL DEF Spec
=============================================================================
