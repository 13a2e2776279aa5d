--------------------------- MODULE TaskApi_proofs ---------------------------
(***************************************************************************)
(* Proofs about TaskApi, for any number of clients and tasks: what the     *)
(* three queries of one answer read fits together.                         *)
(***************************************************************************)
EXTENDS TaskApi, TaskRun_proofs

\* What the clients do is no step of the runs.
LEMMA ApiIsRun == ApiNext \/ UNCHANGED apiVars => [Next]_vars
  BY DEF ApiNext, ClientStep, ReadTask, ReadSession, ReadVerifier, apiVars

LEMMA RunInvariants == ApiSpec => [](TypeOK /\ ProcessInv /\ RunInv)
<1>1. ApiSpec => Spec
  <2>1. ApiInit => Init
    BY DEF ApiInit
  <2>2. [ApiNext]_apiVars => [Next]_vars
    BY ApiIsRun
  <2>. QED
    BY <2>1, <2>2, PTL DEF ApiSpec, Spec
<1>. QED
  BY <1>1, TypeCorrect, ProcessInvariant, RunInvariant, PTL

-----------------------------------------------------------------------------
\* The requests of the clients stay within their three stages.
THEOREM ApiTypeCorrect == ApiSpec => []ApiTypeOK
<1>1. ApiInit /\ TypeOK => ApiTypeOK
  BY DEF ApiInit, ApiTypeOK, NoAnswer, Answers, Statuses, Phases, Stages
<1>2. ApiTypeOK /\ TypeOK' /\ [ApiNext]_apiVars => ApiTypeOK'
  <2>. SUFFICES ASSUME ApiTypeOK, TypeOK', [ApiNext]_apiVars PROVE ApiTypeOK'
    OBVIOUS
  <2>. USE DEF ApiTypeOK, Answers, Stages, Proceed, NoAnswer
  <2>1. ASSUME NEW c \in Clients, ReadTask(c) PROVE ApiTypeOK'
    BY <2>1 DEF ReadTask, TypeOK, Phases
  <2>2. ASSUME NEW c \in Clients, ReadSession(c) PROVE ApiTypeOK'
    BY <2>2 DEF ReadSession, TypeOK
  <2>3. ASSUME NEW c \in Clients, ReadVerifier(c) PROVE ApiTypeOK'
    BY <2>3 DEF ReadVerifier, TypeOK
  <2>4. CASE Next /\ DropRequests
    BY <2>4 DEF DropRequests, poll, Statuses, Phases
  <2>5. CASE UNCHANGED apiVars
    BY <2>5 DEF apiVars, poll
  <2>. QED
    BY <2>1, <2>2, <2>3, <2>4, <2>5 DEF ApiNext, ClientStep
<1>. QED
  BY <1>1, <1>2, RunInvariants, PTL DEF ApiSpec

-----------------------------------------------------------------------------
(***************************************************************************)
(* What a verdict v, once read, says of the rows from then on: the status  *)
(* may still be retracted, but the phase and the report that carry the     *)
(* verdict are there to stay, because no request is left that could write  *)
(* another report.                                                         *)
(***************************************************************************)
Carried(t, v) ==
  /\ pc[t] \in Ending
  /\ status[t] \in {v, "failed"}
  /\ ~orphan[t]
  /\ v = "completed" => /\ phase[t] = "ship"
                        /\ sandbox[t] # "none" => row[t] \in Reports /\ Green(row[t])
  /\ v = "failed_verify" => /\ phase[t] = "verify"
                            /\ row[t] \in Reports /\ ~Green(row[t])

\* A status column that holds a verdict is carried by the other columns.
LEMMA VerdictIsCarried ==
  ASSUME TypeOK, RunInv, NEW t \in Tasks, status[t] \in {"completed", "failed_verify"}
  PROVE  Carried(t, status[t])
  BY DEF TypeOK, RunInv, TaskInv, VerdictInv, RequestInv, Carried

LEMMA CarriedStable ==
  ASSUME TypeOK, RunInv, [Next]_vars, NEW t \in Tasks, NEW v \in {"completed", "failed_verify"},
         Carried(t, v)
  PROVE  Carried(t, v)' /\ phase'[t] = phase[t] /\ row'[t] = row[t]
<1>. DEFINE Kept == Carried(t, v)' /\ phase'[t] = phase[t] /\ row'[t] = row[t]
<1>. USE DEF TypeOK, Carried, Ending, rows, services, host, Goto, OnReturn
<1>1. request[t] = "none"
  BY DEF RunInv, TaskInv, RequestInv
<1>2. ASSUME NEW u \in Tasks, RunStep(u) PROVE Kept
  <2>1. CASE u # t
    <3>1. /\ pc'[t] = pc[t] /\ status'[t] = status[t] /\ orphan'[t] = orphan[t]
          /\ phase'[t] = phase[t] /\ sandbox'[t] = sandbox[t] /\ row'[t] = row[t]
      BY <1>2, <2>1 DEF RunStep, Launch, LoadTask, OpenSession, Plan, Replan, PlannerCall,
         FakePlan, FakeTurn, AdvancePlan, AdvancePhase, FakeBuild, Spawn, Spawned,
         SpawnFails, LoopVerify, LoopVerified, LoopError, LoopFinish, Destroy,
         AdvanceBuild, FakeVerify, Verify, Verified, VerifyFails, RecordVerify, RecordShip,
         RecordNode, Complete, FailVerify, HandleError, SetTaskStatus, CleanupSandbox,
         CloseSession, Receive, Abandon, DeleteAnswered, DeleteFails, DeleteTimesOut
    <3>. QED
      BY <3>1
  <2>2. CASE u = t
    <3>1. CleanupSandbox(t) \/ HandleError(t) \/ CloseSession(t)
      BY <1>2, <2>2 DEF RunStep, Launch, LoadTask, OpenSession, Plan, Replan, PlannerCall,
         FakePlan, FakeTurn, AdvancePlan, AdvancePhase, FakeBuild, Spawn, Spawned,
         SpawnFails, LoopVerify, LoopVerified, LoopError, LoopFinish, Destroy,
         AdvanceBuild, FakeVerify, Verify, Verified, VerifyFails, RecordVerify, RecordShip,
         RecordNode, Complete, FailVerify, SetTaskStatus
    <3>2. CASE CleanupSandbox(t)
      <4>1. sandbox'[t] = sandbox[t] \/ sandbox[t] # "none"
        BY <3>2 DEF CleanupSandbox, DeleteAnswered, DeleteFails, DeleteTimesOut
      <4>. QED
        BY <3>2, <4>1 DEF CleanupSandbox
    <3>3. CASE HandleError(t) \/ CloseSession(t)
      BY <3>3 DEF HandleError, SetTaskStatus, CloseSession
    <3>. QED
      BY <3>1, <3>2, <3>3
  <2>. QED
    BY <2>1, <2>2
<1>3. ASSUME NEW u \in Tasks, CreateTask(u) \/ ServiceStep(u) PROVE Kept
  BY <1>1, <1>3 DEF CreateTask, ServiceStep, ServeSandbox, ServeVerify, ServeOrphan
<1>4. CASE Crash \/ Shutdown
  <2>1. /\ status'[t] \in {status[t], "failed"} /\ phase'[t] = phase[t] /\ row' = row
    <3>1. CASE Crash
      BY <3>1 DEF Crash
    <3>2. CASE Shutdown
      BY <3>2, ShutdownRows DEF Interrupted, Shutdown, Commit
    <3>. QED
      BY <1>4, <3>1, <3>2
  <2>3. ~orphan'[t] /\ pc'[t] \in Ending
    BY <1>1, <1>4 DEF Crash, Shutdown, AbandonAll, CancelTo, Idle, BeforeTry, InTry
  <2>2. sandbox'[t] = sandbox[t] \/ sandbox[t] # "none"
    BY <1>4 DEF Crash, Shutdown, AbandonAll, Deleting, RunInv, TaskInv, SandboxInv
  <2>. QED
    BY <2>1, <2>2, <2>3
<1>5. CASE Exit \/ Restart \/ UNCHANGED vars
  BY <1>5 DEF Exit, Restart, vars
<1>. QED
  BY <1>2, <1>3, <1>4, <1>5 DEF Next, ProcessStep

\* What a client has read so far is carried by the rows, and the phase and the
\* report it has read are the ones that carry it.
AnswerInv ==
  \A c \in Clients :
    LET a == answer[c]
        t == asked[c] IN
    a.status \in {"completed", "failed_verify"} =>
      /\ Carried(t, a.status)
      /\ at[c] \in {"verifier", "idle"} => a.phase = phase[t]
      /\ at[c] = "idle" => a.report = row[t]

\* No answer shows a verdict next to a phase or a report that contradicts it.
THEOREM AnswersFit == ApiSpec => []AnswerSupportsVerdict
<1>1. ApiInit => AnswerInv
  BY DEF ApiInit, AnswerInv, NoAnswer
<1>2. ApiTypeOK /\ TypeOK /\ RunInv /\ AnswerInv /\ [ApiNext]_apiVars => AnswerInv'
  <2>. SUFFICES ASSUME ApiTypeOK, TypeOK, RunInv, AnswerInv, [ApiNext]_apiVars,
                       NEW c \in Clients, answer'[c].status \in {"completed", "failed_verify"}
                PROVE  /\ Carried(asked[c], answer[c].status)'
                       /\ at'[c] \in {"verifier", "idle"} =>
                            answer'[c].phase = phase'[asked'[c]]
                       /\ at'[c] = "idle" => answer'[c].report = row'[asked'[c]]
    BY DEF AnswerInv
  <2>. USE DEF ApiTypeOK, AnswerInv, Proceed, Answers, Stages
  <2>1. ASSUME NEW d \in Clients, ReadTask(d)
        PROVE  /\ Carried(asked[c], answer[c].status)'
               /\ at'[c] \in {"verifier", "idle"} => answer'[c].phase = phase'[asked'[c]]
               /\ at'[c] = "idle" => answer'[c].report = row'[asked'[c]]
    <3>1. UNCHANGED vars
      BY <2>1 DEF ReadTask
    <3>2. CASE c = d
      <4>1. /\ answer'[c].status = status[asked'[c]] /\ asked'[c] \in Tasks
            /\ at'[c] = "session"
        BY <2>1, <3>2 DEF ReadTask
      <4>2. Carried(asked'[c], answer'[c].status)
        BY <4>1, VerdictIsCarried
      <4>. QED
        BY <3>1, <4>1, <4>2 DEF Carried, vars
    <3>3. CASE c # d
      <4>1. answer'[c] = answer[c] /\ asked'[c] = asked[c] /\ at'[c] = at[c]
        BY <2>1, <3>3 DEF ReadTask
      <4>. QED
        BY <3>1, <4>1 DEF Carried, vars
    <3>. QED
      BY <3>2, <3>3
  <2>2. ASSUME NEW d \in Clients, ReadSession(d) \/ ReadVerifier(d)
        PROVE  /\ Carried(asked[c], answer[c].status)'
               /\ at'[c] \in {"verifier", "idle"} => answer'[c].phase = phase'[asked'[c]]
               /\ at'[c] = "idle" => answer'[c].report = row'[asked'[c]]
    <3>1. UNCHANGED vars /\ asked' = asked /\ answer'[c].status = answer[c].status
      BY <2>2 DEF ReadSession, ReadVerifier
    <3>2. Carried(asked[c], answer[c].status)
      BY <3>1
    <3>3. phase[asked[c]] # "none"
      BY <3>1, <3>2 DEF Carried
    <3>4. /\ at'[c] \in {"verifier", "idle"} => answer'[c].phase = phase[asked[c]]
          /\ at'[c] = "idle" => answer'[c].report = row[asked[c]]
      BY <2>2, <3>1, <3>3 DEF ReadSession, ReadVerifier
    <3>. QED
      BY <3>1, <3>2, <3>4 DEF Carried, vars
  <2>3. CASE Next /\ DropRequests
    <3>1. /\ asked' = asked /\ answer'[c] = answer[c]
          /\ at'[c] = at[c] \/ answer'[c] = NoAnswer
      BY <2>3 DEF DropRequests, poll, NoAnswer
    <3>2. Carried(asked[c], answer[c].status) /\ at'[c] = at[c]
      BY <3>1 DEF NoAnswer
    <3>3. /\ Carried(asked[c], answer[c].status)'
          /\ phase'[asked[c]] = phase[asked[c]] /\ row'[asked[c]] = row[asked[c]]
      <4>. DEFINE v == answer[c].status
      <4>1. v \in {"completed", "failed_verify"} /\ asked[c] \in Tasks
        BY <3>1
      <4>2. /\ Carried(asked[c], v)
            /\ answer'[c].status = v /\ asked'[c] = asked[c]
        BY <3>1, <3>2
      <4>. QED
        BY <2>3, <4>1, <4>2, CarriedStable DEF Carried
    <3>. QED
      BY <3>1, <3>2, <3>3
  <2>4. CASE UNCHANGED apiVars
    BY <2>4 DEF apiVars, vars, poll, Carried
  <2>. QED
    BY <2>1, <2>2, <2>3, <2>4 DEF ApiNext, ClientStep
<1>3. ApiTypeOK /\ AnswerInv => AnswerSupportsVerdict
  BY NoReportAssumption DEF AnswerInv, AnswerSupportsVerdict, Carried, ApiTypeOK, TypeOK
<1>. QED
  BY <1>1, <1>2, <1>3, ApiTypeCorrect, RunInvariants, PTL DEF ApiSpec

-----------------------------------------------------------------------------
\* What a client has been told or is being told stands, whatever the runs, their
\* handlers, kills and restarts do after it was read.
THEOREM AnswersAreStable == ApiSpec => []AnswersStand
<1>1. ApiInit => AnswersStand
  BY DEF ApiInit, Init, AnswersStand, NoAnswer, Verdicts, Rank
<1>2. ASSUME ApiTypeOK, TypeOK, TypeOK', RunInv, AnswersStand, [ApiNext]_apiVars,
             NEW c \in Clients
      PROVE  LET a == answer'[c]
                 t == asked'[c]
             IN  /\ a.status \in Verdicts => status'[t] \in {a.status, "failed"}
                 /\ Rank[a.phase] <= Rank[phase'[t]]
                 /\ a.report # NoReport => row'[t] # NoReport
  <2>. USE <1>2 DEF ApiTypeOK, Answers
  <2>1. /\ answer[c].status \in Verdicts => status[asked[c]] \in {answer[c].status, "failed"}
        /\ Rank[answer[c].phase] <= Rank[phase[asked[c]]]
        /\ answer[c].report # NoReport => row[asked[c]] # NoReport
    BY DEF AnswersStand
  <2>2. \A p \in Phases : Rank[p] \in Nat /\ Rank["none"] <= Rank[p]
    BY DEF Phases, Rank
  <2>3. ASSUME NEW d \in Clients, ReadTask(d)
        PROVE  LET a == answer'[c]
                   t == asked'[c]
               IN  /\ a.status \in Verdicts => status'[t] \in {a.status, "failed"}
                   /\ Rank[a.phase] <= Rank[phase'[t]]
                   /\ a.report # NoReport => row'[t] # NoReport
    BY <2>1, <2>2, <2>3 DEF ReadTask, NoAnswer, vars, TypeOK
  <2>4. ASSUME NEW d \in Clients, ReadSession(d) \/ ReadVerifier(d)
        PROVE  LET a == answer'[c]
                   t == asked'[c]
               IN  /\ a.status \in Verdicts => status'[t] \in {a.status, "failed"}
                   /\ Rank[a.phase] <= Rank[phase'[t]]
                   /\ a.report # NoReport => row'[t] # NoReport
    <3>1. UNCHANGED vars /\ asked' = asked
      BY <2>4 DEF ReadSession, ReadVerifier
    <3>2. /\ answer'[c].status = answer[c].status
          /\ answer'[c].phase \in {answer[c].phase, phase[asked[c]]}
          /\ answer'[c].report \in {answer[c].report, row[asked[c]]}
      BY <2>4 DEF ReadSession, ReadVerifier
    <3>3. Rank[answer'[c].phase] <= Rank[phase[asked[c]]]
      BY <2>1, <2>2, <3>2 DEF TypeOK
    <3>. QED
      BY <2>1, <3>1, <3>2, <3>3 DEF vars
  <2>5. CASE Next /\ DropRequests
    <3>1. /\ asked' = asked
          /\ answer'[c] = answer[c] \/ answer'[c] = NoAnswer
      BY <2>5 DEF DropRequests, poll
    <3>2. /\ StatusStands(status[asked[c]], status'[asked[c]])
          /\ PhaseStands(phase[asked[c]], phase'[asked[c]])
          /\ row[asked[c]] # NoReport => row'[asked[c]] # NoReport
      BY <2>5, RowsStand
    <3>3. Rank[phase[asked[c]]] <= Rank[phase'[asked[c]]]
      BY <3>2 DEF TypeOK, PhaseStands, Phases, Rank
    <3>4. CASE answer'[c] = answer[c]
      <4>1. answer[c].status \in Verdicts
              => status'[asked[c]] \in {answer[c].status, "failed"}
        BY <2>1, <3>2 DEF StatusStands, Verdicts
      <4>2. Rank[answer[c].phase] <= Rank[phase'[asked[c]]]
        <5>1. /\ answer[c].phase \in Phases /\ phase[asked[c]] \in Phases
              /\ phase'[asked[c]] \in Phases
          BY DEF TypeOK
        <5>. QED
          BY <2>1, <2>2, <3>3, <5>1
      <4>. QED
        BY <2>1, <3>1, <3>2, <3>4, <4>1, <4>2
    <3>5. CASE answer'[c] = NoAnswer
      BY <2>2, <3>1, <3>5 DEF NoAnswer, Verdicts, TypeOK
    <3>. QED
      BY <3>1, <3>4, <3>5
  <2>6. CASE UNCHANGED apiVars
    BY <2>1, <2>6 DEF apiVars, vars, poll
  <2>. QED
    BY <2>3, <2>4, <2>5, <2>6 DEF ApiNext, ClientStep
<1>3. ApiTypeOK /\ TypeOK /\ TypeOK' /\ RunInv /\ AnswersStand /\ [ApiNext]_apiVars
        => AnswersStand'
  BY <1>2 DEF AnswersStand
<1>. QED
  BY <1>1, <1>3, ApiTypeCorrect, RunInvariants, PTL DEF ApiSpec
=============================================================================
