------------------------ MODULE Verification_proofs ------------------------
(***************************************************************************)
(* Proofs about Verification, for any number of requests and any contents  *)
(* of the worktree.                                                        *)
(***************************************************************************)
EXTENDS Verification, TLAPS

USE SourcesAssumption, NoneAssumption

\* Whatever a tool prints becomes one of the three statuses of a check.
LEMMA StatusIsOutcome ==
  ASSUME NEW c \in Checks, NEW s \in Sources, NEW run \in ToolRuns(c, s)
  PROVE  Status(c, run) \in Outcomes
  BY DEF Checks, Status, BuildStatus, TypecheckStatus, ParseVitest, ParseBiome, Outcomes

-----------------------------------------------------------------------------
\* The parts of the system stay within their stages, whoever gives up on whom.
THEOREM TypeCorrect == Spec => []TypeOK
<1>. USE DEF ClientStages, RunnerStages, worktree, service
<1>1. ASSUME Init PROVE TypeOK
  <2>1. edit \in BOOLEAN /\ present \in BOOLEAN
    BY <1>1, Zenon DEF Init
  <2>2. runner \in [Requests -> [Checks -> RunnerStages]]
    BY <1>1 DEF Init
  <2>3. found \in [Requests -> [Checks -> Outcomes \cup {"none"}]]
    BY <1>1 DEF Init
  <2>4. /\ client \in ClientStages /\ current \in Requests \cup {None} /\ source \in Sources
        /\ at \in [Requests -> {"new", "checks", "respond", "answered"}]
        /\ code \in [Requests -> {0, 200, 400, 500}] /\ ledger \subseteq Requests
    BY <1>1 DEF Init
  <2>. QED
    BY <2>1, <2>2, <2>3, <2>4, Zenon DEF TypeOK
<1>2. ASSUME TypeOK, [Next]_vars PROVE TypeOK'
  <2>1. edit' \in BOOLEAN /\ present' \in BOOLEAN
    <3>1. edit' \in {edit, TRUE, FALSE} /\ present' \in {present, FALSE}
      BY <1>2 DEF Next, ClientStep, ServiceStep, vars, EditFile, EditFailed, Observe, LoopEnds,
         Verified, LoopFails, Leaves, Destroy, Edited, RunVerifier, Verify, Post, Write,
         StartRunner, RunnerRaises, EndRunner, GatherRaises, PersistRun, Respond
    <3>. QED
      BY <1>2, <3>1 DEF TypeOK
  <2>. DEFINE Fits == /\ client \in ClientStages
                     /\ current \in Requests \cup {None}
                     /\ source \in Sources
                     /\ at \in [Requests -> {"new", "checks", "respond", "answered"}]
                     /\ runner \in [Requests -> [Checks -> RunnerStages]]
                     /\ found \in [Requests -> [Checks -> Outcomes \cup {"none"}]]
                     /\ code \in [Requests -> {0, 200, 400, 500}]
                     /\ ledger \subseteq Requests
  <2>2. Fits
    BY <1>2, Zenon DEF TypeOK
  <2>. SUFFICES Fits'
    BY <2>1, Zenon DEF TypeOK
  <2>3. CASE EditFile \/ EditFailed \/ Observe \/ LoopEnds \/ Verified \/ LoopFails
               \/ Leaves \/ Destroy
    <3>1. client' \in ClientStages
      BY <2>3 DEF EditFile, EditFailed, Observe, LoopEnds, Verified, LoopFails, Leaves, Destroy
    <3>. QED
      BY <2>2, <2>3, <3>1
      DEF EditFile, EditFailed, Observe, LoopEnds, Verified, LoopFails, Leaves, Destroy
  <2>4. ASSUME NEW r \in Requests, Edited(r) \/ RunVerifier(r) \/ Verify(r) PROVE Fits'
    <3>1. /\ client' \in ClientStages /\ current' = r
          /\ UNCHANGED <<source, found, ledger>>
          /\ \/ at' = [at EXCEPT ![r] = "checks"]
             \/ at' = [at EXCEPT ![r] = "answered"]
          /\ \/ code' = code
             \/ code' = [code EXCEPT ![r] = 400]
          /\ \/ runner' = runner
             \/ runner' = [runner EXCEPT ![r] = [c \in Checks |-> "starting"]]
      BY <2>4 DEF Edited, RunVerifier, Verify, Post
    <3>2. [c \in Checks |-> "starting"] \in [Checks -> RunnerStages]
      OBVIOUS
    <3>3. runner' \in [Requests -> [Checks -> RunnerStages]]
      BY <2>2, <3>1, <3>2
    <3>4. at' \in [Requests -> {"new", "checks", "respond", "answered"}]
      BY <2>2, <3>1
    <3>5. code' \in [Requests -> {0, 200, 400, 500}]
      BY <2>2, <3>1
    <3>. QED
      BY <2>2, <3>1, <3>3, <3>4, <3>5
  <2>5. CASE Write
    BY <2>2, <2>5 DEF Write
  <2>6. ASSUME NEW r \in Requests, NEW c \in Checks, StartRunner(r, c) \/ RunnerRaises(r, c)
        PROVE  Fits'
    <3>1. PICK stage \in RunnerStages : runner' = [runner EXCEPT ![r][c] = stage]
      BY <2>6 DEF StartRunner, RunnerRaises
    <3>2. UNCHANGED <<client, current, source, at, found, code, ledger>>
      BY <2>6 DEF StartRunner, RunnerRaises
    <3>. QED
      BY <2>2, <3>1, <3>2
  <2>7. ASSUME NEW r \in Requests, NEW c \in Checks, EndRunner(r, c) PROVE Fits'
    BY <2>2, <2>7, StatusIsOutcome DEF EndRunner
  <2>8. ASSUME NEW r \in Requests, GatherRaises(r) \/ PersistRun(r) \/ Respond(r)
        PROVE  Fits'
    <3>1. /\ UNCHANGED <<client, current, source, runner, found>>
          /\ ledger' \in {ledger, ledger \cup {r}}
          /\ \/ at' = [at EXCEPT ![r] = "respond"]
             \/ at' = [at EXCEPT ![r] = "answered"]
          /\ \/ code' = code
             \/ code' = [code EXCEPT ![r] = 500]
             \/ code' = [code EXCEPT ![r] = 200]
      BY <2>8 DEF GatherRaises, PersistRun, Respond, Answer
    <3>2. at' \in [Requests -> {"new", "checks", "respond", "answered"}]
      BY <2>2, <3>1
    <3>3. code' \in [Requests -> {0, 200, 400, 500}]
      BY <2>2, <3>1
    <3>. QED
      BY <2>2, <3>1, <3>2, <3>3
  <2>9. CASE UNCHANGED vars
    BY <2>2, <2>9 DEF vars
  <2>. QED
    BY <1>2, <2>3, <2>4, <2>5, <2>6, <2>7, <2>8, <2>9 DEF Next, ClientStep, ServiceStep
<1>. QED
  BY <1>1, <1>2, PTL DEF Spec

-----------------------------------------------------------------------------
(***************************************************************************)
(* The inductive invariant, request by request.                            *)
(***************************************************************************)

\* What the handler has done says what its runners have done.
HandlerInv(r) ==
  /\ at[r] = "new" => ~Busy(r) /\ code[r] = 0
  /\ at[r] = "new" => \A c \in Checks : runner[r][c] = "idle"
  /\ at[r] = "respond" => r \in ledger
  /\ code[r] # 0 => at[r] = "answered"
  /\ code[r] = 200 => r \in ledger
  /\ r \in ledger => AllDone(r)
  /\ \A c \in Checks : runner[r][c] = "done" => found[r][c] \in Outcomes

\* Tools only run on behalf of the client's last request, and not any more
\* once the client has its report.
AloneInv(r) ==
  Busy(r) => r = current /\ client \in {"waiting", "gating", "failed", "left"} /\ ~edit

\* What a runner has found is what its tool says of the present content.
CurrentInv(r) ==
  client \in {"waiting", "gating", "over"} /\ r = current =>
    \A c \in Checks : runner[r][c] = "done" =>
      \E run \in ToolRuns(c, source) : found[r][c] = Status(c, run)

ClientInv ==
  /\ edit => client \in {"editing", "failed", "left"}
  /\ client \in {"waiting", "gating", "over"} => current \in Requests
  /\ client = "over" => code[current] = 200

VerifyInv ==
  ClientInv /\ \A r \in Requests : HandlerInv(r) /\ AloneInv(r) /\ CurrentInv(r)

LEMMA VerifyInvStep == TypeOK /\ VerifyInv /\ [Next]_vars => VerifyInv'
<1>. SUFFICES ASSUME TypeOK, VerifyInv, [Next]_vars PROVE VerifyInv'
  OBVIOUS
<1>. USE DEF TypeOK, ClientStages, RunnerStages, worktree, service, VerifyInv, ClientInv,
         HandlerInv, AloneInv, CurrentInv, Busy, AllDone
<1>1. CASE EditFile \/ EditFailed \/ Observe \/ LoopEnds \/ Verified \/ LoopFails
             \/ Leaves \/ Destroy
  <2>1. UNCHANGED <<current, source, at, runner, found, code, ledger>>
    BY <1>1 DEF EditFile, EditFailed, Observe, LoopEnds, Verified, LoopFails, Leaves, Destroy
  <2>2. Received /\ current \in Requests => ~Busy(current)
    BY DEF Received
  <2>3. ClientInv'
    BY <1>1, <2>1 DEF EditFile, EditFailed, Observe, LoopEnds, Verified, LoopFails, Leaves,
       Destroy, Received
  <2>4. ASSUME NEW r \in Requests PROVE HandlerInv(r)' /\ AloneInv(r)' /\ CurrentInv(r)'
    <3>1. HandlerInv(r)'
      BY <2>1
    <3>2. AloneInv(r)'
      BY <1>1, <2>1, <2>2 DEF EditFile, EditFailed, Observe, LoopEnds, Verified, LoopFails,
         Leaves, Destroy
    <3>3. CurrentInv(r)'
      BY <1>1, <2>1 DEF EditFile, EditFailed, Observe, LoopEnds, Verified, LoopFails,
         Leaves, Destroy
    <3>. QED
      BY <3>1, <3>2, <3>3
  <2>. QED
    BY <2>3, <2>4
<1>2. CASE Write
  BY <1>2 DEF Write
<1>3. ASSUME NEW q \in Requests, Edited(q) \/ RunVerifier(q) \/ Verify(q) PROVE VerifyInv'
  <2>1. /\ at[q] = "new" /\ current' = q /\ client' \in {"waiting", "gating"} /\ ~edit
        /\ client \in {"editing", "loop", "gate"}
        /\ UNCHANGED <<edit, source, found, ledger>>
        /\ \A r \in Requests \ {q} :
             at'[r] = at[r] /\ runner'[r] = runner[r] /\ code'[r] = code[r]
        /\ \/ at'[q] = "checks" /\ code'[q] = 0
           \/ at'[q] = "answered" /\ code'[q] = 400
        /\ \A c \in Checks : runner'[q][c] \in {"starting", "idle"}
    BY <1>3 DEF Edited, RunVerifier, Verify, Post
  <2>2. q \notin ledger
    BY <2>1 DEF Checks
  <2>3. ClientInv'
    BY <2>1
  <2>4. ASSUME NEW r \in Requests PROVE HandlerInv(r)' /\ AloneInv(r)' /\ CurrentInv(r)'
    <3>1. HandlerInv(r)'
      BY <2>1, <2>2
    <3>2. AloneInv(r)'
      BY <2>1
    <3>3. CurrentInv(r)'
      BY <2>1
    <3>. QED
      BY <3>1, <3>2, <3>3
  <2>. QED
    BY <2>3, <2>4
<1>4. ASSUME NEW q \in Requests, NEW d \in Checks,
             StartRunner(q, d) \/ RunnerRaises(q, d) \/ EndRunner(q, d)
      PROVE  VerifyInv'
  <2>1. /\ UNCHANGED <<client, current, edit, source, at, code, ledger>>
        /\ runner[q][d] \in {"starting", "running"}
        /\ \A r \in Requests : \A c \in Checks :
             \/ runner'[r][c] = runner[r][c] /\ found'[r][c] = found[r][c]
             \/ r = q /\ c = d
    BY <1>4 DEF StartRunner, RunnerRaises, EndRunner
  <2>2. /\ runner'[q][d] \in {"running", "raised", "done"}
        /\ runner'[q][d] = "done" =>
             \E run \in ToolRuns(d, source) : found'[q][d] = Status(d, run)
    BY <1>4 DEF StartRunner, RunnerRaises, EndRunner
  <2>3. Busy(q) /\ q \notin ledger /\ at[q] # "new"
    BY <2>1
  <2>4. runner'[q][d] = "done" => found'[q][d] \in Outcomes
    BY <2>2, StatusIsOutcome
  <2>5. ClientInv'
    BY <2>1
  <2>6. ASSUME NEW r \in Requests PROVE HandlerInv(r)' /\ AloneInv(r)' /\ CurrentInv(r)'
    <3>1. HandlerInv(r)'
      BY <2>1, <2>3, <2>4
    <3>2. AloneInv(r)'
      BY <2>1, <2>3
    <3>3. CurrentInv(r)'
      BY <2>1, <2>2
    <3>. QED
      BY <3>1, <3>2, <3>3
  <2>. QED
    BY <2>5, <2>6
<1>5. ASSUME NEW q \in Requests, GatherRaises(q) \/ PersistRun(q) \/ Respond(q)
      PROVE  VerifyInv'
  BY <1>5 DEF GatherRaises, PersistRun, Respond, Answer
<1>6. CASE UNCHANGED vars
  BY <1>6 DEF vars
<1>. QED
  BY <1>1, <1>2, <1>3, <1>4, <1>5, <1>6 DEF Next, ClientStep, ServiceStep

\* At every point the tools of at most one request run, on the present content.
THEOREM VerifyInvariant == Spec => []VerifyInv
<1>1. Init => VerifyInv
  BY DEF Init, VerifyInv, ClientInv, HandlerInv, AloneInv, CurrentInv, Busy, AllDone, Checks
<1>. QED
  BY <1>1, VerifyInvStep, TypeCorrect, PTL DEF Spec

-----------------------------------------------------------------------------
\* Nothing locks the worktree, and still no two verifications meet in it, and
\* none meets a write.
THEOREM NoTwoMeet == Spec => []ChecksRunAlone
<1>1. VerifyInv => ChecksRunAlone
  BY DEF VerifyInv, AloneInv, ChecksRunAlone
<1>. QED
  BY <1>1, VerifyInvariant, PTL

\* The report that is answered, or decided on, is about the present content.
THEOREM ReportsAreCurrent == Spec => []ReportIsCurrent
<1>1. TypeOK /\ VerifyInv => ReportIsCurrent
  BY DEF TypeOK, VerifyInv, HandlerInv, CurrentInv, ClientInv, AllDone, Received,
     ReportIsCurrent
<1>. QED
  BY <1>1, VerifyInvariant, TypeCorrect, PTL

\* The ledger has every report that was answered, and complete ones only.
THEOREM LedgerIsComplete == Spec => []DurableReports
<1>1. TypeOK /\ VerifyInv => DurableReports
  BY DEF TypeOK, VerifyInv, HandlerInv, AllDone, DurableReports, Reports
<1>. QED
  BY <1>1, VerifyInvariant, TypeCorrect, PTL

\* What passes the gate compiles, is typed, and has tests that were found and
\* did not fail.
THEOREM GateMeansTested == Spec => []ShipsTestedCode
<1>1. TypeOK /\ VerifyInv => ShipsTestedCode
  <2>. SUFFICES ASSUME TypeOK, VerifyInv, client = "over", VerifyPassed(found[current])
                PROVE  /\ source.compiles /\ source.typed
                       /\ "passing" \in source.suites /\ "failing" \notin source.suites
    BY DEF ShipsTestedCode
  <2>1. \A c \in {"build", "typecheck", "tests"} :
          /\ found[current][c] = "pass"
          /\ \E run \in ToolRuns(c, source) : found[current][c] = Status(c, run)
    BY DEF VerifyPassed, VerifyInv, ClientInv, HandlerInv, CurrentInv, AllDone, Checks
  <2>2. \A c \in {"build", "typecheck", "tests"} : Status(c, ToolRun(c, source)) = "pass"
    BY <2>1 DEF ToolRuns, Status, BuildStatus, TypecheckStatus, ParseVitest
  <2>3. source \in AllSources
    BY DEF TypeOK
  <2>. QED
    BY <2>2, <2>3 DEF AllSources, Suites, Status, ToolRun, Vitest, BuildStatus,
       TypecheckStatus, ParseVitest, Exit, Output
<1>. QED
  BY <1>1, VerifyInvariant, TypeCorrect, PTL

\* A row on the ledger stays, and the report it holds is never touched again,
\* nor is the answer that was given: an abandoned verification adds a row and
\* rewrites none (persist_run inserts, and gather is over by then).
THEOREM LedgerStands ==
  Spec => [][/\ \A r \in ledger : r \in ledger' /\ found'[r] = found[r]
             /\ \A r \in Requests : code[r] # 0 => code'[r] = code[r]]_vars
<1>. DEFINE Stands == /\ \A r \in ledger : r \in ledger' /\ found'[r] = found[r]
                      /\ \A r \in Requests : code[r] # 0 => code'[r] = code[r]
<1>1. ASSUME TypeOK, VerifyInv, Next PROVE Stands
  <2>1. /\ \A r \in ledger : r \in Requests /\ AllDone(r)
        /\ \A r \in Requests : code[r] # 0 => at[r] = "answered"
    BY <1>1 DEF TypeOK, VerifyInv, HandlerInv
  <2>2. CASE ClientStep \/ Write
    BY <1>1, <2>1, <2>2
       DEF ClientStep, Write, service, EditFile, EditFailed, Observe, LoopEnds, Verified,
           LoopFails, Leaves, Destroy, Edited, RunVerifier, Verify, Post, TypeOK
  <2>3. ASSUME NEW q \in Requests, ServiceStep(q) PROVE Stands
    <3>1. CASE GatherRaises(q) \/ PersistRun(q) \/ Respond(q)
      BY <1>1, <2>1, <3>1 DEF GatherRaises, PersistRun, Respond, Answer, TypeOK
    <3>2. ASSUME NEW c \in Checks, StartRunner(q, c) \/ EndRunner(q, c) \/ RunnerRaises(q, c)
          PROVE  Stands
      BY <1>1, <2>1, <3>2 DEF StartRunner, EndRunner, RunnerRaises, AllDone, TypeOK
    <3>. QED
      BY <2>3, <3>1, <3>2 DEF ServiceStep
  <2>. QED
    BY <1>1, <2>2, <2>3 DEF Next
<1>2. TypeOK /\ VerifyInv /\ [Next]_vars =>
        [/\ \A r \in ledger : r \in ledger' /\ found'[r] = found[r]
         /\ \A r \in Requests : code[r] # 0 => code'[r] = code[r]]_vars
  BY <1>1
<1>. QED
  BY <1>2, VerifyInvariant, TypeCorrect, PTL DEF Spec
=============================================================================
