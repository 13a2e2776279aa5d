------------------------------ MODULE TaskApi ------------------------------
(***************************************************************************)
(* Clients of the task API polling GET /tasks/{id} while the runs of       *)
(* TaskRun write the rows.  PostgresTaskStore.get_task makes three queries  *)
(* in one session at READ COMMITTED: each sees its own snapshot, so the    *)
(* answer may mix moments of the run.                                      *)
(***************************************************************************)
EXTENDS TaskRun

CONSTANT Clients

VARIABLES at,      \* where each client's request stands
          asked,   \* the task it asks for
          answer   \* what has been read so far: the answer, when at = "idle"

poll == <<at, asked, answer>>
apiVars == <<vars, poll>>

Stages == {"idle", "session", "verifier"}

NoAnswer == [status |-> "none", phase |-> "none", report |-> NoReport]

Answers == [status : Statuses, phase : Phases, report : Reports \cup {NoReport}]

ApiTypeOK == /\ TypeOK
             /\ at \in [Clients -> Stages]
             /\ asked \in [Clients -> Tasks]
             /\ answer \in [Clients -> Answers]
             /\ \A c \in Clients : at[c] # "idle" => answer[c].status # "none"

ApiInit == /\ Init
           /\ at = [c \in Clients |-> "idle"]
           /\ asked \in [Clients -> Tasks]
           /\ answer = [c \in Clients |-> NoAnswer]

-----------------------------------------------------------------------------
Proceed(c, s) == at' = [at EXCEPT ![c] = s]

\* Variant: a task that does not exist is not answered 404.
ReadTaskUnguarded(c) ==
  /\ process = "up"
  /\ at[c] = "idle"
  /\ \E t \in Tasks :
       /\ asked' = [asked EXCEPT ![c] = t]
       /\ answer' = [answer EXCEPT ![c] = [NoAnswer EXCEPT !.status = status[t]]]
       /\ Proceed(c, "session")
  /\ UNCHANGED vars

\* GET /tasks/{id} for a task that exists (404 otherwise): the task row.
ReadTask(c) ==
  /\ process = "up"
  /\ at[c] = "idle"
  /\ \E t \in Tasks :
       /\ status[t] # "none"
       /\ asked' = [asked EXCEPT ![c] = t]
       /\ answer' = [answer EXCEPT ![c] = [NoAnswer EXCEPT !.status = status[t]]]
       /\ Proceed(c, "session")
  /\ UNCHANGED vars

\* The latest session's phase; without a session there is nothing more to read.
ReadSession(c) ==
  /\ at[c] = "session"
  /\ answer' = [answer EXCEPT ![c].phase = phase[asked[c]]]
  /\ Proceed(c, IF phase[asked[c]] = "none" THEN "idle" ELSE "verifier")
  /\ UNCHANGED <<vars, asked>>

\* Variant: the task row is refreshed for the response.
ReadVerifierRefresh(c) ==
  /\ at[c] = "verifier"
  /\ answer' = [answer EXCEPT ![c].report = row[asked[c]], ![c].status = status[asked[c]]]
  /\ Proceed(c, "idle")
  /\ UNCHANGED <<vars, asked>>

\* The session's latest verifier run, and the response.
ReadVerifier(c) ==
  /\ at[c] = "verifier"
  /\ answer' = [answer EXCEPT ![c].report = row[asked[c]]]
  /\ Proceed(c, "idle")
  /\ UNCHANGED <<vars, asked>>

ClientStep(c) == ReadTask(c) \/ ReadSession(c) \/ ReadVerifier(c)

\* A request dies with the process.
DropRequests ==
  IF process' = "down" /\ process # "down"
    THEN /\ at' = [c \in Clients |-> "idle"]
         /\ answer' = [c \in Clients |-> IF at[c] = "idle" THEN answer[c] ELSE NoAnswer]
         /\ UNCHANGED asked
    ELSE UNCHANGED poll

ApiNext == \/ \E c \in Clients : ClientStep(c)
           \/ Next /\ DropRequests

ApiSpec == ApiInit /\ [][ApiNext]_apiVars

-----------------------------------------------------------------------------
\* Although its parts are read at different moments, an answer never shows a
\* verdict with rows that do not carry it: `completed' comes with the ship
\* phase and a report that passes the gate, `failed_verify' with the verify
\* phase and one that does not.  This rests on the task row being read first
\* and written last (store.get_task, graph._ship_node).
AnswerSupportsVerdict ==
  \A c \in Clients : at[c] = "idle" =>
    LET a == answer[c] IN
    /\ a.status = "completed" =>
         /\ a.phase = "ship"
         /\ sandbox[asked[c]] # "none" => a.report # NoReport /\ Green(a.report)
    /\ a.status = "failed_verify" =>
         a.phase = "verify" /\ a.report # NoReport /\ ~Green(a.report)

Rank == [none |-> 0, plan |-> 1, build |-> 2, verify |-> 3, ship |-> 4]

\* What one client was told, no client is told less of later, also across kills
\* and restarts: a verdict is never taken back but for `failed', which is final,
\* a phase never falls behind the one that was told, and where a report was
\* told there is one (store.get_task reads nothing that is rolled back, and
\* no handler of graph.execute puts a row back).
AnswersStand ==
  \A c \in Clients :
    LET a == answer[c]
        t == asked[c] IN
    /\ a.status \in Verdicts => status[t] \in {a.status, "failed"}
    /\ Rank[a.phase] <= Rank[phase[t]]
    /\ a.report # NoReport => row[t] # NoReport
=============================================================================
