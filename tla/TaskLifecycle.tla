--------------------------- MODULE TaskLifecycle ---------------------------
(***************************************************************************)
(* What the task API's database promises a reader about one task, with the *)
(* orchestrator's mechanism left out: the task row's status and its        *)
(* session's phase and ended_at.                                           *)
(*                                                                         *)
(* A task is queued once.  Its session walks plan, build, verify, ship,    *)
(* never skipping and never going back.  A verdict is only given by an     *)
(* open session, `completed' only from the ship phase, `failed_verify'     *)
(* only from the verify phase.  Once the session is closed nothing about   *)
(* the task changes any more.  A verdict may still be retracted to         *)
(* `failed' while the session is open: the orchestrator's error handler    *)
(* also runs when the teardown after the verdict raises.                   *)
(***************************************************************************)
CONSTANT Tasks

VARIABLES status,  \* tasks.status
          phase,   \* task_sessions.phase, "none" before there is a session
          ended    \* task_sessions.ended_at is stamped

vars == <<status, phase, ended>>

\* The statuses a task may end in.
Verdicts == {"completed", "failed_verify", "failed"}

Statuses == {"none", "queued"} \cup Verdicts

Phases == {"none", "plan", "build", "verify", "ship"}

Follows == {<<"none", "plan">>, <<"plan", "build">>, <<"build", "verify">>,
            <<"verify", "ship">>}

Open(t) == phase[t] # "none" /\ ~ended[t]

-----------------------------------------------------------------------------
Init == /\ status = [t \in Tasks |-> "none"]
        /\ phase = [t \in Tasks |-> "none"]
        /\ ended = [t \in Tasks |-> FALSE]

Submit(t) == /\ status[t] = "none" /\ status'[t] = "queued"
             /\ phase'[t] = phase[t] /\ ended'[t] = ended[t]

Advance(t) == /\ status[t] = "queued" /\ ~ended[t]
              /\ <<phase[t], phase'[t]>> \in Follows
              /\ status'[t] = status[t] /\ ended'[t] = ended[t]

Decide(t) == /\ status[t] = "queued" /\ Open(t)
             /\ status'[t] \in Verdicts
             /\ status'[t] = "completed" => phase[t] = "ship"
             /\ status'[t] = "failed_verify" => phase[t] = "verify"
             /\ phase'[t] = phase[t] /\ ended'[t] = ended[t]

Retract(t) == /\ status[t] \in {"completed", "failed_verify"} /\ Open(t)
              /\ status'[t] = "failed"
              /\ phase'[t] = phase[t] /\ ended'[t] = ended[t]

Close(t) == /\ Open(t) /\ ended'[t]
            /\ status'[t] = status[t] /\ phase'[t] = phase[t]

Stays(t) == status'[t] = status[t] /\ phase'[t] = phase[t] /\ ended'[t] = ended[t]

Moves(t) == Submit(t) \/ Advance(t) \/ Decide(t) \/ Retract(t) \/ Close(t)

\* The transactions of several tasks may commit while a process shuts down.
Next == /\ status' \in [Tasks -> Statuses]
        /\ phase' \in [Tasks -> Phases]
        /\ ended' \in [Tasks -> BOOLEAN]
        /\ \A t \in Tasks : Stays(t) \/ Moves(t)

Spec == Init /\ [][Next]_vars
=============================================================================
