--------------------------- MODULE BuildContract ---------------------------
(***************************************************************************)
(* One build of the developer as the orchestrator sees it, with the ReAct  *)
(* loop inside left out: TaskRun takes its builds to be like this, and     *)
(* DeveloperLoop shows that the loop is.                                   *)
(*                                                                         *)
(* A build that runs either works or waits for one verification, which it  *)
(* only asks for with a turn on record.  It may raise at any time, with or *)
(* without having recorded a turn.  It returns while it is not waiting,    *)
(* with its final turn on record.  Whoever runs it may be gone any time.   *)
(***************************************************************************)
CONSTANT Builds

VARIABLE build

Places == {"none", "working", "verifying", "returned", "raised", "over"}

\* `recorded': a turn of the developer is on record, as far as the build has
\* let its caller or the verifier see anything.
States == [at : Places, recorded : BOOLEAN]

At(place, recorded) == [at |-> place, recorded |-> recorded]

\* A build that is not there yet, one that starts, and one nobody looks at.
Absent == At("none", FALSE)
Started == At("working", FALSE)
Over == At("over", FALSE)

Ask(old, new) == old.at = "working" /\ new = At("verifying", TRUE)

Answered(old, new) == old.at = "verifying" /\ new = At("working", old.recorded)

Return(old, new) == old.at = "working" /\ new = At("returned", TRUE)

Raise(old, new) ==
  /\ old.at \in {"working", "verifying"}
  /\ new \in {At("raised", old.recorded), At("raised", TRUE)}

Move(old, new) ==
  \/ old = Absent /\ new = Started
  \/ Ask(old, new) \/ Answered(old, new) \/ Return(old, new) \/ Raise(old, new)
  \/ old.at # "over" /\ new = Over

Init == build \in [Builds -> {Absent, Started}]

\* A restart of a process moves several builds at once.
Next == /\ build' \in [Builds -> States]
        /\ \A b \in Builds : build'[b] = build[b] \/ Move(build[b], build'[b])

Spec == Init /\ [][Next]_build
=============================================================================
