------------------------------ MODULE Reports ------------------------------
(***************************************************************************)
(* A verifier report is the status of its four checks.  The details behind *)
(* a status (errors, failures, issues) only ever reach the model's prompt. *)
(*                                                                         *)
(* Two readers judge a report: the developer's loop, which stops on a      *)
(* green one, and the orchestrator's gate, which ships on one.             *)
(***************************************************************************)

Checks == {"build", "typecheck", "tests", "lint"}

Outcomes == {"pass", "fail", "skip"}

Reports == [Checks -> Outcomes]

AllPass == [c \in Checks |-> "pass"]

\* Variant: the gate before it looked at typecheck (R3).
VerifyPassedUntyped(f) == \A c \in {"build", "tests"} : f[c] = "pass"

\* graph._verify_passed: lint is reported but does not gate.
VerifyPassed(f) == \A c \in {"build", "typecheck", "tests"} : f[c] = "pass"

\* agent._is_green: the build ran, and nothing failed.
IsGreen(f) == f["build"] = "pass" /\ \A c \in Checks : f[c] # "fail"
=============================================================================
