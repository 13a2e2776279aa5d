--------------------------- MODULE MCVerification ---------------------------
(* Instances of Verification for TLC. *)
EXTENDS Verification, TLC

CONSTANTS v1, v2

Good == [compiles |-> TRUE, typed |-> TRUE, linted |-> TRUE, suites |-> {"passing"}]

\* Good code; type and format errors; a failing test; no tests at all; a test
\* file that cannot be loaded beside one that passes.
MCSources == {Good,
              [Good EXCEPT !.typed = FALSE, !.linted = FALSE],
              [Good EXCEPT !.compiles = FALSE, !.suites = {"passing", "failing"}],
              [Good EXCEPT !.suites = {}],
              [Good EXCEPT !.suites = {"passing", "unloadable"}]}

Symmetry == Permutations({v1, v2})
=============================================================================
