----------------------------- MODULE MCTaskApi -----------------------------
(* An instance of TaskApi for TLC: two clients polling one task. *)
EXTENDS TaskApi, TLC

CONSTANTS t1, c1, c2

MCTasks == {t1}
MCClients == {c1, c2}

\* A green report, one with type errors.
MCResults == {AllPass, [AllPass EXCEPT !["typecheck"] = "fail"]}

\* The full deployment, and one without secrets.
MCEnvironments == {Settings, {}}

Symmetry == Permutations(MCClients)
=============================================================================
