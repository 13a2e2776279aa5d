----------------------------- MODULE MCTaskRun -----------------------------
(* Instances of TaskRun for TLC. *)
EXTENDS TaskRun, TLC

CONSTANTS t1, t2

MCTasks == {t1, t2}

\* All checks green, a lint failure only, type errors only, zero tests.
MCResults == {AllPass,
              [AllPass EXCEPT !["lint"] = "fail"],
              [AllPass EXCEPT !["typecheck"] = "fail"],
              [AllPass EXCEPT !["tests"] = "skip"]}

\* One report on either side of the gate.
MCGateResults == {AllPass, [AllPass EXCEPT !["typecheck"] = "fail"]}

\* The full deployment only; every environment there is.
MCDeployed == {Settings}
MCEnvironments == SUBSET Settings

\* Every combination of faults.
MCFaultSets == SUBSET FaultKinds

Symmetry == Permutations(MCTasks)
=============================================================================
