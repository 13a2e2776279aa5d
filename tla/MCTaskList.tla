----------------------------- MODULE MCTaskList -----------------------------
(* An instance of TaskList for TLC: ids that need not grow with time. *)
EXTENDS TaskList

MCTasks == 1 .. 4
=============================================================================
