-------------------------- MODULE SandboxContract --------------------------
(***************************************************************************)
(* What a user of the sandbox service relies on, with subprocesses, the    *)
(* registry and the answers left out: the life of a worktree.              *)
(*                                                                         *)
(* A sandbox is asked for once.  Once its spawn is refused or over it      *)
(* either has its worktree or never will, and a worktree is only taken     *)
(* away after its removal fell due: somebody asked for it, or, as the      *)
(* service may see fit, a command in the sandbox ran out of time.  A       *)
(* removal may fail and leave the sandbox as it was.  What is gone does    *)
(* not come back.                                                          *)
(***************************************************************************)
CONSTANT Sandboxes

VARIABLE state

States == {"none", "spawning", "live", "deleting", "gone"}

\* A DELETE may be under way for the name of a sandbox that is being spawned.
Moves == {<<"none", "spawning">>, <<"none", "gone">>,
          <<"spawning", "live">>, <<"spawning", "deleting">>, <<"spawning", "gone">>,
          <<"live", "deleting">>,
          <<"deleting", "live">>, <<"deleting", "gone">>}

Init == state = [s \in Sandboxes |-> "none"]

\* A restart of a process moves several sandboxes at once.
Next == /\ state' \in [Sandboxes -> States]
        /\ \A s \in Sandboxes :
             state'[s] = state[s] \/ <<state[s], state'[s]>> \in Moves

Spec == Init /\ [][Next]_state
=============================================================================
