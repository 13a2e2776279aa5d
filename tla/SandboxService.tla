-------------------------- MODULE SandboxService --------------------------
(***************************************************************************)
(* The sandbox service: its HTTP handlers and the controller that shells   *)
(* out to git and docker.  Handlers are coroutines of one event loop that  *)
(* interleave at every subprocess; the registry of handles is in memory,   *)
(* worktrees and containers outlive the service.                           *)
(*                                                                         *)
(* The id of a sandbox names its worktree and its container.  A caller may *)
(* name the id, so one id may be spawned again and again, also while a     *)
(* sandbox of that id exists.  A sandbox is identified by the request that *)
(* spawned it; a handle names the container itself, but only the path of   *)
(* the worktree.                                                           *)
(***************************************************************************)
EXTENDS Naturals, FiniteSets

CONSTANTS Ids,       \* sandbox ids
          Requests,  \* the requests the service receives, at most
          None       \* no sandbox

ASSUME NoneAssumption == None \notin Requests

VARIABLES
  handles,    \* the sandbox registered in _handles under an id
  worktree,   \* the sandbox whose worktree is at the path of an id
  container,  \* the docker container of a sandbox
  op, target, \* what a request asks for, of which id
  held,       \* the sandbox whose handle a request works with
  at,         \* the handler's next subprocess, or how far the request is
  code,       \* the response's status code, 0 before there is one
  spoiled,    \* ids hit by a fault that the controller does not look at
  robbed      \* ids whose worktree was removed for another sandbox's sake

resources == <<worktree, container>>
request == <<op, target, held>>
history == <<spoiled, robbed>>
vars == <<handles, resources, request, at, code, history>>

Ops == {"none", "spawn", "exec", "diff", "delete"}

SpawnStages == {"worktree_add", "docker_run", "undo_worktree", "setup"}
DestroyStages == {"docker_rm", "repo_root", "worktree_remove"}
Stages == {"new", "docker_exec", "docker_kill", "git_diff", "answered", "lost"}
            \cup SpawnStages \cup DestroyStages

\* The answers of each endpoint to a request that FastAPI can parse; 500 is an
\* exception the handler lets through.
Codes(o) == CASE o = "none" -> {0}
              [] o = "spawn" -> {0, 200, 400, 500, 502}
              [] o = "exec" -> {0, 200, 404, 502}
              [] o = "diff" -> {0, 200, 404, 500, 502}
              [] o = "delete" -> {0, 200, 404, 500}

TypeOK ==
  /\ handles \in [Ids -> Requests \cup {None}]
  /\ worktree \in [Ids -> Requests \cup {None}]
  /\ container \in [Requests -> {"none", "running", "stopped"}]
  /\ op \in [Requests -> Ops]
  /\ target \in [Requests -> Ids]
  /\ held \in [Requests -> Requests \cup {None}]
  /\ at \in [Requests -> Stages]
  /\ code \in [Requests -> {0, 200, 400, 404, 500, 502}]
  /\ \A r \in Requests : code[r] \in Codes(op[r])
  /\ spoiled \subseteq Ids
  /\ robbed \subseteq Ids

Init ==
  /\ handles = [i \in Ids |-> None]
  /\ worktree = [i \in Ids |-> None]
  /\ container = [r \in Requests |-> "none"]
  /\ op = [r \in Requests |-> "none"]
  /\ target \in [Requests -> Ids]
  /\ held = [r \in Requests |-> None]
  /\ at = [r \in Requests |-> "new"]
  /\ code = [r \in Requests |-> 0]
  /\ spoiled = {}
  /\ robbed = {}

-----------------------------------------------------------------------------
Continue(r, s) == /\ at' = [at EXCEPT ![r] = s]
                  /\ UNCHANGED code

Answer(r, c) == /\ at' = [at EXCEPT ![r] = "answered"]
                /\ code' = [code EXCEPT ![r] = c]

Spoil(i) == spoiled' = spoiled \cup {i}

\* docker reads the container's id from the handle, or its name.
SetContainer(s, c) == container' = [container EXCEPT ![s] = c]

NameTaken(i) == \E s \in Requests : target[s] = i /\ container[s] # "none"

\* `git worktree remove --force' of a path, whoever made the worktree there,
\* with an exit code that nobody reads.
RemoveWorktree(r) ==
  LET i == target[r] IN
  \/ /\ worktree' = [worktree EXCEPT ![i] = None]
     /\ robbed' = IF worktree[i] \in {None, held[r]} THEN robbed ELSE robbed \cup {i}
     /\ UNCHANGED spoiled
  \/ /\ Spoil(i)
     /\ UNCHANGED <<worktree, robbed>>

-----------------------------------------------------------------------------
(* POST /sandboxes. *)

\* A repo_path that is no directory is answered 400 and leaves no trace.
CreateSandbox(r) ==
  /\ at[r] = "new"
  /\ op' = [op EXCEPT ![r] = "spawn"]
  /\ held' = [held EXCEPT ![r] = r]
  /\ Continue(r, "worktree_add") \/ Answer(r, 400)
  /\ UNCHANGED <<handles, resources, target, history>>

\* Variant: a worktree that could not be added is undone too.
WorktreeAddUndone(r) ==
  /\ at[r] = "worktree_add"
  /\ \/ /\ worktree[target[r]] = None
        /\ worktree' = [worktree EXCEPT ![target[r]] = r]
        /\ Continue(r, "docker_run")
     \/ /\ Continue(r, "undo_worktree")
        /\ UNCHANGED worktree
  /\ UNCHANGED <<handles, container, request, history>>

\* git refuses a path where there is a worktree already.
WorktreeAdd(r) ==
  /\ at[r] = "worktree_add"
  /\ \/ /\ worktree[target[r]] = None
        /\ worktree' = [worktree EXCEPT ![target[r]] = r]
        /\ Continue(r, "docker_run")
     \/ /\ Answer(r, 502)
        /\ UNCHANGED worktree
  /\ UNCHANGED <<handles, container, request, history>>

\* docker refuses a name that is taken.  A docker run that fails otherwise may
\* have created the container before it failed to start it; only the worktree
\* is undone.
DockerRun(r) ==
  /\ at[r] = "docker_run"
  /\ \/ /\ ~NameTaken(target[r])
        /\ SetContainer(r, "running")
        /\ Continue(r, "setup")
        /\ UNCHANGED spoiled
     \/ /\ Continue(r, "undo_worktree")
        /\ UNCHANGED <<container, spoiled>>
     \/ /\ ~NameTaken(target[r])
        /\ SetContainer(r, "stopped")
        /\ Continue(r, "undo_worktree")
        /\ Spoil(target[r])
  /\ UNCHANGED <<handles, worktree, request, robbed>>

\* Variant: the worktree is left behind when the container does not start.
UndoWorktreeForgotten(r) ==
  /\ at[r] = "undo_worktree"
  /\ Answer(r, 502)
  /\ UNCHANGED <<handles, resources, request, history>>

UndoWorktree(r) ==
  /\ at[r] = "undo_worktree"
  /\ RemoveWorktree(r)
  /\ Answer(r, 502)
  /\ UNCHANGED <<handles, container, request>>

\* The setup commands exit 0 and the handle is registered; or one exits with
\* an error and the sandbox is destroyed; or one exceeds its timeout, and
\* then nothing is destroyed.
Setup(r) ==
  /\ at[r] = "setup"
  /\ \/ /\ handles' = [handles EXCEPT ![target[r]] = r]
        /\ Answer(r, 200)
        /\ UNCHANGED spoiled
     \/ /\ Continue(r, "docker_rm")
        /\ UNCHANGED <<handles, spoiled>>
     \/ /\ Answer(r, 502)
        /\ Spoil(target[r])
        /\ UNCHANGED handles
  /\ UNCHANGED <<resources, request, robbed>>

-----------------------------------------------------------------------------
(* destroy, for DELETE and for a failed setup. *)

\* Variant: the container is only stopped.
DockerStop(r) ==
  /\ at[r] = "docker_rm"
  /\ SetContainer(held[r], "stopped")
  /\ Continue(r, "repo_root")
  /\ UNCHANGED <<handles, worktree, request, history>>

DockerRm(r) ==
  /\ at[r] = "docker_rm"
  /\ \/ SetContainer(held[r], "none") /\ UNCHANGED spoiled
     \/ UNCHANGED container /\ Spoil(target[r])
  /\ Continue(r, "repo_root")
  /\ UNCHANGED <<handles, worktree, request, robbed>>

\* git runs in the worktree: without it the subprocess cannot even start, and
\* FileNotFoundError is no SandboxError.  A failing git is one; DELETE does
\* not catch either.
RepoRoot(r) ==
  /\ at[r] = "repo_root"
  /\ \/ /\ worktree[target[r]] # None
        /\ Continue(r, "worktree_remove")
        /\ UNCHANGED spoiled
     \/ /\ worktree[target[r]] # None
        /\ Answer(r, IF op[r] = "spawn" THEN 502 ELSE 500)
        /\ Spoil(target[r])
     \/ /\ worktree[target[r]] = None
        /\ Answer(r, 500)
        /\ UNCHANGED spoiled
  /\ UNCHANGED <<handles, resources, request, robbed>>

\* Variant: the handle of a destroyed sandbox stays registered.
ForgetNothing(r) ==
  /\ Answer(r, IF op[r] = "spawn" THEN 502 ELSE 200)
  /\ UNCHANGED handles

\* `del _handles[id]' forgets whatever is registered under the id, and raises
\* KeyError when another DELETE came first.
Forget(r) ==
  IF op[r] = "spawn" THEN Answer(r, 502) /\ UNCHANGED handles
  ELSE /\ Answer(r, IF handles[target[r]] # None THEN 200 ELSE 500)
       /\ handles' = [handles EXCEPT ![target[r]] = None]

WorktreeRemove(r) ==
  /\ at[r] = "worktree_remove"
  /\ RemoveWorktree(r)
  /\ Forget(r)
  /\ UNCHANGED <<container, request>>

-----------------------------------------------------------------------------
(* Handlers that look the handle up first. *)

First(o) == CASE o = "exec" -> "docker_exec"
              [] o = "diff" -> "git_diff"
              [] o = "delete" -> "docker_rm"

\* Variant: an unknown sandbox is not looked out for.
LookupUnguarded(r, o) ==
  /\ at[r] = "new"
  /\ op' = [op EXCEPT ![r] = o]
  /\ held' = [held EXCEPT ![r] = handles[target[r]]]
  /\ IF handles[target[r]] # None THEN Continue(r, First(o)) ELSE Answer(r, 500)
  /\ UNCHANGED <<handles, resources, target, history>>

Lookup(r, o) ==
  /\ at[r] = "new"
  /\ op' = [op EXCEPT ![r] = o]
  /\ held' = [held EXCEPT ![r] = handles[target[r]]]
  /\ IF handles[target[r]] # None THEN Continue(r, First(o)) ELSE Answer(r, 404)
  /\ UNCHANGED <<handles, resources, target, history>>

\* Any exit code is a result, that of a container that is gone too.
DockerExec(r) ==
  /\ at[r] = "docker_exec"
  /\ \/ Answer(r, 200)
     \/ container[held[r]] = "running" /\ Continue(r, "docker_kill")
  /\ UNCHANGED <<handles, resources, request, history>>

\* Variant: a command that times out is left running.
DockerKillForgotten(r) ==
  /\ at[r] = "docker_kill"
  /\ Answer(r, 502)
  /\ UNCHANGED <<handles, resources, request, history>>

\* The command timed out: the whole container is killed, its handle stays.
DockerKill(r) ==
  /\ at[r] = "docker_kill"
  /\ \/ /\ SetContainer(held[r],
                        IF container[held[r]] = "running" THEN "stopped"
                                                          ELSE container[held[r]])
        /\ UNCHANGED spoiled
     \/ UNCHANGED container /\ Spoil(target[r])
  /\ Answer(r, 502)
  /\ UNCHANGED <<handles, worktree, request, robbed>>

GitDiff(r) ==
  /\ at[r] = "git_diff"
  /\ \/ worktree[target[r]] # None /\ \E c \in {200, 502} : Answer(r, c)
     \/ worktree[target[r]] = None /\ Answer(r, 500)
  /\ UNCHANGED <<handles, resources, request, history>>

-----------------------------------------------------------------------------
Exists(s) == container[s] # "none" \/ worktree[target[s]] = s

\* The service restarts with an empty registry: what exists is never adopted.
Restart ==
  /\ handles' = [i \in Ids |-> None]
  /\ spoiled' = spoiled \cup {target[s] : s \in {q \in Requests : Exists(q)}}
  /\ at' = [r \in Requests |-> IF at[r] \in {"new", "answered"} THEN at[r] ELSE "lost"]
  /\ UNCHANGED <<resources, request, code, robbed>>

Step(r) ==
  \/ CreateSandbox(r) \/ WorktreeAdd(r) \/ DockerRun(r) \/ UndoWorktree(r) \/ Setup(r)
  \/ DockerRm(r) \/ RepoRoot(r) \/ WorktreeRemove(r)
  \/ \E o \in {"exec", "diff", "delete"} : Lookup(r, o)
  \/ DockerExec(r) \/ DockerKill(r) \/ GitDiff(r)

Next == (\E r \in Requests : Step(r)) \/ Restart

Spec == Init /\ [][Next]_vars

-----------------------------------------------------------------------------
(* Properties. *)

Served(r) == at[r] \notin {"new", "answered", "lost"}

\* A DELETE that works with the handle of sandbox s.
Deletes(r, s) == Served(r) /\ op[r] = "delete" /\ held[r] = s

\* A registered sandbox has its own worktree, except while a DELETE is taking
\* it away: no request leaves a handle that can only answer 500, and a spawn
\* refused because its id is in use leaves the sandbox that uses it alone.
RegisteredHasWorktree ==
  \A i \in Ids \ robbed : \A s \in Requests :
    handles[i] = s => worktree[i] = s \/ \E r \in Requests : Deletes(r, s)

\* Whatever exists on disk or in docker can be reached: it is registered, or
\* the request that makes or removes it is still running.  Only faults whose
\* exit code the controller ignores, a docker run that fails half way, a setup
\* timeout, an unresolvable worktree and a restart of the service make an
\* orphan, and a removal that meets the worktree of a later sandbox.
NothingOrphaned ==
  \A s \in Requests :
    target[s] \notin spoiled \cup robbed /\ Exists(s) =>
      \/ handles[target[s]] = s
      \/ Served(s)
      \/ \E r \in Requests : Deletes(r, s)

\* A removal can only meet the worktree of a later sandbox of the same id when
\* two DELETEs were made with the handle of an earlier one (service.py looks
\* the handle up, awaits destroy, and only then deletes the entry).
RobbedByDoubleDelete ==
  \A i \in robbed : \E r, q \in Requests :
    /\ r # q /\ target[r] = i /\ target[q] = i
    /\ op[r] = "delete" /\ op[q] = "delete" /\ held[r] = held[q] /\ held[r] # None

\* A DELETE that was answered 200 has removed the worktree and the container
\* of its sandbox, and the registry has forgotten it, whichever requests ran
\* beside it.
DeleteIsFinal ==
  \A r \in Requests :
    op[r] = "delete" /\ code[r] = 200 =>
      /\ handles[target[r]] # held[r]
      /\ target[r] \notin spoiled =>
           worktree[target[r]] # held[r] /\ container[held[r]] = "none"

\* A command that ran into its timeout does not go on running: its container
\* was killed, or removed by someone else.
TimedOutIsStopped ==
  \A r \in Requests :
    op[r] = "exec" /\ code[r] = 502 /\ target[r] \notin spoiled =>
      container[held[r]] # "running"

\* The life of a sandbox as its user sees it.  Its removal is due once a DELETE
\* of its id is served, or a command of its own has timed out: that path stops
\* at the container today and is meant to destroy the whole sandbox
\* (docs/PROGRESS.md, R7).  A robbed id keeps no promise any more.
Due(s) ==
  \/ target[s] \in robbed
  \/ \E r \in Requests : Served(r) /\ op[r] = "delete" /\ target[r] = target[s]
  \/ \E r \in Requests : /\ op[r] = "exec" /\ held[r] = s
                         /\ at[r] = "docker_kill" \/ code[r] = 502

SandboxState(s) ==
  IF op[s] # "spawn" THEN "none"
  ELSE IF Served(s) THEN "spawning"
  ELSE IF worktree[target[s]] # s THEN "gone"
  ELSE IF Due(s) THEN "deleting" ELSE "live"

Contract == INSTANCE SandboxContract
              WITH Sandboxes <- Requests, state <- [s \in Requests |-> SandboxState(s)]

\* The service keeps the contract that the orchestrator's runs rely on: a
\* worktree that was handed out stays until its removal is due, whatever else is
\* asked of its id: spawns that are refused, fail and are undone, and commands.
ImplementsContract == Contract!Spec

\* A spawn that fails never leaves a half-provisioned container behind it
\* running (docstring of controller.spawn).
FailedSpawnLeavesNoContainer ==
  \A r \in Requests :
    op[r] = "spawn" /\ code[r] = 502 => container[r] # "running"
=============================================================================
