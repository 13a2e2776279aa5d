----------------------- MODULE SandboxService_proofs -----------------------
(***************************************************************************)
(* Proofs about SandboxService, for any number of ids and requests.        *)
(***************************************************************************)
EXTENDS SandboxService, TLAPS

USE NoneAssumption

-----------------------------------------------------------------------------
(***************************************************************************)
(* Each request by itself: which operation is at which subprocess, and     *)
(* whose handle it holds.                                                  *)
(***************************************************************************)
Fits ==
  /\ handles \in [Ids -> Requests \cup {None}]
  /\ worktree \in [Ids -> Requests \cup {None}]
  /\ container \in [Requests -> {"none", "running", "stopped"}]
  /\ op \in [Requests -> Ops]
  /\ target \in [Requests -> Ids]
  /\ held \in [Requests -> Requests \cup {None}]
  /\ at \in [Requests -> Stages]
  /\ code \in [Requests -> {0, 200, 400, 404, 500, 502}]
  /\ spoiled \subseteq Ids
  /\ robbed \subseteq Ids

StageInv(r) ==
  /\ at[r] = "new" => op[r] = "none" /\ held[r] = None
  /\ at[r] # "new" => op[r] # "none"
  /\ at[r] \in SpawnStages => op[r] = "spawn"
  /\ at[r] \in DestroyStages => op[r] \in {"spawn", "delete"}
  /\ at[r] \in {"docker_exec", "docker_kill"} => op[r] = "exec"
  /\ at[r] = "git_diff" => op[r] = "diff"
  /\ op[r] = "spawn" => held[r] = r
  /\ code[r] \in Codes(op[r])
  /\ code[r] # 0 => at[r] = "answered"

\* A handle is handed out by a spawn that was answered, for its own id.
HandleInv(r) ==
  op[r] \in {"exec", "diff", "delete"} =>
    /\ Served(r) \/ code[r] \in {200, 502} => held[r] # None
    /\ held[r] # None =>
         op[held[r]] = "spawn" /\ at[held[r]] = "answered" /\ target[held[r]] = target[r]

\* What there is was made by a spawn that got that far.
OriginInv ==
  /\ \A i \in Ids : handles[i] # None =>
       op[handles[i]] = "spawn" /\ at[handles[i]] = "answered" /\ target[handles[i]] = i
  /\ \A i \in Ids : worktree[i] # None =>
       /\ op[worktree[i]] = "spawn" /\ target[worktree[i]] = i
       /\ at[worktree[i]] # "worktree_add"
  /\ \A s \in Requests : container[s] # "none" =>
       op[s] = "spawn" /\ at[s] \notin {"worktree_add", "docker_run"}

RequestInv == OriginInv /\ \A r \in Requests : StageInv(r) /\ HandleInv(r)

\* A step of a request is about that request only.
LEMMA StepIsLocal ==
  ASSUME Fits, NEW r \in Requests, Step(r)
  PROVE  /\ target' = target
         /\ at[r] # "answered" /\ at[r] # "lost"
         /\ at[r] # "new" => op' = op /\ held' = held
         /\ \A q \in Requests \ {r} :
              at'[q] = at[q] /\ code'[q] = code[q] /\ op'[q] = op[q] /\ held'[q] = held[q]
  BY DEF Step, Fits, request, CreateSandbox, WorktreeAdd, DockerRun, UndoWorktree, Setup,
     DockerRm, RepoRoot, WorktreeRemove, Forget, Lookup, DockerExec, DockerKill, GitDiff,
     Continue, Answer

\* What a step does to the path of an id, to a container and to the registry.
LEMMA WorktreeMoves ==
  ASSUME Fits, NEW r \in Requests, Step(r)
  PROVE  /\ robbed \subseteq robbed' /\ spoiled \subseteq spoiled'
         /\ robbed' \subseteq robbed \cup {target[r]}
         /\ target[r] \in robbed' \ robbed =>
              /\ at[r] \in {"undo_worktree", "worktree_remove"}
              /\ worktree[target[r]] \notin {None, held[r]}
         /\ \A i \in Ids :
              \/ worktree'[i] = worktree[i]
              \/ /\ i = target[r] /\ at[r] = "worktree_add" /\ at'[r] = "docker_run"
                 /\ worktree[i] = None /\ worktree'[i] = r
              \/ /\ i = target[r] /\ at[r] \in {"undo_worktree", "worktree_remove"}
                 /\ worktree'[i] = None
                 /\ i \in robbed' \/ worktree[i] \in {None, held[r]}
  BY DEF Step, Fits, request, resources, history, CreateSandbox, WorktreeAdd, DockerRun,
     UndoWorktree, Setup, DockerRm, RepoRoot, WorktreeRemove, Lookup, DockerExec,
     DockerKill, GitDiff, Continue, Answer, RemoveWorktree, Spoil

LEMMA ContainerMoves ==
  ASSUME Fits, NEW r \in Requests, Step(r)
  PROVE  \A s \in Requests :
           \/ container'[s] = container[s]
           \/ s = r /\ at[r] = "docker_run" /\ at'[r] \in {"setup", "undo_worktree"}
           \/ s = held[r] /\ at[r] = "docker_rm" /\ container'[s] = "none"
           \/ /\ s = held[r] /\ at[r] = "docker_kill"
              /\ container[s] # "none" /\ container'[s] = "stopped"
  BY DEF Step, Fits, request, resources, CreateSandbox, WorktreeAdd, DockerRun,
     UndoWorktree, Setup, DockerRm, RepoRoot, WorktreeRemove, Lookup, DockerExec,
     DockerKill, GitDiff, Continue, Answer, SetContainer

LEMMA HandlesMove ==
  ASSUME Fits, NEW r \in Requests, Step(r)
  PROVE  \A i \in Ids :
           \/ handles'[i] = handles[i]
           \/ /\ i = target[r] /\ at[r] = "setup" /\ at'[r] = "answered"
              /\ handles'[i] = r
           \/ /\ i = target[r] /\ at[r] = "worktree_remove" /\ op[r] # "spawn"
              /\ handles'[i] = None
  BY DEF Step, Fits, request, CreateSandbox, WorktreeAdd, DockerRun, UndoWorktree, Setup,
     DockerRm, RepoRoot, WorktreeRemove, Forget, Lookup, DockerExec, DockerKill, GitDiff,
     Continue, Answer

LEMMA FitsStep ==
  ASSUME Fits, RequestInv, [Next]_vars
  PROVE  Fits'
<1>1. ASSUME NEW r \in Requests, Step(r) PROVE Fits'
  <2>1. /\ handles' \in [Ids -> Requests \cup {None}]
        /\ target' \in [Requests -> Ids]
    BY <1>1 DEF Step, Fits, request, CreateSandbox, WorktreeAdd, DockerRun, UndoWorktree,
       Setup, DockerRm, RepoRoot, WorktreeRemove, Forget, Lookup, DockerExec, DockerKill,
       GitDiff, Continue, Answer
  <2>2. /\ worktree' \in [Ids -> Requests \cup {None}]
        /\ spoiled' \subseteq Ids /\ robbed' \subseteq Ids
    BY <1>1 DEF Step, Fits, resources, history, CreateSandbox, WorktreeAdd, DockerRun,
       UndoWorktree, Setup, DockerRm, RepoRoot, WorktreeRemove, Lookup, DockerExec,
       DockerKill, GitDiff, RemoveWorktree, Spoil
  <2>3. container' \in [Requests -> {"none", "running", "stopped"}]
    <3>1. at[r] = "docker_kill" => held[r] \in Requests
      BY DEF RequestInv, StageInv, HandleInv, Fits, Served
    <3> QED
      BY <1>1, <3>1 DEF Step, Fits, resources, CreateSandbox, WorktreeAdd, DockerRun,
         UndoWorktree, Setup, DockerRm, RepoRoot, WorktreeRemove, Lookup, DockerExec,
         DockerKill, GitDiff, SetContainer
  <2>4. op' \in [Requests -> Ops] /\ held' \in [Requests -> Requests \cup {None}]
    BY <1>1 DEF Step, Fits, Ops, request, CreateSandbox, WorktreeAdd, DockerRun, UndoWorktree,
       Setup, DockerRm, RepoRoot, WorktreeRemove, Lookup, DockerExec, DockerKill, GitDiff
  <2>5. at' \in [Requests -> Stages] /\ code' \in [Requests -> {0, 200, 400, 404, 500, 502}]
    BY <1>1 DEF Step, Fits, Stages, SpawnStages, DestroyStages, CreateSandbox, WorktreeAdd,
       DockerRun, UndoWorktree, Setup, DockerRm, RepoRoot, WorktreeRemove, Forget, Lookup,
       First, DockerExec, DockerKill, GitDiff, Continue, Answer
  <2> QED
    BY <2>1, <2>2, <2>3, <2>4, <2>5 DEF Fits
<1>2. CASE Restart
  BY <1>2 DEF Restart, Fits, resources, request, Stages
<1>3. CASE UNCHANGED vars
  BY <1>3 DEF vars, resources, request, history, Fits
<1> QED
  BY <1>1, <1>2, <1>3 DEF Next

LEMMA StageStep ==
  ASSUME Fits, RequestInv, NEW r \in Requests, Step(r)
  PROVE  StageInv(r)' /\ HandleInv(r)'
<1> USE DEF Codes, SpawnStages, DestroyStages, Continue, Answer
<1>1. StageInv(r) /\ HandleInv(r)
  BY DEF RequestInv
<1>2. CASE CreateSandbox(r)
  BY <1>1, <1>2 DEF Fits, CreateSandbox, StageInv, HandleInv, Served
<1>3. CASE WorktreeAdd(r) \/ DockerRun(r) \/ UndoWorktree(r) \/ Setup(r)
  BY <1>1, <1>3 DEF Fits, request, WorktreeAdd, DockerRun, UndoWorktree, Setup, StageInv,
     HandleInv, Served
<1>4. CASE DockerRm(r) \/ RepoRoot(r)
  <2>1. op' = op /\ held' = held /\ target' = target
    BY <1>4 DEF DockerRm, RepoRoot, request
  <2>2. StageInv(r)'
    BY <1>1, <1>4, <2>1 DEF Fits, DockerRm, RepoRoot, StageInv
  <2>3. op[r] = "delete" => held[r] \in Requests /\ held[r] # r
    BY <1>1, <1>4 DEF Fits, DockerRm, RepoRoot, HandleInv, Served, Stages
  <2>4. op[r] = "delete" => at'[held[r]] = at[held[r]]
    BY <2>3, <1>4 DEF Fits, DockerRm, RepoRoot
  <2>5. HandleInv(r)'
    BY <1>1, <1>4, <2>1, <2>3, <2>4 DEF Fits, DockerRm, RepoRoot, StageInv, HandleInv
  <2> QED
    BY <2>2, <2>5
<1>5. CASE WorktreeRemove(r)
  <2>1. op[r] = "delete" => held[r] \in Requests /\ held[r] # r
    BY <1>1, <1>5 DEF Fits, WorktreeRemove, HandleInv, Served, Stages
  <2> QED
    BY <1>1, <1>5, <2>1 DEF Fits, WorktreeRemove, Forget, request, StageInv, HandleInv, Served
<1>6. ASSUME NEW o \in {"exec", "diff", "delete"}, Lookup(r, o)
      PROVE  StageInv(r)' /\ HandleInv(r)'
  <2>1. handles[target[r]] # None =>
          /\ handles[target[r]] # r
          /\ op[handles[target[r]]] = "spawn" /\ at[handles[target[r]]] = "answered"
          /\ target[handles[target[r]]] = target[r]
    BY <1>6 DEF RequestInv, OriginInv, Fits, Lookup
  <2>2. StageInv(r)'
    BY <1>1, <1>6 DEF Fits, Lookup, First, StageInv
  <2>3. HandleInv(r)'
    BY <1>1, <1>6, <2>1 DEF Fits, Lookup, First, StageInv, HandleInv, Served
  <2> QED
    BY <2>2, <2>3
<1>7. CASE DockerExec(r) \/ DockerKill(r) \/ GitDiff(r)
  <2>1. held[r] \in Requests /\ held[r] # r
    BY <1>1, <1>7 DEF Fits, DockerExec, DockerKill, GitDiff, StageInv, HandleInv, Served, Stages
  <2> QED
    BY <1>1, <1>7, <2>1 DEF Fits, request, DockerExec, DockerKill, GitDiff, StageInv,
       HandleInv, Served
<1> QED
  BY <1>2, <1>3, <1>4, <1>5, <1>6, <1>7 DEF Step

LEMMA RequestStep ==
  ASSUME Fits, RequestInv, [Next]_vars
  PROVE  RequestInv'
<1>1. ASSUME NEW r \in Requests, Step(r) PROVE RequestInv'
  <2>1. /\ target' = target
        /\ at[r] # "answered" /\ at[r] # "lost"
        /\ at[r] # "new" => op' = op /\ held' = held
        /\ \A q \in Requests \ {r} :
             at'[q] = at[q] /\ code'[q] = code[q] /\ op'[q] = op[q] /\ held'[q] = held[q]
    BY <1>1, StepIsLocal
  <2>2. StageInv(r)' /\ HandleInv(r)'
    BY <1>1, StageStep
  <2>3. ASSUME NEW q \in Requests \ {r} PROVE StageInv(q)' /\ HandleInv(q)'
    <3>1. StageInv(q)'
      BY <2>1, <2>3 DEF RequestInv, StageInv
    <3>2. held[q] # None /\ op[q] \in {"exec", "diff", "delete"} => held[q] \in Requests \ {r}
      BY <2>1 DEF RequestInv, HandleInv, Fits
    <3>3. HandleInv(q)'
      BY <2>1, <2>3, <3>2 DEF RequestInv, HandleInv, Served
    <3> QED
      BY <3>1, <3>3
  <2>4. ASSUME NEW s \in Requests, op[s] = "spawn"
        PROVE  /\ op'[s] = "spawn"
               /\ at[s] = "answered" => at'[s] = "answered"
               /\ at[s] # "worktree_add" => at'[s] # "worktree_add"
               /\ at[s] \notin {"worktree_add", "docker_run"} =>
                    at'[s] \notin {"worktree_add", "docker_run"}
    <3>1. at[s] # "new"
      BY <2>4 DEF RequestInv, StageInv
    <3>2. CASE s # r
      BY <2>1, <2>4, <3>2
    <3>3. CASE s = r
      BY <1>1, <2>1, <2>4, <3>1, <3>3 DEF Step, Fits, CreateSandbox, WorktreeAdd, DockerRun,
         UndoWorktree, Setup, DockerRm, RepoRoot, WorktreeRemove, Forget, Lookup,
         DockerExec, DockerKill, GitDiff, Continue, Answer
    <3> QED
      BY <3>2, <3>3
  <2>5. OriginInv'
    <3>1. StageInv(r)
      BY DEF RequestInv
    <3>2. \A i \in Ids : handles'[i] # None =>
            op'[handles'[i]] = "spawn" /\ at'[handles'[i]] = "answered"
              /\ target'[handles'[i]] = i
      BY <1>1, <2>1, <2>4, <3>1, HandlesMove
         DEF RequestInv, OriginInv, Fits, StageInv, SpawnStages
    <3>3. \A i \in Ids : worktree'[i] # None =>
            /\ op'[worktree'[i]] = "spawn" /\ target'[worktree'[i]] = i
            /\ at'[worktree'[i]] # "worktree_add"
      BY <1>1, <2>1, <2>4, <3>1, WorktreeMoves
         DEF RequestInv, OriginInv, Fits, StageInv, SpawnStages
    <3>4. \A s \in Requests : container'[s] # "none" =>
            op'[s] = "spawn" /\ at'[s] \notin {"worktree_add", "docker_run"}
      BY <1>1, <2>1, <2>4, <3>1, ContainerMoves
         DEF RequestInv, OriginInv, Fits, StageInv, SpawnStages
    <3> QED
      BY <3>2, <3>3, <3>4 DEF OriginInv
  <2> QED
    BY <2>2, <2>3, <2>5 DEF RequestInv
<1>2. CASE Restart
  <2>1. UNCHANGED <<op, target, held, code, worktree, container>>
    BY <1>2 DEF Restart, request, resources
  <2>2. \A r \in Requests : /\ at'[r] = at[r] \/ at'[r] = "lost"
                            /\ at[r] \in {"new", "answered"} => at'[r] = at[r]
                            /\ at'[r] = "lost" => at[r] # "new"
    BY <1>2 DEF Restart
  <2>3. \A i \in Ids : handles'[i] = None
    BY <1>2 DEF Restart
  <2>4. OriginInv'
    BY <2>1, <2>2, <2>3 DEF RequestInv, OriginInv, Fits
  <2>5. ASSUME NEW r \in Requests PROVE StageInv(r)'
    BY <2>1, <2>2 DEF RequestInv, StageInv, SpawnStages, DestroyStages
  <2>6. ASSUME NEW r \in Requests PROVE HandleInv(r)'
    BY <2>1, <2>2 DEF RequestInv, HandleInv, Served, Fits
  <2> QED
    BY <2>4, <2>5, <2>6 DEF RequestInv
<1>3. CASE UNCHANGED vars
  BY <1>3 DEF vars, resources, request, history, RequestInv, OriginInv, StageInv,
     HandleInv, Served
<1> QED
  BY <1>1, <1>2, <1>3 DEF Next

\* The type invariant, with the answers each endpoint can give.  TLC checks
\* the same on a small instance.
THEOREM TypeCorrect == Spec => []TypeOK
<1>1. Init => Fits /\ RequestInv
  BY DEF Init, Fits, Ops, Stages, RequestInv, OriginInv, StageInv, HandleInv, Codes,
     SpawnStages, DestroyStages
<1>2. Fits /\ RequestInv /\ [Next]_vars => (Fits /\ RequestInv)'
  BY FitsStep, RequestStep
<1>3. Fits /\ RequestInv => TypeOK
  BY DEF Fits, RequestInv, StageInv, TypeOK
<1> QED
  BY <1>1, <1>2, <1>3, PTL DEF Spec

-----------------------------------------------------------------------------
(***************************************************************************)
(* Who owns the worktree at a path, and which containers are gone.         *)
(***************************************************************************)
Owning == {"docker_run", "undo_worktree", "setup", "docker_rm", "repo_root", "worktree_remove"}

Sibling(q, r) == op[q] = "delete" /\ held[q] = held[r] /\ target[q] = target[r]

\* Until it is robbed, an id's worktree belongs to the sandbox that is
\* registered, to the spawn that is under way, or to the sandbox that a DELETE
\* takes away; another DELETE of the same sandbox may have come first.
OwnerInv ==
  /\ \A i \in Ids \ robbed : handles[i] # None => worktree[i] = handles[i]
  /\ \A r \in Requests : op[r] = "spawn" /\ at[r] \in Owning /\ target[r] \notin robbed =>
       worktree[target[r]] = r
  /\ \A r \in Requests : op[r] = "delete" /\ Served(r) /\ target[r] \notin robbed =>
       worktree[target[r]] = held[r] \/ \E q \in Requests \ {r} : Sibling(q, r)

\* Past docker rm, and where docker run failed, there is no container.
RemovedInv ==
  \A r \in Requests : target[r] \notin spoiled =>
    /\ at[r] = "undo_worktree" => container[r] = "none"
    /\ at[r] \in {"repo_root", "worktree_remove"} => container[held[r]] = "none"

ServiceInv == /\ Fits /\ RequestInv
              /\ OwnerInv /\ RobbedByDoubleDelete /\ RemovedInv
              /\ NothingOrphaned /\ DeleteIsFinal /\ TimedOutIsStopped

\* Only another DELETE of the same sandbox takes a worktree away from those
\* it belongs to.
LEMMA RemoverIsSibling ==
  ASSUME Fits, RequestInv, OwnerInv, NEW r \in Requests, Step(r),
         at[r] \in {"undo_worktree", "worktree_remove"}, target[r] \notin robbed
  PROVE  /\ op[r] = "spawn" => worktree[target[r]] = r /\ held[r] = r
         /\ op[r] # "spawn" => op[r] = "delete" /\ Served(r)
         /\ worktree[target[r]] \notin {None, held[r]} =>
              op[r] = "delete" /\ \E q \in Requests \ {r} : Sibling(q, r)
  BY DEF RequestInv, StageInv, OwnerInv, Owning, SpawnStages, DestroyStages, Served

LEMMA OwnerStep ==
  ASSUME Fits, RequestInv, OwnerInv, [Next]_vars
  PROVE  OwnerInv'
<1>1. ASSUME NEW r \in Requests, Step(r) PROVE OwnerInv'
  <2>1. /\ target' = target
        /\ at[r] # "answered" /\ at[r] # "lost"
        /\ at[r] # "new" => op' = op /\ held' = held
        /\ \A q \in Requests \ {r} :
             at'[q] = at[q] /\ code'[q] = code[q] /\ op'[q] = op[q] /\ held'[q] = held[q]
    BY <1>1, StepIsLocal
  <2>2. StageInv(r) /\ HandleInv(r)
    BY DEF RequestInv
  <2>3. robbed \subseteq robbed'
    BY <1>1, WorktreeMoves
  <2>4. \A q, p \in Requests : Sibling(q, p) /\ op[p] = "delete" => Sibling(q, p)'
    BY <2>1, <2>2 DEF Sibling, StageInv
  <2>5. ASSUME NEW i \in Ids \ robbed', handles'[i] # None
        PROVE  worktree'[i] = handles'[i]
    <3>1. CASE handles'[i] = handles[i]
      <4>1. worktree[i] = handles[i] /\ at[handles[i]] = "answered" /\ handles[i] \in Requests
        BY <2>3, <2>5, <3>1 DEF OwnerInv, RequestInv, OriginInv, Fits
      <4>2. CASE worktree'[i] = worktree[i]
        BY <3>1, <4>1, <4>2
      <4>3. CASE worktree'[i] # worktree[i]
        <5>1. /\ i = target[r] /\ at[r] \in {"undo_worktree", "worktree_remove"}
              /\ worktree[i] = held[r]
          BY <1>1, <2>5, <4>1, <4>3, WorktreeMoves
        <5>2. at[r] = "worktree_remove"
          BY <2>1, <2>2, <4>1, <5>1 DEF StageInv, SpawnStages
        <5>3. op[r] # "spawn"
          BY <2>1, <2>2, <4>1, <5>1 DEF StageInv
        <5>4. handles'[i] = None
          BY <1>1, <5>1, <5>2, <5>3 DEF Step, Fits, CreateSandbox, WorktreeAdd, DockerRun,
             UndoWorktree, Setup, DockerRm, RepoRoot, WorktreeRemove, Forget, Lookup,
             DockerExec, DockerKill, GitDiff
        <5> QED
          BY <2>5, <5>4
      <4> QED
        BY <4>2, <4>3
    <3>2. CASE handles'[i] # handles[i]
      <4>1. i = target[r] /\ at[r] = "setup" /\ handles'[i] = r
        BY <1>1, <2>5, <3>2, HandlesMove
      <4>2. worktree[i] = r
        BY <2>2, <2>3, <2>5, <4>1 DEF OwnerInv, Owning, StageInv, SpawnStages
      <4> QED
        BY <1>1, <4>1, <4>2, WorktreeMoves
    <3> QED
      BY <3>1, <3>2
  <2>6. ASSUME NEW q \in Requests,
               op'[q] = "spawn", at'[q] \in Owning, target[q] \notin robbed'
        PROVE  worktree'[target[q]] = q
    <3>1. CASE q = r /\ at[r] = "worktree_add"
      BY <1>1, <2>6, <3>1 DEF Step, Fits, Owning, CreateSandbox, WorktreeAdd, DockerRun,
         UndoWorktree, Setup, DockerRm, RepoRoot, WorktreeRemove, Lookup, DockerExec,
         DockerKill, GitDiff, Continue, Answer
    <3>2. CASE q = r /\ at[r] # "worktree_add"
      <4>1. at[r] # "new"
        <5>1. CASE CreateSandbox(r)
          BY <2>6, <3>2, <5>1 DEF CreateSandbox, Fits, Owning, Continue, Answer
        <5>2. ASSUME NEW o \in {"exec", "diff", "delete"}, Lookup(r, o) PROVE FALSE
          BY <2>6, <3>2, <5>2 DEF Lookup, Fits
        <5> QED
          BY <1>1, <5>1, <5>2 DEF Step, WorktreeAdd, DockerRun, UndoWorktree, Setup, DockerRm,
             RepoRoot, WorktreeRemove, DockerExec, DockerKill, GitDiff
      <4>2. op[r] = "spawn"
        BY <2>1, <2>6, <3>2, <4>1
      <4>3. at[r] \in Owning \ {"undo_worktree", "worktree_remove"}
        <5>1. ~ (UndoWorktree(r) \/ WorktreeRemove(r))
          BY <2>6, <3>2 DEF UndoWorktree, WorktreeRemove, Forget, Fits, Owning, Answer
        <5> QED
          BY <1>1, <2>2, <3>2, <4>1, <4>2, <5>1 DEF Step, Owning, StageInv, CreateSandbox,
             WorktreeAdd, DockerRun, Setup, DockerRm, RepoRoot, Lookup, DockerExec,
             DockerKill, GitDiff
      <4> QED
        BY <1>1, <2>3, <2>6, <3>2, <4>2, <4>3, WorktreeMoves DEF OwnerInv, Fits
    <3>3. CASE q # r
      <4>1. worktree[target[q]] = q /\ at[q] \in Owning /\ op[q] = "spawn"
        BY <2>1, <2>3, <2>6, <3>3 DEF OwnerInv
      <4>2. held[r] # q
        BY <2>1, <2>2, <3>3, <4>1 DEF StageInv, HandleInv, Owning, Fits, Ops
      <4>3. target[q] \in Ids
        BY DEF Fits
      <4> QED
        BY <1>1, <2>6, <4>1, <4>2, <4>3, WorktreeMoves
    <3> QED
      BY <3>1, <3>2, <3>3
  <2>7. ASSUME NEW q \in Requests,
               op'[q] = "delete", Served(q)', target[q] \notin robbed'
        PROVE  worktree'[target[q]] = held'[q] \/ \E p \in Requests \ {q} : Sibling(p, q)'
    <3>1. CASE at[q] = "new"
      <4>1. q = r
        BY <2>1, <2>7, <3>1 DEF Served
      <4>2. held'[q] = handles[target[q]] /\ handles[target[q]] # None /\ worktree' = worktree
        BY <1>1, <2>7, <3>1, <4>1 DEF Step, Fits, Served, resources, CreateSandbox, WorktreeAdd,
           DockerRun, UndoWorktree, Setup, DockerRm, RepoRoot, WorktreeRemove, Lookup,
           First, DockerExec, DockerKill, GitDiff, Continue, Answer
      <4> QED
        BY <2>3, <2>7, <4>2 DEF OwnerInv, Fits
    <3>2. CASE at[q] # "new"
      <4>1. op[q] = "delete" /\ held'[q] = held[q] /\ Served(q)
        BY <2>1, <2>7, <3>2 DEF Served
      <4>2. CASE \E p \in Requests \ {q} : Sibling(p, q)
        BY <2>4, <4>1, <4>2
      <4>3. CASE ~ \E p \in Requests \ {q} : Sibling(p, q)
        <5>1. worktree[target[q]] = held[q] /\ held[q] \in Requests /\ target[q] \in Ids
          BY <2>3, <2>7, <4>1, <4>3 DEF OwnerInv, RequestInv, HandleInv, Fits
        <5>2. CASE worktree'[target[q]] = worktree[target[q]]
          BY <4>1, <5>1, <5>2
        <5>3. CASE worktree'[target[q]] # worktree[target[q]]
          <6>1. /\ target[q] = target[r] /\ at[r] \in {"undo_worktree", "worktree_remove"}
                /\ held[q] = held[r]
            BY <1>1, <2>7, <5>1, <5>3, WorktreeMoves
          <6>2. op[r] = "delete"
            BY <2>1, <2>2, <4>1, <6>1
               DEF StageInv, SpawnStages, DestroyStages, RequestInv, HandleInv
          <6>3. q = r
            BY <4>3, <6>1, <6>2 DEF Sibling
          <6>4. ~Served(r)'
            BY <1>1, <2>2, <6>1, <6>2 DEF Step, Fits, Served, StageInv, SpawnStages,
               CreateSandbox,
               WorktreeAdd, DockerRun, UndoWorktree, Setup, DockerRm, RepoRoot, WorktreeRemove,
               Forget, Lookup, DockerExec, DockerKill, GitDiff, Continue, Answer
          <6> QED
            BY <2>7, <6>3, <6>4
        <5> QED
          BY <5>2, <5>3
      <4> QED
        BY <4>2, <4>3
    <3> QED
      BY <3>1, <3>2
  <2> QED
    BY <2>1, <2>5, <2>6, <2>7 DEF OwnerInv
<1>2. CASE Restart
  BY <1>2 DEF Restart, OwnerInv, Owning, Sibling, Served, resources, request
<1>3. CASE UNCHANGED vars
  BY <1>3 DEF vars, resources, request, history, OwnerInv, Owning, Sibling, Served
<1> QED
  BY <1>1, <1>2, <1>3 DEF Next

LEMMA RobbedStep ==
  ASSUME Fits, RequestInv, OwnerInv, RobbedByDoubleDelete, [Next]_vars
  PROVE  RobbedByDoubleDelete'
<1>1. ASSUME NEW r \in Requests, Step(r) PROVE RobbedByDoubleDelete'
  <2>1. /\ target' = target
        /\ at[r] # "new" => op' = op /\ held' = held
        /\ \A q \in Requests \ {r} : op'[q] = op[q] /\ held'[q] = held[q]
    BY <1>1, StepIsLocal
  <2>2. \A q \in Requests : op[q] = "delete" => op'[q] = "delete" /\ held'[q] = held[q]
    BY <2>1 DEF RequestInv, StageInv
  <2>3. ASSUME NEW i \in robbed', i \notin robbed
        PROVE  \E p, q \in Requests : /\ p # q /\ target[p] = i /\ target[q] = i
                 /\ op[p] = "delete" /\ op[q] = "delete"
                 /\ held[p] = held[q] /\ held[p] # None
    <3>1. /\ i = target[r] /\ at[r] \in {"undo_worktree", "worktree_remove"}
          /\ worktree[i] \notin {None, held[r]}
      BY <1>1, <2>3, WorktreeMoves
    <3>2. op[r] = "delete" /\ \E q \in Requests \ {r} : Sibling(q, r)
      BY <1>1, <2>3, <3>1, RemoverIsSibling
    <3>3. held[r] # None
      BY <3>1, <3>2 DEF RequestInv, HandleInv, Served
    <3> QED
      BY <2>3, <3>1, <3>2, <3>3 DEF Sibling
  <2> QED
    BY <2>1, <2>2, <2>3 DEF RobbedByDoubleDelete
<1>2. CASE Restart
  BY <1>2 DEF Restart, RobbedByDoubleDelete, request
<1>3. CASE UNCHANGED vars
  BY <1>3 DEF vars, request, history, RobbedByDoubleDelete
<1> QED
  BY <1>1, <1>2, <1>3 DEF Next

\* What a request that is not over holds on to, nobody else makes again.
LEMMA GoneStaysGone ==
  ASSUME Fits, RequestInv, NEW r \in Requests, Step(r),
         NEW q \in Requests \ {r}, held[q] \in Requests, at[q] # "new"
  PROVE  /\ held[r] # q \/ op[q] # "spawn" \/ at[q] = "answered"
         /\ held[q] # r
         /\ container[held[q]] = "none" => container'[held[q]] = "none"
         /\ container[held[q]] # "running" => container'[held[q]] # "running"
         /\ worktree[target[q]] # held[q] => worktree'[target[q]] # held[q]
         /\ handles[target[q]] # held[q] => handles'[target[q]] # held[q]
<1>1. at[r] # "answered"
  BY StepIsLocal
<1>2. held[q] # r
  BY <1>1 DEF RequestInv, StageInv, HandleInv, Fits, Ops
<1>3. held[r] # q \/ op[q] # "spawn" \/ at[q] = "answered"
  BY DEF RequestInv, StageInv, HandleInv, Fits, Ops
<1> QED
  BY <1>2, <1>3, ContainerMoves, WorktreeMoves, HandlesMove DEF Fits

LEMMA RemovedStep ==
  ASSUME Fits, RequestInv, RemovedInv, [Next]_vars
  PROVE  RemovedInv'
<1>1. ASSUME NEW r \in Requests, Step(r) PROVE RemovedInv'
  <2>1. /\ target' = target /\ spoiled \subseteq spoiled'
        /\ at[r] # "new" => op' = op /\ held' = held
        /\ \A q \in Requests \ {r} : at'[q] = at[q] /\ op'[q] = op[q] /\ held'[q] = held[q]
    BY <1>1, StepIsLocal, WorktreeMoves
  <2>2. ASSUME NEW q \in Requests \ {r}, target[q] \notin spoiled',
               at[q] \in {"undo_worktree", "repo_root", "worktree_remove"}
        PROVE  held[q] \in Requests /\ container'[held[q]] = "none"
    <3>1. held[q] \in Requests
      BY <2>2 DEF RequestInv, StageInv, HandleInv, Fits, Served, SpawnStages, DestroyStages
    <3>2. container[held[q]] = "none"
      BY <2>1, <2>2 DEF RemovedInv, RequestInv, StageInv, SpawnStages
    <3> QED
      BY <1>1, <2>2, <3>1, <3>2, GoneStaysGone
  <2>3. ASSUME target[r] \notin spoiled', at'[r] = "undo_worktree"
        PROVE  container'[r] = "none"
    <3>1. container[r] = "none" \/ at[r] # "docker_run"
      BY DEF RequestInv, OriginInv
    <3> QED
      BY <1>1, <2>3, <3>1 DEF Step, Fits, Spoil, resources, CreateSandbox, WorktreeAdd,
         DockerRun,
         UndoWorktree, Setup, DockerRm, RepoRoot, WorktreeRemove, Forget, Lookup, First,
         DockerExec, DockerKill, GitDiff, Continue, Answer
  <2>4. ASSUME target[r] \notin spoiled', at'[r] \in {"repo_root", "worktree_remove"}
        PROVE  container'[held'[r]] = "none"
    <3>1. at[r] # "new"
      BY <1>1, <2>4 DEF Step, Fits, CreateSandbox, WorktreeAdd, DockerRun,
         UndoWorktree, Setup, DockerRm, RepoRoot, WorktreeRemove, Lookup, First,
         DockerExec, DockerKill, GitDiff, Continue, Answer
    <3>2. \/ DockerRm(r) \/ RepoRoot(r)
      BY <1>1, <2>4, <3>1 DEF Step, Fits, CreateSandbox, WorktreeAdd, DockerRun,
         UndoWorktree, Setup, WorktreeRemove, Forget, Lookup,
         DockerExec, DockerKill, GitDiff, Continue, Answer
    <3>3. held[r] \in Requests
      BY <3>2 DEF DockerRm, RepoRoot, RequestInv, StageInv, HandleInv, Fits, Served,
         DestroyStages
    <3>4. CASE DockerRm(r)
      BY <2>4, <3>3, <3>4 DEF DockerRm, SetContainer, Spoil, Fits, request
    <3>5. CASE RepoRoot(r)
      BY <2>1, <2>4, <3>3, <3>5 DEF RepoRoot, RemovedInv, Fits, request, resources
    <3> QED
      BY <3>2, <3>4, <3>5
  <2>5. ASSUME NEW q \in Requests \ {r}, target[q] \notin spoiled', at[q] = "undo_worktree"
        PROVE  held[q] = q
    BY <2>5 DEF RequestInv, StageInv, SpawnStages
  <2> QED
    BY <2>1, <2>2, <2>3, <2>4, <2>5 DEF RemovedInv
<1>2. CASE Restart
  BY <1>2 DEF Restart, RemovedInv, resources, request
<1>3. CASE UNCHANGED vars
  BY <1>3 DEF vars, resources, request, history, RemovedInv
<1> QED
  BY <1>1, <1>2, <1>3 DEF Next

LEMMA FinalStep ==
  ASSUME Fits, RequestInv, RemovedInv, DeleteIsFinal, TimedOutIsStopped, [Next]_vars
  PROVE  DeleteIsFinal' /\ TimedOutIsStopped'
<1>1. ASSUME NEW r \in Requests, Step(r) PROVE DeleteIsFinal' /\ TimedOutIsStopped'
  <2>1. /\ target' = target /\ spoiled \subseteq spoiled'
        /\ at[r] # "answered" /\ at[r] # "new" => op' = op /\ held' = held
        /\ \A q \in Requests \ {r} :
             at'[q] = at[q] /\ code'[q] = code[q] /\ op'[q] = op[q] /\ held'[q] = held[q]
    BY <1>1, StepIsLocal, WorktreeMoves
  <2>2. ASSUME NEW q \in Requests,
               \/ op[q] = "delete" /\ code[q] = 200
               \/ op[q] = "exec" /\ code[q] = 502
        PROVE  held[q] \in Requests /\ at[q] # "new"
    BY <2>2 DEF RequestInv, StageInv, HandleInv, Fits
  <2>3. ASSUME NEW q \in Requests \ {r}, op'[q] = "delete" /\ code'[q] = 200
        PROVE  /\ handles'[target'[q]] # held'[q]
               /\ target'[q] \notin spoiled' =>
                    worktree'[target'[q]] # held'[q] /\ container'[held'[q]] = "none"
    <3>1. op[q] = "delete" /\ code[q] = 200 /\ held'[q] = held[q] /\ target'[q] = target[q]
      BY <2>1, <2>3
    <3>2. /\ handles[target[q]] # held[q]
          /\ target[q] \notin spoiled =>
               worktree[target[q]] # held[q] /\ container[held[q]] = "none"
      BY <3>1 DEF DeleteIsFinal
    <3>3. held[q] \in Requests /\ at[q] # "new"
      BY <2>2, <3>1
    <3>4. /\ handles'[target[q]] # held[q]
          /\ target[q] \notin spoiled' =>
               worktree'[target[q]] # held[q] /\ container'[held[q]] = "none"
      BY <1>1, <2>1, <3>2, <3>3, GoneStaysGone
    <3> QED
      BY <3>1, <3>4
  <2>4. ASSUME NEW q \in Requests \ {r},
               op'[q] = "exec" /\ code'[q] = 502, target'[q] \notin spoiled'
        PROVE  container'[held'[q]] # "running"
    <3>1. op[q] = "exec" /\ code[q] = 502 /\ held'[q] = held[q] /\ target'[q] = target[q]
      BY <2>1, <2>4
    <3>2. container[held[q]] # "running"
      BY <2>1, <2>4, <3>1 DEF TimedOutIsStopped
    <3>3. held[q] \in Requests /\ at[q] # "new"
      BY <2>2, <3>1
    <3> QED
      BY <1>1, <3>1, <3>2, <3>3, GoneStaysGone
  <2>5. code[r] = 0
    BY <1>1, StepIsLocal DEF RequestInv, StageInv
  <2>6. ASSUME op'[r] = "delete" /\ code'[r] = 200
        PROVE  /\ handles'[target'[r]] # held'[r]
               /\ target'[r] \notin spoiled' =>
                    worktree'[target'[r]] # held'[r] /\ container'[held'[r]] = "none"
    <3>1. WorktreeRemove(r)
      <4>1. \A o \in {"exec", "diff", "delete"} : ~ Lookup(r, o)
        BY <2>5, <2>6 DEF Lookup, Fits, Continue, Answer
      <4> QED
        BY <1>1, <2>5, <2>6, <4>1 DEF Step, Fits, RequestInv, StageInv, SpawnStages, request,
           CreateSandbox, WorktreeAdd, DockerRun, UndoWorktree, Setup, DockerRm, RepoRoot,
           DockerExec, DockerKill, GitDiff, Continue, Answer
    <3>2. held[r] \in Requests /\ op[r] = "delete" /\ at[r] = "worktree_remove"
      BY <2>6, <3>1 DEF WorktreeRemove, request, RequestInv, HandleInv, Fits, Served
    <3>3. handles' = [handles EXCEPT ![target[r]] = None]
      BY <3>1, <3>2 DEF WorktreeRemove, Forget
    <3>4. target[r] \notin spoiled' => worktree'[target[r]] = None
      BY <3>1 DEF WorktreeRemove, RemoveWorktree, Spoil, Fits
    <3>5. target[r] \notin spoiled' => container'[held[r]] = "none"
      BY <2>1, <3>1, <3>2 DEF WorktreeRemove, RemovedInv, Fits
    <3> QED
      BY <3>1, <3>2, <3>3, <3>4, <3>5 DEF WorktreeRemove, request, Fits
  <2>7. ASSUME op'[r] = "exec" /\ code'[r] = 502, target'[r] \notin spoiled'
        PROVE  container'[held'[r]] # "running"
    <3>1. DockerKill(r)
      <4>1. \A o \in {"exec", "diff", "delete"} : ~ Lookup(r, o)
        BY <2>5, <2>7 DEF Lookup, Fits, Continue, Answer
      <4> QED
        BY <1>1, <2>5, <2>7, <4>1 DEF Step, Fits, RequestInv, StageInv, SpawnStages,
           DestroyStages,
           request, CreateSandbox, WorktreeAdd, DockerRun, UndoWorktree, Setup, DockerRm,
           RepoRoot, WorktreeRemove, DockerExec, GitDiff, Continue, Answer
    <3>2. held[r] \in Requests
      BY <2>7, <3>1 DEF DockerKill, RequestInv, StageInv, HandleInv, Fits, Served
    <3> QED
      BY <2>7, <3>1, <3>2 DEF DockerKill, SetContainer, Spoil, request, Fits
  <2> QED
    BY <2>3, <2>4, <2>6, <2>7 DEF DeleteIsFinal, TimedOutIsStopped
<1>2. CASE Restart
  BY <1>2 DEF Restart, RequestInv, HandleInv, Fits, DeleteIsFinal, TimedOutIsStopped,
     resources, request
<1>3. CASE UNCHANGED vars
  BY <1>3 DEF vars, resources, request, history, DeleteIsFinal, TimedOutIsStopped
<1> QED
  BY <1>1, <1>2, <1>3 DEF Next

\* What exists stays with its owner: whoever stops owning a sandbox has
\* removed both halves of it, handed it on, or met one of the known faults.
LEMMA OrphanStep ==
  ASSUME Fits, RequestInv, OwnerInv, RemovedInv, NothingOrphaned, [Next]_vars
  PROVE  NothingOrphaned'
<1>1. ASSUME NEW r \in Requests, Step(r),
             NEW s \in Requests, target[s] \notin spoiled' \cup robbed', Exists(s)'
      PROVE  \/ handles'[target[s]] = s \/ Served(s)'
             \/ \E q \in Requests : Deletes(q, s)'
  <2>1. /\ target' = target /\ spoiled \subseteq spoiled' /\ robbed \subseteq robbed'
        /\ at[r] # "answered" /\ at[r] # "lost"
        /\ at[r] # "new" => op' = op /\ held' = held
        /\ \A q \in Requests \ {r} :
             at'[q] = at[q] /\ op'[q] = op[q] /\ held'[q] = held[q]
    BY <1>1, StepIsLocal, WorktreeMoves
  <2>2. StageInv(r) /\ HandleInv(r)
    BY DEF RequestInv
  <2>3. target[s] \in Ids
    BY DEF Fits
  <2>4. CASE s = r
    <3>1. SUFFICES ASSUME ~Served(r)' PROVE handles'[target[r]] = r
      BY <2>4
    <3>2. op[r] = "spawn" /\ at[r] # "new"
      <4>1. op'[r] = "spawn"
        <5>1. RequestInv'
          BY RequestStep, <1>1 DEF Next
        <5>2. worktree'[target'[r]] # None \/ container'[r] # "none"
          BY <1>1, <2>4, NoneAssumption DEF Exists
        <5> QED
          BY <1>1, <2>1, <2>3, <2>4, <5>1, <5>2 DEF RequestInv, OriginInv, Exists
      <4>2. at[r] # "new"
        <5>1. SUFFICES ASSUME at[r] = "new" PROVE FALSE
          OBVIOUS
        <5>2. worktree[target[r]] # r /\ container[r] = "none"
          BY <2>2, <2>3, <2>4, <5>1 DEF StageInv, RequestInv, OriginInv, Fits
        <5>3. worktree' = worktree /\ container' = container
          BY <1>1, <5>1 DEF Step, resources, CreateSandbox, WorktreeAdd, DockerRun,
             UndoWorktree, Setup, DockerRm, RepoRoot, WorktreeRemove, Lookup, DockerExec,
             DockerKill, GitDiff
        <5> QED
          BY <1>1, <2>1, <2>4, <5>2, <5>3 DEF Exists
      <4> QED
        BY <2>1, <4>1, <4>2
    <3>3. held[r] = r
      BY <2>2, <3>2 DEF StageInv
    <3>4. container'[r] # "none" \/ worktree'[target[r]] = r
      BY <1>1, <2>1, <2>4 DEF Exists
    <3>5. CASE WorktreeAdd(r)
      BY <1>1, <2>3, <2>4, <3>1, <3>4, <3>5 DEF WorktreeAdd, Fits, Served, Continue, Answer,
         RequestInv, OriginInv
    <3>6. CASE DockerRun(r) \/ DockerRm(r)
      BY <3>1, <3>6 DEF DockerRun, DockerRm, Fits, Served, Continue
    <3>7. CASE UndoWorktree(r)
      BY <1>1, <2>1, <2>3, <2>4, <3>4, <3>7
         DEF UndoWorktree, RemoveWorktree, Spoil, Fits, RemovedInv
    <3>8. CASE Setup(r)
      BY <1>1, <2>3, <2>4, <3>1, <3>8 DEF Setup, Spoil, Fits, Served, Continue
    <3>9. CASE RepoRoot(r)
      <4>1. worktree[target[r]] = r
        BY <1>1, <2>1, <2>4, <3>2, <3>9 DEF RepoRoot, OwnerInv, Owning
      <4> QED
        BY <1>1, <2>3, <2>4, <3>1, <3>9, <4>1 DEF RepoRoot, Spoil, Fits, Served, Continue
    <3>10. CASE WorktreeRemove(r)
      BY <1>1, <2>1, <2>3, <2>4, <3>3, <3>4, <3>10
         DEF WorktreeRemove, RemoveWorktree, Spoil, Fits, RemovedInv
    <3> QED
      BY <1>1, <2>2, <3>2, <3>5, <3>6, <3>7, <3>8, <3>9, <3>10 DEF Step, StageInv,
         CreateSandbox, Lookup, DockerExec, DockerKill, GitDiff
  <2>5. CASE s # r
    <3>1. Exists(s)
      <4>1. worktree'[target[s]] = s => worktree[target[s]] = s
        BY <1>1, <2>3, <2>5, WorktreeMoves
      <4>2. container'[s] # "none" => container[s] # "none"
        BY <1>1, <2>5, ContainerMoves
      <4> QED
        BY <1>1, <2>1, <4>1, <4>2 DEF Exists
    <3>2. handles[target[s]] = s \/ Served(s) \/ \E q \in Requests : Deletes(q, s)
      BY <1>1, <2>1, <3>1 DEF NothingOrphaned
    <3>3. CASE Served(s)
      BY <2>1, <2>5, <3>3 DEF Served
    <3>4. ASSUME target[r] = target[s], held[r] = s, at[r] \in {"repo_root", "worktree_remove"},
                 worktree'[target[s]] = None
          PROVE  FALSE
      <4>1. container[s] = "none"
        BY <1>1, <2>1, <3>4 DEF RemovedInv
      <4>2. container'[s] = "none"
        BY <1>1, <2>5, <3>4, <4>1, ContainerMoves
      <4> QED
        BY <1>1, <2>1, <3>4, <4>2 DEF Exists
    <3>5. CASE handles[target[s]] = s
      <4>1. CASE handles'[target[s]] = s
        BY <4>1
      <4>2. CASE handles'[target[s]] # s
        <5>1. /\ target[r] = target[s]
              /\ \/ at[r] = "setup"
                 \/ at[r] = "worktree_remove" /\ op[r] # "spawn"
          BY <1>1, <2>3, <3>5, <4>2, HandlesMove
        <5>2. worktree[target[s]] = s
          BY <1>1, <2>1, <2>3, <3>5 DEF OwnerInv
        <5>3. at[r] # "setup"
          BY <1>1, <2>1, <2>2, <2>5, <5>1, <5>2
             DEF OwnerInv, Owning, StageInv, SpawnStages
        <5>4. WorktreeRemove(r)
          BY <1>1, <5>1, <5>3 DEF Step, CreateSandbox, WorktreeAdd, DockerRun, UndoWorktree,
             Setup, DockerRm, RepoRoot, Lookup, DockerExec, DockerKill, GitDiff
        <5>5. worktree'[target[s]] = None /\ held[r] = s
          BY <1>1, <2>3, <5>1, <5>2, <5>4 DEF WorktreeRemove, RemoveWorktree, Spoil, Fits
        <5> QED
          BY <3>4, <5>1, <5>3, <5>5
      <4> QED
        BY <4>1, <4>2
    <3>6. ASSUME NEW q \in Requests, Deletes(q, s)
          PROVE  \E p \in Requests : Deletes(p, s)'
      <4>1. CASE q # r
        BY <2>1, <3>6, <4>1 DEF Deletes, Served
      <4>2. CASE q = r /\ Served(r)'
        BY <2>1, <3>6, <4>2 DEF Deletes, Served
      <4>3. CASE q = r /\ ~Served(r)'
        <5>1. op[r] = "delete" /\ held[r] = s /\ at[r] # "new" /\ target[r] = target[s]
          BY <2>2, <3>6, <4>3 DEF Deletes, Served, HandleInv
        <5>2. CASE RepoRoot(r)
          <6>1. worktree[target[s]] = None /\ worktree' = worktree
            BY <1>1, <2>3, <4>3, <5>1, <5>2 DEF RepoRoot, Spoil, Fits, Served, Continue,
               resources
          <6> QED
            BY <3>4, <5>1, <5>2, <6>1 DEF RepoRoot
        <5>3. CASE WorktreeRemove(r)
          <6>1. worktree'[target[s]] = None
            BY <1>1, <2>3, <5>1, <5>3 DEF WorktreeRemove, RemoveWorktree, Spoil, Fits
          <6> QED
            BY <3>4, <5>1, <5>3, <6>1 DEF WorktreeRemove
        <5>4. CASE DockerRm(r)
          BY <4>3, <5>4 DEF DockerRm, Served, Fits, Continue
        <5> QED
          BY <1>1, <2>2, <5>1, <5>2, <5>3, <5>4 DEF Step, StageInv, SpawnStages, CreateSandbox,
             WorktreeAdd, DockerRun, UndoWorktree, Setup, Lookup, DockerExec, DockerKill,
             GitDiff
      <4> QED
        BY <4>1, <4>2, <4>3
    <3> QED
      BY <3>2, <3>3, <3>5, <3>6
  <2> QED
    BY <2>4, <2>5
<1>2. ASSUME NEW r \in Requests, Step(r) PROVE NothingOrphaned'
  BY <1>1, <1>2, StepIsLocal DEF NothingOrphaned
<1>3. CASE Restart
  BY <1>3 DEF Restart, Exists, NothingOrphaned, resources, request
<1>4. CASE UNCHANGED vars
  BY <1>4 DEF vars, resources, request, history, NothingOrphaned, Exists, Served, Deletes
<1> QED
  BY <1>2, <1>3, <1>4 DEF Next

\* The strengthening is inductive.
THEOREM ServiceInvariant == Spec => []ServiceInv
<1>1. Init => ServiceInv
  BY DEF Init, ServiceInv, Fits, Ops, Stages, RequestInv, OriginInv, StageInv, HandleInv, Codes,
     SpawnStages, DestroyStages, OwnerInv, Owning, Served, RobbedByDoubleDelete, RemovedInv,
     NothingOrphaned, Exists, DeleteIsFinal, TimedOutIsStopped
<1>2. ServiceInv /\ [Next]_vars => ServiceInv'
  BY FitsStep, RequestStep, OwnerStep, RobbedStep, RemovedStep, FinalStep, OrphanStep
     DEF ServiceInv
<1> QED
  BY <1>1, <1>2, PTL DEF Spec

\* A registered sandbox has its own worktree, until two DELETEs of an earlier
\* sandbox of that id have met it.
THEOREM RegisteredIsUsable == Spec => []RegisteredHasWorktree
<1>1. ServiceInv => RegisteredHasWorktree
  BY DEF ServiceInv, OwnerInv, RegisteredHasWorktree
<1> QED
  BY <1>1, ServiceInvariant, PTL

\* Whatever exists is registered or in the hands of a request that is still
\* served, but for the faults that `spoiled' and `robbed' name.
THEOREM OrphansAreKnown == Spec => []NothingOrphaned
<1>1. ServiceInv => NothingOrphaned
  BY DEF ServiceInv
<1> QED
  BY <1>1, ServiceInvariant, PTL

\* Nobody but two DELETEs with the handle of one sandbox takes the worktree of
\* another.
THEOREM RobbedOnlyByDeletes == Spec => []RobbedByDoubleDelete
<1>1. ServiceInv => RobbedByDoubleDelete
  BY DEF ServiceInv
<1> QED
  BY <1>1, ServiceInvariant, PTL

\* A sandbox has one DELETE at most that was not answered 404 at once.
DeletedOnce ==
  \A r, q \in Requests :
    op[r] = "delete" /\ op[q] = "delete" /\ held[r] = held[q] /\ held[r] # None => r = q

\* For callers that send one DELETE per sandbox, as the orchestrator's runs do
\* (TaskRunEnds_proofs!OneDeletePerRun), a registered sandbox has its worktree
\* until its own DELETE takes it, whatever ids the callers choose.
THEOREM SingleDeletesAreSafe ==
  Spec /\ []DeletedOnce =>
    [](/\ robbed = {}
       /\ \A i \in Ids : \A s \in Requests :
            handles[i] = s => worktree[i] = s \/ \E r \in Requests : Deletes(r, s))
<1>1. DeletedOnce /\ RobbedByDoubleDelete => robbed = {}
  BY DEF DeletedOnce, RobbedByDoubleDelete
<1>2. robbed = {} /\ RegisteredHasWorktree =>
        \A i \in Ids : \A s \in Requests :
          handles[i] = s => worktree[i] = s \/ \E r \in Requests : Deletes(r, s)
  BY DEF RegisteredHasWorktree
<1> QED
  BY <1>1, <1>2, RobbedOnlyByDeletes, RegisteredIsUsable, PTL

\* A DELETE that was answered 200 stays done.
THEOREM DeletesAreFinal == Spec => []DeleteIsFinal
<1>1. ServiceInv => DeleteIsFinal
  BY DEF ServiceInv
<1> QED
  BY <1>1, ServiceInvariant, PTL

\* A command that timed out is not left running.
THEOREM TimeoutsKill == Spec => []TimedOutIsStopped
<1>1. ServiceInv => TimedOutIsStopped
  BY DEF ServiceInv
<1> QED
  BY <1>1, ServiceInvariant, PTL

\* The service implements the life of a sandbox its users rely on: the
\* worktree of a live sandbox is only taken away once its removal is due, by a
\* DELETE or by a command that timed out.
THEOREM ContractIsKept == Spec => ImplementsContract
<1>1. Init => Contract!Init
  BY DEF Init, Contract!Init, SandboxState
<1>2. ServiceInv /\ [Next]_vars => [Contract!Next]_([s \in Requests |-> SandboxState(s)])
  <2>1. SUFFICES ASSUME ServiceInv, Next PROVE Contract!Next
    <3>1. CASE UNCHANGED vars
      BY <3>1 DEF vars, resources, request, history, SandboxState, Served, Due
    <3> QED
      BY <2>1, <3>1
  <2>2. ASSUME NEW s \in Requests
        PROVE  SandboxState(s)' = SandboxState(s)
                 \/ <<SandboxState(s), SandboxState(s)'>> \in Contract!Moves
    <3>1. target' = target /\ target[s] \in Ids
      BY <2>1, StepIsLocal DEF Next, Restart, request, ServiceInv, Fits
    <3>2. op'[s] = "spawn" /\ op[s] # "spawn" => Served(s)' \/ worktree'[target[s]] # s
      <4>1. op[s] # "spawn" => worktree[target[s]] # s
        BY <2>1, <3>1 DEF ServiceInv, RequestInv, OriginInv
      <4>2. ASSUME NEW r \in Requests, Step(r), op'[s] # op[s]
            PROVE  /\ at'[s] \notin {"new", "answered", "lost"} \/ worktree' = worktree
        BY <2>1, <4>2 DEF ServiceInv, Fits, Step, request, resources, CreateSandbox,
           WorktreeAdd, DockerRun, UndoWorktree, Setup, DockerRm, RepoRoot, WorktreeRemove,
           Lookup, DockerExec, DockerKill, GitDiff
      <4> QED
        BY <2>1, <3>1, <4>1, <4>2 DEF Next, Restart, request, Served
    <3>3. op[s] = "spawn" => op'[s] = "spawn" /\ (Served(s)' => Served(s))
      <4>1. op[s] = "spawn" => at[s] # "new"
        BY <2>1 DEF ServiceInv, RequestInv, StageInv
      <4>2. ASSUME NEW r \in Requests, Step(r), op[s] = "spawn"
            PROVE  op'[s] = "spawn" /\ (Served(s)' => Served(s))
        BY <2>1, <4>1, <4>2, StepIsLocal DEF ServiceInv, Served
      <4> QED
        BY <2>1, <4>2 DEF Next, Restart, request, Served, ServiceInv, Fits
    <3>4. op[s] = "spawn" /\ ~Served(s) /\ worktree[target[s]] # s => worktree'[target[s]] # s
      <4>1. ASSUME NEW r \in Requests, Step(r), ~Served(s), worktree[target[s]] # s,
                   worktree'[target[s]] = s
            PROVE  FALSE
        BY <2>1, <3>1, <4>1, WorktreeMoves DEF ServiceInv, Served
      <4> QED
        BY <2>1, <4>1 DEF Next, Restart, resources
    <3>5. ASSUME ~Served(s), ~Due(s),
                 worktree[target[s]] = s, worktree'[target[s]] # s
          PROVE  FALSE
      <4>1. PICK r \in Requests : Step(r)
        BY <2>1, <3>5 DEF Next, Restart, resources
      <4>2. /\ target[s] = target[r] /\ at[r] \in {"undo_worktree", "worktree_remove"}
            /\ \/ target[s] \in robbed'
               \/ worktree[target[s]] \in {None, held[r]}
        BY <2>1, <3>1, <3>5, <4>1, WorktreeMoves DEF ServiceInv
      <4>3. target[r] \notin robbed /\ ~ (Served(r) /\ op[r] = "delete")
        BY <3>5, <4>2 DEF Due
      <4>4. op[r] = "spawn" /\ held[r] = r /\ worktree[target[r]] = r
        BY <2>1, <4>1, <4>2, <4>3, RemoverIsSibling DEF ServiceInv
      <4>5. r = s
        BY <3>5, <4>2, <4>4
      <4> QED
        BY <3>5, <4>2, <4>5 DEF Served
    <3>6. CASE op[s] # "spawn"
      <4>1. SandboxState(s) = "none"
        BY <3>6 DEF SandboxState
      <4>2. SandboxState(s)' \in {"none", "spawning", "gone"}
        BY <3>1, <3>2, <3>6 DEF SandboxState
      <4> QED
        BY <4>1, <4>2 DEF Contract!Moves
    <3>7. CASE op[s] = "spawn" /\ Served(s)
      BY <3>3, <3>7 DEF SandboxState, Contract!Moves
    <3>8. CASE op[s] = "spawn" /\ ~Served(s) /\ worktree[target[s]] # s
      BY <3>1, <3>3, <3>4, <3>8 DEF SandboxState
    <3>9. CASE op[s] = "spawn" /\ ~Served(s) /\ worktree[target[s]] = s /\ Due(s)
      BY <3>3, <3>9 DEF SandboxState, Contract!Moves
    <3>10. CASE op[s] = "spawn" /\ ~Served(s) /\ worktree[target[s]] = s /\ ~Due(s)
      BY <3>1, <3>3, <3>5, <3>10 DEF SandboxState, Contract!Moves
    <3> QED
      BY <3>6, <3>7, <3>8, <3>9, <3>10
  <2> QED
    BY <2>2 DEF Contract!Next, Contract!States, SandboxState
<1> QED
  BY <1>1, <1>2, ServiceInvariant, PTL DEF Spec, ImplementsContract, Contract!Spec

-----------------------------------------------------------------------------
\* The stages that a handler can still come to before it answers.
StagesLeft == [new |-> 7, worktree_add |-> 6, docker_run |-> 5, setup |-> 4,
               docker_rm |-> 3, repo_root |-> 2, worktree_remove |-> 1,
               undo_worktree |-> 1, docker_exec |-> 2, docker_kill |-> 1,
               git_diff |-> 1, answered |-> 0, lost |-> 0]

\* No stage of an endpoint is tried again, neither by its own handler nor by
\* what others or a restart do to it, and an answer is given once: a failing
\* subprocess sends a handler on, never back (controller.spawn and destroy).
THEOREM HandlersOnlyAdvance ==
  ASSUME NEW r \in Requests
  PROVE  Spec => [][/\ Step(r) \/ at'[r] # at[r] =>
                         StagesLeft[at'[r]] \in 0 .. StagesLeft[at[r]] - 1
                    /\ code[r] # 0 => code'[r] = code[r]]_vars
<1>. DEFINE Falls == StagesLeft[at'[r]] \in 0 .. StagesLeft[at[r]] - 1
<1>1. ASSUME ServiceInv, Step(r) PROVE Falls
  <2>1. Fits /\ StageInv(r)
    BY <1>1 DEF ServiceInv, RequestInv
  <2>2. CASE CreateSandbox(r) \/ WorktreeAdd(r) \/ DockerRun(r) \/ UndoWorktree(r) \/ Setup(r)
    BY <2>1, <2>2 DEF Fits, StagesLeft, CreateSandbox, WorktreeAdd, DockerRun, UndoWorktree,
       Setup, Continue, Answer
  <2>3. CASE DockerRm(r) \/ RepoRoot(r) \/ WorktreeRemove(r)
    BY <2>1, <2>3 DEF Fits, StagesLeft, DockerRm, RepoRoot, WorktreeRemove, Forget, Continue,
       Answer
  <2>4. ASSUME NEW o \in {"exec", "diff", "delete"}, Lookup(r, o) PROVE Falls
    BY <2>1, <2>4 DEF Fits, StagesLeft, Lookup, First, Continue, Answer
  <2>5. CASE DockerExec(r) \/ DockerKill(r) \/ GitDiff(r)
    BY <2>1, <2>5 DEF Fits, StagesLeft, DockerExec, DockerKill, GitDiff, Continue, Answer
  <2> QED
    BY <1>1, <2>2, <2>3, <2>4, <2>5 DEF Step
<1>2. ASSUME ServiceInv, [Next]_vars, at'[r] # at[r], ~Step(r) PROVE Falls
  <2>1. \A q \in Requests : ~Step(q)
    BY <1>2, StepIsLocal DEF ServiceInv
  <2>2. Restart
    BY <1>2, <2>1 DEF Next, vars
  <2> QED
    BY <1>2, <2>2 DEF Restart, ServiceInv, Fits, Stages, SpawnStages, DestroyStages, StagesLeft
<1>3. ASSUME ServiceInv, [Next]_vars, code[r] # 0 PROVE code'[r] = code[r]
  <2>1. at[r] = "answered"
    BY <1>3 DEF ServiceInv, RequestInv, StageInv
  <2>2. ASSUME NEW q \in Requests, Step(q) PROVE code'[r] = code[r]
    BY <2>1, <2>2, <1>3, StepIsLocal DEF ServiceInv
  <2> QED
    BY <1>3, <2>2 DEF Next, Restart, vars
<1>4. ServiceInv /\ [Next]_vars =>
        [/\ Step(r) \/ at'[r] # at[r] => StagesLeft[at'[r]] \in 0 .. StagesLeft[at[r]] - 1
         /\ code[r] # 0 => code'[r] = code[r]]_vars
  BY <1>1, <1>2, <1>3
<1> QED
  BY <1>4, ServiceInvariant, PTL DEF Spec
=============================================================================
