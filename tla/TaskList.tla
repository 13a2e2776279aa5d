------------------------------ MODULE TaskList ------------------------------
(***************************************************************************)
(* GET /tasks: a client walks through the list of tasks page by page while *)
(* other clients submit more.  Each page is a query of its own; nothing    *)
(* ties the pages of a walk together but the offset the client counts.  A  *)
(* row's created_at is the time its transaction began, so rows do not      *)
(* become visible in the order in which they are listed.                   *)
(***************************************************************************)
EXTENDS Naturals, FiniteSets

CONSTANTS Tasks,     \* the ids (UUIDs) of the tasks that may be submitted
          Limits,    \* the values of `limit' that clients use
          MaxClock   \* bound: the readings of the database's clock

ASSUME TasksAssumption == Tasks \subseteq Nat /\ IsFiniteSet(Tasks)
ASSUME LimitsAssumption == Limits \subseteq 1 .. 100
ASSUME ClockAssumption == MaxClock \in Nat

VARIABLES
  clock,     \* now()
  post,      \* the POST /tasks of each task
  created,   \* tasks.created_at
  walking,   \* the client is between the first page and the last
  offset,    \* the offset of its next page
  known,     \* the tasks that had been answered for when the walk began
  seen,      \* the tasks on its pages so far
  twice,     \* those that were on two of them
  grown      \* a task was committed since the walk began

walk == <<walking, offset, known, seen, twice>>
vars == <<clock, post, created, walk, grown>>

\* Variant: a query reads what is not committed.
RowsUncommitted == {t \in Tasks : post[t] \in {"open", "committed", "answered"}}

\* What a query sees.
Rows == {t \in Tasks : post[t] \in {"committed", "answered"}}

\* The client only ever sees rows that stay.
TypeOK ==
  /\ clock \in 0 .. MaxClock
  /\ post \in [Tasks -> {"new", "open", "failed", "committed", "answered"}]
  /\ created \in [Tasks -> 0 .. MaxClock]
  /\ walking \in BOOLEAN
  /\ offset \in Nat
  /\ known \subseteq Rows /\ seen \subseteq Rows /\ twice \subseteq seen
  /\ grown \in BOOLEAN

Init ==
  /\ clock = 0
  /\ post = [t \in Tasks |-> "new"]
  /\ created = [t \in Tasks |-> 0]
  /\ walking = FALSE
  /\ offset = 0
  /\ known = {} /\ seen = {} /\ twice = {}
  /\ grown = FALSE

-----------------------------------------------------------------------------
(* Submitting. *)

Tick ==
  /\ clock < MaxClock
  /\ clock' = clock + 1
  /\ UNCHANGED <<post, created, walk, grown>>

\* The INSERT; created_at is the default of the column.
Create(t) ==
  /\ post[t] = "new"
  /\ post' = [post EXCEPT ![t] = "open"]
  /\ created' = [created EXCEPT ![t] = clock]
  /\ UNCHANGED <<clock, walk, grown>>

Commit(t) ==
  /\ post[t] = "open"
  /\ post' = [post EXCEPT ![t] = "committed"]
  /\ grown' = TRUE
  /\ UNCHANGED <<clock, created, walk>>

CreateFails(t) ==
  /\ post[t] = "open"
  /\ post' = [post EXCEPT ![t] = "failed"]
  /\ UNCHANGED <<clock, created, walk, grown>>

Answer(t) ==
  /\ post[t] = "committed"
  /\ post' = [post EXCEPT ![t] = "answered"]
  /\ UNCHANGED <<clock, created, walk, grown>>

-----------------------------------------------------------------------------
(* Listing. *)

\* Variant: by time alone, newest first.  Rows of one time come in an order
\* that each query chooses anew; here it is the one by id, up or down.
ListedBeforeByTime(t, u) ==
  \/ created[t] > created[u]
  \/ created[t] = created[u] /\ IF grown THEN t > u ELSE t < u

\* ORDER BY created_at DESC, id DESC.
ListedBefore(t, u) ==
  \/ created[t] > created[u]
  \/ created[t] = created[u] /\ t > u

Rank(t) == Cardinality({u \in Rows : ListedBefore(u, t)})

\* Variant: one row more, to see whether there is a next page.
PageAndOneMore(from, limit) == {t \in Rows : from <= Rank(t) /\ Rank(t) <= from + limit}

\* LIMIT limit OFFSET from.
Page(from, limit) == {t \in Rows : from <= Rank(t) /\ Rank(t) < from + limit}

\* A page that is not full is the last one.
Take(from, limit) ==
  /\ seen' = (IF from = 0 THEN {} ELSE seen) \cup Page(from, limit)
  /\ twice' = IF from = 0 THEN {} ELSE twice \cup (seen \cap Page(from, limit))
  /\ offset' = from + limit
  /\ walking' = (from + limit <= Cardinality(Rows))
  /\ UNCHANGED <<clock, post, created>>

FirstPage(limit) ==
  /\ known' = {t \in Tasks : post[t] = "answered"}
  /\ grown' = FALSE
  /\ Take(0, limit)

NextPage(limit) ==
  /\ walking
  /\ Take(offset, limit)
  /\ UNCHANGED <<known, grown>>

Next ==
  \/ Tick
  \/ \E t \in Tasks : Create(t) \/ Commit(t) \/ CreateFails(t) \/ Answer(t)
  \/ \E limit \in Limits : FirstPage(limit) \/ NextPage(limit)

Spec == Init /\ [][Next]_vars

-----------------------------------------------------------------------------
(* Properties. *)

\* A walk that has come to its end has shown every task whose submission had
\* been answered when it began: rows that appear meanwhile, wherever they are
\* listed, push others to later pages and never to an earlier one, and the
\* id decides between rows of one time alike in every query (list_recent).
NoTaskSkipped == ~walking => known \subseteq seen

\* A task is shown twice only if some submission was committed since the walk
\* began: the pages of an unchanged table do not overlap (offset, limit).
RepeatsMeanGrowth == twice # {} => grown
=============================================================================
