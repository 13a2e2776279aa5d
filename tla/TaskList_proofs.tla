-------------------------- MODULE TaskList_proofs --------------------------
(***************************************************************************)
(* Proofs about TaskList, for any number of tasks and any clock.           *)
(***************************************************************************)
EXTENDS TaskList, FiniteSetTheorems, TLAPS

USE TasksAssumption, LimitsAssumption, ClockAssumption

\* What a query has seen stays, as it was.
LEMMA RowsStay ==
  ASSUME TypeOK, [Next]_vars
  PROVE  /\ Rows \subseteq Rows'
         /\ \A t \in Rows : created'[t] = created[t]
         /\ ~grown' /\ ~(\E limit \in Limits : FirstPage(limit)) => Rows' = Rows /\ ~grown
  BY DEF TypeOK, Next, vars, walk, Tick, Create, Commit, CreateFails, Answer, FirstPage,
     NextPage, Take, Rows

\* The rows listed before one are finitely many, and it is none of them.
LEMMA RankBounds ==
  ASSUME TypeOK, NEW t \in Rows
  PROVE  /\ Rank(t) \in Nat
         /\ Cardinality(Rows) \in Nat
         /\ Rank(t) < Cardinality(Rows)
<1>. DEFINE before == {u \in Rows : ListedBefore(u, t)}
<1>1. IsFiniteSet(Rows)
  BY FS_Subset DEF Rows
<1>2. before \subseteq Rows /\ before # Rows
  BY DEF ListedBefore, TypeOK, Rows
<1>. QED
  BY <1>1, <1>2, FS_Subset, FS_CardinalityType DEF Rank

\* A row's place in the list never moves towards the front, and does not move
\* at all while no row is added.
LEMMA RankGrows ==
  ASSUME TypeOK, TypeOK', [Next]_vars, NEW t \in Rows
  PROVE  /\ Rank(t) <= Rank(t)' /\ Rank(t)' \in Nat
         /\ Rows' = Rows => Rank(t)' = Rank(t)
<1>. DEFINE before == {u \in Rows : ListedBefore(u, t)}
            after == {u \in Rows' : ListedBefore(u, t)'}
<1>1. IsFiniteSet(after)
  BY FS_Subset DEF Rows
<1>2. \A u \in Rows : ListedBefore(u, t)' = ListedBefore(u, t)
  BY RowsStay DEF ListedBefore
<1>3. before \subseteq after
  BY <1>2, RowsStay
<1>4. Rows' = Rows => before = after
  BY <1>2
<1>5. Cardinality(before) <= Cardinality(after) /\ Cardinality(after) \in Nat
  BY <1>1, <1>3, FS_Subset, FS_CardinalityType
<1>6. Rank(t) = Cardinality(before) /\ Rank(t)' = Cardinality(after)
  BY DEF Rank
<1>. QED
  BY <1>4, <1>5, <1>6

-----------------------------------------------------------------------------
\* A client only ever sees committed rows, and its offset stays a number.
THEOREM TypeCorrect == Spec => []TypeOK
<1>1. ASSUME Init PROVE TypeOK
  <2>1. walking \in BOOLEAN /\ grown \in BOOLEAN
    BY <1>1, Zenon DEF Init
  <2>2. /\ clock \in 0 .. MaxClock /\ offset \in Nat
        /\ post \in [Tasks -> {"new", "open", "failed", "committed", "answered"}]
        /\ created \in [Tasks -> 0 .. MaxClock]
        /\ known \subseteq Rows /\ seen \subseteq Rows /\ twice \subseteq seen
    BY <1>1 DEF Init
  <2>. QED
    BY <2>1, <2>2, Zenon DEF TypeOK
<1>2. ASSUME TypeOK, [Next]_vars PROVE TypeOK'
  <2>1. walking' \in BOOLEAN /\ grown' \in BOOLEAN
    <3>1. grown' \in {grown, TRUE, FALSE}
      BY <1>2 DEF Next, vars, Tick, Create, Commit, CreateFails, Answer, FirstPage, NextPage
    <3>2. UNCHANGED walk \/ \E limit \in Limits : FirstPage(limit) \/ NextPage(limit)
      BY <1>2 DEF Next, vars, walk, Tick, Create, Commit, CreateFails, Answer
    <3>3. ASSUME NEW limit \in Limits, FirstPage(limit) \/ NextPage(limit)
          PROVE  walking' \in BOOLEAN
      <4>1. PICK n \in Nat : walking' = (n <= Cardinality(Rows))
        BY <1>2, <3>3 DEF FirstPage, NextPage, Take, TypeOK
      <4>2. IsFiniteSet(Rows)
        BY FS_Subset DEF Rows
      <4>3. (n <= Cardinality(Rows)) \in BOOLEAN
        BY <4>2, FS_CardinalityType
      <4>. QED
        BY <4>1, <4>3, Zenon
    <3>. QED
      BY <1>2, <3>1, <3>2, <3>3, Zenon DEF TypeOK, walk
  <2>2. /\ clock' \in 0 .. MaxClock
        /\ post' \in [Tasks -> {"new", "open", "failed", "committed", "answered"}]
        /\ created' \in [Tasks -> 0 .. MaxClock]
    BY <1>2 DEF TypeOK, Next, vars, Tick, Create, Commit, CreateFails, Answer, FirstPage,
       NextPage, Take
  <2>3. offset' \in Nat
    BY <1>2 DEF TypeOK, Next, vars, walk, Tick, Create, Commit, CreateFails, Answer,
       FirstPage, NextPage, Take
  <2>4. known' \subseteq Rows' /\ seen' \subseteq Rows' /\ twice' \subseteq seen'
    <3>1. \A from, limit : Page(from, limit) \subseteq Rows
      BY DEF Page
    <3>2. {t \in Tasks : post[t] = "answered"} \subseteq Rows
      BY DEF Rows
    <3>. QED
      BY <1>2, <3>1, <3>2, RowsStay DEF TypeOK, Next, vars, walk, Tick, Create, Commit,
         CreateFails, Answer, FirstPage, NextPage, Take
  <2>. QED
    BY <2>1, <2>2, <2>3, <2>4, Zenon DEF TypeOK
<1>. QED
  BY <1>1, <1>2, PTL DEF Spec

-----------------------------------------------------------------------------
(***************************************************************************)
(* The inductive invariant: the walk has shown whatever is known and       *)
(* listed before its offset, and exactly that while nothing is added.      *)
(***************************************************************************)
WalkInv ==
  /\ \A t \in known : ~walking \/ Rank(t) < offset => t \in seen
  /\ ~grown => /\ twice = {}
               /\ walking => seen = {t \in Rows : Rank(t) < offset}

LEMMA WalkInvStep ==
  ASSUME TypeOK, TypeOK', WalkInv, [Next]_vars
  PROVE  WalkInv'
<1>1. ASSUME UNCHANGED walk, ~(\E limit \in Limits : FirstPage(limit)) PROVE WalkInv'
  <2>1. \A t \in known : Rank(t) <= Rank(t)' /\ Rank(t) \in Nat /\ Rank(t)' \in Nat
    BY RankGrows, RankBounds, RowsStay DEF TypeOK
  <2>2. \A t \in known' : ~walking' \/ Rank(t)' < offset' => t \in seen'
    BY <1>1, <2>1 DEF WalkInv, TypeOK, walk
  <2>3. ~grown' => Rows' = Rows /\ ~grown
    BY <1>1, RowsStay
  <2>4. ASSUME ~grown', walking' PROVE seen' = {t \in Rows' : Rank(t)' < offset'}
    <3>1. \A t \in Rows : Rank(t)' = Rank(t)
      BY <2>3, <2>4, RankGrows
    <3>. QED
      BY <1>1, <2>3, <2>4, <3>1 DEF WalkInv, walk
  <2>. QED
    BY <1>1, <2>2, <2>3, <2>4 DEF WalkInv, walk
<1>2. ASSUME NEW limit \in Limits, FirstPage(limit) \/ NextPage(limit) PROVE WalkInv'
  <2>. DEFINE from == IF FirstPage(limit) THEN 0 ELSE offset
  <2>1. UNCHANGED <<post, created>> /\ Rows' = Rows /\ limit \in Nat /\ from \in Nat
    BY <1>2 DEF FirstPage, NextPage, Take, Rows, TypeOK
  <2>2. \A t \in Rows : Rank(t)' = Rank(t) /\ Rank(t) \in Nat
    BY <2>1, RankBounds, RankGrows
  <2>3. CASE FirstPage(limit)
    <3>1. seen' = Page(0, limit) /\ twice' = {} /\ offset' = limit
      BY <2>1, <2>3 DEF FirstPage, Take
    <3>2. seen' = {t \in Rows' : Rank(t)' < offset'}
      BY <2>1, <2>2, <3>1 DEF Page
    <3>3. ~walking' => \A t \in Rows : Rank(t) < limit
      <4>1. ~walking' => ~(0 + limit <= Cardinality(Rows))
        BY <2>3, Zenon DEF FirstPage, Take
      <4>. QED
        BY <2>1, <4>1, RankBounds
    <3>4. known' \subseteq Rows
      BY <2>1 DEF TypeOK
    <3>. QED
      BY <2>1, <2>2, <3>1, <3>2, <3>3, <3>4 DEF WalkInv
  <2>4. CASE NextPage(limit)
    <3>1. /\ walking /\ known' = known /\ grown' = grown /\ offset' = offset + limit
          /\ twice' = IF offset = 0 THEN {} ELSE twice \cup (seen \cap Page(offset, limit))
          /\ seen' = (IF offset = 0 THEN {} ELSE seen) \cup Page(offset, limit)
      BY <2>4 DEF NextPage, Take
    <3>2. \A t \in known' : Rank(t)' < offset' => t \in seen'
      BY <2>1, <2>2, <3>1 DEF WalkInv, TypeOK, Page
    <3>3. ~walking' => \A t \in Rows : Rank(t) < offset + limit
      <4>1. ~walking' => ~(offset + limit <= Cardinality(Rows))
        BY <2>4, Zenon DEF NextPage, Take
      <4>. QED
        BY <2>1, <4>1, RankBounds DEF TypeOK
    <3>4. \A t \in known' : ~walking' => t \in seen'
      BY <2>1, <2>2, <3>1, <3>2, <3>3 DEF TypeOK
    <3>5. ~grown' => twice' = {} /\ seen' = {t \in Rows' : Rank(t)' < offset'}
      BY <2>1, <2>2, <3>1 DEF WalkInv, TypeOK, Page
    <3>. QED
      BY <3>2, <3>4, <3>5 DEF WalkInv
  <2>. QED
    BY <1>2, <2>3, <2>4
<1>3. \/ UNCHANGED walk /\ ~(\E limit \in Limits : FirstPage(limit))
      \/ \E limit \in Limits : FirstPage(limit) \/ NextPage(limit)
  BY DEF Next, vars, walk, Tick, Create, Commit, CreateFails, Answer
<1>. QED
  BY <1>1, <1>2, <1>3

THEOREM WalkInvariant == Spec => []WalkInv
<1>1. Init => WalkInv
  BY DEF Init, WalkInv
<1>. QED
  BY <1>1, WalkInvStep, TypeCorrect, PTL DEF Spec

\* However many tasks are submitted during a walk, and in whatever order they
\* become visible, the walk misses none that was there before it.
THEOREM NothingSkipped == Spec => []NoTaskSkipped
<1>1. WalkInv => NoTaskSkipped
  BY DEF WalkInv, NoTaskSkipped
<1>. QED
  BY <1>1, WalkInvariant, PTL

\* The pages of a table that does not change do not overlap.
THEOREM PagesDisjoint == Spec => []RepeatsMeanGrowth
<1>1. WalkInv => RepeatsMeanGrowth
  BY DEF WalkInv, RepeatsMeanGrowth
<1>. QED
  BY <1>1, WalkInvariant, PTL
=============================================================================
