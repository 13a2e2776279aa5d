------------------------ MODULE DeveloperLoop_proofs ------------------------
(***************************************************************************)
(* Proofs about DeveloperLoop, for any limits, any tool calls and any      *)
(* costs.                                                                  *)
(***************************************************************************)
EXTENDS DeveloperLoop, SequenceTheorems, TLAPS

USE LimitsAssumption, NoneAssumption

-----------------------------------------------------------------------------
\* What a response brings is a bounded sequence of calls.
LEMMA ResponseIsCalls ==
  ASSUME NEW uses \in Responses
  PROVE  uses \in Seq(Calls) /\ Len(uses) \in 0 .. MaxCalls
<1>1. PICK n \in 0 .. MaxCalls : uses \in [1 .. n -> Calls]
  BY DEF Responses
<1>2. uses = [i \in 1 .. n |-> uses[i]] /\ \A i \in 1 .. n : uses[i] \in Calls
  BY <1>1
<1>. QED
  BY <1>1, <1>2

\* The calls that `recent' forgets are the oldest ones.
LEMMA LastAppend ==
  ASSUME NEW s \in Seq(Calls), Len(s) <= StuckRepeats, NEW call \in Calls
  PROVE  LET t == Last(Append(s, call), StuckRepeats)
         IN  /\ t \in Seq(Calls)
             /\ Len(t) = IF Len(s) < StuckRepeats THEN Len(s) + 1 ELSE StuckRepeats
             /\ t[Len(t)] = call
             /\ \A i \in 1 .. Len(t) - 1 : t[i] = s[i + Len(s) + 1 - Len(t)]
<1>. DEFINE t == Last(Append(s, call), StuckRepeats)
            a == Append(s, call)
<1>1. a \in Seq(Calls) /\ Len(a) = Len(s) + 1 /\ a[Len(s) + 1] = call
      /\ \A i \in 1 .. Len(s) : a[i] = s[i]
  OBVIOUS
<1>2. t = Last(a, StuckRepeats)
  OBVIOUS
<1>. SUFFICES /\ t \in Seq(Calls)
              /\ Len(t) = IF Len(s) < StuckRepeats THEN Len(s) + 1 ELSE StuckRepeats
              /\ t[Len(t)] = call
              /\ \A i \in 1 .. Len(t) - 1 : t[i] = s[i + Len(s) + 1 - Len(t)]
  OBVIOUS
<1>. HIDE DEF t, a
<1>3. CASE Len(s) < StuckRepeats
  <2>1. t = a
    BY <1>1, <1>2, <1>3 DEF Last
  <2>2. Len(s) \in Nat /\ Len(t) = Len(s) + 1
    BY <1>1, <2>1
  <2>3. ASSUME NEW i \in 1 .. Len(t) - 1 PROVE t[i] = s[i + Len(s) + 1 - Len(t)]
    <3>1. i + Len(s) + 1 - Len(t) = i /\ i \in 1 .. Len(s)
      BY <2>2
    <3>2. t[i] = s[i]
      BY <1>1, <2>1, <3>1
    <3>. QED
      BY <3>1, <3>2
  <2>4. t \in Seq(Calls) /\ t[Len(t)] = call
    BY <1>1, <2>1, <2>2
  <2>5. Len(t) = IF Len(s) < StuckRepeats THEN Len(s) + 1 ELSE StuckRepeats
    BY <1>3, <2>2
  <2>. QED
    BY <2>3, <2>4, <2>5, Zenon
<1>4. CASE Len(s) = StuckRepeats
  <2>1. t = SubSeq(a, 2, StuckRepeats + 1)
    <3>1. Len(a) = StuckRepeats + 1 /\ ~(Len(a) <= StuckRepeats)
      BY <1>1, <1>4
    <3>2. Len(a) - StuckRepeats + 1 = 2
      BY <3>1
    <3>. QED
      BY <1>2, <3>1, <3>2 DEF Last
  <2>2. \A i \in 2 .. StuckRepeats + 1 : a[i] \in Calls
    <3>1. \A i \in 1 .. Len(a) : a[i] \in Calls
      BY <1>1, LenProperties
    <3>. QED
      BY <1>1, <1>4, <3>1
  <2>3. /\ t \in Seq(Calls) /\ Len(t) = StuckRepeats
        /\ \A i \in 1 .. StuckRepeats : t[i] = a[i + 1]
    <3>1. /\ SubSeq(a, 2, StuckRepeats + 1) \in Seq(Calls)
          /\ Len(SubSeq(a, 2, StuckRepeats + 1)) =
               IF 2 <= StuckRepeats + 1 THEN StuckRepeats + 1 - 2 + 1 ELSE 0
          /\ \A i \in 1 .. StuckRepeats + 1 - 2 + 1 :
               SubSeq(a, 2, StuckRepeats + 1)[i] = a[2 + i - 1]
      BY <2>2, SubSeqProperties
    <3>. QED
      BY <2>1, <3>1
  <2>. QED
    BY <1>1, <1>4, <2>3
<1>. QED
  BY <1>3, <1>4

-----------------------------------------------------------------------------
(***************************************************************************)
(* The loop's counters: where in a turn the build is says how the results  *)
(* answer the calls, and how many model calls there have been.             *)
(***************************************************************************)
Dispatched == {"dispatch", "verify", "crg", "graphify"}

LoopInv ==
  /\ pc \in Dispatched \cup {"create"} =>
       status = None /\ tokensSpent <= TokenBudget /\ repeatCount < StuckRepeats
  /\ pc = "create" => pending = <<>> /\ answered = asked /\ requests = iteration
  /\ pc \in Dispatched =>
       /\ pending # <<>> /\ answered + Len(pending) = asked
       /\ requests = iteration + 1 /\ iteration < MaxIterations
  /\ BudgetHolds
  /\ AuditComplete

\* The conjuncts of TypeOK, but for `edited'.
Fits ==
  /\ pc \in Locations
  /\ iteration \in 0 .. MaxIterations
  /\ pending \in Seq(Calls) /\ Len(pending) <= MaxCalls
  /\ tokensSpent \in Nat
  /\ lastFacts \in VerifierResults \cup {None}
  /\ lastSignature \in Calls \cup {None}
  /\ repeatCount \in 0 .. StuckRepeats
  /\ status \in Statuses \cup {None}
  /\ asked \in 0 .. MaxCalls
  /\ answered \in 0 .. MaxCalls
  /\ audit \in [turns : Nat, tokens : Nat]
  /\ requests \in Nat
  /\ gap \in Gaps
  /\ recent \in Seq(Calls) /\ Len(recent) <= StuckRepeats
  /\ hits \in [Indexes -> Findings]
  /\ told \in Indexes \cup {None}

LEMMA TypeIsFits == TypeOK <=> Fits /\ edited \in BOOLEAN
  BY Zenon DEF TypeOK, Fits

\* One result more, one call less; the turn ends with its last call.
LEMMA AnswerStep ==
  ASSUME Fits, LoopInv, pc \in Dispatched, Answer
  PROVE  /\ pc' \in {"create", "dispatch"} /\ iteration' \in 0 .. MaxIterations
         /\ pending' \in Seq(Calls) /\ Len(pending') <= MaxCalls
         /\ asked' \in 0 .. MaxCalls /\ answered' \in 0 .. MaxCalls /\ status' = None
         /\ pc' = "create" => /\ pending' = <<>> /\ answered' = asked'
                              /\ iteration' = iteration + 1
         /\ pc' = "dispatch" => /\ pending' # <<>> /\ answered' + Len(pending') = asked'
                                /\ iteration' = iteration
<1>1. /\ pending' \in Seq(Calls) /\ Len(pending') = Len(pending) - 1
      /\ Len(pending) \in Nat /\ Len(pending) > 0 /\ Len(pending) <= MaxCalls
  BY HeadTailProperties, EmptySeq, LenProperties DEF Fits, LoopInv, Answer
<1>2. /\ asked' = asked /\ answered' = answered + 1 /\ status' = None
      /\ answered + Len(pending) = asked /\ iteration < MaxIterations
      /\ asked \in 0 .. MaxCalls /\ answered \in 0 .. MaxCalls
      /\ iteration \in 0 .. MaxIterations
  BY DEF Fits, LoopInv, Answer
<1>3. CASE Len(pending) = 1
  <2>1. pc' = "create" /\ iteration' = iteration + 1 /\ pending' = <<>>
    BY <1>1, <1>3, EmptySeq DEF Answer
  <2>. QED
    BY <1>1, <1>2, <1>3, <2>1
<1>4. CASE Len(pending) # 1
  <2>1. pc' = "dispatch" /\ iteration' = iteration /\ pending' # <<>>
    <3>1. Len(pending') # 0
      BY <1>1, <1>4
    <3>2. pending' # <<>>
      BY <3>1
    <3>. QED
      BY <1>4, <3>2 DEF Answer
  <2>2. answered' + Len(pending') = asked' /\ Len(pending') <= MaxCalls
        /\ asked' \in 0 .. MaxCalls /\ answered' \in 0 .. MaxCalls
    BY <1>1, <1>2, <1>4
  <2>. QED
    BY <1>1, <1>2, <2>1, <2>2
<1>. QED
  BY <1>3, <1>4

\* The head of `pending' is a call, and dispatching it keeps the bookkeeping.
LEMMA DispatchingStep ==
  ASSUME Fits, LoopInv, NEW call \in Calls, Dispatching(call)
  PROVE  /\ pc = "dispatch" /\ repeatCount' \in 0 .. StuckRepeats /\ repeatCount' < StuckRepeats
         /\ lastSignature' = call
         /\ recent' \in Seq(Calls) /\ Len(recent') <= StuckRepeats
         /\ hits' \in [Indexes -> Findings] /\ told' = None
<1>1. recent' \in Seq(Calls) /\ Len(recent') <= StuckRepeats
  BY LastAppend, LenProperties DEF Fits, Dispatching
<1>. QED
  BY <1>1 DEF Fits, Dispatching, Repeats, Findings

LEMMA LoopInvStep ==
  ASSUME Fits, LoopInv, [Next]_vars
  PROVE  Fits' /\ LoopInv'
<1>. USE DEF loopState, conversation, worktree, retrieval, Dispatched, BudgetHolds,
         AuditComplete
<1>1. ASSUME NEW uses \in Responses, NEW cost \in Costs, Respond(uses, cost)
      PROVE  Fits' /\ LoopInv'
  <2>1. /\ uses \in Seq(Calls) /\ Len(uses) \in 0 .. MaxCalls /\ cost \in Nat
        /\ uses # <<>> => Len(uses) > 0
    BY ResponseIsCalls, EmptySeq, CostsAssumption
  <2>2. /\ pc = "create" /\ iteration < MaxIterations /\ requests' = requests + 1
        /\ tokensSpent' = tokensSpent + cost
        /\ audit' = [turns |-> audit.turns + 1, tokens |-> audit.tokens + cost]
        /\ UNCHANGED <<lastFacts, lastSignature, repeatCount, gap, recent, hits, told>>
    BY <1>1 DEF Respond, Recorded
  <2>3. CASE tokensSpent' > TokenBudget
    <3>1. /\ pc' = "diff" /\ status' = "budget_exceeded"
          /\ UNCHANGED <<iteration, pending, asked, answered>>
      BY <1>1, <2>3 DEF Respond, Abort, Finish
    <3>. QED
      BY <2>1, <2>2, <2>3, <3>1 DEF Fits, LoopInv, Locations, Statuses
  <2>4. CASE ~(tokensSpent' > TokenBudget)
    <3>1. /\ pending' = uses /\ asked' = Len(uses) /\ answered' = 0 /\ status' = status
          /\ uses = <<>> => pc' = "create" /\ iteration' = iteration + 1
          /\ uses # <<>> => pc' = "dispatch" /\ iteration' = iteration
      BY <1>1, <2>4 DEF Respond, Proceed
    <3>2. uses = <<>> => Len(uses) = 0
      OBVIOUS
    <3>. QED
      BY <2>1, <2>2, <2>4, <3>1, <3>2 DEF Fits, LoopInv, Locations
  <2>. QED
    BY <2>3, <2>4
<1>2. CASE RespondFails
  BY <1>2, CostsAssumption DEF RespondFails, Raise, Fits, LoopInv, Locations
<1>3. CASE Exhausted
  BY <1>3 DEF Exhausted, Finish, Fits, LoopInv, Locations, Statuses
<1>4. CASE Stuck
  <2>1. Head(pending) \in Calls
    BY <1>4, HeadTailProperties DEF Stuck, Fits, LoopInv
  <2>2. repeatCount' \in 0 .. StuckRepeats
    BY <1>4 DEF Stuck, Repeats, Fits, LoopInv
  <2>. QED
    BY <1>4, <2>1, <2>2 DEF Stuck, Finish, Fits, LoopInv, Locations, Statuses
<1>5. ASSUME NEW call \in Calls, Observe(call) PROVE Fits' /\ LoopInv'
  <2>1. Dispatching(call) /\ Answer /\ pc \in Dispatched
        /\ UNCHANGED <<tokensSpent, lastFacts, requests, audit, gap>>
    BY <1>5 DEF Observe, Dispatching
  <2>. QED
    BY <2>1, DispatchingStep, AnswerStep DEF Fits, LoopInv, Locations
<1>6. ASSUME NEW call \in Calls, Retrieve(call) \/ RunVerifier(call) PROVE Fits' /\ LoopInv'
  <2>1. /\ Dispatching(call) /\ pc' \in {"verify", "crg", "graphify"}
        /\ UNCHANGED <<iteration, pending, tokensSpent, lastFacts, status, asked, answered,
                       requests, audit, gap>>
    BY <1>6 DEF Retrieve, RunVerifier
  <2>. QED
    BY <2>1, DispatchingStep DEF Fits, LoopInv, Locations
<1>7. ASSUME NEW call \in Calls, EditFile(call) PROVE Fits' /\ LoopInv'
  <2>1. /\ Dispatching(call) /\ gap' \in Gaps /\ pc \in Dispatched
        /\ UNCHANGED <<tokensSpent, lastFacts, requests, audit>>
    BY <1>7 DEF EditFile, Dispatching, Gaps, Fits
  <2>2. \/ pc' = "verify" /\ UNCHANGED <<iteration, pending, status, asked, answered>>
        \/ Answer
    BY <1>7 DEF EditFile
  <2>. QED
    BY <2>1, <2>2, DispatchingStep, AnswerStep DEF Fits, LoopInv, Locations
<1>8. CASE SearchNodes \/ QueryGraph
  <2>1. /\ pc \in Dispatched
        /\ UNCHANGED <<tokensSpent, lastFacts, lastSignature, repeatCount, requests, audit,
                       gap, recent>>
        /\ hits' \in [Indexes -> Findings] /\ told' \in Indexes \cup {None}
    BY <1>8 DEF SearchNodes, QueryGraph, Tell, Fits, Findings, Indexes
  <2>2. \/ pc' = "graphify" /\ UNCHANGED <<iteration, pending, status, asked, answered>>
        \/ Answer
    BY <1>8 DEF SearchNodes, QueryGraph, Tell
  <2>. QED
    BY <2>1, <2>2, AnswerStep DEF Fits, LoopInv, Locations
<1>9. ASSUME NEW report \in VerifierResults, Verified(report) PROVE Fits' /\ LoopInv'
  <2>1. /\ pc \in Dispatched /\ lastFacts' = report /\ gap' = "none"
        /\ UNCHANGED <<tokensSpent, lastSignature, repeatCount, requests, audit, recent, hits,
                       told>>
    BY <1>9 DEF Verified
  <2>2. CASE IsGreen(report)
    <3>1. /\ status' = "passed" /\ pc' = "diff" /\ answered' = answered + 1
          /\ UNCHANGED <<iteration, pending, asked>>
      BY <1>9, <2>2 DEF Verified, Finish
    <3>2. Len(pending) \in Nat /\ Len(pending) > 0
      BY <2>1, EmptySeq, LenProperties DEF Fits, LoopInv
    <3>. QED
      BY <2>1, <3>1, <3>2 DEF Fits, LoopInv, Locations, Statuses, Gaps
  <2>3. CASE Answer
    BY <2>1, <2>3, AnswerStep DEF Fits, LoopInv, Locations, Gaps
  <2>. QED
    BY <1>9, <2>2, <2>3 DEF Verified
<1>10. CASE ServiceFails
  BY <1>10 DEF ServiceFails, Raise, Fits, LoopInv, Locations
<1>11. CASE GetDiff
  BY <1>11 DEF GetDiff, Fits, LoopInv, Locations
<1>12. CASE FinalTurn
  BY <1>12 DEF FinalTurn, Fits, LoopInv, Locations
<1>13. CASE FinishFails
  BY <1>13 DEF FinishFails, Raise, Fits, LoopInv, Locations
<1>14. CASE UNCHANGED vars
  BY <1>14 DEF vars, Fits, LoopInv
<1>. QED
  BY <1>1, <1>2, <1>3, <1>4, <1>5, <1>6, <1>7, <1>8, <1>9, <1>10, <1>11, <1>12,
     <1>13, <1>14 DEF Next

THEOREM LoopInvariant == Spec => [](Fits /\ LoopInv)
<1>1. ASSUME Init PROVE Fits /\ LoopInv
  <2>1. Fits
    <3>1. /\ pending \in Seq(Calls) /\ Len(pending) <= MaxCalls
          /\ recent \in Seq(Calls) /\ Len(recent) <= StuckRepeats
      BY <1>1 DEF Init
    <3>2. audit \in [turns : Nat, tokens : Nat] /\ hits \in [Indexes -> Findings]
      BY <1>1 DEF Init, Findings
    <3>3. /\ pc = "create" /\ iteration = 0 /\ tokensSpent = 0 /\ lastFacts = None
          /\ lastSignature = None /\ repeatCount = 0 /\ status = None /\ asked = 0
          /\ answered = 0 /\ requests = 0 /\ gap = "none" /\ told = None
      BY <1>1, Zenon DEF Init
    <3>. QED
      BY <3>1, <3>2, <3>3 DEF Fits, Locations, Gaps
  <2>2. LoopInv
    BY <1>1 DEF Init, LoopInv, Dispatched, BudgetHolds, AuditComplete, Statuses
  <2>. QED
    BY <2>1, <2>2
<1>. QED
  BY <1>1, LoopInvStep, PTL DEF Spec

\* The build stays within its types, its sequences within their bounds.
THEOREM TypeCorrect == Spec => []TypeOK
<1>1. Init => edited \in BOOLEAN
  BY Zenon DEF Init
<1>2. ASSUME edited \in BOOLEAN, [Next]_vars PROVE (edited \in BOOLEAN)'
  <2>1. edited' \in {edited, TRUE}
    BY <1>2 DEF Next, vars, worktree, Respond, RespondFails, Exhausted, Stuck, Observe,
       Retrieve, EditFile, RunVerifier, Verified, ServiceFails, GetDiff, FinalTurn,
       FinishFails, SearchNodes, QueryGraph, Raise
  <2>. QED
    BY <1>2, <2>1
<1>. QED
  BY <1>1, <1>2, LoopInvariant, TypeIsFits, PTL DEF Spec

\* The token budget is exceeded by one response at most, and never unnoticed;
\* the iteration limit bounds the model calls.
THEOREM BudgetIsKept == Spec => []BudgetHolds
<1>1. LoopInv => BudgetHolds
  BY DEF LoopInv
<1>. QED
  BY <1>1, LoopInvariant, PTL

\* No response and no build is missing from the audit trail.
THEOREM AuditIsComplete == Spec => []AuditComplete
<1>1. LoopInv => AuditComplete
  BY DEF LoopInv
<1>. QED
  BY <1>1, LoopInvariant, PTL

\* Each model call sees a result for every tool call before it.
THEOREM CallsAreAnswered == Spec => []ToolCallsAnswered
<1>1. LoopInv => ToolCallsAnswered
  BY DEF LoopInv, ToolCallsAnswered
<1>. QED
  BY <1>1, LoopInvariant, PTL

-----------------------------------------------------------------------------
\* `passed' speaks of the worktree that is returned.
THEOREM EditsAreVerified == Spec => []EditsVerified
<1>1. Init => EditsVerified
  BY NoneAssumption DEF Init, EditsVerified, Statuses
<1>2. ASSUME Fits, LoopInv, EditsVerified, [Next]_vars PROVE EditsVerified'
  <2>. USE DEF loopState, worktree
  <2>1. ASSUME pc \in Dispatched, Answer PROVE pc' \in {"create", "dispatch"} /\ status' = None
    BY <1>2, <2>1, AnswerStep
  <2>2. ASSUME NEW uses \in Responses, NEW cost \in Costs, Respond(uses, cost)
        PROVE  EditsVerified'
    BY <1>2, <2>2 DEF Respond, Abort, Finish, Proceed, EditsVerified, LoopInv
  <2>3. CASE RespondFails \/ ServiceFails \/ FinishFails
    BY <1>2, <2>3 DEF RespondFails, ServiceFails, FinishFails, Raise, EditsVerified
  <2>4. CASE Exhausted \/ Stuck
    BY <1>2, <2>4 DEF Exhausted, Stuck, Finish, EditsVerified
  <2>5. ASSUME NEW call \in Calls, Observe(call) \/ Retrieve(call) \/ RunVerifier(call)
        PROVE  EditsVerified'
    BY <1>2, <2>5, <2>1 DEF Observe, Retrieve, RunVerifier, Dispatching, Dispatched,
       EditsVerified, LoopInv, Statuses
  <2>6. ASSUME NEW call \in Calls, EditFile(call) PROVE EditsVerified'
    BY <1>2, <2>6, <2>1 DEF EditFile, Dispatching, Dispatched, EditsVerified, LoopInv, Statuses
  <2>7. CASE SearchNodes \/ QueryGraph
    BY <1>2, <2>7, <2>1 DEF SearchNodes, QueryGraph, Tell, Dispatched, EditsVerified, LoopInv,
       Statuses
  <2>8. ASSUME NEW report \in VerifierResults, Verified(report) PROVE EditsVerified'
    BY <1>2, <2>8, <2>1 DEF Verified, Finish, Dispatched, EditsVerified, Statuses
  <2>9. CASE GetDiff \/ FinalTurn
    BY <1>2, <2>9 DEF GetDiff, FinalTurn, EditsVerified
  <2>10. CASE UNCHANGED vars
    BY <1>2, <2>10 DEF vars, EditsVerified
  <2>. QED
    BY <1>2, <2>2, <2>3, <2>4, <2>5, <2>6, <2>7, <2>8, <2>9, <2>10 DEF Next
<1>. QED
  BY <1>1, <1>2, LoopInvariant, PTL DEF Spec

-----------------------------------------------------------------------------
(***************************************************************************)
(* Retrieving: where a query is on its route says what has been asked.     *)
(***************************************************************************)
RouteInv ==
  /\ RetrievalComplete
  /\ pc \in {"crg", "graphify"} => told = None /\ hits["graphify"] = "unasked"
  /\ pc = "crg" => hits["crg"] = "unasked" /\ lastSignature.mode = "symbol"
  /\ pc = "graphify" =>
       hits["crg"] = IF lastSignature.mode = "symbol" THEN "empty" ELSE "unasked"
  /\ told # None \/ pc \in {"crg", "graphify"} => StuckRepeats > 1

\* The model is told of no index that was not asked on the way.
THEOREM RetrievalIsComplete == Spec => []RetrievalComplete
<1>1. Init => RouteInv
  BY DEF Init, RouteInv, RetrievalComplete
<1>2. ASSUME Fits, LoopInv, RouteInv, [Next]_vars PROVE RouteInv'
  <2>. USE DEF loopState, retrieval, Dispatched
  <2>1. ASSUME pc \in Dispatched, Answer PROVE pc' \in {"create", "dispatch"}
    BY <1>2, <2>1, AnswerStep
  <2>2. ASSUME UNCHANGED <<lastSignature, hits, told>>, pc' \notin {"crg", "graphify"}
        PROVE  RouteInv'
    BY <1>2, <2>2 DEF RouteInv, RetrievalComplete
  <2>3. ASSUME NEW call \in Calls, Dispatching(call),
               pc' = "crg" => lastSignature'.mode = "symbol",
               pc' = "graphify" => lastSignature'.mode # "symbol"
        PROVE  RouteInv'
    <3>1. /\ told' = None /\ hits' = [i \in Indexes |-> "unasked"]
          /\ StuckRepeats > 1
      BY <1>2, <2>3 DEF Dispatching, Repeats, Fits
    <3>. QED
      BY <2>3, <3>1 DEF RouteInv, RetrievalComplete, Indexes
  <2>4. ASSUME NEW uses \in Responses, NEW cost \in Costs, Respond(uses, cost) PROVE RouteInv'
    BY <2>2, <2>4 DEF Respond, Abort, Finish, Proceed
  <2>5. CASE RespondFails \/ ServiceFails \/ FinishFails \/ Exhausted \/ GetDiff \/ FinalTurn
    BY <2>2, <2>5 DEF RespondFails, ServiceFails, FinishFails, Raise, Exhausted, Finish,
       GetDiff,
       FinalTurn
  <2>6. CASE Stuck
    <3>1. pc' = "diff" /\ UNCHANGED <<hits, told>>
      BY <2>6 DEF Stuck, Finish
    <3>2. told # None => lastSignature' = lastSignature
      BY <1>2, <2>6 DEF Stuck, Repeats, RouteInv
    <3>. QED
      BY <1>2, <3>1, <3>2 DEF RouteInv, RetrievalComplete
  <2>7. ASSUME NEW call \in Calls, Observe(call) \/ RunVerifier(call) \/ EditFile(call)
        PROVE  RouteInv'
    <3>1. Dispatching(call) /\ pc' \notin {"crg", "graphify"}
      BY <2>1, <2>7 DEF Observe, RunVerifier, EditFile, Dispatching
    <3>. QED
      BY <2>3, <3>1
  <2>8. ASSUME NEW call \in Calls, Retrieve(call) PROVE RouteInv'
    <3>1. /\ Dispatching(call) /\ lastSignature' = call
          /\ \/ pc' = "crg" /\ call.mode = "symbol"
             \/ pc' = "graphify" /\ call.mode = "explore"
      BY <2>8, Zenon DEF Retrieve, Dispatching
    <3>. QED
      BY <2>3, <3>1
  <2>9. CASE SearchNodes
    BY <1>2, <2>1, <2>9 DEF SearchNodes, Tell, RouteInv, RetrievalComplete, Fits, Indexes
  <2>10. CASE QueryGraph
    BY <1>2, <2>1, <2>10 DEF QueryGraph, Tell, RouteInv, RetrievalComplete, Fits, Indexes
  <2>11. ASSUME NEW report \in VerifierResults, Verified(report) PROVE RouteInv'
    BY <2>1, <2>2, <2>11 DEF Verified, Finish
  <2>12. CASE UNCHANGED vars
    BY <1>2, <2>12 DEF vars, RouteInv, RetrievalComplete
  <2>. QED
    BY <1>2, <2>4, <2>5, <2>6, <2>7, <2>8, <2>9, <2>10, <2>11, <2>12 DEF Next
<1>3. RouteInv => RetrievalComplete
  BY DEF RouteInv
<1>. QED
  BY <1>1, <1>2, <1>3, LoopInvariant, PTL DEF Spec

-----------------------------------------------------------------------------
(***************************************************************************)
(* Repetition: repeatCount is the length of the row of equal calls that    *)
(* `recent' ends in.                                                       *)
(***************************************************************************)
RunInv ==
  /\ Len(recent) >= repeatCount
  /\ Len(recent) > 0 => repeatCount > 0
  /\ \A i \in 1 .. Len(recent) : i > Len(recent) - repeatCount => recent[i] = lastSignature
  /\ Len(recent) > repeatCount => recent[Len(recent) - repeatCount] # lastSignature

StuckInv ==
  /\ StuckExact
  /\ pc \in Dispatched \cup {"create"} => RunInv

LEMMA RunStep ==
  ASSUME Fits, LoopInv, RunInv, NEW call \in Calls, Dispatching(call)
  PROVE  RunInv'
<1>. DEFINE n == Len(recent)
            m == Len(recent')
            d == n + 1 - m
<1>1. /\ n \in Nat /\ n <= StuckRepeats /\ repeatCount \in Nat
      /\ m = IF n < StuckRepeats THEN n + 1 ELSE StuckRepeats
      /\ recent'[m] = call /\ \A i \in 1 .. m - 1 : recent'[i] = recent[i + d]
  <2>. HIDE DEF n, m, d
  <2>1. recent \in Seq(Calls) /\ Len(recent) <= StuckRepeats /\ Len(recent) \in Nat
        /\ repeatCount \in Nat
    BY LenProperties DEF Fits
  <2>2. recent' = Last(Append(recent, call), StuckRepeats)
    BY DEF Dispatching
  <2>3. /\ Len(recent') = IF Len(recent) < StuckRepeats THEN Len(recent) + 1 ELSE StuckRepeats
        /\ recent'[Len(recent')] = call
        /\ \A i \in 1 .. Len(recent') - 1 :
             recent'[i] = recent[i + Len(recent) + 1 - Len(recent')]
    <3>. DEFINE t == Last(Append(recent, call), StuckRepeats)
    <3>1. /\ Len(t) = IF Len(recent) < StuckRepeats THEN Len(recent) + 1 ELSE StuckRepeats
          /\ t[Len(t)] = call
          /\ \A i \in 1 .. Len(t) - 1 : t[i] = recent[i + Len(recent) + 1 - Len(t)]
      BY <2>1, LastAppend
    <3>2. recent' = t
      BY <2>2
    <3>. HIDE DEF t
    <3>. QED
      BY <3>1, <3>2
  <2>4. /\ n \in Nat /\ n <= StuckRepeats
        /\ m = IF n < StuckRepeats THEN n + 1 ELSE StuckRepeats
        /\ recent'[m] = call
        /\ \A i \in 1 .. m - 1 : recent'[i] = recent[i + n + 1 - m]
    BY <2>1, <2>3 DEF n, m
  <2>5. ASSUME NEW i \in 1 .. m - 1 PROVE recent'[i] = recent[i + d]
    <3>1. i + n + 1 - m = i + d
      BY <2>4 DEF d
    <3>. QED
      BY <2>4, <3>1
  <2>. QED
    BY <2>1, <2>4, <2>5
<1>2. lastSignature' = call /\ repeatCount' = Repeats(call) /\ repeatCount' < StuckRepeats
  BY DEF Dispatching
<1>. HIDE DEF n, m, d
<1>3. /\ m \in Nat /\ m > 0 /\ d \in {0, 1} /\ m + d = n + 1
      /\ m = n + 1 \/ m = StuckRepeats
  BY <1>1 DEF d
<1>4. /\ n >= repeatCount
      /\ n > 0 => repeatCount > 0
      /\ \A i \in 1 .. n : i > n - repeatCount => recent[i] = lastSignature
      /\ n > repeatCount => recent[n - repeatCount] # lastSignature
  BY DEF RunInv, n
<1>5. /\ m >= repeatCount' /\ repeatCount' > 0
      /\ \A i \in 1 .. m : i > m - repeatCount' => recent'[i] = call
      /\ m > repeatCount' => recent'[m - repeatCount'] # call
  <2>1. CASE call = lastSignature
    <3>1. repeatCount' = repeatCount + 1
      BY <1>2, <2>1 DEF Repeats
    <3>2. m >= repeatCount' /\ repeatCount' > 0
      <4>1. n >= repeatCount /\ n \in Nat /\ repeatCount \in Nat
        BY <1>1, <1>4
      <4>. QED
        BY <1>2, <1>3, <3>1, <4>1
    <3>3. ASSUME NEW i \in 1 .. m, i > m - repeatCount' PROVE recent'[i] = call
      <4>1. CASE i = m
        BY <1>1, <4>1
      <4>2. CASE i # m
        <5>1. i \in 1 .. m - 1 /\ i + d \in 1 .. n /\ i + d > n - repeatCount
          BY <1>1, <1>3, <3>1, <3>3, <4>2
        <5>. QED
          BY <1>1, <1>4, <2>1, <5>1
      <4>. QED
        BY <4>1, <4>2
    <3>4. ASSUME m > repeatCount' PROVE recent'[m - repeatCount'] # call
      <4>1. /\ m - repeatCount' \in 1 .. m - 1 /\ (m - repeatCount') + d = n - repeatCount
            /\ n > repeatCount
        BY <1>1, <1>3, <3>1, <3>4
      <4>. QED
        BY <1>1, <1>4, <2>1, <4>1
    <3>. QED
      BY <3>2, <3>3, <3>4
  <2>2. CASE call # lastSignature
    <3>1. repeatCount' = 1
      BY <1>2, <2>2 DEF Repeats
    <3>2. \A i \in 1 .. m : i > m - 1 => i = m
      BY <1>3
    <3>3. ASSUME m > 1 PROVE recent'[m - 1] # call
      <4>1. m - 1 \in 1 .. m - 1 /\ (m - 1) + d = n /\ n > 0
        BY <1>1, <1>3, <3>3
      <4>2. recent[n] = lastSignature
        BY <1>1, <1>4, <4>1
      <4>. QED
        BY <1>1, <2>2, <4>1, <4>2
    <3>. QED
      BY <1>1, <1>3, <3>1, <3>2, <3>3
  <2>. QED
    BY <2>1, <2>2
<1>. QED
  BY <1>2, <1>5 DEF RunInv, m

\* A row that has not been cut short is shorter than StuckRepeats.
LEMMA RunIsExact ==
  Fits /\ RunInv /\ repeatCount < StuckRepeats /\ status = None => StuckExact
<1>. SUFFICES ASSUME Fits, RunInv, repeatCount < StuckRepeats, status = None,
                     Len(recent) = StuckRepeats
              PROVE  \E i \in 1 .. StuckRepeats : recent[i] # recent[StuckRepeats]
  BY DEF StuckExact, Statuses
<1>. DEFINE i == StuckRepeats - repeatCount
<1>1. /\ i \in 1 .. StuckRepeats /\ repeatCount > 0 /\ i = Len(recent) - repeatCount
      /\ Len(recent) > repeatCount
  BY DEF Fits, RunInv
<1>2. recent[StuckRepeats] = lastSignature
  BY <1>1 DEF Fits, RunInv
<1>3. recent[i] # lastSignature
  BY <1>1 DEF RunInv
<1>. QED
  BY <1>1, <1>2, <1>3

\* `stuck' is said of the StuckRepeats-th call in a row, and of no other.
THEOREM StuckIsExact == Spec => []StuckExact
<1>1. ASSUME Init PROVE StuckInv
  <2>1. recent = <<>> /\ repeatCount = 0 /\ status = None
    BY <1>1, Zenon DEF Init
  <2>. QED
    BY <2>1 DEF StuckInv, StuckExact, RunInv, Statuses
<1>2. ASSUME Fits, LoopInv, Fits', LoopInv', StuckInv, [Next]_vars PROVE StuckInv'
  <2>. USE DEF loopState, Dispatched
  <2>1. ASSUME UNCHANGED <<lastSignature, repeatCount, recent>>,
               status' = status \/ status' # "stuck",
               pc' \in Dispatched \cup {"create"} => pc \in Dispatched \cup {"create"}
        PROVE  StuckInv'
    BY <1>2, <2>1 DEF StuckInv, StuckExact, RunInv
  <2>2. ASSUME NEW call \in Calls, Dispatching(call), status' = status PROVE StuckInv'
    <3>1. RunInv /\ status = None
      BY <1>2, <2>2 DEF Dispatching, StuckInv, LoopInv
    <3>2. RunInv'
      BY <1>2, <2>2, <3>1, RunStep
    <3>3. repeatCount' < StuckRepeats
      BY <2>2 DEF Dispatching
    <3>4. (Fits /\ RunInv /\ repeatCount < StuckRepeats /\ status = None => StuckExact)'
      BY RunIsExact, PTL
    <3>. QED
      BY <1>2, <2>2, <3>1, <3>2, <3>3, <3>4 DEF StuckInv
  <2>3. ASSUME NEW uses \in Responses, NEW cost \in Costs, Respond(uses, cost) PROVE StuckInv'
    BY <2>1, <2>3 DEF Respond, Abort, Finish, Proceed
  <2>4. CASE RespondFails \/ ServiceFails \/ FinishFails \/ Exhausted \/ GetDiff \/ FinalTurn
    BY <2>1, <2>4 DEF RespondFails, ServiceFails, FinishFails, Raise, Exhausted, Finish,
       GetDiff,
       FinalTurn
  <2>5. CASE Stuck
    <3>1. /\ pc = "dispatch" /\ pc' = "diff" /\ recent' = recent /\ RunInv
          /\ Repeats(Head(pending)) >= StuckRepeats /\ lastSignature' = Head(pending)
          /\ repeatCount \in Nat /\ repeatCount < StuckRepeats /\ Len(recent) \in Nat
      BY <1>2, <2>5, LenProperties DEF Stuck, Finish, StuckInv, Fits, LoopInv
    <3>2. \/ StuckRepeats = 1
          \/ repeatCount = StuckRepeats - 1 /\ lastSignature' = lastSignature
      BY <3>1 DEF Repeats
    <3>3. /\ Len(recent) >= StuckRepeats - 1
          /\ \A i \in 1 .. Len(recent) :
               i > Len(recent) - (StuckRepeats - 1) => recent[i] = lastSignature'
      BY <3>1, <3>2 DEF RunInv
    <3>. QED
      BY <1>2, <3>1, <3>3 DEF StuckInv, StuckExact
  <2>6. ASSUME NEW call \in Calls,
               Observe(call) \/ Retrieve(call) \/ RunVerifier(call) \/ EditFile(call)
        PROVE  StuckInv'
    <3>1. Dispatching(call) /\ status' = status
      BY <2>6, Zenon DEF Observe, Retrieve, RunVerifier, EditFile, Answer
    <3>. QED
      BY <2>2, <3>1
  <2>7. CASE SearchNodes \/ QueryGraph
    BY <2>1, <2>7 DEF SearchNodes, QueryGraph, Tell, Answer
  <2>8. ASSUME NEW report \in VerifierResults, Verified(report) PROVE StuckInv'
    BY <2>1, <2>8 DEF Verified, Finish, Answer
  <2>9. CASE UNCHANGED vars
    BY <2>1, <2>9 DEF vars
  <2>. QED
    BY <1>2, <2>3, <2>4, <2>5, <2>6, <2>7, <2>8, <2>9 DEF Next
<1>3. StuckInv => StuckExact
  BY DEF StuckInv
<1>. QED
  BY <1>1, <1>2, <1>3, LoopInvariant, PTL DEF Spec

-----------------------------------------------------------------------------
(***************************************************************************)
(* How long a build can take: Remaining is a natural number that every     *)
(* step decreases.                                                         *)
(***************************************************************************)

\* An iteration is worth the calls of its response, and one step more.
LEMMA AfterwardsSteps ==
  ASSUME NEW i \in 0 .. MaxIterations
  PROVE  /\ Afterwards(i) \in Nat /\ Afterwards(i) >= 3
         /\ i < MaxIterations => Afterwards(i) = Afterwards(i + 1) + CallSteps + 1
<1>. DEFINE k == MaxIterations - i
            w == CallSteps + 1
<1>1. k \in Nat /\ CallSteps \in Nat /\ w \in Nat
  BY DEF CallSteps
<1>2. Afterwards(i) = 3 + k * w /\ Afterwards(i + 1) = 3 + (MaxIterations - (i + 1)) * w
  BY DEF Afterwards
<1>3. MaxIterations - (i + 1) = k - 1 /\ (i < MaxIterations <=> k > 0)
  OBVIOUS
<1>. HIDE DEF k
<1>4. w = CallSteps + 1
  OBVIOUS
<1>. HIDE DEF w
<1>5. k * w \in Nat /\ k * w = (k - 1) * w + w
  BY <1>1
<1>. QED
  BY <1>1, <1>2, <1>3, <1>4, <1>5

\* The measure at each place of the loop.
LEMMA RemainingIs ==
  ASSUME Fits, LoopInv
  PROVE  /\ Remaining \in Nat
         /\ pc = "create" => Remaining = Afterwards(iteration)
         /\ pc \in Dispatched =>
              /\ Afterwards(iteration + 1) \in Nat /\ Afterwards(iteration + 1) >= 3
              /\ Len(pending) \in Nat /\ Len(pending) > 0
              /\ Remaining = Afterwards(iteration + 1) + 3 * Len(pending)
                              - (IF pc = "dispatch" THEN 0 ELSE IF pc = "crg" THEN 1 ELSE 2)
         /\ pc = "diff" => Remaining = 2
         /\ pc = "final" => Remaining = 1
         /\ pc \in {"returned", "raised"} => Remaining = 0
<1>1. pc \in Locations /\ iteration \in 0 .. MaxIterations
  BY DEF Fits
<1>2. CASE pc = "create"
  BY <1>1, <1>2, AfterwardsSteps DEF Remaining, Dispatched
<1>3. CASE pc \in Dispatched
  <2>1. /\ iteration + 1 \in 0 .. MaxIterations
        /\ Len(pending) \in Nat /\ Len(pending) > 0
    BY <1>3, EmptySeq, LenProperties DEF Fits, LoopInv
  <2>2. Afterwards(iteration + 1) \in Nat /\ Afterwards(iteration + 1) >= 3
    BY <2>1, AfterwardsSteps
  <2>3. Remaining = Afterwards(iteration + 1) + 3 * Len(pending)
                    - (IF pc = "dispatch" THEN 0 ELSE IF pc = "crg" THEN 1 ELSE 2)
    BY <1>3, <2>1, <2>2 DEF Remaining, Dispatched
  <2>. QED
    BY <1>3, <2>1, <2>2, <2>3 DEF Dispatched
<1>4. CASE pc \in {"diff", "final", "returned", "raised"}
  BY <1>4 DEF Remaining, Dispatched
<1>. QED
  BY <1>1, <1>2, <1>3, <1>4 DEF Locations, Dispatched

\* Every step of a build is counted.
LEMMA RemainingStep ==
  ASSUME Fits, LoopInv, Next
  PROVE  Remaining' \in 0 .. Remaining - 1
<1>. USE DEF loopState, Dispatched
<1>1. Fits' /\ LoopInv'
  BY LoopInvStep
<1>2. /\ Remaining' \in Nat
      /\ pc' = "create" => Remaining' = Afterwards(iteration')
      /\ pc' \in Dispatched =>
           Remaining' = Afterwards(iteration' + 1) + 3 * Len(pending')
                        - (IF pc' = "dispatch" THEN 0 ELSE IF pc' = "crg" THEN 1 ELSE 2)
      /\ pc' = "diff" => Remaining' = 2
      /\ pc' = "final" => Remaining' = 1
      /\ pc' \in {"returned", "raised"} => Remaining' = 0
  <2>1. (Fits /\ LoopInv =>
           /\ Remaining \in Nat
           /\ pc = "create" => Remaining = Afterwards(iteration)
           /\ pc \in Dispatched =>
                Remaining = Afterwards(iteration + 1) + 3 * Len(pending)
                            - (IF pc = "dispatch" THEN 0 ELSE IF pc = "crg" THEN 1 ELSE 2)
           /\ pc = "diff" => Remaining = 2
           /\ pc = "final" => Remaining = 1
           /\ pc \in {"returned", "raised"} => Remaining = 0)'
    BY RemainingIs, PTL
  <2>. QED
    BY <1>1, <2>1
<1>3. /\ Remaining \in Nat
      /\ pc = "create" => Remaining = Afterwards(iteration)
      /\ pc \in Dispatched =>
           /\ Afterwards(iteration + 1) \in Nat /\ Afterwards(iteration + 1) >= 3
           /\ Len(pending) \in Nat /\ Len(pending) > 0
           /\ Remaining = Afterwards(iteration + 1) + 3 * Len(pending)
                          - (IF pc = "dispatch" THEN 0 ELSE IF pc = "crg" THEN 1 ELSE 2)
      /\ pc = "diff" => Remaining = 2
      /\ pc = "final" => Remaining = 1
  BY RemainingIs
<1>4. ASSUME pc \in Dispatched, Answer PROVE Remaining' \in 0 .. Remaining - 1
  <2>1. /\ pending' = Tail(pending) /\ Len(pending') = Len(pending) - 1
        /\ IF Len(pending) = 1 THEN iteration' = iteration + 1 /\ pc' = "create"
                               ELSE iteration' = iteration /\ pc' = "dispatch"
    BY <1>3, <1>4, HeadTailProperties DEF Answer, Fits, LoopInv
  <2>2. CASE Len(pending) = 1
    <3>1. Remaining' = Afterwards(iteration + 1)
      BY <1>2, <2>1, <2>2
    <3>. QED
      BY <1>3, <1>4, <2>2, <3>1
  <2>3. CASE Len(pending) # 1
    <3>1. Remaining' = Afterwards(iteration + 1) + 3 * (Len(pending) - 1)
      BY <1>2, <1>3, <1>4, <2>1, <2>3
    <3>. QED
      BY <1>3, <1>4, <3>1
  <2>. QED
    BY <2>2, <2>3
<1>5. ASSUME pc \in {"create"} \cup Dispatched, pc' \in {"diff", "raised"}
      PROVE  Remaining' \in 0 .. Remaining - 1
  <2>1. Remaining >= 3 \/ pc # "create"
    BY <1>3, AfterwardsSteps DEF Fits
  <2>. QED
    BY <1>2, <1>3, <1>5, <2>1
<1>6. ASSUME pc \in Dispatched, UNCHANGED <<iteration, pending>>,
             \/ pc = "dispatch" /\ pc' \in {"verify", "crg", "graphify"}
             \/ pc = "crg" /\ pc' = "graphify"
      PROVE  Remaining' \in 0 .. Remaining - 1
  BY <1>2, <1>3, <1>6
<1>7. ASSUME NEW uses \in Responses, NEW cost \in Costs, Respond(uses, cost)
      PROVE  Remaining' \in 0 .. Remaining - 1
  <2>1. /\ pc = "create" /\ iteration \in 0 .. MaxIterations /\ iteration < MaxIterations
        /\ Remaining = Afterwards(iteration)
    BY <1>3, <1>7 DEF Respond, Fits
  <2>2. /\ Afterwards(iteration) = Afterwards(iteration + 1) + CallSteps + 1
        /\ Afterwards(iteration + 1) \in Nat /\ CallSteps = 3 * MaxCalls
    BY <2>1, AfterwardsSteps DEF CallSteps
  <2>3. CASE pc' = "diff"
    BY <1>5, <2>1, <2>3
  <2>4. CASE Proceed(uses) /\ uses = <<>>
    <3>1. Remaining' = Afterwards(iteration + 1)
      BY <1>2, <2>4 DEF Proceed
    <3>. QED
      BY <2>1, <2>2, <3>1
  <2>5. CASE Proceed(uses) /\ uses # <<>>
    <3>1. Len(uses) \in 0 .. MaxCalls
      BY ResponseIsCalls
    <3>2. Remaining' = Afterwards(iteration + 1) + 3 * Len(uses)
      BY <1>2, <2>2, <2>5, <3>1 DEF Proceed
    <3>. QED
      BY <2>1, <2>2, <3>1, <3>2
  <2>. QED
    BY <1>7, <2>3, <2>4, <2>5 DEF Respond, Abort, Finish
<1>8. CASE RespondFails \/ Exhausted \/ Stuck \/ ServiceFails
  BY <1>5, <1>8 DEF RespondFails, Exhausted, Stuck, ServiceFails, Raise, Finish
<1>9. ASSUME NEW call \in Calls,
             Observe(call) \/ Retrieve(call) \/ EditFile(call) \/ RunVerifier(call)
      PROVE  Remaining' \in 0 .. Remaining - 1
  BY <1>4, <1>6, <1>9 DEF Observe, Retrieve, EditFile, RunVerifier, Dispatching
<1>10. CASE SearchNodes \/ QueryGraph
  BY <1>4, <1>6, <1>10 DEF SearchNodes, QueryGraph, Tell
<1>11. ASSUME NEW report \in VerifierResults, Verified(report)
       PROVE  Remaining' \in 0 .. Remaining - 1
  BY <1>4, <1>5, <1>11 DEF Verified, Finish
<1>12. CASE GetDiff \/ FinalTurn \/ FinishFails
  BY <1>2, <1>3, <1>12 DEF GetDiff, FinalTurn, FinishFails, Raise
<1>. QED
  BY <1>7, <1>8, <1>9, <1>10, <1>11, <1>12 DEF Next

\* A build makes progress with every step, whatever the model, the sandbox, the
\* verifier and the indexes do: all that is left to fairness is that it steps.
THEOREM BuildsAreBounded == Spec => EveryStepCounts
<1>1. Fits /\ LoopInv /\ [Next]_vars => [Remaining' \in 0 .. Remaining - 1]_vars
  BY RemainingStep, Zenon
<1>. QED
  BY <1>1, LoopInvariant, PTL DEF Spec, EveryStepCounts

\* The bound in figures: at no time does a build have more steps before it.
THEOREM StepsAreBounded ==
  Spec => [](Remaining \in 0 .. MaxIterations * (3 * MaxCalls + 1) + 3)
<1>. DEFINE B == MaxIterations * (3 * MaxCalls + 1) + 3
            Within == Remaining \in 0 .. B
<1>1. B \in Nat /\ B = Afterwards(0)
  BY DEF Afterwards, CallSteps
<1>. HIDE DEF B
<1>2. Init /\ Fits /\ LoopInv => Within
  BY <1>1, RemainingIs DEF Init
<1>3. ASSUME Fits, LoopInv, Within, [Next]_vars PROVE Within'
  <2>1. CASE Next
    <3>1. Remaining' \in 0 .. Remaining - 1 /\ Remaining \in 0 .. B
      BY <1>3, <2>1, RemainingStep
    <3>. QED
      BY <1>1, <3>1
  <2>2. CASE UNCHANGED vars
    <3>1. Remaining' = Remaining
      BY <2>2 DEF vars, loopState, Remaining, Afterwards, CallSteps
    <3>. QED
      BY <1>3, <3>1
  <2>. QED
    BY <1>3, <2>1, <2>2
<1>. QED
  BY <1>2, <1>3, LoopInvariant, PTL DEF Spec, B

-----------------------------------------------------------------------------
(***************************************************************************)
(* The loop as its caller sees it.  A report has only ever been received   *)
(* with a turn on record, the one that asked for it.                       *)
(***************************************************************************)
ShownInv == lastFacts # None => audit.turns > 0

\* The places of the loop between two verifications.
Working == {"create", "dispatch", "crg", "graphify", "diff", "final"}

\* What a step can be to the caller; no turn is ever taken off the record.
WorksOn == /\ pc \in Working /\ pc' \in Working
           /\ lastFacts' = lastFacts /\ audit'.turns >= audit.turns

Asks == /\ pc = "dispatch" /\ pc' = "verify"
        /\ lastFacts' = lastFacts /\ audit' = audit /\ audit.turns > 0

IsAnswered == /\ pc = "verify" /\ pc' \in Working
              /\ lastFacts' # None /\ audit' = audit /\ audit.turns > 0

Returns == /\ pc = "final" /\ pc' = "returned"
           /\ lastFacts' = lastFacts /\ audit'.turns > 0

Raises == /\ pc \in Working \cup {"verify"} /\ pc' = "raised"
          /\ lastFacts' = lastFacts /\ audit'.turns >= audit.turns

LEMMA StepSeen ==
  ASSUME Fits, LoopInv, Next
  PROVE  WorksOn \/ Asks \/ IsAnswered \/ Returns \/ Raises
<1>. USE DEF loopState, Dispatched, Working
<1>1. /\ audit.turns \in Nat
      /\ pc \in {"dispatch", "verify"} => audit.turns > 0
      /\ pc # "raised" /\ pc # "returned" => audit.turns = requests
  BY DEF Fits, LoopInv, AuditComplete
<1>2. ASSUME pc \in Dispatched, Answer PROVE pc' \in Working
  BY <1>2, AnswerStep
<1>3. ASSUME NEW uses \in Responses, NEW cost \in Costs, Respond(uses, cost) PROVE WorksOn
  BY <1>1, <1>3 DEF Respond, Recorded, Abort, Finish, Proceed, WorksOn
<1>4. CASE RespondFails \/ ServiceFails \/ FinishFails
  <2>1. audit' = audit \/ audit'.turns = audit.turns + 1
    BY <1>4 DEF RespondFails, ServiceFails, FinishFails, Raise, Fits
  <2>2. pc \in Working \cup {"verify"} /\ pc' = "raised" /\ lastFacts' = lastFacts
    BY <1>4 DEF RespondFails, ServiceFails, FinishFails, Raise
  <2>. QED
    BY <1>1, <2>1, <2>2 DEF Raises
<1>5. CASE Exhausted \/ Stuck \/ GetDiff
  BY <1>1, <1>5 DEF Exhausted, Stuck, GetDiff, Finish, WorksOn
<1>6. CASE FinalTurn
  BY <1>1, <1>6 DEF FinalTurn, Returns
<1>7. ASSUME NEW call \in Calls,
             Observe(call) \/ Retrieve(call) \/ EditFile(call) \/ RunVerifier(call)
      PROVE  WorksOn \/ Asks
  BY <1>1, <1>2, <1>7 DEF Observe, Retrieve, EditFile, RunVerifier, Dispatching, WorksOn, Asks
<1>8. CASE SearchNodes \/ QueryGraph
  BY <1>1, <1>2, <1>8 DEF SearchNodes, QueryGraph, Tell, WorksOn
<1>9. ASSUME NEW report \in VerifierResults, Verified(report) PROVE IsAnswered
  BY <1>1, <1>2, <1>9, ResultsAssumption DEF Verified, Finish, IsAnswered
<1>. QED
  BY <1>3, <1>4, <1>5, <1>6, <1>7, <1>8, <1>9 DEF Next

LEMMA ShownInvStep == Fits /\ LoopInv /\ ShownInv /\ [Next]_vars => ShownInv'
<1>1. ASSUME Fits, LoopInv, ShownInv, Next PROVE ShownInv'
  <2>1. audit.turns \in Nat /\ audit'.turns \in Nat
    BY <1>1, LoopInvStep DEF Fits
  <2>. QED
    BY <1>1, <2>1, StepSeen DEF ShownInv, WorksOn, Asks, IsAnswered, Returns, Raises
<1>2. ShownInv /\ UNCHANGED vars => ShownInv'
  BY DEF vars, loopState, ShownInv
<1>. QED
  BY <1>1, <1>2

\* What the caller sees stays, or moves as the contract allows.
LEMMA SeenStep ==
  ASSUME Fits, LoopInv, ShownInv, Next
  PROVE  BuildState' = BuildState \/ Build!Move(BuildState, BuildState')
<1>1. /\ audit.turns \in Nat /\ audit'.turns \in Nat
      /\ lastFacts # None => audit.turns > 0
  BY LoopInvStep DEF Fits, ShownInv
<1>. DEFINE r == Shown /\ audit.turns > 0
            p == BuildPlace
<1>2. BuildState = Build!At(p, r) /\ BuildState' = Build!At(p', r')
  BY DEF BuildState, Build!At
<1>3. CASE WorksOn
  <2>1. p = "working" /\ p' = "working"
    BY <1>3 DEF WorksOn, Working, BuildPlace
  <2>2. r' = r
    BY <1>1, <1>3 DEF WorksOn, Working, Shown
  <2>. HIDE DEF r, p
  <2>. QED
    BY <1>2, <2>1, <2>2, Zenon
<1>4. CASE Asks
  <2>1. p = "working" /\ p' = "verifying"
    BY <1>4 DEF Asks, BuildPlace
  <2>2. r' = TRUE
    BY <1>1, <1>4 DEF Asks, Shown
  <2>. HIDE DEF r, p
  <2>. QED
    BY <1>2, <2>1, <2>2 DEF Build!Move, Build!Ask, Build!At
<1>5. CASE IsAnswered
  <2>1. p = "verifying" /\ p' = "working"
    BY <1>5 DEF IsAnswered, Working, BuildPlace
  <2>2. r = TRUE /\ r' = TRUE
    BY <1>1, <1>5 DEF IsAnswered, Shown
  <2>. HIDE DEF r, p
  <2>. QED
    BY <1>2, <2>1, <2>2 DEF Build!Move, Build!Answered, Build!At
<1>6. CASE Returns
  <2>1. p = "working" /\ p' = "returned"
    BY <1>6 DEF Returns, BuildPlace
  <2>2. r' = TRUE
    BY <1>1, <1>6 DEF Returns, Shown
  <2>. HIDE DEF r, p
  <2>. QED
    BY <1>2, <2>1, <2>2 DEF Build!Move, Build!Return, Build!At
<1>7. CASE Raises
  <2>1. p \in {"working", "verifying"} /\ p' = "raised"
    BY <1>7 DEF Raises, Working, BuildPlace
  <2>2. r' = TRUE \/ r' = r
    BY <1>1, <1>7 DEF Raises, Shown
  <2>. HIDE DEF r, p
  <2>. QED
    BY <1>2, <2>1, <2>2 DEF Build!Move, Build!Raise, Build!At
<1>. QED
  BY <1>3, <1>4, <1>5, <1>6, <1>7, StepSeen

\* The loop implements the contract: where TaskRun takes a build to work, to wait
\* for a verification, to return or to raise, this is what the loop does.
THEOREM LoopKeepsContract == Spec => ImplementsBuild
<1>1. ASSUME Init PROVE ShownInv /\ Build!Init
  <2>1. BuildState = Build!Started
    <3>1. BuildPlace = "working" /\ (Shown /\ audit.turns > 0) = FALSE
      BY <1>1 DEF Init, BuildPlace, Shown
    <3>. QED
      BY <3>1 DEF BuildState, Build!Started, Build!At
  <2>. QED
    BY <1>1, <2>1 DEF Init, ShownInv, Build!Init, BuildState
<1>2. Fits /\ LoopInv /\ ShownInv /\ [Next]_vars
        => [Build!Next]_([b \in {"this"} |-> BuildState])
  <2>1. ASSUME Fits, LoopInv, ShownInv, Next
        PROVE  [Build!Next]_([b \in {"this"} |-> BuildState])
    <3>1. BuildState' \in Build!States
      BY DEF BuildState, BuildPlace, Build!States, Build!Places
    <3>. QED
      BY <2>1, <3>1, SeenStep DEF Build!Next
  <2>2. UNCHANGED vars => UNCHANGED [b \in {"this"} |-> BuildState]
    BY DEF vars, loopState, BuildState, BuildPlace, Shown
  <2>. QED
    BY <2>1, <2>2
<1>. QED
  BY <1>1, <1>2, ShownInvStep, LoopInvariant, PTL DEF Spec, ImplementsBuild, Build!Spec
=============================================================================
