--------------------------- MODULE DeveloperLoop ---------------------------
(***************************************************************************)
(* DeveloperAgent.build: the ReAct loop of one build.  The model is the    *)
(* environment: each response is any sequence of tool calls at any cost in *)
(* tokens.  The sandbox and the verifier answer anything their clients     *)
(* accept, or break; a `retrieve' goes through the context provider's      *)
(* router to the two indexes behind it.                                    *)
(***************************************************************************)
EXTENDS Naturals, Sequences, Reports

CONSTANTS
  MaxIterations,    \* DEVELOPER_MAX_ITERATIONS
  TokenBudget,      \* MAX_DEVELOPER_TOKENS_PER_TASK
  StuckRepeats,     \* _STUCK_REPEATS
  Calls,            \* the tool calls the model may make
  MaxCalls,         \* bound: tool calls in one response
  Costs,            \* the tokens one response may cost
  VerifierResults,  \* the reports the verifier may return
  None              \* Python's None

Tools == {"retrieve", "read_file", "edit_file", "run_verifier", "other"}

\* A call is a tool name and its arguments; `valid' is what the dispatcher's
\* type checks of the arguments say, `mode' is that of a retrieve, where any
\* string passes the check.  Equal calls are equal signatures.
Modes == {"symbol", "explore", "other"}
Indexes == {"crg", "graphify"}

Statuses == {"passed", "budget_exceeded", "stuck", "max_iterations"}

ASSUME LimitsAssumption == /\ MaxIterations \in Nat
                           /\ TokenBudget \in Nat
                           /\ StuckRepeats \in Nat \ {0}
                           /\ MaxCalls \in Nat
ASSUME CallsAssumption ==
  \A c \in Calls : c.tool \in Tools /\ c.valid \in BOOLEAN /\ c.mode \in Modes
ASSUME CostsAssumption == Costs \subseteq Nat
ASSUME ResultsAssumption == VerifierResults \subseteq Reports
ASSUME NoneAssumption == None \notin Reports \cup Calls \cup Statuses \cup Indexes

VARIABLES
  pc,
  iteration,      \* the for loop's counter
  pending,        \* tool calls of the current response not yet dispatched
  tokensSpent, lastFacts, lastSignature, repeatCount,
  status,         \* what _finish was called with
  asked,          \* tool_use blocks of the last assistant message
  answered,       \* tool_result blocks collected for them
  requests,       \* model responses received
  audit,          \* agent_turn rows written, and the tokens they add up to
  edited,         \* an edit_file has written to the worktree
  gap,            \* what happened to the worktree since lastFacts
  recent,         \* the calls dispatched last, at most StuckRepeats
  hits,           \* what the indexes have answered to the last call
  told            \* the index its observation names

loopState == <<iteration, pending, tokensSpent, lastFacts, lastSignature, repeatCount>>
conversation == <<asked, answered>>
worktree == <<edited, gap>>
retrieval == <<hits, told>>
vars == <<pc, loopState, status, conversation, requests, audit, worktree, recent, retrieval>>

Locations == {"create", "dispatch", "verify", "crg", "graphify",
              "diff", "final", "returned", "raised"}

Findings == {"unasked", "empty", "nodes"}

\* A failed edit_file may have truncated the file it was to write: the shell
\* redirection comes first.
Gaps == {"none", "written", "clobbered"}

TypeOK ==
  /\ pc \in Locations
  /\ iteration \in 0 .. MaxIterations
  /\ pending \in Seq(Calls) /\ Len(pending) <= MaxCalls
  /\ tokensSpent \in Nat
  /\ lastFacts \in VerifierResults \cup {None}
  /\ lastSignature \in Calls \cup {None}
  /\ repeatCount \in 0 .. StuckRepeats
  /\ status \in Statuses \cup {None}
  /\ asked \in 0 .. MaxCalls
  /\ answered \in 0 .. MaxCalls
  /\ audit \in [turns : Nat, tokens : Nat]
  /\ requests \in Nat
  /\ edited \in BOOLEAN
  /\ gap \in Gaps
  /\ recent \in Seq(Calls) /\ Len(recent) <= StuckRepeats
  /\ hits \in [Indexes -> Findings]
  /\ told \in Indexes \cup {None}

Init ==
  /\ pc = "create"
  /\ iteration = 0
  /\ pending = <<>>
  /\ tokensSpent = 0
  /\ lastFacts = None
  /\ lastSignature = None
  /\ repeatCount = 0
  /\ status = None
  /\ asked = 0
  /\ answered = 0
  /\ audit = [turns |-> 0, tokens |-> 0]
  /\ requests = 0
  /\ edited = FALSE
  /\ gap = "none"
  /\ recent = <<>>
  /\ hits = [i \in Indexes |-> "unasked"]
  /\ told = None

-----------------------------------------------------------------------------
\* The arguments of _finish; the diff and the final turn follow.
Finish(s) == /\ status' = s
             /\ pc' = "diff"

\* Any exception but ToolExecutionError leaves build.
Raise == /\ pc' = "raised"
         /\ UNCHANGED <<loopState, status, conversation, requests, worktree, recent,
                        retrieval>>

Responses == UNION {[1 .. n -> Calls] : n \in 0 .. MaxCalls}

\* Variant: only the final turn is recorded.
RecordedAtEnd(cost) ==
  /\ requests' = requests + 1
  /\ tokensSpent' = tokensSpent + cost
  /\ UNCHANGED audit

\* A response has arrived and its turn is recorded.
Recorded(cost) ==
  /\ requests' = requests + 1
  /\ audit' = [turns |-> audit.turns + 1, tokens |-> audit.tokens + cost]
  /\ tokensSpent' = tokensSpent + cost

\* Variant: the results of the previous turn stay in the list.
ProceedKeepsResults(uses) ==
  /\ pending' = uses
  /\ asked' = Len(uses)
  /\ UNCHANGED <<answered, status>>
  /\ IF uses = <<>> THEN iteration' = iteration + 1 /\ pc' = "create"
                    ELSE iteration' = iteration /\ pc' = "dispatch"

\* What the rest of the turn starts from.  Without tool calls the model is
\* told to go on, and the iteration is used up.
Proceed(uses) ==
  /\ pending' = uses
  /\ asked' = Len(uses)
  /\ answered' = 0
  /\ IF uses = <<>> THEN iteration' = iteration + 1 /\ pc' = "create"
                    ELSE iteration' = iteration /\ pc' = "dispatch"
  /\ UNCHANGED status

Abort(s) == Finish(s) /\ UNCHANGED <<iteration, pending, conversation>>

\* Variant: the budget is compared before the response is added to it.
RespondChecksFirst(uses, cost) ==
  /\ pc = "create"
  /\ iteration < MaxIterations
  /\ Recorded(cost)
  /\ IF tokensSpent > TokenBudget THEN Abort("budget_exceeded") ELSE Proceed(uses)
  /\ UNCHANGED <<lastFacts, lastSignature, repeatCount, worktree, recent, retrieval>>

\* Variant: the response that exceeds the budget is not recorded.
RespondRecordsLate(uses, cost) ==
  /\ pc = "create"
  /\ iteration < MaxIterations
  /\ IF tokensSpent + cost > TokenBudget
       THEN /\ Abort("budget_exceeded")
            /\ tokensSpent' = tokensSpent + cost
            /\ requests' = requests + 1
            /\ UNCHANGED audit
       ELSE Recorded(cost) /\ Proceed(uses)
  /\ UNCHANGED <<lastFacts, lastSignature, repeatCount, worktree, recent, retrieval>>

\* Variant: a turn without tool calls does not count as an iteration.
RespondFreeNudge(uses, cost) ==
  /\ pc = "create"
  /\ iteration < MaxIterations
  /\ Recorded(cost)
  /\ IF tokensSpent' > TokenBudget THEN Abort("budget_exceeded")
     ELSE IF uses = <<>> THEN UNCHANGED <<pc, iteration, pending, conversation, status>>
     ELSE Proceed(uses)
  /\ UNCHANGED <<lastFacts, lastSignature, repeatCount, worktree, recent, retrieval>>

\* One iteration's model call: record, add up, compare, read the tool calls.
Respond(uses, cost) ==
  /\ pc = "create"
  /\ iteration < MaxIterations
  /\ Recorded(cost)
  /\ IF tokensSpent' > TokenBudget THEN Abort("budget_exceeded") ELSE Proceed(uses)
  /\ UNCHANGED <<lastFacts, lastSignature, repeatCount, worktree, recent, retrieval>>

\* The model call fails, or its turn cannot be recorded.
RespondFails ==
  /\ pc = "create"
  /\ iteration < MaxIterations
  /\ Raise
  /\ \/ UNCHANGED audit
     \/ \E cost \in Costs :
          audit' = [turns |-> audit.turns + 1, tokens |-> audit.tokens + cost]

\* Variant: the loop falls off its end.
ExhaustedForgotten ==
  /\ pc = "create"
  /\ iteration > MaxIterations
  /\ Finish("max_iterations")
  /\ UNCHANGED <<loopState, conversation, requests, audit, worktree, recent, retrieval>>

Exhausted ==
  /\ pc = "create"
  /\ iteration = MaxIterations
  /\ Finish("max_iterations")
  /\ UNCHANGED <<loopState, conversation, requests, audit, worktree, recent, retrieval>>

-----------------------------------------------------------------------------
(* Dispatching the calls of one response, in order. *)

\* Variant: the count of repeats is never reset.
RepeatsOfAny(call) == repeatCount + 1

Repeats(call) == IF call = lastSignature THEN repeatCount + 1 ELSE 1

Last(s, n) == IF Len(s) <= n THEN s ELSE SubSeq(s, Len(s) - n + 1, Len(s))

\* The head of `pending' is dispatched: it is no StuckRepeats-th repetition.
\* Nothing has been retrieved for it yet.
Dispatching(call) ==
  /\ pc = "dispatch"
  /\ call = Head(pending)
  /\ Repeats(call) < StuckRepeats
  /\ repeatCount' = Repeats(call)
  /\ lastSignature' = call
  /\ recent' = Last(Append(recent, call), StuckRepeats)
  /\ hits' = [i \in Indexes |-> "unasked"]
  /\ told' = None

\* The call's result is appended; after the last one the next iteration starts.
Answer ==
  /\ answered' = answered + 1
  /\ pending' = Tail(pending)
  /\ IF Len(pending) = 1 THEN iteration' = iteration + 1 /\ pc' = "create"
                         ELSE iteration' = iteration /\ pc' = "dispatch"
  /\ UNCHANGED <<status, asked>>

Stuck ==
  /\ pc = "dispatch"
  /\ LET call == Head(pending) IN
       /\ Repeats(call) >= StuckRepeats
       /\ repeatCount' = Repeats(call)
       /\ lastSignature' = call
  /\ Finish("stuck")
  /\ UNCHANGED <<iteration, pending, tokensSpent, lastFacts, conversation,
                 requests, audit, worktree, recent, retrieval>>

\* Variant: a call with bad arguments gets no tool_result.
ObserveSilently(call) ==
  /\ Dispatching(call)
  /\ call.tool \in {"read_file", "other"} \/ ~call.valid
  /\ pending' = Tail(pending)
  /\ answered' = IF call.valid THEN answered + 1 ELSE answered
  /\ IF Len(pending) = 1 THEN iteration' = iteration + 1 /\ pc' = "create"
                         ELSE iteration' = iteration /\ pc' = "dispatch"
  /\ UNCHANGED <<status, asked, tokensSpent, lastFacts, requests, audit, worktree>>

\* read_file, an unknown tool, or arguments of the wrong type: an observation
\* or an error observation, and nothing else changes.
Observe(call) ==
  /\ Dispatching(call)
  /\ call.tool \in {"read_file", "other"} \/ ~call.valid
  /\ Answer
  /\ UNCHANGED <<tokensSpent, lastFacts, requests, audit, worktree>>

\* POST /retrieve is routed.  A mode the service does not know has no route:
\* its 422 is one of ServiceFails.
Retrieve(call) ==
  /\ Dispatching(call)
  /\ call.tool = "retrieve" /\ call.valid
  /\ \/ call.mode = "symbol" /\ pc' = "crg"
     \/ call.mode = "explore" /\ pc' = "graphify"
  /\ UNCHANGED <<iteration, pending, tokensSpent, lastFacts, status, conversation,
                 requests, audit, worktree>>

\* The observation names the index it is from, and says when it is empty.
Tell(index, found) ==
  /\ hits' = [hits EXCEPT ![index] = found]
  /\ told' = index
  /\ Answer

\* Variant: a CRG that is down is passed over like one that found nothing.
SearchNodesFallsBack ==
  /\ pc = "crg"
  /\ \/ Tell("crg", "nodes")
     \/ /\ hits' \in {[hits EXCEPT !["crg"] = "empty"], hits}
        /\ pc' = "graphify"
        /\ UNCHANGED <<iteration, pending, status, conversation, told>>
  /\ UNCHANGED <<tokensSpent, lastFacts, lastSignature, repeatCount, requests, audit,
                 worktree, recent>>

\* semantic_search_nodes; Graphify is asked when there are none.
SearchNodes ==
  /\ pc = "crg"
  /\ \/ Tell("crg", "nodes")
     \/ /\ hits' = [hits EXCEPT !["crg"] = "empty"]
        /\ pc' = "graphify"
        /\ UNCHANGED <<iteration, pending, status, conversation, told>>
  /\ UNCHANGED <<tokensSpent, lastFacts, lastSignature, repeatCount, requests, audit,
                 worktree, recent>>

QueryGraph ==
  /\ pc = "graphify"
  /\ \E found \in {"empty", "nodes"} : Tell("graphify", found)
  /\ UNCHANGED <<tokensSpent, lastFacts, lastSignature, repeatCount, requests, audit,
                 worktree, recent>>

\* Variant: edit_file does not run the verifier.
EditFileUnverified(call) ==
  /\ Dispatching(call)
  /\ call.tool = "edit_file" /\ call.valid
  /\ edited' = TRUE
  /\ gap' = "written"
  /\ Answer
  /\ UNCHANGED <<tokensSpent, lastFacts, requests, audit>>

\* The file is written and the verifier run started; or the write fails and
\* the model only gets to see the error.
EditFile(call) ==
  /\ Dispatching(call)
  /\ call.tool = "edit_file" /\ call.valid
  /\ \/ /\ edited' = TRUE
        /\ gap' = "written"
        /\ pc' = "verify"
        /\ UNCHANGED <<iteration, pending, status, conversation>>
     \/ /\ \/ gap' = "clobbered" /\ edited' = TRUE
           \/ UNCHANGED worktree
        /\ Answer
  /\ UNCHANGED <<tokensSpent, lastFacts, requests, audit>>

RunVerifier(call) ==
  /\ Dispatching(call)
  /\ call.tool = "run_verifier" /\ call.valid
  /\ pc' = "verify"
  /\ UNCHANGED <<iteration, pending, tokensSpent, lastFacts, status, conversation,
                 requests, audit, worktree>>

\* The verifier's report: a green one ends the build.
Verified(report) ==
  /\ pc = "verify"
  /\ lastFacts' = report
  /\ gap' = "none"
  /\ IF IsGreen(report)
       THEN /\ Finish("passed")
            /\ answered' = answered + 1
            /\ UNCHANGED <<iteration, pending, asked>>
       ELSE Answer
  /\ UNCHANGED <<tokensSpent, lastSignature, repeatCount, requests, audit, edited,
                 recent, retrieval>>

\* A service is unreachable or answers an error (the context provider's is
\* any exception of its clients): DeveloperError.
ServiceFails ==
  /\ \/ pc \in {"verify", "crg", "graphify"}
     \/ /\ pc = "dispatch"
        /\ Head(pending).valid /\ Head(pending).tool # "other"
        /\ Repeats(Head(pending)) < StuckRepeats
  /\ Raise
  /\ UNCHANGED audit

-----------------------------------------------------------------------------
(* _finish: the diff, then the zero-token turn that carries it. *)

GetDiff ==
  /\ pc = "diff"
  /\ pc' = "final"
  /\ UNCHANGED <<loopState, status, conversation, requests, audit, worktree, recent,
                 retrieval>>

FinalTurn ==
  /\ pc = "final"
  /\ pc' = "returned"
  /\ audit' = [audit EXCEPT !.turns = @ + 1]
  /\ UNCHANGED <<loopState, status, conversation, requests, worktree, recent, retrieval>>

FinishFails ==
  /\ pc \in {"diff", "final"}
  /\ Raise
  /\ \/ UNCHANGED audit
     \/ pc = "final" /\ audit' = [audit EXCEPT !.turns = @ + 1]

-----------------------------------------------------------------------------
Next ==
  \/ \E uses \in Responses, cost \in Costs : Respond(uses, cost)
  \/ RespondFails \/ Exhausted \/ Stuck
  \/ \E call \in Calls : Observe(call) \/ Retrieve(call) \/ EditFile(call) \/ RunVerifier(call)
  \/ SearchNodes \/ QueryGraph
  \/ \E report \in VerifierResults : Verified(report)
  \/ ServiceFails \/ GetDiff \/ FinalTurn \/ FinishFails

Spec == Init /\ [][Next]_vars

\* build is one coroutine: it goes on whenever what it awaits comes back or
\* times out (the HTTP client and the SDK have timeouts).
FairSpec == Spec /\ WF_vars(Next)

-----------------------------------------------------------------------------
(* Properties. *)

\* The two limits of a build.  The model is only called and tools only run
\* while the token budget holds, so it is exceeded by one response at most,
\* and exceeding it is what the caller is told (agent.build: the check follows
\* the addition); and there are at most MaxIterations model calls.
BudgetHolds ==
  /\ pc \in {"create", "dispatch", "verify", "crg", "graphify"} => tokensSpent <= TokenBudget
  /\ status = "budget_exceeded" <=> tokensSpent > TokenBudget
  /\ requests <= MaxIterations

\* `stuck' means exactly that one call was made StuckRepeats times in a row:
\* the last of them is never executed, and no such row is ever executed.
StuckExact ==
  /\ status = "stuck" =>
       /\ Len(recent) >= StuckRepeats - 1
       /\ \A i \in 1 .. Len(recent) :
            i > Len(recent) - (StuckRepeats - 1) => recent[i] = lastSignature
  /\ Len(recent) = StuckRepeats =>
       \E i \in 1 .. StuckRepeats : recent[i] # recent[StuckRepeats]

\* `passed' rests on a report in which nothing failed, of the worktree as it
\* is returned; and no other turn starts, nor does the build end, with an
\* edit that was written and never verified (_dispatch: edit, then verify).
EditsVerified ==
  /\ status = "passed" => IsGreen(lastFacts) /\ gap = "none"
  /\ gap = "written" => pc \in {"verify", "raised"}

\* Every response is on record with its tokens before anything is done about
\* it, and a build that returned has one more turn, for the diff
\* (_record_turn, _finish).
AuditComplete ==
  pc # "raised" =>
    /\ audit.turns = requests + (IF pc = "returned" THEN 1 ELSE 0)
    /\ audit.tokens = tokensSpent

\* The messages API refuses a history with an unanswered tool_use: before
\* each call every tool call of the previous response has its result.
ToolCallsAnswered == pc = "create" => answered = asked

\* The model is told that there is nothing only after every index on the
\* route of its mode has been asked and was found empty, CRG first; an index
\* that did not answer is never passed off as one without the symbol, and
\* exploring costs no CRG call (router.retrieve, ADR-0002).
RetrievalComplete ==
  told # None =>
    /\ hits[told] # "unasked"
    /\ told = "crg" => hits["crg"] = "nodes" /\ hits["graphify"] = "unasked"
    /\ told = "graphify" =>
         hits["crg"] = IF lastSignature.mode = "symbol" THEN "empty" ELSE "unasked"

\* Where its caller takes the build to be, and whether it can count on a turn.
BuildPlace == CASE pc = "verify"   -> "verifying"
                [] pc = "returned" -> "returned"
                [] pc = "raised"   -> "raised"
                [] OTHER           -> "working"

Shown == lastFacts # None \/ pc \in {"verify", "returned", "raised"}

BuildState == [at |-> BuildPlace, recorded |-> Shown /\ audit.turns > 0]

Build == INSTANCE BuildContract
           WITH Builds <- {"this"}, build <- [b \in {"this"} |-> BuildState]

\* Whatever the model asks for, the loop is for its caller what TaskRun takes it
\* to be (TaskRun!ImplementsBuild): it verifies one thing at a time, with the
\* turn that asked for it on record, and it returns only through _finish.
ImplementsBuild == Build!Spec

\* The steps a build can still take: three for each call of the response (a
\* `symbol' query asks two indexes), one more for each iteration that is left,
\* and three to finish.
CallSteps == 3 * MaxCalls
Afterwards(i) == 3 + (MaxIterations - i) * (CallSteps + 1)
Remaining ==
  CASE pc = "create"               -> Afterwards(iteration)
    [] pc = "dispatch"             -> Afterwards(iteration + 1) + 3 * Len(pending)
    [] pc = "crg"                  -> Afterwards(iteration + 1) + 3 * Len(pending) - 1
    [] pc \in {"verify", "graphify"} -> Afterwards(iteration + 1) + 3 * Len(pending) - 2
    [] pc = "diff"                 -> 2
    [] pc = "final"                -> 1
    [] OTHER                       -> 0

\* No step of a build is free: whatever the model asks for and however the
\* services answer, each step brings the end closer, and a build is over after
\* MaxIterations * (3 * MaxCalls + 1) + 3 of them (agent.build: the nudge of an
\* answer without calls uses up an iteration, and nothing is retried).
EveryStepCounts == [][Remaining' \in 0 .. Remaining - 1]_vars

\* Every build returns or raises.
Terminates == <>(pc \in {"returned", "raised"})

\* `passed' is a green verification after an edit (module comment of agent).
PassedAfterEdit == status = "passed" => edited
=============================================================================
