------------------------------ MODULE AgentTurn ------------------------------
(***************************************************************************)
(* One engine and its successive turns: the query state machine driven by  *)
(* RuntimeCoordinator.run (coordinator.ts), the tool scheduler's batches    *)
(* (toolScheduler.ts), and what a user may do while the loop is suspended:  *)
(* abort, soft abort, steer.                                                *)
(*                                                                          *)
(* The loop is one thread: between two awaits nothing else happens, so the  *)
(* user's calls land only in a phase that waits (Waiting).  A tool call is  *)
(* abstracted to whether its arguments parse and what it claims, a message  *)
(* list to the calls in it that no tool message answers yet, text to        *)
(* whether there is any and whether it moves the token budget by a unit.    *)
(***************************************************************************)
EXTENDS Naturals, Sequences, FiniteSets, SequencesExt

CONSTANTS
    MaxTurns,            \* turns of the engine (bound of the model)
    MaxSteers,           \* instructions a user sends per turn (bound)
    MaxIterations,       \* effectiveMaxIterations
    MaxEmptyRetries,     \* MAX_EMPTY_RETRIES
    MaxLengthRetries,    \* MAX_LENGTH_RETRIES
    MaxNoProgress,       \* MAX_EXPLORATION_NO_PROGRESS
    MaxContinuations,    \* MAX_COMPLETION_CONTINUATIONS
    Diminishing,         \* continuations before checkTokenBudget may give up
    TokenBudget,         \* units of tokens it asks for (0: enableContinuation off)
    Responses            \* sequences of tool calls a model may answer with

Accesses == {"read", "write", "exclusive"}
IsCall(call) == call.parses \in BOOLEAN /\ \A c \in call.claims : c.access \in Accesses

ASSUME TurnAssumption ==
    /\ {MaxTurns, MaxSteers, MaxIterations, MaxEmptyRetries, MaxLengthRetries,
        MaxNoProgress, MaxContinuations, Diminishing, TokenBudget} \subseteq Nat
    /\ \A cs \in Responses : cs \in Seq(ToSet(cs)) /\ \A i \in DOMAIN cs : IsCall(cs[i])

VARIABLES
    phase,        \* the state of the query state machine, or of the turn around it
    turn,         \* number of the current or last turn; names its AbortController
    iteration,
    controller,   \* currentTurnAbortController: a turn, 0 when null
    aborted,      \* the signal of this turn's controller: "no", "user", "timeout"
    softRequested, softOwner,   \* softAbortRequested, softAbortOwner (0: null)
    calls,        \* tool calls of the last answer
    answers,      \* tool messages per call of it
    plan,         \* batches (of positions in calls) still to begin or running
    executing,    \* is the first batch running?
    counts,       \* the retry and continuation counters of this turn
    requests,     \* LLM calls of this turn (history)
    steers,       \* accepted, still in the control log, rendered (per turn)
    pressedIdle,  \* was the last soft abort asked for with no turn in flight? (history)
    batchesAfterSoft, \* batches begun after a soft abort of this turn (history)
    reason        \* how the last turn ended

turnVars == <<phase, turn, iteration, controller, aborted, reason>>
softVars == <<softRequested, softOwner, pressedIdle, batchesAfterSoft>>
toolVars == <<calls, answers, plan, executing>>
vars == <<turnVars, softVars, toolVars, counts, requests, steers>>

LoopPhases == {"check_abort", "budget_check", "module_iteration", "llm_call",
               "llm_refused", "continuation_check", "parse_response", "tool_execution"}
Phases == LoopPhases \union {"idle", "boot", "routing", "postlude"}

(* The phases in which run() is suspended in an await; a user can act only  *)
(* there, or when no turn runs.                                             *)
Waiting ==
    \/ phase \in {"idle", "boot", "routing", "budget_check", "module_iteration",
                  "llm_call", "llm_refused", "postlude"}
    \/ phase = "tool_execution" /\ executing

FreshCounts(read) ==
    [empty |-> 0, length |-> 0, noProgress |-> 0, read |-> read, completion |-> 0,
     tokens |-> 0, budget |-> 0, lastDelta |-> 0, lastTokens |-> 0]

(* sharedState.claimSoftAbort *)
Claimable == softRequested /\ softOwner \in {0, turn}

NoSteers == [accepted |-> 0, logged |-> 0, rendered |-> 0]

Init ==
    /\ phase = "idle" /\ turn = 0 /\ iteration = 0 /\ reason = "none"
    /\ controller = 0 /\ aborted = "no"
    /\ softRequested = FALSE /\ softOwner = 0
    /\ pressedIdle = FALSE /\ batchesAfterSoft = 0
    /\ calls = <<>> /\ answers = <<>> /\ plan = <<>> /\ executing = FALSE
    /\ counts = FreshCounts(FALSE) /\ requests = 0
    /\ steers = NoSteers

-----------------------------------------------------------------------------
(* The user. *)

(* engine.abort: nothing follows when no controller is installed, or when   *)
(* the one installed belongs to a turn that is over.                        *)
Abort ==
    /\ Waiting /\ phase # "idle" /\ controller = turn /\ aborted = "no"
    /\ aborted' = "user"
    /\ UNCHANGED <<phase, turn, iteration, controller, reason, softVars, toolVars,
                   counts, requests, steers>>

(* engine.softAbort *)
SoftAbort ==
    /\ Waiting
    /\ softRequested' = TRUE /\ softOwner' = controller
    /\ pressedIdle' = (phase = "idle")
    /\ batchesAfterSoft' = IF Claimable THEN batchesAfterSoft ELSE 0
    /\ UNCHANGED <<turnVars, toolVars, counts, requests, steers>>

(* engine.steer while the loop has a live control log; it returns TRUE. *)
Steer ==
    /\ Waiting /\ phase \in LoopPhases /\ steers.accepted < MaxSteers
    /\ steers' = [steers EXCEPT !.accepted = @ + 1, !.logged = @ + 1]
    /\ UNCHANGED <<turnVars, softVars, toolVars, counts, requests>>

(* streamConsumer: the watchdog aborts the turn's controller. *)
StreamTimesOut ==
    /\ phase = "llm_call" /\ aborted = "no"
    /\ aborted' = "timeout"
    /\ UNCHANGED <<phase, turn, iteration, controller, reason, softVars, toolVars,
                   counts, requests, steers>>

-----------------------------------------------------------------------------
(* The turn around the loop. *)

(* engine.runTurn; refused while another turn is in flight.  The files the  *)
(* session has read may already be ahead of the new turn's counter.         *)
RunTurn ==
    /\ phase = "idle" /\ turn < MaxTurns
    /\ phase' = "boot" /\ turn' = turn + 1 /\ reason' = "none"
    /\ \E read \in BOOLEAN : counts' = FreshCounts(read)
    /\ UNCHANGED <<iteration, controller, aborted, softVars, calls, answers, plan,
                   executing, requests, steers>>

(* boot() is done with its modules and installs the turn's controller. *)
Boot ==
    /\ phase = "boot"
    /\ phase' = "routing" /\ controller' = turn
    /\ UNCHANGED <<turn, iteration, aborted, reason, softVars, toolVars, counts,
                   requests, steers>>

(* The compaction before the loop and the routing are done. *)
EnterLoop ==
    /\ phase = "routing"
    /\ phase' = "check_abort" /\ iteration' = 1
    /\ UNCHANGED <<turn, controller, aborted, reason, softVars, toolVars,
                   counts, requests, steers>>

(* run() returns or throws: its local variables are gone. *)
RunIsOver ==
    /\ phase' = "idle" /\ iteration' = 0 /\ aborted' = "no"
    /\ calls' = <<>> /\ answers' = <<>> /\ plan' = <<>> /\ executing' = FALSE
    /\ counts' = FreshCounts(FALSE) /\ requests' = 0
    /\ steers' = NoSteers
    /\ UNCHANGED <<turn, controller, softVars>>

(* boot() throws, the first compaction is aborted, or no model can be       *)
(* routed to: run() leaves without the loop's finally.  The caller keeps    *)
(* its history, and the controller stays installed.                         *)
StartFails ==
    /\ phase \in {"boot", "routing"}
    /\ RunIsOver /\ reason' = "failed"

(* The loop ends and its finally runs, which drops a soft abort of its own. *)
CompleteWith(r, dropSoft) ==
    /\ phase' = "postlude" /\ reason' = r
    /\ controller' = IF controller = turn THEN 0 ELSE controller
    /\ softRequested' = (softRequested /\ ~ dropSoft)
    /\ softOwner' = IF dropSoft THEN 0 ELSE softOwner
    /\ UNCHANGED <<turn, iteration, aborted, pressedIdle, batchesAfterSoft>>

Complete(r) == CompleteWith(r, softRequested /\ softOwner = turn)

(* ... after the loop has claimed a soft abort. *)
CompleteClaimed == CompleteWith("interrupted", TRUE)

(* The catch around the loop. *)
Caught == Complete(IF aborted # "no" THEN "interrupted" ELSE "error")

(* The verdict, the hooks and the modules' onComplete are done and the      *)
(* messages become the history; or one of them throws and they are lost.    *)
Settle ==
    /\ phase = "postlude"
    /\ RunIsOver /\ reason' \in {reason, "failed"}

-----------------------------------------------------------------------------
(* The phases before a request. *)

(* checkTermination; the soft abort is claimed whatever comes of it. *)
CheckAbort ==
    /\ phase = "check_abort"
    /\ \/ /\ Claimable /\ CompleteClaimed
       \/ /\ ~ Claimable /\ aborted # "no" /\ Complete("interrupted")
       \/ /\ ~ Claimable /\ aborted = "no" /\ iteration > MaxIterations
          /\ Complete("max_iterations")
       \/ /\ ~ Claimable /\ aborted = "no" /\ iteration <= MaxIterations
          /\ phase' = "budget_check"
          /\ UNCHANGED <<turn, iteration, controller, aborted, reason, softVars>>
    /\ UNCHANGED <<toolVars, counts, requests, steers>>

(* Only an aborted compaction leaves the phase by a throw. *)
BudgetCheck ==
    /\ phase = "budget_check"
    /\ \/ aborted # "no" /\ Caught
       \/ /\ phase' = "module_iteration"
          /\ UNCHANGED <<turn, iteration, controller, aborted, reason, softVars>>
    /\ UNCHANGED <<toolVars, counts, requests, steers>>

(* Faulty variant: the control log is cleared before it is rendered. *)
SendRequestClearedFirst ==
    /\ phase' = IF aborted = "no" THEN "llm_call" ELSE "llm_refused"
    /\ requests' = requests + 1
    /\ steers' = [steers EXCEPT !.logged = 0]

(* llm_call up to its await: the control log is rendered into the request   *)
(* and cleared.  A client given a signal that is already aborted throws.    *)
SendRequest ==
    /\ phase' = IF aborted = "no" THEN "llm_call" ELSE "llm_refused"
    /\ requests' = requests + 1
    /\ steers' = [steers EXCEPT !.rendered = @ + steers.logged, !.logged = 0]

ModuleIteration ==
    /\ phase = "module_iteration"
    /\ \/ /\ SendRequest
          /\ UNCHANGED <<turn, iteration, controller, aborted, reason, softVars>>
       \/ Caught /\ UNCHANGED <<requests, steers>>
    /\ UNCHANGED <<toolVars, counts>>

-----------------------------------------------------------------------------
(* The answer. *)

(* Faulty variant: nothing limits the retries. *)
EmptyRetryForever(text, cs) == ~ text /\ cs = <<>>

(* An answer with nothing in it is asked for again. *)
EmptyRetry(text, cs) == ~ text /\ cs = <<>> /\ counts.empty < MaxEmptyRetries

(* So is one cut off in its text. *)
LengthRetry(finish, cs) ==
    finish = "length" /\ cs = <<>> /\ counts.length < MaxLengthRetries

(* A provider may end with "stop" and tool calls; "other" stands for        *)
(* "tool_calls" and for the null of a stream that was broken off.           *)
LlmAnswers ==
    /\ phase = "llm_call"
    /\ \E text, newTokens \in BOOLEAN, finish \in {"stop", "length", "other"},
         cs \in Responses :
         /\ newTokens => text
         /\ LET spent == [counts EXCEPT !.tokens =
                  IF newTokens /\ @ < TokenBudget THEN @ + 1 ELSE @]
            IN \/ /\ EmptyRetry(text, cs)
                  /\ counts' = [spent EXCEPT !.empty = @ + 1]
                  /\ SendRequest
               \/ /\ ~ EmptyRetry(text, cs) /\ LengthRetry(finish, cs)
                  /\ counts' = [spent EXCEPT !.length = @ + 1]
                  /\ SendRequest
               \/ /\ ~ EmptyRetry(text, cs) /\ ~ LengthRetry(finish, cs)
                  /\ counts' = spent
                  /\ phase' = IF finish = "stop" \/ cs = <<>>
                              THEN "continuation_check" ELSE "parse_response"
                  /\ UNCHANGED <<requests, steers>>
         /\ calls' = cs /\ answers' = [i \in DOMAIN cs |-> 0]
    /\ UNCHANGED <<turn, iteration, controller, aborted, reason, softVars, plan,
                   executing>>

(* The gateway gives up, the request is aborted, or the stream timed out. *)
LlmThrows ==
    /\ phase \in {"llm_call", "llm_refused"} /\ Caught
    /\ UNCHANGED <<toolVars, counts, requests, steers>>

(* checkTokenBudget says "continue": budget is left, and the last two       *)
(* continuations were not both fruitless.                                   *)
BudgetContinues(c) ==
    /\ c.tokens < TokenBudget
    /\ ~ (c.budget >= Diminishing /\ c.tokens = c.lastTokens /\ c.lastDelta = 0)

BudgetContinued(c) ==
    [c EXCEPT !.budget = IF @ < Diminishing THEN @ + 1 ELSE @,
              !.lastDelta = c.tokens - c.lastTokens, !.lastTokens = c.tokens]

(* assessProjectExploration found the exploration incomplete: progress      *)
(* since the last look starts the count again.                              *)
ExplorationLooked(c) ==
    [c EXCEPT !.noProgress = IF c.read THEN 0 ELSE IF @ > MaxNoProgress THEN @ ELSE @ + 1,
              !.read = FALSE]

(* Whether the exploration is complete and whether the answer hands the     *)
(* task back too early are judgements about text and files.                 *)
ContinuationCheck ==
    /\ phase = "continuation_check"
    /\ \E incomplete, handoff \in BOOLEAN :
         LET c == IF incomplete THEN ExplorationLooked(counts) ELSE counts
             explores == incomplete /\ c.noProgress <= MaxNoProgress
             completes == ~ explores /\ handoff /\ c.completion < MaxContinuations
         IN \/ explores /\ counts' = c /\ SendRequest
               /\ UNCHANGED <<controller, reason, softVars>>
            \/ completes /\ counts' = [c EXCEPT !.completion = @ + 1] /\ SendRequest
               /\ UNCHANGED <<controller, reason, softVars>>
            \/ /\ ~ explores /\ ~ completes /\ BudgetContinues(c)
               /\ counts' = BudgetContinued(c) /\ SendRequest
               /\ UNCHANGED <<controller, reason, softVars>>
            \/ /\ ~ explores /\ ~ completes /\ ~ BudgetContinues(c)
               /\ counts' = c /\ Complete("stop_sequence")
               /\ UNCHANGED <<requests, steers>>
    /\ UNCHANGED <<turn, iteration, aborted, toolVars>>

-----------------------------------------------------------------------------
(* The tools. *)

Claims(positions) == UNION {calls[i].claims : i \in ToSet(positions)}

(* resourceScheduler: claimsConflictBetween *)
ConflictBetween(cs, ds) ==
    \E c \in cs, d \in ds : c.key = d.key /\ ~ (c.access = "read" /\ d.access = "read")

(* Faulty variant: a call is compared with the last call of the batch only. *)
AddToPlanLastOnly(batches, i) ==
    IF ~ calls[i].parses THEN batches
    ELSE IF /\ batches # <<>> /\ calls[i].claims # {}
            /\ Claims(Last(batches)) # {}
            /\ ~ ConflictBetween(calls[Last(Last(batches))].claims, calls[i].claims)
         THEN Front(batches) \o << Append(Last(batches), i) >>
         ELSE Append(batches, <<i>>)

(* A call joins the last batch when both declare claims and none conflict;  *)
(* a call without claims has a batch of its own, one that was not valid     *)
(* has none.                                                                *)
AddToPlan(batches, i) ==
    IF ~ calls[i].parses THEN batches
    ELSE IF /\ batches # <<>> /\ calls[i].claims # {}
            /\ Claims(Last(batches)) # {}
            /\ ~ ConflictBetween(Claims(Last(batches)), calls[i].claims)
         THEN Front(batches) \o << Append(Last(batches), i) >>
         ELSE Append(batches, <<i>>)

(* partitionToolCalls of the valid calls, in the order of the answer *)
PartitionToolCalls == FoldLeftDomain(AddToPlan, <<>>, calls)

(* A call whose arguments do not parse is answered at once. *)
ParseResponse ==
    /\ phase = "parse_response"
    /\ phase' = "tool_execution"
    /\ answers' = [i \in DOMAIN calls |-> IF calls[i].parses THEN 0 ELSE 1]
    /\ plan' = PartitionToolCalls
    /\ UNCHANGED <<turn, iteration, controller, aborted, reason, softVars, calls,
                   executing, counts, requests, steers>>

(* The next batch begins; a batch of one call runs in executeSerialBatch,   *)
(* a longer one in executeParallelBatch.                                    *)
StartBatch ==
    /\ phase = "tool_execution" /\ ~ executing /\ plan # <<>> /\ aborted = "no"
    /\ executing' = TRUE
    /\ batchesAfterSoft' = IF Claimable THEN batchesAfterSoft + 1 ELSE batchesAfterSoft
    /\ UNCHANGED <<turnVars, softRequested, softOwner, pressedIdle, calls, answers, plan,
                   counts, requests, steers>>

(* A renderer that throws in toolStart ends the loop. *)
ToolStartThrows ==
    /\ phase = "tool_execution" /\ ~ executing /\ plan # <<>> /\ aborted = "no"
    /\ Caught
    /\ UNCHANGED <<toolVars, counts, requests, steers>>

(* Every call of the batch has settled, and has its tool message. *)
BatchSettles ==
    /\ phase = "tool_execution" /\ executing
    /\ executing' = FALSE /\ plan' = Tail(plan)
    /\ answers' = [i \in DOMAIN calls |->
          IF i \in ToSet(Head(plan)) THEN answers[i] + 1 ELSE answers[i]]
    /\ \E read \in BOOLEAN : counts' = [counts EXCEPT !.read = @ \/ read]
    /\ UNCHANGED <<calls, requests, steers>>

(* Faulty variant: a soft abort is not looked for between batches. *)
BatchEndsUnclaimed ==
    /\ BatchSettles
    /\ UNCHANGED <<turnVars, softVars>>

(* Then a soft abort is claimed. *)
BatchEnds ==
    /\ BatchSettles
    /\ \/ Claimable /\ CompleteClaimed
       \/ ~ Claimable /\ UNCHANGED <<turnVars, softVars>>

(* Faulty variant: schedule() looks at the signal, and does not return. *)
ScheduleReturnsAtEnd ==
    /\ phase = "tool_execution" /\ ~ executing /\ plan = <<>>
    /\ \/ aborted # "no" /\ Complete("interrupted")
       \/ /\ aborted = "no"
          /\ phase' = "check_abort" /\ iteration' = iteration + 1
          /\ UNCHANGED <<turn, controller, aborted, reason, softVars>>
    /\ UNCHANGED <<toolVars, counts, requests, steers>>

(* Faulty variant: schedule() returns from inside its loop. *)
ScheduleReturnsInLoop ==
    /\ phase = "tool_execution" /\ ~ executing
    /\ \/ aborted # "no" /\ Complete("interrupted")
       \/ /\ aborted = "no"
          /\ phase' = "check_abort" /\ iteration' = iteration + 1
          /\ UNCHANGED <<turn, controller, aborted, reason, softVars>>
    /\ UNCHANGED <<toolVars, counts, requests, steers>>

(* schedule() is through, or finds the signal aborted before a batch. *)
ScheduleReturns ==
    /\ phase = "tool_execution" /\ ~ executing
    /\ \/ aborted # "no" /\ Complete("interrupted")
       \/ /\ aborted = "no" /\ plan = <<>>
          /\ phase' = "check_abort" /\ iteration' = iteration + 1
          /\ UNCHANGED <<turn, controller, aborted, reason, softVars>>
    /\ UNCHANGED <<toolVars, counts, requests, steers>>

-----------------------------------------------------------------------------
TurnStep ==
    \/ Boot \/ EnterLoop \/ StartFails \/ Settle
    \/ CheckAbort \/ BudgetCheck \/ ModuleIteration
    \/ LlmAnswers \/ LlmThrows \/ ContinuationCheck \/ ParseResponse
    \/ StartBatch \/ ToolStartThrows \/ BatchEnds \/ ScheduleReturns

UserStep == RunTurn \/ Abort \/ SoftAbort \/ Steer

Next == TurnStep \/ UserStep \/ StreamTimesOut

(* What a turn waits for ends: modules and compaction return, the gateway   *)
(* times its requests out, a tool ends by itself or by the abort signal.    *)
(* Nothing obliges a user.                                                  *)
Spec == Init /\ [][Next]_vars /\ WF_vars(TurnStep)

-----------------------------------------------------------------------------
TurnTypeOK ==
    /\ phase \in Phases /\ turn \in 0..MaxTurns /\ controller \in 0..turn
    /\ iteration \in 0..(MaxIterations + 1) /\ requests \in Nat
    /\ aborted \in {"no", "user", "timeout"}
    /\ reason \in {"none", "interrupted", "max_iterations", "stop_sequence", "error",
                   "failed"}

SoftTypeOK ==
    /\ softRequested \in BOOLEAN /\ softOwner \in 0..turn
    /\ pressedIdle \in BOOLEAN /\ batchesAfterSoft \in Nat

CountRecords ==
    [empty: 0..MaxEmptyRetries, length: 0..MaxLengthRetries,
     noProgress: 0..(MaxNoProgress + 1), read: BOOLEAN, completion: 0..MaxContinuations,
     tokens: 0..TokenBudget, budget: 0..Diminishing, lastDelta: 0..TokenBudget,
     lastTokens: 0..TokenBudget]

CountsTypeOK == counts \in CountRecords

SteersTypeOK == steers \in [accepted: Nat, logged: Nat, rendered: Nat]

ToolTypeOK ==
    /\ calls \in Responses \union {<<>>} /\ answers \in [DOMAIN calls -> 0..1]
    /\ plan \in Seq(Seq(DOMAIN calls)) /\ executing \in BOOLEAN

(* The state of a turn is what the code can hold: no call is answered       *)
(* twice, no counter passes its limit, no batch names a call that was not   *)
(* asked for.                                                               *)
TypeOK == TurnTypeOK /\ SoftTypeOK /\ CountsTypeOK /\ SteersTypeOK /\ ToolTypeOK

(* After the tools, before the next request, every call of the last answer  *)
(* has exactly one tool message: whether its arguments parsed, in whatever  *)
(* batch it ran, whoever threw in it (the tool protocol of toolScheduler).  *)
AnsweredOnce ==
    phase \in {"check_abort", "budget_check", "module_iteration"} =>
        \A i \in DOMAIN calls : answers[i] = 1

(* No two calls that run together claim the same resource in conflicting    *)
(* ways, whatever the order the model asked for them in                     *)
(* (partitionToolCalls).                                                    *)
BatchesCompatible ==
    \A b \in DOMAIN plan : \A i, j \in DOMAIN plan[b] :
        i # j => \A c \in calls[plan[b][i]].claims, d \in calls[plan[b][j]].claims :
                    c.key = d.key => c.access = "read" /\ d.access = "read"

(* A turn makes a bounded number of requests: every one but the first of an *)
(* iteration uses up one of the retries, one of the continuations, one look *)
(* at an exploration (each iteration may earn a new series) or budget.      *)
RequestBound ==
    MaxIterations * (MaxNoProgress + 2)
    + MaxEmptyRetries + MaxLengthRetries + MaxContinuations
    + IF TokenBudget = 0 THEN 0 ELSE Diminishing + 2 * (TokenBudget - 1)

RequestsBounded == requests <= RequestBound

(* An instruction that steer accepted is in the control log or has gone     *)
(* into a request: one sent while a request is under way is not cleared     *)
(* with the log of that request.                                            *)
SteersKept == steers.accepted = steers.logged + steers.rendered

(* Once a soft abort of the running turn is pending, at most one more batch *)
(* of tools begins (the one an answer already under way asks for).          *)
OneBatchAfterSoft == batchesAfterSoft <= 1

(* Every turn ends, with or without an abort: the retries and continuations *)
(* run out, and an abort finds its way out of every phase.                  *)
TurnEnds == phase # "idle" ~> phase = "idle"

-----------------------------------------------------------------------------
(* Statements of documents and tests that the code does not keep; the      *)
(* README tells how each one fails                                         *)

(* "Tool-protocol invariant regression: EVERY tool call must produce a tool *)
(* message" (tests/toolProtocolNoDroppedSiblings.test.ts:2): a turn that is *)
(* interrupted in its tools hands on no call without a tool message.        *)
InterruptedCallsAnswered ==
    [][phase = "tool_execution" /\ phase' = "postlude" /\ reason' = "interrupted"
           => \A i \in DOMAIN calls' : answers'[i] = 1]_vars

(* "abort() and softAbort() are safe no-ops when the engine is idle"        *)
(* (tests/engineAbort.test.ts:214): what a user did when no turn was in     *)
(* flight does not stop the turn started afterwards.                        *)
IdleSoftAbortIsNoOp ==
    [][phase = "check_abort" /\ Claimable /\ phase' = "postlude" => ~ pressedIdle]_vars
==============================================================================
