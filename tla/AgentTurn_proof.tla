-------------------------- MODULE AgentTurn_proof --------------------------
(***************************************************************************)
(* Proofs about AgentTurn, for every limit and every set of responses:      *)
(* instructions are kept, at most one batch begins after a soft abort, a    *)
(* turn makes a bounded number of requests, the calls of an answer are      *)
(* divided into compatible batches, and each has exactly one tool message.  *)
(***************************************************************************)
EXTENDS AgentTurn, SequenceTheorems, WellFoundedInduction, TLAPS

LEMMA Constants ==
    /\ MaxTurns \in Nat /\ MaxIterations \in Nat /\ MaxEmptyRetries \in Nat
    /\ MaxLengthRetries \in Nat /\ MaxNoProgress \in Nat /\ MaxContinuations \in Nat
    /\ Diminishing \in Nat /\ TokenBudget \in Nat
BY TurnAssumption DEF TurnAssumption

(* Complete and its cases leave by CompleteWith. *)
LEMMA Completions ==
    /\ \A r : Complete(r) => \E drop \in BOOLEAN : CompleteWith(r, drop)
    /\ CompleteClaimed => CompleteWith("interrupted", TRUE)
    /\ Caught => Complete("interrupted") \/ Complete("error")
<1>1. \A r : Complete(r) => \E drop \in BOOLEAN : CompleteWith(r, drop)
  <2> SUFFICES ASSUME NEW r, Complete(r)
               PROVE  \E drop \in BOOLEAN : CompleteWith(r, drop)
    OBVIOUS
  <2> DEFINE own == softRequested /\ softOwner = turn
  <2>1. CompleteWith(r, own) /\ own \in BOOLEAN
    BY DEF Complete
  <2> QED BY <2>1
<1>2. CompleteClaimed => CompleteWith("interrupted", TRUE)
  BY DEF CompleteClaimed
<1>3. Caught => Complete("interrupted") \/ Complete("error")
  BY DEF Caught
<1> QED BY <1>1, <1>2, <1>3

-----------------------------------------------------------------------------
(* Instructions. *)

SteersInv == SteersTypeOK /\ SteersKept

LEMMA SteersInvariant == Spec => []SteersInv
<1>1. Init => SteersInv
  BY DEF Init, SteersInv, SteersTypeOK, SteersKept, NoSteers
<1>2. SteersInv /\ [Next]_vars => SteersInv'
  <2> SUFFICES ASSUME SteersInv, [Next]_vars PROVE SteersInv'
    OBVIOUS
  <2> USE DEF SteersInv, SteersTypeOK, SteersKept
  <2>1. CASE UNCHANGED steers
    BY <2>1
  <2>2. CASE SendRequest
    <3>1. steers.accepted \in Nat /\ steers.logged \in Nat /\ steers.rendered \in Nat
      OBVIOUS
    <3>2. steers' = [accepted |-> steers.accepted, logged |-> 0,
                     rendered |-> steers.rendered + steers.logged]
      BY <2>2 DEF SendRequest
    <3> HIDE DEF SteersTypeOK
    <3>3. steers'.accepted = steers'.logged + steers'.rendered
      BY <3>1, <3>2
    <3> QED BY <3>1, <3>2, <3>3 DEF SteersTypeOK
  <2>3. CASE RunIsOver
    BY <2>3 DEF RunIsOver, NoSteers
  <2>4. CASE Steer
    <3>1. steers.accepted \in Nat /\ steers.logged \in Nat /\ steers.rendered \in Nat
      OBVIOUS
    <3>2. steers' = [accepted |-> steers.accepted + 1, logged |-> steers.logged + 1,
                     rendered |-> steers.rendered]
      BY <2>4 DEF Steer
    <3> HIDE DEF SteersTypeOK
    <3>3. steers'.accepted = steers'.logged + steers'.rendered
      BY <3>1, <3>2
    <3> QED BY <3>1, <3>2, <3>3 DEF SteersTypeOK
  <2>5. UNCHANGED steers \/ SendRequest \/ RunIsOver \/ Steer
    <3>1. CASE UserStep \/ StreamTimesOut
      BY <3>1 DEF UserStep, StreamTimesOut, RunTurn, Abort, SoftAbort
    <3>2. CASE TurnStep
      <4>1. CASE Boot \/ EnterLoop \/ StartFails \/ Settle
        BY <4>1 DEF Boot, EnterLoop, StartFails, Settle
      <4>2. CASE CheckAbort \/ BudgetCheck \/ ModuleIteration \/ LlmThrows
        BY <4>2 DEF CheckAbort, BudgetCheck, ModuleIteration, LlmThrows
      <4>3. CASE LlmAnswers
        BY <4>3 DEF LlmAnswers
      <4>4. CASE ContinuationCheck
        BY <4>4 DEF ContinuationCheck
      <4>5. CASE ParseResponse \/ StartBatch \/ ToolStartThrows \/ ScheduleReturns
        BY <4>5 DEF ParseResponse, StartBatch, ToolStartThrows, ScheduleReturns
      <4>6. CASE BatchEnds
        BY <4>6 DEF BatchEnds, BatchSettles
      <4> QED BY <3>2, <4>1, <4>2, <4>3, <4>4, <4>5, <4>6 DEF TurnStep
    <3>3. CASE UNCHANGED vars
      BY <3>3 DEF vars
    <3> QED BY <3>1, <3>2, <3>3 DEF Next
  <2> QED BY <2>1, <2>2, <2>3, <2>4, <2>5
<1> QED BY <1>1, <1>2, PTL DEF Spec

(* Every accepted instruction is in the control log or in a request. *)
THEOREM SteersAreKept == Spec => []SteersKept
<1>1. SteersInv => SteersKept
  BY DEF SteersInv
<1> QED BY <1>1, SteersInvariant, PTL

-----------------------------------------------------------------------------
(* The turn's control state and the soft abort. *)

(* A batch that began after a soft abort is the one that is running, or the *)
(* soft abort is no longer there to be claimed; batches run only in         *)
(* tool_execution, and an iteration begins only within the limit.           *)
ControlInv ==
    /\ TurnTypeOK /\ SoftTypeOK /\ executing \in BOOLEAN
    /\ phase \in LoopPhases \ {"check_abort"} => iteration <= MaxIterations
    /\ executing => phase = "tool_execution"
    /\ batchesAfterSoft <= 1
    /\ batchesAfterSoft = 1 /\ Claimable => executing

(* The completion of a turn, when no batch runs or the request is claimed.  *)
LEMMA CompletionKeepsControlInv ==
    ASSUME ControlInv, phase # "idle",
           NEW r \in {"interrupted", "max_iterations", "stop_sequence", "error"},
           NEW drop \in BOOLEAN, CompleteWith(r, drop),
           requests' = requests, executing' = FALSE, ~ executing \/ drop
    PROVE  ControlInv'
<1> USE DEF ControlInv, CompleteWith
<1>1. TurnTypeOK'
  BY DEF TurnTypeOK, Phases, LoopPhases
<1>2. SoftTypeOK'
  BY DEF SoftTypeOK, TurnTypeOK
<1>3. batchesAfterSoft' <= 1 /\ executing' \in BOOLEAN
  OBVIOUS
<1>4. ~ (batchesAfterSoft' = 1 /\ Claimable')
  <2>1. CASE drop
    BY <2>1 DEF Claimable
  <2>2. CASE ~ drop
    BY <2>2 DEF Claimable, SoftTypeOK
  <2> QED BY <2>1, <2>2
<1>5. phase' = "postlude"
  OBVIOUS
<1> QED BY <1>1, <1>2, <1>3, <1>4, <1>5 DEF LoopPhases

(* The end of run(). *)
LEMMA RunIsOverKeepsControlInv ==
    ASSUME ControlInv, ~ executing, RunIsOver,
           reason' \in {reason, "failed"}
    PROVE  ControlInv'
<1>1. /\ phase' = "idle" /\ iteration' = 0 /\ aborted' = "no" /\ requests' = 0
      /\ executing' = FALSE
      /\ turn' = turn /\ controller' = controller
      /\ UNCHANGED <<softRequested, softOwner, pressedIdle, batchesAfterSoft>>
  BY DEF RunIsOver, softVars
<1>2. TurnTypeOK'
  <2>1. iteration' \in 0..(MaxIterations + 1) /\ requests' \in Nat
    BY <1>1, Constants
  <2>2. reason' \in {"none", "interrupted", "max_iterations", "stop_sequence", "error",
                     "failed"}
    BY DEF ControlInv, TurnTypeOK
  <2> QED BY <1>1, <2>1, <2>2 DEF ControlInv, TurnTypeOK, Phases
<1>3. SoftTypeOK'
  BY <1>1 DEF ControlInv, SoftTypeOK
<1>4. ~ (batchesAfterSoft' = 1 /\ Claimable')
  BY <1>1 DEF ControlInv, Claimable
<1>5. batchesAfterSoft' <= 1
  BY <1>1 DEF ControlInv
<1> QED BY <1>1, <1>2, <1>3, <1>4, <1>5 DEF ControlInv, LoopPhases

(* A request. *)
LEMMA RequestKeepsControlInv ==
    ASSUME ControlInv, ~ executing, SendRequest,
           phase \in LoopPhases \ {"check_abort"}, executing' = executing,
           UNCHANGED <<turn, iteration, controller, aborted, reason, softVars>>
    PROVE  ControlInv'
BY DEF ControlInv, SendRequest, TurnTypeOK, SoftTypeOK, Phases, LoopPhases, Claimable, softVars

LEMMA ControlInvariant == Spec => []ControlInv
<1>1. Init => ControlInv
  <2> SUFFICES ASSUME Init PROVE ControlInv
    OBVIOUS
  <2>1. /\ phase = "idle" /\ turn = 0 /\ iteration = 0 /\ reason = "none"
        /\ controller = 0 /\ aborted = "no" /\ softOwner = 0 /\ batchesAfterSoft = 0
        /\ requests = 0
    BY DEF Init
  <2>2. TurnTypeOK
    BY <2>1, Constants DEF TurnTypeOK, Phases
  <2>3. softOwner \in 0..turn /\ batchesAfterSoft \in Nat /\ batchesAfterSoft <= 1
        /\ batchesAfterSoft # 1
    BY <2>1
  <2>4. softRequested \in BOOLEAN /\ pressedIdle \in BOOLEAN /\ executing \in BOOLEAN
        /\ ~ executing
    BY DEF Init
  <2>5. phase \notin LoopPhases
    BY <2>1 DEF LoopPhases
  <2> HIDE DEF Init
  <2> QED BY <2>2, <2>3, <2>4, <2>5 DEF ControlInv, SoftTypeOK
<1>2. ControlInv /\ [Next]_vars => ControlInv'
  <2> SUFFICES ASSUME ControlInv, [Next]_vars PROVE ControlInv'
    OBVIOUS
  <2> USE DEF ControlInv, TurnTypeOK, SoftTypeOK, Phases, LoopPhases, Claimable
  <2>1. CASE UNCHANGED vars
    BY <2>1 DEF vars, turnVars, softVars, toolVars
  <2>2. CASE RunTurn
    BY <2>2, Constants DEF RunTurn, softVars
  <2>3. CASE Abort \/ StreamTimesOut
    BY <2>3 DEF Abort, StreamTimesOut, softVars, toolVars
  <2>4. CASE SoftAbort
    BY <2>4 DEF SoftAbort, turnVars, toolVars
  <2>5. CASE Steer
    BY <2>5 DEF Steer, turnVars, softVars, toolVars
  <2>6. CASE Boot \/ EnterLoop
    BY <2>6, Constants DEF Boot, EnterLoop, softVars, toolVars
  <2>7. CASE StartFails \/ Settle
    BY <2>7, RunIsOverKeepsControlInv DEF StartFails, Settle
  <2>8. CASE CheckAbort
    <3>1. CASE CompleteClaimed \/ Complete("interrupted") \/ Complete("max_iterations")
      BY <3>1, <2>8, Completions, CompletionKeepsControlInv DEF CheckAbort, toolVars
    <3>2. CASE /\ iteration <= MaxIterations /\ phase' = "budget_check"
               /\ UNCHANGED <<turn, iteration, controller, aborted, reason, softVars>>
      BY <3>2, <2>8 DEF CheckAbort, toolVars, softVars
    <3> QED BY <2>8, <3>1, <3>2 DEF CheckAbort
  <2>9. CASE BudgetCheck
    <3>1. CASE Caught
      BY <3>1, <2>9, Completions, CompletionKeepsControlInv DEF BudgetCheck, toolVars
    <3>2. CASE /\ phase' = "module_iteration"
               /\ UNCHANGED <<turn, iteration, controller, aborted, reason, softVars>>
      BY <3>2, <2>9 DEF BudgetCheck, toolVars, softVars
    <3> QED BY <2>9, <3>1, <3>2 DEF BudgetCheck
  <2>10. CASE ModuleIteration
    <3>1. CASE Caught /\ UNCHANGED requests
      BY <3>1, <2>10, Completions, CompletionKeepsControlInv DEF ModuleIteration, toolVars
    <3>2. CASE /\ SendRequest
               /\ UNCHANGED <<turn, iteration, controller, aborted, reason, softVars>>
      BY <3>2, <2>10, RequestKeepsControlInv DEF ModuleIteration, toolVars
    <3> QED BY <2>10, <3>1, <3>2 DEF ModuleIteration
  <2>11. CASE LlmAnswers
    <3>1. UNCHANGED <<turn, iteration, controller, aborted, reason, softVars, executing>>
      BY <2>11 DEF LlmAnswers
    <3>2. \/ SendRequest
          \/ phase' \in {"continuation_check", "parse_response"} /\ UNCHANGED requests
      BY <2>11 DEF LlmAnswers
    <3>3. ~ executing
      BY <2>11 DEF LlmAnswers
    <3>4. CASE SendRequest
      BY <3>1, <3>3, <3>4, <2>11, RequestKeepsControlInv DEF LlmAnswers
    <3>5. CASE phase' \in {"continuation_check", "parse_response"} /\ UNCHANGED requests
      BY <3>1, <3>3, <3>5, <2>11 DEF LlmAnswers, softVars
    <3> QED BY <3>2, <3>4, <3>5
  <2>12. CASE LlmThrows
    BY <2>12, Completions, CompletionKeepsControlInv DEF LlmThrows, toolVars
  <2>13. CASE ContinuationCheck
    <3>1. CASE Complete("stop_sequence") /\ UNCHANGED requests
      BY <3>1, <2>13, Completions, CompletionKeepsControlInv DEF ContinuationCheck, toolVars
    <3>2. CASE SendRequest /\ UNCHANGED <<controller, reason, softVars>>
      BY <3>2, <2>13, RequestKeepsControlInv DEF ContinuationCheck, toolVars
    <3> QED BY <2>13, <3>1, <3>2 DEF ContinuationCheck
  <2>14. CASE ParseResponse
    BY <2>14 DEF ParseResponse, softVars
  <2>15. CASE StartBatch
    BY <2>15 DEF StartBatch, turnVars
  <2>16. CASE ToolStartThrows
    BY <2>16, Completions, CompletionKeepsControlInv DEF ToolStartThrows, toolVars
  <2>17. CASE BatchEnds
    <3>1. CASE CompleteClaimed
      BY <3>1, <2>17, Completions, CompletionKeepsControlInv DEF BatchEnds, BatchSettles
    <3>2. CASE ~ Claimable /\ UNCHANGED <<turnVars, softVars>>
      BY <3>2, <2>17 DEF BatchEnds, BatchSettles, turnVars, softVars
    <3> QED BY <2>17, <3>1, <3>2 DEF BatchEnds
  <2>18. CASE ScheduleReturns
    <3>1. CASE Complete("interrupted")
      BY <3>1, <2>18, Completions, CompletionKeepsControlInv DEF ScheduleReturns, toolVars
    <3>2. CASE /\ phase' = "check_abort" /\ iteration' = iteration + 1
               /\ UNCHANGED <<turn, controller, aborted, reason, softVars>>
      BY <3>2, <2>18, Constants DEF ScheduleReturns, toolVars, softVars
    <3> QED BY <2>18, <3>1, <3>2 DEF ScheduleReturns
  <2> QED BY <2>1, <2>2, <2>3, <2>4, <2>5, <2>6, <2>7, <2>8, <2>9, <2>10, <2>11, <2>12,
             <2>13, <2>14, <2>15, <2>16, <2>17, <2>18 DEF Next, TurnStep, UserStep
<1> QED BY <1>1, <1>2, PTL DEF Spec

(* After a soft abort at most one more batch of tools begins. *)
THEOREM OneBatch == Spec => []OneBatchAfterSoft
<1>1. ControlInv => OneBatchAfterSoft
  BY DEF ControlInv, OneBatchAfterSoft
<1> QED BY <1>1, ControlInvariant, PTL

-----------------------------------------------------------------------------
(* The number of requests.  What is left to a turn is counted in fuel, of   *)
(* which every request uses up at least one unit.                           *)

(* The last look of checkTokenBudget is in the past, and left budget.       *)
Consistent(c) ==
    c.lastTokens <= c.tokens /\ (TokenBudget = 0 \/ c.lastTokens < TokenBudget)

BudgetFuel(c) ==
    IF TokenBudget = 0 THEN 0
    ELSE (Diminishing - c.budget) + 2 * ((TokenBudget - 1) - c.lastTokens)
         + IF c.lastDelta > 0 THEN 1 ELSE 0

(* What no iteration gives back. *)
Fuel(c) ==
    (MaxEmptyRetries - c.empty) + (MaxLengthRetries - c.length)
    + (MaxContinuations - c.completion) + BudgetFuel(c)

(* The looks at an exploration that are left in an iteration. *)
ExploreFuel(c) ==
    IF c.read THEN MaxNoProgress + 1
    ELSE IF c.noProgress <= MaxNoProgress THEN MaxNoProgress - c.noProgress ELSE 0

(* d has all that c has, and k units of fuel less. *)
Burnt(c, d, k) ==
    /\ d \in CountRecords /\ Consistent(d)
    /\ Fuel(d) + k <= Fuel(c) /\ ExploreFuel(d) <= ExploreFuel(c)

LEMMA FuelNat ==
    ASSUME NEW c \in CountRecords, Consistent(c)
    PROVE  Fuel(c) \in Nat /\ ExploreFuel(c) \in Nat /\ ExploreFuel(c) <= MaxNoProgress + 1
BY Constants DEF CountRecords, Consistent, Fuel, BudgetFuel, ExploreFuel

LEMMA TokensBurnNothing ==
    ASSUME NEW c \in CountRecords, Consistent(c), NEW t \in {c.tokens, c.tokens + 1},
           t <= TokenBudget
    PROVE  Burnt(c, [c EXCEPT !.tokens = t], 0)
BY Constants DEF CountRecords, Consistent, Burnt, Fuel, BudgetFuel, ExploreFuel

LEMMA EmptyBurns ==
    ASSUME NEW c \in CountRecords, Consistent(c), c.empty < MaxEmptyRetries
    PROVE  Burnt(c, [c EXCEPT !.empty = @ + 1], 1)
BY Constants DEF CountRecords, Consistent, Burnt, Fuel, BudgetFuel, ExploreFuel

LEMMA LengthBurns ==
    ASSUME NEW c \in CountRecords, Consistent(c), c.length < MaxLengthRetries
    PROVE  Burnt(c, [c EXCEPT !.length = @ + 1], 1)
BY Constants DEF CountRecords, Consistent, Burnt, Fuel, BudgetFuel, ExploreFuel

LEMMA CompletionBurns ==
    ASSUME NEW c \in CountRecords, Consistent(c), c.completion < MaxContinuations
    PROVE  Burnt(c, [c EXCEPT !.completion = @ + 1], 1)
BY Constants DEF CountRecords, Consistent, Burnt, Fuel, BudgetFuel, ExploreFuel

(* Tokens since the last continuation pay for two; without any, either a    *)
(* free continuation is used up or the last one had tokens.                 *)
LEMMA BudgetBurns ==
    ASSUME NEW c \in CountRecords, Consistent(c), BudgetContinues(c)
    PROVE  Burnt(c, BudgetContinued(c), 1)
<1> DEFINE d == BudgetContinued(c)
           delta == c.tokens - c.lastTokens
<1>1. /\ d.empty = c.empty /\ d.length = c.length /\ d.completion = c.completion
      /\ d.noProgress = c.noProgress /\ d.read = c.read /\ d.tokens = c.tokens
      /\ d.budget = IF c.budget < Diminishing THEN c.budget + 1 ELSE c.budget
      /\ d.lastDelta = delta /\ d.lastTokens = c.tokens
  BY DEF BudgetContinued, CountRecords
<1>2. /\ c.tokens \in Nat /\ c.lastTokens \in Nat /\ c.budget \in 0..Diminishing
      /\ c.lastDelta \in Nat /\ c.lastTokens <= c.tokens /\ c.tokens < TokenBudget
      /\ ~ (c.budget >= Diminishing /\ c.tokens = c.lastTokens /\ c.lastDelta = 0)
  BY Constants DEF CountRecords, Consistent, BudgetContinues
<1>3. d \in CountRecords
  <2>1. /\ (IF c.budget < Diminishing THEN c.budget + 1 ELSE c.budget) \in 0..Diminishing
        /\ delta \in 0..TokenBudget /\ c.tokens \in 0..TokenBudget
    BY <1>2, Constants
  <2> QED BY <2>1 DEF BudgetContinued, CountRecords
<1>4. Consistent(d) /\ ExploreFuel(d) <= ExploreFuel(c)
  BY <1>1, <1>2, FuelNat DEF Consistent, ExploreFuel
<1>5. BudgetFuel(d) + 1 <= BudgetFuel(c)
  BY <1>1, <1>2, Constants DEF BudgetFuel
<1>6. Fuel(d) + 1 <= Fuel(c)
  <2>1. BudgetFuel(c) \in Int /\ BudgetFuel(d) \in Int
    BY <1>1, <1>2, Constants DEF BudgetFuel
  <2> HIDE DEF d
  <2> QED BY <1>1, <1>5, <2>1, Constants DEF Fuel, CountRecords
<1> QED BY <1>3, <1>4, <1>6 DEF Burnt

LEMMA ExplorationBurns ==
    ASSUME NEW c \in CountRecords, Consistent(c)
    PROVE  /\ Burnt(c, ExplorationLooked(c), 0)
           /\ ExplorationLooked(c).noProgress <= MaxNoProgress =>
                 ExploreFuel(ExplorationLooked(c)) + 1 <= ExploreFuel(c)
<1> DEFINE d == ExplorationLooked(c)
<1>1. /\ d.empty = c.empty /\ d.length = c.length /\ d.completion = c.completion
      /\ d.tokens = c.tokens /\ d.budget = c.budget /\ d.lastDelta = c.lastDelta
      /\ d.lastTokens = c.lastTokens
  BY DEF ExplorationLooked, CountRecords
<1>2. /\ d.read = FALSE
      /\ d.noProgress = IF c.read THEN 0 ELSE IF c.noProgress > MaxNoProgress
                        THEN c.noProgress ELSE c.noProgress + 1
  BY DEF ExplorationLooked, CountRecords
<1>3. c.noProgress \in 0..(MaxNoProgress + 1)
  BY DEF CountRecords
<1>4. d.noProgress \in 0..(MaxNoProgress + 1)
  BY <1>2, <1>3, Constants
<1>5. d \in CountRecords
  BY <1>4, Constants DEF CountRecords, ExplorationLooked
<1> HIDE DEF d
<1>6. Consistent(d) /\ Fuel(d) <= Fuel(c)
  BY <1>1, FuelNat DEF Consistent, Fuel, BudgetFuel
<1>7. /\ ExploreFuel(d) <= ExploreFuel(c)
      /\ d.noProgress <= MaxNoProgress => ExploreFuel(d) + 1 <= ExploreFuel(c)
  <2>1. ExploreFuel(d) = IF d.noProgress <= MaxNoProgress
                         THEN MaxNoProgress - d.noProgress ELSE 0
    BY <1>2 DEF ExploreFuel
  <2>2. CASE c.read
    BY <1>2, <2>1, <2>2, Constants DEF ExploreFuel
  <2>3. CASE ~ c.read
    BY <1>2, <1>3, <2>1, <2>3, Constants DEF ExploreFuel
  <2> QED BY <2>2, <2>3
<1>8. Fuel(d) \in Nat /\ Fuel(c) \in Nat
  BY <1>5, <1>6, FuelNat
<1> QED BY <1>5, <1>6, <1>7, <1>8 DEF Burnt, d

(* The requests that k iterations may add to it. *)
Left(k) == k * (MaxNoProgress + 2)

LEMMA LeftFacts ==
    \A k \in Nat : Left(k) \in Nat /\ Left(k + 1) = Left(k) + (MaxNoProgress + 2)
BY Constants DEF Left

LEMMA FreshFuel ==
    ASSUME NEW read \in BOOLEAN
    PROVE  /\ FreshCounts(read) \in CountRecords /\ Consistent(FreshCounts(read))
           /\ Left(MaxIterations) + Fuel(FreshCounts(read)) <= RequestBound
<1> DEFINE c == FreshCounts(read)
<1>1. c \in CountRecords
  BY Constants DEF FreshCounts, CountRecords
<1>2. /\ c.empty = 0 /\ c.length = 0 /\ c.completion = 0 /\ c.budget = 0
      /\ c.tokens = 0 /\ c.lastDelta = 0 /\ c.lastTokens = 0
  BY DEF FreshCounts
<1> HIDE DEF c
<1>3. Consistent(c)
  BY <1>2, Constants DEF Consistent
<1>4. BudgetFuel(c) = IF TokenBudget = 0 THEN 0 ELSE Diminishing + 2 * (TokenBudget - 1)
  BY <1>2, Constants DEF BudgetFuel
<1>5. Left(MaxIterations) \in Nat
  BY LeftFacts, Constants
<1>6. RequestBound = Left(MaxIterations) + MaxEmptyRetries + MaxLengthRetries
                     + MaxContinuations + BudgetFuel(c)
  BY <1>4 DEF RequestBound, Left
<1>7. BudgetFuel(c) \in Int
  BY <1>4, Constants
<1>8. Left(MaxIterations) + Fuel(c) <= RequestBound
  BY <1>2, <1>5, <1>6, <1>7, Constants DEF Fuel
<1> QED BY <1>1, <1>3, <1>8 DEF c

(* The fuel left and the requests made stay within the bound: before the    *)
(* request of an iteration with that iteration's share, after it with the   *)
(* looks it still has, in the tools without them.                           *)
BeforeRequest == {"check_abort", "budget_check", "module_iteration"}
AfterRequest == {"llm_call", "llm_refused", "continuation_check"}
InTools == {"parse_response", "tool_execution"}

Later == MaxIterations - iteration

FuelInv ==
    /\ counts \in CountRecords /\ Consistent(counts) /\ requests <= RequestBound
    /\ phase \in LoopPhases => iteration >= 1
    /\ phase \in {"idle", "boot", "routing"} =>
          requests = 0 /\ Left(MaxIterations) + Fuel(counts) <= RequestBound
    /\ phase \in BeforeRequest =>
          requests + Left(Later + 1) + Fuel(counts) <= RequestBound
    /\ phase \in AfterRequest =>
          requests + Left(Later) + ExploreFuel(counts) + Fuel(counts) <= RequestBound
    /\ phase \in InTools =>
          requests + Left(Later) + Fuel(counts) <= RequestBound

(* The turn's run() comes to its end. *)
LEMMA RunIsOverKeepsFuel ==
    ASSUME FuelInv, RunIsOver PROVE FuelInv'
<1>1. /\ phase' = "idle" /\ requests' = 0 /\ counts' = FreshCounts(FALSE)
  BY DEF RunIsOver
<1>2. /\ counts' \in CountRecords /\ Consistent(counts')
      /\ Left(MaxIterations) + Fuel(counts') <= RequestBound
  BY <1>1, FreshFuel
<1>3. Left(MaxIterations) \in Nat /\ Fuel(counts') \in Nat
  BY <1>2, LeftFacts, FuelNat, Constants
<1>4. RequestBound \in Int
  BY Constants DEF RequestBound
<1>5. 0 <= RequestBound
  BY <1>2, <1>3, <1>4
<1> QED BY <1>1, <1>2, <1>5
        DEF FuelInv, LoopPhases, BeforeRequest, AfterRequest, InTools

LEMMA CompletionKeepsFuel ==
    ASSUME FuelInv, NEW r, Complete(r) \/ CompleteClaimed, requests' = requests,
           counts' \in CountRecords, Consistent(counts')
    PROVE  FuelInv'
<1>1. phase' = "postlude"
  BY DEF Complete, CompleteClaimed, CompleteWith
<1> QED BY <1>1 DEF FuelInv, LoopPhases, BeforeRequest, AfterRequest, InTools

(* A request after the first of an iteration needs a unit of fuel. *)
LEMMA RetryKeepsFuel ==
    ASSUME ControlInv, FuelInv, phase \in AfterRequest, SendRequest, iteration' = iteration,
           counts' \in CountRecords, Consistent(counts'),
           Fuel(counts') + ExploreFuel(counts') + 1 <= Fuel(counts) + ExploreFuel(counts)
    PROVE  FuelInv'
<1>1. iteration \in Nat /\ iteration >= 1 /\ Later \in Nat /\ requests \in Nat
  BY Constants DEF ControlInv, TurnTypeOK, FuelInv, AfterRequest, LoopPhases, Later
<1>2. Left(Later) \in Nat
  BY <1>1, LeftFacts
<1>3. /\ Fuel(counts) \in Nat /\ ExploreFuel(counts) \in Nat
      /\ Fuel(counts') \in Nat /\ ExploreFuel(counts') \in Nat
  BY FuelNat DEF FuelInv
<1>4. requests' = requests + 1 /\ phase' \in {"llm_call", "llm_refused"}
  BY DEF SendRequest
<1>5. RequestBound \in Int
  BY Constants DEF RequestBound
<1>6. requests + Left(Later) + ExploreFuel(counts) + Fuel(counts) <= RequestBound
  BY DEF FuelInv
<1>7. requests' + Left(Later) + ExploreFuel(counts') + Fuel(counts') <= RequestBound
  BY <1>1, <1>2, <1>3, <1>4, <1>5, <1>6
<1>8. requests' <= RequestBound
  BY <1>1, <1>2, <1>3, <1>4, <1>5, <1>7
<1>9. Later' = Later
  BY DEF Later
<1> QED BY <1>1, <1>4, <1>7, <1>8, <1>9
        DEF FuelInv, LoopPhases, BeforeRequest, AfterRequest, InTools

(* The first request of an iteration takes the iteration's share. *)
LEMMA FirstRequestKeepsFuel ==
    ASSUME ControlInv, FuelInv, phase = "module_iteration", SendRequest,
           iteration' = iteration, counts' = counts
    PROVE  FuelInv'
<1>1. iteration >= 1 /\ Later \in Nat /\ requests \in Nat
  BY Constants DEF ControlInv, TurnTypeOK, FuelInv, LoopPhases, Later
<1>2. Left(Later) \in Nat /\ Left(Later + 1) = Left(Later) + (MaxNoProgress + 2)
  BY <1>1, LeftFacts
<1>3. /\ Fuel(counts) \in Nat /\ ExploreFuel(counts) \in Nat
      /\ ExploreFuel(counts) <= MaxNoProgress + 1
  BY FuelNat DEF FuelInv
<1>4. requests' = requests + 1 /\ phase' \in {"llm_call", "llm_refused"}
  BY DEF SendRequest
<1>5. RequestBound \in Int
  BY Constants DEF RequestBound
<1>6. requests + Left(Later + 1) + Fuel(counts) <= RequestBound
  BY DEF FuelInv, BeforeRequest
<1>7. requests' + Left(Later) + ExploreFuel(counts) + Fuel(counts) <= RequestBound
  BY <1>1, <1>2, <1>3, <1>4, <1>5, <1>6, Constants
<1>8. requests' <= RequestBound
  BY <1>1, <1>2, <1>3, <1>4, <1>5, <1>7
<1>9. Later' = Later
  BY DEF Later
<1> QED BY <1>1, <1>4, <1>7, <1>8, <1>9
        DEF FuelInv, LoopPhases, BeforeRequest, AfterRequest, InTools

(* A change of phase that neither requests nor spends. *)
LEMMA MoveKeepsFuel ==
    ASSUME FuelInv, requests' = requests, counts' = counts, iteration' = iteration,
           \/ phase' = phase
           \/ phase = "boot" /\ phase' = "routing"
           \/ phase \in BeforeRequest /\ phase' \in BeforeRequest
           \/ phase \in InTools /\ phase' \in InTools
    PROVE  FuelInv'
BY DEF FuelInv, LoopPhases, BeforeRequest, AfterRequest, InTools, Later

LEMMA LlmAnswersKeepsFuel ==
    ASSUME ControlInv, FuelInv, LlmAnswers PROVE FuelInv'
<1> PICK text \in BOOLEAN, newTokens \in BOOLEAN, finish \in {"stop", "length", "other"},
         cs \in Responses :
       LET spent == [counts EXCEPT !.tokens =
               IF newTokens /\ @ < TokenBudget THEN @ + 1 ELSE @]
       IN \/ /\ EmptyRetry(text, cs)
             /\ counts' = [spent EXCEPT !.empty = @ + 1]
             /\ SendRequest
          \/ /\ ~ EmptyRetry(text, cs) /\ LengthRetry(finish, cs)
             /\ counts' = [spent EXCEPT !.length = @ + 1]
             /\ SendRequest
          \/ /\ ~ EmptyRetry(text, cs) /\ ~ LengthRetry(finish, cs)
             /\ counts' = spent
             /\ phase' = IF finish = "stop" \/ cs = <<>>
                         THEN "continuation_check" ELSE "parse_response"
             /\ UNCHANGED <<requests, steers>>
  BY ZenonT(60) DEF LlmAnswers
<1> DEFINE t == IF newTokens /\ counts.tokens < TokenBudget THEN counts.tokens + 1
                ELSE counts.tokens
           spent == [counts EXCEPT !.tokens = t]
<1>1. phase = "llm_call" /\ iteration' = iteration
  BY DEF LlmAnswers
<1>2. counts \in CountRecords /\ Consistent(counts)
  BY DEF FuelInv
<1>3. Burnt(counts, spent, 0)
  <2>1. t \in {counts.tokens, counts.tokens + 1} /\ t <= TokenBudget
    BY <1>2, Constants DEF CountRecords
  <2> QED BY <1>2, <2>1, TokensBurnNothing
<1>4. spent.empty = counts.empty /\ spent.length = counts.length
  BY <1>2 DEF CountRecords
<1>5. /\ spent \in CountRecords /\ Consistent(spent)
      /\ Fuel(spent) \in Nat /\ ExploreFuel(spent) \in Nat
      /\ Fuel(counts) \in Nat /\ ExploreFuel(counts) \in Nat
      /\ Fuel(spent) <= Fuel(counts) /\ ExploreFuel(spent) <= ExploreFuel(counts)
  BY <1>2, <1>3, FuelNat DEF Burnt
<1>6. \/ EmptyRetry(text, cs) /\ counts' = [spent EXCEPT !.empty = @ + 1] /\ SendRequest
      \/ LengthRetry(finish, cs) /\ counts' = [spent EXCEPT !.length = @ + 1] /\ SendRequest
      \/ /\ counts' = spent /\ requests' = requests
         /\ phase' \in {"continuation_check", "parse_response"}
  OBVIOUS
<1> HIDE DEF spent
<1>7. ASSUME Burnt(spent, counts', 1), SendRequest PROVE FuelInv'
  <2>1. /\ counts' \in CountRecords /\ Consistent(counts')
        /\ Fuel(counts') + 1 <= Fuel(spent) /\ ExploreFuel(counts') <= ExploreFuel(spent)
    BY <1>7 DEF Burnt
  <2>2. Fuel(counts') \in Nat /\ ExploreFuel(counts') \in Nat
    BY <2>1, FuelNat
  <2>3. Fuel(counts') + ExploreFuel(counts') + 1 <= Fuel(counts) + ExploreFuel(counts)
    BY <1>5, <2>1, <2>2
  <2>4. phase \in AfterRequest
    BY <1>1 DEF AfterRequest
  <2> QED BY <1>1, <1>7, <2>1, <2>3, <2>4, RetryKeepsFuel
<1>8. CASE EmptyRetry(text, cs) /\ counts' = [spent EXCEPT !.empty = @ + 1] /\ SendRequest
  <2>1. spent.empty < MaxEmptyRetries
    BY <1>4, <1>8 DEF EmptyRetry
  <2> QED BY <1>5, <1>7, <1>8, <2>1, EmptyBurns
<1>9. CASE LengthRetry(finish, cs) /\ counts' = [spent EXCEPT !.length = @ + 1] /\ SendRequest
  <2>1. spent.length < MaxLengthRetries
    BY <1>4, <1>9 DEF LengthRetry
  <2> QED BY <1>5, <1>7, <1>9, <2>1, LengthBurns
<1>10. CASE /\ counts' = spent /\ requests' = requests
            /\ phase' \in {"continuation_check", "parse_response"}
  <2>1. iteration \in Nat /\ iteration >= 1 /\ Later \in Nat /\ requests \in Nat
    BY <1>1, Constants DEF ControlInv, TurnTypeOK, FuelInv, LoopPhases, Later
  <2>2. Left(Later) \in Nat
    BY <2>1, LeftFacts
  <2>3. requests + Left(Later) + ExploreFuel(counts) + Fuel(counts) <= RequestBound
    BY <1>1 DEF FuelInv, AfterRequest
  <2>4. RequestBound \in Int
    BY Constants DEF RequestBound
  <2>5. /\ requests + Left(Later) + ExploreFuel(spent) + Fuel(spent) <= RequestBound
        /\ requests + Left(Later) + Fuel(spent) <= RequestBound
    BY <1>5, <2>1, <2>2, <2>3, <2>4
  <2>6. Later' = Later
    BY <1>1 DEF Later
  <2>7. requests <= RequestBound
    BY DEF FuelInv
  <2> QED BY <1>1, <1>5, <1>10, <2>1, <2>5, <2>6, <2>7
          DEF FuelInv, LoopPhases, BeforeRequest, AfterRequest, InTools
<1> QED BY <1>6, <1>8, <1>9, <1>10

LEMMA ContinuationCheckKeepsFuel ==
    ASSUME ControlInv, FuelInv, ContinuationCheck PROVE FuelInv'
<1> PICK incomplete \in BOOLEAN, handoff \in BOOLEAN :
       LET c == IF incomplete THEN ExplorationLooked(counts) ELSE counts
           explores == incomplete /\ c.noProgress <= MaxNoProgress
           completes == ~ explores /\ handoff /\ c.completion < MaxContinuations
       IN \/ explores /\ counts' = c /\ SendRequest
             /\ UNCHANGED <<controller, reason, softVars>>
          \/ completes /\ counts' = [c EXCEPT !.completion = @ + 1] /\ SendRequest
             /\ UNCHANGED <<controller, reason, softVars>>
          \/ /\ ~ explores /\ ~ completes /\ BudgetContinues(c)
             /\ counts' = BudgetContinued(c) /\ SendRequest
             /\ UNCHANGED <<controller, reason, softVars>>
          \/ /\ ~ explores /\ ~ completes /\ ~ BudgetContinues(c)
             /\ counts' = c /\ Complete("stop_sequence")
             /\ UNCHANGED <<requests, steers>>
  BY DEF ContinuationCheck
<1> DEFINE c == IF incomplete THEN ExplorationLooked(counts) ELSE counts
<1>1. phase \in AfterRequest
  BY DEF ContinuationCheck, AfterRequest
<1>2. counts \in CountRecords /\ Consistent(counts)
  BY DEF FuelInv
<1>3. /\ Burnt(counts, c, 0)
      /\ incomplete /\ c.noProgress <= MaxNoProgress =>
            ExploreFuel(c) + 1 <= ExploreFuel(counts)
  <2>1. CASE incomplete
    BY <1>2, <2>1, ExplorationBurns
  <2>2. CASE ~ incomplete
    BY <1>2, <2>2, FuelNat DEF Burnt
  <2> QED BY <2>1, <2>2
<1>4. /\ c \in CountRecords /\ Consistent(c)
      /\ Fuel(c) \in Nat /\ ExploreFuel(c) \in Nat
      /\ Fuel(counts) \in Nat /\ ExploreFuel(counts) \in Nat
      /\ Fuel(c) <= Fuel(counts) /\ ExploreFuel(c) <= ExploreFuel(counts)
  BY <1>2, <1>3, FuelNat DEF Burnt
<1>5. \/ incomplete /\ c.noProgress <= MaxNoProgress /\ counts' = c /\ SendRequest
      \/ c.completion < MaxContinuations /\ counts' = [c EXCEPT !.completion = @ + 1]
         /\ SendRequest
      \/ BudgetContinues(c) /\ counts' = BudgetContinued(c) /\ SendRequest
      \/ counts' = c /\ Complete("stop_sequence") /\ requests' = requests
  OBVIOUS
<1> HIDE DEF c
<1>6. iteration' = iteration
  BY DEF ContinuationCheck
<1>7. ASSUME Burnt(c, counts', 1), SendRequest PROVE FuelInv'
  <2>1. /\ counts' \in CountRecords /\ Consistent(counts')
        /\ Fuel(counts') + 1 <= Fuel(c) /\ ExploreFuel(counts') <= ExploreFuel(c)
    BY <1>7 DEF Burnt
  <2>2. Fuel(counts') \in Nat /\ ExploreFuel(counts') \in Nat
    BY <2>1, FuelNat
  <2>3. Fuel(counts') + ExploreFuel(counts') + 1 <= Fuel(counts) + ExploreFuel(counts)
    BY <1>4, <2>1, <2>2
  <2> QED BY <1>1, <1>6, <1>7, <2>1, <2>3, RetryKeepsFuel
<1>8. CASE incomplete /\ c.noProgress <= MaxNoProgress /\ counts' = c /\ SendRequest
  <2>1. Fuel(counts') + ExploreFuel(counts') + 1 <= Fuel(counts) + ExploreFuel(counts)
    BY <1>3, <1>4, <1>8
  <2> QED BY <1>1, <1>4, <1>6, <1>8, <2>1, RetryKeepsFuel
<1>9. CASE c.completion < MaxContinuations /\ counts' = [c EXCEPT !.completion = @ + 1]
           /\ SendRequest
  BY <1>4, <1>7, <1>9, CompletionBurns
<1>10. CASE BudgetContinues(c) /\ counts' = BudgetContinued(c) /\ SendRequest
  BY <1>4, <1>7, <1>10, BudgetBurns
<1>11. CASE counts' = c /\ Complete("stop_sequence") /\ requests' = requests
  BY <1>4, <1>11, CompletionKeepsFuel
<1> QED BY <1>5, <1>8, <1>9, <1>10, <1>11

LEMMA BatchEndsKeepsFuel ==
    ASSUME ControlInv, FuelInv, BatchEnds PROVE FuelInv'
<1> PICK read \in BOOLEAN : counts' = [counts EXCEPT !.read = @ \/ read]
  BY DEF BatchEnds, BatchSettles
<1>1. counts \in CountRecords /\ Consistent(counts)
  BY DEF FuelInv
<1>2. counts' \in CountRecords
  BY <1>1 DEF CountRecords
<1>3. Consistent(counts') /\ Fuel(counts') = Fuel(counts)
  BY <1>1 DEF CountRecords, Consistent, Fuel, BudgetFuel
<1>4. requests' = requests /\ phase = "tool_execution"
  BY DEF BatchEnds, BatchSettles
<1>5. CASE CompleteClaimed
  BY <1>2, <1>3, <1>4, <1>5, CompletionKeepsFuel
<1>6. CASE UNCHANGED <<turnVars, softVars>>
  BY <1>2, <1>3, <1>4, <1>6
     DEF FuelInv, turnVars, LoopPhases, BeforeRequest, AfterRequest, InTools, Later
<1> QED BY <1>5, <1>6 DEF BatchEnds

LEMMA RunTurnKeepsFuel ==
    ASSUME FuelInv, RunTurn PROVE FuelInv'
<1> PICK read \in BOOLEAN : counts' = FreshCounts(read)
  BY DEF RunTurn
<1>1. phase = "idle" /\ phase' = "boot" /\ requests' = requests
  BY DEF RunTurn
<1> QED BY <1>1, FreshFuel
        DEF FuelInv, LoopPhases, BeforeRequest, AfterRequest, InTools

LEMMA EnterLoopKeepsFuel ==
    ASSUME FuelInv, EnterLoop PROVE FuelInv'
<1>1. /\ phase = "routing" /\ phase' = "check_abort" /\ iteration' = 1
      /\ requests' = requests /\ counts' = counts
  BY DEF EnterLoop
<1>2. Later' + 1 = MaxIterations
  BY <1>1, Constants DEF Later
<1>3. requests = 0 /\ Left(MaxIterations) + Fuel(counts) <= RequestBound
  BY <1>1 DEF FuelInv
<1>4. Left(MaxIterations) \in Nat /\ Fuel(counts) \in Nat
  BY LeftFacts, FuelNat, Constants DEF FuelInv
<1>5. requests' + Left(Later' + 1) + Fuel(counts') <= RequestBound
  BY <1>1, <1>2, <1>3, <1>4
<1> QED BY <1>1, <1>5
        DEF FuelInv, LoopPhases, BeforeRequest, AfterRequest, InTools

(* Every batch is through: the next iteration has its share still. *)
LEMMA ScheduleReturnsKeepsFuel ==
    ASSUME ControlInv, FuelInv, ScheduleReturns PROVE FuelInv'
<1>1. phase = "tool_execution" /\ requests' = requests /\ counts' = counts
  BY DEF ScheduleReturns
<1>2. CASE Complete("interrupted")
  BY <1>1, <1>2, CompletionKeepsFuel DEF FuelInv
<1>3. CASE phase' = "check_abort" /\ iteration' = iteration + 1
  <2>1. iteration \in Nat /\ iteration >= 1
    BY <1>1, Constants DEF ControlInv, TurnTypeOK, FuelInv, LoopPhases
  <2>2. Later' + 1 = Later
    BY <1>3, <2>1, Constants DEF Later
  <2> QED BY <1>1, <1>3, <2>1, <2>2
          DEF FuelInv, LoopPhases, BeforeRequest, AfterRequest, InTools
<1> QED BY <1>2, <1>3 DEF ScheduleReturns

LEMMA RequestsInvariant == Spec => []FuelInv
<1>1. Init => FuelInv
  <2> SUFFICES ASSUME Init PROVE FuelInv
    OBVIOUS
  <2>1. phase = "idle" /\ requests = 0 /\ counts = FreshCounts(FALSE)
    BY DEF Init
  <2>2. /\ counts \in CountRecords /\ Consistent(counts)
        /\ Left(MaxIterations) + Fuel(counts) <= RequestBound
    BY <2>1, FreshFuel
  <2>3. Left(MaxIterations) \in Nat /\ Fuel(counts) \in Nat /\ RequestBound \in Int
    BY <2>2, LeftFacts, FuelNat, Constants DEF RequestBound
  <2>4. 0 <= RequestBound
    BY <2>2, <2>3
  <2> QED BY <2>1, <2>2, <2>4
          DEF FuelInv, LoopPhases, BeforeRequest, AfterRequest, InTools
<1>2. ControlInv /\ FuelInv /\ [Next]_vars => FuelInv'
  <2> SUFFICES ASSUME ControlInv, FuelInv, [Next]_vars PROVE FuelInv'
    OBVIOUS
  <2>0. counts \in CountRecords /\ Consistent(counts)
    BY DEF FuelInv
  <2>1. CASE UNCHANGED vars
    BY <2>1, MoveKeepsFuel DEF vars, turnVars
  <2>2. CASE RunTurn
    BY <2>2, RunTurnKeepsFuel
  <2>3. CASE Abort \/ StreamTimesOut
    BY <2>3, MoveKeepsFuel DEF Abort, StreamTimesOut
  <2>4. CASE SoftAbort \/ Steer
    BY <2>4, MoveKeepsFuel DEF SoftAbort, Steer, turnVars
  <2>5. CASE Boot
    BY <2>5, MoveKeepsFuel DEF Boot
  <2>6. CASE EnterLoop
    BY <2>6, EnterLoopKeepsFuel
  <2>7. CASE StartFails \/ Settle
    BY <2>7, RunIsOverKeepsFuel DEF StartFails, Settle
  <2>8. CASE CheckAbort
    <3>1. CASE CompleteClaimed \/ Complete("interrupted") \/ Complete("max_iterations")
      BY <2>0, <2>8, <3>1, CompletionKeepsFuel DEF CheckAbort
    <3>2. CASE phase' = "budget_check" /\ UNCHANGED iteration
      BY <2>8, <3>2, MoveKeepsFuel DEF CheckAbort, BeforeRequest
    <3> QED BY <2>8, <3>1, <3>2 DEF CheckAbort
  <2>9. CASE BudgetCheck
    <3>1. CASE Caught
      BY <2>0, <2>9, <3>1, Completions, CompletionKeepsFuel DEF BudgetCheck
    <3>2. CASE phase' = "module_iteration" /\ UNCHANGED iteration
      BY <2>9, <3>2, MoveKeepsFuel DEF BudgetCheck, BeforeRequest
    <3> QED BY <2>9, <3>1, <3>2 DEF BudgetCheck
  <2>10. CASE ModuleIteration
    <3>1. CASE Caught /\ UNCHANGED requests
      BY <2>0, <2>10, <3>1, Completions, CompletionKeepsFuel DEF ModuleIteration
    <3>2. CASE SendRequest /\ UNCHANGED iteration
      BY <2>10, <3>2, FirstRequestKeepsFuel DEF ModuleIteration
    <3> QED BY <2>10, <3>1, <3>2 DEF ModuleIteration
  <2>11. CASE LlmAnswers
    BY <2>11, LlmAnswersKeepsFuel
  <2>12. CASE LlmThrows
    BY <2>0, <2>12, Completions, CompletionKeepsFuel DEF LlmThrows
  <2>13. CASE ContinuationCheck
    BY <2>13, ContinuationCheckKeepsFuel
  <2>14. CASE ParseResponse
    BY <2>14, MoveKeepsFuel DEF ParseResponse, InTools
  <2>15. CASE StartBatch
    BY <2>15, MoveKeepsFuel DEF StartBatch, turnVars
  <2>16. CASE ToolStartThrows
    BY <2>0, <2>16, Completions, CompletionKeepsFuel DEF ToolStartThrows
  <2>17. CASE BatchEnds
    BY <2>17, BatchEndsKeepsFuel
  <2>18. CASE ScheduleReturns
    BY <2>18, ScheduleReturnsKeepsFuel
  <2> QED BY <2>1, <2>2, <2>3, <2>4, <2>5, <2>6, <2>7, <2>8, <2>9, <2>10, <2>11, <2>12,
             <2>13, <2>14, <2>15, <2>16, <2>17, <2>18 DEF Next, TurnStep, UserStep
<1> QED BY <1>1, <1>2, ControlInvariant, PTL DEF Spec

(* A turn makes a bounded number of requests, whatever the model answers    *)
(* and whatever the user does.                                              *)
THEOREM RequestsAreBounded == Spec => []RequestsBounded
<1>1. FuelInv => RequestsBounded
  BY DEF FuelInv, RequestsBounded
<1> QED BY <1>1, RequestsInvariant, PTL

-----------------------------------------------------------------------------
(* The batches of an answer.  A fold has no proof rule here, so its          *)
(* recursive function is shown to exist and is followed number by number.   *)

(* Induction on the natural numbers, in the form of a least element.        *)
LEMMA Least ==
    ASSUME NEW T, T \subseteq Nat, T # {}
    PROVE  \E n \in T : \A m \in T : n <= m
<1>. DEFINE Below == {p \in Nat \X Nat : p[1] < p[2]}
<1>1. IsWellFoundedOn(Below, Nat)
  BY NatLessThanWellFounded DEF OpToRel
<1>2. \A m, n \in Nat : <<m, n>> \in Below <=> m < n
  OBVIOUS
<1>. HIDE DEF Below
<1>3. PICK n \in T : \A m \in T : ~(<<m, n>> \in Below)
  BY <1>1, WFMin
<1>4. ASSUME NEW m \in T PROVE n <= m
  <2>1. ~(m < n)
    BY <1>2, <1>3
  <2>. QED
    BY <2>1
<1>. QED
  BY <1>4

LEMMA Induction ==
    ASSUME NEW T, T \subseteq Nat, 0 \in T, \A n \in T : n + 1 \in T
    PROVE  T = Nat
<1>. SUFFICES ASSUME Nat \ T # {} PROVE FALSE
  OBVIOUS
<1>1. PICK n \in Nat \ T : \A m \in Nat \ T : n <= m
  BY Least
<1>2. n # 0 /\ n - 1 \in Nat /\ n - 1 \in T
  BY <1>1
<1>. QED
  BY <1>2

-----------------------------------------------------------------------------
(* The fold that makes the batches, one call at a time.                     *)

(* The largest of a set of numbers. *)
LEMMA MaxIs ==
    ASSUME NEW S, S \subseteq Nat, NEW m \in S, \A y \in S : m >= y
    PROVE  Max(S) = m
<1>1. \A x \in S : (\A y \in S : x >= y) <=> x = m
  <2>. TAKE x \in S
  <2>1. x \in Nat /\ m \in Nat /\ m >= x
    OBVIOUS
  <2>. QED
    BY <2>1
<1>. QED
  BY <1>1 DEF Max

Fold(f, n, p) ==
    f = [s \in SUBSET (1..n) |->
           IF s = {} THEN <<>> ELSE AddToPlan(f[s \ {Max(s)}], p[Max(s)])]

LEMMA FoldExists == ASSUME NEW p PROVE \A n \in Nat : \E f : Fold(f, n, p)
<1>. DEFINE T == {n \in Nat : \E f : Fold(f, n, p)}
<1>1. 0 \in T
  <2>1. SUBSET (1..0) = {{}}
    OBVIOUS
  <2>2. Fold([s \in SUBSET (1..0) |-> <<>>], 0, p)
    BY <2>1 DEF Fold
  <2>. QED
    BY <2>2
<1>2. ASSUME NEW n \in T PROVE n + 1 \in T
  <2>1. PICK f : Fold(f, n, p)
    OBVIOUS
  <2>. DEFINE g == [s \in SUBSET (1..(n + 1)) |->
                      IF n + 1 \in s THEN AddToPlan(f[s \ {n + 1}], p[n + 1]) ELSE f[s]]
              h == [s \in SUBSET (1..(n + 1)) |->
                      IF s = {} THEN <<>> ELSE AddToPlan(g[s \ {Max(s)}], p[Max(s)])]
  <2>2. \A s \in SUBSET (1..n) :
           f[s] = IF s = {} THEN <<>> ELSE AddToPlan(f[s \ {Max(s)}], p[Max(s)])
    BY <2>1 DEF Fold
  <2>3. ASSUME NEW s \in SUBSET (1..(n + 1)) PROVE g[s] = h[s]
    <3>1. \A u \in SUBSET (1..(n + 1)) :
             n + 1 \notin u => u \in SUBSET (1..n) /\ g[u] = f[u]
      OBVIOUS
    <3>2. h[s] = IF s = {} THEN <<>> ELSE AddToPlan(g[s \ {Max(s)}], p[Max(s)])
      OBVIOUS
    <3>3. n + 1 \in s => g[s] = AddToPlan(f[s \ {n + 1}], p[n + 1])
      OBVIOUS
    <3>. HIDE DEF g, h
    <3>4. CASE n + 1 \in s
      <4>0. s \subseteq Nat /\ \A y \in s : n + 1 >= y
        OBVIOUS
      <4>1. Max(s) = n + 1
        BY <3>4, <4>0, MaxIs
      <4>2. s \ {n + 1} \in SUBSET (1..(n + 1)) /\ n + 1 \notin s \ {n + 1}
        OBVIOUS
      <4>3. g[s \ {Max(s)}] = f[s \ {n + 1}]
        BY <3>1, <4>1, <4>2
      <4>. QED
        BY <3>2, <3>3, <3>4, <4>1, <4>3
    <3>5. CASE n + 1 \notin s
      <4>1. s \in SUBSET (1..n) /\ g[s] = f[s]
        BY <3>1, <3>5
      <4>2. g[s \ {Max(s)}] = f[s \ {Max(s)}]
        BY <3>1, <3>5
      <4>. QED
        BY <2>2, <3>2, <4>1, <4>2
    <3>. QED
      BY <3>4, <3>5
  <2>4. g = h
    BY <2>3
  <2>5. Fold(g, n + 1, p)
    BY <2>4 DEF Fold
  <2>. QED
    BY <2>5
<1>. QED
  BY <1>1, <1>2, Induction

(* The batches of the first n calls of an answer.                           *)
LEMMA PlanFold ==
    ASSUME NEW N \in Nat, DOMAIN calls = 1..N
    PROVE  \E upto : /\ upto[0] = <<>> /\ upto[N] = PartitionToolCalls
                     /\ \A n \in 1..N : upto[n] = AddToPlan(upto[n - 1], n)
<1>. DEFINE p == [i \in 1..N |-> i]
<1>1. PartitionToolCalls = (CHOOSE f : Fold(f, N, p))[1..N]
  BY DEF PartitionToolCalls, FoldLeftDomain, FoldLeft, MapThenFoldSet, Fold
<1>2. PICK f : Fold(f, N, p) /\ PartitionToolCalls = f[1..N]
  BY <1>1, FoldExists
<1>. DEFINE upto == [n \in 0..N |-> f[1..n]]
<1>3. upto[0] = <<>>
  <2>1. 1..0 = {} /\ {} \in SUBSET (1..N)
    OBVIOUS
  <2>2. f[{}] = <<>>
    BY <1>2, <2>1 DEF Fold
  <2>. QED
    BY <2>1, <2>2
<1>4. ASSUME NEW n \in 1..N PROVE upto[n] = AddToPlan(upto[n - 1], n)
  <2>1. 1..n \in SUBSET (1..N) /\ 1..n # {} /\ (1..n) \ {n} = 1..(n - 1)
    <3>1. n \in 1..n /\ 1..n \subseteq 1..N
      OBVIOUS
    <3>2. \A k : k \in (1..n) \ {n} <=> k \in 1..(n - 1)
      OBVIOUS
    <3>. QED
      BY <3>1, <3>2
  <2>2. Max(1..n) = n
    <3>1. 1..n \subseteq Nat /\ n \in 1..n /\ \A y \in 1..n : n >= y
      OBVIOUS
    <3>. QED
      BY <3>1, MaxIs
  <2>3. f[1..n] = AddToPlan(f[(1..n) \ {n}], p[n])
    BY <1>2, <2>1, <2>2 DEF Fold
  <2>4. p[n] = n /\ upto[n] = f[1..n] /\ upto[n - 1] = f[1..(n - 1)]
    OBVIOUS
  <2>. HIDE DEF p, upto
  <2>. QED
    BY <2>1, <2>3, <2>4
<1>5. upto[N] = PartitionToolCalls
  BY <1>2
<1>. QED
  BY <1>3, <1>4, <1>5

(* What the batches of the calls in S are: every valid one of them is in    *)
(* one batch, and no two calls of a batch conflict.                         *)
Conflict(i, j) == ConflictBetween(calls[i].claims, calls[j].claims)
CompatibleIn(batch) == \A i, j \in DOMAIN batch : i # j => ~ Conflict(batch[i], batch[j])

Planned(batches, S) ==
    /\ batches \in Seq(Seq(DOMAIN calls))
    /\ \A i \in DOMAIN calls :
          (i \in S /\ calls[i].parses) <=> \E b \in DOMAIN batches : i \in ToSet(batches[b])
    /\ \A b, d \in DOMAIN batches : b # d => ToSet(batches[b]) \intersect ToSet(batches[d]) = {}
    /\ \A b \in DOMAIN batches : CompatibleIn(batches[b])

LEMMA ConflictSymmetric == \A i, j : Conflict(i, j) <=> Conflict(j, i)
BY DEF Conflict, ConflictBetween

LEMMA AppendIs ==
    ASSUME NEW S, NEW s \in Seq(S), NEW e \in S
    PROVE  /\ Append(s, e) \in Seq(S) /\ DOMAIN Append(s, e) = 1..(Len(s) + 1)
           /\ DOMAIN s = 1..Len(s) /\ Len(s) \in Nat
           /\ Append(s, e)[Len(s) + 1] = e /\ \A k \in 1..Len(s) : Append(s, e)[k] = s[k]
           /\ ToSet(Append(s, e)) = ToSet(s) \union {e}
<1>1. /\ Append(s, e) \in Seq(S) /\ DOMAIN Append(s, e) = 1..(Len(s) + 1)
      /\ DOMAIN s = 1..Len(s) /\ Len(s) \in Nat
      /\ Append(s, e)[Len(s) + 1] = e /\ \A k \in 1..Len(s) : Append(s, e)[k] = s[k]
  OBVIOUS
<1>2. \A x : (\E k \in DOMAIN Append(s, e) : Append(s, e)[k] = x)
             <=> (x = e \/ \E k \in DOMAIN s : s[k] = x)
  BY <1>1
<1>. QED
  BY <1>1, <1>2 DEF ToSet

(* The last batch grows by one call. *)
Grown(bs, e) == Front(bs) \o <<Append(Last(bs), e)>>

LEMMA GrownIs ==
    ASSUME NEW S, NEW bs \in Seq(Seq(S)), bs # <<>>, NEW e \in S
    PROVE  /\ Len(bs) \in Nat \ {0} /\ bs[Len(bs)] \in Seq(S) /\ DOMAIN bs = 1..Len(bs)
           /\ Grown(bs, e) \in Seq(Seq(S)) /\ DOMAIN Grown(bs, e) = 1..Len(bs)
           /\ Grown(bs, e)[Len(bs)] = Append(bs[Len(bs)], e)
           /\ \A k \in 1..(Len(bs) - 1) : Grown(bs, e)[k] = bs[k]
<1>1. Len(bs) \in Nat \ {0} /\ bs[Len(bs)] \in Seq(S) /\ DOMAIN bs = 1..Len(bs)
  OBVIOUS
<1>. DEFINE f == SubSeq(bs, 1, Len(bs) - 1)
            l == <<Append(bs[Len(bs)], e)>>
<1>2. f \in Seq(Seq(S)) /\ Len(f) = Len(bs) - 1 /\ \A k \in 1..(Len(bs) - 1) : f[k] = bs[k]
  BY <1>1
<1>3. l \in Seq(Seq(S)) /\ Len(l) = 1 /\ l[1] = Append(bs[Len(bs)], e)
  BY <1>1
<1>a. Grown(bs, e) = f \o l
  BY DEF Grown, Front, Last
<1>. HIDE DEF f, l
<1>4. /\ f \o l \in Seq(Seq(S)) /\ Len(f \o l) = Len(bs)
      /\ \A k \in 1..Len(bs) : (f \o l)[k] = IF k <= Len(bs) - 1 THEN f[k] ELSE l[k - (Len(bs) - 1)]
  <2>1. /\ f \o l \in Seq(Seq(S)) /\ Len(f \o l) = Len(f) + Len(l)
        /\ \A k \in 1..(Len(f) + Len(l)) :
              (f \o l)[k] = IF k <= Len(f) THEN f[k] ELSE l[k - Len(f)]
    BY <1>2, <1>3, ConcatProperties
  <2>2. Len(f) = Len(bs) - 1 /\ Len(l) = 1 /\ Len(f) + Len(l) = Len(bs)
    BY <1>1, <1>2, <1>3
  <2>. QED
    BY <2>1, <2>2
<1>5. (f \o l)[Len(bs)] = Append(bs[Len(bs)], e)
  <2>1. Len(bs) \in 1..Len(bs) /\ ~ (Len(bs) <= Len(bs) - 1) /\ Len(bs) - (Len(bs) - 1) = 1
    BY <1>1
  <2>2. (f \o l)[Len(bs)] = l[1]
    BY <1>4, <2>1
  <2>. QED
    BY <1>3, <2>2
<1>6. DOMAIN (f \o l) = 1..Len(bs)
  BY <1>4, LenProperties
<1>7. \A k \in 1..(Len(bs) - 1) : (f \o l)[k] = bs[k]
  <2>1. \A k \in 1..(Len(bs) - 1) : k \in 1..Len(bs) /\ k <= Len(bs) - 1
    BY <1>1
  <2>. QED
    BY <1>2, <1>4, <2>1
<1>. QED
  BY <1>a, <1>1, <1>4, <1>5, <1>6, <1>7

LEMMA AddPlans ==
    ASSUME NEW S, NEW n \in DOMAIN calls, n \notin S, NEW bs, Planned(bs, S)
    PROVE  Planned(AddToPlan(bs, n), S \union {n})
<1>1. /\ bs \in Seq(Seq(DOMAIN calls)) /\ n \in DOMAIN calls
      /\ DOMAIN bs = 1..Len(bs) /\ Len(bs) \in Nat
      /\ \A b \in DOMAIN bs : CompatibleIn(bs[b]) /\ bs[b] \in Seq(DOMAIN calls)
      /\ \A b, d \in DOMAIN bs : b # d => ToSet(bs[b]) \intersect ToSet(bs[d]) = {}
      /\ \A i \in DOMAIN calls :
            (i \in S /\ calls[i].parses) <=> \E b \in DOMAIN bs : i \in ToSet(bs[b])
  BY DEF Planned
<1>3. \A b \in DOMAIN bs : n \notin ToSet(bs[b])
  BY <1>1
<1>4. CASE ~ calls[n].parses
  BY <1>1, <1>4 DEF Planned, AddToPlan
<1>5. CASE /\ calls[n].parses /\ bs # <<>> /\ ~ ConflictBetween(Claims(Last(bs)), calls[n].claims)
           /\ AddToPlan(bs, n) = Grown(bs, n)
  <2>1. /\ Len(bs) \in Nat \ {0} /\ bs[Len(bs)] \in Seq(DOMAIN calls)
        /\ Grown(bs, n) \in Seq(Seq(DOMAIN calls)) /\ DOMAIN Grown(bs, n) = 1..Len(bs)
        /\ Grown(bs, n)[Len(bs)] = Append(bs[Len(bs)], n)
        /\ \A k \in 1..(Len(bs) - 1) : Grown(bs, n)[k] = bs[k]
    <3>1. bs \in Seq(Seq(DOMAIN calls)) /\ n \in DOMAIN calls /\ bs # <<>>
      BY <1>1, <1>5
    <3>2. Len(bs) \in Nat \ {0} /\ bs[Len(bs)] \in Seq(DOMAIN calls)
      BY <3>1, GrownIs
    <3>3. Grown(bs, n) \in Seq(Seq(DOMAIN calls))
      BY <3>1, GrownIs
    <3>4. DOMAIN Grown(bs, n) = 1..Len(bs)
      BY <3>1, GrownIs
    <3>5. \A e \in DOMAIN calls : Grown(bs, e)[Len(bs)] = Append(bs[Len(bs)], e)
      BY <3>1, GrownIs
    <3>6. \A e \in DOMAIN calls : \A k \in 1..(Len(bs) - 1) : Grown(bs, e)[k] = bs[k]
      BY <3>1, GrownIs
    <3>. QED
      BY <3>1, <3>2, <3>3, <3>4, <3>5, <3>6
  <2>. DEFINE L == Len(bs)
              new == Grown(bs, n)
              old == bs[L]
  <2>2. /\ DOMAIN new[L] = 1..(Len(old) + 1) /\ DOMAIN old = 1..Len(old) /\ Len(old) \in Nat
        /\ new[L][Len(old) + 1] = n /\ \A k \in 1..Len(old) : new[L][k] = old[k]
        /\ ToSet(new[L]) = ToSet(old) \union {n}
    <3>1. old \in Seq(DOMAIN calls) /\ n \in DOMAIN calls /\ new[L] = Append(old, n)
      BY <1>1, <2>1
    <3>. HIDE DEF old, new, L
    <3>. QED
      BY <3>1, AppendIs
  <2>3. \A i \in DOMAIN old : ~ Conflict(old[i], n)
    <3>1. \A i \in DOMAIN old : calls[old[i]].claims \subseteq Claims(Last(bs))
      BY DEF Claims, Last, ToSet
    <3>. QED
      BY <1>5, <3>1 DEF Conflict, ConflictBetween
  <2>c. CompatibleIn(old)
    <3>1. Len(bs) \in DOMAIN bs
      BY <1>1, <2>1
    <3>. QED
      BY <1>1, <3>1
  <2>t. /\ L \in Nat \ {0} /\ new \in Seq(Seq(DOMAIN calls)) /\ DOMAIN new = 1..L
        /\ DOMAIN bs = 1..L /\ \A b \in 1..L : b = L \/ new[b] = bs[b]
    <3>1. \A b \in 1..Len(bs) : b = Len(bs) \/ b \in 1..(Len(bs) - 1)
      BY <2>1
    <3>. QED
      BY <1>1, <2>1, <3>1
  <2>. HIDE DEF old, new, L
  <2>4. CompatibleIn(new[L])
    <3>. SUFFICES ASSUME NEW i \in DOMAIN new[L], NEW j \in DOMAIN new[L], i # j
                  PROVE  ~ Conflict(new[L][i], new[L][j])
      BY DEF CompatibleIn
    <3>1. CASE i \in 1..Len(old) /\ j \in 1..Len(old)
      BY <2>2, <2>c, <3>1 DEF CompatibleIn
    <3>2. CASE i = Len(old) + 1
      BY <2>2, <2>3, <3>2, ConflictSymmetric
    <3>3. CASE j = Len(old) + 1
      BY <2>2, <2>3, <3>3
    <3>. QED
      BY <2>2, <3>1, <3>2, <3>3
  <2>5. \A b \in DOMAIN new : CompatibleIn(new[b])
    BY <1>1, <2>4, <2>t
  <2>6. \A b \in DOMAIN new : ToSet(new[b]) = ToSet(bs[b]) \union (IF b = L THEN {n} ELSE {})
    BY <2>2, <2>t DEF old
  <2>7. \A b, d \in DOMAIN new : b # d => ToSet(new[b]) \intersect ToSet(new[d]) = {}
    <3>1. \A b \in DOMAIN new : b \in DOMAIN bs
      BY <2>t
    <3>. QED
      <4>. SUFFICES ASSUME NEW b \in DOMAIN new, NEW d \in DOMAIN new, b # d
                    PROVE  ToSet(new[b]) \intersect ToSet(new[d]) = {}
        OBVIOUS
      <4>1. b \in DOMAIN bs /\ d \in DOMAIN bs
        BY <3>1
      <4>2. /\ ToSet(bs[b]) \intersect ToSet(bs[d]) = {}
            /\ n \notin ToSet(bs[b]) /\ n \notin ToSet(bs[d])
        BY <1>1, <1>3, <4>1
      <4>. QED
        BY <2>6, <4>2
  <2>8. \A i \in DOMAIN calls :
           (i \in S \union {n} /\ calls[i].parses) <=> \E b \in DOMAIN new : i \in ToSet(new[b])
    <3>1. L \in DOMAIN new /\ DOMAIN new = DOMAIN bs
      BY <2>t
    <3>. QED
      BY <1>1, <1>5, <2>6, <3>1
  <2>. QED
    BY <1>5, <2>t, <2>5, <2>7, <2>8 DEF Planned, new
<1>6. CASE calls[n].parses /\ AddToPlan(bs, n) = Append(bs, <<n>>)
  <2>1. /\ <<n>> \in Seq(DOMAIN calls) /\ ToSet(<<n>>) = {n} /\ CompatibleIn(<<n>>)
    BY <1>1 DEF ToSet, CompatibleIn
  <2>. DEFINE L == Len(bs)
              new == Append(bs, <<n>>)
  <2>2. /\ new \in Seq(Seq(DOMAIN calls)) /\ DOMAIN new = 1..(L + 1) /\ L \in Nat
        /\ new[L + 1] = <<n>> /\ \A k \in 1..L : new[k] = bs[k]
    BY <1>1, <2>1, AppendIs
  <2>t. DOMAIN bs = 1..L
    BY <1>1
  <2>. HIDE DEF new, L
  <2>4. \A b \in 1..(L + 1) : b = L + 1 \/ b \in 1..L
    BY <2>2
  <2>5. \A b \in DOMAIN new : CompatibleIn(new[b])
    BY <1>1, <2>1, <2>2, <2>4, <2>t
  <2>7. \A b, d \in DOMAIN new : b # d => ToSet(new[b]) \intersect ToSet(new[d]) = {}
    <3>1. \A b \in DOMAIN new : ToSet(new[b]) = IF b = L + 1 THEN {n} ELSE ToSet(bs[b])
      <4>1. L + 1 \notin 1..L
        BY <2>2
      <4>. QED
        BY <2>1, <2>2, <2>4, <4>1
    <3>2. \A b \in DOMAIN new : b = L + 1 \/ b \in DOMAIN bs
      BY <2>2, <2>4, <2>t
    <3>. QED
      BY <1>1, <1>3, <3>1, <3>2
  <2>8. \A i \in DOMAIN calls :
           (i \in S \union {n} /\ calls[i].parses) <=> \E b \in DOMAIN new : i \in ToSet(new[b])
    <3>1. DOMAIN new = DOMAIN bs \union {L + 1}
      BY <2>2, <2>t
    <3>. QED
      BY <1>1, <1>6, <2>1, <2>2, <2>t, <3>1
  <2>. QED
    BY <1>6, <2>2, <2>5, <2>7, <2>8 DEF Planned, new
<1>. QED
  BY <1>4, <1>5, <1>6 DEF AddToPlan, Grown

(* The batches of an answer.                                                *)
LEMMA PartitionPlans ==
    ASSUME NEW N \in Nat, DOMAIN calls = 1..N
    PROVE  Planned(PartitionToolCalls, DOMAIN calls)
<1>1. PICK upto : /\ upto[0] = <<>> /\ upto[N] = PartitionToolCalls
                  /\ \A n \in 1..N : upto[n] = AddToPlan(upto[n - 1], n)
  BY PlanFold
<1>. DEFINE T == {n \in Nat : n <= N => Planned(upto[n], 1..n)}
<1>2. 0 \in T
  <2>1. <<>> \in Seq(Seq(DOMAIN calls)) /\ DOMAIN <<>> = {} /\ 1..0 = {}
    OBVIOUS
  <2>2. Planned(<<>>, {})
    BY <2>1 DEF Planned
  <2>. QED
    BY <1>1, <2>1, <2>2
<1>3. ASSUME NEW n \in T PROVE n + 1 \in T
  <2>. SUFFICES ASSUME n + 1 <= N PROVE Planned(upto[n + 1], 1..(n + 1))
    OBVIOUS
  <2>1. /\ n \in Nat /\ n + 1 \in DOMAIN calls /\ n + 1 \notin 1..n
        /\ (n + 1) - 1 = n /\ Planned(upto[n], 1..n)
    OBVIOUS
  <2>2. upto[n + 1] = AddToPlan(upto[n], n + 1)
    BY <1>1, <2>1
  <2>3. (1..n) \union {n + 1} = 1..(n + 1)
    BY <2>1
  <2>. QED
    BY <2>1, <2>2, <2>3, AddPlans
<1>4. T = Nat
  <2>. HIDE DEF T
  <2>1. T \subseteq Nat
    BY DEF T
  <2>. QED
    BY <1>2, <1>3, <2>1, Induction
<1>5. N \in T
  BY <1>4
<1>. QED
  BY <1>1, <1>5

-----------------------------------------------------------------------------
(* The calls of an answer and their tool messages.                          *)

Answered(i) == answers[i] = 1
InPlan(i) == \E b \in DOMAIN plan : i \in ToSet(plan[b])
Started == {"idle", "boot", "routing"}

PlanSound ==
    /\ plan \in Seq(Seq(DOMAIN calls))
    /\ \A b \in DOMAIN plan : CompatibleIn(plan[b])
    /\ \A b, d \in DOMAIN plan : b # d => ToSet(plan[b]) \intersect ToSet(plan[d]) = {}

(* While the tools run, a call waits in exactly one batch or is answered;   *)
(* outside that phase nothing is planned, but for what an interrupted turn  *)
(* leaves to its postlude.                                                  *)
BatchInv ==
    /\ ToolTypeOK /\ PlanSound /\ AnsweredOnce
    /\ executing => phase = "tool_execution" /\ plan # <<>>
    /\ phase \notin {"tool_execution", "postlude"} => plan = <<>>
    /\ phase \in Started => calls = <<>>
    /\ phase = "tool_execution" => \A i \in DOMAIN calls : ~ Answered(i) <=> InPlan(i)

LEMMA NothingIsTyped ==
    <<>> \in [DOMAIN <<>> -> 0..1] /\ <<>> \in Seq(Seq(DOMAIN <<>>))
<1>1. <<>> = [i \in {} |-> 0] /\ DOMAIN <<>> = {}
  OBVIOUS
<1>2. [i \in {} |-> 0] \in [{} -> 0..1]
  OBVIOUS
<1>. QED
  BY <1>1, <1>2, EmptySeq

LEMMA CallsAreSequence ==
    ASSUME calls \in Responses \union {<<>>}
    PROVE  \E N \in Nat : DOMAIN calls = 1..N
<1>1. calls \in Seq(ToSet(calls))
  <2>1. CASE calls = <<>>
    BY <2>1
  <2>2. CASE calls \in Responses
    BY <2>2, TurnAssumption DEF TurnAssumption
  <2>. QED
    BY <2>1, <2>2
<1>. QED
  BY <1>1

(* A step that leaves the tools alone. *)
LEMMA MoveKeepsBatchInv ==
    ASSUME BatchInv, UNCHANGED toolVars,
           phase' = phase \/ (~ executing /\ phase' # "tool_execution"),
           phase' \in Started => phase \in Started,
           phase' \notin {"tool_execution", "postlude"} =>
              phase \notin {"tool_execution", "postlude"} \/ plan = <<>>,
           phase' \in BeforeRequest =>
              (phase \in BeforeRequest \union Started \/ (phase = "tool_execution" /\ plan = <<>>))
    PROVE  BatchInv'
<1>1. UNCHANGED <<calls, answers, plan, executing>>
  BY DEF toolVars
<1>2. ToolTypeOK' /\ PlanSound'
  BY <1>1 DEF BatchInv, ToolTypeOK, PlanSound, CompatibleIn, Conflict
<1>3. phase' \in BeforeRequest => \A i \in DOMAIN calls : Answered(i)
  <2>1. phase \in BeforeRequest => \A i \in DOMAIN calls : Answered(i)
    BY DEF BatchInv, AnsweredOnce, BeforeRequest, Answered
  <2>2. phase = "tool_execution" /\ plan = <<>> => \A i \in DOMAIN calls : Answered(i)
    BY DEF BatchInv, InPlan
  <2>3. phase \in Started => DOMAIN calls = {}
    BY DEF BatchInv
  <2>. QED
    BY <2>1, <2>2, <2>3
<1>4. AnsweredOnce'
  BY <1>1, <1>3 DEF AnsweredOnce, BeforeRequest, Answered
<1>5. executing' => phase' = "tool_execution" /\ plan' # <<>>
  BY <1>1 DEF BatchInv
<1>6. phase' \notin {"tool_execution", "postlude"} => plan' = <<>>
  BY <1>1 DEF BatchInv
<1>7. phase' \in Started => calls' = <<>>
  BY <1>1 DEF BatchInv
<1>8. phase' = "tool_execution" => (\A i \in DOMAIN calls : ~ Answered(i) <=> InPlan(i))'
  BY <1>1 DEF BatchInv, Answered, InPlan
<1>. QED
  BY <1>2, <1>4, <1>5, <1>6, <1>7, <1>8 DEF BatchInv

LEMMA CompletionKeepsBatchInv ==
    ASSUME BatchInv, NEW r, NEW drop, CompleteWith(r, drop), UNCHANGED toolVars, ~ executing
    PROVE  BatchInv'
BY MoveKeepsBatchInv DEF CompleteWith, Started, BeforeRequest

(* The tools' own variables are cleared at the end of run(). *)
LEMMA RunIsOverKeepsBatchInv ==
    ASSUME RunIsOver
    PROVE  BatchInv'
<1>1. phase' = "idle" /\ calls' = <<>> /\ answers' = <<>> /\ plan' = <<>> /\ executing' = FALSE
  BY DEF RunIsOver
<1>2. ToolTypeOK'
  BY <1>1, NothingIsTyped DEF ToolTypeOK
<1>3. PlanSound'
  BY <1>1 DEF PlanSound
<1>. QED
  BY <1>1, <1>2, <1>3 DEF BatchInv, AnsweredOnce

LEMMA LlmAnswersKeepsBatchInv ==
    ASSUME BatchInv, LlmAnswers
    PROVE  BatchInv'
<1>1. PICK cs \in Responses : calls' = cs /\ answers' = [i \in DOMAIN cs |-> 0]
  BY DEF LlmAnswers
<1>2. /\ phase = "llm_call" /\ UNCHANGED <<plan, executing>>
      /\ phase' \in {"llm_call", "llm_refused", "continuation_check", "parse_response"}
  BY DEF LlmAnswers, SendRequest
<1>3. plan' = <<>> /\ ~ executing'
  BY <1>2 DEF BatchInv
<1>4. ToolTypeOK' /\ PlanSound'
  BY <1>1, <1>2, <1>3 DEF ToolTypeOK, PlanSound, BatchInv
<1>. QED
  BY <1>2, <1>3, <1>4 DEF BatchInv, AnsweredOnce, Started

LEMMA ParseResponseKeepsBatchInv ==
    ASSUME BatchInv, ParseResponse
    PROVE  BatchInv'
<1>1. /\ phase = "parse_response" /\ phase' = "tool_execution"
      /\ answers' = [i \in DOMAIN calls |-> IF calls[i].parses THEN 0 ELSE 1]
      /\ plan' = PartitionToolCalls /\ UNCHANGED <<calls, executing>>
  BY DEF ParseResponse
<1>2. Planned(PartitionToolCalls, DOMAIN calls)
  BY PartitionPlans, CallsAreSequence DEF BatchInv, ToolTypeOK
<1>3. ~ executing'
  BY <1>1 DEF BatchInv
<1>4. ToolTypeOK' /\ PlanSound'
  BY <1>1, <1>2 DEF ToolTypeOK, PlanSound, BatchInv, Planned, CompatibleIn, Conflict
<1>5. (\A i \in DOMAIN calls : ~ Answered(i) <=> InPlan(i))'
  BY <1>1, <1>2 DEF Answered, InPlan, Planned
<1>. QED
  BY <1>1, <1>3, <1>4, <1>5 DEF BatchInv, AnsweredOnce, Started

(* A batch settles: its calls are answered, the others' batches remain. *)
LEMMA BatchSettlesFacts ==
    ASSUME BatchInv, BatchSettles
    PROVE  /\ phase = "tool_execution" /\ executing' = FALSE /\ calls' = calls
           /\ ToolTypeOK' /\ PlanSound'
           /\ (\A i \in DOMAIN calls : ~ Answered(i) <=> InPlan(i))'
<1>1. /\ phase = "tool_execution" /\ executing /\ executing' = FALSE /\ plan' = Tail(plan)
      /\ answers' = [i \in DOMAIN calls |->
            IF i \in ToSet(Head(plan)) THEN answers[i] + 1 ELSE answers[i]]
      /\ calls' = calls
  BY DEF BatchSettles
<1>2. /\ plan # <<>> /\ plan \in Seq(Seq(DOMAIN calls))
      /\ \A i \in DOMAIN calls : answers[i] \in {0, 1} /\ (answers[i] # 1 <=> InPlan(i))
  BY <1>1 DEF BatchInv, ToolTypeOK, PlanSound, Answered
<1>3. /\ Len(plan) \in Nat \ {0} /\ DOMAIN plan = 1..Len(plan) /\ Head(plan) = plan[1]
      /\ Tail(plan) \in Seq(Seq(DOMAIN calls)) /\ DOMAIN Tail(plan) = 1..(Len(plan) - 1)
      /\ \A b \in 1..(Len(plan) - 1) : Tail(plan)[b] = plan[b + 1]
  BY <1>2
<1>4. \A b \in DOMAIN plan' : plan'[b] = plan[b + 1] /\ b + 1 \in DOMAIN plan /\ b + 1 # 1
  BY <1>1, <1>3
<1>5. \A b \in DOMAIN plan : b = 1 \/ (b - 1 \in DOMAIN plan' /\ plan'[b - 1] = plan[b])
  BY <1>1, <1>3
<1>6. 1 \in DOMAIN plan
  BY <1>3
<1>7. \A b, d \in DOMAIN plan : b # d => ToSet(plan[b]) \intersect ToSet(plan[d]) = {}
  BY DEF BatchInv, PlanSound
<1>8. \A i \in DOMAIN calls :
         (\E b \in DOMAIN plan' : i \in ToSet(plan'[b])) <=> InPlan(i) /\ i \notin ToSet(plan[1])
  BY <1>4, <1>5, <1>6, <1>7 DEF InPlan
<1>9. \A i \in DOMAIN calls : i \in ToSet(plan[1]) => InPlan(i)
  BY <1>6 DEF InPlan
<1>10. \A i \in DOMAIN calls : /\ answers'[i] \in {0, 1}
                               /\ answers'[i] # 1 <=> InPlan(i) /\ i \notin ToSet(plan[1])
  BY <1>1, <1>2, <1>3, <1>9
<1>11. (\A i \in DOMAIN calls : ~ Answered(i) <=> InPlan(i))'
  BY <1>1, <1>8, <1>10 DEF Answered, InPlan
<1>12. ToolTypeOK'
  <2>1. answers' \in [DOMAIN calls -> 0..1]
    <3>1. \A i \in DOMAIN calls : answers'[i] \in 0..1
      BY <1>10
    <3>2. answers' = [i \in DOMAIN calls |-> answers'[i]]
      BY <1>1
    <3>. QED
      BY <3>1, <3>2
  <2>2. plan' \in Seq(Seq(DOMAIN calls))
    BY <1>1, <1>3
  <2>. QED
    BY <1>1, <2>1, <2>2 DEF BatchInv, ToolTypeOK
<1>13. PlanSound'
  <2>1. \A b \in DOMAIN plan' : CompatibleIn(plan'[b])
    BY <1>4 DEF BatchInv, PlanSound
  <2>2. \A b, d \in DOMAIN plan' : b # d => ToSet(plan'[b]) \intersect ToSet(plan'[d]) = {}
    <3>1. \A b, d \in DOMAIN plan' : b # d => b + 1 # d + 1
      BY <1>1, <1>3
    <3>. QED
      BY <1>4, <1>7, <3>1
  <2>. QED
    BY <1>1, <1>3, <2>1, <2>2 DEF PlanSound, CompatibleIn, Conflict
<1>. QED
  BY <1>1, <1>11, <1>12, <1>13

LEMMA BatchEndsKeepsBatchInv ==
    ASSUME BatchInv, BatchEnds
    PROVE  BatchInv'
<1>1. phase' = "tool_execution" \/ phase' = "postlude"
  BY DEF BatchEnds, BatchSettles, CompleteClaimed, CompleteWith, turnVars
<1>. QED
  BY <1>1, BatchSettlesFacts DEF BatchEnds, BatchInv, AnsweredOnce, Started

LEMMA StartBatchKeepsBatchInv ==
    ASSUME BatchInv, StartBatch
    PROVE  BatchInv'
<1>1. /\ phase = "tool_execution" /\ phase' = phase /\ plan # <<>> /\ executing' = TRUE
      /\ UNCHANGED <<calls, answers, plan>>
  BY DEF StartBatch, turnVars
<1>. QED
  BY <1>1 DEF BatchInv, ToolTypeOK, PlanSound, CompatibleIn, Conflict, AnsweredOnce, Started,
              Answered, InPlan

LEMMA BatchInvariant == Spec => []BatchInv
<1>1. Init => BatchInv
  <2>. SUFFICES ASSUME Init PROVE BatchInv
    OBVIOUS
  <2>1. phase = "idle" /\ calls = <<>> /\ answers = <<>> /\ plan = <<>> /\ executing = FALSE
    BY DEF Init
  <2>2. ToolTypeOK
    BY <2>1, NothingIsTyped DEF ToolTypeOK
  <2>3. PlanSound
    BY <2>1 DEF PlanSound
  <2>. QED
    BY <2>1, <2>2, <2>3 DEF BatchInv, AnsweredOnce
<1>2. BatchInv /\ [Next]_vars => BatchInv'
  <2>. SUFFICES ASSUME BatchInv, [Next]_vars PROVE BatchInv'
    OBVIOUS
  <2>a. executing => phase = "tool_execution"
    BY DEF BatchInv
  <2>1. CASE UNCHANGED vars \/ RunTurn \/ Abort \/ StreamTimesOut \/ SoftAbort \/ Steer \/ Boot \/ EnterLoop
    <3>1. UNCHANGED toolVars
      BY <2>1 DEF vars, RunTurn, Abort, StreamTimesOut, SoftAbort, Steer, Boot, EnterLoop, toolVars
    <3>2. \/ phase' = phase \/ (phase = "idle" /\ phase' = "boot")
          \/ (phase = "boot" /\ phase' = "routing") \/ (phase = "routing" /\ phase' = "check_abort")
      BY <2>1 DEF vars, RunTurn, Abort, StreamTimesOut, SoftAbort, Steer, Boot, EnterLoop, turnVars
    <3>. QED
      BY <2>a, <3>1, <3>2, MoveKeepsBatchInv DEF Started, BeforeRequest
  <2>2. CASE StartFails \/ Settle
    BY <2>2, RunIsOverKeepsBatchInv DEF StartFails, Settle
  <2>3. CASE CheckAbort \/ BudgetCheck \/ ModuleIteration \/ LlmThrows \/ ContinuationCheck
    <3>1. /\ UNCHANGED toolVars
          /\ phase \in {"check_abort", "budget_check", "module_iteration", "llm_call",
                        "llm_refused", "continuation_check"}
          /\ \/ \E r, drop : CompleteWith(r, drop)
             \/ phase = "check_abort" /\ phase' = "budget_check"
             \/ phase = "budget_check" /\ phase' = "module_iteration"
             \/ phase' \in {"llm_call", "llm_refused"}
      BY <2>3, Completions DEF CheckAbort, BudgetCheck, ModuleIteration, LlmThrows,
                               ContinuationCheck, SendRequest
    <3>2. CASE \E r, drop : CompleteWith(r, drop)
      BY <2>a, <3>1, <3>2, CompletionKeepsBatchInv
    <3>3. CASE \/ phase = "check_abort" /\ phase' = "budget_check"
               \/ phase = "budget_check" /\ phase' = "module_iteration"
               \/ phase' \in {"llm_call", "llm_refused"}
      BY <2>a, <3>1, <3>3, MoveKeepsBatchInv DEF Started, BeforeRequest
    <3>. QED
      BY <3>1, <3>2, <3>3
  <2>4. CASE ToolStartThrows \/ ScheduleReturns
    <3>1. /\ UNCHANGED toolVars /\ ~ executing /\ phase = "tool_execution"
          /\ \/ \E r, drop : CompleteWith(r, drop)
             \/ plan = <<>> /\ phase' = "check_abort"
      BY <2>4, Completions DEF ToolStartThrows, ScheduleReturns
    <3>2. CASE \E r, drop : CompleteWith(r, drop)
      BY <3>1, <3>2, CompletionKeepsBatchInv
    <3>3. CASE plan = <<>> /\ phase' = "check_abort"
      BY <3>1, <3>3, MoveKeepsBatchInv DEF Started, BeforeRequest
    <3>. QED
      BY <3>1, <3>2, <3>3
  <2>5. CASE LlmAnswers
    BY <2>5, LlmAnswersKeepsBatchInv
  <2>6. CASE ParseResponse
    BY <2>6, ParseResponseKeepsBatchInv
  <2>7. CASE StartBatch
    BY <2>7, StartBatchKeepsBatchInv
  <2>8. CASE BatchEnds
    BY <2>8, BatchEndsKeepsBatchInv
  <2>. QED
    BY <2>1, <2>2, <2>3, <2>4, <2>5, <2>6, <2>7, <2>8 DEF Next, TurnStep, UserStep
<1>. QED
  BY <1>1, <1>2, PTL DEF Spec

(* Before every request each call of the last answer has exactly one tool   *)
(* message, for every answer a model may give.                              *)
THEOREM CallsAreAnswered == Spec => []AnsweredOnce
<1>1. BatchInv => AnsweredOnce
  BY DEF BatchInv
<1>. QED
  BY <1>1, BatchInvariant, PTL

(* partitionToolCalls puts no two conflicting calls into one batch.         *)
THEOREM BatchesAreCompatible == Spec => []BatchesCompatible
<1>1. BatchInv => BatchesCompatible
  BY DEF BatchInv, PlanSound, BatchesCompatible, CompatibleIn, Conflict, ConflictBetween
<1>. QED
  BY <1>1, BatchInvariant, PTL

(* The state of a turn is what the code can hold: no call is answered       *)
(* twice, no counter passes its limit, no batch names a call that was not   *)
(* asked for.                                                               *)
THEOREM TypeCorrect == Spec => []TypeOK
<1>1. ControlInv /\ FuelInv /\ SteersInv /\ BatchInv => TypeOK
  BY DEF ControlInv, FuelInv, CountsTypeOK, SteersInv, BatchInv, TypeOK
<1>. QED
  BY <1>1, ControlInvariant, RequestsInvariant, SteersInvariant, BatchInvariant, PTL
==============================================================================
