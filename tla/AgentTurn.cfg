SPECIFICATION Spec
CONSTANTS
    k1 = k1  k2 = k2
    MaxTurns = 1
    MaxSteers = 1
    MaxIterations = 2
    MaxEmptyRetries = 1
    MaxLengthRetries = 1
    MaxNoProgress = 1
    MaxContinuations = 1
    Diminishing = 1
    TokenBudget = 1
    Responses <- MCResponses
INVARIANTS AnsweredOnce BatchesCompatible RequestsBounded SteersKept OneBatchAfterSoft
PROPERTIES TurnEnds
CHECK_DEADLOCK FALSE
