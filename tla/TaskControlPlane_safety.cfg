SPECIFICATION SafeSpec
CONSTANTS
    MaxTasks = 2
    Workers = {w1, w2}
    Priorities = {0}
    AttemptLimits = {2}
    LeaseTicks = 2
    TornWrites = TRUE
    MaxFaults = 1
    MaxCrashes = 1
SYMMETRY WorkerSymmetry
INVARIANTS OneLiveLease CurrentAttemptAnswers FileMirrorsMemory
PROPERTY FinishedForever
CHECK_DEADLOCK FALSE
