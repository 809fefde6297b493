SPECIFICATION Spec
CONSTANTS
    MaxTasks = 2
    Workers = {w1, w2}
    Priorities = {0, 1}
    AttemptLimits = {1, 2}
    LeaseTicks = 1
    TornWrites = FALSE
    MaxFaults = 1
    MaxCrashes = 1
PROPERTIES EveryTaskFinishes ImplementsLifecycle
CHECK_DEADLOCK FALSE
