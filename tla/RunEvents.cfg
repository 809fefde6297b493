SPECIFICATION Spec
CONSTANTS
    Runs = {r1, r2}
    CriticalSubscribers = TRUE
    MaxSequence = 2
    MaxFaults = 1
    MaxCrashes = 2
INVARIANTS NoOrphanInFlight LogMirrorsRegistry
PROPERTIES PendingIsResolved TerminalForever
CHECK_DEADLOCK FALSE
