SPECIFICATION BTSpec
CONSTANTS
    Tasks = {t1, t2}
INVARIANTS RunAgrees SignalsOwnProcesses
PROPERTY StopEndsCommand
CHECK_DEADLOCK FALSE
