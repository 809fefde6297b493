SPECIFICATION Spec
CONSTANTS
    Agents = {a1, a2}
    Files = {f1}
    MaxCommits = 0
    MaxFaults = 0
INVARIANTS ConflictBlocksRun
CHECK_DEADLOCK FALSE
