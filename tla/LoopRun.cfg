SPECIFICATION Spec
CONSTANTS
    MaxIters = 2
    NoProgressLimit = 1
    Trees = {t1}
    EditedFiles = {"goal"}
    MaxEdits = 1
    MaxStarts = 3
    MaxCrashes = 1
    MaxFaults = 1
INVARIANTS CheckpointLoads TurnsBounded SuccessIsEarned
PROPERTY NoTurnAfterSuccess
CHECK_DEADLOCK FALSE
