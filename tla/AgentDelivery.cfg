SPECIFICATION Spec
CONSTANTS
    Agents = {a1, a2}
    Files = {f1, f2}
    MaxCommits = 1
    MaxFaults = 1
SYMMETRY DeliverySymmetry
INVARIANTS WorkKept ResultIsTrue RunTellsResult
CHECK_DEADLOCK FALSE
