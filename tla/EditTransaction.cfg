SPECIFICATION Spec
CONSTANTS
    Paths = {a, b}
    Links = {}
    Target <- NoLinks
    Batches <- ShortBatches
    MaxFaults = 2
INVARIANT FailureUndone
PROPERTY ImplementsBatch
CHECK_DEADLOCK FALSE
