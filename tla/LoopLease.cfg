SPECIFICATION LeaseSpec
CONSTANTS
    Processes = {p1, p2, p3}
    StaleAfter = 2
    Prompt = TRUE
INVARIANT OneOwner
PROPERTY SplitEnds
CHECK_DEADLOCK FALSE
