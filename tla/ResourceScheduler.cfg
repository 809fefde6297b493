SPECIFICATION Spec
CONSTANTS
    q1 = q1  q2 = q2  q3 = q3
    runA = runA  runB = runB  k1 = k1  k2 = k2
    Requests = {q1, q2, q3}
    RunIds = {runA, runB}
    Keys = {k1, k2}
    RunOf <- MCRunOf
    ClaimSets <- MCClaimSets
INVARIANTS HoldingsMatchLeases Exclusion NoLostWakeup
PROPERTIES LeaseHeldWhileExecuting WaiterIsServed ImplementsLockTable
CHECK_DEADLOCK FALSE
