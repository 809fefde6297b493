---------------------------- MODULE TaskLifecycle ----------------------------
(***************************************************************************)
(* What the task queue promises whoever enqueues a task, without workers,  *)
(* leases, files or crashes: a task is attempted at most "limit" times, an *)
(* attempt ends in success, another try or failure, and a finished task    *)
(* stays as it is.                                                         *)
(***************************************************************************)
EXTENDS Naturals

CONSTANTS Tasks, AttemptLimits

VARIABLES status, attempt, limit

lifeVars == <<status, attempt, limit>>

Init ==
    /\ status = [t \in Tasks |-> "none"]
    /\ attempt = [t \in Tasks |-> 0]
    /\ limit = [t \in Tasks |-> 0]

Moves(t, from, to) ==
    status[t] = from /\ status' = [status EXCEPT ![t] = to]

Accept(t) ==
    /\ Moves(t, "none", "queued")
    /\ \E n \in AttemptLimits : limit' = [limit EXCEPT ![t] = n]
    /\ UNCHANGED attempt

Attempt(t) ==
    /\ Moves(t, "queued", "running")
    /\ attempt[t] < limit[t]
    /\ attempt' = [attempt EXCEPT ![t] = @ + 1]
    /\ UNCHANGED limit

Succeed(t) == Moves(t, "running", "succeeded") /\ UNCHANGED <<attempt, limit>>

Retry(t) ==
    /\ Moves(t, "running", "queued")
    /\ attempt[t] < limit[t]
    /\ UNCHANGED <<attempt, limit>>

GiveUp(t) ==
    /\ Moves(t, "running", "failed")
    /\ attempt[t] = limit[t]
    /\ UNCHANGED <<attempt, limit>>

Cancel(t) ==
    /\ Moves(t, "queued", "cancelled") \/ Moves(t, "running", "cancelled")
    /\ UNCHANGED <<attempt, limit>>

Next ==
    \E t \in Tasks :
        Accept(t) \/ Attempt(t) \/ Succeed(t) \/ Retry(t) \/ GiveUp(t) \/ Cancel(t)

Spec == Init /\ [][Next]_lifeVars
==============================================================================
