------------------------------ MODULE LockTable ------------------------------
(***************************************************************************)
(* What ResourceScheduler promises its callers, without holdings, queue or *)
(* timers: every request is granted all of its claims at once or nothing,  *)
(* at most once, and no two leases held together conflict.                 *)
(***************************************************************************)
CONSTANTS
    Requests,             \* calls of acquire()
    Claims,               \* normalised claims
    Conflict(_, _)        \* do two claims conflict?

VARIABLES
    lease,   \* per request: "none", "held" or "over"
    claimed  \* per request: the claims its lease holds

lockVars == <<lease, claimed>>

Compatible(cs, ds) == \A c \in cs, d \in ds : ~ Conflict(c, d)

Init ==
    /\ lease = [q \in Requests |-> "none"]
    /\ claimed = [q \in Requests |-> {}]

Grant(q, cs) ==
    /\ lease[q] = "none"
    /\ \A p \in Requests : lease[p] = "held" => Compatible(claimed[p], cs)
    /\ lease' = [lease EXCEPT ![q] = "held"]
    /\ claimed' = [claimed EXCEPT ![q] = cs]

(* Requests are refused together when the scheduler shuts down. *)
Refuse(Q) ==
    /\ \A q \in Q : lease[q] = "none"
    /\ lease' = [q \in Requests |-> IF q \in Q THEN "over" ELSE lease[q]]
    /\ UNCHANGED claimed

Release(q) ==
    /\ lease[q] = "held"
    /\ lease' = [lease EXCEPT ![q] = "over"]
    /\ claimed' = [claimed EXCEPT ![q] = {}]

Next ==
    \/ \E q \in Requests : Release(q) \/ \E cs \in SUBSET Claims : Grant(q, cs)
    \/ \E Q \in SUBSET Requests : Refuse(Q)

Spec == Init /\ [][Next]_lockVars
==============================================================================
