------------------------ MODULE MCResourceScheduler ------------------------
(* ResourceScheduler for TLC: two runs, two files (k2 also as a git ref). *)
EXTENDS ResourceScheduler, TLC

CONSTANTS q1, q2, q3, runA, runB, k1, k2

(* Two tool calls of run A, one of run B. *)
MCRunOf == [q \in Requests |-> IF q \in {q1, q2} THEN runA ELSE runB]

File(k, a) == [type |-> "file", key |-> k, access |-> a]

(* No claim, readers, writers, one claim on each key, a git operation. *)
MCClaimSets ==
    {{}, {File(k1, "read")}, {File(k1, "write")},
     {File(k1, "read"), File(k2, "write")},
     {[type |-> "git", key |-> k2, access |-> "write"]}}
=============================================================================
