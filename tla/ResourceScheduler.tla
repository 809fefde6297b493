-------------------------- MODULE ResourceScheduler --------------------------
(***************************************************************************)
(* The lock manager behind tool calls: acquire() grants all of a request's *)
(* claims at once or queues it; a release wakes the queue; the end of a    *)
(* run releases its leases; releaseAll() empties the table.                *)
(*                                                                         *)
(* The program is single-threaded, so a release and the pump it triggers   *)
(* run to completion.  Here they are split into one step per lease         *)
(* released and one per waiter granted; while "agenda", "pumping" or       *)
(* "closing" says such a call is under way, no other action is enabled.    *)
(***************************************************************************)
EXTENDS Naturals, Sequences, SequencesExt

CONSTANTS
    Requests,   \* calls of acquire(), one for each tool call
    RunIds,     \* runs the requests are made for
    RunOf,      \* the run of each request
    Keys,       \* resource keys (all in one workspace)
    ClaimSets   \* the claim sets a tool may declare

Access == {"read", "write", "exclusive"}
ClaimTypes == {"file", "git"}
Claim == [type : ClaimTypes, key : Keys, access : Access]
NormalClaim == [key : Keys, access : Access]

ASSUME ResourceAssumption ==
    /\ RunOf \in [Requests -> RunIds]
    /\ ClaimSets \subseteq SUBSET Claim

VARIABLES
    holdings,  \* per key: the claims held, each with its lease
    leases,    \* requests whose lease is in the table
    waiters,   \* the queue of acquire() calls that found a conflict
    want,      \* per request: its normalised claims, once it asked
    call,      \* per request: how far its tool call is
    ended,     \* runs whose terminal event was published
    agenda,    \* leases the current release call still has to release
    pumping,   \* pumpWaiters is running
    closing    \* releaseAll is running

vars == <<holdings, leases, waiters, want, call, ended, agenda, pumping, closing>>

CallStates == {"idle", "waiting", "granted", "executing", "settled"}

-----------------------------------------------------------------------------
(* Claims                                                                  *)

(* Faulty variant: a reader is let in beside a writer. *)
ClaimsConflictWriters(existing, incoming) ==
    \/ existing = "exclusive" \/ incoming = "exclusive"
    \/ existing = "write" /\ incoming = "write"

ClaimsConflict(existing, incoming) ==
    \/ existing = "exclusive" \/ incoming = "exclusive"
    \/ (existing = "write" \/ incoming = "write")
       /\ ~ (existing = "read" /\ incoming = "read")

(* Git claims are exclusive whatever their author wrote. *)
NormalizeClaim(c) ==
    [key |-> c.key, access |-> IF c.type = "git" THEN "exclusive" ELSE c.access]

Normalized(cs) == {NormalizeClaim(c) : c \in cs}

(* findConflicts is empty.  Holdings are looked up by key alone. *)
NoConflicts(cs) ==
    \A c \in cs : \A h \in holdings[c.key] : ~ ClaimsConflict(h.access, c.access)

(* installLease *)
InstallLease(q, cs) ==
    /\ leases' = leases \union {q}
    /\ holdings' = [k \in Keys |->
          holdings[k] \union {[lease |-> q, access |-> c.access] :
                                 c \in {d \in cs : d.key = k}}]

(* Faulty variant: a key keeps its list while another lease is in it. *)
ReleaseLeaseSoleHolder(q) ==
    IF q \in leases
    THEN /\ leases' = leases \ {q}
         /\ holdings' = [k \in Keys |->
               IF \A h \in holdings[k] : h.lease = q THEN {} ELSE holdings[k]]
         /\ pumping' = TRUE
    ELSE UNCHANGED <<leases, holdings, pumping>>

(* Faulty variant: a release does not wake the queue. *)
ReleaseLeaseSilent(q) ==
    IF q \in leases
    THEN /\ leases' = leases \ {q}
         /\ holdings' = [k \in Keys |-> {h \in holdings[k] : h.lease # q}]
         /\ UNCHANGED pumping
    ELSE UNCHANGED <<leases, holdings, pumping>>

(* lease.release, up to its call of pumpWaiters; idempotent. *)
ReleaseLease(q) ==
    IF q \in leases
    THEN /\ leases' = leases \ {q}
         /\ holdings' = [k \in Keys |->
               IF \E c \in want[q] : c.key = k
               THEN {h \in holdings[k] : h.lease # q}
               ELSE holdings[k]]
         /\ pumping' = TRUE
    ELSE UNCHANGED <<leases, holdings, pumping>>

-----------------------------------------------------------------------------
(* Calls of the scheduler                                                  *)

(* No call of the scheduler is under way. *)
Idle == agenda = {} /\ ~ pumping /\ ~ closing

(* acquire: the fast path does not look at the queue. *)
Acquire(q) ==
    /\ Idle
    /\ call[q] = "idle"
    /\ \E cs \in ClaimSets : \E noWait \in BOOLEAN :
          /\ want' = [want EXCEPT ![q] = Normalized(cs)]
          /\ \/ /\ NoConflicts(Normalized(cs))
                /\ InstallLease(q, Normalized(cs))
                /\ call' = [call EXCEPT ![q] = "granted"]
                /\ UNCHANGED waiters
             \/ /\ ~ NoConflicts(Normalized(cs)) /\ noWait
                /\ call' = [call EXCEPT ![q] = "settled"]
                /\ UNCHANGED <<leases, holdings, waiters>>
             \/ /\ ~ NoConflicts(Normalized(cs)) /\ ~ noWait
                /\ waiters' = Append(waiters, q)
                /\ call' = [call EXCEPT ![q] = "waiting"]
                /\ UNCHANGED <<leases, holdings>>
    /\ UNCHANGED <<ended, agenda, pumping, closing>>

(* The waiter's timer fires or its signal aborts. *)
GiveUp(q) ==
    /\ Idle
    /\ \E i \in DOMAIN waiters :
          waiters[i] = q /\ waiters' = RemoveAt(waiters, i)
    /\ call' = [call EXCEPT ![q] = "settled"]
    /\ UNCHANGED <<holdings, leases, want, ended, agenda, pumping, closing>>

(* The caller's await returns: the tool runs. *)
Start(q) ==
    /\ Idle
    /\ call[q] = "granted"
    /\ call' = [call EXCEPT ![q] = "executing"]
    /\ UNCHANGED <<holdings, leases, waiters, want, ended, agenda, pumping,
                   closing>>

(* The tool is done or threw: executeWithClaims releases in its finally. *)
Finish(q) ==
    /\ Idle
    /\ call[q] = "executing"
    /\ call' = [call EXCEPT ![q] = "settled"]
    /\ ReleaseLease(q)
    /\ UNCHANGED <<waiters, want, ended, agenda, closing>>

(* Faulty variant: every lease is taken for one of the run that ended. *)
RunEndsAll(r) ==
    /\ Idle
    /\ r \notin ended
    /\ ended' = ended \union {r}
    /\ agenda' = leases
    /\ UNCHANGED <<holdings, leases, waiters, want, call, pumping, closing>>

(* onRunEvent: releaseRun snapshots the leases of the run that ended. *)
RunEnds(r) ==
    /\ Idle
    /\ r \notin ended
    /\ ended' = ended \union {r}
    /\ agenda' = {q \in leases : RunOf[q] = r}
    /\ UNCHANGED <<holdings, leases, waiters, want, call, pumping, closing>>

(* releaseAll: the leases first, then the waiters. *)
ReleaseAll ==
    /\ Idle
    /\ agenda' = leases
    /\ closing' = TRUE
    /\ UNCHANGED <<holdings, leases, waiters, want, call, ended, pumping>>

-----------------------------------------------------------------------------
(* The rest of a release call                                              *)

ReleaseNext(q) ==
    /\ ~ pumping
    /\ q \in agenda
    /\ agenda' = agenda \ {q}
    /\ ReleaseLease(q)
    /\ UNCHANGED <<waiters, want, call, ended, closing>>

(* Faulty variant: the pump grants a waiter without checking it again. *)
FitsAlways(i) == TRUE

(* pumpWaiters: the first waiter that fits is granted, the scan restarts. *)
Fits(i) == NoConflicts(want[waiters[i]])

(* Faulty variant: the scan is not restarted after a grant. *)
PumpOneOnly ==
    /\ pumping
    /\ \E i \in DOMAIN waiters :
          /\ Fits(i)
          /\ \A j \in 1..(i - 1) : ~ Fits(j)
          /\ InstallLease(waiters[i], want[waiters[i]])
          /\ call' = [call EXCEPT ![waiters[i]] = "granted"]
          /\ waiters' = RemoveAt(waiters, i)
    /\ pumping' = FALSE
    /\ UNCHANGED <<want, ended, agenda, closing>>

PumpOne ==
    /\ pumping
    /\ \E i \in DOMAIN waiters :
          /\ Fits(i)
          /\ \A j \in 1..(i - 1) : ~ Fits(j)
          /\ InstallLease(waiters[i], want[waiters[i]])
          /\ call' = [call EXCEPT ![waiters[i]] = "granted"]
          /\ waiters' = RemoveAt(waiters, i)
    /\ UNCHANGED <<want, ended, agenda, pumping, closing>>

PumpDone ==
    /\ pumping
    /\ \A i \in DOMAIN waiters : ~ Fits(i)
    /\ pumping' = FALSE
    /\ UNCHANGED <<holdings, leases, waiters, want, call, ended, agenda, closing>>

(* releaseAll rejects the waiters its releases left in the queue. *)
CloseDone ==
    /\ closing /\ ~ pumping /\ agenda = {}
    /\ closing' = FALSE
    /\ call' = [q \in Requests |->
                   IF q \in Range(waiters) THEN "settled" ELSE call[q]]
    /\ waiters' = <<>>
    /\ UNCHANGED <<holdings, leases, want, ended, agenda, pumping>>

-----------------------------------------------------------------------------
Init ==
    /\ holdings = [k \in Keys |-> {}]
    /\ leases = {}
    /\ waiters = <<>>
    /\ want = [q \in Requests |-> {}]
    /\ call = [q \in Requests |-> "idle"]
    /\ ended = {}
    /\ agenda = {}
    /\ pumping = FALSE
    /\ closing = FALSE

Next ==
    \/ \E q \in Requests :
          Acquire(q) \/ GiveUp(q) \/ Start(q) \/ Finish(q) \/ ReleaseNext(q)
    \/ \E r \in RunIds : RunEnds(r)
    \/ ReleaseAll \/ PumpOne \/ PumpDone \/ CloseDone

(* A granted call goes on, a tool ends, a call of the scheduler completes. *)
(* Timers are given no fairness: they are not what empties the queue.      *)
Fairness ==
    /\ \A q \in Requests :
          WF_vars(Start(q)) /\ WF_vars(Finish(q)) /\ WF_vars(ReleaseNext(q))
    /\ WF_vars(PumpOne) /\ WF_vars(PumpDone) /\ WF_vars(CloseDone)

Spec == Init /\ [][Next]_vars /\ Fairness

-----------------------------------------------------------------------------
(* Properties                                                              *)

Holding == [lease : Requests, access : Access]

(* Every variable keeps its type. *)
TypeOK ==
    /\ holdings \in [Keys -> SUBSET Holding]
    /\ leases \subseteq Requests
    /\ waiters \in Seq(Requests)
    /\ want \in [Requests -> SUBSET NormalClaim]
    /\ call \in [Requests -> CallStates]
    /\ ended \subseteq RunIds
    /\ agenda \subseteq Requests
    /\ pumping \in BOOLEAN /\ closing \in BOOLEAN

(* Two claims conflict on one key. *)
Conflicting(c, d) == c.key = d.key /\ ClaimsConflict(c.access, d.access)

(* No two leases in the table hold conflicting claims, whatever mixture of *)
(* fast path, queue, run end and shutdown granted them.                    *)
Exclusion ==
    \A p, q \in leases :
        p # q => \A c \in want[p], d \in want[q] : ~ Conflicting(c, d)

(* The holdings the conflict check reads are exactly the claims of the     *)
(* leases that exist: none leaks from a released lease, and a grant is all *)
(* of its claims or nothing.                                               *)
HoldingsMatchLeases ==
    \A k \in Keys :
        holdings[k] = {h \in Holding :
                          /\ h.lease \in leases
                          /\ [key |-> k, access |-> h.access] \in want[h.lease]}

(* Between calls of the scheduler every queued request is blocked by a     *)
(* lease in the table: no wake-up is lost on any path that frees a claim.  *)
NoLostWakeup ==
    Idle => \A q \in Range(waiters) :
                \E p \in leases :
                    \E c \in want[p], d \in want[q] : Conflicting(c, d)

(* The tool call is between its grant and its end. *)
InHand(q) == call[q] \in {"granted", "executing"}

(* A tool call gets its lease with its grant and keeps it to its end,      *)
(* unless its own run ends or the scheduler is shut down: no other call's  *)
(* release and no other run's end takes it away.                           *)
LeaseHeldWhileExecuting ==
    [][\A q \in Requests :
          InHand(q)' =>
              \/ q \in leases'
              \/ /\ InHand(q)
                 /\ q \in leases => RunOf[q] \in ended \/ closing]_vars

(* A queued request is served or given up although no timer need fire:     *)
(* the tools that hold its claims end, and each end wakes the queue.       *)
WaiterIsServed ==
    \A q \in Requests : call[q] = "waiting" ~> call[q] # "waiting"

(* What a caller sees of a request: not decided, granted, or over. *)
LeaseState ==
    [q \in Requests |->
        IF q \in leases THEN "held"
        ELSE IF call[q] \in {"idle", "waiting"} THEN "none" ELSE "over"]

HeldClaims == [q \in Requests |-> IF q \in leases THEN want[q] ELSE {}]

Table == INSTANCE LockTable WITH
    Claims <- NormalClaim, Conflict <- Conflicting,
    lease <- LeaseState, claimed <- HeldClaims

(* The scheduler implements the lock table. *)
ImplementsLockTable == Table!Spec

-----------------------------------------------------------------------------
(* Statements of documents and tests that the code does not keep; the      *)
(* README tells how each one fails                                         *)

(* resourceScheduler.ts on releaseAll: "Release everything."               *)
ReleaseAllReleasesAll == [][closing /\ ~ closing' => leases' = {}]_vars
==============================================================================
