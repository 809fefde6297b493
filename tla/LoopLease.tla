------------------------------ MODULE LoopLease ------------------------------
(***************************************************************************)
(* The lease of an autonomous loop: .loop/loop.lock, created exclusively,  *)
(* renewed by a heartbeat, taken over when its owner is dead, released by  *)
(* its owner.  Several processes may be started on one directory and each  *)
(* may be killed at any point.  An action is one operation on the files:   *)
(* between two of them the other processes run.                            *)
(*                                                                         *)
(* A process acquires at most one lease in its life, so the process names  *)
(* the owner token.  What heartbeatAt says is kept as an age in heartbeat  *)
(* intervals, up to the age at which a lease is stale.  An exclusive       *)
(* create and the write of the contents are two operations; a file that    *)
(* was renamed in between receives the contents under its new name.        *)
(***************************************************************************)
EXTENDS Naturals, FiniteSets

CONSTANTS
    Processes,   \* bound: the processes that are ever started on the loop
    StaleAfter,  \* staleAfterMs / intervalMs
    Prompt       \* does a file operation follow the one before it within a tick?

ASSUME LeaseAssumption == StaleAfter \in Nat \ {0} /\ Prompt \in BOOLEAN

VARIABLES
    lock,       \* loop.lock
    stale,      \* stale[p]: the file loop.lock.stale.<token of p>
    at,         \* what each process does next
    seen,       \* seen[p]: the owner p read in the lease it wants to take over
    failures,   \* heartbeatWriteFailures
    due,        \* processes whose heartbeat timer has fired
    overlapped  \* history: a takeover ran while another process was starting

leaseVars == <<lock, stale, at, seen, failures, due, overlapped>>

NoLease == [owner |-> "none"]
Lease == [owner : Processes, written : BOOLEAN, age : 0..StaleAfter]
Files == Lease \union {NoLease}
Present(file) == file # NoLease
Readable(file) == Present(file) /\ file.written
Fresh(p, written) == [owner |-> p, written |-> written, age |-> 0]

Working == {"loop", "beat"}                     \* inside the loop
Releasing == {"release", "unlink"}
Takeover == {"confirm", "quarantine", "recreate", "rewrite", "sweep", "restore", "putback"}
Starting == {"write", "exists", "create2", "read"} \union Takeover
Steps == Working \union Releasing \union Starting \union {"off", "done", "dead"}

Started == {p \in Processes : at[p] # "off"}
Alive == {p \in Processes : at[p] \notin {"off", "dead"}}
Unhealthy(p) == failures[p] >= 3

LeaseInit ==
    /\ lock = NoLease
    /\ stale = [p \in Processes |-> NoLease]
    /\ at = [p \in Processes |-> "off"]
    /\ seen = [p \in Processes |-> p]
    /\ failures = [p \in Processes |-> 0]
    /\ due = {}
    /\ overlapped = FALSE

(* A step to "next", with the history of overlapping starts. *)
Goto(p, next) ==
    /\ at' = [at EXCEPT ![p] = next]
    /\ overlapped' = (overlapped \/
         \E q, r \in Processes : q # r /\ at'[q] \in Takeover /\ at'[r] \in Starting)

-----------------------------------------------------------------------------
(* acquire: the exclusive create, then the contents.                       *)

CreateExclusive(p, from, made, taken) ==
    /\ at[p] = from
    /\ IF Present(lock)
       THEN Goto(p, taken) /\ UNCHANGED lock
       ELSE Goto(p, made) /\ lock' = Fresh(p, FALSE)
    /\ UNCHANGED <<stale, seen, failures, due>>

WriteContents(p, from, next) ==
    /\ at[p] = from
    /\ lock' = IF Present(lock) /\ lock.owner = p THEN [lock EXCEPT !.written = TRUE] ELSE lock
    /\ stale' = [q \in Processes |-> IF Present(stale[q]) /\ stale[q].owner = p
                                     THEN [stale[q] EXCEPT !.written = TRUE] ELSE stale[q]]
    /\ Goto(p, next)
    /\ UNCHANGED <<seen, failures, due>>

Acquire(p) == CreateExclusive(p, "off", "write", "exists")
AcquireWrites(p) == WriteContents(p, "write", "loop")

(* tryTakeover, when the lock has gone: acquire; it throws if that fails.  *)
AcquireAgain(p) == CreateExclusive(p, "create2", "write", "done")

-----------------------------------------------------------------------------
(* tryTakeover                                                             *)

TakeoverExists(p) ==
    /\ at[p] = "exists"
    /\ Goto(p, IF Present(lock) THEN "read" ELSE "create2")
    /\ UNCHANGED <<lock, stale, seen, failures, due>>

(* Faulty variant: the process that wrote the lease is not looked for.     *)
AbandonedByAge(file) == Readable(file) /\ file.age >= StaleAfter

(* The lease is old and the process that wrote it is gone. *)
Abandoned(file) ==
    Readable(file) /\ file.age >= StaleAfter /\ file.owner \notin Alive

TakeoverReads(p) ==
    /\ at[p] = "read"
    /\ IF Abandoned(lock)
       THEN seen' = [seen EXCEPT ![p] = lock.owner] /\ Goto(p, "confirm")
       ELSE Goto(p, "done") /\ UNCHANGED seen
    /\ UNCHANGED <<lock, stale, failures, due>>

TakeoverConfirms(p) ==
    /\ at[p] = "confirm"
    /\ Goto(p, IF Readable(lock) /\ lock.owner = seen[p] THEN "quarantine" ELSE "done")
    /\ UNCHANGED <<lock, stale, seen, failures, due>>

(* Whatever file is there by now is renamed away. *)
TakeoverQuarantines(p) ==
    /\ at[p] = "quarantine"
    /\ IF Present(lock)
       THEN /\ stale' = [stale EXCEPT ![seen[p]] = lock]
            /\ lock' = NoLease
            /\ Goto(p, "recreate")
       ELSE Goto(p, "restore") /\ UNCHANGED <<lock, stale>>
    /\ UNCHANGED <<seen, failures, due>>

TakeoverRecreates(p) == CreateExclusive(p, "recreate", "rewrite", "restore")
TakeoverWrites(p) == WriteContents(p, "rewrite", "sweep")

TakeoverSweeps(p) ==
    /\ at[p] = "sweep"
    /\ stale' = [stale EXCEPT ![seen[p]] = NoLease]
    /\ Goto(p, "loop")
    /\ UNCHANGED <<lock, seen, failures, due>>

TakeoverRestores(p) ==
    /\ at[p] = "restore"
    /\ Goto(p, IF Present(lock) THEN "done" ELSE "putback")
    /\ UNCHANGED <<lock, stale, seen, failures, due>>

TakeoverPutsBack(p) ==
    /\ at[p] = "putback"
    /\ IF Present(stale[seen[p]])
       THEN lock' = stale[seen[p]] /\ stale' = [stale EXCEPT ![seen[p]] = NoLease]
       ELSE UNCHANGED <<lock, stale>>
    /\ Goto(p, "done")
    /\ UNCHANGED <<seen, failures, due>>

-----------------------------------------------------------------------------
(* The heartbeat and the end of the loop                                   *)

Holds(p) == Readable(lock) /\ lock.owner = p

(* Faulty variant: the owner of the file is not compared. *)
HeartbeatReadsAny(p) ==
    /\ at[p] = "loop" /\ p \in due
    /\ due' = due \ {p}
    /\ Goto(p, "beat")
    /\ UNCHANGED <<lock, stale, seen, failures>>

HeartbeatReads(p) ==
    /\ at[p] = "loop" /\ p \in due
    /\ due' = due \ {p}
    /\ IF Holds(p)
       THEN Goto(p, "beat") /\ UNCHANGED failures
       ELSE /\ failures' = [failures EXCEPT ![p] = IF @ < 3 THEN @ + 1 ELSE @]
            /\ UNCHANGED <<at, overlapped>>
    /\ UNCHANGED <<lock, stale, seen>>

(* Its temporary file is renamed over the lock, whatever is there by now.  *)
HeartbeatRenames(p) ==
    /\ at[p] = "beat"
    /\ lock' = Fresh(p, TRUE)
    /\ failures' = [failures EXCEPT ![p] = 0]
    /\ Goto(p, "loop")
    /\ UNCHANGED <<stale, seen, due>>

(* The loop ends, by itself or because the heartbeat gave up. *)
LoopEnds(p) ==
    /\ at[p] = "loop"
    /\ Goto(p, "release")
    /\ due' = due \ {p}
    /\ UNCHANGED <<lock, stale, seen, failures>>

ReleaseReads(p) ==
    /\ at[p] = "release"
    /\ Goto(p, IF Present(lock) /\ ~Holds(p) THEN "done" ELSE "unlink")
    /\ UNCHANGED <<lock, stale, seen, failures, due>>

ReleaseUnlinks(p) ==
    /\ at[p] = "unlink"
    /\ lock' = NoLease
    /\ Goto(p, "done")
    /\ UNCHANGED <<stale, seen, failures, due>>

-----------------------------------------------------------------------------
(* Time, and the end of a process                                          *)

(* Processes between two operations of one synchronous call. *)
Busy == {p \in Processes : at[p] \notin {"off", "loop", "release", "done", "dead"}}

Older(file) ==
    IF Present(file) /\ file.age < StaleAfter THEN [file EXCEPT !.age = @ + 1] ELSE file

Tick ==
    /\ Prompt => Busy = {}
    /\ lock' = Older(lock)
    /\ stale' = [p \in Processes |-> Older(stale[p])]
    /\ due' = {p \in Processes : at[p] \in Working}
    /\ UNCHANGED <<at, seen, failures, overlapped>>

(* A kill, a crash, or the exit of a process that is done. *)
Exit(p) ==
    /\ p \in Alive
    /\ Goto(p, "dead")
    /\ due' = due \ {p}
    /\ UNCHANGED <<lock, stale, seen, failures>>

(* What a process does without being asked. *)
Proceeds(p) ==
    \/ AcquireWrites(p) \/ AcquireAgain(p)
    \/ TakeoverExists(p) \/ TakeoverReads(p) \/ TakeoverConfirms(p)
    \/ TakeoverQuarantines(p) \/ TakeoverRecreates(p) \/ TakeoverWrites(p)
    \/ TakeoverSweeps(p) \/ TakeoverRestores(p) \/ TakeoverPutsBack(p)
    \/ HeartbeatRenames(p) \/ ReleaseReads(p) \/ ReleaseUnlinks(p)

LeaseNext ==
    \/ Tick
    \/ \E p \in Processes :
          \/ Acquire(p) \/ Proceeds(p) \/ HeartbeatReads(p) \/ LoopEnds(p) \/ Exit(p)

SafeSpec == LeaseInit /\ [][LeaseNext]_leaseVars

(* The timers fire, a synchronous call goes on to its end, and an aborted  *)
(* turn returns.  A loop that is healthy need never end.                   *)
Fairness ==
    /\ WF_leaseVars(Tick)
    /\ \A p \in Processes :
          /\ WF_leaseVars(Proceeds(p))
          /\ WF_leaseVars(HeartbeatReads(p))
          /\ WF_leaseVars(Unhealthy(p) /\ LoopEnds(p))

LeaseSpec == SafeSpec /\ Fairness

-----------------------------------------------------------------------------
(* Properties                                                              *)

LeaseTypeOK ==
    /\ lock \in Files
    /\ stale \in [Processes -> Files]
    /\ at \in [Processes -> Steps]
    /\ seen \in [Processes -> Processes]
    /\ failures \in [Processes -> 0..3]
    /\ due \in SUBSET Processes
    /\ overlapped \in BOOLEAN

Owners == {p \in Processes : at[p] \in Working}

(* Two loops work in one directory only if a takeover ran while another    *)
(* process was starting: every other order of creates, reads, renames and  *)
(* unlinks of live and dead processes leaves one owner.                    *)
OneOwner == overlapped \/ \A p, q \in Owners : p = q

(* A loop that works has its lease in the file, so a process that starts   *)
(* later finds it.                                                         *)
OwnerIsVisible == overlapped \/ \A p \in Owners : Holds(p)

(* When two loops do work in one directory, their heartbeats find out: all *)
(* but at most one give up.                                                *)
SplitEnds == \A p, q \in Processes :
    (p # q /\ {p, q} \subseteq Owners) ~> ~({p, q} \subseteq Owners)

-----------------------------------------------------------------------------
(* Statements of documents and tests that the code does not keep; the      *)
(* README tells how each one fails                                         *)

(* tryTakeover's comment: it only succeeds on a lease whose heartbeat is   *)
(* old and whose process is gone.                                          *)
TakesOnlyAbandoned == [][\A p \in Processes :
    TakeoverQuarantines(p) /\ Present(lock) => Abandoned(lock)]_leaseVars
=============================================================================
