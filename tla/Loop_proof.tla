----------------------------- MODULE Loop_proof -----------------------------
(***************************************************************************)
(* Proofs about the autonomous loop: its lease (LoopLease), for any set of *)
(* processes and any staleness, and its runs (LoopRun), for any number of  *)
(* iterations, trees, starts, crashes, failed writes and edits.            *)
(***************************************************************************)
EXTENDS LoopLease, LoopRun, TLAPS

-----------------------------------------------------------------------------
(* The lease.  As long as no takeover has overlapped another start, the    *)
(* file names the process that is about to work or works, and a takeover   *)
(* under way has in front of it the lease of a dead process.  From that    *)
(* follow the one owner and the visible lease, and that no takeover ever   *)
(* has to put a lease back.                                                *)

(* The owner a file names has been started. *)
Named(file) == Present(file) => at[file.owner] # "off"
OwnersStarted == Named(lock) /\ \A p \in Processes : Named(stale[p])

(* Processes whose lease is in the file, and those that have written it.   *)
Written == {"loop", "beat", "release", "unlink", "sweep"}
Holding == Written \union {"write", "rewrite"}

NoOverlap == \A q, r \in Processes :
    q # r => ~(at[q] \in Takeover /\ at[r] \in Starting)
LeaseNamesHolder == \A p \in Processes :
    /\ at[p] \in Holding => Present(lock) /\ lock.owner = p
    /\ at[p] \in Written => lock.written
TakeoverFacesDead == \A q \in Processes : at[q] \in {"confirm", "quarantine"} =>
    Present(lock) /\ lock.owner = seen[q] /\ at[seen[q]] = "dead"
NothingPutBack == \A q \in Processes : at[q] \notin {"restore", "putback"}
PathIsFree == \A q \in Processes : at[q] = "recreate" => lock = NoLease

Orderly == NoOverlap /\ LeaseNamesHolder /\ TakeoverFacesDead /\ NothingPutBack /\ PathIsFree

LeaseInv == LeaseTypeOK /\ OwnersStarted /\ (overlapped \/ Orderly)

-----------------------------------------------------------------------------
(* Files and steps                                                         *)

LEMMA NoFileIsNoLease == NoLease \notin Lease
BY DEF NoLease, Lease

LEMMA FreshIsLease ==
    ASSUME NEW p \in Processes, NEW written \in BOOLEAN
    PROVE  /\ Fresh(p, written) \in Lease
           /\ Present(Fresh(p, written))
           /\ Fresh(p, written).owner = p
           /\ Fresh(p, written).written = written
<1>1. Fresh(p, written) \in Lease
  BY LeaseAssumption DEF Fresh, Lease
<1> QED
  BY <1>1, NoFileIsNoLease DEF Fresh, Present

(* The contents of p's own file, written. *)
Contents(file, p) ==
    IF Present(file) /\ file.owner = p THEN [file EXCEPT !.written = TRUE] ELSE file

(* Neither the contents nor the age of a file changes whose it is. *)
LEMMA ContentsKeepOwner ==
    ASSUME NEW p \in Processes, NEW file \in Files
    PROVE  /\ Contents(file, p) \in Files
           /\ Present(Contents(file, p)) <=> Present(file)
           /\ Contents(file, p).owner = file.owner
           /\ Present(file) /\ file.written => Contents(file, p).written
           /\ Present(file) /\ file.owner = p => Contents(file, p).written
<1>1. CASE Present(file) /\ file.owner = p
  <2>1. file \in Lease
    BY <1>1 DEF Files, Present
  <2>2. [file EXCEPT !.written = TRUE] \in Lease
    BY <2>1 DEF Lease
  <2> QED
    BY <1>1, <2>1, <2>2, NoFileIsNoLease DEF Contents, Files, Present, Lease
<1>2. CASE ~(Present(file) /\ file.owner = p)
  BY <1>2 DEF Contents
<1> QED
  BY <1>1, <1>2

LEMMA OlderKeepsOwner ==
    ASSUME NEW file \in Files
    PROVE  /\ Older(file) \in Files
           /\ Present(Older(file)) <=> Present(file)
           /\ Older(file).owner = file.owner
           /\ Present(file) => Older(file).written = file.written
<1>1. CASE Present(file) /\ file.age < StaleAfter
  <2>1. file \in Lease
    BY <1>1 DEF Files, Present
  <2>2. [file EXCEPT !.age = @ + 1] \in Lease
    BY <1>1, <2>1, LeaseAssumption DEF Lease
  <2> QED
    BY <1>1, <2>1, <2>2, NoFileIsNoLease DEF Older, Files, Present, Lease
<1>2. CASE ~(Present(file) /\ file.age < StaleAfter)
  BY <1>2 DEF Older
<1> QED
  BY <1>1, <1>2

LEMMA GotoMoves ==
    ASSUME LeaseTypeOK, NEW p \in Processes, NEW next \in Steps, Goto(p, next)
    PROVE  /\ at' \in [Processes -> Steps]
           /\ overlapped' \in BOOLEAN
           /\ at'[p] = next
           /\ \A q \in Processes : q # p => at'[q] = at[q]
           /\ ~overlapped' => ~overlapped /\ NoOverlap'
BY DEF LeaseTypeOK, Goto, NoOverlap

-----------------------------------------------------------------------------
(* Types                                                                   *)

LEMMA CreateTyped ==
    ASSUME LeaseTypeOK, NEW p \in Processes, NEW from, NEW made \in Steps, NEW taken \in Steps,
           CreateExclusive(p, from, made, taken)
    PROVE  LeaseTypeOK'
<1>1. at' \in [Processes -> Steps] /\ overlapped' \in BOOLEAN
  BY GotoMoves DEF CreateExclusive
<1>2. lock' \in Files
  BY FreshIsLease DEF CreateExclusive, LeaseTypeOK, Files
<1> QED
  BY <1>1, <1>2 DEF CreateExclusive, LeaseTypeOK

LEMMA WriteTyped ==
    ASSUME LeaseTypeOK, NEW p \in Processes, NEW from, NEW next \in Steps,
           WriteContents(p, from, next)
    PROVE  /\ LeaseTypeOK'
           /\ lock' = Contents(lock, p)
           /\ \A q \in Processes : stale'[q] = Contents(stale[q], p)
<1>1. at' \in [Processes -> Steps] /\ overlapped' \in BOOLEAN
  BY GotoMoves DEF WriteContents
<1>2. lock' = Contents(lock, p) /\ lock' \in Files
  BY ContentsKeepOwner DEF WriteContents, LeaseTypeOK, Contents
<1>3. stale' = [q \in Processes |-> Contents(stale[q], p)]
  BY DEF WriteContents, Contents
<1>4. stale' \in [Processes -> Files]
  BY <1>3, ContentsKeepOwner DEF LeaseTypeOK
<1> QED
  BY <1>1, <1>2, <1>3, <1>4 DEF WriteContents, LeaseTypeOK

LEMMA TickTyped ==
    ASSUME LeaseTypeOK, Tick
    PROVE  /\ LeaseTypeOK'
           /\ \A q \in Processes : stale'[q] = Older(stale[q])
<1>1. lock' \in Files
  BY OlderKeepsOwner DEF Tick, LeaseTypeOK
<1>2. stale' \in [Processes -> Files] /\ \A q \in Processes : stale'[q] = Older(stale[q])
  BY OlderKeepsOwner DEF Tick, LeaseTypeOK
<1> QED
  BY <1>1, <1>2 DEF Tick, LeaseTypeOK

LEMMA LeaseTypeStep ==
    ASSUME LeaseTypeOK, [LeaseNext]_leaseVars
    PROVE  LeaseTypeOK'
<1>1. CASE Tick
  BY <1>1, TickTyped
<1>2. ASSUME NEW p \in Processes, Acquire(p)
      PROVE  LeaseTypeOK'
  BY <1>2, CreateTyped DEF Acquire, Steps, Starting
<1>3. ASSUME NEW p \in Processes, Proceeds(p)
      PROVE  LeaseTypeOK'
  <2>1. CASE AcquireWrites(p)
    BY <2>1, WriteTyped DEF AcquireWrites, Steps, Working
  <2>2. CASE AcquireAgain(p)
    BY <2>2, CreateTyped DEF AcquireAgain, Steps, Starting
  <2>3. CASE TakeoverExists(p)
    BY <2>3, GotoMoves DEF TakeoverExists, LeaseTypeOK, Steps, Starting
  <2>4. CASE TakeoverReads(p)
    <3>1. at' \in [Processes -> Steps] /\ overlapped' \in BOOLEAN
      BY <2>4, GotoMoves DEF TakeoverReads, Steps, Starting, Takeover
    <3>2. Abandoned(lock) => lock.owner \in Processes
      BY DEF Abandoned, Readable, Present, LeaseTypeOK, Files, Lease
    <3>3. seen' \in [Processes -> Processes]
      BY <2>4, <3>2 DEF TakeoverReads, LeaseTypeOK
    <3> QED
      BY <2>4, <3>1, <3>3 DEF TakeoverReads, LeaseTypeOK
  <2>5. CASE TakeoverConfirms(p)
    BY <2>5, GotoMoves DEF TakeoverConfirms, LeaseTypeOK, Steps, Starting, Takeover
  <2>6. CASE TakeoverQuarantines(p)
    <3>1. at' \in [Processes -> Steps] /\ overlapped' \in BOOLEAN
      BY <2>6, GotoMoves DEF TakeoverQuarantines, Steps, Starting, Takeover
    <3> QED
      BY <2>6, <3>1 DEF TakeoverQuarantines, LeaseTypeOK, Files
  <2>7. CASE TakeoverRecreates(p)
    BY <2>7, CreateTyped DEF TakeoverRecreates, Steps, Starting, Takeover
  <2>8. CASE TakeoverWrites(p)
    BY <2>8, WriteTyped DEF TakeoverWrites, Steps, Starting, Takeover
  <2>9. CASE TakeoverSweeps(p)
    <3>1. at' \in [Processes -> Steps] /\ overlapped' \in BOOLEAN
      BY <2>9, GotoMoves DEF TakeoverSweeps, Steps, Working
    <3> QED
      BY <2>9, <3>1 DEF TakeoverSweeps, LeaseTypeOK, Files
  <2>10. CASE TakeoverRestores(p)
    BY <2>10, GotoMoves DEF TakeoverRestores, LeaseTypeOK, Steps, Starting, Takeover
  <2>11. CASE TakeoverPutsBack(p)
    <3>1. at' \in [Processes -> Steps] /\ overlapped' \in BOOLEAN
      BY <2>11, GotoMoves DEF TakeoverPutsBack, Steps
    <3> QED
      BY <2>11, <3>1 DEF TakeoverPutsBack, LeaseTypeOK, Files
  <2>12. CASE HeartbeatRenames(p)
    <3>1. at' \in [Processes -> Steps] /\ overlapped' \in BOOLEAN
      BY <2>12, GotoMoves DEF HeartbeatRenames, Steps, Working
    <3>2. lock' \in Files
      BY <2>12, FreshIsLease DEF HeartbeatRenames, Files
    <3>3. failures' \in [Processes -> 0..3]
      BY <2>12 DEF HeartbeatRenames, LeaseTypeOK
    <3> QED
      BY <2>12, <3>1, <3>2, <3>3 DEF HeartbeatRenames, LeaseTypeOK
  <2>13. CASE ReleaseReads(p)
    BY <2>13, GotoMoves DEF ReleaseReads, LeaseTypeOK, Steps, Releasing
  <2>14. CASE ReleaseUnlinks(p)
    <3>1. at' \in [Processes -> Steps] /\ overlapped' \in BOOLEAN
      BY <2>14, GotoMoves DEF ReleaseUnlinks, Steps
    <3> QED
      BY <2>14, <3>1 DEF ReleaseUnlinks, LeaseTypeOK, Files
  <2> QED
    BY <1>3, <2>1, <2>2, <2>3, <2>4, <2>5, <2>6, <2>7, <2>8, <2>9, <2>10, <2>11, <2>12,
       <2>13, <2>14 DEF Proceeds
<1>4. ASSUME NEW p \in Processes, HeartbeatReads(p)
      PROVE  LeaseTypeOK'
  <2>1. at' \in [Processes -> Steps] /\ overlapped' \in BOOLEAN
    BY <1>4, GotoMoves DEF HeartbeatReads, Steps, Working, LeaseTypeOK
  <2>2. failures' \in [Processes -> 0..3]
    BY <1>4 DEF HeartbeatReads, LeaseTypeOK
  <2> QED
    BY <1>4, <2>1, <2>2 DEF HeartbeatReads, LeaseTypeOK
<1>5. ASSUME NEW p \in Processes, LoopEnds(p)
      PROVE  LeaseTypeOK'
  <2>1. at' \in [Processes -> Steps] /\ overlapped' \in BOOLEAN
    BY <1>5, GotoMoves DEF LoopEnds, Steps, Releasing
  <2> QED
    BY <1>5, <2>1 DEF LoopEnds, LeaseTypeOK
<1>6. ASSUME NEW p \in Processes, Exit(p)
      PROVE  LeaseTypeOK'
  <2>1. at' \in [Processes -> Steps] /\ overlapped' \in BOOLEAN
    BY <1>6, GotoMoves DEF Exit, Steps
  <2> QED
    BY <1>6, <2>1 DEF Exit, LeaseTypeOK
<1>7. CASE UNCHANGED leaseVars
  BY <1>7 DEF leaseVars, LeaseTypeOK
<1> QED
  BY <1>1, <1>2, <1>3, <1>4, <1>5, <1>6, <1>7 DEF LeaseNext

-----------------------------------------------------------------------------
(* A file names a process that has been started                            *)

LEMMA StartedStay ==
    ASSUME LeaseTypeOK, [LeaseNext]_leaseVars, NEW q \in Processes, at[q] # "off"
    PROVE  at'[q] # "off"
<1>1. ASSUME NEW p \in Processes, NEW next \in Steps, Goto(p, next), next # "off"
      PROVE  at'[q] # "off"
  BY <1>1, GotoMoves
<1>2. ASSUME NEW p \in Processes, NEW from, NEW made \in Steps, NEW taken \in Steps,
             CreateExclusive(p, from, made, taken), made # "off", taken # "off"
      PROVE  at'[q] # "off"
  BY <1>1, <1>2 DEF CreateExclusive
<1>3. ASSUME NEW p \in Processes, NEW from, NEW next \in Steps,
             WriteContents(p, from, next), next # "off"
      PROVE  at'[q] # "off"
  BY <1>1, <1>3 DEF WriteContents
<1>4. CASE Tick \/ UNCHANGED leaseVars
  BY <1>4 DEF Tick, leaseVars
<1>5. ASSUME NEW p \in Processes, Acquire(p) \/ LoopEnds(p) \/ Exit(p)
      PROVE  at'[q] # "off"
  BY <1>1, <1>2, <1>5 DEF Acquire, LoopEnds, Exit, Steps, Starting, Releasing
<1>6. ASSUME NEW p \in Processes, HeartbeatReads(p)
      PROVE  at'[q] # "off"
  BY <1>1, <1>6 DEF HeartbeatReads, Steps, Working
<1>7. ASSUME NEW p \in Processes, Proceeds(p)
      PROVE  at'[q] # "off"
  <2>1. CASE AcquireWrites(p) \/ TakeoverWrites(p)
    BY <1>3, <2>1 DEF AcquireWrites, TakeoverWrites, Steps, Starting, Takeover, Working
  <2>2. CASE AcquireAgain(p) \/ TakeoverRecreates(p)
    BY <1>2, <2>2 DEF AcquireAgain, TakeoverRecreates, Steps, Starting, Takeover
  <2>3. CASE TakeoverExists(p) \/ TakeoverReads(p) \/ TakeoverConfirms(p)
    BY <1>1, <2>3 DEF TakeoverExists, TakeoverReads, TakeoverConfirms, Steps, Starting, Takeover
  <2>4. CASE TakeoverQuarantines(p) \/ TakeoverSweeps(p)
    BY <1>1, <2>4 DEF TakeoverQuarantines, TakeoverSweeps, Steps, Starting, Takeover, Working
  <2>5. CASE TakeoverRestores(p) \/ TakeoverPutsBack(p)
    BY <1>1, <2>5 DEF TakeoverRestores, TakeoverPutsBack, Steps, Starting, Takeover
  <2>6. CASE HeartbeatRenames(p) \/ ReleaseReads(p) \/ ReleaseUnlinks(p)
    BY <1>1, <2>6 DEF HeartbeatRenames, ReleaseReads, ReleaseUnlinks, Steps, Working, Releasing
  <2> QED
    BY <1>7, <2>1, <2>2, <2>3, <2>4, <2>5, <2>6 DEF Proceeds
<1> QED
  BY <1>4, <1>5, <1>6, <1>7 DEF LeaseNext

(* A file that was there before, under any name, names the same process.   *)
LEMMA FilesKeepOwners ==
    ASSUME LeaseTypeOK, [LeaseNext]_leaseVars
    PROVE  /\ \/ Present(lock') => Present(lock) /\ lock'.owner = lock.owner
              \/ \E p \in Processes : lock' \in Lease /\ lock'.owner = p /\ at'[p] # "off"
              \/ \E p \in Processes : lock' = stale[p]
           /\ \A q \in Processes :
                 \/ Present(stale'[q]) => Present(stale[q]) /\ stale'[q].owner = stale[q].owner
                 \/ stale'[q] = lock
<1> DEFINE Lock == \/ Present(lock') => Present(lock) /\ lock'.owner = lock.owner
                   \/ \E p \in Processes : lock' \in Lease /\ lock'.owner = p /\ at'[p] # "off"
                   \/ \E p \in Processes : lock' = stale[p]
           Aside == \A q \in Processes :
                 \/ Present(stale'[q]) => Present(stale[q]) /\ stale'[q].owner = stale[q].owner
                 \/ stale'[q] = lock
<1> SUFFICES Lock /\ Aside
  OBVIOUS
<1>1. CASE UNCHANGED <<lock, stale>>
  BY <1>1
<1>2. CASE Tick
  <2>1. lock' = Older(lock) /\ \A q \in Processes : stale'[q] = Older(stale[q])
    BY <1>2, TickTyped DEF Tick
  <2> QED
    BY <2>1, OlderKeepsOwner DEF LeaseTypeOK
<1>3. ASSUME NEW p \in Processes, NEW from, NEW made \in Steps, NEW taken \in Steps,
             CreateExclusive(p, from, made, taken), made # "off"
      PROVE  Lock /\ Aside
  <2>1. CASE Present(lock)
    BY <1>3, <2>1 DEF CreateExclusive
  <2>2. CASE ~Present(lock)
    <3>1. lock' = Fresh(p, FALSE) /\ stale' = stale /\ at'[p] # "off"
      BY <1>3, <2>2, GotoMoves DEF CreateExclusive
    <3> QED
      BY <3>1, FreshIsLease
  <2> QED
    BY <2>1, <2>2
<1>4. ASSUME NEW p \in Processes, NEW from, NEW next \in Steps, WriteContents(p, from, next)
      PROVE  Lock /\ Aside
  <2>1. lock' = Contents(lock, p) /\ \A q \in Processes : stale'[q] = Contents(stale[q], p)
    BY <1>4, WriteTyped
  <2> QED
    BY <2>1, ContentsKeepOwner DEF LeaseTypeOK
<1>5. ASSUME NEW p \in Processes, Proceeds(p)
      PROVE  Lock /\ Aside
  <2>1. CASE AcquireWrites(p) \/ TakeoverWrites(p)
    BY <1>4, <2>1 DEF AcquireWrites, TakeoverWrites, Steps, Starting, Takeover, Working
  <2>2. CASE AcquireAgain(p) \/ TakeoverRecreates(p)
    BY <1>3, <2>2 DEF AcquireAgain, TakeoverRecreates, Steps, Starting, Takeover
  <2>3. CASE TakeoverExists(p) \/ TakeoverReads(p) \/ TakeoverConfirms(p)
             \/ TakeoverRestores(p) \/ ReleaseReads(p)
    BY <1>1, <2>3 DEF TakeoverExists, TakeoverReads, TakeoverConfirms, TakeoverRestores,
                      ReleaseReads
  <2>4. CASE TakeoverQuarantines(p)
    <3>1. CASE Present(lock)
      BY <2>4, <3>1 DEF TakeoverQuarantines, LeaseTypeOK, Present
    <3>2. CASE ~Present(lock)
      BY <1>1, <2>4, <3>2 DEF TakeoverQuarantines
    <3> QED
      BY <3>1, <3>2
  <2>5. CASE TakeoverSweeps(p)
    BY <2>5 DEF TakeoverSweeps, LeaseTypeOK, Present
  <2>6. CASE TakeoverPutsBack(p)
    BY <2>6 DEF TakeoverPutsBack, LeaseTypeOK, Present
  <2>7. CASE HeartbeatRenames(p)
    <3>1. lock' = Fresh(p, TRUE) /\ stale' = stale /\ at'[p] # "off"
      BY <2>7, GotoMoves DEF HeartbeatRenames, Steps, Working
    <3> QED
      BY <3>1, FreshIsLease
  <2>8. CASE ReleaseUnlinks(p)
    BY <2>8 DEF ReleaseUnlinks, Present
  <2> QED
    BY <1>5, <2>1, <2>2, <2>3, <2>4, <2>5, <2>6, <2>7, <2>8 DEF Proceeds
<1>6. ASSUME NEW p \in Processes, Acquire(p)
      PROVE  Lock /\ Aside
  BY <1>3, <1>6 DEF Acquire, Steps, Starting
<1>7. ASSUME NEW p \in Processes, HeartbeatReads(p) \/ LoopEnds(p) \/ Exit(p)
      PROVE  Lock /\ Aside
  BY <1>1, <1>7 DEF HeartbeatReads, LoopEnds, Exit
<1>8. CASE UNCHANGED leaseVars
  BY <1>1, <1>8 DEF leaseVars
<1> QED
  BY <1>2, <1>5, <1>6, <1>7, <1>8 DEF LeaseNext

LEMMA NamedStep ==
    ASSUME LeaseTypeOK, OwnersStarted, [LeaseNext]_leaseVars
    PROVE  OwnersStarted'
<1>1. ASSUME NEW file \in Files, Named(file), Present(file)
      PROVE  at'[file.owner] # "off"
  <2>1. file.owner \in Processes
    BY <1>1 DEF Files, Present, Lease
  <2> QED
    BY <1>1, <2>1, StartedStay DEF Named
<1>2. Present(lock') => at'[lock'.owner] # "off"
  BY <1>1, FilesKeepOwners DEF OwnersStarted, LeaseTypeOK
<1>3. ASSUME NEW q \in Processes, Present(stale'[q])
      PROVE  at'[stale'[q].owner] # "off"
  BY <1>1, <1>3, FilesKeepOwners DEF OwnersStarted, LeaseTypeOK
<1> QED
  BY <1>2, <1>3 DEF OwnersStarted, Named

-----------------------------------------------------------------------------
(* One order of starts, one owner                                          *)

Settled == LeaseNamesHolder /\ TakeoverFacesDead /\ NothingPutBack /\ PathIsFree

(* A step that leaves the lease with its owner settles if the process that *)
(* makes it may be where it goes.                                          *)
LEMMA LeaseKept ==
    ASSUME LeaseTypeOK, LeaseTypeOK', Orderly,
           NEW p \in Processes, NEW next \in Steps, Goto(p, next), at[p] # "dead",
           Present(lock') <=> Present(lock), lock'.owner = lock.owner,
           Present(lock) /\ lock.written => lock'.written,
           \A q \in Processes : q # p => seen'[q] = seen[q],
           next \in Holding => Present(lock) /\ lock.owner = p,
           next \in Written => lock'.written,
           next \in {"confirm", "quarantine"} =>
               Present(lock) /\ lock.owner = seen'[p] /\ seen'[p] # p
                   /\ at[seen'[p]] = "dead",
           next \notin {"restore", "putback"},
           next = "recreate" => lock' = NoLease
    PROVE  Settled'
<1>1. /\ at' \in [Processes -> Steps] /\ at'[p] = next
      /\ \A q \in Processes : q # p => at'[q] = at[q]
  BY GotoMoves
<1>2. LeaseNamesHolder'
  BY <1>1 DEF Orderly, LeaseNamesHolder, Holding, Written
<1>3. TakeoverFacesDead'
  BY <1>1 DEF Orderly, TakeoverFacesDead, LeaseTypeOK
<1>4. NothingPutBack' /\ PathIsFree'
  BY <1>1 DEF Orderly, NothingPutBack, PathIsFree, Present
<1> QED
  BY <1>2, <1>3, <1>4 DEF Settled

(* While nothing has overlapped, the lease of a process that holds it is   *)
(* not the one a takeover faces, and is the only one.                      *)
LEMMA OneHolder ==
    ASSUME Orderly, NEW p \in Processes, at[p] \in Holding
    PROVE  /\ \A q \in Processes : at[q] \in Holding => q = p
           /\ \A q \in Processes : at[q] \notin {"confirm", "quarantine", "recreate"}
BY DEF Orderly, LeaseNamesHolder, TakeoverFacesDead, PathIsFree, Holding, Written, Present

LEMMA CreateSettles ==
    ASSUME LeaseTypeOK, LeaseTypeOK', Orderly, NoOverlap',
           NEW p \in Processes, NEW from \in {"off", "create2", "recreate"},
           NEW made \in {"write", "rewrite"}, NEW taken \in {"exists", "done", "restore"},
           CreateExclusive(p, from, made, taken),
           from = "recreate" <=> taken = "restore",
           from = "recreate" <=> made = "rewrite"
    PROVE  Settled'
<1> made \in Steps /\ taken \in Steps
  BY DEF Steps, Starting, Takeover
<1>1. CASE Present(lock)
  <2>1. Goto(p, taken) /\ lock' = lock /\ seen' = seen /\ taken # "restore"
    BY <1>1 DEF CreateExclusive, Orderly, PathIsFree, Present
  <2> QED
    BY <2>1, LeaseKept DEF CreateExclusive, Holding, Written
<1>2. CASE ~Present(lock)
  <2>1. Goto(p, made) /\ lock' = Fresh(p, FALSE) /\ seen' = seen
    BY <1>2 DEF CreateExclusive
  <2>2. /\ at'[p] = made
        /\ \A q \in Processes : q # p => at'[q] = at[q]
    BY <2>1, GotoMoves
  <2>3. \A q \in Processes : at[q] \notin Holding \union {"confirm", "quarantine"}
    BY <1>2 DEF Orderly, LeaseNamesHolder, TakeoverFacesDead
  <2>4. \A q \in Processes : q # p => at[q] # "recreate"
    BY <2>2 DEF NoOverlap, Takeover, Starting
  <2>5. LeaseNamesHolder'
    BY <2>1, <2>2, <2>3, FreshIsLease DEF LeaseNamesHolder, Holding, Written
  <2>6. TakeoverFacesDead' /\ NothingPutBack' /\ PathIsFree'
    BY <2>2, <2>3, <2>4 DEF TakeoverFacesDead, Orderly, NothingPutBack, PathIsFree
  <2> QED
    BY <2>5, <2>6 DEF Settled
<1> QED
  BY <1>1, <1>2

LEMMA WriteSettles ==
    ASSUME LeaseTypeOK, LeaseTypeOK', Orderly, NEW p \in Processes, NEW from \in {"write", "rewrite"},
           NEW next \in {"loop", "sweep"}, WriteContents(p, from, next)
    PROVE  Settled'
<1>1. Present(lock) /\ lock.owner = p
  BY DEF WriteContents, Orderly, LeaseNamesHolder, Holding
<1>2. lock' = Contents(lock, p)
  BY WriteTyped DEF Steps, Working, Starting, Takeover
<1>3. /\ Present(lock') <=> Present(lock)
      /\ lock'.owner = lock.owner
      /\ lock'.written
  BY <1>1, <1>2, ContentsKeepOwner DEF LeaseTypeOK
<1>4. next \in Steps /\ Goto(p, next) /\ at[p] # "dead" /\ seen' = seen
  BY DEF WriteContents, Steps, Working, Starting, Takeover
<1> QED
  BY <1>1, <1>3, <1>4, LeaseKept

LEMMA NoOverlapStep ==
    ASSUME LeaseTypeOK, overlapped \/ Orderly, [LeaseNext]_leaseVars, ~overlapped'
    PROVE  Orderly /\ NoOverlap'
<1>1. ASSUME UNCHANGED <<at, overlapped>>
      PROVE  Orderly /\ NoOverlap'
  BY <1>1 DEF Orderly, NoOverlap
<1>2. ASSUME NEW p \in Processes, NEW next \in Steps, Goto(p, next)
      PROVE  Orderly /\ NoOverlap'
  BY <1>2, GotoMoves
<1>3. ASSUME NEW p \in Processes, NEW from, NEW made \in Steps, NEW taken \in Steps,
             CreateExclusive(p, from, made, taken)
      PROVE  Orderly /\ NoOverlap'
  BY <1>2, <1>3 DEF CreateExclusive
<1>4. ASSUME NEW p \in Processes, Proceeds(p)
      PROVE  Orderly /\ NoOverlap'
  <2>1. CASE AcquireWrites(p) \/ TakeoverWrites(p)
    BY <1>2, <2>1 DEF AcquireWrites, TakeoverWrites, WriteContents, Steps, Starting, Takeover,
                      Working
  <2>2. CASE AcquireAgain(p) \/ TakeoverRecreates(p)
    BY <1>3, <2>2 DEF AcquireAgain, TakeoverRecreates, Steps, Starting, Takeover
  <2>3. CASE TakeoverExists(p) \/ TakeoverReads(p) \/ TakeoverConfirms(p)
    BY <1>2, <2>3 DEF TakeoverExists, TakeoverReads, TakeoverConfirms, Steps, Starting, Takeover
  <2>4. CASE TakeoverQuarantines(p) \/ TakeoverSweeps(p)
    BY <1>2, <2>4 DEF TakeoverQuarantines, TakeoverSweeps, Steps, Starting, Takeover, Working
  <2>5. CASE TakeoverRestores(p) \/ TakeoverPutsBack(p)
    BY <1>2, <2>5 DEF TakeoverRestores, TakeoverPutsBack, Steps, Starting, Takeover
  <2>6. CASE HeartbeatRenames(p) \/ ReleaseReads(p) \/ ReleaseUnlinks(p)
    BY <1>2, <2>6 DEF HeartbeatRenames, ReleaseReads, ReleaseUnlinks, Steps, Working, Releasing
  <2> QED
    BY <1>4, <2>1, <2>2, <2>3, <2>4, <2>5, <2>6 DEF Proceeds
<1>5. ASSUME NEW p \in Processes, Acquire(p) \/ LoopEnds(p) \/ Exit(p)
      PROVE  Orderly /\ NoOverlap'
  BY <1>2, <1>3, <1>5 DEF Acquire, LoopEnds, Exit, Steps, Starting, Releasing
<1>6. ASSUME NEW p \in Processes, HeartbeatReads(p)
      PROVE  Orderly /\ NoOverlap'
  BY <1>1, <1>2, <1>6 DEF HeartbeatReads, Steps, Working
<1>7. CASE Tick \/ UNCHANGED leaseVars
  BY <1>1, <1>7 DEF Tick, leaseVars
<1> QED
  BY <1>4, <1>5, <1>6, <1>7 DEF LeaseNext

LEMMA OrderStep ==
    ASSUME LeaseTypeOK, OwnersStarted, overlapped \/ Orderly, [LeaseNext]_leaseVars
    PROVE  overlapped' \/ Orderly'
<1> SUFFICES ASSUME ~overlapped' PROVE Orderly'
  OBVIOUS
<1>1. Orderly /\ NoOverlap' /\ LeaseTypeOK'
  BY NoOverlapStep, LeaseTypeStep
<1>2. CASE Tick
  <2>1. /\ Present(lock') <=> Present(lock)
        /\ lock'.owner = lock.owner
        /\ Present(lock) => lock'.written = lock.written
    BY <1>2, OlderKeepsOwner DEF Tick, LeaseTypeOK
  <2>2. at' = at /\ seen' = seen
    BY <1>2 DEF Tick
  <2>3. LeaseNamesHolder' /\ TakeoverFacesDead' /\ NothingPutBack' /\ PathIsFree'
    BY <1>1, <2>1, <2>2 DEF Orderly, LeaseNamesHolder, TakeoverFacesDead, NothingPutBack,
                            PathIsFree, Holding, Written, Present
  <2> QED
    BY <1>1, <2>3 DEF Orderly
<1>3. CASE UNCHANGED leaseVars
  BY <1>1, <1>3 DEF leaseVars, Orderly, NoOverlap, LeaseNamesHolder, TakeoverFacesDead,
                    NothingPutBack, PathIsFree
<1>4. ASSUME NEW p \in Processes, Acquire(p)
      PROVE  Settled'
  BY <1>1, <1>4, CreateSettles DEF Acquire
<1>5. ASSUME NEW p \in Processes, Exit(p)
      PROVE  Settled'
  BY <1>1, <1>5, LeaseKept DEF Exit, Alive, Steps, Holding, Written
<1>6. ASSUME NEW p \in Processes, LoopEnds(p)
      PROVE  Settled'
  <2>1. Present(lock) /\ lock.owner = p /\ lock.written
    BY <1>1, <1>6 DEF LoopEnds, Orderly, LeaseNamesHolder, Holding, Written
  <2> QED
    BY <1>1, <1>6, <2>1, LeaseKept DEF LoopEnds, Steps, Releasing
<1>7. ASSUME NEW p \in Processes, HeartbeatReads(p)
      PROVE  Settled'
  <2>1. Present(lock) /\ lock.owner = p /\ lock.written
    BY <1>1, <1>7 DEF HeartbeatReads, Orderly, LeaseNamesHolder, Holding, Written
  <2> QED
    BY <1>1, <1>7, <2>1, LeaseKept DEF HeartbeatReads, Holds, Readable, Steps, Working
<1>8. ASSUME NEW p \in Processes, Proceeds(p)
      PROVE  Settled'
  <2>1. CASE AcquireWrites(p) \/ TakeoverWrites(p)
    BY <1>1, <2>1, WriteSettles DEF AcquireWrites, TakeoverWrites
  <2>2. CASE AcquireAgain(p)
    BY <1>1, <2>2, CreateSettles DEF AcquireAgain
  <2>3. CASE TakeoverRecreates(p)
    BY <1>1, <2>3, CreateSettles DEF TakeoverRecreates
  <2>4. CASE TakeoverExists(p)
    BY <1>1, <2>4, LeaseKept DEF TakeoverExists, Steps, Starting, Holding, Written
  <2>5. CASE TakeoverReads(p)
    <3>1. CASE Abandoned(lock)
      <4>1. lock \in Lease
        BY <3>1 DEF Abandoned, Readable, Present, LeaseTypeOK, Files
      <4>2. lock.owner \in Processes /\ at[lock.owner] = "dead"
        BY <3>1, <4>1 DEF Abandoned, Readable, Alive, OwnersStarted, Named, Lease
      <4>3. seen'[p] = lock.owner /\ \A q \in Processes : q # p => seen'[q] = seen[q]
        BY <2>5, <3>1, <4>2 DEF TakeoverReads, LeaseTypeOK
      <4>4. Present(lock) /\ lock.owner # p
        BY <2>5, <3>1, <4>2 DEF TakeoverReads, Abandoned, Readable
      <4>5. Goto(p, "confirm") /\ lock' = lock /\ at[p] = "read"
        BY <2>5, <3>1 DEF TakeoverReads
      <4> QED
        BY <1>1, <4>2, <4>3, <4>4, <4>5, LeaseKept DEF Steps, Starting, Takeover, Holding, Written
    <3>2. CASE ~Abandoned(lock)
      BY <1>1, <2>5, <3>2, LeaseKept DEF TakeoverReads, Steps, Holding, Written
    <3> QED
      BY <3>1, <3>2
  <2>6. CASE TakeoverConfirms(p)
    BY <1>1, <2>6, LeaseKept DEF TakeoverConfirms, Steps, Starting, Takeover, Holding, Written,
                                 Orderly, TakeoverFacesDead
  <2>7. CASE TakeoverQuarantines(p)
    <3>1. Present(lock) /\ lock.owner = seen[p] /\ at[seen[p]] = "dead"
      BY <1>1, <2>7 DEF TakeoverQuarantines, Orderly, TakeoverFacesDead
    <3>2. Goto(p, "recreate") /\ lock' = NoLease /\ seen' = seen
      BY <2>7, <3>1 DEF TakeoverQuarantines
    <3>3. /\ at'[p] = "recreate"
          /\ \A q \in Processes : q # p => at'[q] = at[q]
      BY <3>2, GotoMoves DEF Steps, Starting, Takeover
    <3>4. \A q \in Processes : at[q] \notin Holding
      BY <1>1, <3>1 DEF Orderly, LeaseNamesHolder, Holding, Written
    <3>5. \A q \in Processes : q # p => at[q] \notin Takeover
      BY <1>1, <2>7 DEF TakeoverQuarantines, Orderly, NoOverlap, Starting, Takeover
    <3>6. LeaseNamesHolder'
      BY <3>3, <3>4 DEF LeaseNamesHolder, Holding, Written
    <3>7. TakeoverFacesDead' /\ NothingPutBack' /\ PathIsFree'
      BY <1>1, <3>2, <3>3, <3>5 DEF TakeoverFacesDead, Orderly, NothingPutBack, PathIsFree, Takeover
    <3> QED
      BY <3>6, <3>7 DEF Settled
  <2>8. CASE TakeoverSweeps(p)
    <3>1. Present(lock) /\ lock.owner = p /\ lock.written
      BY <1>1, <2>8 DEF TakeoverSweeps, Orderly, LeaseNamesHolder, Holding, Written
    <3> QED
      BY <1>1, <2>8, <3>1, LeaseKept DEF TakeoverSweeps, Steps, Working
  <2>9. CASE TakeoverRestores(p) \/ TakeoverPutsBack(p)
    BY <1>1, <2>9 DEF TakeoverRestores, TakeoverPutsBack, Orderly, NothingPutBack
  <2>10. CASE HeartbeatRenames(p)
    <3>1. Present(lock) /\ lock.owner = p
      BY <1>1, <2>10 DEF HeartbeatRenames, Orderly, LeaseNamesHolder, Holding, Written
    <3>2. Present(lock') /\ lock'.owner = p /\ lock'.written
      BY <2>10, FreshIsLease DEF HeartbeatRenames
    <3> QED
      BY <1>1, <2>10, <3>1, <3>2, LeaseKept DEF HeartbeatRenames, Steps, Working
  <2>11. CASE ReleaseReads(p)
    <3>1. Present(lock) /\ lock.owner = p /\ lock.written
      BY <1>1, <2>11 DEF ReleaseReads, Orderly, LeaseNamesHolder, Holding, Written
    <3> QED
      BY <1>1, <2>11, <3>1, LeaseKept DEF ReleaseReads, Holds, Readable, Steps, Releasing
  <2>12. CASE ReleaseUnlinks(p)
    <3>1. /\ lock' = NoLease /\ seen' = seen /\ at[p] = "unlink"
          /\ at'[p] = "done"
          /\ \A q \in Processes : q # p => at'[q] = at[q]
      BY <2>12, GotoMoves DEF ReleaseUnlinks, Steps
    <3>2. /\ \A q \in Processes : at[q] \in Holding => q = p
          /\ \A q \in Processes : at[q] \notin {"confirm", "quarantine", "recreate"}
      BY <1>1, <3>1, OneHolder DEF Holding, Written
    <3>3. LeaseNamesHolder'
      BY <3>1, <3>2 DEF LeaseNamesHolder, Holding, Written
    <3>4. TakeoverFacesDead' /\ NothingPutBack' /\ PathIsFree'
      BY <1>1, <3>1, <3>2 DEF TakeoverFacesDead, Orderly, NothingPutBack, PathIsFree
    <3> QED
      BY <3>3, <3>4 DEF Settled
  <2> QED
    BY <1>8, <2>1, <2>2, <2>3, <2>4, <2>5, <2>6, <2>7, <2>8, <2>9, <2>10, <2>11, <2>12
    DEF Proceeds
<1>9. Settled' => Orderly'
  BY <1>1 DEF Settled, Orderly
<1> QED
  BY <1>2, <1>3, <1>4, <1>5, <1>6, <1>7, <1>8, <1>9 DEF LeaseNext

-----------------------------------------------------------------------------
(* Theorems                                                                *)

LEMMA LeaseInvInit ==
    ASSUME LeaseInit
    PROVE  LeaseInv
<1>1. LeaseTypeOK
  <2>1. NoLease \in Files /\ "off" \in Steps /\ 0 \in 0..3
    BY DEF Files, Steps
  <2>2. lock \in Files /\ stale \in [Processes -> Files] /\ at \in [Processes -> Steps]
    BY <2>1 DEF LeaseInit
  <2>3. seen \in [Processes -> Processes] /\ failures \in [Processes -> 0..3]
    BY <2>1 DEF LeaseInit
  <2> QED
    BY <2>2, <2>3 DEF LeaseInit, LeaseTypeOK
<1>2. OwnersStarted
  BY DEF LeaseInit, OwnersStarted, Named, Present
<1>3. Orderly
  BY DEF LeaseInit, Orderly, NoOverlap, LeaseNamesHolder, TakeoverFacesDead, NothingPutBack, PathIsFree,
         Holding, Written, Takeover
<1> QED
  BY <1>1, <1>2, <1>3 DEF LeaseInv

LEMMA LeaseInvStep ==
    ASSUME LeaseInv, [LeaseNext]_leaseVars
    PROVE  LeaseInv'
<1>1. LeaseTypeOK /\ OwnersStarted /\ (overlapped \/ Orderly)
  BY DEF LeaseInv
<1> QED
  BY <1>1, LeaseTypeStep, NamedStep, OrderStep DEF LeaseInv

(* The lock file, the quarantined files and the processes' steps, failure  *)
(* counts and timers stay in their types, whatever dies in between.        *)
THEOREM LeaseTypeCorrect == LeaseSpec => []LeaseTypeOK
<1>1. LeaseTypeOK /\ [LeaseNext]_leaseVars => LeaseTypeOK'
  BY LeaseTypeStep
<1>2. LeaseInit => LeaseTypeOK
  BY LeaseInvInit DEF LeaseInv
<1> QED
  BY <1>1, <1>2, PTL DEF LeaseSpec, SafeSpec

(* While no takeover has overlapped another start, the lock file names the *)
(* process that is about to work, works or releases, and a takeover has in *)
(* front of it the lease of a process that is dead.                        *)
THEOREM LeaseInvCorrect == LeaseSpec => []LeaseInv
<1> QED
  BY LeaseInvInit, LeaseInvStep, PTL DEF LeaseSpec, SafeSpec

(* Two loops work in one directory only if a takeover overlapped another   *)
(* start, for any number of processes and any staleness: acquire, the      *)
(* heartbeat and release alone never let a second owner in.                *)
THEOREM OneOwnerHolds == LeaseSpec => []OneOwner
<1>1. LeaseInv => OneOwner
  BY DEF LeaseInv, Orderly, LeaseNamesHolder, OneOwner, Owners, Holding, Written, Working
<1> QED
  BY <1>1, LeaseInvCorrect, PTL

(* A loop that works has its own, readable lease in the lock file as long  *)
(* as no takeover overlapped another start: what a later acquire reads.    *)
THEOREM OwnerVisible == LeaseSpec => []OwnerIsVisible
<1>1. LeaseInv => OwnerIsVisible
  BY DEF LeaseInv, Orderly, LeaseNamesHolder, OwnerIsVisible, Owners, Holding, Written, Working, Holds,
         Readable
<1> QED
  BY <1>1, LeaseInvCorrect, PTL

(* A takeover never finds, after its quarantine, the path occupied by      *)
(* another process, so no lease is ever put back, unless starts overlap.   *)
THEOREM NoPutBack == LeaseSpec => [](overlapped \/ NothingPutBack)
<1>1. LeaseInv => (overlapped \/ NothingPutBack)
  BY DEF LeaseInv, Orderly
<1> QED
  BY <1>1, LeaseInvCorrect, PTL

-----------------------------------------------------------------------------
(* The runs.                                                               *)

Drivers == [run : Nat, iteration : Nat, sequence : Nat, noProgress : Nat,
            gates : SUBSET Gates, restored : Checkpoint \union {NoFile}, unhealthy : BOOLEAN]
Turns == [contract : Contracts, status : Statuses, passed : BOOLEAN]
Savings == [checkpoint : Checkpoint \union {NoFile}, next : {"off", "top", "flag", "signalled"}]

LEMMA NoFileIsNone == NoFile \notin Checkpoint /\ NoFile \notin Candidate /\ NoFile \notin Flag
BY DEF NoFile, Checkpoint, Candidate, Flag

(* The checkpoints that the driver writes.                                 *)
LEMMA SnapshotType ==
    ASSUME TypeOK, NEW phase \in Phases, NEW gates \in SUBSET Gates
    PROVE  /\ Snapshot(phase, gates) \in Checkpoint
           /\ Snapshot(phase, gates).iteration = driver.iteration
           /\ Snapshot(phase, gates).sequence = driver.sequence + 1
           /\ Snapshot(phase, gates).phase = phase
           /\ Exists(Snapshot(phase, gates))
<1>1. Snapshot(phase, gates) \in Checkpoint
  BY DEF TypeOK, Snapshot, Checkpoint
<1>. QED
  BY <1>1, NoFileIsNone DEF Snapshot, Exists

LEMMA IterationSnapshotType ==
    ASSUME TypeOK, NEW gates \in SUBSET Gates
    PROVE  /\ IterationSnapshot(gates) \in Checkpoint
           /\ IterationSnapshot(gates).iteration = driver.iteration
           /\ IterationSnapshot(gates).sequence = driver.sequence + 1
           /\ IterationSnapshot(gates).phase = "iteration-complete"
           /\ Exists(IterationSnapshot(gates))
<1>. DEFINE snapshot == Snapshot("iteration-complete", gates)
<1>1. snapshot \in Checkpoint /\ snapshot.contract \in Contracts
  BY SnapshotType DEF Checkpoint, Phases, Endings
<1>2. [snapshot.contract EXCEPT !.acceptance = turn.contract.acceptance] \in Contracts
  BY <1>1 DEF TypeOK, Contracts
<1>3. IterationSnapshot(gates) =
        [snapshot EXCEPT !.contract = [snapshot.contract EXCEPT !.acceptance = turn.contract.acceptance]]
  BY DEF IterationSnapshot
<1>4. /\ snapshot.iteration = driver.iteration /\ snapshot.sequence = driver.sequence + 1
      /\ snapshot.phase = "iteration-complete"
  BY DEF Snapshot
<1>. HIDE DEF snapshot
<1>5. IterationSnapshot(gates) \in Checkpoint
  BY <1>1, <1>2, <1>3 DEF Checkpoint
<1>. QED
  BY <1>1, <1>3, <1>4, <1>5, NoFileIsNone DEF Checkpoint, Exists

(* Every save begins alike.                                                *)
LEMMA SaveBegins ==
    ASSUME TypeOK, NEW checkpoint \in Checkpoint, NEW next \in {"off", "top", "flag", "signalled"},
           NEW gates \in SUBSET Gates, Save(checkpoint, next, gates)
    PROVE  /\ pc' = "backup" /\ saving' \in Savings /\ driver' \in Drivers /\ turn' \in Turns
           /\ saving'.checkpoint = checkpoint /\ saving'.next = next
           /\ driver'.iteration = driver.iteration /\ driver'.run = driver.run
           /\ driver'.sequence = driver.sequence + 1
<1>1. saving' \in Savings /\ saving'.checkpoint = checkpoint /\ saving'.next = next
  BY DEF Save, Savings
<1>2. /\ driver' \in Drivers /\ driver'.iteration = driver.iteration /\ driver'.run = driver.run
      /\ driver'.sequence = driver.sequence + 1
  <2>1. driver \in Drivers
    BY DEF TypeOK, Drivers
  <2>2. driver' = [driver EXCEPT !.sequence = driver.sequence + 1, !.gates = gates]
    BY DEF Save
  <2>3. driver.sequence + 1 \in Nat
    BY DEF TypeOK
  <2>4. driver' = [run |-> driver.run, iteration |-> driver.iteration,
                   sequence |-> driver.sequence + 1, noProgress |-> driver.noProgress,
                   gates |-> gates, restored |-> driver.restored, unhealthy |-> driver.unhealthy]
    BY <2>1, <2>2 DEF Drivers
  <2>. QED
    BY <2>1, <2>3, <2>4 DEF Drivers
<1>3. turn' \in Turns
  <2>1. NoTurn \in Turns
    BY LoopAssumption DEF NoTurn, Turns, Contracts, Versions, Statuses
  <2>. QED
    BY <2>1 DEF Save, TypeOK, Turns
<1>. QED
  BY <1>1, <1>2, <1>3 DEF Save

LEMMA IdleType == ASSUME NEW n \in Nat PROVE Idle(n) \in Drivers
BY DEF Idle, Drivers

LEMMA Nothings == NoTurn \in Turns /\ NoSave \in Savings
BY LoopAssumption DEF NoTurn, NoSave, Turns, Savings, Contracts, Versions, Statuses

LEMMA LeaveType ==
    ASSUME TypeOK, Leave
    PROVE  /\ pc' = "off" /\ driver' \in Drivers /\ turn' \in Turns /\ saving' \in Savings
           /\ driver'.run = driver.run /\ saving' = NoSave
<1>1. driver.run \in Nat
  BY DEF TypeOK
<1>. QED
  BY <1>1, IdleType, Nothings DEF Leave, Idle

LEMMA LoadType ==
    ASSUME TypeOK
    PROVE  /\ Load \in Checkpoint \union {NoFile}
           /\ Exists(Load) => Load \in Checkpoint
           /\ ~Exists(main) => Load = backup
           /\ Exists(main) => Load = main
BY DEF TypeOK, Load, Exists

-----------------------------------------------------------------------------
(* The steps that begin a save                                             *)

JudgedNotDone(others) == Judge(others) /\ pc' # "full"
SavingStep ==
    \/ AlreadyDone \/ OutOfIterations \/ Park \/ FlagVerified \/ FoundParked
    \/ Signal \/ FinishSignalled \/ HeartbeatLost \/ RunFullGates
    \/ \E others \in BOOLEAN : JudgedNotDone(others)

(* What they have in common, and which of them end a loop with success.    *)
SaveShape(checkpoint, next) ==
    /\ Exists(checkpoint) /\ checkpoint.iteration = driver.iteration
    /\ checkpoint.phase = "succeeded" =>
          next \in {"off", "flag"} /\ (pc \in {"already", "full"} \/ (pc = "top" /\ Verified))
    /\ pc = "already" => checkpoint.phase = "succeeded"
    /\ next = "flag" => checkpoint.phase = "succeeded" /\ pc = "full"
    /\ next = "top" => pc \in {"judge", "full"}

LEMMA FinishShape ==
    ASSUME TypeOK, NEW status \in Phases, NEW next \in {"off", "top", "flag", "signalled"},
           NEW gates \in SUBSET Gates, Finish(status, next, gates),
           status = "succeeded" =>
               next \in {"off", "flag"} /\ (pc \in {"already", "full"} \/ (pc = "top" /\ Verified)),
           pc = "already" => status = "succeeded",
           next = "flag" => status = "succeeded" /\ pc = "full",
           next # "top"
    PROVE  \E checkpoint \in Checkpoint, after \in {"off", "top", "flag", "signalled"},
              evidence \in SUBSET Gates :
                 Save(checkpoint, after, evidence) /\ SaveShape(checkpoint, after)
<1>1. Save(Snapshot(status, gates), next, gates)
  BY DEF Finish
<1>2. SaveShape(Snapshot(status, gates), next)
  BY SnapshotType DEF SaveShape
<1>. QED
  BY <1>1, <1>2, SnapshotType

LEMMA SavingSteps ==
    ASSUME TypeOK, SavingStep
    PROVE  /\ \E checkpoint \in Checkpoint, next \in {"off", "top", "flag", "signalled"},
              gates \in SUBSET Gates :
                 Save(checkpoint, next, gates) /\ SaveShape(checkpoint, next)
           /\ pc \in {"already", "top", "turn", "signalled", "checks", "judge", "full"}
           /\ UNCHANGED <<disk, world, bounds, turns, saved, won, earned>>
           /\ parked' \in BOOLEAN
           /\ done' \in {done, NoFile} /\ candidate' \in {candidate, NoFile}
           /\ pc = "judge" => candidate' = NoFile
<1>0. driver.gates \in SUBSET Gates /\ driver.gates \union {"full"} \in SUBSET Gates
      /\ Endings \subseteq Phases /\ "interrupted" \in Phases /\ parked \in BOOLEAN
  BY DEF TypeOK, Gates, Endings, Phases
<1>1. CASE AlreadyDone
  <2>1. Finish("succeeded", "off", driver.gates) /\ pc = "already" /\ "succeeded" \in Phases
    BY <1>0, <1>1 DEF AlreadyDone, Endings
  <2>2. \E checkpoint \in Checkpoint, next \in {"off", "top", "flag", "signalled"},
           gates \in SUBSET Gates :
              Save(checkpoint, next, gates) /\ SaveShape(checkpoint, next)
    <3>1. Save(Snapshot("succeeded", driver.gates), "off", driver.gates)
      BY <2>1 DEF Finish
    <3>2. SaveShape(Snapshot("succeeded", driver.gates), "off")
      <4>. DEFINE checkpoint == Snapshot("succeeded", driver.gates)
      <4>1. /\ Exists(checkpoint) /\ checkpoint.iteration = driver.iteration
            /\ checkpoint.phase = "succeeded"
        BY <1>0, <2>1, SnapshotType
      <4>. HIDE DEF checkpoint
      <4>2. SaveShape(checkpoint, "off")
        BY <2>1, <4>1 DEF SaveShape
      <4>. QED
        BY <4>2 DEF checkpoint
    <3>3. Snapshot("succeeded", driver.gates) \in Checkpoint
      BY <1>0, <2>1, SnapshotType
    <3>. QED
      BY <1>0, <3>1, <3>2, <3>3
  <2>. QED
    BY <1>0, <1>1, <2>1, <2>2 DEF AlreadyDone, flags
<1>2. CASE OutOfIterations
  BY <1>0, <1>2, FinishShape DEF OutOfIterations, flags, Endings
<1>3. CASE Park
  BY <1>0, <1>3, FinishShape DEF Park, flags, Endings
<1>4. CASE FlagVerified
  BY <1>0, <1>4, FinishShape DEF FlagVerified, flags, Endings
<1>5. CASE FoundParked
  BY <1>0, <1>5, FinishShape DEF FoundParked, flags, Endings
<1>6. CASE Signal
  BY <1>0, <1>6, SnapshotType DEF Signal, SaveShape, flags
<1>7. CASE FinishSignalled
  BY <1>0, <1>7, FinishShape DEF FinishSignalled, flags, Endings
<1>8. CASE HeartbeatLost
  BY <1>0, <1>8, FinishShape DEF HeartbeatLost, flags, Endings
<1>9. CASE RunFullGates
  <2>1. CASE GatePasses("full")
    <3>1. /\ Finish("succeeded", "flag", driver.gates \union {"full"}) /\ pc = "full"
          /\ "succeeded" \in Phases
      BY <1>0, <1>9, <2>1 DEF RunFullGates, Endings
    <3>2. \E checkpoint \in Checkpoint, next \in {"off", "top", "flag", "signalled"},
             gates \in SUBSET Gates :
                Save(checkpoint, next, gates) /\ SaveShape(checkpoint, next)
      <4>. DEFINE evidence == driver.gates \union {"full"}
      <4>1. Save(Snapshot("succeeded", evidence), "flag", evidence)
        BY <3>1 DEF Finish
      <4>2. SaveShape(Snapshot("succeeded", evidence), "flag")
        <5>. DEFINE checkpoint == Snapshot("succeeded", evidence)
        <5>1. /\ Exists(checkpoint) /\ checkpoint.iteration = driver.iteration
              /\ checkpoint.phase = "succeeded"
          BY <1>0, <3>1, SnapshotType
        <5>. HIDE DEF checkpoint
        <5>2. SaveShape(checkpoint, "flag")
          BY <3>1, <5>1 DEF SaveShape
        <5>. QED
          BY <5>2 DEF checkpoint
      <4>3. Snapshot("succeeded", evidence) \in Checkpoint
        BY <1>0, <3>1, SnapshotType
      <4>. QED
        BY <1>0, <4>1, <4>2, <4>3
    <3>. QED
      BY <1>0, <1>9, <3>1, <3>2 DEF RunFullGates, flags
  <2>2. CASE ~GatePasses("full")
    BY <1>0, <1>9, <2>2, IterationSnapshotType DEF RunFullGates, SaveShape, flags
  <2>. QED
    BY <2>1, <2>2
<1>10. ASSUME NEW others \in BOOLEAN, JudgedNotDone(others)
       PROVE  /\ \E checkpoint \in Checkpoint, next \in {"off", "top", "flag", "signalled"},
                 gates \in SUBSET Gates :
                    Save(checkpoint, next, gates) /\ SaveShape(checkpoint, next)
              /\ pc = "judge" /\ UNCHANGED <<disk, world, bounds, turns, saved, won, earned, done>>
              /\ parked' \in BOOLEAN /\ candidate' = NoFile
  <2>1. /\ pc = "judge" /\ candidate' = NoFile /\ ~(CanPromote(others) /\ contract = turn.contract)
        /\ UNCHANGED <<disk, done, world, bounds, turns, saved, won, earned>>
    BY <1>10 DEF JudgedNotDone, Judge
  <2>2. CASE turn.status = "exhausted"
    BY <1>0, <1>10, <2>1, <2>2, FinishShape DEF JudgedNotDone, Judge, Endings
  <2>3. CASE turn.status # "exhausted"
    BY <1>0, <1>10, <2>1, <2>3, IterationSnapshotType DEF JudgedNotDone, Judge, SaveShape
  <2>. QED
    BY <2>1, <2>2, <2>3
<1>. QED
  BY <1>1, <1>2, <1>3, <1>4, <1>5, <1>6, <1>7, <1>8, <1>9, <1>10 DEF SavingStep

-----------------------------------------------------------------------------
(* The other steps                                                         *)

(* Inside a turn nothing but the flags, the contract and the health of the *)
(* driver change; nor does anything else when a driver is not running.     *)
WritingStep ==
    \/ WriteCandidate \/ ForgeDoneFlag \/ WriteParkedFlag \/ RemoveParkedFlag \/ HeartbeatFatal
    \/ \E file \in EditedFiles : EditContract(file)
    \/ UNCHANGED vars
(* The steps of an iteration between its saves. *)
WorkingStep ==
    \/ \E status \in Statuses \ {"none"}, after \in Trees, progressed \in BOOLEAN :
          TurnReturns(status, after, progressed)
    \/ \E after \in Trees : TurnThrows(after)
    \/ \E accepted \in BOOLEAN : RunChecks(accepted)
    \/ \E others \in BOOLEAN : Judge(others) /\ pc' = "full"

LEMMA NextCases ==
    ASSUME [Next]_vars
    PROVE  \/ SavingStep \/ WritingStep \/ WorkingStep
           \/ SaveBacksUp \/ SaveRenames \/ ClearMain \/ ClearBackup
           \/ \E mode \in {"resume", "restart", "unread"} : Start(mode)
           \/ Resume \/ BeginTurn \/ WriteDoneFlag \/ Crash
BY DEF Next, SavingStep, WritingStep, WorkingStep, JudgedNotDone

LEMMA WritingTypes ==
    ASSUME TypeOK, WritingStep
    PROVE  /\ TypeOK'
           /\ UNCHANGED <<disk, pc, turn, saving, bounds, history>>
           /\ driver'.run = driver.run /\ driver'.iteration = driver.iteration
           /\ driver'.sequence = driver.sequence /\ driver'.restored = driver.restored
           /\ done' = done \/ ~done'.nonce
           /\ \/ candidate' = candidate
              \/ pc = "turn" /\ candidate'.run = driver.run /\ candidate'.fresh = TRUE
<1>1. CASE WriteCandidate
  <2>1. candidate' \in Candidate /\ candidate'.run = driver.run /\ candidate'.fresh = TRUE
    BY <1>1 DEF WriteCandidate, TypeOK, Candidate
  <2>. QED
    BY <1>1, <2>1 DEF WriteCandidate, TypeOK, disk, world, bounds, history
<1>2. CASE ForgeDoneFlag
  <2>1. done' \in Flag /\ ~done'.nonce
    BY <1>2, LoadType DEF ForgeDoneFlag, TypeOK, Flag, Checkpoint
  <2>. QED
    BY <1>2, <2>1 DEF ForgeDoneFlag, TypeOK, disk, world, bounds, history
<1>3. CASE WriteParkedFlag
  BY <1>3 DEF WriteParkedFlag, TypeOK, disk, world, bounds, history
<1>4. CASE RemoveParkedFlag
  <2>1. parked' = FALSE /\ UNCHANGED <<disk, done, candidate, world, pc, driver, turn, saving, bounds, history>>
    BY <1>4 DEF RemoveParkedFlag
  <2>. QED
    <3>1. parked' \in BOOLEAN
      BY <2>1
    <3>2. TypeOK'
      BY <2>1, <3>1 DEF TypeOK, disk, world, bounds, history
    <3>. QED
      BY <2>1, <3>2
<1>5. CASE HeartbeatFatal
  <2>1. driver \in Drivers /\ driver' = [driver EXCEPT !.unhealthy = TRUE]
    BY <1>5 DEF HeartbeatFatal, TypeOK, Drivers
  <2>2. /\ driver' \in Drivers /\ driver'.run = driver.run /\ driver'.iteration = driver.iteration
        /\ driver'.sequence = driver.sequence /\ driver'.restored = driver.restored
    BY <2>1 DEF Drivers
  <2>. QED
    BY <1>5, <2>2 DEF HeartbeatFatal, TypeOK, Drivers, disk, world, bounds, history
<1>6. ASSUME NEW file \in EditedFiles, EditContract(file)
      PROVE  /\ TypeOK'
             /\ UNCHANGED <<disk, done, candidate, pc, turn, saving, bounds, history, driver>>
  <2>1. contract' \in Contracts
    <3>1. contract \in Contracts /\ contract.goal + contract.acceptance < MaxEdits
          /\ contract' = [contract EXCEPT ![file] = @ + 1] /\ file \in {"goal", "acceptance"}
      BY <1>6, LoopAssumption DEF EditContract, TypeOK
    <3>2. MaxEdits \in Nat /\ contract.goal \in 0..MaxEdits /\ contract.acceptance \in 0..MaxEdits
      BY <3>1, LoopAssumption DEF Contracts, Versions
    <3>3. CASE file = "goal"
      <4>1. contract' = [goal |-> contract.goal + 1, acceptance |-> contract.acceptance]
        BY <3>1, <3>3 DEF Contracts
      <4>. QED
        BY <3>1, <3>2, <4>1 DEF Contracts, Versions
    <3>4. CASE file = "acceptance"
      <4>1. contract' = [goal |-> contract.goal, acceptance |-> contract.acceptance + 1]
        BY <3>1, <3>4 DEF Contracts
      <4>. QED
        BY <3>1, <3>2, <4>1 DEF Contracts, Versions
    <3>. QED
      BY <3>1, <3>3, <3>4
  <2>. QED
    BY <1>6, <2>1 DEF EditContract, TypeOK, disk, flags, bounds, history
<1>7. CASE UNCHANGED vars
  BY <1>7 DEF vars, disk, flags, world, bounds, history, TypeOK
<1>. QED
  BY <1>1, <1>2, <1>3, <1>4, <1>5, <1>6, <1>7 DEF WritingStep

LEMMA WorkingTypes ==
    ASSUME TypeOK, WorkingStep
    PROVE  /\ TypeOK'
           /\ UNCHANGED <<disk, done, parked, contract, saving, bounds, turns, saved, won>>
           /\ driver'.run = driver.run /\ driver'.iteration = driver.iteration
           /\ driver'.sequence = driver.sequence
           /\ \/ pc = "turn" /\ pc' = "checks" /\ UNCHANGED <<candidate, earned>>
              \/ pc = "checks" /\ pc' = "judge" /\ UNCHANGED <<candidate, earned>>
              \/ /\ pc = "judge" /\ pc' = "full" /\ candidate' = NoFile
                 /\ CandidateMatches /\ earned' = (earned \/ candidate.fresh)
<1>0. driver \in Drivers /\ turn \in Turns
  BY DEF TypeOK, Drivers, Turns
<1>1. ASSUME NEW status \in Statuses \ {"none"}, NEW after \in Trees, NEW progressed \in BOOLEAN,
             TurnReturns(status, after, progressed)
      PROVE  /\ TypeOK' /\ UNCHANGED <<disk, flags, contract, saving, bounds, history>>
             /\ driver'.run = driver.run /\ driver'.iteration = driver.iteration
             /\ driver'.sequence = driver.sequence /\ pc = "turn" /\ pc' = "checks"
  <2>1. driver' = [driver EXCEPT !.noProgress = IF progressed THEN 0 ELSE driver.noProgress + 1]
        /\ driver.noProgress + 1 \in Nat
    BY <1>1 DEF TurnReturns, TypeOK
  <2>2. /\ driver' \in Drivers /\ driver'.run = driver.run /\ driver'.iteration = driver.iteration
        /\ driver'.sequence = driver.sequence
    BY <1>0, <2>1 DEF Drivers
  <2>3. turn' \in Turns
    BY <1>0, <1>1 DEF TurnReturns, Turns
  <2>. QED
    BY <1>1, <2>2, <2>3 DEF TurnReturns, TypeOK, Drivers, Turns, disk, flags, bounds, history
<1>2. ASSUME NEW after \in Trees, TurnThrows(after)
      PROVE  /\ TypeOK' /\ UNCHANGED <<disk, flags, contract, saving, bounds, history, driver>>
             /\ pc = "turn" /\ pc' = "checks"
  BY <1>2 DEF TurnThrows, TypeOK, disk, flags, bounds, history
<1>3. ASSUME NEW accepted \in BOOLEAN, RunChecks(accepted)
      PROVE  /\ TypeOK' /\ UNCHANGED <<disk, flags, contract, saving, bounds, history>>
             /\ driver'.run = driver.run /\ driver'.iteration = driver.iteration
             /\ driver'.sequence = driver.sequence /\ pc = "checks" /\ pc' = "judge"
  <2>1. PICK gates \in SUBSET Gates : driver' = [driver EXCEPT !.gates = gates]
    <3>1. driver.gates \in SUBSET Gates /\ driver.gates \union {"fast"} \in SUBSET Gates
      BY DEF TypeOK, Gates
    <3>. QED
      BY <1>3, <3>1 DEF RunChecks
  <2>2. /\ driver' \in Drivers /\ driver'.run = driver.run /\ driver'.iteration = driver.iteration
        /\ driver'.sequence = driver.sequence
    BY <1>0, <2>1 DEF Drivers
  <2>3. turn' \in Turns
    <3>. DEFINE passed == accepted /\ GatePasses("fast")
    <3>1. passed \in BOOLEAN /\ turn' = [turn EXCEPT !.passed = passed]
      BY <1>3 DEF RunChecks
    <3>. HIDE DEF passed
    <3>. QED
      BY <1>0, <3>1 DEF Turns
  <2>. QED
    BY <1>3, <2>2, <2>3 DEF RunChecks, TypeOK, Drivers, Turns, disk, flags, world, bounds, history
<1>4. ASSUME NEW others \in BOOLEAN, Judge(others), pc' = "full"
      PROVE  /\ TypeOK' /\ UNCHANGED <<disk, done, parked, contract, saving, bounds, turns, saved, won, driver>>
             /\ pc = "judge" /\ candidate' = NoFile
             /\ CandidateMatches /\ earned' = (earned \/ candidate.fresh)
  <2>1. CanPromote(others) /\ contract = turn.contract
    BY <1>4 DEF Judge, Save, Finish
  <2>2. /\ UNCHANGED <<disk, done, parked, world, bounds, turns, saved, won, driver, turn, saving>>
        /\ candidate' = NoFile /\ pc = "judge" /\ earned' = (earned \/ candidate.fresh)
    BY <1>4, <2>1 DEF Judge
  <2>3. candidate \in Candidate /\ CandidateMatches
    BY <2>1 DEF CanPromote, CandidateMatches, Exists, TypeOK
  <2>4. earned' \in BOOLEAN
    BY <2>2, <2>3 DEF Candidate, TypeOK
  <2>. QED
    BY <1>4, <2>2, <2>3, <2>4 DEF TypeOK, disk, world, bounds
<1>. QED
  BY <1>1, <1>2, <1>3, <1>4 DEF WorkingStep, flags, history

-----------------------------------------------------------------------------
(* Types                                                                   *)

LEMMA StartTypes ==
    ASSUME TypeOK, NEW mode \in {"resume", "restart", "unread"}, Start(mode)
    PROVE  /\ TypeOK' /\ pc = "off"
           /\ driver'.iteration = 1 /\ driver'.run = driver.run + 1
           /\ UNCHANGED <<disk, flags, world, turn, saving, crashes, faults, saved, earned>>
           /\ \/ pc' \in {"clear", "resume"} /\ UNCHANGED <<turns, won>>
              \/ pc' = "top" /\ turns' = 0 /\ won' = FALSE
<1>1. driver.run + 1 \in Nat /\ starts + 1 \in Nat
  BY DEF TypeOK
<1>2. driver' \in Drivers /\ driver'.iteration = 1 /\ driver'.run = driver.run + 1
  BY <1>1, IdleType DEF Start, Idle
<1>3. /\ pc = "off" /\ starts' = starts + 1
      /\ UNCHANGED <<disk, flags, world, turn, saving, crashes, faults, saved, earned>>
      /\ \/ pc' \in {"clear", "resume"} /\ UNCHANGED <<turns, won>>
         \/ pc' = "top" /\ turns' = 0 /\ won' = FALSE
  BY DEF Start
<1>. QED
  <2>1. turns' \in Nat /\ won' \in BOOLEAN
    <3>1. CASE UNCHANGED <<turns, won>>
      BY <3>1 DEF TypeOK
    <3>2. CASE turns' = 0 /\ won' = FALSE
      BY <3>2
    <3>. QED
      BY <1>3, <3>1, <3>2
  <2>2. TypeOK'
    BY <1>1, <1>2, <1>3, <2>1 DEF TypeOK, Drivers, disk, flags, world
  <2>. QED
    BY <1>2, <1>3, <2>2

LEMMA ResumeTypes ==
    ASSUME TypeOK, Resume
    PROVE  /\ TypeOK' /\ pc = "resume" /\ driver'.run = driver.run
           /\ UNCHANGED <<disk, flags, world, turn, saving, bounds, history>>
           /\ driver'.iteration = IF Exists(Load) THEN Load.iteration + 1 ELSE driver.iteration
           /\ pc' = IF Exists(Load) /\ Load.phase = "succeeded" THEN "already" ELSE "top"
<1>1. /\ pc = "resume" /\ UNCHANGED <<disk, flags, world, turn, saving, bounds, history>>
      /\ pc' = IF Exists(Load) /\ Load.phase = "succeeded" THEN "already" ELSE "top"
  BY DEF Resume
<1>2. /\ driver' \in Drivers /\ driver'.run = driver.run
      /\ driver'.iteration = IF Exists(Load) THEN Load.iteration + 1 ELSE driver.iteration
  <2>0. driver \in Drivers
    BY DEF TypeOK, Drivers
  <2>1. CASE Exists(Load)
    <3>1. Load \in Checkpoint
      BY <2>1, LoadType
    <3>2. driver' = [run |-> driver.run, iteration |-> Load.iteration + 1,
                     sequence |-> Load.sequence, noProgress |-> Load.noProgress,
                     gates |-> Load.gates, restored |-> Load, unhealthy |-> driver.unhealthy]
      BY <2>0, <2>1 DEF Resume, Drivers
    <3>3. /\ Load.iteration + 1 \in Nat /\ Load.sequence \in Nat /\ Load.noProgress \in Nat
          /\ Load.gates \in SUBSET Gates
      BY <3>1 DEF Checkpoint
    <3>. QED
      BY <2>0, <2>1, <3>1, <3>2, <3>3 DEF Drivers
  <2>2. CASE ~Exists(Load)
    BY <2>0, <2>2 DEF Resume
  <2>. QED
    BY <2>1, <2>2
<1>. QED
  BY <1>1, <1>2 DEF TypeOK, Drivers, disk, flags, world, bounds, history

LEMMA RenameTypes ==
    ASSUME TypeOK, SaveRenames, Exists(saving.checkpoint)
    PROVE  /\ TypeOK' /\ pc = "rename" /\ pc' = saving.next
           /\ UNCHANGED <<backup, flags, world, starts, crashes, turns, earned>>
           /\ \/ main' = saving.checkpoint /\ saved' = saving.checkpoint.sequence
                 /\ won' = (won \/ saving.checkpoint.phase = "succeeded") /\ UNCHANGED faults
              \/ faults' = faults + 1 /\ UNCHANGED <<main, saved, won>>
           /\ driver'.run = driver.run /\ saving' = NoSave
           /\ pc' # "off" =>
                 driver'.iteration = IF pc' = "top" THEN driver.iteration + 1 ELSE driver.iteration
<1>1. /\ pc = "rename" /\ Saved /\ UNCHANGED <<backup, flags, world, starts, crashes, turns, earned>>
      /\ \/ main' = saving.checkpoint /\ saved' = saving.checkpoint.sequence
            /\ won' = (won \/ saving.checkpoint.phase = "succeeded") /\ UNCHANGED faults
         \/ faults' = faults + 1 /\ UNCHANGED <<main, saved, won>>
  BY DEF SaveRenames
<1>2. saving.checkpoint \in Checkpoint /\ saving.next \in {"off", "top", "flag", "signalled"}
  BY DEF Exists, TypeOK
<1>3. /\ driver' \in Drivers /\ turn' \in Turns /\ saving' \in Savings /\ pc' = saving.next
      /\ driver'.run = driver.run /\ saving' = NoSave
      /\ pc' # "off" =>
            driver'.iteration = IF pc' = "top" THEN driver.iteration + 1 ELSE driver.iteration
  <2>0. driver \in Drivers /\ turn \in Turns
    BY DEF TypeOK, Drivers, Turns
  <2>1. CASE saving.next = "off"
    BY <1>1, <2>1, LeaveType DEF Saved, Leave
  <2>2. CASE saving.next = "top"
    <3>1. driver' = [driver EXCEPT !.iteration = driver.iteration + 1] /\ driver.iteration + 1 \in Nat
      BY <1>1, <2>2 DEF Saved, TypeOK
    <3>2. driver' \in Drivers /\ driver'.run = driver.run /\ driver'.iteration = driver.iteration + 1
      BY <2>0, <3>1 DEF Drivers
    <3>. QED
      BY <1>1, <2>0, <2>2, <3>2, Nothings DEF Saved
  <2>3. CASE saving.next \notin {"off", "top"}
    BY <1>1, <2>0, <2>3, Nothings DEF Saved
  <2>. QED
    BY <2>1, <2>2, <2>3
<1>4. main' \in Checkpoint \union {NoFile} /\ saved' \in Nat /\ won' \in BOOLEAN /\ faults' \in Nat
  <2>1. saving.checkpoint.sequence \in Nat /\ faults + 1 \in Nat
    BY <1>2 DEF TypeOK, Checkpoint
  <2>2. won' \in BOOLEAN
    BY <1>1 DEF TypeOK
  <2>. QED
    BY <1>1, <1>2, <2>1, <2>2 DEF TypeOK
<1>5. UNCHANGED <<backup, done, parked, candidate, contract, tree, green, starts, crashes, turns, earned>>
  BY <1>1 DEF flags, world
<1>6. TypeOK'
  BY <1>2, <1>3, <1>4, <1>5 DEF TypeOK, Drivers, Turns, Savings
<1>. QED
  BY <1>1, <1>3, <1>6

LEMMA FlagTypes ==
    ASSUME TypeOK, WriteDoneFlag
    PROVE  /\ TypeOK' /\ pc = "flag" /\ pc' = "off" /\ driver'.run = driver.run
           /\ done'.run = driver.run /\ saving' = NoSave
           /\ UNCHANGED <<disk, parked, candidate, world, bounds, history>>
<1>1. driver.run \in Nat /\ driver.sequence \in Nat /\ turn.contract \in Contracts
  BY DEF TypeOK
<1>2. /\ done' = [run |-> driver.run, sequence |-> driver.sequence,
                  contract |-> turn.contract, nonce |-> TRUE]
      /\ Leave /\ pc = "flag" /\ UNCHANGED <<disk, parked, candidate, world, bounds, history>>
  BY DEF WriteDoneFlag
<1>3. done' \in Flag
  BY <1>1, <1>2 DEF Flag
<1>. QED
  BY <1>2, <1>3, LeaveType DEF TypeOK, Drivers, Turns, Savings, disk, world, bounds, history

LEMMA BeginTypes ==
    ASSUME TypeOK, BeginTurn
    PROVE  /\ TypeOK' /\ pc = "top" /\ pc' = "turn" /\ driver.iteration <= MaxIters
           /\ turns' = turns + 1 /\ done' = NoFile
           /\ UNCHANGED <<disk, driver, saving, bounds, saved, won, earned>>
           /\ (candidate' = NoFile <=> candidate = NoFile)
           /\ candidate'.run = candidate.run
<1>1. /\ pc = "top" /\ pc' = "turn" /\ driver.iteration <= MaxIters
      /\ turns' = turns + 1 /\ done' = NoFile
      /\ turn' = [contract |-> contract, status |-> "none", passed |-> FALSE]
      /\ UNCHANGED <<disk, parked, world, driver, saving, bounds, saved, won, earned>>
      /\ candidate' = IF Exists(candidate) THEN [candidate EXCEPT !.fresh = FALSE] ELSE candidate
  BY DEF BeginTurn
<1>2. turn' \in Turns
  BY <1>1 DEF TypeOK, Turns, Statuses
<1>3. /\ candidate' \in Candidate \union {NoFile} /\ (candidate' = NoFile <=> candidate = NoFile)
      /\ candidate'.run = candidate.run
  <2>1. CASE Exists(candidate)
    <3>1. candidate \in Candidate /\ candidate' = [candidate EXCEPT !.fresh = FALSE]
      BY <1>1, <2>1 DEF Exists, TypeOK
    <3>2. candidate' \in Candidate /\ candidate'.run = candidate.run
      BY <3>1 DEF Candidate
    <3>. QED
      BY <3>1, <3>2, NoFileIsNone
  <2>2. CASE ~Exists(candidate)
    BY <1>1, <2>2 DEF Exists, TypeOK
  <2>. QED
    BY <2>1, <2>2
<1>. QED
  <2>1. done' \in Flag \union {NoFile} /\ turns' \in Nat
    BY <1>1 DEF TypeOK
  <2>2. UNCHANGED <<main, backup, parked, contract, tree, green, driver, saving, starts, crashes,
                    faults, saved, won, earned>>
    BY <1>1 DEF disk, world, bounds
  <2>3. TypeOK'
    BY <1>1, <1>2, <1>3, <2>1, <2>2 DEF TypeOK, Turns
  <2>. QED
    BY <1>1, <1>3, <2>3

LEMMA TypeStep == TypeOK /\ (pc = "rename" => Exists(saving.checkpoint)) /\ [Next]_vars => TypeOK'
<1>. SUFFICES ASSUME TypeOK, pc = "rename" => Exists(saving.checkpoint), [Next]_vars PROVE TypeOK'
  OBVIOUS
<1>1. CASE SavingStep
  <2>1. PICK checkpoint \in Checkpoint, next \in {"off", "top", "flag", "signalled"},
             gates \in SUBSET Gates : Save(checkpoint, next, gates)
    BY <1>1, SavingSteps
  <2>2. pc' = "backup" /\ saving' \in Savings /\ driver' \in Drivers /\ turn' \in Turns
    BY <2>1, SaveBegins
  <2>3. /\ UNCHANGED <<disk, world, bounds, turns, saved, won, earned>> /\ parked' \in BOOLEAN
        /\ done' \in {done, NoFile} /\ candidate' \in {candidate, NoFile}
    BY <1>1, SavingSteps
  <2>. QED
    BY <2>2, <2>3 DEF TypeOK, Savings, Drivers, Turns, disk, world, bounds
<1>2. CASE SaveBacksUp
  BY <1>2 DEF SaveBacksUp, disk, flags, world, bounds, history, TypeOK
<1>3. CASE SaveRenames
  BY <1>3, RenameTypes DEF SaveRenames
<1>4. CASE ClearMain
  BY <1>4 DEF ClearMain, flags, world, bounds, TypeOK
<1>5. CASE ClearBackup
  BY <1>5 DEF ClearBackup, flags, world, bounds, TypeOK
<1>6. CASE Crash
  <2>1. crashes' = crashes + 1 /\ Leave /\ UNCHANGED <<disk, flags, world, starts, faults, history>>
    BY <1>6 DEF Crash
  <2>. QED
    BY <2>1, LeaveType DEF TypeOK, Drivers, Turns, Savings, disk, flags, world, history
<1>. QED
  BY <1>1, <1>2, <1>3, <1>4, <1>5, <1>6, NextCases, WritingTypes, WorkingTypes, StartTypes,
     ResumeTypes, BeginTypes, FlagTypes

LEMMA TypeInit == Init => TypeOK
<1>. SUFFICES ASSUME Init PROVE TypeOK
  OBVIOUS
<1>1. contract \in Contracts
  BY LoopAssumption DEF Init, Contracts, Versions
<1>2. driver \in Drivers /\ turn \in Turns /\ saving \in Savings
  BY IdleType, Nothings DEF Init
<1>. QED
  BY <1>1, <1>2 DEF Init, TypeOK, Drivers, Turns, Savings

-----------------------------------------------------------------------------
(* The inductive invariant                                                 *)

Saving == {"backup", "rename"}

(* A save under way has a checkpoint, of this iteration, and a successful  *)
(* one is the last.                                                        *)
SaveSound ==
    /\ pc \in Saving =>
          /\ Exists(saving.checkpoint) /\ saving.checkpoint.iteration = driver.iteration
          /\ saving.checkpoint.phase = "succeeded" => saving.next \in {"off", "flag"}
          /\ saving.next = "flag" => saving.checkpoint.phase = "succeeded"
    /\ pc \notin Saving => ~Exists(saving.checkpoint)
    /\ pc = "clearBackup" => ~Exists(main) /\ saved = 0 /\ turns = 0 /\ ~won
    /\ pc \in {"clear", "clearBackup", "resume"} => driver.iteration = 1

(* The iterations that a restart would not do again, and the turns that    *)
(* crashes and lost checkpoints may have cost.                             *)
Base == IF Exists(Load) THEN Load.iteration ELSE 0
Slack == crashes + faults

(* A turn is paid for by the iteration that it belongs to, which is on     *)
(* disk, or about to be, or lost to a crash or a failed write.             *)
TurnsPaid ==
    /\ turns <= MaxIters + Slack
    /\ turns <= Base + 1 + Slack
    /\ pc \notin {"turn", "checks", "judge", "full"} \union Saving => turns <= Base + Slack
    /\ pc = "top" => turns <= driver.iteration - 1 + Slack
    /\ pc \notin {"off", "clear", "clearBackup", "resume", "top"} =>
          turns <= driver.iteration + Slack

(* Success on disk is what the next driver loads, and no driver that has   *)
(* seen less is running.                                                   *)
SuccessStays == won =>
    /\ pc \in {"off", "resume", "clear", "already", "flag"} \union Saving
    /\ Exists(Load) /\ Load.phase = "succeeded"
    /\ pc \in Saving => saving.checkpoint.phase = "succeeded"

Succeeded(file) == Exists(file) /\ file.phase = "succeeded"
(* Whatever lets a loop end with success was earned; a flag with a nonce   *)
(* and a candidate are of this driver only where it wrote them.            *)
SuccessEarned ==
    /\ Succeeded(main) \/ Succeeded(backup) \/ Succeeded(saving.checkpoint) => earned
    /\ pc \in {"already", "full", "flag"} => earned
FlagsDated ==
    /\ Exists(done) /\ done.nonce => done.run <= driver.run /\ (pc # "off" => done.run < driver.run)
    /\ Exists(candidate) => candidate.run <= driver.run
    /\ Exists(candidate) /\ candidate.run = driver.run =>
          /\ pc \in {"turn", "checks", "judge"} => candidate.fresh
          /\ pc \in {"turn", "checks", "judge", "signalled", "off"} \union Saving
          /\ pc \in Saving => saving.next \notin {"top", "flag"}

IInv == TypeOK /\ SaveSound /\ CheckpointLoads /\ TurnsPaid /\ SuccessStays /\ SuccessEarned /\ FlagsDated

LEMMA IInvInit == Init => IInv
<1>. SUFFICES ASSUME Init PROVE IInv
  OBVIOUS
<1>1. TypeOK
  BY TypeInit
<1>2. /\ ~Exists(main) /\ ~Exists(backup) /\ ~Exists(saving.checkpoint) /\ ~Exists(Load)
      /\ ~Exists(done) /\ ~Exists(candidate)
  BY DEF Init, Exists, Load, NoSave
<1>3. SaveSound /\ CheckpointLoads /\ SuccessStays /\ SuccessEarned /\ FlagsDated
  BY <1>2 DEF Init, SaveSound, Saving, CheckpointLoads, SuccessStays, SuccessEarned, FlagsDated, Succeeded
<1>4. TurnsPaid
  BY <1>2, LoopAssumption DEF Init, TurnsPaid, Base, Slack, Saving
<1>. QED
  BY <1>1, <1>3, <1>4 DEF IInv

(* What a load returns while the files are renamed.                        *)
LEMMA LoadKept == UNCHANGED disk => Load' = Load /\ Base' = Base
BY DEF disk, Load, Exists, Base

LEMMA BackupKeepsLoad ==
    ASSUME TypeOK, SaveBacksUp
    PROVE  /\ Load' = Load /\ Base' = Base /\ pc = "backup" /\ pc' = "rename"
           /\ UNCHANGED <<flags, world, driver, turn, saving, bounds, history>>
           /\ main' \in {main, NoFile} /\ backup' \in {main, backup}
<1>1. Load' = Load
  <2>1. CASE Exists(main)
    BY <2>1 DEF SaveBacksUp, Load, Exists
  <2>2. CASE ~Exists(main)
    BY <2>2 DEF SaveBacksUp, Load, Exists, disk
  <2>. QED
    BY <2>1, <2>2
<1>. QED
  BY <1>1 DEF SaveBacksUp, Base, disk, Exists

LEMMA TypesStep == IInv /\ [Next]_vars => TypeOK'
BY TypeStep DEF IInv, SaveSound, Saving

-----------------------------------------------------------------------------
(* Each kind of step                                                       *)

LEMMA SavingKeeps ==
    ASSUME IInv, TypeOK', SavingStep
    PROVE  IInv'
<1>1. PICK checkpoint \in Checkpoint, next \in {"off", "top", "flag", "signalled"},
           gates \in SUBSET Gates :
              Save(checkpoint, next, gates) /\ SaveShape(checkpoint, next)
  BY SavingSteps DEF IInv
<1>2. /\ pc \in {"already", "top", "turn", "signalled", "checks", "judge", "full"}
      /\ UNCHANGED <<disk, world, bounds, turns, saved, won, earned>>
      /\ done' \in {done, NoFile} /\ candidate' \in {candidate, NoFile}
      /\ pc = "judge" => candidate' = NoFile
  BY SavingSteps DEF IInv
<1>3. /\ pc' = "backup" /\ saving'.checkpoint = checkpoint /\ saving'.next = next
      /\ driver'.iteration = driver.iteration /\ driver'.run = driver.run
  BY <1>1, SaveBegins DEF IInv
<1>4. Load' = Load /\ Base' = Base /\ main' = main /\ backup' = backup
      /\ crashes' = crashes /\ faults' = faults
  BY <1>2, LoadKept DEF disk, bounds
<1>5. SaveSound'
  BY <1>1, <1>3 DEF SaveShape, SaveSound, Saving, Exists
<1>6. CheckpointLoads'
  BY <1>2, <1>4 DEF IInv, CheckpointLoads, Exists
<1>7. TurnsPaid'
  <2>1. turns <= driver.iteration + Slack
    BY <1>2 DEF IInv, TypeOK, TurnsPaid, Slack
  <2>. QED
    BY <1>2, <1>3, <1>4, <2>1 DEF IInv, TurnsPaid, Slack, Saving
<1>8. SuccessStays'
  <2>1. won => pc = "already"
    BY <1>2 DEF IInv, SuccessStays, Saving
  <2>. QED
    BY <1>1, <1>2, <1>3, <1>4, <2>1 DEF IInv, SuccessStays, SaveShape, Saving, Exists
<1>9. SuccessEarned'
  <2>1. Succeeded(checkpoint) => earned
    <3>1. pc = "top" /\ Verified => earned
      BY DEF IInv, Verified, VerifyDoneFlag, FlagsDated, TypeOK, SuccessEarned, Succeeded, Load, Exists
    <3>. QED
      BY <1>1, <3>1 DEF IInv, SaveShape, SuccessEarned, Succeeded
  <2>. QED
    BY <1>2, <1>3, <1>4, <2>1 DEF IInv, SuccessEarned, Succeeded, Exists
<1>10. FlagsDated'
  BY <1>1, <1>2, <1>3 DEF IInv, FlagsDated, SaveShape, Saving, Exists
<1>. QED
  BY <1>5, <1>6, <1>7, <1>8, <1>9, <1>10 DEF IInv

LEMMA WritingKeeps ==
    ASSUME IInv, WritingStep
    PROVE  IInv'
<1>1. /\ TypeOK' /\ UNCHANGED <<disk, pc, turn, saving, bounds, history>>
      /\ driver'.run = driver.run /\ driver'.iteration = driver.iteration
      /\ done' = done \/ ~done'.nonce
      /\ \/ candidate' = candidate
         \/ pc = "turn" /\ candidate'.run = driver.run /\ candidate'.fresh = TRUE
  BY WritingTypes DEF IInv
<1>2. Load' = Load /\ Base' = Base /\ Slack' = Slack /\ main' = main /\ backup' = backup
  BY <1>1, LoadKept DEF disk, bounds, Slack
<1>3. UNCHANGED <<turns, saved, won, earned>>
  BY <1>1 DEF history
<1>4. SaveSound' /\ CheckpointLoads' /\ SuccessStays' /\ SuccessEarned'
  BY <1>1, <1>2, <1>3
  DEF IInv, SaveSound, CheckpointLoads, SuccessStays, SuccessEarned, Succeeded, Saving, Exists
<1>5. TurnsPaid'
  BY <1>1, <1>2, <1>3 DEF IInv, TurnsPaid, Saving
<1>6. FlagsDated'
  BY <1>1 DEF IInv, TypeOK, FlagsDated, Saving, Exists
<1>. QED
  BY <1>1, <1>4, <1>5, <1>6 DEF IInv

LEMMA WorkingKeeps ==
    ASSUME IInv, WorkingStep
    PROVE  IInv'
<1>1. /\ TypeOK' /\ UNCHANGED <<disk, done, saving, bounds, turns, saved, won>>
      /\ driver'.run = driver.run /\ driver'.iteration = driver.iteration
      /\ \/ pc = "turn" /\ pc' = "checks" /\ UNCHANGED <<candidate, earned>>
         \/ pc = "checks" /\ pc' = "judge" /\ UNCHANGED <<candidate, earned>>
         \/ /\ pc = "judge" /\ pc' = "full" /\ candidate' = NoFile
            /\ CandidateMatches /\ earned' = (earned \/ candidate.fresh)
  BY WorkingTypes DEF IInv
<1>2. Load' = Load /\ Base' = Base /\ Slack' = Slack /\ main' = main /\ backup' = backup
  BY <1>1, LoadKept DEF disk, bounds, Slack
<1>3. ~won
  BY <1>1 DEF IInv, SuccessStays, Saving
<1>4. SaveSound' /\ CheckpointLoads' /\ SuccessStays'
  BY <1>1, <1>2, <1>3 DEF IInv, SaveSound, CheckpointLoads, SuccessStays, Saving, Exists
<1>5. TurnsPaid'
  BY <1>1, <1>2 DEF IInv, TurnsPaid, Saving
<1>6. earned => earned'
  BY <1>1
<1>7. pc' = "full" => earned'
  <2>. SUFFICES ASSUME pc' = "full" PROVE earned'
    OBVIOUS
  <2>1. pc = "judge" /\ CandidateMatches /\ earned' = (earned \/ candidate.fresh)
    BY <1>1
  <2>2. candidate.fresh
    BY <2>1 DEF CandidateMatches, IInv, FlagsDated
  <2>. QED
    BY <2>1, <2>2
<1>8. SuccessEarned'
  BY <1>1, <1>2, <1>6, <1>7 DEF IInv, SuccessEarned, Succeeded, Exists
<1>9. FlagsDated'
  BY <1>1 DEF IInv, FlagsDated, Saving, Exists
<1>. QED
  BY <1>1, <1>4, <1>5, <1>8, <1>9 DEF IInv

LEMMA BackupKeeps ==
    ASSUME IInv, TypeOK', SaveBacksUp
    PROVE  IInv'
<1>1. /\ Load' = Load /\ Base' = Base /\ pc = "backup" /\ pc' = "rename"
      /\ UNCHANGED <<flags, world, driver, turn, saving, bounds, history>>
      /\ main' \in {main, NoFile} /\ backup' \in {main, backup}
  BY BackupKeepsLoad DEF IInv
<1>2. Slack' = Slack /\ UNCHANGED <<turns, saved, won, earned, done, candidate, driver, saving>>
  BY <1>1 DEF bounds, history, flags, Slack
<1>3. SaveSound' /\ CheckpointLoads' /\ SuccessStays' /\ FlagsDated'
  BY <1>1, <1>2 DEF IInv, SaveSound, CheckpointLoads, SuccessStays, FlagsDated, Saving, Exists
<1>4. SuccessEarned'
  BY <1>1, <1>2 DEF IInv, SuccessEarned, Succeeded, Exists
<1>5. TurnsPaid'
  BY <1>1, <1>2 DEF IInv, TurnsPaid, Saving
<1>. QED
  BY <1>3, <1>4, <1>5 DEF IInv

(* The numbers that the turns are compared with.                           *)
LEMMA BaseType ==
    ASSUME TypeOK
    PROVE  Base \in Nat /\ Slack \in Nat /\ turns \in Nat /\ driver.iteration \in Nat /\ MaxIters \in Nat
BY LoadType, LoopAssumption DEF TypeOK, Base, Slack, Checkpoint

LEMMA RenameKeeps ==
    ASSUME IInv, TypeOK', SaveRenames
    PROVE  IInv'
<1>1. /\ pc = "rename" /\ Exists(saving.checkpoint)
      /\ saving.checkpoint.iteration = driver.iteration
      /\ saving.checkpoint.phase = "succeeded" => saving.next \in {"off", "flag"}
      /\ saving.next = "flag" => saving.checkpoint.phase = "succeeded"
      /\ saving.checkpoint \in Checkpoint /\ saving.next \in {"off", "top", "flag", "signalled"}
  BY DEF IInv, SaveSound, SaveRenames, Saving, TypeOK, Exists
<1>2. /\ pc' = saving.next
      /\ UNCHANGED <<backup, flags, world, starts, crashes, turns, earned>>
      /\ \/ main' = saving.checkpoint /\ saved' = saving.checkpoint.sequence
            /\ won' = (won \/ saving.checkpoint.phase = "succeeded") /\ UNCHANGED faults
         \/ faults' = faults + 1 /\ UNCHANGED <<main, saved, won>>
      /\ driver'.run = driver.run /\ saving' = NoSave
      /\ pc' # "off" =>
            driver'.iteration = IF pc' = "top" THEN driver.iteration + 1 ELSE driver.iteration
  BY <1>1, RenameTypes DEF IInv
<1>3. /\ ~Exists(saving'.checkpoint) /\ UNCHANGED <<done, candidate>>
      /\ pc' \in {"off", "top", "flag", "signalled"}
  BY <1>1, <1>2 DEF NoSave, Exists, flags
<1>4. \/ /\ Load' = saving.checkpoint /\ Base' = driver.iteration /\ Slack' = Slack
         /\ main' = saving.checkpoint /\ saved' = saving.checkpoint.sequence
         /\ won' = (won \/ saving.checkpoint.phase = "succeeded")
      \/ /\ Load' = Load /\ Base' = Base /\ Slack' = Slack + 1
         /\ main' = main /\ saved' = saved /\ won' = won
  <2>1. CASE main' = saving.checkpoint /\ saved' = saving.checkpoint.sequence
             /\ won' = (won \/ saving.checkpoint.phase = "succeeded") /\ UNCHANGED faults
    <3>1. Load' = saving.checkpoint /\ Exists(Load')
      BY <1>1, <2>1 DEF Load, Exists
    <3>2. Base' = driver.iteration
      BY <1>1, <3>1 DEF Base, Exists
    <3>. QED
      BY <1>2, <2>1, <3>1, <3>2 DEF Slack
  <2>2. CASE faults' = faults + 1 /\ UNCHANGED <<main, saved, won>>
    BY <1>2, <2>2, LoadKept DEF Slack, disk, IInv, TypeOK
  <2>. QED
    BY <1>2, <2>1, <2>2
<1>5. SaveSound'
  BY <1>3 DEF SaveSound, Saving
<1>6. CheckpointLoads'
  BY <1>1, <1>4 DEF IInv, CheckpointLoads, Checkpoint, Exists
<1>7. TurnsPaid'
  <2>1. /\ turns' = turns /\ turns <= MaxIters + Slack /\ turns <= Base + 1 + Slack
        /\ turns <= driver.iteration + Slack
    BY <1>1, <1>2 DEF IInv, TurnsPaid
  <2>2. Base \in Nat /\ Slack \in Nat /\ turns \in Nat /\ driver.iteration \in Nat /\ MaxIters \in Nat
    BY BaseType DEF IInv
  <2>. QED
    BY <1>2, <1>3, <1>4, <2>1, <2>2 DEF TurnsPaid, Saving
<1>8. SuccessStays'
  <2>1. won => saving.checkpoint.phase = "succeeded" /\ Exists(Load) /\ Load.phase = "succeeded"
    BY <1>1 DEF IInv, SuccessStays, Saving
  <2>. QED
    BY <1>1, <1>2, <1>3, <1>4, <2>1 DEF SuccessStays, Saving, Exists
<1>9. SuccessEarned'
  BY <1>1, <1>2, <1>3, <1>4 DEF IInv, SuccessEarned, Succeeded, Exists
<1>10. FlagsDated'
  BY <1>1, <1>2, <1>3 DEF IInv, FlagsDated, Saving, Exists
<1>. QED
  BY <1>5, <1>6, <1>7, <1>8, <1>9, <1>10 DEF IInv

LEMMA SumsOfNats == \A a, b \in Nat : 0 <= a + b /\ 0 <= a + 1 + b
OBVIOUS

LEMMA ClearKeeps ==
    ASSUME IInv, TypeOK', ClearMain \/ ClearBackup
    PROVE  IInv'
<1>0. Base' \in Nat /\ Slack \in Nat /\ MaxIters \in Nat
  <2>1. ASSUME TypeOK PROVE Base \in Nat /\ Slack \in Nat /\ MaxIters \in Nat
    BY <2>1, BaseType
  <2>2. TypeOK' => Base' \in Nat
    BY LoopAssumption DEF TypeOK, Base, Load, Exists, Checkpoint
  <2>. QED
    BY <2>1, <2>2 DEF IInv
<1>1. CASE ClearMain
  <2>1. /\ pc = "clear" /\ main' = NoFile /\ backup' = backup /\ pc' = "clearBackup"
        /\ turns' = 0 /\ saved' = 0 /\ won' = FALSE
        /\ UNCHANGED <<flags, driver, saving, bounds, earned, done, candidate>>
    BY <1>1 DEF ClearMain, flags
  <2>2. ~Exists(main') /\ Slack' = Slack
    BY <2>1 DEF Exists, Slack, bounds
  <2>3. SaveSound' /\ CheckpointLoads' /\ SuccessStays'
    BY <2>1, <2>2 DEF IInv, SaveSound, CheckpointLoads, SuccessStays, Saving, Exists
  <2>4. SuccessEarned'
    BY <2>1, <2>2 DEF IInv, SuccessEarned, Succeeded, Exists
  <2>5. FlagsDated'
    BY <2>1 DEF IInv, FlagsDated, Saving, Exists
  <2>6. TurnsPaid'
    <3>0. Slack' \in Nat /\ Base' \in Nat /\ MaxIters \in Nat
      BY <1>0, <2>2
    <3>1. /\ 0 <= MaxIters + Slack' /\ 0 <= Base' + 1 + Slack' /\ 0 <= Base' + Slack'
      BY <3>0, SumsOfNats
    <3>3. turns' = 0 /\ pc' = "clearBackup"
      BY <2>1, <2>2
    <3>. QED
      BY <3>1, <3>3 DEF TurnsPaid, Saving
  <2>. QED
    BY <2>3, <2>4, <2>5, <2>6 DEF IInv
<1>2. CASE ClearBackup
  <2>1. /\ pc = "clearBackup" /\ backup' = NoFile /\ main' = main /\ pc' = "top" /\ earned' = FALSE
        /\ UNCHANGED <<flags, driver, saving, bounds, turns, saved, won, done, candidate>>
    BY <1>2 DEF ClearBackup, flags
  <2>2. /\ ~Exists(main') /\ ~Exists(backup') /\ Slack' = Slack
        /\ saved = 0 /\ turns = 0 /\ ~won /\ driver.iteration = 1 /\ ~Exists(saving.checkpoint)
    BY <2>1 DEF IInv, SaveSound, Saving, Exists, Slack, bounds
  <2>3. SaveSound' /\ CheckpointLoads' /\ SuccessStays'
    BY <2>1, <2>2 DEF SaveSound, CheckpointLoads, SuccessStays, Saving, Exists
  <2>4. SuccessEarned'
    BY <2>1, <2>2 DEF SuccessEarned, Succeeded, Exists
  <2>5. FlagsDated'
    BY <2>1 DEF IInv, FlagsDated, Saving, Exists
  <2>6. TurnsPaid'
    <3>0. Slack' \in Nat /\ Base' \in Nat /\ MaxIters \in Nat
      BY <1>0, <2>2
    <3>1. /\ 0 <= MaxIters + Slack' /\ 0 <= Base' + 1 + Slack' /\ 0 <= Base' + Slack'
      BY <3>0, SumsOfNats
    <3>3. turns' = 0 /\ pc' = "top"
      BY <2>1, <2>2
    <3>2. 0 <= driver'.iteration - 1 + Slack'
      BY <1>0, <2>1, <2>2
    <3>. QED
      BY <3>1, <3>2, <3>3 DEF TurnsPaid, Saving
  <2>. QED
    BY <2>3, <2>4, <2>5, <2>6 DEF IInv
<1>. QED
  BY <1>1, <1>2

LEMMA StartKeeps ==
    ASSUME IInv, TypeOK', NEW mode \in {"resume", "restart", "unread"}, Start(mode)
    PROVE  IInv'
<1>1. /\ pc = "off" /\ driver'.iteration = 1 /\ driver'.run = driver.run + 1
      /\ UNCHANGED <<disk, flags, world, turn, saving, crashes, faults, saved, earned>>
      /\ \/ pc' \in {"clear", "resume"} /\ UNCHANGED <<turns, won>>
         \/ pc' = "top" /\ turns' = 0 /\ won' = FALSE
  BY StartTypes DEF IInv
<1>2. /\ Load' = Load /\ Base' = Base /\ Slack' = Slack
      /\ UNCHANGED <<main, backup, done, candidate>>
  BY <1>1, LoadKept DEF disk, flags, Slack
<1>3. SaveSound' /\ CheckpointLoads' /\ SuccessStays'
  BY <1>1, <1>2 DEF IInv, SaveSound, CheckpointLoads, SuccessStays, Saving, Exists
<1>4. SuccessEarned'
  BY <1>1, <1>2 DEF IInv, SuccessEarned, Succeeded, Exists
<1>5. FlagsDated'
  <2>1. driver.run \in Nat /\ (Exists(candidate) => candidate.run \in Nat)
        /\ (Exists(done) => done.run \in Nat)
    BY DEF IInv, TypeOK, Exists, Candidate, Flag
  <2>. QED
    BY <1>1, <1>2, <2>1 DEF IInv, FlagsDated, Exists
<1>6. TurnsPaid'
  <2>1. Base \in Nat /\ Slack \in Nat /\ turns \in Nat /\ MaxIters \in Nat
    BY BaseType DEF IInv
  <2>. QED
    BY <1>1, <1>2, <2>1 DEF IInv, TurnsPaid, Saving
<1>. QED
  BY <1>3, <1>4, <1>5, <1>6 DEF IInv

LEMMA ResumeKeeps ==
    ASSUME IInv, TypeOK', Resume
    PROVE  IInv'
<1>1. /\ pc = "resume" /\ driver'.run = driver.run
      /\ UNCHANGED <<disk, flags, saving, bounds, history>>
      /\ driver'.iteration = IF Exists(Load) THEN Load.iteration + 1 ELSE driver.iteration
      /\ pc' = IF Exists(Load) /\ Load.phase = "succeeded" THEN "already" ELSE "top"
  BY ResumeTypes DEF IInv
<1>2. /\ Load' = Load /\ Base' = Base /\ Slack' = Slack
      /\ UNCHANGED <<main, backup, done, candidate, turns, saved, won, earned>>
  BY <1>1, LoadKept DEF disk, flags, bounds, history, Slack
<1>3. driver.iteration = 1
  BY <1>1 DEF IInv, SaveSound
<1>4. SaveSound' /\ CheckpointLoads' /\ SuccessStays'
  BY <1>1, <1>2 DEF IInv, SaveSound, CheckpointLoads, SuccessStays, Saving, Exists
<1>5. SuccessEarned'
  <2>1. Exists(Load) /\ Load.phase = "succeeded" => earned
    BY DEF IInv, SuccessEarned, Succeeded, Load
  <2>. QED
    BY <1>1, <1>2, <2>1 DEF IInv, SuccessEarned, Succeeded, Exists
<1>6. FlagsDated'
  BY <1>1, <1>2 DEF IInv, FlagsDated, Saving, Exists
<1>7. TurnsPaid'
  <2>1. Base \in Nat /\ Slack \in Nat /\ turns \in Nat /\ MaxIters \in Nat
    BY BaseType DEF IInv
  <2>2. driver'.iteration = Base + 1
    BY <1>1, <1>3 DEF Base
  <2>3. turns <= MaxIters + Slack /\ turns <= Base + Slack
    BY <1>1 DEF IInv, TurnsPaid, Saving
  <2>. QED
    BY <1>1, <1>2, <2>1, <2>2, <2>3 DEF TurnsPaid, Saving
<1>. QED
  BY <1>4, <1>5, <1>6, <1>7 DEF IInv

LEMMA BeginKeeps ==
    ASSUME IInv, BeginTurn
    PROVE  IInv' /\ ~won
<1>1. /\ TypeOK' /\ pc = "top" /\ pc' = "turn" /\ driver.iteration <= MaxIters
      /\ turns' = turns + 1 /\ done' = NoFile
      /\ UNCHANGED <<disk, driver, saving, bounds, saved, won, earned>>
      /\ (candidate' = NoFile <=> candidate = NoFile) /\ candidate'.run = candidate.run
  BY BeginTypes DEF IInv
<1>2. /\ Load' = Load /\ Base' = Base /\ Slack' = Slack /\ UNCHANGED <<main, backup>>
      /\ ~Exists(done')
  BY <1>1, LoadKept DEF disk, bounds, Slack, Exists
<1>3. ~won
  BY <1>1 DEF IInv, SuccessStays, Saving
<1>4. SaveSound' /\ CheckpointLoads' /\ SuccessStays'
  BY <1>1, <1>2, <1>3 DEF IInv, SaveSound, CheckpointLoads, SuccessStays, Saving, Exists
<1>5. SuccessEarned'
  BY <1>1, <1>2 DEF IInv, SuccessEarned, Succeeded, Exists
<1>6. FlagsDated'
  BY <1>1, <1>2 DEF IInv, FlagsDated, Saving, Exists
<1>7. TurnsPaid'
  <2>1. /\ Base \in Nat /\ Slack \in Nat /\ turns \in Nat /\ MaxIters \in Nat
        /\ driver.iteration \in Nat
    BY BaseType DEF IInv
  <2>2. turns <= driver.iteration - 1 + Slack /\ turns <= Base + Slack
    BY <1>1 DEF IInv, TurnsPaid, Saving
  <2>. QED
    BY <1>1, <1>2, <2>1, <2>2 DEF TurnsPaid, Saving
<1>. QED
  BY <1>1, <1>3, <1>4, <1>5, <1>6, <1>7 DEF IInv

LEMMA FlagKeeps ==
    ASSUME IInv, WriteDoneFlag
    PROVE  IInv'
<1>1. /\ TypeOK' /\ pc = "flag" /\ pc' = "off" /\ driver'.run = driver.run
      /\ done'.run = driver.run /\ saving' = NoSave
      /\ UNCHANGED <<disk, candidate, bounds, turns, saved, won, earned>>
  BY FlagTypes DEF IInv, history
<1>2. /\ Load' = Load /\ Base' = Base /\ Slack' = Slack /\ UNCHANGED <<main, backup>>
      /\ ~Exists(saving'.checkpoint)
  BY <1>1, LoadKept DEF disk, bounds, Slack, Exists, NoSave
<1>3. SaveSound' /\ CheckpointLoads' /\ SuccessStays'
  BY <1>1, <1>2 DEF IInv, SaveSound, CheckpointLoads, SuccessStays, Saving, Exists
<1>4. SuccessEarned'
  BY <1>1, <1>2 DEF IInv, SuccessEarned, Succeeded, Exists
<1>5. FlagsDated'
  BY <1>1 DEF IInv, TypeOK, FlagsDated, Saving, Exists
<1>6. TurnsPaid'
  BY <1>1, <1>2 DEF IInv, TurnsPaid, Saving
<1>. QED
  BY <1>1, <1>3, <1>4, <1>5, <1>6 DEF IInv

LEMMA CrashKeeps ==
    ASSUME IInv, TypeOK', Crash
    PROVE  IInv'
<1>1. /\ crashes' = crashes + 1 /\ faults' = faults /\ pc' = "off" /\ pc # "off"
      /\ driver'.run = driver.run /\ saving' = NoSave
      /\ UNCHANGED <<disk, done, candidate, turns, saved, won, earned>>
  BY LeaveType DEF IInv, Crash, flags, history
<1>2. /\ Load' = Load /\ Base' = Base /\ UNCHANGED <<main, backup>>
      /\ ~Exists(saving'.checkpoint)
  BY <1>1, LoadKept DEF disk, Exists, NoSave
<1>3. SaveSound' /\ CheckpointLoads' /\ SuccessStays'
  BY <1>1, <1>2 DEF IInv, SaveSound, CheckpointLoads, SuccessStays, Saving, Exists
<1>4. SuccessEarned'
  BY <1>1, <1>2 DEF IInv, SuccessEarned, Succeeded, Exists
<1>5. FlagsDated'
  <2>1. driver.run \in Nat /\ (Exists(done) => done.run \in Nat)
    BY DEF IInv, TypeOK, Exists, Flag
  <2>. QED
    BY <1>1, <2>1 DEF IInv, FlagsDated, Saving, Exists
<1>6. TurnsPaid'
  <2>1. Base \in Nat /\ Slack \in Nat /\ turns \in Nat /\ MaxIters \in Nat
    BY BaseType DEF IInv
  <2>2. Slack' = Slack + 1
    BY <1>1 DEF Slack, IInv, TypeOK
  <2>. QED
    BY <1>1, <1>2, <2>1, <2>2 DEF IInv, TurnsPaid, Saving
<1>. QED
  BY <1>3, <1>4, <1>5, <1>6 DEF IInv

LEMMA IInvStep == IInv /\ [Next]_vars => IInv'
<1>. SUFFICES ASSUME IInv, [Next]_vars PROVE IInv'
  OBVIOUS
<1>1. TypeOK'
  BY TypesStep
<1>. QED
  BY <1>1, NextCases, SavingKeeps, WritingKeeps, WorkingKeeps, BackupKeeps, RenameKeeps, ClearKeeps,
     StartKeeps, ResumeKeeps, BeginKeeps, FlagKeeps, CrashKeeps

-----------------------------------------------------------------------------
(* The theorems                                                            *)

(* The inductive invariant holds in every reachable state.                 *)
THEOREM IInvCorrect == Spec => []IInv
<1>. QED
  BY IInvInit, IInvStep, PTL DEF Spec

(* The variables of the driver and its files keep their types.             *)
THEOREM TypeCorrect == Spec => []TypeOK
<1>1. IInv => TypeOK
  BY DEF IInv
<1>. QED
  BY IInvCorrect, <1>1, PTL

(* CheckpointManager: a checkpoint that was saved loads again, it or a     *)
(* newer one, whatever crashes and writes that fail come in between.       *)
THEOREM CheckpointsLoad == Spec => []CheckpointLoads
<1>1. IInv => CheckpointLoads
  BY DEF IInv
<1>. QED
  BY IInvCorrect, <1>1, PTL

(* runLoop: no restart wins a loop more turns than maxIters and one for    *)
(* each crash and each write that failed.                                  *)
THEOREM TurnsAreBounded == Spec => []TurnsBounded
<1>1. IInv => TurnsBounded
  <2>. SUFFICES ASSUME IInv PROVE TurnsBounded
    OBVIOUS
  <2>1. turns <= MaxIters + (crashes + faults)
    BY DEF IInv, TurnsPaid, Slack
  <2>2. crashes \in Nat /\ faults \in Nat /\ MaxIters \in Nat
    BY LoopAssumption DEF IInv, TypeOK
  <2>. QED
    BY <2>1, <2>2 DEF TurnsBounded
<1>. QED
  BY IInvCorrect, <1>1, PTL

(* canPromoteCompletion and verifyDoneFlag: a loop that ends as succeeded  *)
(* has passed the joint gate, since its checkpoints were last cleared, on  *)
(* a candidate that the model wrote in a turn that was then judged.        *)
THEOREM SuccessHasBeenEarned == Spec => []SuccessIsEarned
<1>1. IInv => SuccessIsEarned
  BY DEF IInv, SuccessEarned, Succeeded, SuccessIsEarned, Succeeding
<1>. QED
  BY IInvCorrect, <1>1, PTL

(* runLoop: once success is on disk no driver runs another turn.           *)
THEOREM SuccessIsFinal == Spec => NoTurnAfterSuccess
<1>1. IInv /\ [Next]_vars => [BeginTurn => ~won]_vars
  BY BeginKeeps
<1>. QED
  BY IInvCorrect, <1>1, PTL DEF Spec, NoTurnAfterSuccess
=============================================================================
