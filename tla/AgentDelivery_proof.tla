------------------------- MODULE AgentDelivery_proof -------------------------
(***************************************************************************)
(* Proofs about AgentDelivery, for any calls, files and bounds: no work is *)
(* lost, what the parent is told is true, and the runs say the same.       *)
(***************************************************************************)
EXTENDS AgentDelivery, TLAPS

(* What each stage of a call relies on. *)
Nothing(a) == work[a] = {} /\ edited[a] = {} /\ committed[a] = {} /\ delivered[a] = {}
InWorktree(a) ==
    /\ a \in worktrees /\ a \in branches
    /\ work[a] = committed[a] \union edited[a] /\ delivered[a] = {}
Untold(a) == outcome[a] = "none"

NotBegun(a) == Nothing(a) /\ Untold(a) /\ a \notin commitFailed /\ ended[a] = "none"
Turning(a) ==
    /\ Untold(a) /\ ended[a] = "none" /\ gate[a] = "none" /\ a \notin commitFailed
    /\ run[a] \in {"running", "cancelled"}
    /\ IF Isolated(mode[a]) THEN InWorktree(a) ELSE Nothing(a)
Passed(a) ==
    /\ mode[a] = "merge" /\ ~WorkerFailed(ended[a]) /\ ended[a] # "none" /\ gate[a] # "failed"
    /\ work[a] # {} => ended[a] = "completed"
    /\ run[a] \in {"verifying", "cancelled"}
Waiting(a) == Passed(a) /\ Untold(a) /\ InWorktree(a) /\ a \notin commitFailed
Merged(a) ==
    /\ Passed(a) /\ Untold(a)
    /\ delivered[a] \subseteq work[a] /\ (a \notin commitFailed => delivered[a] = work[a])
Conflicted(a) == Passed(a) /\ Untold(a) /\ InWorktree(a)

WorkIsKept(a) == work[a] \subseteq Kept(a) \/ ThrownAway(a)
ToldTrue(a) ==
    /\ outcome[a] = "succeeded" /\ mode[a] = "merge" /\ a \notin commitFailed
           => work[a] = delivered[a]
    /\ delivered[a] # {} => ended[a] = "completed" /\ gate[a] # "failed"
    /\ outcome[a] \in {"failed", "verification_failed", "blocked", "cancelled"}
           => delivered[a] = {}
RunTells(a) ==
    \/ run[a] = outcome[a] \/ run[a] = "cancelled"
    \/ outcome[a] = "blocked" /\ ended[a] # "none"

Stage(a) ==
    /\ pc[a] = "off" => NotBegun(a) /\ gate[a] = "none" /\ run[a] = "queued"
    /\ pc[a] = "left" => Nothing(a)
    /\ pc[a] = "turn" => Turning(a)
    /\ pc[a] = "queued" => Waiting(a)
    /\ pc[a] = "merged" => Merged(a)
    /\ pc[a] = "conflict" => Conflicted(a)
    /\ pc[a] = "done" => WorkIsKept(a) /\ ToldTrue(a) /\ RunTells(a)

(* Those in the queue of the mutex wait for it, each of them once. *)
QueueWaits ==
    /\ \A i \in 1..Len(queue) : pc[queue[i]] = "queued"
    /\ \A i, j \in 1..Len(queue) : queue[i] = queue[j] => i = j

IInv == TypeOK /\ QueueWaits /\ \A a \in Agents : Stage(a)

-----------------------------------------------------------------------------
(* Facts about runs and modes                                              *)

LEMMA MovedType ==
    ASSUME NEW from \in RunStatus, NEW to \in RunStatus
    PROVE  Moved(from, to) \in RunStatus
BY DEF Moved

LEMMA MovedFacts ==
    /\ Moved("running", "verifying") = "verifying"
    /\ Moved("running", "failed") = "failed" /\ Moved("running", "succeeded") = "succeeded"
    /\ Moved("verifying", "succeeded") = "succeeded"
    /\ Moved("verifying", "verification_failed") = "verification_failed"
    /\ Moved("verifying", "failed") = "failed"
    /\ Moved("verifying", "blocked") = "verifying"
    /\ Moved("cancelled", "verifying") = "cancelled" /\ Moved("cancelled", "failed") = "cancelled"
    /\ Moved("cancelled", "succeeded") = "cancelled"
    /\ Moved("cancelled", "verification_failed") = "cancelled"
    /\ Moved("cancelled", "blocked") = "cancelled"
    /\ Moved("running", "cancelled") = "cancelled" /\ Moved("verifying", "cancelled") = "cancelled"
    /\ Moved("cancelled", "cancelled") = "cancelled"
    /\ \A from : Moved(from, "cancelled") \in {from, "cancelled"}
BY DEF Moved, CanTransition, ValidTransitions, RunStatus

LEMMA StatusFacts ==
    {"queued", "preparing", "running", "verifying", "succeeded", "failed", "cancelled", "blocked",
     "verification_failed"} \subseteq RunStatus
BY DEF RunStatus

(* What a stage of a call says is about that call's own variables. *)
Own(a) == <<pc[a], mode[a], edited[a], committed[a], ended[a], gate[a], run[a], outcome[a],
            work[a], delivered[a]>>
SameSets(a) ==
    /\ (a \in worktrees') <=> (a \in worktrees)
    /\ (a \in branches') <=> (a \in branches)
    /\ (a \in commitFailed') <=> (a \in commitFailed)
    /\ (a \in statusFailed') <=> (a \in statusFailed)

LEMMA OthersKeepStage ==
    ASSUME NEW a, Stage(a), Own(a)' = Own(a), SameSets(a)
    PROVE  Stage(a)'
<1>1. /\ pc[a]' = pc[a] /\ mode[a]' = mode[a] /\ edited[a]' = edited[a]
      /\ committed[a]' = committed[a] /\ ended[a]' = ended[a] /\ gate[a]' = gate[a]
      /\ run[a]' = run[a] /\ outcome[a]' = outcome[a] /\ work[a]' = work[a]
      /\ delivered[a]' = delivered[a]
  BY DEF Own
<1>2. NotBegun(a)' = NotBegun(a) /\ Turning(a)' = Turning(a) /\ Nothing(a)' = Nothing(a)
  BY <1>1 DEF SameSets, NotBegun, Turning, Nothing, Untold, InWorktree
<1>3. Waiting(a)' = Waiting(a) /\ Merged(a)' = Merged(a) /\ Conflicted(a)' = Conflicted(a)
  BY <1>1 DEF SameSets, Waiting, Merged, Conflicted, Passed, Untold, InWorktree
<1>4. WorkIsKept(a)' = WorkIsKept(a) /\ ToldTrue(a)' = ToldTrue(a) /\ RunTells(a)' = RunTells(a)
  BY <1>1 DEF SameSets, WorkIsKept, ThrownAway, Kept, ToldTrue, RunTells
<1>. QED
  BY <1>1, <1>2, <1>3, <1>4 DEF Stage

LEMMA IInvInit == Init => IInv
<1>. SUFFICES ASSUME Init PROVE IInv
  OBVIOUS
<1>1. TypeOK
  <2>1. /\ head \in [Files -> Nat] /\ base \in [Agents -> [Files -> Nat]]
        /\ commits \in 0..MaxCommits /\ faults \in 0..MaxFaults
        /\ queue \in Seq(Agents) /\ dirty \subseteq Files /\ aborted \subseteq Agents
        /\ worktrees \subseteq Agents /\ branches \subseteq Agents /\ commitFailed \subseteq Agents
        /\ statusFailed \subseteq Agents
    BY DeliveryAssumption DEF Init
  <2>2. /\ edited \in [Agents -> SUBSET Files] /\ committed \in [Agents -> SUBSET Files]
        /\ work \in [Agents -> SUBSET Files] /\ delivered \in [Agents -> SUBSET Files]
    BY DEF Init
  <2>3. run \in [Agents -> RunStatus]
    BY StatusFacts DEF Init
  <2>. QED
    BY <2>1, <2>2, <2>3 DEF Init, TypeOK, Modes
<1>2. QueueWaits
  BY DEF Init, QueueWaits
<1>3. ASSUME NEW a \in Agents PROVE Stage(a)
  BY DEF Init, Stage, NotBegun, Nothing, Untold
<1>. QED
  BY <1>1, <1>2, <1>3 DEF IInv

-----------------------------------------------------------------------------
(* Steps                                                                   *)

(* A step of one call keeps the invariant if it keeps the types and the    *)
(* queue, that call's stage, and the other calls' variables.               *)
LEMMA StepOfOne ==
    ASSUME IInv, NEW a \in Agents, TypeOK', QueueWaits', Stage(a)',
           \A b \in Agents : b # a => Own(b)' = Own(b) /\ SameSets(b)
    PROVE  IInv'
<1>1. ASSUME NEW b \in Agents PROVE Stage(b)'
  <2>1. CASE b # a
    BY <2>1, OthersKeepStage DEF IInv
  <2>. QED
    BY <2>1
<1>. QED
  BY <1>1 DEF IInv

(* The queue does not notice a call that is not in it. *)
LEMMA QueueUnmoved ==
    ASSUME IInv, NEW a \in Agents, pc[a] # "queued", NEW next,
           pc' = [pc EXCEPT ![a] = next], UNCHANGED queue
    PROVE  QueueWaits'
<1>1. \A i \in 1..Len(queue) : queue[i] \in Agents /\ pc[queue[i]] = "queued"
  BY DEF IInv, TypeOK, QueueWaits
<1>2. \A i \in 1..Len(queue) : pc'[queue[i]] = "queued"
  BY <1>1 DEF IInv, TypeOK
<1>. QED
  BY <1>2 DEF IInv, QueueWaits

LEMMA RefusedKeeps ==
    ASSUME IInv, NEW a \in Agents, NEW m \in Modes, Refused(a, m) \/ PreAborted(a, m)
    PROVE  IInv'
<1>1. PICK status \in {"blocked", "cancelled"} :
         /\ pc[a] = "off"
         /\ pc' = [pc EXCEPT ![a] = "done"] /\ mode' = [mode EXCEPT ![a] = m]
         /\ run' = [run EXCEPT ![a] = status] /\ outcome' = [outcome EXCEPT ![a] = status]
         /\ UNCHANGED <<head, dirty, commits, worktrees, branches, base, edited, committed, work,
                        delivered, commitFailed, statusFailed, queue, aborted, parentAborted, ended, gate>>
  BY DEF Refused, PreAborted, parentVars, gitVars, historyVars
<1>2. faults' \in 0..MaxFaults
  BY DeliveryAssumption DEF Refused, PreAborted, IInv, TypeOK
<1>3. NotBegun(a)
  BY <1>1 DEF IInv, Stage
<1>4. TypeOK'
  BY <1>1, <1>2, StatusFacts DEF IInv, TypeOK
<1>5. QueueWaits'
  BY <1>1, QueueUnmoved
<1>6. Stage(a)'
  BY <1>1, <1>3 DEF IInv, TypeOK, Stage, NotBegun, Nothing, WorkIsKept, ThrownAway, Kept, ToldTrue, RunTells
<1>7. \A b \in Agents : b # a => Own(b)' = Own(b) /\ SameSets(b)
  BY <1>1 DEF IInv, TypeOK, Own, SameSets
<1>. QED
  BY <1>4, <1>5, <1>6, <1>7, StepOfOne

(* A call that begins, with or without a child. *)
LEMMA BeginKeeps ==
    ASSUME IInv, NEW a \in Agents, NEW m \in Modes, FactoryThrows(a, m) \/ Start(a, m)
    PROVE  IInv'
<1>1. /\ pc[a] = "off" /\ mode' = [mode EXCEPT ![a] = m] /\ Created(a, m)
      /\ UNCHANGED <<head, dirty, commits, edited, committed, work, delivered, commitFailed, statusFailed, queue,
                     aborted, parentAborted, ended, gate>>
  BY DEF FactoryThrows, Start, parentVars, historyVars
<1>2. NotBegun(a) /\ gate[a] = "none"
  BY <1>1 DEF IInv, Stage
<1>3. /\ worktrees' \in {worktrees, worktrees \union {a}}
      /\ branches' \in {branches, branches \union {a}}
      /\ base' \in [Agents -> [Files -> Nat]]
      /\ Isolated(m) => a \in worktrees' /\ a \in branches'
  BY <1>1 DEF Created, IInv, TypeOK
<1>4. faults' \in 0..MaxFaults
  BY DeliveryAssumption DEF FactoryThrows, Start, IInv, TypeOK
<1>5. \/ /\ pc' = [pc EXCEPT ![a] = "left"]
         /\ run' = [run EXCEPT ![a] = "preparing"] /\ outcome' = [outcome EXCEPT ![a] = "threw"]
      \/ /\ pc' = [pc EXCEPT ![a] = "turn"]
         /\ run' = [run EXCEPT ![a] = "running"] /\ outcome' = outcome
  BY DEF FactoryThrows, Start
<1>6. TypeOK'
  <2>1. /\ run' \in [Agents -> RunStatus] /\ pc' \in [Agents -> InFlight \union {"off", "done", "left"}]
        /\ outcome' \in [Agents -> {"none", "succeeded", "failed", "verification_failed", "blocked",
                                    "cancelled", "threw"}]
    <3>1. CASE pc' = [pc EXCEPT ![a] = "left"] /\ run' = [run EXCEPT ![a] = "preparing"]
               /\ outcome' = [outcome EXCEPT ![a] = "threw"]
      BY <3>1, StatusFacts DEF IInv, TypeOK
    <3>2. CASE pc' = [pc EXCEPT ![a] = "turn"] /\ run' = [run EXCEPT ![a] = "running"]
               /\ outcome' = outcome
      BY <3>2, StatusFacts DEF IInv, TypeOK, InFlight
    <3>. QED
      BY <1>5, <3>1, <3>2
  <2>2. mode' \in [Agents -> Modes] /\ worktrees' \subseteq Agents /\ branches' \subseteq Agents
    BY <1>1, <1>3 DEF IInv, TypeOK
  <2>. QED
    BY <1>1, <1>3, <1>4, <2>1, <2>2 DEF IInv, TypeOK
<1>7. QueueWaits'
  BY <1>1, <1>5, QueueUnmoved
<1>8. Stage(a)'
  <2>1. Nothing(a)' /\ (a \notin commitFailed)' /\ ended'[a] = "none" /\ gate'[a] = "none"
    BY <1>1, <1>2 DEF NotBegun, Nothing
  <2>2. mode'[a] = m
    BY <1>1 DEF IInv, TypeOK
  <2>. QED
    BY <1>2, <1>3, <1>5, <2>1, <2>2
    DEF IInv, TypeOK, Stage, Turning, InWorktree, NotBegun, Nothing, Untold
<1>9. \A b \in Agents : b # a => Own(b)' = Own(b) /\ SameSets(b)
  BY <1>1, <1>3, <1>5 DEF IInv, TypeOK, Own, SameSets
<1>. QED
  BY <1>6, <1>7, <1>8, <1>9, StepOfOne

(* What a child does in its worktree. *)
LEMMA ChildKeeps ==
    ASSUME IInv, NEW a \in Agents, ChildCommits(a) \/ \E f \in Files : ChildEdits(a, f)
    PROVE  IInv'
<1>1. /\ pc[a] = "turn" /\ UNCHANGED <<head, dirty, commits, worktrees, branches, base, queue, mode,
            aborted, parentAborted, ended, gate, pc, run, outcome, faults, delivered, commitFailed, statusFailed>>
  BY DEF ChildCommits, ChildEdits, parentVars, callVars, historyVars
<1>2. Turning(a)
  BY <1>1 DEF IInv, Stage
<1>. DEFINE Accounted ==
         /\ work' \in [Agents -> SUBSET Files] /\ edited' \in [Agents -> SUBSET Files]
         /\ committed' \in [Agents -> SUBSET Files]
         /\ \A b \in Agents : b # a =>
               work'[b] = work[b] /\ edited'[b] = edited[b] /\ committed'[b] = committed[b]
         /\ Isolated(mode[a]) /\ work'[a] = committed'[a] \union edited'[a]
<1>3. Accounted
  <2>1. CASE ChildCommits(a)
    <3>1. Isolated(mode[a]) /\ work[a] = committed[a] \union edited[a]
      BY <1>2, <2>1 DEF ChildCommits, Turning, InWorktree, Nothing
    <3>2. /\ committed' = [committed EXCEPT ![a] = committed[a] \union edited[a]]
          /\ edited' = [edited EXCEPT ![a] = {}] /\ work' = work
      BY <2>1 DEF ChildCommits, historyVars
    <3>. QED
      BY <3>1, <3>2 DEF IInv, TypeOK
  <2>2. ASSUME NEW f \in Files, ChildEdits(a, f) PROVE Accounted
    <3>1. Isolated(mode[a]) /\ work[a] = committed[a] \union edited[a]
      BY <1>2, <2>2 DEF ChildEdits, Turning, InWorktree
    <3>2. /\ edited' = [edited EXCEPT ![a] = edited[a] \union {f}]
          /\ work' = [work EXCEPT ![a] = work[a] \union {f}] /\ committed' = committed
      BY <2>2 DEF ChildEdits
    <3>. QED
      BY <3>1, <3>2 DEF IInv, TypeOK
  <2>. QED
    BY <2>1, <2>2
<1>4. TypeOK'
  BY <1>1, <1>3 DEF IInv, TypeOK
<1>5. QueueWaits'
  BY <1>1 DEF IInv, QueueWaits
<1>6. Stage(a)'
  BY <1>1, <1>2, <1>3 DEF Stage, Turning, InWorktree, Untold
<1>7. \A b \in Agents : b # a => Own(b)' = Own(b) /\ SameSets(b)
  BY <1>1, <1>3 DEF Own, SameSets
<1>. QED
  BY <1>4, <1>5, <1>6, <1>7, StepOfOne

LEMMA ThrowKeeps ==
    ASSUME IInv, NEW a \in Agents, NEW statusOk \in BOOLEAN, TurnThrows(a, statusOk)
    PROVE  IInv'
<1>1. /\ pc[a] = "turn" /\ pc' = [pc EXCEPT ![a] = "done"] /\ ended' = [ended EXCEPT ![a] = "threw"]
      /\ run' = [run EXCEPT ![a] = Moved(run[a], "failed")]
      /\ outcome' = [outcome EXCEPT ![a] = "failed"]
      /\ UNCHANGED <<head, dirty, commits, base, edited, committed, work, delivered, commitFailed,
                     queue, mode, aborted, parentAborted, gate>>
  BY DEF TurnThrows, Finished, parentVars
<1>2. Turning(a)
  BY <1>1 DEF IInv, Stage
<1>3. /\ worktrees' \subseteq Agents /\ branches' \subseteq Agents
      /\ \A b \in Agents : b # a => SameSets(b)
      /\ statusOk /\ edited[a] # {} => worktrees' = worktrees /\ branches' = branches
      /\ ~statusOk => a \in statusFailed'
      /\ statusFailed' \subseteq Agents /\ faults' \in 0..MaxFaults
  <2>1. /\ worktrees' \in {worktrees, worktrees \ {a}} /\ branches' \in {branches, branches \ {a}}
        /\ statusOk /\ edited[a] # {} => worktrees' = worktrees /\ branches' = branches
    BY DEF TurnThrows, WorthKeeping
  <2>2. /\ statusFailed' \in {statusFailed, statusFailed \union {a}} /\ faults' \in 0..MaxFaults
        /\ ~statusOk => a \in statusFailed'
    BY DeliveryAssumption DEF TurnThrows, IInv, TypeOK
  <2>. QED
    BY <1>1, <2>1, <2>2 DEF IInv, TypeOK, SameSets
<1>4. Moved(run[a], "failed") \in RunStatus
  BY MovedType, StatusFacts DEF IInv, TypeOK
<1>5. TypeOK'
  <2>1. ended' \in [Agents -> Endings \union {"none"}] /\ run' \in [Agents -> RunStatus]
    BY <1>1, <1>4 DEF IInv, TypeOK, Endings
  <2>2. /\ pc' \in [Agents -> InFlight \union {"off", "done", "left"}]
        /\ outcome' \in [Agents -> {"none", "succeeded", "failed", "verification_failed", "blocked",
                                    "cancelled", "threw"}]
    BY <1>1 DEF IInv, TypeOK
  <2>. QED
    BY <1>1, <1>3, <2>1, <2>2 DEF IInv, TypeOK
<1>6. QueueWaits'
  BY <1>1, QueueUnmoved
<1>7. Stage(a)'
  <2>1. pc'[a] = "done" /\ ended'[a] = "threw" /\ outcome'[a] = "failed"
        /\ run'[a] = Moved(run[a], "failed")
    BY <1>1 DEF IInv, TypeOK
  <2>2. RunTells(a)'
    BY <1>2, <2>1, MovedFacts DEF Turning, RunTells
  <2>3. delivered[a] = {} /\ ToldTrue(a)'
    BY <1>1, <1>2, <2>1 DEF Turning, InWorktree, Nothing, ToldTrue
  <2>4. WorkIsKept(a)'
    <3>1. CASE edited[a] = {} \/ ~statusOk
      BY <1>1, <1>3, <2>1, <3>1 DEF WorkIsKept, ThrownAway
    <3>2. CASE statusOk /\ edited[a] # {}
      BY <1>1, <1>2, <1>3, <3>2 DEF Turning, InWorktree, Nothing, WorkIsKept, Kept
    <3>. QED
      BY <3>1, <3>2
  <2>. QED
    BY <2>1, <2>2, <2>3, <2>4 DEF Stage
<1>8. \A b \in Agents : b # a => Own(b)' = Own(b) /\ SameSets(b)
  BY <1>1, <1>3 DEF IInv, TypeOK, Own
<1>. QED
  BY <1>5, <1>6, <1>7, <1>8, StepOfOne

LEMMA SettleKeeps ==
    ASSUME IInv, NEW a \in Agents, Settle(a)
    PROVE  IInv'
<1>. DEFINE status == FinalStatus(ended[a], gate[a], pc[a])
<1>1. /\ pc[a] \in {"merged", "conflict"} /\ pc' = [pc EXCEPT ![a] = "done"]
      /\ run' = [run EXCEPT ![a] = Moved(run[a], status)]
      /\ outcome' = [outcome EXCEPT ![a] = status]
      /\ UNCHANGED <<head, dirty, commits, worktrees, branches, base, edited, committed, work,
                     delivered, commitFailed, statusFailed, queue, mode, aborted, parentAborted, ended, gate, faults>>
  BY DEF Settle, Finished, parentVars, gitVars, callVars, historyVars
<1>2. Passed(a)
  BY <1>1 DEF IInv, Stage, Merged, Conflicted
<1>3. status = IF pc[a] = "conflict" THEN "blocked" ELSE "succeeded"
  BY <1>2 DEF FinalStatus, Passed
<1>4. TypeOK'
  <2>1. Moved(run[a], status) \in RunStatus
    BY <1>3, MovedType, StatusFacts DEF IInv, TypeOK
  <2>2. outcome' \in [Agents -> {"none", "succeeded", "failed", "verification_failed", "blocked",
                                "cancelled", "threw"}]
    BY <1>1, <1>3 DEF IInv, TypeOK
  <2>. QED
    BY <1>1, <2>1, <2>2 DEF IInv, TypeOK
<1>5. QueueWaits'
  BY <1>1, QueueUnmoved
<1>6. Stage(a)'
  <2>1. pc'[a] = "done" /\ outcome'[a] = status /\ run'[a] = Moved(run[a], status)
    BY <1>1 DEF IInv, TypeOK
  <2>2. RunTells(a)'
    BY <1>1, <1>2, <1>3, <2>1, MovedFacts DEF Passed, RunTells
  <2>3. CASE pc[a] = "merged"
    <3>1. Merged(a)
      BY <2>3 DEF IInv, Stage
    <3>2. WorkIsKept(a)' /\ ToldTrue(a)'
      BY <1>1, <1>3, <2>1, <2>3, <3>1 DEF Merged, Passed, WorkIsKept, ThrownAway, Kept, ToldTrue
    <3>. QED
      BY <2>1, <2>2, <3>2 DEF Stage
  <2>4. CASE pc[a] = "conflict"
    <3>1. InWorktree(a)
      BY <2>4 DEF IInv, Stage, Conflicted
    <3>2. WorkIsKept(a)' /\ ToldTrue(a)'
      BY <1>1, <1>3, <2>1, <2>4, <3>1 DEF InWorktree, WorkIsKept, ThrownAway, Kept, ToldTrue
    <3>. QED
      BY <2>1, <2>2, <3>2 DEF Stage
  <2>. QED
    BY <1>1, <2>3, <2>4
<1>7. \A b \in Agents : b # a => Own(b)' = Own(b) /\ SameSets(b)
  BY <1>1 DEF IInv, TypeOK, Own, SameSets
<1>. QED
  BY <1>4, <1>5, <1>6, <1>7, StepOfOne

LEMMA CancelKeeps ==
    ASSUME IInv, NEW a \in Agents, Cancel(a)
    PROVE  IInv'
<1>1. /\ pc[a] # "off" /\ run' = [run EXCEPT ![a] = Moved(run[a], "cancelled")]
      /\ UNCHANGED <<head, dirty, commits, worktrees, branches, base, edited, committed, work,
                     delivered, commitFailed, statusFailed, queue, mode, parentAborted, ended, gate, pc, outcome, faults>>
  BY DEF Cancel, parentVars, gitVars, historyVars
<1>2. TypeOK'
  <2>1. Moved(run[a], "cancelled") \in RunStatus /\ aborted' \subseteq Agents
    BY MovedType, StatusFacts DEF IInv, TypeOK, Cancel
  <2>. QED
    BY <1>1, <2>1 DEF IInv, TypeOK
<1>3. QueueWaits'
  BY <1>1 DEF IInv, QueueWaits
<1>4. Stage(a)'
  <2>1. run'[a] = Moved(run[a], "cancelled") /\ Moved(run[a], "cancelled") \in {run[a], "cancelled"}
    BY <1>1, MovedFacts DEF IInv, TypeOK
  <2>2. Turning(a) => Turning(a)'
    BY <1>1, <2>1 DEF Turning, InWorktree, Nothing, Untold
  <2>3. /\ Waiting(a) => Waiting(a)'
        /\ Merged(a) => Merged(a)'
        /\ Conflicted(a) => Conflicted(a)'
    BY <1>1, <2>1 DEF Waiting, Merged, Conflicted, Passed, InWorktree, Untold
  <2>4. WorkIsKept(a)' = WorkIsKept(a) /\ ToldTrue(a)' = ToldTrue(a) /\ (RunTells(a) => RunTells(a)')
    BY <1>1, <2>1 DEF WorkIsKept, ThrownAway, Kept, ToldTrue, RunTells
  <2>5. Nothing(a)' = Nothing(a)
    BY <1>1 DEF Nothing
  <2>. QED
    BY <1>1, <2>2, <2>3, <2>4, <2>5 DEF IInv, Stage
<1>5. \A b \in Agents : b # a => Own(b)' = Own(b) /\ SameSets(b)
  BY <1>1 DEF IInv, TypeOK, Own, SameSets
<1>. QED
  BY <1>2, <1>3, <1>4, <1>5, StepOfOne

-----------------------------------------------------------------------------
(* The end of a turn, and the delivery                                     *)

(* What is merged queues for the mutex; nothing else is delivered.         *)
LEMMA ReturnKeeps ==
    ASSUME IInv, NEW a \in Agents, NEW ending \in Endings \ {"threw"},
           NEW verdict \in {"none", "passed", "failed"}, TurnReturns(a, ending, verdict)
    PROVE  IInv'
<1>. DEFINE gated == Gated(mode[a]) /\ ~WorkerFailed(ending)
            checked == IF gated THEN Moved(run[a], "verifying") ELSE run[a]
            status == FinalStatus(ending, verdict, "kept")
            queues == mode[a] = "merge" /\ gated /\ verdict # "failed"
<1>1. /\ pc[a] = "turn" /\ (ending = "unrouted" => work[a] = {}) /\ (~gated => verdict = "none")
      /\ ended' = [ended EXCEPT ![a] = ending] /\ gate' = [gate EXCEPT ![a] = verdict]
      /\ UNCHANGED <<head, dirty, commits, worktrees, branches, base, edited, committed, work,
                     delivered, commitFailed, statusFailed, mode, aborted, parentAborted, faults>>
  BY DEF TurnReturns, Possible, parentVars, gitVars, historyVars
<1>2. Turning(a)
  BY <1>1 DEF IInv, Stage
<1>3. checked \in {"running", "verifying", "cancelled"} /\ (gated => checked \in {"verifying", "cancelled"})
      /\ (~gated => checked \in {"running", "cancelled"})
  BY <1>2, MovedFacts DEF Turning
<1>4. status \in {"failed", "verification_failed", "succeeded"}
      /\ (status = "verification_failed" => gated)
      /\ (status = "succeeded" => ~WorkerFailed(ending) /\ verdict # "failed")
  BY <1>1 DEF FinalStatus
<1>5. \A b \in Agents : b # a => SameSets(b)
  BY <1>1 DEF SameSets
<1>6. ended' \in [Agents -> Endings \union {"none"}] /\ gate' \in [Agents -> {"none", "passed", "failed"}]
      /\ ended'[a] = ending /\ gate'[a] = verdict
  BY <1>1 DEF IInv, TypeOK
<1>7. CASE queues
  <2>1. /\ queue' = Append(queue, a) /\ pc' = [pc EXCEPT ![a] = "queued"]
        /\ run' = [run EXCEPT ![a] = checked] /\ outcome' = outcome
    BY <1>7 DEF TurnReturns
  <2>2. TypeOK'
    <3>1. run' \in [Agents -> RunStatus]
      BY <1>3, <2>1, StatusFacts DEF IInv, TypeOK
    <3>2. pc' \in [Agents -> InFlight \union {"off", "done", "left"}]
      BY <2>1 DEF IInv, TypeOK, InFlight
    <3>3. queue' \in Seq(Agents)
      BY <2>1 DEF IInv, TypeOK
    <3>. QED
      BY <1>1, <1>6, <2>1, <3>1, <3>2, <3>3 DEF IInv, TypeOK
  <2>3. QueueWaits'
    <3>1. queue \in Seq(Agents) /\ pc \in [Agents -> InFlight \union {"off", "done", "left"}]
      BY DEF IInv, TypeOK
    <3>2. \A i \in 1..Len(queue) : queue[i] \in Agents /\ pc[queue[i]] = "queued" /\ queue[i] # a
      BY <1>1, <3>1 DEF IInv, QueueWaits
    <3>3. /\ Len(queue') = Len(queue) + 1 /\ Len(queue) \in Nat /\ queue'[Len(queue) + 1] = a
          /\ \A i \in 1..Len(queue) : queue'[i] = queue[i]
      BY <2>1, <3>1
    <3>4. \A i \in 1..Len(queue') : pc'[queue'[i]] = "queued"
      BY <2>1, <3>1, <3>2, <3>3
    <3>. QED
      BY <3>2, <3>3, <3>4 DEF IInv, QueueWaits
  <2>4. Stage(a)'
    <3>1. pc'[a] = "queued" /\ run'[a] = checked /\ outcome'[a] = outcome[a] /\ gated
      BY <1>7, <2>1 DEF IInv, TypeOK
    <3>2. mode[a] = "merge" /\ InWorktree(a)
      BY <1>2, <1>7 DEF Turning, Isolated
    <3>3. ending = "completed" \/ ending = "unrouted"
      BY <1>7 DEF WorkerFailed, Endings
    <3>4. Passed(a)'
      BY <1>1, <1>3, <1>6, <1>7, <3>1, <3>2, <3>3 DEF Passed
    <3>5. Waiting(a)'
      BY <1>1, <1>2, <3>1, <3>2, <3>4 DEF Waiting, Turning, Untold, InWorktree
    <3>. QED
      BY <3>1, <3>5 DEF Stage
  <2>5. \A b \in Agents : b # a => Own(b)' = Own(b)
    BY <1>1, <2>1 DEF IInv, TypeOK, Own
  <2>. QED
    BY <1>5, <2>2, <2>3, <2>4, <2>5, StepOfOne
<1>8. CASE ~queues
  <2>1. /\ pc' = [pc EXCEPT ![a] = "done"] /\ queue' = queue
        /\ run' = [run EXCEPT ![a] = Moved(checked, status)]
        /\ outcome' = [outcome EXCEPT ![a] = status]
    BY <1>8 DEF TurnReturns, Finished
  <2>2. TypeOK'
    <3>1. run' \in [Agents -> RunStatus]
      BY <1>3, <1>4, <2>1, MovedType, StatusFacts DEF IInv, TypeOK
    <3>2. pc' \in [Agents -> InFlight \union {"off", "done", "left"}]
      BY <2>1 DEF IInv, TypeOK, InFlight
    <3>3. outcome' \in [Agents -> {"none", "succeeded", "failed", "verification_failed", "blocked",
                                  "cancelled", "threw"}]
      BY <1>4, <2>1 DEF IInv, TypeOK
    <3>. QED
      BY <1>1, <1>6, <2>1, <3>1, <3>2, <3>3 DEF IInv, TypeOK
  <2>3. QueueWaits'
    BY <1>1, <2>1, QueueUnmoved
  <2>4. Stage(a)'
    <3>1. pc'[a] = "done" /\ run'[a] = Moved(checked, status) /\ outcome'[a] = status
      BY <2>1 DEF IInv, TypeOK
    <3>2. RunTells(a)'
      BY <1>3, <1>4, <3>1, MovedFacts DEF RunTells
    <3>3. delivered[a] = {} /\ work[a] \subseteq Kept(a)
      BY <1>2 DEF Turning, InWorktree, Nothing, Kept
    <3>4. WorkIsKept(a)'
      BY <1>1, <3>3 DEF WorkIsKept, ThrownAway, Kept
    <3>5. status = "succeeded" => mode[a] # "merge"
      BY <1>4, <1>8 DEF Gated
    <3>6. ToldTrue(a)'
      BY <1>1, <3>1, <3>3, <3>5 DEF ToldTrue
    <3>. QED
      BY <3>1, <3>2, <3>4, <3>6 DEF Stage
  <2>5. \A b \in Agents : b # a => Own(b)' = Own(b)
    BY <1>1, <2>1 DEF IInv, TypeOK, Own
  <2>. QED
    BY <1>5, <2>2, <2>3, <2>4, <2>5, StepOfOne
<1>. QED
  BY <1>7, <1>8

(* What the branch holds gets into HEAD, or stays where it is.             *)
LEMMA DeliverKeeps ==
    ASSUME IInv, NEW a \in Agents, NEW commitOk \in BOOLEAN, NEW mergeOk \in BOOLEAN,
           Deliver(a, commitOk, mergeOk)
    PROVE  IInv'
<1>. DEFINE files == IF commitOk THEN committed[a] \union edited[a] ELSE committed[a]
<1>1. /\ queue # <<>> /\ a = Head(queue) /\ queue' = Tail(queue)
      /\ committed' = [committed EXCEPT ![a] = files]
      /\ edited' = [edited EXCEPT ![a] = edited[a] \ files]
      /\ UNCHANGED <<dirty, commits, base, mode, aborted, parentAborted, ended, gate, run, outcome, work,
                     statusFailed>>
  BY DEF Deliver, CommitAndMerge
<1>2. queue \in Seq(Agents) /\ pc[a] = "queued"
      /\ \A i \in 1..Len(queue') : queue'[i] = queue[i + 1] /\ i + 1 \in 1..Len(queue) /\ queue[i + 1] # a
  BY <1>1 DEF IInv, TypeOK, QueueWaits
<1>3. Waiting(a)
  BY <1>2 DEF IInv, Stage
<1>4. files \subseteq Files /\ files \subseteq work[a]
      /\ committed' \in [Agents -> SUBSET Files] /\ edited' \in [Agents -> SUBSET Files]
      /\ work[a] = files \union (edited[a] \ files)
      /\ (commitOk => files = work[a])
  BY <1>1, <1>3 DEF IInv, TypeOK, Waiting, InWorktree
<1>5. /\ faults' \in 0..MaxFaults /\ commitFailed' \subseteq Agents
      /\ (~commitOk => a \in commitFailed') /\ (commitOk => commitFailed' = commitFailed)
      /\ \A b \in Agents : b # a => (b \in commitFailed' <=> b \in commitFailed)
  <2>1. CASE commitOk
    BY <2>1 DEF Deliver, IInv, TypeOK
  <2>2. CASE ~commitOk
    BY <2>2, DeliveryAssumption DEF Deliver, IInv, TypeOK
  <2>. QED
    BY <2>1, <2>2
<1>6. PICK next \in {"merged", "conflict"} :
         /\ pc' = [pc EXCEPT ![a] = next]
         /\ next = "merged" =>
               /\ head' = [f \in Files |-> IF f \in files THEN head[f] + 1 ELSE head[f]]
               /\ delivered' = [delivered EXCEPT ![a] = files]
               /\ worktrees' = worktrees \ {a} /\ branches' = branches \ {a}
         /\ next = "conflict" => UNCHANGED <<head, delivered, worktrees, branches>>
  BY DEF Deliver, CommitAndMerge
<1>7. TypeOK'
  <2>1. head' \in [Files -> Nat] /\ delivered' \in [Agents -> SUBSET Files]
        /\ worktrees' \subseteq Agents /\ branches' \subseteq Agents
    <3>1. CASE next = "merged"
      <4>1. head' \in [Files -> Nat]
        <5>1. head \in [Files -> Nat]
          BY DEF IInv, TypeOK
        <5>2. head' = [f \in Files |-> IF f \in files THEN head[f] + 1 ELSE head[f]]
          BY <1>6, <3>1
        <5>. HIDE DEF files
        <5>. QED
          BY <5>1, <5>2
      <4>2. delivered' \in [Agents -> SUBSET Files]
        <5>1. files \in SUBSET Files
          BY <1>4
        <5>2. delivered \in [Agents -> SUBSET Files] /\ delivered' = [delivered EXCEPT ![a] = files]
          BY <1>6, <3>1 DEF IInv, TypeOK
        <5>. HIDE DEF files
        <5>. QED
          BY <5>1, <5>2
      <4>3. worktrees' \subseteq Agents /\ branches' \subseteq Agents
        BY <1>6, <3>1 DEF IInv, TypeOK
      <4>. QED
        BY <4>1, <4>2, <4>3
    <3>2. CASE next = "conflict"
      BY <1>6, <3>2 DEF IInv, TypeOK
    <3>. QED
      BY <3>1, <3>2
  <2>2. pc' \in [Agents -> InFlight \union {"off", "done", "left"}] /\ queue' \in Seq(Agents)
    BY <1>1, <1>6 DEF IInv, TypeOK, InFlight
  <2>. QED
    BY <1>1, <1>4, <1>5, <2>1, <2>2 DEF IInv, TypeOK
<1>8. QueueWaits'
  <2>1. \A i \in 1..Len(queue) : queue[i] \in Agents /\ pc[queue[i]] = "queued"
    BY <1>2 DEF IInv, QueueWaits
  <2>2. \A i \in 1..Len(queue') : pc'[queue'[i]] = "queued"
    <3>. SUFFICES ASSUME NEW i \in 1..Len(queue') PROVE pc'[queue'[i]] = "queued"
      OBVIOUS
    <3>1. queue'[i] \in Agents \ {a} /\ pc[queue'[i]] = "queued"
      BY <1>2, <2>1
    <3>. QED
      BY <1>6, <3>1 DEF IInv, TypeOK
  <2>3. \A i, j \in 1..Len(queue') : queue'[i] = queue'[j] => i = j
    BY <1>2 DEF IInv, QueueWaits
  <2>. QED
    BY <2>2, <2>3 DEF QueueWaits
<1>9. Stage(a)'
  <2>1. pc'[a] = next /\ committed'[a] = files /\ edited'[a] = edited[a] \ files
    BY <1>1, <1>6 DEF IInv, TypeOK
  <2>2. Passed(a)' /\ Untold(a)'
    BY <1>1, <1>3 DEF Waiting, Passed, Untold
  <2>3. CASE next = "merged"
    <3>1. delivered'[a] = files
      BY <1>6, <2>3 DEF IInv, TypeOK
    <3>2. Merged(a)'
      BY <1>1, <1>4, <1>5, <2>2, <3>1 DEF Merged
    <3>. QED
      BY <2>1, <2>3, <3>2 DEF Stage
  <2>4. CASE next = "conflict"
    <3>1. InWorktree(a)'
      BY <1>1, <1>3, <1>4, <1>6, <2>1, <2>4 DEF Waiting, InWorktree
    <3>2. Conflicted(a)'
      BY <2>2, <3>1 DEF Conflicted
    <3>. QED
      BY <2>1, <2>4, <3>2 DEF Stage
  <2>. QED
    BY <2>3, <2>4
<1>10. \A b \in Agents : b # a => Own(b)' = Own(b) /\ SameSets(b)
  <2>. SUFFICES ASSUME NEW b \in Agents, b # a PROVE Own(b)' = Own(b) /\ SameSets(b)
    OBVIOUS
  <2>1. delivered'[b] = delivered[b] /\ pc'[b] = pc[b]
    BY <1>6 DEF IInv, TypeOK
  <2>2. committed'[b] = committed[b] /\ edited'[b] = edited[b]
    BY <1>1 DEF IInv, TypeOK
  <2>3. SameSets(b)
    BY <1>1, <1>5, <1>6 DEF SameSets
  <2>. QED
    BY <1>1, <2>1, <2>2, <2>3 DEF Own
<1>. QED
  BY <1>7, <1>8, <1>9, <1>10, StepOfOne

-----------------------------------------------------------------------------
(* The parent's tree and its turn are no part of a call's stage.           *)
LEMMA ParentKeeps ==
    ASSUME IInv,
           \/ ParentTreeCommitted \/ ParentAborts \/ UNCHANGED vars
           \/ \E f \in Files : ParentTreeEdited(f)
    PROVE  IInv'
<1>1. UNCHANGED <<gitVars, historyVars, queue, mode, ended, gate, pc, run, outcome, faults>>
  BY DEF ParentTreeEdited, ParentTreeCommitted, ParentAborts, vars, parentVars, callVars
<1>2. TypeOK'
  <2>1. /\ head' \in [Files -> Nat] /\ dirty' \subseteq Files /\ commits' \in 0..MaxCommits
        /\ aborted' \subseteq Agents /\ parentAborted' \in BOOLEAN
    <3>1. CASE ParentTreeCommitted
      BY <3>1, DeliveryAssumption DEF ParentTreeCommitted, callVars, IInv, TypeOK
    <3>2. CASE ParentAborts
      BY <3>2 DEF ParentAborts, parentVars, IInv, TypeOK
    <3>3. CASE UNCHANGED vars
      BY <3>3 DEF vars, parentVars, callVars, IInv, TypeOK
    <3>4. CASE \E f \in Files : ParentTreeEdited(f)
      BY <3>4 DEF ParentTreeEdited, callVars, IInv, TypeOK
    <3>. QED
      BY <3>1, <3>2, <3>3, <3>4
  <2>. QED
    BY <1>1, <2>1 DEF gitVars, historyVars, IInv, TypeOK
<1>3. QueueWaits'
  BY <1>1 DEF IInv, QueueWaits
<1>4. ASSUME NEW a \in Agents PROVE Stage(a)'
  <2>1. Own(a)' = Own(a) /\ SameSets(a)
    BY <1>1 DEF gitVars, historyVars, Own, SameSets
  <2>. QED
    BY <2>1, OthersKeepStage DEF IInv
<1>. QED
  BY <1>2, <1>3, <1>4 DEF IInv

LEMMA IInvStep == IInv /\ [Next]_vars => IInv'
<1>. SUFFICES ASSUME IInv, [Next]_vars PROVE IInv'
  OBVIOUS
<1>1. ASSUME NEW a \in Agents, NEW m \in Modes,
             Refused(a, m) \/ FactoryThrows(a, m) \/ PreAborted(a, m) \/ Start(a, m)
      PROVE  IInv'
  BY <1>1, RefusedKeeps, BeginKeeps
<1>2. ASSUME NEW a \in Agents, ChildCommits(a) \/ \E f \in Files : ChildEdits(a, f)
      PROVE  IInv'
  BY <1>2, ChildKeeps
<1>3. ASSUME NEW a \in Agents, NEW ending \in Endings \ {"threw"},
             NEW verdict \in {"none", "passed", "failed"}, TurnReturns(a, ending, verdict)
      PROVE  IInv'
  BY <1>3, ReturnKeeps
<1>4. ASSUME NEW a \in Agents, NEW commitOk \in BOOLEAN, NEW mergeOk \in BOOLEAN,
             Deliver(a, commitOk, mergeOk)
      PROVE  IInv'
  BY <1>4, DeliverKeeps
<1>5. ASSUME NEW a \in Agents,
             Settle(a) \/ Cancel(a) \/ \E statusOk \in BOOLEAN : TurnThrows(a, statusOk)
      PROVE  IInv'
  BY <1>5, ThrowKeeps, SettleKeeps, CancelKeeps
<1>6. CASE \/ ParentTreeCommitted \/ ParentAborts \/ UNCHANGED vars
           \/ \E f \in Files : ParentTreeEdited(f)
  BY <1>6, ParentKeeps
<1>. QED
  BY <1>1, <1>2, <1>3, <1>4, <1>5, <1>6 DEF Next

-----------------------------------------------------------------------------
(* The types of the parent's tree, the worktrees and the calls, for any    *)
(* calls, files and bounds.                                                *)
THEOREM TypeCorrect == Spec => []TypeOK
<1>1. IInv => TypeOK
  BY DEF IInv
<1>. QED
  BY <1>1, IInvInit, IInvStep, PTL DEF Spec

(* What every stage of a call relies on, from its start to its result: the *)
(* inductive invariant.                                                    *)
THEOREM IInvCorrect == Spec => []IInv
BY IInvInit, IInvStep, PTL DEF Spec

(* The work of a child is in HEAD, on its branch or in its worktree, with  *)
(* the three exceptions that ThrownAway names, however many calls deliver. *)
THEOREM WorkIsNotLost == Spec => []WorkKept
<1>1. IInv => WorkKept
  <2>. SUFFICES ASSUME IInv, NEW a \in Agents PROVE WorkIsKept(a)
    BY DEF WorkKept, WorkIsKept, ThrownAway
  <2>1. Stage(a) /\ pc[a] \in InFlight \union {"off", "done", "left"}
    BY DEF IInv, TypeOK
  <2>. QED
    BY <2>1 DEF Stage, InFlight, WorkIsKept, ThrownAway, Kept, NotBegun, Nothing, Turning, Waiting, Merged,
         Conflicted, InWorktree
<1>. QED
  BY <1>1, IInvInit, IInvStep, PTL DEF Spec

(* A success that may merge has merged everything, unless git refused the  *)
(* commit before the merge, and only the work of a completed child that    *)
(* the gate did not fail is ever merged.                                   *)
THEOREM ResultsAreTrue == Spec => []ResultIsTrue
<1>1. IInv => ResultIsTrue
  <2>. SUFFICES ASSUME IInv, NEW a \in Agents PROVE ToldTrue(a)
    BY DEF ResultIsTrue, ToldTrue
  <2>1. Stage(a) /\ pc[a] \in InFlight \union {"off", "done", "left"}
    BY DEF IInv, TypeOK
  <2>. QED
    BY <2>1 DEF Stage, InFlight, ToldTrue, NotBegun, Nothing, Turning, Waiting, Merged,
         Conflicted, InWorktree, Passed, Untold
<1>. QED
  BY <1>1, IInvInit, IInvStep, PTL DEF Spec

(* When a call is over its run says what the parent was told, unless it    *)
(* was cancelled or the merge conflicted.                                  *)
THEOREM RunsTell == Spec => []RunTellsResult
<1>1. IInv => RunTellsResult
  BY DEF IInv, Stage, RunTells, RunTellsResult
<1>. QED
  BY <1>1, IInvInit, IInvStep, PTL DEF Spec
=============================================================================
