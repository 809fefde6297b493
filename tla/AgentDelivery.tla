---------------------------- MODULE AgentDelivery ----------------------------
(***************************************************************************)
(* Sub-agents and the tree they share: the Agent tool starts a child       *)
(* engine for each call, in a git worktree of its own when the call may    *)
(* change files, verifies what the child left there, and merges its branch *)
(* into the parent's tree under a process-wide mutex.  Calls of one answer *)
(* run side by side; the parent's other tools and the user change the tree *)
(* meanwhile.                                                              *)
(*                                                                         *)
(* The git commands are synchronous calls of one process, so nothing of    *)
(* that process runs between two of them: the code from one await to the   *)
(* next is one action.  A file of a branch is a file the child changed; a  *)
(* file of the parent's HEAD is the number of commits that changed it,     *)
(* which is all a three-way merge of whole files asks.                     *)
(***************************************************************************)
EXTENDS Naturals, Sequences, RunStates

CONSTANTS
    Agents,      \* bound: the calls of the Agent tool
    Files,
    MaxCommits,  \* bound: what others commit to the parent's tree
    MaxFaults    \* bound: failing git commands and constructors

ASSUME DeliveryAssumption == MaxCommits \in Nat /\ MaxFaults \in Nat

VARIABLES
    head,          \* head[f]: how often f was changed in the parent's HEAD
    dirty,         \* files changed in the parent's tree and not committed
    queue,         \* the calls that wait for the git mutex or hold it
    pc,            \* where each call is
    mode,          \* what was asked for
    worktrees,     \* calls whose worktree exists
    branches,      \* calls whose branch exists
    base,          \* base[a]: the HEAD that a's branch started from
    edited,        \* edited[a]: files changed in a's worktree, not committed
    committed,     \* committed[a]: files changed on a's branch
    aborted,       \* calls whose child was told to stop
    parentAborted, \* the signal of the parent's turn
    ended,         \* ended[a]: how the child's turn ended
    gate,          \* gate[a]: what the verification commands said
    run,           \* run[a]: the status of a's ExecutionRun
    outcome,       \* outcome[a]: the status that the parent is told
    commits, faults,
    work,          \* history: files a's child has changed
    delivered,     \* history: files of a that got into the parent's HEAD
    commitFailed,  \* history: calls whose changes git did not commit
    statusFailed   \* history: calls whose worktree git status could not read

parentVars == <<head, dirty, commits>>
gitVars == <<worktrees, branches, base, edited, committed>>
callVars == <<queue, mode, aborted, parentAborted, ended, gate>>
historyVars == <<work, delivered, commitFailed, statusFailed>>
vars == <<parentVars, gitVars, callVars, historyVars, pc, run, outcome, faults>>

(* A planning identity runs as "read_only" whatever was asked for: it gets *)
(* no worktree, so that nothing of it is merged, and no gate.              *)
Modes == {"read_only", "verified", "merge", "keep"}
Isolated(m) == m \in {"merge", "keep"}
Gated(m) == m # "read_only"

Endings == {"completed", "unfinished", "interrupted", "unrouted", "threw"}
InFlight == {"turn", "queued", "merged", "conflict"}

Init ==
    /\ head = [f \in Files |-> 0] /\ dirty = {} /\ commits = 0 /\ faults = 0
    /\ queue = <<>> /\ pc = [a \in Agents |-> "off"]
    /\ mode = [a \in Agents |-> "read_only"]
    /\ worktrees = {} /\ branches = {}
    /\ base = [a \in Agents |-> [f \in Files |-> 0]]
    /\ edited = [a \in Agents |-> {}] /\ committed = [a \in Agents |-> {}]
    /\ aborted = {} /\ parentAborted = FALSE
    /\ ended = [a \in Agents |-> "none"] /\ gate = [a \in Agents |-> "none"]
    /\ run = [a \in Agents |-> "queued"] /\ outcome = [a \in Agents |-> "none"]
    /\ work = [a \in Agents |-> {}] /\ delivered = [a \in Agents |-> {}]
    /\ commitFailed = {} /\ statusFailed = {}

(* transitionRun: a transition the registry refuses is ignored. *)
Moved(status, to) == IF CanTransition(status, to) THEN to ELSE status

-----------------------------------------------------------------------------
(* The start of a call                                                     *)

(* Faulty variant: the early return forgets the run. *)
RefusedSilently(a, m) ==
    /\ pc[a] = "off" /\ Isolated(m) /\ faults < MaxFaults
    /\ faults' = faults + 1
    /\ pc' = [pc EXCEPT ![a] = "done"] /\ mode' = [mode EXCEPT ![a] = m]
    /\ run' = [run EXCEPT ![a] = "preparing"] /\ outcome' = [outcome EXCEPT ![a] = "blocked"]
    /\ UNCHANGED <<parentVars, gitVars, historyVars, queue, aborted, parentAborted, ended, gate>>

(* The worktree cannot be created: the call is refused, the run blocked. *)
Refused(a, m) ==
    /\ pc[a] = "off" /\ Isolated(m) /\ faults < MaxFaults
    /\ faults' = faults + 1
    /\ pc' = [pc EXCEPT ![a] = "done"] /\ mode' = [mode EXCEPT ![a] = m]
    /\ run' = [run EXCEPT ![a] = "blocked"] /\ outcome' = [outcome EXCEPT ![a] = "blocked"]
    /\ UNCHANGED <<parentVars, gitVars, historyVars, queue, aborted, parentAborted, ended, gate>>

Created(a, m) ==
    IF Isolated(m)
    THEN /\ worktrees' = worktrees \union {a} /\ branches' = branches \union {a}
         /\ base' = [base EXCEPT ![a] = head]
    ELSE UNCHANGED <<worktrees, branches, base>>

(* The factory of the child engine throws, outside of every handler. *)
FactoryThrows(a, m) ==
    /\ pc[a] = "off" /\ faults < MaxFaults
    /\ faults' = faults + 1
    /\ Created(a, m)
    /\ pc' = [pc EXCEPT ![a] = "left"] /\ mode' = [mode EXCEPT ![a] = m]
    /\ run' = [run EXCEPT ![a] = "preparing"] /\ outcome' = [outcome EXCEPT ![a] = "threw"]
    /\ UNCHANGED <<parentVars, edited, committed, historyVars, queue, aborted, parentAborted,
                   ended, gate>>

(* The parent's turn is over before the child starts; the worktree that    *)
(* was just created is removed again.                                      *)
PreAborted(a, m) ==
    /\ pc[a] = "off" /\ parentAborted
    /\ pc' = [pc EXCEPT ![a] = "done"] /\ mode' = [mode EXCEPT ![a] = m]
    /\ run' = [run EXCEPT ![a] = "cancelled"] /\ outcome' = [outcome EXCEPT ![a] = "cancelled"]
    /\ UNCHANGED <<parentVars, gitVars, historyVars, queue, aborted, parentAborted, ended, gate,
                   faults>>

Start(a, m) ==
    /\ pc[a] = "off" /\ ~parentAborted
    /\ Created(a, m)
    /\ pc' = [pc EXCEPT ![a] = "turn"] /\ mode' = [mode EXCEPT ![a] = m]
    /\ run' = [run EXCEPT ![a] = "running"]
    /\ UNCHANGED <<parentVars, edited, committed, historyVars, queue, aborted, parentAborted,
                   ended, gate, outcome, faults>>

-----------------------------------------------------------------------------
(* The child's turn                                                        *)

ChildEdits(a, f) ==
    /\ pc[a] = "turn" /\ Isolated(mode[a])
    /\ edited' = [edited EXCEPT ![a] = @ \union {f}]
    /\ work' = [work EXCEPT ![a] = @ \union {f}]
    /\ UNCHANGED <<parentVars, worktrees, branches, base, committed, callVars, pc, run, outcome,
                   faults, delivered, commitFailed, statusFailed>>

(* The child runs git commit itself. *)
ChildCommits(a) ==
    /\ pc[a] = "turn" /\ edited[a] # {}
    /\ committed' = [committed EXCEPT ![a] = @ \union edited[a]]
    /\ edited' = [edited EXCEPT ![a] = {}]
    /\ UNCHANGED <<parentVars, worktrees, branches, base, callVars, historyVars, pc, run, outcome,
                   faults>>

(* Faulty variant: only a turn that ended in an error is a failed one. *)
WorkerFailedByReason(ending) == ending = "error"

(* A turn that no profile could serve returns without a completion status. *)
WorkerFailed(ending) == ending \in {"unfinished", "interrupted"}

FinalStatus(ending, verdict, delivery) ==
    CASE WorkerFailed(ending)    -> "failed"
      [] verdict = "failed"      -> "verification_failed"
      [] delivery = "conflict"   -> "blocked"
      [] OTHER                   -> "succeeded"

Finished(a, from, status) ==
    /\ run' = [run EXCEPT ![a] = Moved(from, status)]
    /\ outcome' = [outcome EXCEPT ![a] = status]

Possible(a, ending) ==
    /\ ending = "interrupted" => a \in aborted
    /\ ending = "unrouted" => work[a] = {}

(* The child's turn returns; the gate runs; what is to be merged queues    *)
(* for the mutex, everything else is finished in the same step.            *)
TurnReturns(a, ending, verdict) ==
    /\ pc[a] = "turn" /\ Possible(a, ending)
    /\ LET gated == Gated(mode[a]) /\ ~WorkerFailed(ending)
           checked == IF gated THEN Moved(run[a], "verifying") ELSE run[a]
       IN  /\ ~gated => verdict = "none"
           /\ IF mode[a] = "merge" /\ gated /\ verdict # "failed"
              THEN /\ queue' = Append(queue, a)
                   /\ pc' = [pc EXCEPT ![a] = "queued"]
                   /\ run' = [run EXCEPT ![a] = checked]
                   /\ UNCHANGED outcome
              ELSE /\ pc' = [pc EXCEPT ![a] = "done"]
                   /\ Finished(a, checked, FinalStatus(ending, verdict, "kept"))
                   /\ UNCHANGED queue
    /\ ended' = [ended EXCEPT ![a] = ending] /\ gate' = [gate EXCEPT ![a] = verdict]
    /\ UNCHANGED <<parentVars, gitVars, historyVars, mode, aborted, parentAborted, faults>>

(* git status in the worktree: what is committed does not show, and a      *)
(* status that cannot be read counts as no changes.                        *)
WorthKeeping(a, statusOk) == statusOk /\ edited[a] # {}

(* The turn throws: a worktree without uncommitted changes is removed, and *)
(* its branch with it.                                                     *)
TurnThrows(a, statusOk) ==
    /\ pc[a] = "turn"
    /\ ~statusOk => a \in worktrees /\ faults < MaxFaults
    /\ IF WorthKeeping(a, statusOk)
       THEN UNCHANGED <<worktrees, branches>>
       ELSE worktrees' = worktrees \ {a} /\ branches' = branches \ {a}
    /\ pc' = [pc EXCEPT ![a] = "done"]
    /\ ended' = [ended EXCEPT ![a] = "threw"]
    /\ Finished(a, run[a], "failed")
    /\ IF statusOk
       THEN UNCHANGED <<faults, statusFailed>>
       ELSE faults' = faults + 1 /\ statusFailed' = statusFailed \union {a}
    /\ UNCHANGED <<parentVars, base, edited, committed, work, delivered, commitFailed, queue, mode,
                   aborted, parentAborted, gate>>

-----------------------------------------------------------------------------
(* The delivery, one call at a time                                        *)

(* What git merge accepts: nobody else has changed these files. *)
Mergeable(a, files) == files \subseteq {f \in Files \ dirty : head[f] = base[a][f]}

(* Faulty variant: the manager's own merging removal, which drops the      *)
(* branch whether or not the merge went through.                           *)
DeliverAndRemove(a, commitOk, mergeOk) ==
    LET files == IF commitOk THEN committed[a] \union edited[a] ELSE committed[a]
    IN  /\ IF mergeOk /\ Mergeable(a, files)
           THEN /\ head' = [f \in Files |-> IF f \in files THEN head[f] + 1 ELSE head[f]]
                /\ delivered' = [delivered EXCEPT ![a] = files]
                /\ pc' = [pc EXCEPT ![a] = "merged"]
           ELSE /\ pc' = [pc EXCEPT ![a] = "conflict"]
                /\ UNCHANGED <<head, delivered>>
        /\ committed' = [committed EXCEPT ![a] = files]
        /\ edited' = [edited EXCEPT ![a] = @ \ files]
        /\ worktrees' = worktrees \ {a} /\ branches' = branches \ {a}

(* Commit what is left, merge, and remove the worktree with its branch if  *)
(* the merge went through; a merge that fails for any reason is a conflict.*)
CommitAndMerge(a, commitOk, mergeOk) ==
    LET files == IF commitOk THEN committed[a] \union edited[a] ELSE committed[a]
    IN  /\ IF mergeOk /\ Mergeable(a, files)
           THEN /\ head' = [f \in Files |-> IF f \in files THEN head[f] + 1 ELSE head[f]]
                /\ delivered' = [delivered EXCEPT ![a] = files]
                /\ worktrees' = worktrees \ {a} /\ branches' = branches \ {a}
                /\ pc' = [pc EXCEPT ![a] = "merged"]
           ELSE /\ pc' = [pc EXCEPT ![a] = "conflict"]
                /\ UNCHANGED <<head, delivered, worktrees, branches>>
        /\ committed' = [committed EXCEPT ![a] = files]
        /\ edited' = [edited EXCEPT ![a] = @ \ files]

(* A failing commit is swallowed and what is on the branch is merged. *)
Deliver(a, commitOk, mergeOk) ==
    /\ queue # <<>> /\ Head(queue) = a
    /\ ~commitOk => edited[a] # {}
    /\ faults' = faults + (IF commitOk THEN 0 ELSE 1) + (IF mergeOk THEN 0 ELSE 1)
    /\ faults' <= MaxFaults
    /\ CommitAndMerge(a, commitOk, mergeOk)
    /\ queue' = Tail(queue)
    /\ commitFailed' = IF commitOk THEN commitFailed ELSE commitFailed \union {a}
    /\ UNCHANGED <<dirty, commits, base, mode, aborted, parentAborted, ended, gate, run, outcome,
                   work, statusFailed>>

(* The call goes on after the mutex. *)
Settle(a) ==
    /\ pc[a] \in {"merged", "conflict"}
    /\ pc' = [pc EXCEPT ![a] = "done"]
    /\ Finished(a, run[a], FinalStatus(ended[a], gate[a], pc[a]))
    /\ UNCHANGED <<parentVars, gitVars, callVars, historyVars, faults>>

-----------------------------------------------------------------------------
(* The others                                                              *)

(* cancel(runId): the child is told to stop, the run is cancelled at once. *)
Cancel(a) ==
    /\ pc[a] # "off"
    /\ aborted' = IF pc[a] \in InFlight THEN aborted \union {a} ELSE aborted
    /\ run' = [run EXCEPT ![a] = Moved(@, "cancelled")]
    /\ UNCHANGED <<parentVars, gitVars, historyVars, queue, mode, parentAborted, ended, gate, pc,
                   outcome, faults>>

ParentAborts ==
    /\ ~parentAborted /\ parentAborted' = TRUE
    /\ aborted' = aborted \union {a \in Agents : pc[a] \in InFlight}
    /\ UNCHANGED <<parentVars, gitVars, historyVars, queue, mode, ended, gate, pc, run, outcome,
                   faults>>

(* The user or another tool changes the parent's tree, and commits it. *)
ParentTreeEdited(f) ==
    /\ commits < MaxCommits /\ f \notin dirty
    /\ dirty' = dirty \union {f}
    /\ UNCHANGED <<head, commits, gitVars, callVars, historyVars, pc, run, outcome, faults>>

ParentTreeCommitted ==
    /\ dirty # {} /\ commits < MaxCommits
    /\ head' = [f \in Files |-> IF f \in dirty THEN head[f] + 1 ELSE head[f]]
    /\ dirty' = {} /\ commits' = commits + 1
    /\ UNCHANGED <<gitVars, callVars, historyVars, pc, run, outcome, faults>>

Next ==
    \/ \E a \in Agents :
          \/ \E m \in Modes :
                Refused(a, m) \/ FactoryThrows(a, m) \/ PreAborted(a, m) \/ Start(a, m)
          \/ \E f \in Files : ChildEdits(a, f)
          \/ \E ending \in Endings \ {"threw"}, verdict \in {"none", "passed", "failed"} :
                TurnReturns(a, ending, verdict)
          \/ \E statusOk \in BOOLEAN : TurnThrows(a, statusOk)
          \/ \E commitOk, mergeOk \in BOOLEAN : Deliver(a, commitOk, mergeOk)
          \/ ChildCommits(a) \/ Settle(a) \/ Cancel(a)
    \/ \E f \in Files : ParentTreeEdited(f)
    \/ ParentTreeCommitted \/ ParentAborts

Spec == Init /\ [][Next]_vars

-----------------------------------------------------------------------------
(* Properties                                                              *)

TypeOK ==
    /\ head \in [Files -> Nat] /\ dirty \subseteq Files
    /\ commits \in 0..MaxCommits /\ faults \in 0..MaxFaults
    /\ queue \in Seq(Agents)
    /\ pc \in [Agents -> InFlight \union {"off", "done", "left"}]
    /\ mode \in [Agents -> Modes]
    /\ worktrees \subseteq Agents /\ branches \subseteq Agents
    /\ base \in [Agents -> [Files -> Nat]]
    /\ edited \in [Agents -> SUBSET Files] /\ committed \in [Agents -> SUBSET Files]
    /\ aborted \subseteq Agents /\ parentAborted \in BOOLEAN
    /\ ended \in [Agents -> Endings \union {"none"}]
    /\ gate \in [Agents -> {"none", "passed", "failed"}]
    /\ run \in [Agents -> RunStatus]
    /\ outcome \in [Agents -> {"none", "succeeded", "failed", "verification_failed", "blocked",
                               "cancelled", "threw"}]
    /\ work \in [Agents -> SUBSET Files] /\ delivered \in [Agents -> SUBSET Files]
    /\ commitFailed \subseteq Agents /\ statusFailed \subseteq Agents

(* Where the work of a child can still be found. *)
Kept(a) ==
    delivered[a] \union (IF a \in branches THEN committed[a] ELSE {})
                 \union (IF a \in worktrees THEN edited[a] ELSE {})

(* What throws away the work of a child: git refused the commit before a   *)
(* merge, git status failed when the turn threw, or the turn threw with    *)
(* everything committed.                                                   *)
ThrownAway(a) ==
    a \in commitFailed \/ a \in statusFailed \/ (ended[a] = "threw" /\ edited[a] = {})

(* But for these three the work of a child is in the parent's HEAD, on its *)
(* branch or in its worktree, whatever failed, conflicted or was cancelled.*)
WorkKept == \A a \in Agents : work[a] \subseteq Kept(a) \/ ThrownAway(a)

(* What the parent is told is what happened to its tree: a call that may   *)
(* merge and succeeded has left all its work in HEAD, and only the work of *)
(* a child that completed and was not failed by the gate ever gets there.  *)
ResultIsTrue ==
    \A a \in Agents :
        /\ outcome[a] = "succeeded" /\ mode[a] = "merge" /\ a \notin commitFailed
               => work[a] = delivered[a]
        /\ delivered[a] # {} => ended[a] = "completed" /\ gate[a] # "failed"
        /\ outcome[a] \in {"failed", "verification_failed", "blocked", "cancelled"}
               => delivered[a] = {}

(* When a call is over, its run has the status that the parent was told,   *)
(* unless the run was cancelled meanwhile or the merge conflicted.         *)
RunTellsResult ==
    \A a \in Agents : pc[a] = "done" =>
        \/ run[a] = outcome[a] \/ run[a] = "cancelled"
        \/ outcome[a] = "blocked" /\ ended[a] # "none"

(* agent.ts: "A merge conflict marks the run as 'blocked' (NOT 'failed')", *)
(* also in the registry, when nobody has cancelled it.                     *)
ConflictBlocksRun ==
    \A a \in Agents : pc[a] = "done" /\ outcome[a] = "blocked"
        => run[a] \in {"blocked", "cancelled"}
=============================================================================
