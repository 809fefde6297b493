# ovogogogo: a verification development

TLA+ specifications of the core of this repository (a coding agent: an engine
that runs turns of a model and its tools, a registry of runs with an event log, a
lock manager for tool calls, a durable task queue, an autonomous loop,
sub-agents in git worktrees, edit transactions, background commands and
sessions on disk), the TLC configurations that check them on small instances,
and TLAPS proofs of what matters most.

Paths are relative to the repository's root, so `src/core/engine.ts` is the
engine.  `PROJECT.json` calls the same file `src/src/core/engine.ts`.

## 1. The system

### Components that carry the core logic

| component | state it keeps | operations | talks to |
|---|---|---|---|
| Run registry (`core/executionRun.ts`) | a map of `ExecutionRun`s, each with one of 12 statuses | `create`, `transition`, `update` | calls one emit hook after each change |
| Event bus (`core/executionRunEvents.ts`) | per-run sequence counters, subscribers, a re-entrancy guard | `dispatch`, `emit`, `subscribe` | appends to the JSONL store, then fans out |
| JSONL store and replay (same file) | `runs.jsonl` | `append`, `readAll`, `recoverRegistryFromStore` | read by the engine's constructor |
| Recovery (`core/engine.ts`) | none of its own | `recoverNonTerminalRuns`, `recoverWorkers` | registry, worker adapter, tmux |
| Resource scheduler (`core/resourceScheduler.ts`) | holdings per key, leases, a waiter queue | `acquire`, `release`, `releaseRun`, `releaseAll` | subscribes to terminal run events; called by the tool scheduler |
| Task control plane (`core/taskControlPlane.ts`, `server/taskControlPlaneServer.ts`) | tasks, an append-only event file | `enqueue`, `claim`, `heartbeat`, `complete`, `fail`, `cancel`, `recoverExpiredLeases` | workers, in process or over HTTP |
| Turn loop (`core/runtime/coordinator.ts`, `core/queryStateMachine.ts`, `core/toolRuntime/toolScheduler.ts`, `core/runtime/sharedState.ts`) | the query state, the messages, abort flags, the active tool calls | `runTurn`, `abort`, `softAbort`, `schedule` | model gateway, tool executor, scheduler, registry |
| Model router (`core/model/modelRouter.ts`) | per-profile circuit and probe leases | `recordCall`, `tryAcquireProbe`, `finishProbe` | shared by parent and child engines |
| Loop lease (`core/loopSupervisor.ts`) | a lock file with an owner and a heartbeat | `acquire`, `tryTakeover`, `updateHeartbeat`, `release` | several processes through the file system |
| Loop driver (`core/loopEngine.ts`, `core/loopSupervisor.ts`) | a checkpoint and its backup, three flags, the contract files | `runLoop`, `save`, `load`, the gates and endings | runs turns of the engine; the model and the user write its files |
| Edit transactions (`core/atomicTransaction.ts`, `core/atomicWrite.ts`, `tools/multiEdit.ts`) | snapshots, backup files | `snapshot`, `mutate`, `mutateAll`, `commit`, `rollback` | the multi-edit tool |
| Background tasks (`core/backgroundTaskManager.ts`) | task records, process handles, escalation timers, mirrored runs | `createTask`, `stopTask`, `clearCompleted`, `dispose` | process groups, the run registry, the turn's abort signal |
| Sessions (`core/sessionManager.ts`, `core/sessionParts.ts`) | an envelope and a ledger per session | incremental and full save, load, fork, clear | the command line, the turn loop's messages |
| Compaction and trimming (`core/compact.ts`, `core/context/contextManager.ts`, `ui/historyTrimmer.ts`) | the conversation | `maybeCompact`, `computeSafeSplitPoint`, `trimHistoryForNextTurn`, `applySnip` | the provider, which refuses split call groups |
| Agent tool (`tools/agent.ts`) | worktrees, branches, a git mutex, a run per call | start, child turn, verification gate, commit, merge, clean-up | child engines, git, the run registry |

Everything else the repository contains is listed in `PROJECT.json` with the
reason it is not modelled: clients of external services, presentation, text
heuristics, and sequential bookkeeping.

### What is hard about them

* **Crashes.** Two components rebuild their memory from an append-only file
  whose last line may be torn.  What they rebuild must agree with what they
  had acknowledged.
* **Failing appends.** The registry changes its memory before the line is
  written and the task queue after it: the two recover differently.
* **Interleaving of callbacks.** The program is single-threaded but every
  `await` lets another tool call, a timer, an abort or a run's end in.
* **Wake-ups.** A waiter must be woken by every path that frees a claim.
* **Leases and late answers.** A worker may answer after its lease was given
  to another one, or never.
* **Two processes.** The loop's lock file is taken over by read, check, rename.
* **Partial failure.** An edit, a rollback, a commit, a save or a merge is
  several operations on files, each of which may fail or be the last one.
* **Somebody else's state.** The model writes the loop's flags, the user edits
  its contract and the tree sub-agents merge into, the kernel hands a process
  id out again.
* **Calls and rows.** A provider refuses a conversation in which a tool row has
  lost its call or a call its row, and five different places cut conversations.

`PROJECT.json` lists these under "hazards", each at its line with the
properties that watch it.

## 2. Modules

| module | models | proved in |
|---|---|---|
| `RunStates` | run statuses and the transition table | `Runs_proof` |
| `RunEvents` | registry, bus, log, crash, replay, reconciliation, worker recovery | `Runs_proof` |
| `LockTable` | abstract: what the scheduler promises | |
| `ResourceScheduler` (`MCResourceScheduler`) | the lock manager and the tool calls that use it | `ResourceScheduler_proof` |
| `TaskLifecycle` | abstract: the life of independent tasks | |
| `TaskControlPlane` (`MCTaskControlPlane`) | the task queue, its file, workers, time, crashes | `TaskControlPlane_proof` |
| `AgentTurn` (`MCAgentTurn`) | the turn loop, its tool batches, abort, soft abort and steer | `AgentTurn_proof` |
| `LoopLease` | the loop's lock file between processes, one file operation a step | `Loop_proof` |
| `LoopRun` | the loop's driver: checkpoints, flags, gates, restarts | `Loop_proof` |
| `BatchEdit` | abstract: all edits at once or none | |
| `EditTransaction` (`MCEditTransaction`) | snapshots, edits, undo, rollback, commit, failures and kills | `EditTransaction_proof` |
| `BackgroundTasks` (over `RunStates`) | the manager, its runs, and the processes it signals | `Runs_proof` |
| `Conversation` | where a conversation is cut: pure operators | `SessionStore_proof` |
| `SessionStore` (over `Conversation`) | a session on disk while its conversation grows and shrinks | `SessionStore_proof` |
| `AgentDelivery` (`MCAgentDelivery`, over `RunStates`) | agent calls, worktrees, the git mutex, merges, the calls' runs | `AgentDelivery_proof` |

`RunStates` is shared by the modules whose components keep a run in the
registry; `SessionStore` composes the ledger with the ways of shortening in
`Conversation`.  `LockTable`, `TaskLifecycle` and `BatchEdit` are implemented
by the module after them under a refinement mapping.  `LoopLease` and
`BackgroundTasks` have names of their own for the usual ones (`LeaseSpec`,
`BTSpec`, ...), so that one module of proofs can extend two components.

### RunEvents

`runs`, `sequences` and `disk`/`tail` are `ExecutionRunRegistry.runs`,
`ExecutionRunEventBus.sequences` and `runs.jsonl`.  The file is kept as the
state that replaying its complete lines yields (replay is a fold over lines, so
it can be kept up to date one append at a time) and its unterminated last line.
`Create`, `Transition`, `Update` and `EmitSubsystem` are the registry's and the
bus's calls, each with `dispatch` in its outcomes: logged and fanned out; logged,
then a critical subscriber throws; the append throws after writing nothing, part
of the line, or all of it but the newline.  `Crash` may come between calls or
inside an append.  `Restart`, `ReconcileOne`, `BootDone` and `RecoverWorker` are
the engine's constructor and the promise it starts.  `owned` is the set of runs
a component of the running process has in hand; components are not obliged to
drive their runs on.  `session` is the external worker's tmux session, which
starts and ends by itself.  A run keeps the fields recovery looks at: kind,
status, phase, and whether `run.worker` is the session's name.

### ResourceScheduler

One request per tool call.  `Acquire` is `acquire()` with its fast path, its
`no wait` rejection and its queueing; `GiveUp` is the waiter's timeout or abort;
`Start` and `Finish` are `executeWithClaims`; `RunEnds` is `onRunEvent` with
`releaseRun`'s snapshot, `ReleaseAll` and `CloseDone` are `releaseAll`.  A
release and the pump it triggers are synchronous in the code.  The model splits
them into one step for each lease released (`ReleaseNext`) and each waiter
granted (`PumpOne`), and forbids every other action while `agenda`, `pumping`
or `closing` says such a call is under way; so the intermediate states are
visible to invariants and the steps stay small enough to prove about.

### TaskControlPlane

`tasks` is the map of the server, `disk` and `tail` its event file, kept like
the one above.  Expiry times are kept as the ticks a lease has left, so time
needs no bound: `Tick` lets one pass.  `ClaimCall`, `SweepOne`, `SweepDone` and
`ClaimTake` are `claim()` with the sweep of expired leases at its head;
`Heartbeat`, `Complete`, `ExecutionFails`, `Fail` and `LateAnswer` are
`TaskWorker.runOnce`.  A call that records several events runs to completion in
one turn of the event loop; only time, a worker's death and a crash of the
server come in between.  `job` is what a worker executes and the expiry it was
last told.

### AgentTurn

`phase` is the state of the query state machine inside `RuntimeCoordinator.run`
(`check_abort` to `tool_execution`), with `boot`, `routing` and `postlude` for
what surrounds the loop, `idle` between turns, and `llm_refused` for a request
made with a signal that is already aborted.  The program has one thread, so a
user's `Abort`, `SoftAbort` and `Steer` land only in a phase that awaits
something (`Waiting`).

| action | code |
|---|---|
| `CheckAbort` | `checkTermination` and its claim of the soft abort |
| `BudgetCheck`, `ModuleIteration` | compaction and the modules' `onIteration`, by how they leave the phase |
| `SendRequest` | `llm_call` up to its await: the control log is rendered and cleared |
| `LlmAnswers`, `LlmThrows`, `StreamTimesOut` | the answer with its two retries; the gateway and the stream watchdog |
| `ContinuationCheck` | the exploration, hand-off and token-budget continuations |
| `ParseResponse` | malformed calls answered at once, the rest partitioned into batches |
| `StartBatch`, `ToolStartThrows`, `BatchEnds`, `ScheduleReturns` | `schedule()` and both kinds of batch |
| `CompleteWith`, `RunIsOver`, `Settle`, `StartFails` | the catch and finally of the loop, and the ends of `run()` |

A tool call is whether its arguments parse and what it claims; `answers` counts
the tool messages it got; text is whether there is any and whether it moves the
token budget by a unit.  Whether an exploration is incomplete or an answer hands
back too early are judgements about text, hence nondeterministic.  `requests`,
`pressedIdle` and `batchesAfterSoft` are history that no action reads.  Hooks,
routing, the reviewer, the completion gate, the content of compaction and the
trimming of the history are not modelled.

### LoopLease

`lock` and `stale[p]` are `loop.lock` and `loop.lock.stale.<token of p>`; a
file is its owner, whether its contents have been written yet, and its age in
heartbeat intervals up to `StaleAfter`.  `at[p]` is where process `p` stands.
`Acquire` begins with the exclusive create; `Proceeds` is the next file
operation of a call under way: the write, the read of the other's lease, the
three steps of `tryTakeover` (confirm, rename away, create again) with its
`restore` and `putback`, a heartbeat's write, a release's read and unlink.
`HeartbeatReads` is the timer's callback up to its read, so a takeover may fall
between it and its rename.  `Exit` kills a process anywhere.  A rename moves
the file, not the name: contents written by a process whose file was renamed
meanwhile land in the stale file.  `Prompt` says whether file operations
follow each other within one tick; the run takes them so, since a process that
stops for longer than the stale time in the middle of a read and a rename is
outside what the heartbeat's arithmetic provides for.  `overlapped` is history.

### LoopRun

`main` and `backup` are `checkpoint.json` and `checkpoint.previous.json`;
`done`, `parked` and `candidate` the flags; `driver` the variables of
`runLoop`; `turn` what one iteration's turn and checks yielded; `saving` the
checkpoint being written and where the driver goes on.

| action | code |
|---|---|
| `Start`, `Resume`, `AlreadyDone` | the head of `runLoop`: fresh, resumed or refused; the short circuit of a succeeded checkpoint |
| `SaveBacksUp`, `SaveRenames`, `ClearMain`, `ClearBackup` | `save` and `clear`, one rename or unlink each; a failing one loses the checkpoint and no more |
| `OutOfIterations`, `Park`, `FlagVerified`, `FoundParked`, `BeginTurn` | the head of an iteration |
| `WriteCandidate`, `ForgeDoneFlag`, `WriteParkedFlag`, `RemoveParkedFlag`, `EditContract` | what model and user do to the files during a turn |
| `HeartbeatFatal`, `TurnReturns`, `TurnThrows`, `Signal`, `FinishSignalled`, `HeartbeatLost` | how a turn ends |
| `RunChecks`, `Judge`, `RunFullGates`, `WriteDoneFlag` | the driver's own checks, the joint gate and the endings |
| `Crash` | SIGKILL between any two of them |

A tree stands for everything the evidence hash tells apart; whether a gate is
green depends on the tree alone.  `turns`, `saved`, `won` and `earned` are
history.

### EditTransaction and BatchEdit

`snapshots`, `committed` and `backup` are the transaction's map, its flag and
the `.txn.<id>.bak` files; `content` is what each path holds, as the set of
the batch's edits that are in it.  `Validate`, `TakeSnapshot`, `ApplyEdit`,
`UndoApplied`, `Rollback` (one file a step), `Commit` (one backup a step) and
`Crash` are the two callers' code, `caller` says which of them runs.  An
edit's text may be brought or taken away by earlier edits of the batch, and it
may be a `replace_all`.  File operations may fail, `MaxFaults` in all.

The result of a commit is its caller's.  `commit()` is not ok when a backup
could not be unlinked (`Uncleaned`); `atomicEdit` returns that as it is, so its
batch is reported as failed with every edit in place, and `MultiEdit` does not
look at it and reports success.  `FailureUndone` therefore has two halves: a
batch reported as failed that was not committed is undone, but for one path for
each operation that failed; one that was committed has all its edits in place,
and what failed is the removal of the backups that are still there.

The refinement mapping of `BatchEdit` is `Recovered`: the files that were there
before, each one from its backup while the transaction is not committed and
the backup exists, from its path otherwise.  So it says that until the flag is
set the originals can be had back, and that afterwards nothing changes.

### BackgroundTasks

`status`, `listed`, `handle`, `stopped` and `timer` are the fields of a task's
record and the manager's map; `run` is the mirrored run, moved by
`transitionTaskRun` only where `RunStates` allows it.  `CreateTask`,
`StopTask`, `Abort`, `Dispose`, `ClearCompleted`, `Escalate` and `Close` are
the manager's entry points and callbacks.  `LeaderEnds`, `Fork`,
`DescendantsEnd`, `Die` and `PidReused` are the operating system: members of
the group, descendants that left it and keep the pipes, and a process id that
is given out again once leader and group are gone.

### Conversation and SessionStore

`Conversation` has no variables.  `SafeBoundary`, `SplitPoint`,
`ExtendedSplits` and `Compacted` are `isSafeSplitBoundary`,
`computeSafeSplitPoint`, `extendTailToTokenBudget` and `maybeCompact`;
`Snipped` and `Trimmed` are `/snip` and the trim between turns; `ForkCut` is
`computeForkCutPoint`.  They are written as choices from sets of positions,
not as the code's loops (`Kept` takes the messages at a set of positions in
order), and the properties compare them with the provider's rule
(`Consistent`).

`envelope` is `history.json`, `ledger` is `parts.jsonl` with its last line
terminated or not, `history` the live conversation.  `Turn` is one turn with
whatever shortens the conversation in it; `AppendDelta`, `WriteEnvelope` and
`MirrorLedger` are the two writes of an incremental save and the rewrite of a
full one; `Clear`, `Crash` and `Restart` are the rest.  An append may be cut
after any line or inside one.  A session is new, or an older one that has an
envelope and no ledger yet; the loader serves such a session from its envelope,
and its first incremental save creates the ledger.

### AgentDelivery

| action | code |
|---|---|
| `Refused`, `FactoryThrows`, `PreAborted`, `Start` | the head of `execute`: no worktree, a throwing factory, an aborted signal, a child started |
| `ChildEdits`, `ChildCommits` | what a child does in its worktree |
| `TurnReturns`, `TurnThrows` | the end of the child's turn, its verification gate and its place in the queue of the git mutex |
| `Deliver` | the critical section: status, commit, merge or abort of the merge, clean-up |
| `Settle` | the run's last transition and the result |
| `Cancel`, `ParentAborts` | a cancelled run, an aborted parent turn |
| `ParentTreeEdited`, `ParentTreeCommitted` | the user and the parent's other tools |

`head`, `base`, `committed` and `edited` are enough of git for a three-way
merge of whole files: a merge conflicts on a file changed on both sides since
the base, and is refused over uncommitted changes of a file it would touch.
The git commands are synchronous calls, so what lies between two awaits is one
step.

A mode is what the call asks for: "read_only" has no worktree and is never
verified nor delivered, and an identity in plan mode runs the same way, whatever
it was asked for (`agent.ts:952` gives it no worktree, `:1219` no gate).  Any
git command may fail, `MaxFaults` in all: the creation of a worktree (the call
is refused), the status or the commit before a merge, the merge itself, the
status after a turn that threw.

## 3. Runs

| run | checks | instance |
|---|---|---|
| `runs` | `NoOrphanInFlight`, `LogMirrorsRegistry`, `PendingIsResolved`, `TerminalForever` | 2 runs in one file, critical subscribers, 2 events each per process, 1 fault, 2 crashes |
| `locks` | `HoldingsMatchLeases`, `Exclusion`, `NoLostWakeup`, `LeaseHeldWhileExecuting`, `WaiterIsServed`, `ImplementsLockTable` | 3 requests of 2 runs, 2 keys, 5 claim sets, run ends, shutdowns |
| `tasks_safety` | `OneLiveLease`, `CurrentAttemptAnswers`, `FileMirrorsMemory`, `FinishedForever` | 2 tasks in one file, 2 workers, leases of 2 ticks, torn lines, 1 fault, 1 crash |
| `tasks_progress` | `EveryTaskFinishes`, `ImplementsLifecycle` | 2 tasks, 2 priorities, 2 limits, 1 fault, 1 crash |
| `turn_loop` | `AnsweredOnce`, `BatchesCompatible`, `RequestsBounded`, `SteersKept`, `OneBatchAfterSoft`, `TurnEnds` | 1 turn, 2 iterations, every retry limit 1, 3 answers (none; three conflicting calls; a malformed and a plain one), 1 steer |
| `lease` | `OneOwner`, `SplitEnds` | 3 processes, a lease is stale after 2 intervals |
| `loop` | `CheckpointLoads`, `TurnsBounded`, `SuccessIsEarned`, `NoTurnAfterSuccess` | 2 iterations, parked after 1 without progress, 1 tree, 1 edit of the goal, 3 starts, 1 crash, 1 failed write |
| `edits` | `FailureUndone`, `ImplementsBatch` | both callers, 2 paths, all batches of 1 or 2 edits and those of 3 whose last may fail by itself, 2 failing operations, a kill anywhere |
| `background` | `RunAgrees`, `SignalsOwnProcesses`, `StopEndsCommand` | 2 tasks |
| `sessions` | `CrashLosesAtMostOneSave`, `LoadsWhatWas`, `ShorteningIsSafe`, `ForkKeepsWhatIsAsked` | a new session or an older one without a ledger, 3 turns (`MaxRounds`), 2 recent messages kept by a summary, 4 by a trim, 1 pinned, snips to 1, 1 fault, 1 crash |
| `agents` | `WorkKept`, `ResultIsTrue`, `RunTellsResult` | 2 calls of any mode, 2 files, 1 commit by others, 1 fault |
| `agents_conflict` (fails, see below) | `ConflictBlocksRun` | 2 calls, 1 file |

What each one shows is in its `about` line in `PROJECT.json`; what a property
says is in the comment above it.

Why these bounds are enough to be interesting.  Two runs and two crashes let a
torn line of one run swallow an event of the other and a run be reconciled
twice.  Three requests put one lease, one waiter and one newcomer on the fast
path next to each other, and let a pump choose between two waiters.  Two ticks
let a lease be renewed before it runs out and expire under its worker.  Retry
limits of one let every retry be taken and be refused; two iterations let a
counter carry over from one to the next; an answer with a write, a compatible
write and a conflicting read makes two batches, with an abort possible around
each.  Three processes are one dead owner and two that want its lease, or an
owner, a taker and a newcomer.  Two iterations and three starts let a loop be
interrupted, resumed, finished and started again, and the one crash and the one
failed write may meet in a single save.  Two faults let an edit fail and its
rollback fail too; three edits let the third one fail when the first two are on
one path.  Three turns make a conversation long enough to be summarised and
trimmed after one that was saved; the constants of shortening are scaled down
with it (2 for `KEEP_RECENT_MESSAGES`, 4 and 1 for the trim's).  Two agents and
two files let branches conflict and not conflict.  The proofs of section 4 hold
for every value of the constants of all the modules that have variables.

One run fails on purpose.  `agents_conflict` checks the header's "A merge
conflict marks the run as 'blocked'": a call that merges is verified first, its
run is `verifying`, the transition table has no step from there to `blocked`,
the refusal is swallowed, and the run stays `verifying` for ever.

### Statements the code does not keep

The modules also state, under a heading of their own, sentences of comments,
documents and tests that the code does not keep.  No run checks them; each
fails in the way told here (checking it on its module's configuration finds the
trace).

| module, definition | sentence | how it fails |
|---|---|---|
| `RunEvents` `RestOfLogSurvives` | a half-written line "doesn't lose the rest of the log" (`executionRunEvents.ts:205`) | the next append is glued to the torn line and both are skipped by replay (`:175-177`) |
| `RunEvents` `CriticalFailureRecoverable` | "process crash → state recoverable from the event log" (`:12`) | the failure that a critical subscriber's error forces is dropped by the re-entrancy guard and never logged (`:489`) |
| `RunEvents` `LiveWorkerKept` | on a successful reattach "the run stays non-terminal" (`engine.ts:741-744`) | a session named only in a transition is not found again, and its live worker is declared lost (`:792`) |
| `ResourceScheduler` `ReleaseAllReleasesAll` | "Release everything" (`resourceScheduler.ts:350`) | its own releases pump and grant leases to waiters (`:351`) |
| `AgentTurn` `InterruptedCallsAnswered` | "EVERY tool call must produce a tool message" (`tests/toolProtocolNoDroppedSiblings.test.ts:2`) | an abort between an answer and its tools leaves calls without one (`toolScheduler.ts:146`) |
| `AgentTurn` `IdleSoftAbortIsNoOp` | "abort() and softAbort() are safe no-ops when the engine is idle" (`tests/engineAbort.test.ts:214`) | a soft abort asked for when idle stops the next turn (`engine.ts:924`) |
| `LoopLease` `TakesOnlyAbandoned` | a takeover succeeds only on an old heartbeat of a process that is gone (`loopSupervisor.ts:129-132`) | two processes read the same stale lease; the second renames away the first one's fresh lease |
| `LoopRun` `EvidenceIsReal` | ADR-007 and `tests/v036ReliabilityClosure.test.ts:158`: reused evidence is bound to the workspace | `passedQualityGates` is never shrunk (`loopEngine.ts:743-746`), so a later checkpoint vouches for a gate that passed on another tree (`:162-177`) |
| `LoopRun` `SuccessIsCurrent` | ADR-007: a completion is bound to the hash of the live contract | a succeeded checkpoint short-circuits the next start although the contract changed (`:554-558`) |
| `EditTransaction` `SuccessIsComplete` | "Either ALL edits succeed … or NONE do" (`multiEdit.ts:4-7`) | an edit whose text an earlier edit took away is counted as one replacement (`:292`) |
| `BackgroundTasks` `NoStrays` | a stop avoids a reused process id | a leader that died by a signal, while a descendant outside its group holds the pipes, still has its handle: the stop signals the id's next owner |
| `BackgroundTasks` `RunEnds` | a task's run is walked to a terminal state (`backgroundTaskManager.ts:233-240`) | an abort, a signal that fired before, an emulated script and `dispose` end the task and not its run |
| `SessionStore` `FinishedSaveLoads` | a torn last line is skipped and no more (`sessionParts.ts:149-150`) | the next append is glued to the torn bytes; reading stops there, and what a finished save appended is not loaded |

The durability properties of the passing runs are stated for the runs, tasks
and saves that did not lose an event in one of these ways (`durable`,
`swallowed`, `unsure`, `spoiled` and `broken` are history variables that no
action reads).

Smaller things met on the way, seen in the models or next to them:

* Edits: when a backup cannot be removed, `atomicEdit` reports `ok: false` with
  all edits in place (`atomicTransaction.ts:147-167`, `:245`), and `MultiEdit`
  reports SUCCESS (`multiEdit.ts:174-180`).  An edit may not refer to text that an earlier one brings unless it is
  a `replace_all`; a rollback replaces a symbolic link by a file (hence
  `Links = {}` in the run and in the theorem); backups left by a crash are
  found by nobody.
* Sessions: the first append to the ledger of a session that only its envelope
  holds (an older session, or one whose ledger a crash tore at its first line)
  is cut short: the ledger then has some messages, the loader prefers it to the
  envelope (`sessionManager.ts:787-803`), and everything before them is out of
  sight.  No run of one crash from a new session reaches this; the proof of
  `CrashesCostOneSave` did not go through without the exception, and the run
  now starts from older sessions too.  A comment calls the envelope authoritative, the loader prefers the
  ledger; a crash during `/clear` brings the old conversation back; `/snip` has
  no boundary check and a count of zero keeps everything; a dangling group in
  the middle of a history makes a fork drop everything after it; a trim may
  drop the summary that a compaction wrote.
* Agents: a commit that git refuses is swallowed, the merge is then already up
  to date, and the worktree is removed: the work is gone and reported as
  delivered.  A turn that throws after its child committed everything loses the
  branch (a clean `git status` counts as no work), and so does a turn that
  throws while `git status` itself fails: that counts as no changes, and a
  dirty worktree is removed with its branch (`agent.ts:271-281`, `:1563-1567`).
  These three are the exceptions in `WorkKept` (`ThrownAway`), the swallowed
  commit also the one in `ResultIsTrue`.  A merge that fails for any reason is
  reported as a conflict.  A factory that throws leaves a worktree, a
  subtask entry and a run in `preparing`.  A cancelled run may still deliver.

### Fairness

* `RunEvents`: the constructor runs to its end and the recovery promise it
  starts is resolved (both are code without outside waits); no component has to
  drive its run on.
* `ResourceScheduler`: a granted call goes on, a tool ends, and a synchronous
  call of the scheduler completes.  Timers have no fairness: they must not be
  what empties the queue.
* `TaskControlPlane`: time passes, a synchronous call completes, the server is
  restarted, an idle worker polls and an execution ends one way or another.
  Nothing obliges an execution to succeed.
* `LoopLease`: the timers fire, a synchronous call goes on to its end, a
  heartbeat that is due reads the file, and a loop whose heartbeat has failed
  three times ends (its turn is aborted, and an aborted turn returns, which is
  what `TurnEnds` says).  A healthy loop need never end.
* `BackgroundTasks`: the escalation timer fires, a close event is delivered,
  SIGKILL kills.  A command need not end by itself nor obey SIGTERM.
* `AgentTurn`: a turn goes on.  Modules and compaction return, the gateway times
  its requests out, and a tool ends by itself or obeys the abort signal.
  Nothing obliges a user to do anything.

`CHECK_DEADLOCK FALSE` everywhere: each of these systems may legally come to
rest (all runs terminal, all requests settled, all tasks finished, every bound
on starts, edits or crashes used up).  The other modules check safety only and
their specifications state no fairness.

## 4. Proofs

`ResourceScheduler_proof` proves, for any requests, runs, keys and claim sets
(`ResourceAssumption`: every request has a run, claim sets are sets of claims):

| theorem | statement |
|---|---|
| `TypeCorrect` | `Spec => []TypeOK` |
| `HoldingsHold` | `Spec => []HoldingsMatchLeases` |
| `ExclusionHolds` | `Spec => []Exclusion` |
| `WakeupsKept` | `Spec => []NoLostWakeup` |
| `LeasesKept` | `Spec => LeaseHeldWhileExecuting` (an action property) |
| `RefinesLockTable` | `Spec => ImplementsLockTable` |

The inductive invariant is `IInv == TypeOK /\ HoldingsMatchLeases /\ Exclusion
/\ QueueCoherent`.  `Exclusion` alone is not inductive: a grant looks at
`holdings`, not at the leases, so the two must agree (`HoldingsMatchLeases`);
and a release looks only at the keys its request wants, so leases in the table
must be of requests that asked (`QueueCoherent`, which also says that the queue
has no duplicates and holds exactly the waiting requests).  `WakeupsKept` adds
`QueueBlocked`: outside a pump, every queued request is blocked, except by what
the current release call has still on its agenda.  `LeasesKept` adds
`AgendaOfEnded`: what is on the agenda belongs to a run that ended or to a
shutdown.

`Runs_proof` proves, for any runs, with or without critical subscribers, and
any number of events, failed or torn appends and crashes:

| theorem | statement |
|---|---|
| `TypeCorrect` | `SafeSpec => []TypeOK` |
| `IInvCorrect` | `SafeSpec => []IInv` |
| `ReplayInvertsDispatch` | `SafeSpec => []LogMirrorsRegistry` |
| `NoRunIsOrphaned` | `SafeSpec => []NoOrphanInFlight` |
| `AnEndIsForEver` | `SafeSpec => TerminalForever` (an action property) |

`IInv == TypeOK /\ NotInTail /\ InHand /\ Listed /\ LogMirrorsRegistry /\
NoOrphanInFlight`.  `NoOrphanInFlight` speaks of a process whose constructor is
done; what makes it true then is `Listed`: while the constructor runs, every run
whose events are all in the log is settled, or on the constructor's list, or
waits for its worker.  `InHand` says whose hands a run can be in (`owned`,
`recovering`, `unreconciled`, in which process) and which statuses fit.
`LogMirrorsRegistry` is kept by an append only because of `NotInTail`: a run
whose last line is unterminated, and so may be swallowed by the next one, is
not counted as durable.  `AnEndIsForEver` follows each kind of step: the
transition table leaves no terminal status (`TableFacts`), what a crash does to
the last line does not touch a durable run, and reconciliation and recovery
move in-flight runs only.

`AgentTurn_proof` proves, for every limit, token budget and set of answers
(`TurnAssumption`: the limits are natural numbers, an answer is a sequence of
calls):

| theorem | statement |
|---|---|
| `SteersAreKept` | `Spec => []SteersKept` |
| `OneBatch` | `Spec => []OneBatchAfterSoft` |
| `RequestsAreBounded` | `Spec => []RequestsBounded` |
| `CallsAreAnswered` | `Spec => []AnsweredOnce` |
| `BatchesAreCompatible` | `Spec => []BatchesCompatible` |
| `TypeCorrect` | `Spec => []TypeOK` |

`OneBatch` rests on `ControlInv`: a batch that began after a soft abort is the
one that is running, or there is no soft abort left to claim.
`RequestsAreBounded` rests on `FuelInv`, a potential argument.  `Fuel` counts
the retries and continuations that no iteration gives back, `ExploreFuel` the
looks at an exploration that reading files gives back, and `Left(k)` what `k`
more iterations may add; requests made and fuel left stay within `RequestBound`.
The token budget is the delicate part (`BudgetBurns`): a continuation that
brought tokens pays with two units of the budget it used, a fruitless one with
a free continuation or with the progress of the one before it.

`CallsAreAnswered` and `BatchesAreCompatible` rest on `BatchInv`: while the
tools run, each call of the answer waits in exactly one batch of the plan or
has its one tool message, and the calls of a batch do not conflict; outside
that phase nothing is planned but for what an interrupted turn leaves.  That the
plan is so when it is made is a statement about a fold, `PartitionPlans`: the
partition of the valid calls is a sequence of compatible, disjoint batches that
holds exactly those calls.  The library's induction theorems cannot be used
here, but their foundation can: a set of naturals that is not empty has a least
element (`WFMin` of `NatLessThanWellFounded`), so a predicate that is a set of
naturals is proved by induction, here that the fold's function exists up to
each n (`FoldExists`) and that its value plans the first n calls (`PlanFold`,
with the step in `AddPlans`).

`Loop_proof` proves of `LoopLease`, for any set of processes and any staleness:

| theorem | statement |
|---|---|
| `LeaseTypeCorrect` | `LeaseSpec => []LeaseTypeOK` |
| `LeaseInvCorrect` | `LeaseSpec => []LeaseInv` |
| `OneOwnerHolds` | `LeaseSpec => []OneOwner` |
| `OwnerVisible` | `LeaseSpec => []OwnerIsVisible` |
| `NoPutBack` | a takeover puts a lease back only after an overlapping start |

`OneOwner` is about processes inside the loop only; what keeps a second one out
is what every other step has written.  So `LeaseInv` says, until a takeover
overlaps another start: the file names the process that is past its create
(`LeaseNamesHolder`), a takeover has the lease of a dead process in front of it
(`TakeoverFacesDead`), it never has to put one back (`NothingPutBack`), and it
finds the path free when it creates again (`PathIsFree`).

`TaskControlPlane_proof` proves, for any number of tasks, any workers,
priorities, attempt limits and lease time, and any number of crashes and of
appends that throw or are torn (`TaskAssumption`; it says also that "nobody" is
no worker):

| theorem | statement |
|---|---|
| `TypeCorrect` | `SafeSpec => []TypeOK` |
| `IInvCorrect` | `SafeSpec => []IInv` |
| `FileTells` | `SafeSpec => []FileMirrorsMemory` |
| `LeasesAreExclusive` | `SafeSpec => []OneLiveLease` |
| `AnswersAreCurrent` | `SafeSpec => []CurrentAttemptAnswers` |
| `FinishedStay` | `SafeSpec => FinishedForever` (an action property) |
| `Implements` | `SafeSpec => ImplementsLifecycle`, if no append is torn |

`IInv` says of the file (`FileTold`) that what the server holds is in the
complete lines or in a last line that a crash left there, which whatever is
recorded next swallows.  A worker that executes a task whose record names it
executes the attempt the record counts, in memory and in the file
(`AttemptsMatch`), and one that believes in its lease has it or the task is
finished (`LeasesHeld`); this is why two of them cannot.  `FinishedStay` adds
`Undecided`: the line of an append that threw is of a task that has not
finished since.  For `Implements`, without torn lines (`Untorn`) the complete
lines are what is known, up or down, so each record is one move of one task's
life, and crashes, failed appends and time are stutters; `AttemptsLeft` bounds
the attempts.

`EditTransaction_proof` proves, for any paths and batches:

| theorem | statement |
|---|---|
| `TypeCorrect` | `Spec => []TypeOK` |
| `IInvCorrect` | `Spec => []IInv`, without links |
| `Implements` | `Spec => ImplementsBatch`, without links |
| `FailuresAreUndone` | `Spec => []FailureUndone`, without links |

`IInv` adds to the types where `at` may stand (`Places`), that exactly the
files in the map have backups while the batch goes forward (`Copies`), and that
each original is in its backup or in its place (`Originals`).  The step that
sets the flag is the abstract commit, every other one a stutter.
`FailuresAreUndone` bounds a number of paths by the number of failed
operations, and adds `UndoInv`: until the rollback only files in the snapshot
map have changed; the rollback passes by one file a step, and a file that it
leaves changed cost an operation (`RestoreUndoes`), so the files passed by and
not as they were (`Missed`) are never more than the failures.  For a batch that
was committed it adds `Committing`: no edit is taken back any more, and the
backups that the cleaning has passed by and left (`Uncleanable`) each cost an
operation, so when `atomicEdit` reports a failure they are all that is wrong.

`Loop_proof` proves of `LoopRun`, for any number of iterations, trees, edits, starts,
crashes and failed writes (`LoopAssumption`):

| theorem | statement |
|---|---|
| `TypeCorrect` | `Spec => []TypeOK` |
| `IInvCorrect` | `Spec => []IInv` |
| `CheckpointsLoad` | `Spec => []CheckpointLoads` |
| `TurnsAreBounded` | `Spec => []TurnsBounded` |
| `SuccessHasBeenEarned` | `Spec => []SuccessIsEarned` |
| `SuccessIsFinal` | `Spec => NoTurnAfterSuccess` (an action property) |

`CheckpointLoads` is kept by what a save has in hand (`SaveSound`): between the
two renames the backup is the old checkpoint.  `TurnsBounded` needs a ledger
(`TurnsPaid`): a turn is paid for by an iteration that is recorded on disk, is
about to be, or was lost to a crash or a failed write, so `turns` is at most
the iteration on disk, one more while one is under way, and the losses.
`NoTurnAfterSuccess` needs `SuccessStays`: while a success is on disk it is
what `load()` returns, and the driver is off, resuming, clearing or ending.
`SuccessIsEarned` needs to know where every success could come from
(`SuccessEarned`) and which flags can be of the run that reads them
(`FlagsDated`): no nonce of an earlier run fits, and a candidate of this run is
fresh wherever it can be judged.  What was earned stays so until both
checkpoint files are cleared: the theorem is of a turn of the loop, which need
not be the last one.

`Runs_proof` also proves of `BackgroundTasks`, for any set of tasks:

| theorem | statement |
|---|---|
| `TasksTypeCorrect` | `BTSpec => []BTTypeOK` |
| `RunsAgree` | `BTSpec => []RunAgrees` |
| `OwnProcesses` | `BTSpec => []SignalsOwnProcesses` |

Its invariant `TasksInv` adds that a command that was not stopped has its handle exactly
while it runs (`RunningIsLive`), and that an id is used again only after its
process is gone, with its handle kept only by a descendant outside the group
(`IdsKept`).

`AgentDelivery_proof` proves, for any agents, files and bounds:

| theorem | statement |
|---|---|
| `TypeCorrect` | `Spec => []TypeOK` |
| `IInvCorrect` | `Spec => []IInv` |
| `WorkIsNotLost` | `Spec => []WorkKept` |
| `ResultsAreTrue` | `Spec => []ResultIsTrue` |
| `RunsTell` | `Spec => []RunTellsResult` |

`IInv` has one predicate for each stage of a call (`Stage`): where its work is,
what its run may be, what it may yet tell.  The calls interfere through the
parent's tree only, which a call changes while it is alone at the git mutex.

`SessionStore_proof` proves of `SessionStore` and `Conversation`, for any
number of turns, failures and crashes, and any windows of the summary, the snip
and the trim (`ConversationAssumption`; a trim keeps at least two messages,
`MAX_RECENT_HISTORY_MESSAGES` being 120):

| theorem | statement |
|---|---|
| `StoreInvCorrect` | `StoreSpec => []StoreInv` |
| `CrashesCostOneSave` | `StoreSpec => []CrashLosesAtMostOneSave` |
| `LoadsAreReal` | `StoreSpec => []LoadsWhatWas` |
| `CallsStayWithTheirRows` | `StoreSpec => []ShorteningIsSafe` |
| `ForksAreWhole` | `StoreSpec => []ForkKeepsWhatIsAsked` |

`StoreInv == StoreTypes /\ SaveInv /\ SourceInv /\ WholeInv`, and three
arguments meet in it.

* *What a ledger reads as* (`AppendedReads`, `TornReads`, `RewrittenReads`).
  An append to it, whole or cut short, makes it read as more of the
  conversation, unless its last line was unterminated.  So `SaveInv` can say,
  for each place where the process may be in a save, what a load would find
  there; a crash then only has to be compared with that.
* *What every conversation has* (`Sound`).  Only assistants call, a call is made
  once and by a turn that has been, and only rows stand between a call and its
  row (`Adjacent`).  `NoOrphan` and `NoDangling` alone are not inductive: a cut
  before a message that is no row separates no call from its rows only because
  the rows follow their call directly.  Dropping a head (`DropSafe`), taking a
  beginning (`PrefixSafe`), putting a summary in front (`PrependSafe`), a round
  of calls (`ExtensionSafe`) and keeping a selection (`SelectionSound`) each
  keep it, and summary, snip, trim, turn and fork are made of these
  (`CompactedSafe`, `SnippedSafe`, `TrimSafe`, `TurnSafe`, `ForkSafe`).
  `SourceInv` says it of every conversation there has been, and that both files
  are beginnings of one.
* *What the history variables excuse.*  `spoiled` names why a ledger cannot be
  relied on, `broken` what has split a call from its row; `WholeInv` says that
  while `broken` is empty the files hold whole conversations.

What a read of a ledger keeps, and what a trim keeps, is a recursive function
over positions (`Kept`); what it computes for every sequence is proved from the
least element as above (`KeptExists`, `KeptPicks`).

Model-checked only: the liveness properties (`WaiterIsServed`,
`PendingIsResolved`, `EveryTaskFinishes`, `TurnEnds`, `SplitEnds`,
`StopEndsCommand`), which are out of the prover's reach.  Every other property
of a passing run is a theorem; of `EditTransaction` the last three theorems
are for files that are no symbolic links (`Links = {}`, as in the run), and
`Implements` of the task queue is for whole appends.

## 5. Not modelled

`PROJECT.json` gives every component's status.  What is left out on purpose:

* **Model router.**  A sequential object of an engine.  What could go wrong in
  its probe leases needs overlapping turns of one engine, which the engine
  does not run; the hazards are listed with that note.
* **Workflows.**  Steps one after the other.  Reading them showed that
  `/workflow run` passes neither a signal nor a registry
  (`commands/cmd/group03.ts:377-405`), that an abort during a failing step
  leaves the remaining steps out of a list that is said to have them all, and
  that an abort after a step's timeout overwrites the timer of its kill.
* **Background sessions, the daemon and cron.**  Processes that start others;
  cron's two processes firing one job are a later candidate.
* **Judgements about text**: the completion contract, the reviewer, risk
  classification, memory ranking, prompts.  Where a model needs their yes or
  no, it takes both.
* **Clients**: providers, MCP, LSP, sandbox, git itself.  The models take what
  their callers see of them: answers, failures, time.
* **Short writes.**  `appendLinesSync` calls `writeSync` once
  (`sessionParts.ts:88-100`).  An append in `SessionStore` is whole, cut short
  by a crash, or fails and leaves the ledger as it was; one that is cut short
  without a crash, as a full disk may do, is not modelled.
* **Power loss.**  A crash is a killed process; what the file system had
  acknowledged stays.

## 6. Limits and what would come next

1. `RunEvents` reattaches a worker in one step; the await inside it, during
   which the run may change, needs the adapter's polling.
2. `RunLeases`: registry and scheduler composed; a terminal change whose event
   is not fanned out leaves its leases behind.
3. A worker id used by two processes at a time, in `TaskControlPlane`.
4. `LoopRun` under several drivers: the lease and the loop composed.
5. Theorems: `EditTransaction` with links, of which a rollback makes files;
   a refinement of the session store to a store that saves at once or not at
   all, of which `CrashLosesAtMostOneSave` is the invariant part.
