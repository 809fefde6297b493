------------------------------ MODULE RunEvents ------------------------------
(***************************************************************************)
(* The run registry, the event bus that logs every change of it, the JSONL *)
(* log, and what the engine's constructor rebuilds from that log after a   *)
(* crash.                                                                  *)
(*                                                                         *)
(* The log is kept as the state a replay of its newline-terminated lines   *)
(* yields ("disk"; replay folds the lines one by one, so it can be kept up *)
(* to date append by append) and its last, unterminated line ("tail").  A  *)
(* line written after an unterminated one is glued to it, and neither      *)
(* parses.  Event ids are random, so readAll's deduplication never removes *)
(* anything and is left out.                                               *)
(***************************************************************************)
EXTENDS RunStates, Naturals, FiniteSets

CONSTANTS
    Runs,                 \* run ids
    CriticalSubscribers,  \* is a critical subscriber registered on the bus?
    MaxSequence,          \* bound: events of a run per process
    MaxFaults,            \* bound: failed appends and critical subscriber errors
    MaxCrashes            \* bound: process crashes

ASSUME RunEventsAssumption ==
    /\ CriticalSubscribers \in BOOLEAN
    /\ MaxSequence \in Nat
    /\ MaxFaults \in Nat
    /\ MaxCrashes \in Nat

VARIABLES
    process,     \* "up", "booting" (the constructor runs) or "down"
    runs,        \* ExecutionRunRegistry.runs
    sequences,   \* ExecutionRunEventBus.sequences
    disk,        \* replay of the complete lines of runs.jsonl
    tail,        \* the unterminated last line of runs.jsonl, or Clean
    unreconciled,\* runs the constructor still has to reconcile
    recovering,  \* worker runs runWorkerRecovery still has to reattach
    owned,       \* runs some component of this process holds and drives
    session,     \* does the run's tmux session exist?
    faults, crashes,
    durable,     \* history: runs none of whose events has been lost
    swallowed    \* history: runs that lost a fully written event to a glued line

vars == <<process, runs, sequences, disk, tail, unreconciled, recovering,
          owned, session, faults, crashes, durable, swallowed>>

bookkeeping == <<faults, crashes>>

-----------------------------------------------------------------------------
(* Runs, events and the log                                                *)

(* Only the kind recovery tells apart, and the phases it writes or reads.  *)
RunKinds == {"turn", "external_worker"}
Phases   == {"ordinary", "pending", "reattached", "critical"}
(* run.worker: a label of the worker's kind, or its session's name.        *)
Workers  == {"label", "session"}

Run == [kind : RunKinds, status : RunStatus, phase : Phases, worker : Workers]
NoRun == [kind |-> "none", status |-> "none", phase |-> "none",
          worker |-> "none"]

Event == [type : {"run.created", "run.changed", "subsystem"},
          run : Runs, snapshot : Run]
EventOf(type, r, snapshot) == [type |-> type, run |-> r, snapshot |-> snapshot]

Clean    == [line |-> "none"]
Fragment == [line |-> "fragment"]
Whole(e) == [line |-> "whole", event |-> e]
Tails    == {Clean, Fragment} \union [line : {"whole"}, event : Event]
TailRuns == IF tail.line = "whole" THEN {tail.event.run} ELSE {}

(* Faulty variant: a run waiting for its worker is not taken for in flight. *)
InFlightWithoutWaiting == {"preparing", "running", "verifying"}

(* The statuses the constructor's filter treats as in flight. *)
InFlight == {"preparing", "running", "verifying", "waiting"}

(* Faulty variant: the status is inferred from the event's type, which a   *)
(* move between two running statuses does not tell.                        *)
ReplayedFromType(run, e) ==
    CASE e.type = "run.created" /\ run = NoRun -> e.snapshot
      [] e.type = "run.changed" /\ run # NoRun ->
            [run EXCEPT !.phase = e.snapshot.phase,
                        !.status = IF IsTerminalRunStatus(e.snapshot.status)
                                   THEN e.snapshot.status ELSE @]
      [] OTHER -> run

(* applyEventToRegistry: only a creation restores the worker field. *)
Replayed(run, e) ==
    CASE e.type = "run.created" /\ run = NoRun -> e.snapshot
      [] /\ e.type = "run.changed" /\ run # NoRun
         /\ CanTransition(run.status, e.snapshot.status) ->
            [run EXCEPT !.status = e.snapshot.status, !.phase = e.snapshot.phase]
      [] OTHER -> run

ApplyEvent(registry, e) ==
    [registry EXCEPT ![e.run] = Replayed(registry[e.run], e)]

(* recoverRegistryFromStore: the last line counts if its JSON is complete. *)
Recovered == IF tail.line = "whole" THEN ApplyEvent(disk, tail.event) ELSE disk

(* The run as this process knows it or, with no process, as the next will. *)
Known(r) == IF process = "up" THEN runs[r] ELSE Recovered[r]

-----------------------------------------------------------------------------
(* Writing a line                                                          *)

(* JsonlEventStore.append succeeds. *)
AppendLine(e) ==
    /\ tail' = Clean
    /\ IF tail = Clean
       THEN disk' = ApplyEvent(disk, e) /\ UNCHANGED swallowed
       ELSE /\ UNCHANGED disk
            /\ swallowed' = swallowed \union TailRuns \union {e.run}

(* The write stops short: nothing, part of the line or all but its newline. *)
TearLine(e) ==
    /\ tail' \in {tail, Fragment} \union
                 (IF tail = Clean THEN {Whole(e)} ELSE {})
    /\ UNCHANGED <<disk, swallowed>>

(* What the two of them leave of the durability history. *)
LostBy(e) == IF tail = Clean THEN {} ELSE TailRuns \union {e.run}

-----------------------------------------------------------------------------
(* ExecutionRunEventBus.dispatch, in its three outcomes.  The registry has *)
(* already stored the new value of the run when it is called.              *)

NextSequence(r) ==
    /\ sequences[r] < MaxSequence
    /\ sequences' = [sequences EXCEPT ![r] = @ + 1]

(* Logged and fanned out. *)
Dispatched(e, registry) ==
    /\ NextSequence(e.run)
    /\ AppendLine(e)
    /\ durable' = durable \ LostBy(e)
    /\ runs' = registry
    /\ UNCHANGED bookkeeping

(* Logged, then a critical subscriber throws: the run is forced to failed *)
(* under the re-entrancy guard, so that change is neither logged nor sent. *)
DispatchedCritical(e, registry) ==
    /\ CriticalSubscribers
    /\ faults < MaxFaults
    /\ faults' = faults + 1
    /\ registry[e.run].status # "failed"
    /\ CanTransitionToFailed(registry[e.run].status)
    /\ CanTransition(registry[e.run].status, "failed")
    /\ NextSequence(e.run)
    /\ AppendLine(e)
    /\ durable' = durable \ (LostBy(e) \union {e.run})
    /\ runs' = [registry EXCEPT ![e.run].status = "failed",
                                ![e.run].phase = "critical"]
    /\ UNCHANGED crashes

(* The append throws: the registry keeps the change, the caller gets the error. *)
DispatchThrows(e, registry) ==
    /\ faults < MaxFaults
    /\ faults' = faults + 1
    /\ NextSequence(e.run)
    /\ TearLine(e)
    /\ durable' = durable \ (TailRuns \union {e.run})
    /\ runs' = registry
    /\ UNCHANGED crashes

Dispatch(type, r, new) ==
    LET e == EventOf(type, r, new)
        registry == [runs EXCEPT ![r] = new]
    IN  Dispatched(e, registry) \/ DispatchedCritical(e, registry)
            \/ DispatchThrows(e, registry)

-----------------------------------------------------------------------------
(* The components that drive runs                                          *)

(* A run as the source's callers create one: queued, or preparing (a       *)
(* workflow step) or running (a loop); a worker run carries its session's  *)
(* name (run action) or only the kind of worker (start).                   *)
NewRuns ==
    [kind : {"turn"}, status : {"queued", "preparing", "running"},
     phase : {"ordinary"}, worker : {"label"}]
    \union
    [kind : {"external_worker"}, status : {"queued"},
     phase : {"ordinary"}, worker : Workers]

(* registry.create; when the append throws, its caller never gets the run. *)
Create(r) ==
    /\ process = "up"
    /\ runs[r] = NoRun
    /\ \E new \in NewRuns :
          LET e == EventOf("run.created", r, new)
              registry == [runs EXCEPT ![r] = new]
          IN  \/ /\ Dispatched(e, registry) \/ DispatchedCritical(e, registry)
                 /\ owned' = owned \union {r}
              \/ DispatchThrows(e, registry) /\ UNCHANGED owned
    /\ UNCHANGED <<process, unreconciled, recovering, session>>

(* A worker run learns its session on its way to running and waiting. *)
Moved(run, to) ==
    [run EXCEPT !.status = to, !.phase = "ordinary",
                !.worker = IF run.kind = "external_worker"
                              /\ to \in {"running", "waiting"}
                           THEN "session" ELSE @]

(* registry.transition, called by the component that drives the run. *)
Transition(r) ==
    /\ process = "up"
    /\ r \in owned
    /\ \E to \in RunStatus :
          /\ CanTransition(runs[r].status, to)
          /\ Dispatch("run.changed", r, Moved(runs[r], to))
    /\ UNCHANGED <<process, unreconciled, recovering, owned, session>>

(* registry.update: a new phase label, the status stays. *)
Update(r) ==
    /\ process = "up"
    /\ r \in owned
    /\ Dispatch("run.changed", r, [runs[r] EXCEPT !.phase = "ordinary"])
    /\ UNCHANGED <<process, unreconciled, recovering, owned, session>>

(* emit (dispatchExplicit): a tool, artifact, verification or steering    *)
(* event; it carries no snapshot, and a subscriber's error changes nothing. *)
EmitSubsystem(r) ==
    /\ process = "up"
    /\ r \in owned
    /\ LET e == EventOf("subsystem", r, runs[r])
       IN  \/ NextSequence(r) /\ AppendLine(e) /\ UNCHANGED faults
              /\ durable' = durable \ LostBy(e)
           \/ /\ faults < MaxFaults /\ faults' = faults + 1
              /\ NextSequence(r) /\ TearLine(e)
              /\ durable' = durable \ (TailRuns \union {r})
    /\ UNCHANGED <<process, runs, unreconciled, recovering, owned, session,
                   crashes>>

(* tmux: a worker's session is started while its run is prepared ... *)
SessionStarts(r) ==
    /\ process = "up"
    /\ r \in owned
    /\ runs[r].kind = "external_worker" /\ runs[r].status = "preparing"
    /\ ~ session[r]
    /\ session' = [session EXCEPT ![r] = TRUE]
    /\ UNCHANGED <<process, runs, sequences, disk, tail, unreconciled,
                   recovering, owned, bookkeeping, durable, swallowed>>

(* ... and can end at any time, with or without a process watching it. *)
SessionEnds(r) ==
    /\ session[r]
    /\ session' = [session EXCEPT ![r] = FALSE]
    /\ UNCHANGED <<process, runs, sequences, disk, tail, unreconciled,
                   recovering, owned, bookkeeping, durable, swallowed>>

-----------------------------------------------------------------------------
(* Crash and restart                                                       *)

(* The lines a process can be writing when it dies. *)
LinesBeingWritten ==
    {EventOf("run.changed", r, Moved(runs[r], to)) :
        r \in owned, to \in RunStatus}

(* The process dies between two steps, or inside an append. *)
Crash ==
    /\ process # "down"
    /\ crashes < MaxCrashes
    /\ crashes' = crashes + 1
    /\ \/ UNCHANGED <<disk, tail, swallowed, durable>>
       \/ \E e \in LinesBeingWritten :
             /\ process = "up"
             /\ CanTransition(runs[e.run].status, e.snapshot.status)
             /\ TearLine(e)
             /\ durable' = durable \ (TailRuns \union {e.run})
    /\ process' = "down"
    /\ runs' = [r \in Runs |-> NoRun]
    /\ sequences' = [r \in Runs |-> 0]
    /\ unreconciled' = {} /\ recovering' = {} /\ owned' = {}
    /\ UNCHANGED <<session, faults>>

(* The engine's constructor: replay, a bus with fresh sequences, and the   *)
(* runs recoverNonTerminalRuns will go through.                            *)
Restart ==
    /\ process = "down"
    /\ process' = "booting"
    /\ runs' = Recovered
    /\ unreconciled' = {r \in Runs : Recovered[r].status \in InFlight}
    /\ durable' = Runs \ TailRuns
    /\ UNCHANGED <<sequences, disk, tail, recovering, owned, session,
                   bookkeeping, swallowed>>

(* recoverNonTerminalRuns, one run: a worker's is kept for reattachment,   *)
(* any other has failed; an append error is swallowed.                     *)
Reconciled(run) ==
    IF run.kind = "external_worker"
    THEN [run EXCEPT !.phase = "pending"]
    ELSE [run EXCEPT !.status = "failed", !.phase = "ordinary"]

ReconcileOne(r) ==
    /\ process = "booting"
    /\ r \in unreconciled
    /\ Dispatch("run.changed", r, Reconciled(runs[r]))
    /\ unreconciled' = unreconciled \ {r}
    /\ UNCHANGED <<process, recovering, owned, session>>

(* Faulty variant: nobody calls recoverWorkers after the constructor. *)
BootDoneUnscheduled ==
    /\ process = "booting"
    /\ unreconciled = {}
    /\ process' = "up"
    /\ UNCHANGED <<runs, sequences, disk, tail, unreconciled, recovering, owned,
                   session, bookkeeping, durable, swallowed>>

(* runWorkerRecovery takes its list of pending runs when it is called. *)
BootDone ==
    /\ process = "booting"
    /\ unreconciled = {}
    /\ process' = "up"
    /\ recovering' = {r \in Runs : /\ runs[r].kind = "external_worker"
                                   /\ runs[r].phase = "pending"
                                   /\ ~ IsTerminalRunStatus(runs[r].status)}
    /\ UNCHANGED <<runs, sequences, disk, tail, unreconciled, owned, session,
                   bookkeeping, durable, swallowed>>

(* WorkerAdapter.reattach: the session named by run.worker must exist. *)
Reattaches(r) == runs[r].worker = "session" /\ session[r]

(* runWorkerRecovery, one run. *)
RecoverWorker(r) ==
    /\ process = "up"
    /\ r \in recovering
    /\ \/ /\ Reattaches(r)
          /\ Dispatch("run.changed", r, [runs[r] EXCEPT !.phase = "reattached"])
          /\ owned' = owned \union {r}
       \/ /\ ~ Reattaches(r)
          /\ Dispatch("run.changed", r, [runs[r] EXCEPT !.status = "lost",
                                                        !.phase = "ordinary"])
          /\ UNCHANGED owned
    /\ recovering' = recovering \ {r}
    /\ UNCHANGED <<process, unreconciled, session>>

-----------------------------------------------------------------------------
Init ==
    /\ process = "up"
    /\ runs = [r \in Runs |-> NoRun]
    /\ sequences = [r \in Runs |-> 0]
    /\ disk = [r \in Runs |-> NoRun]
    /\ tail = Clean
    /\ unreconciled = {} /\ recovering = {} /\ owned = {}
    /\ session = [r \in Runs |-> FALSE]
    /\ faults = 0 /\ crashes = 0
    /\ durable = Runs /\ swallowed = {}

Next ==
    \/ \E r \in Runs :
          \/ Create(r) \/ Transition(r) \/ Update(r) \/ EmitSubsystem(r)
          \/ SessionStarts(r) \/ SessionEnds(r)
          \/ ReconcileOne(r) \/ RecoverWorker(r)
    \/ Crash \/ Restart \/ BootDone

(* The constructor runs to its end and its recovery promise is resolved;   *)
(* nothing forces a component to drive its run on.                         *)
Fairness ==
    /\ WF_vars(Restart)
    /\ WF_vars(BootDone)
    /\ \A r \in Runs : WF_vars(ReconcileOne(r)) /\ WF_vars(RecoverWorker(r))

SafeSpec == Init /\ [][Next]_vars

Spec == SafeSpec /\ Fairness

-----------------------------------------------------------------------------
(* Properties                                                              *)

(* Every variable keeps its type; a run being recovered is in flight. *)
TypeOK ==
    /\ process \in {"up", "booting", "down"}
    /\ runs \in [Runs -> Run \union {NoRun}]
    /\ disk \in [Runs -> Run \union {NoRun}]
    /\ tail \in Tails
    /\ sequences \in [Runs -> 0..MaxSequence]
    /\ unreconciled \subseteq Runs
    /\ recovering \subseteq Runs
    /\ owned \subseteq Runs
    /\ session \in [Runs -> BOOLEAN]
    /\ faults \in 0..MaxFaults /\ crashes \in 0..MaxCrashes
    /\ durable \subseteq Runs /\ swallowed \subseteq Runs

(* What a restart would rebuild from the log is what the process has in    *)
(* memory, for every run whose events all reached the log, at every point  *)
(* between two events: replay inverts dispatch.                            *)
LogMirrorsRegistry ==
    process # "down" =>
        \A r \in durable :
            /\ Recovered[r].status = runs[r].status
            /\ Recovered[r].phase = runs[r].phase
            /\ Recovered[r].kind = runs[r].kind

(* A terminal run whose end is in the log keeps that status for ever: no   *)
(* transition, no crash, no replay and no recovery pass moves it.          *)
TerminalForever ==
    [][\A r \in Runs :
          r \in durable /\ IsTerminalRunStatus(Known(r).status)
              => Known(r)'.status = Known(r).status]_vars

(* Once the constructor is done, a run that is in flight is driven by a    *)
(* component of this process or waits for its worker to be reattached; no  *)
(* run of a previous process is left running with nobody behind it.  Runs  *)
(* that were queued or blocked are not reconciled and may be left.         *)
NoOrphanInFlight ==
    process = "up" =>
        \A r \in durable :
            \/ runs[r] = NoRun \/ r \in owned \union recovering
            \/ IsTerminalRunStatus(runs[r].status)
            \/ runs[r].status \in {"queued", "blocked"}

(* A worker run left pending by a restart does not stay so: it is          *)
(* reattached or lost, however often the process crashes meanwhile.        *)
PendingIsResolved ==
    \A r \in Runs :
        Known(r).phase = "pending" ~> Known(r).phase # "pending"

-----------------------------------------------------------------------------
(* Statements of documents and tests that the code does not keep; the      *)
(* README tells how each one fails                                         *)

(* executionRunEvents.ts: a half-written line "doesn't lose the rest of    *)
(* the log": no event whose append returned is lost to another line.       *)
RestOfLogSurvives == swallowed = {}

(* executionRunEvents.ts: "process crash -> state recoverable from the     *)
(* event log", for the failure a critical subscriber's error forces.       *)
CriticalFailureRecoverable ==
    \A r \in Runs :
        runs[r].phase = "critical" => Recovered[r].status = "failed"

(* engine.ts: the recovery "checks if the tmux session still exists ... On *)
(* success, the run stays non-terminal".                                   *)
LiveWorkerKept ==
    [][\A r \in recovering : session[r] => runs'[r].status # "lost"]_vars
=============================================================================
