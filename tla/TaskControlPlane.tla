--------------------------- MODULE TaskControlPlane ---------------------------
(***************************************************************************)
(* The durable task queue: tasks are leased to workers, every change is    *)
(* appended to a JSONL file before it is made in memory, and a restarted   *)
(* server replays that file.  Workers (TaskWorker.runOnce) claim, renew    *)
(* their lease, and complete or fail; they may die, and so may the server. *)
(*                                                                         *)
(* A lease is kept as the ticks it has left, so time needs no bound.  The  *)
(* file is kept as what a replay of its complete lines yields ("disk") and *)
(* its unterminated last line ("tail"), to which the next line is glued.   *)
(* A call of the server that records several events runs to completion in  *)
(* one turn of the event loop: "call" names it, and only time, a worker's  *)
(* death or a crash interleaves.  Event sequence numbers and the bounded   *)
(* in-memory event list are served to readers only and are left out.       *)
(***************************************************************************)
EXTENDS Naturals, FiniteSets

CONSTANTS
    MaxTasks,        \* bound: tasks enqueued (ids in the order of creation)
    Workers,         \* worker ids
    Priorities,      \* priorities a task may be given
    AttemptLimits,   \* values of maxAttempts
    LeaseTicks,      \* ticks a lease lasts
    TornWrites,      \* may an append stop short of its newline?
    MaxFaults,       \* bound: appends that throw
    MaxCrashes       \* bound: server crashes

Nobody == "nobody"

ASSUME TaskAssumption ==
    /\ Nobody \notin Workers
    /\ MaxTasks \in Nat /\ LeaseTicks \in Nat \ {0}
    /\ Priorities \subseteq Nat
    /\ AttemptLimits \subseteq Nat \ {0}
    /\ TornWrites \in BOOLEAN
    /\ MaxFaults \in Nat /\ MaxCrashes \in Nat

VARIABLES
    up,        \* the server process runs
    tasks,     \* TaskControlPlane.tasks
    disk,      \* replay of the complete lines of the event file
    tail,      \* the unterminated last line, or Clean
    call,      \* the multi-event call under way, or NoCall
    job,       \* per worker: the attempt it executes, or NoJob
    enqueued,  \* number of task ids handed out
    faults, crashes,
    swallowed, \* history: tasks that lost an acknowledged event
    unsure     \* history: tasks with a logged event whose append threw

vars == <<up, tasks, disk, tail, call, job, enqueued, faults, crashes,
          swallowed, unsure>>

Tasks == 1..MaxTasks
ControlTaskStatus == {"queued", "running", "succeeded", "failed", "cancelled"}
Finished == {"succeeded", "failed", "cancelled"}

Task == [status : ControlTaskStatus, priority : Priorities,
         attempt : Nat, maxAttempts : AttemptLimits,
         worker : Workers \union {Nobody}, lease : 0..LeaseTicks]
NoTask == [status |-> "none", priority |-> 0, attempt |-> 0, maxAttempts |-> 0,
           worker |-> Nobody, lease |-> 0]

NoJob == [task |-> 0, attempt |-> 0, until |-> 0]
Job == [task : 1..MaxTasks, attempt : Nat, until : 0..LeaseTicks]

(* recoverExpiredLeases is at task "cursor", for claim() if worker is one; *)
(* or a TaskWorker is in its catch block, about to call fail().            *)
NoCall == [op |-> "none", worker |-> Nobody, cursor |-> 0]
Calls == [op : {"none", "sweep", "fail"}, worker : Workers \union {Nobody},
          cursor : 0..MaxTasks]

Clean == [line |-> "none"]
Fragment == [line |-> "fragment"]
Whole(t, record) == [line |-> "whole", task |-> t, record |-> record]
Tails == {Clean, Fragment}
         \union [line : {"whole"}, task : Tasks, record : Task]
TailTasks == IF tail.line = "whole" THEN {tail.task} ELSE {}

-----------------------------------------------------------------------------
(* The event file                                                          *)

(* load: the last well-formed event of a task is its state. *)
Replay(state, t, record) == [state EXCEPT ![t] = record]

Loaded == IF tail.line = "whole" THEN Replay(disk, tail.task, tail.record) ELSE disk

(* record: append one line, then change the memory. *)
Recorded(t, record) ==
    /\ tail' = Clean
    /\ IF tail = Clean
       THEN disk' = Replay(disk, t, record) /\ UNCHANGED swallowed
       ELSE /\ UNCHANGED disk
            /\ swallowed' = swallowed \union {t} \union (TailTasks \ unsure)
    /\ tasks' = [tasks EXCEPT ![t] = record]
    /\ UNCHANGED <<faults, unsure>>

(* A write that stops short: of everything, of its end, or of its newline. *)
TornTails(t, record) ==
    {tail} \union
    (IF TornWrites
     THEN {Fragment} \union (IF tail = Clean THEN {Whole(t, record)} ELSE {})
     ELSE {})

(* Faulty variant: the memory is changed before the line is written. *)
RecordThrowsMemoryFirst(t, record) ==
    /\ faults < MaxFaults
    /\ faults' = faults + 1
    /\ tail' \in TornTails(t, record)
    /\ swallowed' = swallowed \union
                    (IF tail' = tail THEN {} ELSE TailTasks \ unsure)
    /\ unsure' = unsure \union (IF tail' \notin {tail, Fragment} THEN {t} ELSE {})
    /\ tasks' = [tasks EXCEPT ![t] = record]
    /\ UNCHANGED disk

(* record: the append throws and the memory stays as it was. *)
RecordThrows(t, record) ==
    /\ faults < MaxFaults
    /\ faults' = faults + 1
    /\ tail' \in TornTails(t, record)
    /\ swallowed' = swallowed \union
                    (IF tail' = tail THEN {} ELSE TailTasks \ unsure)
    /\ unsure' = unsure \union (IF tail' \notin {tail, Fragment} THEN {t} ELSE {})
    /\ UNCHANGED <<disk, tasks>>

-----------------------------------------------------------------------------
(* The transitions of one task                                             *)

NewTask(priority, limit) ==
    [status |-> "queued", priority |-> priority, attempt |-> 0,
     maxAttempts |-> limit, worker |-> Nobody, lease |-> 0]

Claimed(task, w) ==
    [task EXCEPT !.status = "running", !.attempt = @ + 1, !.worker = w,
                 !.lease = LeaseTicks]

Renewed(task) == [task EXCEPT !.lease = LeaseTicks]

Succeeded(task) == [task EXCEPT !.status = "succeeded", !.lease = 0]

(* Faulty variant: the last attempt is never granted. *)
RetriedOnceLess(task) ==
    IF task.attempt + 1 < task.maxAttempts
    THEN [task EXCEPT !.status = "queued", !.worker = Nobody, !.lease = 0]
    ELSE [task EXCEPT !.status = "failed", !.lease = 0]

(* fail() and an expired lease: another attempt if one is left. *)
Retried(task) ==
    IF task.attempt < task.maxAttempts
    THEN [task EXCEPT !.status = "queued", !.worker = Nobody, !.lease = 0]
    ELSE [task EXCEPT !.status = "failed", !.lease = 0]

Cancelled(task) == [task EXCEPT !.status = "cancelled", !.lease = 0]

(* Faulty variants: ownership without the worker, or without the status. *)
OwnsAnyWorker(w, t) == tasks[t].status = "running"
OwnsAnyStatus(w, t) == tasks[t].worker = w

Owns(w, t) == tasks[t].status = "running" /\ tasks[t].worker = w

(* Faulty variants: the lease is not looked at; last attempts never expire. *)
ExpiredAtOnce(t) == tasks[t].status = "running"
ExpiredButLast(t) ==
    /\ tasks[t].status = "running" /\ tasks[t].lease = 0
    /\ tasks[t].attempt < tasks[t].maxAttempts

Expired(t) == tasks[t].status = "running" /\ tasks[t].lease = 0

(* list('queued')[0]: the highest priority, the oldest among equals. *)
First(t) ==
    /\ tasks[t].status = "queued"
    /\ \A s \in Tasks :
          tasks[s].status = "queued" =>
              \/ tasks[t].priority > tasks[s].priority
              \/ tasks[t].priority = tasks[s].priority /\ t <= s

-----------------------------------------------------------------------------
(* Calls that record one event                                             *)

Ready == up /\ call = NoCall

Enqueue ==
    /\ Ready
    /\ enqueued < MaxTasks
    /\ enqueued' = enqueued + 1
    /\ \E p \in Priorities, limit \in AttemptLimits :
          \/ Recorded(enqueued + 1, NewTask(p, limit))
          \/ RecordThrows(enqueued + 1, NewTask(p, limit))
    /\ UNCHANGED <<up, call, job, crashes>>

(* The worker's timer renews the lease, expired or not. *)
Heartbeat(w) ==
    /\ Ready
    /\ job[w] # NoJob
    /\ LET t == job[w].task
       IN  /\ Owns(w, t)
           /\ \/ /\ Recorded(t, Renewed(tasks[t]))
                 /\ job' = [job EXCEPT ![w].until = LeaseTicks]
              \/ RecordThrows(t, Renewed(tasks[t])) /\ UNCHANGED job
    /\ UNCHANGED <<up, call, enqueued, crashes>>

(* execute() resolved: complete; an append error goes to the catch block. *)
Complete(w) ==
    /\ Ready
    /\ job[w] # NoJob
    /\ LET t == job[w].task
       IN  /\ Owns(w, t)
           /\ \/ /\ Recorded(t, Succeeded(tasks[t]))
                 /\ job' = [job EXCEPT ![w] = NoJob]
                 /\ UNCHANGED call
              \/ /\ RecordThrows(t, Succeeded(tasks[t]))
                 /\ call' = [op |-> "fail", worker |-> w, cursor |-> 0]
                 /\ UNCHANGED job
    /\ UNCHANGED <<up, enqueued, crashes>>

(* execute() rejected. *)
ExecutionFails(w) ==
    /\ Ready
    /\ job[w] # NoJob
    /\ call' = [op |-> "fail", worker |-> w, cursor |-> 0]
    /\ UNCHANGED <<up, tasks, disk, tail, job, enqueued, faults, crashes,
                   swallowed, unsure>>

(* The catch block of runOnce: fail(), whose error ends the run too. *)
Fail(w) ==
    /\ up /\ call.op = "fail" /\ call.worker = w
    /\ LET t == job[w].task
       IN  \/ Owns(w, t) /\ Recorded(t, Retried(tasks[t]))
           \/ Owns(w, t) /\ RecordThrows(t, Retried(tasks[t]))
           \/ ~ Owns(w, t)
              /\ UNCHANGED <<tasks, disk, tail, faults, swallowed, unsure>>
    /\ job' = [job EXCEPT ![w] = NoJob]
    /\ call' = NoCall
    /\ UNCHANGED <<up, enqueued, crashes>>

(* execute() ended, but the task is no longer this worker's: complete and  *)
(* fail both throw TaskOwnershipError, and runOnce returns.                *)
LateAnswer(w) ==
    /\ Ready
    /\ job[w] # NoJob
    /\ ~ Owns(w, job[w].task)
    /\ job' = [job EXCEPT ![w] = NoJob]
    /\ UNCHANGED <<up, tasks, disk, tail, call, enqueued, faults, crashes,
                   swallowed, unsure>>

Cancel(t) ==
    /\ Ready
    /\ tasks[t].status \in ControlTaskStatus \ Finished
    /\ Recorded(t, Cancelled(tasks[t])) \/ RecordThrows(t, Cancelled(tasks[t]))
    /\ UNCHANGED <<up, call, job, enqueued, crashes>>

-----------------------------------------------------------------------------
(* recoverExpiredLeases, alone or at the head of claim                     *)

(* POST /tasks/recover; with nothing expired it changes nothing. *)
RecoverCall ==
    /\ Ready
    /\ \E t \in Tasks : Expired(t)
    /\ call' = [op |-> "sweep", worker |-> Nobody, cursor |-> 0]
    /\ UNCHANGED <<up, tasks, disk, tail, job, enqueued, faults, crashes,
                   swallowed, unsure>>

(* claim by an idle worker; with nothing to recover or claim it returns null. *)
ClaimCall(w) ==
    /\ Ready
    /\ job[w] = NoJob
    /\ \E t \in Tasks : Expired(t) \/ tasks[t].status = "queued"
    /\ call' = [op |-> "sweep", worker |-> w, cursor |-> 0]
    /\ UNCHANGED <<up, tasks, disk, tail, job, enqueued, faults, crashes,
                   swallowed, unsure>>

SweepNext(t) == /\ t > call.cursor /\ Expired(t)
                /\ \A s \in Tasks : s > call.cursor /\ Expired(s) => t <= s

(* One expired lease; an append error ends the whole call. *)
SweepOne ==
    /\ up /\ call.op = "sweep"
    /\ \E t \in Tasks :
          /\ SweepNext(t)
          /\ \/ Recorded(t, Retried(tasks[t])) /\ call' = [call EXCEPT !.cursor = t]
             \/ RecordThrows(t, Retried(tasks[t])) /\ call' = NoCall
    /\ UNCHANGED <<up, job, enqueued, crashes>>

(* The sweep is over and nobody claims, or nothing is queued. *)
SweepDone ==
    /\ up /\ call.op = "sweep"
    /\ ~ \E t \in Tasks : SweepNext(t)
    /\ call.worker = Nobody \/ ~ \E t \in Tasks : tasks[t].status = "queued"
    /\ call' = NoCall
    /\ UNCHANGED <<up, tasks, disk, tail, job, enqueued, faults, crashes,
                   swallowed, unsure>>

(* The claim itself; the answer may be lost on its way to the worker. *)
ClaimTake ==
    /\ up /\ call.op = "sweep" /\ call.worker # Nobody
    /\ ~ \E t \in Tasks : SweepNext(t)
    /\ \E t \in Tasks :
          /\ First(t)
          /\ \/ /\ Recorded(t, Claimed(tasks[t], call.worker))
                /\ job' \in {job, [job EXCEPT ![call.worker] =
                                [task |-> t, attempt |-> tasks[t].attempt + 1,
                                 until |-> LeaseTicks]]}
             \/ /\ RecordThrows(t, Claimed(tasks[t], call.worker))
                /\ UNCHANGED job
    /\ call' = NoCall
    /\ UNCHANGED <<up, enqueued, crashes>>

-----------------------------------------------------------------------------
(* Time, deaths and crashes                                                *)

Less(n) == IF n = 0 THEN 0 ELSE n - 1
Aged(task) == [task EXCEPT !.lease = Less(@)]

Tick ==
    /\ tasks' = [t \in Tasks |-> Aged(tasks[t])]
    /\ disk' = [t \in Tasks |-> Aged(disk[t])]
    /\ tail' = IF tail.line = "whole" THEN Whole(tail.task, Aged(tail.record)) ELSE tail
    /\ job' = [w \in Workers |-> [job[w] EXCEPT !.until = Less(@)]]
    /\ <<tasks', disk', tail', job'>> # <<tasks, disk, tail, job>>
    /\ UNCHANGED <<up, call, enqueued, faults, crashes, swallowed, unsure>>

(* A worker process dies outside a call; one with its id may come back. *)
WorkerDies(w) ==
    /\ job[w] # NoJob
    /\ call.worker # w
    /\ job' = [job EXCEPT ![w] = NoJob]
    /\ UNCHANGED <<up, tasks, disk, tail, call, enqueued, faults, crashes,
                   swallowed, unsure>>

(* The lines the call under way, or the next one, can be writing. *)
LinesBeingWritten ==
    LET Line(T, After(_)) == {<<t, After(tasks[t])>> : t \in T}
        Held == {t \in Tasks : \E w \in Workers : job[w].task = t /\ Owns(w, t)}
        ClaimedByCaller(task) == Claimed(task, call.worker)
    IN  CASE call.op = "none" ->
                Line(Held, Succeeded) \union Line(Held, Renewed)
                \union Line({t \in Tasks : tasks[t].status \in {"queued", "running"}},
                            Cancelled)
                \union {<<enqueued + 1, NewTask(p, n)>> :
                           p \in Priorities, n \in AttemptLimits}
          [] call.op = "fail" -> Line(Held \intersect {job[call.worker].task}, Retried)
          [] call.op = "sweep" ->
                IF \E t \in Tasks : SweepNext(t)
                THEN Line({t \in Tasks : SweepNext(t)}, Retried)
                ELSE IF call.worker = Nobody THEN {}
                ELSE Line({t \in Tasks : First(t)}, ClaimedByCaller)

(* The server dies, between or inside appends; workers inside it (a        *)
(* TaskWorker holds the plane itself) die with it, remote ones do not.     *)
Crash ==
    /\ up
    /\ crashes < MaxCrashes
    /\ crashes' = crashes + 1
    /\ \/ UNCHANGED <<tail, swallowed, enqueued>>
       \/ \E line \in LinesBeingWritten :
             /\ line[1] \in Tasks
             /\ enqueued' = IF line[1] > enqueued THEN line[1] ELSE enqueued
             /\ tail' \in TornTails(line[1], line[2])
             /\ swallowed' = swallowed \union
                             (IF tail' = tail THEN {} ELSE TailTasks \ unsure)
    /\ up' = FALSE
    /\ tasks' = [t \in Tasks |-> NoTask]
    /\ call' = NoCall
    /\ \E survivors \in SUBSET Workers :
          job' = [w \in Workers |-> IF w \in survivors THEN job[w] ELSE NoJob]
    /\ UNCHANGED <<disk, faults, unsure>>

Restart ==
    /\ ~ up
    /\ up' = TRUE
    /\ tasks' = Loaded
    /\ unsure' = {}
    /\ UNCHANGED <<disk, tail, call, job, enqueued, faults, crashes,
                   swallowed>>

-----------------------------------------------------------------------------
Init ==
    /\ up = TRUE
    /\ tasks = [t \in Tasks |-> NoTask]
    /\ disk = [t \in Tasks |-> NoTask]
    /\ tail = Clean
    /\ call = NoCall
    /\ job = [w \in Workers |-> NoJob]
    /\ enqueued = 0 /\ faults = 0 /\ crashes = 0
    /\ swallowed = {} /\ unsure = {}

Next ==
    \/ Enqueue \/ RecoverCall \/ SweepOne \/ SweepDone \/ ClaimTake
    \/ Tick \/ Crash \/ Restart
    \/ \E t \in Tasks : Cancel(t)
    \/ \E w \in Workers :
          \/ ClaimCall(w) \/ Heartbeat(w) \/ Complete(w) \/ ExecutionFails(w)
          \/ Fail(w) \/ LateAnswer(w) \/ WorkerDies(w)

(* An execution ends, answered or not. *)
JobEnds(w) == Complete(w) \/ ExecutionFails(w) \/ LateAnswer(w) \/ WorkerDies(w)

(* Time passes, a call completes, the server is restarted, an idle worker  *)
(* polls, and execute() settles.                                           *)
Fairness ==
    /\ WF_vars(Tick) /\ WF_vars(Restart)
    /\ WF_vars(SweepOne) /\ WF_vars(SweepDone) /\ WF_vars(ClaimTake)
    /\ \A w \in Workers :
          WF_vars(ClaimCall(w)) /\ WF_vars(JobEnds(w)) /\ WF_vars(Fail(w))

SafeSpec == Init /\ [][Next]_vars

Spec == SafeSpec /\ Fairness

-----------------------------------------------------------------------------
(* Properties                                                              *)

(* Every variable keeps its type. *)
TypeOK ==
    /\ up \in BOOLEAN
    /\ tasks \in [Tasks -> Task \union {NoTask}]
    /\ disk \in [Tasks -> Task \union {NoTask}]
    /\ tail \in Tails
    /\ call \in Calls
    /\ job \in [Workers -> Job \union {NoJob}]
    /\ enqueued \in 0..MaxTasks
    /\ faults \in 0..MaxFaults /\ crashes \in 0..MaxCrashes
    /\ swallowed \subseteq Tasks /\ unsure \subseteq Tasks

(* The task as the server knows it, or as the next one will. *)
Known(t) == IF up THEN tasks[t] ELSE Loaded[t]

(* Two workers never both hold an unexpired lease on one task, each going  *)
(* by the last expiry the server told it.                                  *)
OneLiveLease ==
    \A v, w \in Workers :
        v # w /\ job[v] # NoJob /\ job[v].task = job[w].task
            /\ job[v].task \notin swallowed
            => job[v].until = 0 \/ job[w].until = 0

(* The worker a running task names, if it executes that task, executes its *)
(* current attempt: no answer of an earlier attempt can complete it.       *)
CurrentAttemptAnswers ==
    \A w \in Workers :
        job[w] # NoJob /\ up /\ job[w].task \notin swallowed /\ Owns(w, job[w].task)
            => job[w].attempt = tasks[job[w].task].attempt

(* A finished task keeps its status: no late answer, expired lease, cancel *)
(* or restart moves it.                                                    *)
FinishedForever ==
    [][\A t \in Tasks :
          Known(t).status \in Finished /\ t \notin swallowed'
              => Known(t)'.status = Known(t).status]_vars

(* The file replays to what the server holds in memory, unless an append   *)
(* threw after its line was complete.                                      *)
FileMirrorsMemory ==
    up => \A t \in Tasks \ (swallowed \union unsure) : Loaded[t] = tasks[t]

(* Every task that was accepted is finished at last: abandoned attempts    *)
(* expire and are handed out again until none is left.                     *)
EveryTaskFinishes ==
    \A t \in Tasks :
        Known(t).status = "queued" ~> Known(t).status \in Finished

(* The queue implements the life of independent tasks. *)
Lifecycle ==
    INSTANCE TaskLifecycle WITH
        status <- [t \in Tasks |-> Known(t).status],
        attempt <- [t \in Tasks |-> Known(t).attempt],
        limit <- [t \in Tasks |-> Known(t).maxAttempts]

ImplementsLifecycle == Lifecycle!Spec
==============================================================================
