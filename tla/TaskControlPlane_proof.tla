------------------------ MODULE TaskControlPlane_proof ------------------------
(***************************************************************************)
(* Proofs about TaskControlPlane, for any number of tasks, any workers and *)
(* lease times, and any number of crashes and failed or torn appends.      *)
(***************************************************************************)
EXTENDS TaskControlPlane, TLAPS

Entries == [Tasks -> Task \union {NoTask}]

(* What a last line adds to the others, and the task it is of.             *)
LoadedOf(state, line) ==
    IF line.line = "whole" THEN Replay(state, line.task, line.record) ELSE state
TasksOf(line) == IF line.line = "whole" THEN {line.task} ELSE {}

LEMMA Loads ==
    /\ Loaded = LoadedOf(disk, tail) /\ Loaded' = LoadedOf(disk', tail')
    /\ TailTasks = TasksOf(tail) /\ TailTasks' = TasksOf(tail')
BY DEF Loaded, LoadedOf, TailTasks, TasksOf

LEMMA LineFacts ==
    ASSUME NEW line \in Tails
    PROVE  /\ line.line = "whole" => line.task \in Tasks /\ line.record \in Task
           /\ TasksOf(line) \subseteq Tasks
           /\ TasksOf(Clean) = {} /\ TasksOf(Fragment) = {}
           /\ line.line # "whole" => line \in {Clean, Fragment}
BY DEF Tails, TasksOf, Clean, Fragment

LEMMA LoadFacts ==
    ASSUME NEW state \in Entries, NEW line \in Tails
    PROVE  /\ LoadedOf(state, line) \in Entries
           /\ \A s \in Tasks : LoadedOf(state, line)[s] =
                 IF s \in TasksOf(line) THEN line.record ELSE state[s]
BY LineFacts DEF LoadedOf, TasksOf, Replay, Entries

LEMMA NoTaskFacts ==
    /\ NoTask \notin Task /\ NoTask.status = "none" /\ NoTask.lease = 0
    /\ \A task \in Task \union {NoTask} : task.status # "none" => task \in Task
    /\ \A task \in Task : task.status \in ControlTaskStatus
BY DEF NoTask, Task, ControlTaskStatus

(* The moves of one task.                                                  *)
LEMMA NewTaskFacts ==
    ASSUME NEW p \in Priorities, NEW n \in AttemptLimits
    PROVE  /\ NewTask(p, n) \in Task /\ NewTask(p, n).status = "queued"
           /\ NewTask(p, n).attempt = 0 /\ NewTask(p, n).maxAttempts = n
BY TaskAssumption DEF NewTask, Task, ControlTaskStatus

LEMMA MoveFacts ==
    ASSUME NEW task \in Task
    PROVE  /\ Renewed(task) \in Task /\ Renewed(task).status = task.status
           /\ Renewed(task).worker = task.worker /\ Renewed(task).attempt = task.attempt
           /\ Renewed(task).lease = LeaseTicks /\ Renewed(task).maxAttempts = task.maxAttempts
           /\ Succeeded(task) \in Task /\ Succeeded(task).status = "succeeded"
           /\ Succeeded(task).attempt = task.attempt
           /\ Succeeded(task).maxAttempts = task.maxAttempts
           /\ Retried(task) \in Task /\ Retried(task).attempt = task.attempt
           /\ Retried(task).maxAttempts = task.maxAttempts
           /\ Retried(task).status = IF task.attempt < task.maxAttempts THEN "queued" ELSE "failed"
           /\ Cancelled(task) \in Task /\ Cancelled(task).status = "cancelled"
           /\ Cancelled(task).attempt = task.attempt
           /\ Cancelled(task).maxAttempts = task.maxAttempts
<1>0. LeaseTicks \in 0..LeaseTicks /\ 0 \in 0..LeaseTicks
  BY TaskAssumption
<1>1. /\ Renewed(task) \in Task /\ Renewed(task).status = task.status
      /\ Renewed(task).worker = task.worker /\ Renewed(task).attempt = task.attempt
      /\ Renewed(task).lease = LeaseTicks /\ Renewed(task).maxAttempts = task.maxAttempts
  BY <1>0 DEF Task, Renewed
<1>2. /\ Succeeded(task) \in Task /\ Succeeded(task).status = "succeeded"
      /\ Succeeded(task).attempt = task.attempt /\ Succeeded(task).maxAttempts = task.maxAttempts
  BY <1>0 DEF Task, Succeeded, ControlTaskStatus
<1>3. /\ Cancelled(task) \in Task /\ Cancelled(task).status = "cancelled"
      /\ Cancelled(task).attempt = task.attempt /\ Cancelled(task).maxAttempts = task.maxAttempts
  BY <1>0 DEF Task, Cancelled, ControlTaskStatus
<1>4. /\ Retried(task) \in Task /\ Retried(task).attempt = task.attempt
      /\ Retried(task).maxAttempts = task.maxAttempts
      /\ Retried(task).status = IF task.attempt < task.maxAttempts THEN "queued" ELSE "failed"
  <2>1. CASE task.attempt < task.maxAttempts
    BY <1>0, <2>1 DEF Task, Retried, ControlTaskStatus
  <2>2. CASE ~(task.attempt < task.maxAttempts)
    BY <1>0, <2>2 DEF Task, Retried, ControlTaskStatus
  <2>. QED
    BY <2>1, <2>2
<1>. QED
  BY <1>1, <1>2, <1>3, <1>4

LEMMA ClaimedFacts ==
    ASSUME NEW task \in Task, NEW w \in Workers
    PROVE  /\ Claimed(task, w) \in Task /\ Claimed(task, w).status = "running"
           /\ Claimed(task, w).worker = w /\ Claimed(task, w).attempt = task.attempt + 1
           /\ Claimed(task, w).lease = LeaseTicks
           /\ Claimed(task, w).maxAttempts = task.maxAttempts
<1>0. LeaseTicks \in 0..LeaseTicks /\ task.attempt + 1 \in Nat
  BY TaskAssumption DEF Task
<1>. QED
  BY <1>0 DEF Task, Claimed, ControlTaskStatus

LEMMA AgedFacts ==
    ASSUME NEW task \in Task \union {NoTask}
    PROVE  /\ Aged(task) \in Task \union {NoTask}
           /\ task \in Task => Aged(task) \in Task
           /\ task = NoTask => Aged(task) = NoTask
           /\ Aged(task).status = task.status /\ Aged(task).worker = task.worker
           /\ Aged(task).attempt = task.attempt /\ Aged(task).maxAttempts = task.maxAttempts
           /\ Aged(task).lease = Less(task.lease)
<1>0. \A n \in 0..LeaseTicks : Less(n) \in 0..LeaseTicks
  BY TaskAssumption DEF Less
<1>1. CASE task \in Task
  BY <1>0, <1>1, NoTaskFacts DEF Task, Aged
<1>2. CASE task = NoTask
  BY <1>2, NoTaskFacts DEF NoTask, Aged, Less
<1>. QED
  BY <1>1, <1>2

-----------------------------------------------------------------------------
(* The inductive invariant                                                 *)

(* Tasks whose state in the file is still in a last line that a crash left *)
(* there: whatever is recorded next swallows them.                         *)
Doubtful == IF up THEN TailTasks \ unsure ELSE TailTasks
Truth(t) == IF up THEN tasks[t] ELSE disk[t]

(* What the memory holds is in the complete lines, or in such a last line; *)
(* the line of an append that threw is not what the memory holds.          *)
FileTold == up => \A t \in Tasks \ swallowed :
    /\ t \in TailTasks \ unsure => tail.record = tasks[t]
    /\ t \notin TailTasks \ unsure => disk[t] = tasks[t]

NewIds ==
    /\ \A t \in Tasks : t > enqueued => tasks[t] = NoTask /\ disk[t] = NoTask
    /\ \A t \in TailTasks : t <= enqueued
    /\ ~up => tasks = [t \in Tasks |-> NoTask]

(* A worker that fails has its job still, one that claims has none.        *)
CallSound ==
    /\ call.op = "fail" => up /\ call.worker \in Workers /\ job[call.worker] # NoJob
    /\ call.op = "sweep" => up /\ (call.worker \in Workers => job[call.worker] = NoJob)
    /\ call.op = "none" => call = NoCall

Executes(w, t) == job[w] # NoJob /\ job[w].task = t
Matches(w, attempt, record) ==
    record.status = "running" /\ record.worker = w => attempt = record.attempt
(* Who executes a task whose record, in memory or in the file, names him   *)
(* executes the attempt that the record counts.                            *)
AttemptsMatch == \A w \in Workers, t \in Tasks \ swallowed :
    Executes(w, t) =>
        /\ Matches(w, job[w].attempt, Loaded[t])
        /\ up => Matches(w, job[w].attempt, tasks[t])

Holds(w, until, record) ==
    until > 0 =>
        \/ record.status \in Finished
        \/ record.status = "running" /\ record.worker = w /\ until <= record.lease
(* A worker that believes in its lease has it, unless the task is finished.*)
LeasesHeld == \A w \in Workers, t \in Tasks \ (swallowed \union Doubtful) :
    Executes(w, t) => Holds(w, job[w].until, Truth(t))

IInv == TypeOK /\ FileTold /\ NewIds /\ CallSound /\ AttemptsMatch /\ LeasesHeld /\ OneLiveLease

QueueTypes ==
    /\ up \in BOOLEAN /\ tasks \in Entries /\ disk \in Entries /\ tail \in Tails
    /\ faults \in 0..MaxFaults /\ swallowed \subseteq Tasks /\ unsure \subseteq Tasks

LEMMA RecordedFacts ==
    ASSUME TypeOK, FileTold, up, up', NEW t \in Tasks, NEW record \in Task, Recorded(t, record)
    PROVE  /\ QueueTypes' /\ FileTold'
           /\ tail' = Clean /\ TailTasks' = {} /\ Doubtful' = {} /\ Loaded' = disk'
           /\ tasks' = [tasks EXCEPT ![t] = record]
           /\ disk' \in {disk, [disk EXCEPT ![t] = record]}
           /\ swallowed \subseteq swallowed' /\ UNCHANGED <<faults, unsure>>
           /\ \A s \in Tasks \ swallowed' : s \notin Doubtful /\ disk'[s] = tasks'[s]
           /\ t \notin swallowed' => tail = Clean
<1>1. /\ tail' = Clean /\ tasks' = [tasks EXCEPT ![t] = record] /\ UNCHANGED <<faults, unsure>>
      /\ \/ tail = Clean /\ disk' = [disk EXCEPT ![t] = record] /\ swallowed' = swallowed
         \/ /\ tail # Clean /\ disk' = disk
            /\ swallowed' = swallowed \union {t} \union (TailTasks \ unsure)
  BY DEF Recorded, Replay
<1>2. tasks \in Entries /\ disk \in Entries /\ TailTasks \subseteq Tasks /\ Clean \in Tails
  BY Loads, LineFacts DEF TypeOK, Entries, Tails
<1>3. TailTasks' = {} /\ Loaded' = disk' /\ (tail = Clean => TailTasks = {})
  BY <1>1, <1>2, Loads, LineFacts DEF LoadedOf, Clean
<1>4. Doubtful' = {} /\ Doubtful = TailTasks \ unsure
  BY <1>3 DEF Doubtful
<1>5. QueueTypes'
  <2>1. tasks' \in Entries /\ disk' \in Entries
    BY <1>1, <1>2 DEF Entries
  <2>2. swallowed' \subseteq Tasks
    BY <1>1, <1>2 DEF TypeOK
  <2>. QED
    BY <1>1, <1>2, <2>1, <2>2 DEF QueueTypes, TypeOK
<1>6. \A s \in Tasks \ swallowed' : s \notin Doubtful /\ disk'[s] = tasks'[s]
  BY <1>1, <1>2, <1>3, <1>4 DEF FileTold, Entries
<1>7. FileTold'
  BY <1>3, <1>6 DEF FileTold
<1>. QED
  BY <1>1, <1>3, <1>4, <1>5, <1>6, <1>7

LEMMA ThrowsFacts ==
    ASSUME TypeOK, FileTold, up, up', NEW t \in Tasks, NEW record \in Task, RecordThrows(t, record)
    PROVE  /\ QueueTypes' /\ FileTold'
           /\ UNCHANGED <<tasks, disk>> /\ swallowed \subseteq swallowed'
           /\ TailTasks' \subseteq TailTasks \union {t}
           /\ \A s \in Tasks \ swallowed' :
                 /\ Loaded'[s] \in {Loaded[s], tasks[s]} \/ (s = t /\ Loaded'[s] = record)
                 /\ s \notin Doubtful' => s \notin Doubtful
           /\ (TornWrites = FALSE /\ tail = Clean) =>
                 tail' = Clean /\ swallowed' = swallowed /\ unsure' = unsure
<1>1. /\ UNCHANGED <<tasks, disk>> /\ faults < MaxFaults /\ faults' = faults + 1
      /\ \/ tail' = tail /\ swallowed' = swallowed
         \/ tail' = Fragment /\ swallowed' = swallowed \union (TailTasks \ unsure) /\ TornWrites = TRUE
         \/ /\ tail = Clean /\ tail' = Whole(t, record) /\ TornWrites = TRUE
            /\ swallowed' = swallowed \union (TailTasks \ unsure)
      /\ unsure' = unsure \union (IF tail' \notin {tail, Fragment} THEN {t} ELSE {})
  BY TaskAssumption DEF RecordThrows, TornTails
<1>2. tasks \in Entries /\ disk \in Entries /\ tail \in Tails /\ TailTasks \subseteq Tasks
  BY Loads, LineFacts DEF TypeOK, Entries
<1>3. /\ Whole(t, record) \in Tails /\ Fragment \in Tails /\ Whole(t, record) \notin {Clean, Fragment}
      /\ TasksOf(Whole(t, record)) = {t} /\ Whole(t, record).record = record
  BY DEF Whole, Tails, Clean, Fragment, TasksOf
<1>4. tail' \in Tails
  BY <1>1, <1>2, <1>3
<1>5. QueueTypes'
  <2>1. swallowed' \subseteq Tasks /\ unsure' \subseteq Tasks
    BY <1>1, <1>2 DEF TypeOK
  <2>2. faults' \in 0..MaxFaults
    BY <1>1, TaskAssumption DEF TypeOK
  <2>. QED
    BY <1>1, <1>2, <1>4, <2>1, <2>2 DEF QueueTypes
<1>6. /\ \A s \in Tasks : Loaded[s] = IF s \in TailTasks THEN tail.record ELSE disk[s]
      /\ \A s \in Tasks : Loaded'[s] = IF s \in TailTasks' THEN tail'.record ELSE disk'[s]
  BY <1>1, <1>2, <1>4, LoadFacts, Loads
<1>7. /\ tail' = Fragment => TailTasks' = {}
      /\ tail = Clean => TailTasks = {}
      /\ tail' = Whole(t, record) => TailTasks' = {t} /\ tail'.record = record
      /\ tail' = tail => TailTasks' = TailTasks
  BY <1>2, <1>3, LineFacts, Loads
<1>8. Doubtful = TailTasks \ unsure /\ Doubtful' = TailTasks' \ unsure'
  BY DEF Doubtful
<1>9. CASE tail' = tail
  <2>1. unsure' = unsure /\ TailTasks' = TailTasks /\ swallowed' = swallowed
    BY <1>1, <1>3, <1>7, <1>9
  <2>. QED
    BY <1>1, <1>5, <1>6, <1>8, <1>9, <2>1 DEF FileTold
<1>10. CASE tail' = Fragment /\ tail' # tail
  <2>1. unsure' = unsure /\ TailTasks' = {} /\ swallowed' = swallowed \union (TailTasks \ unsure)
        /\ TornWrites
    BY <1>1, <1>3, <1>7, <1>10
  <2>. QED
    BY <1>1, <1>5, <1>6, <1>8, <1>10, <2>1 DEF FileTold
<1>11. CASE tail = Clean /\ tail' = Whole(t, record)
  <2>1. /\ unsure' = unsure \union {t} /\ TailTasks' = {t} /\ TailTasks = {} /\ tail'.record = record
        /\ swallowed' = swallowed /\ TornWrites
    BY <1>1, <1>3, <1>7, <1>11
  <2>. QED
    BY <1>1, <1>5, <1>6, <1>8, <1>11, <2>1 DEF FileTold
<1>. QED
  BY <1>1, <1>9, <1>10, <1>11

(* Who may believe in a lease on task t.                                   *)
Believes(w, t) == Executes(w, t) /\ job[w].until > 0

LEMMA OneLiveLeaseAgain ==
    ASSUME TypeOK
    PROVE  OneLiveLease <=> \A v, w \in Workers, t \in Tasks \ swallowed :
              Believes(v, t) /\ Believes(w, t) => v = w
<1>1. \A w \in Workers : job[w] # NoJob => job[w].task \in Tasks /\ job[w].until \in Nat
  BY TaskAssumption DEF TypeOK, Job, Tasks
<1>2. NoJob.until = 0
  BY DEF NoJob
<1>. QED
  BY <1>1, <1>2 DEF OneLiveLease, Believes, Executes

LEMMA OneLiveLeaseNext ==
    ASSUME TypeOK'
    PROVE  OneLiveLease' <=> \A v, w \in Workers, t \in Tasks \ swallowed' :
              Believes(v, t)' /\ Believes(w, t)' => v = w
<1>1. \A w \in Workers : job'[w] # NoJob => job'[w].task \in Tasks /\ job'[w].until \in Nat
  BY TaskAssumption DEF TypeOK, Job, Tasks
<1>2. NoJob.until = 0
  BY DEF NoJob
<1>. QED
  BY <1>1, <1>2 DEF OneLiveLease, Believes, Executes

(* What a step that records one event has to show about the executions of  *)
(* its task.                                                               *)
LEMMA RecordedKeeps ==
    ASSUME IInv, TypeOK', up, up', NEW t \in Tasks, NEW record \in Task, Recorded(t, record),
           \A w \in Workers, s \in Tasks \ {t} : Executes(w, s)' => job'[w] = job[w],
           t \notin swallowed =>
               \A w \in Workers : Executes(w, t)' => Matches(w, job'[w].attempt, record),
           (\A w \in Workers : Executes(w, t) => Holds(w, job[w].until, tasks[t])) =>
               /\ \A w \in Workers : Executes(w, t)' => Holds(w, job'[w].until, record)
               /\ \/ record.status \notin Finished
                  \/ \A w \in Workers : Executes(w, t)' => job'[w] = job[w]
    PROVE  FileTold' /\ AttemptsMatch' /\ LeasesHeld' /\ OneLiveLease'
<1>1. /\ FileTold' /\ tail' = Clean /\ Doubtful' = {} /\ Loaded' = disk'
      /\ tasks' = [tasks EXCEPT ![t] = record] /\ swallowed \subseteq swallowed'
      /\ \A s \in Tasks \ swallowed' : s \notin Doubtful /\ disk'[s] = tasks'[s]
  BY RecordedFacts DEF IInv
<1>2. tasks \in Entries /\ tasks'[t] = record /\ \A s \in Tasks \ {t} : tasks'[s] = tasks[s]
  BY <1>1 DEF IInv, TypeOK, Entries
<1>3. AttemptsMatch'
  <2>. SUFFICES ASSUME NEW w \in Workers, NEW s \in Tasks \ swallowed', Executes(w, s)'
                PROVE  Matches(w, job'[w].attempt, tasks'[s]) /\ Loaded'[s] = tasks'[s]
    BY DEF AttemptsMatch
  <2>1. Loaded'[s] = tasks'[s]
    BY <1>1
  <2>2. CASE s = t
    BY <1>1, <1>2, <2>1, <2>2
  <2>3. CASE s # t
    <3>1. job'[w] = job[w] /\ Executes(w, s) /\ tasks'[s] = tasks[s] /\ s \notin swallowed
      BY <1>1, <1>2, <2>3 DEF Executes
    <3>2. Matches(w, job[w].attempt, tasks[s])
      BY <3>1 DEF IInv, AttemptsMatch
    <3>. QED
      BY <2>1, <3>1, <3>2
  <2>. QED
    BY <2>2, <2>3
<1>4. \A s \in Tasks \ swallowed', w \in Workers :
         Executes(w, s) => Holds(w, job[w].until, tasks[s])
  BY <1>1 DEF IInv, LeasesHeld, Truth
<1>5. \A s \in Tasks \ swallowed', w \in Workers :
         Executes(w, s)' => Holds(w, job'[w].until, tasks'[s])
  BY <1>2, <1>4 DEF Executes
<1>6. LeasesHeld'
  BY <1>1, <1>5 DEF LeasesHeld, Truth
<1>7. OneLiveLease'
  <2>1. OneLiveLease <=> \A v, w \in Workers, s \in Tasks \ swallowed :
           Believes(v, s) /\ Believes(w, s) => v = w
    BY OneLiveLeaseAgain DEF IInv
  <2>. SUFFICES ASSUME NEW v \in Workers, NEW w \in Workers, NEW s \in Tasks \ swallowed',
                       Believes(v, s)', Believes(w, s)'
                PROVE  v = w
    BY OneLiveLeaseNext
  <2>2. CASE job'[v] = job[v] /\ job'[w] = job[w]
    BY <1>1, <2>1, <2>2 DEF IInv, Believes, Executes
  <2>3. CASE ~(job'[v] = job[v] /\ job'[w] = job[w])
    <3>1. s = t /\ record.status \notin Finished
      BY <1>4, <2>3 DEF Believes
    <3>2. Holds(v, job'[v].until, record) /\ Holds(w, job'[w].until, record)
      BY <1>2, <1>5, <3>1 DEF Believes
    <3>. QED
      BY <3>1, <3>2 DEF Holds, Believes
  <2>. QED
    BY <2>2, <2>3
<1>. QED
  BY <1>1, <1>3, <1>6, <1>7

(* An append that throws may end executions and leave a line.              *)
LEMMA ThrowsKeeps ==
    ASSUME IInv, TypeOK', up, up', NEW t \in Tasks, NEW record \in Task, RecordThrows(t, record),
           \A w \in Workers : job'[w] \in {job[w], NoJob},
           t \notin swallowed =>
               \A w \in Workers : Executes(w, t) => Matches(w, job[w].attempt, record)
    PROVE  FileTold' /\ AttemptsMatch' /\ LeasesHeld' /\ OneLiveLease'
<1>1. /\ FileTold' /\ UNCHANGED <<tasks, disk>> /\ swallowed \subseteq swallowed'
      /\ \A s \in Tasks \ swallowed' :
            /\ Loaded'[s] \in {Loaded[s], tasks[s]} \/ (s = t /\ Loaded'[s] = record)
            /\ s \notin Doubtful' => s \notin Doubtful
  BY ThrowsFacts DEF IInv
<1>2. \A w \in Workers, s \in Tasks : Executes(w, s)' => Executes(w, s) /\ job'[w] = job[w]
  BY DEF Executes
<1>3. AttemptsMatch'
  <2>. SUFFICES ASSUME NEW w \in Workers, NEW s \in Tasks \ swallowed', Executes(w, s)'
                PROVE  /\ Matches(w, job[w].attempt, tasks[s])
                       /\ Matches(w, job[w].attempt, Loaded'[s])
    BY <1>1, <1>2 DEF AttemptsMatch
  <2>1. Executes(w, s) /\ s \notin swallowed
    BY <1>1, <1>2
  <2>2. Matches(w, job[w].attempt, tasks[s]) /\ Matches(w, job[w].attempt, Loaded[s])
    BY <2>1 DEF IInv, AttemptsMatch
  <2>. QED
    BY <1>1, <2>1, <2>2
<1>4. LeasesHeld'
  BY <1>1, <1>2 DEF IInv, LeasesHeld, Truth
<1>5. OneLiveLease'
  <2>1. OneLiveLease <=> \A v, w \in Workers, s \in Tasks \ swallowed :
           Believes(v, s) /\ Believes(w, s) => v = w
    BY OneLiveLeaseAgain DEF IInv
  <2>2. \A w \in Workers, s \in Tasks : Believes(w, s)' => Believes(w, s)
    BY <1>2 DEF Believes
  <2>. QED
    BY <1>1, <2>1, <2>2, OneLiveLeaseNext DEF IInv
<1>. QED
  BY <1>1, <1>3, <1>4, <1>5

-----------------------------------------------------------------------------
(* What every recording action shares                                      *)

OtherTypes ==
    /\ call \in Calls /\ job \in [Workers -> Job \union {NoJob}]
    /\ enqueued \in 0..MaxTasks /\ crashes \in 0..MaxCrashes

LEMMA TypesNext == QueueTypes' /\ OtherTypes' <=> TypeOK'
BY DEF QueueTypes, OtherTypes, TypeOK, Entries

LEMMA TypesNow == QueueTypes /\ OtherTypes <=> TypeOK
BY DEF QueueTypes, OtherTypes, TypeOK, Entries

LEMMA IdsKept ==
    ASSUME TypeOK, FileTold, NewIds, up, up', NEW t \in Tasks, NEW record \in Task,
           Recorded(t, record) \/ RecordThrows(t, record),
           enqueued' \in Nat, enqueued <= enqueued', t <= enqueued'
    PROVE  NewIds'
<1>0. t \in Nat /\ enqueued \in Nat /\ tasks \in Entries /\ disk \in Entries
      /\ TailTasks \subseteq Tasks /\ Tasks \subseteq Nat
  BY TaskAssumption, Loads, LineFacts DEF TypeOK, Tasks, Entries
<1>1. CASE Recorded(t, record)
  <2>1. /\ TailTasks' = {} /\ tasks' = [tasks EXCEPT ![t] = record]
        /\ disk' \in {disk, [disk EXCEPT ![t] = record]}
    BY <1>1, RecordedFacts
  <2>. QED
    BY <1>0, <2>1 DEF NewIds, Entries
<1>2. CASE RecordThrows(t, record)
  <2>1. UNCHANGED <<tasks, disk>> /\ TailTasks' \subseteq TailTasks \union {t}
    BY <1>2, ThrowsFacts
  <2>. QED
    BY <1>0, <2>1 DEF NewIds
<1>. QED
  BY <1>1, <1>2

(* A task with a status has been enqueued.                                 *)
LEMMA Known0 ==
    ASSUME IInv, NEW t \in Tasks, tasks[t].status # "none"
    PROVE  tasks[t] \in Task /\ t <= enqueued
<1>1. tasks[t] \in Task \union {NoTask}
  BY DEF IInv, TypeOK
<1>2. t \in Nat /\ enqueued \in Nat
  BY TaskAssumption DEF IInv, TypeOK, Tasks
<1>. QED
  BY <1>1, <1>2, NoTaskFacts DEF IInv, NewIds

LEMMA JobFacts ==
    ASSUME IInv, NEW w \in Workers, job[w] # NoJob
    PROVE  /\ job[w] \in Job /\ job[w].task \in Tasks /\ Executes(w, job[w].task)
           /\ \A s \in Tasks : Executes(w, s) => s = job[w].task
BY DEF IInv, TypeOK, Job, Tasks, Executes

(* Steps that leave the queue alone and start nothing.                     *)
LEMMA QuietKeeps ==
    ASSUME IInv, OtherTypes', CallSound',
           UNCHANGED <<up, tasks, disk, tail, enqueued, faults, swallowed, unsure>>,
           \A w \in Workers : job'[w] \in {job[w], NoJob}
    PROVE  IInv'
<1>1. TypeOK'
  BY TypesNext DEF IInv, TypeOK, QueueTypes, Entries
<1>2. /\ Loaded' = Loaded /\ TailTasks' = TailTasks /\ Doubtful' = Doubtful
      /\ \A t \in Tasks : Truth(t)' = Truth(t)
  BY Loads DEF Loaded, TailTasks, Doubtful, Truth
<1>3. \A w \in Workers, s \in Tasks : Executes(w, s)' => Executes(w, s) /\ job'[w] = job[w]
  BY DEF Executes
<1>4. FileTold' /\ NewIds'
  BY <1>2 DEF IInv, FileTold, NewIds
<1>5. AttemptsMatch' /\ LeasesHeld'
  BY <1>2, <1>3 DEF IInv, AttemptsMatch, LeasesHeld
<1>6. OneLiveLease'
  <2>1. OneLiveLease <=> \A v, w \in Workers, s \in Tasks \ swallowed :
           Believes(v, s) /\ Believes(w, s) => v = w
    BY OneLiveLeaseAgain DEF IInv
  <2>2. \A w \in Workers, s \in Tasks : Believes(w, s)' => Believes(w, s)
    BY <1>3 DEF Believes
  <2>. QED
    BY <1>1, <2>1, <2>2, OneLiveLeaseNext DEF IInv
<1>. QED
  BY <1>1, <1>4, <1>5, <1>6 DEF IInv

LEMMA NoneFacts ==
    /\ NoCall \in Calls /\ NoCall.op = "none" /\ NoCall.worker = Nobody
    /\ \A w \in Workers : [op |-> "fail", worker |-> w, cursor |-> 0] \in Calls
    /\ \A w \in Workers \union {Nobody} : [op |-> "sweep", worker |-> w, cursor |-> 0] \in Calls
BY TaskAssumption DEF NoCall, Calls

LEMMA RecoverCallKeeps == ASSUME IInv, RecoverCall PROVE IInv'
<1>1. OtherTypes'
  BY NoneFacts DEF RecoverCall, IInv, TypeOK, OtherTypes
<1>2. CallSound'
  BY TaskAssumption DEF RecoverCall, Ready, CallSound
<1>. QED
  BY <1>1, <1>2, QuietKeeps DEF RecoverCall

LEMMA ClaimCallKeeps == ASSUME IInv, NEW w \in Workers, ClaimCall(w) PROVE IInv'
<1>1. OtherTypes'
  BY NoneFacts DEF ClaimCall, IInv, TypeOK, OtherTypes
<1>2. CallSound'
  BY DEF ClaimCall, Ready, CallSound
<1>. QED
  BY <1>1, <1>2, QuietKeeps DEF ClaimCall

LEMMA ExecutionFailsKeeps == ASSUME IInv, NEW w \in Workers, ExecutionFails(w) PROVE IInv'
<1>1. OtherTypes'
  BY NoneFacts DEF ExecutionFails, IInv, TypeOK, OtherTypes
<1>2. CallSound'
  BY DEF ExecutionFails, Ready, CallSound
<1>. QED
  BY <1>1, <1>2, QuietKeeps DEF ExecutionFails

LEMMA LateAnswerKeeps == ASSUME IInv, NEW w \in Workers, LateAnswer(w) PROVE IInv'
<1>1. OtherTypes'
  BY DEF LateAnswer, IInv, TypeOK, OtherTypes
<1>2. CallSound'
  BY NoneFacts DEF LateAnswer, Ready, CallSound
<1>3. \A v \in Workers : job'[v] \in {job[v], NoJob}
  BY DEF LateAnswer, IInv, TypeOK
<1>. QED
  BY <1>1, <1>2, <1>3, QuietKeeps DEF LateAnswer

LEMMA SweepDoneKeeps == ASSUME IInv, SweepDone PROVE IInv'
<1>1. OtherTypes'
  BY NoneFacts DEF SweepDone, IInv, TypeOK, OtherTypes
<1>2. CallSound'
  BY NoneFacts DEF SweepDone, CallSound
<1>. QED
  BY <1>1, <1>2, QuietKeeps DEF SweepDone

LEMMA WorkerDiesKeeps == ASSUME IInv, NEW w \in Workers, WorkerDies(w) PROVE IInv'
<1>1. OtherTypes'
  BY DEF WorkerDies, IInv, TypeOK, OtherTypes
<1>2. CallSound'
  BY DEF WorkerDies, CallSound, IInv, TypeOK
<1>3. \A v \in Workers : job'[v] \in {job[v], NoJob}
  BY DEF WorkerDies, IInv, TypeOK
<1>. QED
  BY <1>1, <1>2, <1>3, QuietKeeps DEF WorkerDies

-----------------------------------------------------------------------------
(* The actions that record one event                                       *)

LEMMA EnqueueKeeps == ASSUME IInv, Enqueue PROVE IInv'
<1>1. PICK p \in Priorities, n \in AttemptLimits :
         \/ Recorded(enqueued + 1, NewTask(p, n)) \/ RecordThrows(enqueued + 1, NewTask(p, n))
  BY DEF Enqueue
<1>. DEFINE t == enqueued + 1
            record == NewTask(p, n)
<1>2. /\ up /\ up' /\ call = NoCall /\ enqueued' = t /\ UNCHANGED <<call, job, crashes>>
      /\ t \in Tasks /\ t \in Nat /\ t > enqueued
  BY TaskAssumption DEF Enqueue, Ready, IInv, TypeOK, Tasks
<1>3. tasks[t] = NoTask /\ record \in Task /\ record.status = "queued"
  BY <1>2, NewTaskFacts DEF IInv, NewIds
<1>4. Recorded(t, record) \/ RecordThrows(t, record)
  BY <1>1
<1>. HIDE DEF t, record
<1>5. TypeOK'
  <2>1. QueueTypes'
    BY <1>2, <1>3, <1>4, RecordedFacts, ThrowsFacts DEF IInv
  <2>2. OtherTypes'
    BY <1>2, TaskAssumption DEF IInv, TypeOK, OtherTypes, Tasks
  <2>. QED
    BY <2>1, <2>2, TypesNext
<1>6. NewIds'
  BY <1>2, <1>3, <1>4, IdsKept, TaskAssumption DEF IInv, TypeOK
<1>7. CallSound'
  BY <1>2 DEF IInv, CallSound
<1>8. FileTold' /\ AttemptsMatch' /\ LeasesHeld' /\ OneLiveLease'
  <2>0. /\ \A w \in Workers : Matches(w, job[w].attempt, record)
        /\ \A w \in Workers : Holds(w, job[w].until, NoTask) => Holds(w, job[w].until, record)
    BY <1>3, NoTaskFacts DEF Matches, Holds, Finished
  <2>1. CASE Recorded(t, record)
    <3>1. \A w \in Workers, s \in Tasks : Executes(w, s)' <=> Executes(w, s)
      BY <1>2 DEF Executes
    <3>. QED
      BY <1>2, <1>3, <1>5, <2>0, <2>1, <3>1, RecordedKeeps
  <2>2. CASE RecordThrows(t, record)
    BY <1>2, <1>3, <1>5, <2>0, <2>2, ThrowsKeeps
  <2>. QED
    BY <1>4, <2>1, <2>2
<1>. QED
  BY <1>5, <1>6, <1>7, <1>8 DEF IInv

(* The others record an event of a task that has been enqueued.            *)
LEMMA MoveTypes ==
    ASSUME IInv, up, up', NEW t \in Tasks, NEW record \in Task,
           Recorded(t, record) \/ RecordThrows(t, record), t <= enqueued,
           UNCHANGED <<enqueued, crashes>>, call' \in Calls,
           job' \in [Workers -> Job \union {NoJob}]
    PROVE  TypeOK' /\ NewIds'
<1>1. QueueTypes'
  BY RecordedFacts, ThrowsFacts DEF IInv
<1>2. OtherTypes'
  BY DEF IInv, TypeOK, OtherTypes
<1>3. NewIds'
  BY IdsKept, TaskAssumption DEF IInv, TypeOK
<1>. QED
  BY <1>1, <1>2, <1>3, TypesNext

LEMMA HeartbeatKeeps == ASSUME IInv, NEW w \in Workers, Heartbeat(w) PROVE IInv'
<1>0. /\ up /\ up' /\ call = NoCall /\ job[w] # NoJob /\ UNCHANGED <<up, call, enqueued, crashes>>
      /\ Owns(w, job[w].task)
      /\ \/ /\ Recorded(job[w].task, Renewed(tasks[job[w].task]))
            /\ job' = [job EXCEPT ![w].until = LeaseTicks]
         \/ RecordThrows(job[w].task, Renewed(tasks[job[w].task])) /\ UNCHANGED job
  BY DEF Heartbeat, Ready
<1>t. PICK t \in Tasks : t = job[w].task
  BY <1>0, JobFacts
<1>3. tasks[t] \in Task /\ t <= enqueued /\ tasks[t].status = "running" /\ tasks[t].worker = w
  BY <1>0, <1>t, Known0 DEF Owns
<1>r. PICK record \in Task : record = Renewed(tasks[t])
  BY <1>3, MoveFacts
<1>1. /\ up /\ up' /\ call = NoCall /\ job[w] # NoJob /\ UNCHANGED <<up, call, enqueued, crashes>>
      /\ tasks[t].status = "running" /\ tasks[t].worker = w
      /\ \/ Recorded(t, record) /\ job' = [job EXCEPT ![w].until = LeaseTicks]
         \/ RecordThrows(t, record) /\ UNCHANGED job
  BY <1>0, <1>t, <1>r, <1>3
<1>2. job[w] \in Job /\ Executes(w, t) /\ \A s \in Tasks : Executes(w, s) => s = t
  BY <1>1, <1>t, JobFacts
<1>4. /\ record \in Task /\ record.status = "running" /\ record.worker = w
      /\ record.attempt = tasks[t].attempt /\ record.lease = LeaseTicks
  BY <1>3, <1>r, MoveFacts
<1>5. /\ job' \in [Workers -> Job \union {NoJob}] /\ \A v \in Workers : v # w => job'[v] = job[v]
      /\ \A v \in Workers, s \in Tasks : Executes(v, s)' => Executes(v, s)
      /\ job'[w].attempt = job[w].attempt /\ job'[w].until <= LeaseTicks
  <2>1. CASE job' = job
    <3>1. job[w].until <= LeaseTicks
      BY <1>2, TaskAssumption DEF Job
    <3>. QED
      BY <2>1, <3>1 DEF IInv, TypeOK, Executes
  <2>2. CASE job' = [job EXCEPT ![w].until = LeaseTicks]
    <3>1. /\ job'[w] = [job[w] EXCEPT !.until = LeaseTicks]
          /\ \A v \in Workers : v # w => job'[v] = job[v]
      BY <2>2 DEF IInv, TypeOK
    <3>2. /\ job'[w] \in Job /\ job'[w].attempt = job[w].attempt /\ job'[w].task = job[w].task
          /\ job'[w].until = LeaseTicks
      BY <1>2, <3>1, TaskAssumption DEF Job
    <3>3. job' \in [Workers -> Job \union {NoJob}]
      BY <2>2, <3>2 DEF IInv, TypeOK
    <3>4. \A v \in Workers, s \in Tasks : Executes(v, s)' => Executes(v, s)
      BY <1>1, <3>1, <3>2 DEF Executes
    <3>5. LeaseTicks <= LeaseTicks
      BY TaskAssumption
    <3>. QED
      BY <3>1, <3>2, <3>3, <3>4, <3>5
  <2>. QED
    BY <1>1, <2>1, <2>2
<1>6. TypeOK' /\ NewIds'
  BY <1>1, <1>2, <1>3, <1>4, <1>5, MoveTypes DEF IInv, TypeOK
<1>7. CallSound'
  BY <1>1, NoneFacts DEF CallSound
<1>8. FileTold' /\ AttemptsMatch' /\ LeasesHeld' /\ OneLiveLease'
  <2>1. CASE Recorded(t, record) /\ job' = [job EXCEPT ![w].until = LeaseTicks]
    <3>1. \A v \in Workers, s \in Tasks \ {t} : Executes(v, s)' => job'[v] = job[v]
      BY <1>2, <1>5
    <3>2. ASSUME t \notin swallowed
          PROVE  \A v \in Workers : Executes(v, t)' => Matches(v, job'[v].attempt, record)
      <4>1. \A v \in Workers : Executes(v, t) => Matches(v, job[v].attempt, tasks[t])
        BY <1>1, <1>2, <3>2 DEF IInv, AttemptsMatch
      <4>. QED
        BY <1>1, <1>2, <1>4, <1>5, <4>1 DEF Matches
    <3>3. ASSUME \A v \in Workers : Executes(v, t) => Holds(v, job[v].until, tasks[t])
          PROVE  \A v \in Workers : Executes(v, t)' => Holds(v, job'[v].until, record)
      <4>. SUFFICES ASSUME NEW v \in Workers, Executes(v, t)'
                    PROVE  Holds(v, job'[v].until, record)
        OBVIOUS
      <4>1. CASE v = w
        BY <1>4, <1>5, <4>1 DEF Holds
      <4>2. CASE v # w
        <5>1. Holds(v, job[v].until, tasks[t]) /\ job'[v] = job[v]
          BY <1>2, <1>5, <3>3, <4>2
        <5>. QED
          BY <1>1, <4>2, <5>1 DEF Holds, Finished
      <4>. QED
        BY <4>1, <4>2
    <3>4. record.status \notin Finished
      BY <1>4 DEF Finished
    <3>. QED
      <4>1. (\A v \in Workers : Executes(v, t) => Holds(v, job[v].until, tasks[t])) =>
               /\ \A v \in Workers : Executes(v, t)' => Holds(v, job'[v].until, record)
               /\ \/ record.status \notin Finished
                  \/ \A v \in Workers : Executes(v, t)' => job'[v] = job[v]
        BY <3>3, <3>4
      <4>. QED
        BY <1>1, <1>2, <1>4, <1>6, <2>1, <3>1, <3>2, <4>1, RecordedKeeps
  <2>2. CASE RecordThrows(t, record) /\ UNCHANGED job
    <3>1. ASSUME t \notin swallowed
          PROVE  \A v \in Workers : Executes(v, t) => Matches(v, job[v].attempt, record)
      <4>1. \A v \in Workers : Executes(v, t) => Matches(v, job[v].attempt, tasks[t])
        BY <1>1, <1>2, <3>1 DEF IInv, AttemptsMatch
      <4>. QED
        BY <1>1, <1>4, <4>1 DEF Matches
    <3>. QED
      BY <1>1, <1>2, <1>4, <1>6, <2>2, <3>1, ThrowsKeeps
  <2>. QED
    BY <1>1, <2>1, <2>2
<1>. QED
  BY <1>6, <1>7, <1>8 DEF IInv

(* A task that stops running, for good or because nobody holds it.         *)
LEMMA EndKeeps ==
    ASSUME IInv, TypeOK', up, up', NEW t \in Tasks, NEW record \in Task,
           Recorded(t, record) \/ RecordThrows(t, record),
           \A w \in Workers : job'[w] \in {job[w], NoJob},
           record.status # "running",
           \/ record.status \in Finished
           \/ \A w \in Workers : Executes(w, t)' /\ Holds(w, job[w].until, tasks[t]) =>
                 ~(job[w].until > 0)
    PROVE  FileTold' /\ AttemptsMatch' /\ LeasesHeld' /\ OneLiveLease'
<1>1. \A w \in Workers, s \in Tasks : Executes(w, s)' => Executes(w, s) /\ job'[w] = job[w]
  BY DEF Executes
<1>2. \A w \in Workers : /\ Matches(w, job[w].attempt, record)
                         /\ Matches(w, job'[w].attempt, record)
  BY DEF Matches
<1>3. CASE Recorded(t, record)
  <2>1. ASSUME \A w \in Workers : Executes(w, t) => Holds(w, job[w].until, tasks[t])
        PROVE  \A w \in Workers : Executes(w, t)' => Holds(w, job'[w].until, record)
    BY <1>1, <2>1 DEF Holds
  <2>2. (\A w \in Workers : Executes(w, t) => Holds(w, job[w].until, tasks[t])) =>
           /\ \A w \in Workers : Executes(w, t)' => Holds(w, job'[w].until, record)
           /\ \/ record.status \notin Finished
              \/ \A w \in Workers : Executes(w, t)' => job'[w] = job[w]
    BY <1>1, <2>1
  <2>3. \A w \in Workers, s \in Tasks \ {t} : Executes(w, s)' => job'[w] = job[w]
    BY <1>1
  <2>4. t \notin swallowed => \A w \in Workers : Executes(w, t)' => Matches(w, job'[w].attempt, record)
    BY <1>2
  <2>. QED
    BY <1>3, <2>2, <2>3, <2>4, RecordedKeeps
<1>4. CASE RecordThrows(t, record)
  BY <1>2, <1>4, ThrowsKeeps
<1>. QED
  BY <1>3, <1>4

LEMMA CancelKeeps == ASSUME IInv, NEW t \in Tasks, Cancel(t) PROVE IInv'
<1>1. /\ up /\ up' /\ call = NoCall /\ UNCHANGED <<call, job, enqueued, crashes>>
      /\ tasks[t].status \in {"queued", "running"}
      /\ Recorded(t, Cancelled(tasks[t])) \/ RecordThrows(t, Cancelled(tasks[t]))
  BY DEF Cancel, Ready, ControlTaskStatus, Finished
<1>2. tasks[t] \in Task /\ t <= enqueued
  BY <1>1, Known0
<1>3. PICK record \in Task : record = Cancelled(tasks[t])
  BY <1>2, MoveFacts
<1>4. (Recorded(t, record) \/ RecordThrows(t, record)) /\ record.status = "cancelled"
  BY <1>1, <1>2, <1>3, MoveFacts
<1>5. TypeOK' /\ NewIds'
  BY <1>1, <1>2, <1>4, MoveTypes DEF IInv, TypeOK
<1>6. CallSound'
  BY <1>1 DEF IInv, CallSound
<1>7. FileTold' /\ AttemptsMatch' /\ LeasesHeld' /\ OneLiveLease'
  BY <1>1, <1>4, <1>5, EndKeeps DEF Finished
<1>. QED
  BY <1>5, <1>6, <1>7 DEF IInv

LEMMA CompleteKeeps == ASSUME IInv, NEW w \in Workers, Complete(w) PROVE IInv'
<1>0. /\ up /\ up' /\ call = NoCall /\ job[w] # NoJob /\ UNCHANGED <<up, enqueued, crashes>>
      /\ Owns(w, job[w].task)
      /\ \/ /\ Recorded(job[w].task, Succeeded(tasks[job[w].task]))
            /\ job' = [job EXCEPT ![w] = NoJob] /\ UNCHANGED call
         \/ /\ RecordThrows(job[w].task, Succeeded(tasks[job[w].task])) /\ UNCHANGED job
            /\ call' = [op |-> "fail", worker |-> w, cursor |-> 0]
  BY DEF Complete, Ready
<1>1. PICK t \in Tasks : t = job[w].task
  BY <1>0, JobFacts
<1>2. tasks[t] \in Task /\ t <= enqueued
  BY <1>0, <1>1, Known0 DEF Owns
<1>3. PICK record \in Task : record = Succeeded(tasks[t])
  BY <1>2, MoveFacts
<1>4. (Recorded(t, record) \/ RecordThrows(t, record)) /\ record.status = "succeeded"
  BY <1>0, <1>1, <1>2, <1>3, MoveFacts
<1>5. /\ job' \in [Workers -> Job \union {NoJob}] /\ \A v \in Workers : job'[v] \in {job[v], NoJob}
      /\ call' \in Calls /\ CallSound'
  BY <1>0, NoneFacts DEF IInv, TypeOK, CallSound
<1>6. TypeOK' /\ NewIds'
  BY <1>0, <1>2, <1>4, <1>5, MoveTypes
<1>7. FileTold' /\ AttemptsMatch' /\ LeasesHeld' /\ OneLiveLease'
  BY <1>0, <1>4, <1>5, <1>6, EndKeeps DEF Finished
<1>. QED
  BY <1>5, <1>6, <1>7 DEF IInv

LEMMA FailKeeps == ASSUME IInv, NEW w \in Workers, Fail(w) PROVE IInv'
<1>0. /\ up /\ up' /\ call.op = "fail" /\ call.worker = w /\ job[w] # NoJob
      /\ UNCHANGED <<up, enqueued, crashes>>
      /\ job' = [job EXCEPT ![w] = NoJob] /\ call' = NoCall
  BY DEF Fail, IInv, CallSound
<1>1. PICK t \in Tasks : t = job[w].task
  BY <1>0, JobFacts
<1>2. /\ job' \in [Workers -> Job \union {NoJob}] /\ \A v \in Workers : job'[v] \in {job[v], NoJob}
      /\ call' \in Calls /\ CallSound' /\ job'[w] = NoJob
  BY <1>0, NoneFacts DEF IInv, TypeOK, CallSound
<1>3. CASE ~Owns(w, t)
  <2>1. OtherTypes' /\ UNCHANGED <<tasks, disk, tail, faults, swallowed, unsure>>
    BY <1>0, <1>1, <1>2, <1>3 DEF Fail, IInv, TypeOK, OtherTypes
  <2>. QED
    BY <1>0, <1>2, <2>1, QuietKeeps
<1>4. CASE Owns(w, t)
  <2>1. /\ tasks[t].status = "running" /\ tasks[t].worker = w
        /\ Recorded(t, Retried(tasks[t])) \/ RecordThrows(t, Retried(tasks[t]))
    BY <1>0, <1>1, <1>4 DEF Owns, Fail
  <2>2. tasks[t] \in Task /\ t <= enqueued
    BY <2>1, Known0
  <2>3. PICK record \in Task : record = Retried(tasks[t])
    BY <2>2, MoveFacts
  <2>4. (Recorded(t, record) \/ RecordThrows(t, record)) /\ record.status # "running"
    BY <2>1, <2>2, <2>3, MoveFacts
  <2>5. TypeOK' /\ NewIds'
    BY <1>0, <1>2, <2>2, <2>4, MoveTypes
  <2>6. \A v \in Workers : Executes(v, t)' /\ Holds(v, job[v].until, tasks[t]) => ~(job[v].until > 0)
    BY <1>2, <2>1 DEF Executes, Holds, Finished
  <2>7. FileTold' /\ AttemptsMatch' /\ LeasesHeld' /\ OneLiveLease'
    BY <1>0, <1>2, <2>4, <2>5, <2>6, EndKeeps
  <2>. QED
    BY <1>2, <2>5, <2>7 DEF IInv
<1>. QED
  BY <1>3, <1>4

LEMMA SweepOneKeeps == ASSUME IInv, SweepOne PROVE IInv'
<1>1. PICK t \in Tasks :
         /\ Expired(t)
         /\ \/ Recorded(t, Retried(tasks[t])) /\ call' = [call EXCEPT !.cursor = t]
            \/ RecordThrows(t, Retried(tasks[t])) /\ call' = NoCall
  BY DEF SweepOne, SweepNext
<1>2. /\ up /\ up' /\ call.op = "sweep" /\ UNCHANGED <<up, job, enqueued, crashes>>
  BY DEF SweepOne
<1>3. tasks[t] \in Task /\ t <= enqueued
  BY <1>1, Known0 DEF Expired
<1>4. PICK record \in Task : record = Retried(tasks[t])
  BY <1>3, MoveFacts
<1>5. (Recorded(t, record) \/ RecordThrows(t, record)) /\ record.status # "running"
  BY <1>1, <1>3, <1>4, MoveFacts
<1>6. call' \in Calls /\ CallSound'
  <2>1. CASE call' = [call EXCEPT !.cursor = t]
    <3>1. call' \in Calls /\ call'.op = "sweep" /\ call'.worker = call.worker
      BY <1>2, <2>1 DEF IInv, TypeOK, Calls, Tasks
    <3>. QED
      BY <1>2, <3>1 DEF IInv, CallSound
  <2>2. CASE call' = NoCall
    BY <2>2, NoneFacts DEF CallSound
  <2>. QED
    BY <1>1, <2>1, <2>2
<1>7. TypeOK' /\ NewIds'
  BY <1>2, <1>3, <1>5, <1>6, MoveTypes DEF IInv, TypeOK
<1>8. \A v \in Workers : Executes(v, t)' /\ Holds(v, job[v].until, tasks[t]) => ~(job[v].until > 0)
  <2>. SUFFICES ASSUME NEW v \in Workers, Executes(v, t)', Holds(v, job[v].until, tasks[t]),
                       job[v].until > 0
                PROVE  FALSE
    OBVIOUS
  <2>1. job[v] \in Job
    BY <1>2 DEF Executes, IInv, TypeOK
  <2>2. job[v].until \in Nat
    BY <2>1, TaskAssumption DEF Job
  <2>. QED
    BY <1>1, <2>2 DEF Holds, Expired, Finished
<1>9. FileTold' /\ AttemptsMatch' /\ LeasesHeld' /\ OneLiveLease'
  BY <1>2, <1>5, <1>7, <1>8, EndKeeps
<1>. QED
  BY <1>6, <1>7, <1>9 DEF IInv

LEMMA ClaimTakeKeeps == ASSUME IInv, ClaimTake PROVE IInv'
<1>0. /\ up /\ up' /\ call.op = "sweep" /\ call' = NoCall /\ UNCHANGED <<up, enqueued, crashes>>
      /\ call.worker \in Workers /\ job[call.worker] = NoJob
  BY DEF ClaimTake, IInv, CallSound, TypeOK, Calls
<1>w. PICK w \in Workers : w = call.worker
  BY <1>0
<1>t. PICK t \in Tasks :
         /\ tasks[t].status = "queued"
         /\ \/ /\ Recorded(t, Claimed(tasks[t], w))
               /\ job' \in {job, [job EXCEPT ![w] = [task |-> t, attempt |-> tasks[t].attempt + 1,
                                                     until |-> LeaseTicks]]}
            \/ RecordThrows(t, Claimed(tasks[t], w)) /\ UNCHANGED job
  BY <1>w DEF ClaimTake, First
<1>2. tasks[t] \in Task /\ t <= enqueued
  BY <1>t, Known0
<1>3. PICK record \in Task : record = Claimed(tasks[t], w)
  BY <1>2, ClaimedFacts
<1>4. PICK new \in Job : /\ new = [task |-> t, attempt |-> tasks[t].attempt + 1, until |-> LeaseTicks]
                         /\ new.task = t /\ new.attempt = tasks[t].attempt + 1
                         /\ new.until = LeaseTicks
  <2>1. tasks[t].attempt + 1 \in Nat /\ t \in 1..MaxTasks /\ LeaseTicks \in 0..LeaseTicks
    BY <1>2, TaskAssumption DEF Task, Tasks
  <2>2. [task |-> t, attempt |-> tasks[t].attempt + 1, until |-> LeaseTicks] \in Job
    BY <2>1 DEF Job
  <2>. QED
    BY <2>2
<1>5. /\ record.status = "running" /\ record.worker = w /\ record.attempt = new.attempt
      /\ record.lease = LeaseTicks /\ job[w] = NoJob
  BY <1>0, <1>w, <1>2, <1>3, <1>4, ClaimedFacts
<1>6. \/ Recorded(t, record) /\ (job' = job \/ job' = [job EXCEPT ![w] = new])
      \/ RecordThrows(t, record) /\ job' = job
  BY <1>t, <1>3, <1>4
<1>7. /\ job' \in [Workers -> Job \union {NoJob}] /\ call' \in Calls /\ CallSound'
      /\ \A v \in Workers : v # w => job'[v] = job[v]
      /\ job'[w] \in {NoJob, new}
  BY <1>0, <1>5, <1>6, NoneFacts DEF IInv, TypeOK, CallSound
<1>8. TypeOK' /\ NewIds'
  BY <1>0, <1>2, <1>6, <1>7, MoveTypes
<1>9. \A v \in Workers : v # w => \A n : Matches(v, n, record)
  BY <1>5 DEF Matches
<1>10. CASE Recorded(t, record)
  <2>1. \A v \in Workers, s \in Tasks \ {t} : Executes(v, s)' => job'[v] = job[v]
    BY <1>4, <1>7 DEF Executes
  <2>2. \A v \in Workers : Executes(v, t)' => Matches(v, job'[v].attempt, record)
    BY <1>5, <1>7, <1>9 DEF Executes, Matches
  <2>3. ASSUME \A v \in Workers : Executes(v, t) => Holds(v, job[v].until, tasks[t])
        PROVE  \A v \in Workers : Executes(v, t)' => Holds(v, job'[v].until, record)
    <3>. SUFFICES ASSUME NEW v \in Workers, Executes(v, t)'
                  PROVE  Holds(v, job'[v].until, record)
      OBVIOUS
    <3>1. CASE v = w
      <4>1. job'[w] = new /\ new.until <= record.lease
        BY <1>4, <1>5, <1>7, <3>1, TaskAssumption DEF Executes
      <4>. QED
        BY <1>5, <3>1, <4>1 DEF Holds
    <3>2. CASE v # w
      <4>1. Holds(v, job[v].until, tasks[t]) /\ job'[v] = job[v]
        BY <1>7, <2>3, <3>2 DEF Executes
      <4>. QED
        BY <1>t, <4>1 DEF Holds, Finished
    <3>. QED
      BY <3>1, <3>2
  <2>4. (\A v \in Workers : Executes(v, t) => Holds(v, job[v].until, tasks[t])) =>
           /\ \A v \in Workers : Executes(v, t)' => Holds(v, job'[v].until, record)
           /\ \/ record.status \notin Finished
              \/ \A v \in Workers : Executes(v, t)' => job'[v] = job[v]
    BY <1>5, <2>3 DEF Finished
  <2>5. FileTold' /\ AttemptsMatch' /\ LeasesHeld' /\ OneLiveLease'
    BY <1>0, <1>8, <1>10, <2>1, <2>2, <2>4, RecordedKeeps
  <2>. QED
    BY <1>7, <1>8, <2>5 DEF IInv
<1>11. CASE RecordThrows(t, record) /\ job' = job
  <2>1. \A v \in Workers : Executes(v, t) => Matches(v, job[v].attempt, record)
    BY <1>5, <1>9 DEF Executes
  <2>2. FileTold' /\ AttemptsMatch' /\ LeasesHeld' /\ OneLiveLease'
    BY <1>0, <1>8, <1>11, <2>1, ThrowsKeeps
  <2>. QED
    BY <1>7, <1>8, <2>2 DEF IInv
<1>. QED
  BY <1>6, <1>10, <1>11

-----------------------------------------------------------------------------
(* Time                                                                    *)

LEMMA JobAges ==
    ASSUME IInv, Tick, NEW w \in Workers
    PROVE  /\ job'[w] \in Job \union {NoJob} /\ (job'[w] = NoJob <=> job[w] = NoJob)
           /\ job'[w].task = job[w].task /\ job'[w].attempt = job[w].attempt
           /\ job[w] # NoJob => job[w].until \in Nat /\ job'[w].until = Less(job[w].until)
<1>1. job'[w] = [job[w] EXCEPT !.until = Less(@)] /\ job[w] \in Job \union {NoJob}
  BY DEF Tick, IInv, TypeOK
<1>2. \A n \in 0..LeaseTicks : Less(n) \in 0..LeaseTicks /\ n \in Nat
  BY TaskAssumption DEF Less
<1>3. NoJob \notin Job
  BY TaskAssumption DEF NoJob, Job
<1>4. CASE job[w] \in Job
  BY <1>1, <1>2, <1>3, <1>4 DEF Job
<1>5. CASE job[w] = NoJob
  BY <1>1, <1>3, <1>5 DEF NoJob, Less
<1>. QED
  BY <1>1, <1>4, <1>5

LEMMA TickFacts ==
    ASSUME IInv, Tick
    PROVE  /\ TypeOK' /\ TailTasks' = TailTasks
           /\ UNCHANGED <<up, call, enqueued, faults, crashes, swallowed, unsure>>
           /\ \A s \in Tasks : /\ tasks'[s] = Aged(tasks[s]) /\ disk'[s] = Aged(disk[s])
                               /\ Loaded'[s] = Aged(Loaded[s])
           /\ \A s \in TailTasks : tail'.record = Aged(tail.record)
<1>1. /\ tasks' = [t \in Tasks |-> Aged(tasks[t])] /\ disk' = [t \in Tasks |-> Aged(disk[t])]
      /\ tail' = IF tail.line = "whole" THEN Whole(tail.task, Aged(tail.record)) ELSE tail
      /\ job' = [w \in Workers |-> [job[w] EXCEPT !.until = Less(@)]]
      /\ UNCHANGED <<up, call, enqueued, faults, crashes, swallowed, unsure>>
  BY DEF Tick
<1>2. tasks \in Entries /\ disk \in Entries /\ tail \in Tails
  BY DEF IInv, TypeOK, Entries
<1>3. tasks' \in Entries /\ disk' \in Entries
  BY <1>1, <1>2, AgedFacts DEF Entries
<1>4. /\ tail' \in Tails /\ TasksOf(tail') = TasksOf(tail)
      /\ \A s \in TasksOf(tail) : tail'.record = Aged(tail.record) /\ tail.record \in Task
  <2>1. CASE tail.line = "whole"
    <3>1. tail.task \in Tasks /\ tail.record \in Task /\ Aged(tail.record) \in Task
      BY <1>2, <2>1, LineFacts, AgedFacts
    <3>. QED
      BY <1>1, <2>1, <3>1 DEF Whole, Tails, TasksOf
  <2>2. CASE tail.line # "whole"
    BY <1>1, <1>2, <2>2 DEF TasksOf
  <2>. QED
    BY <2>1, <2>2
<1>5. TailTasks' = TailTasks /\ TailTasks = TasksOf(tail)
  BY <1>4, Loads
<1>6. \A s \in Tasks : Loaded'[s] = Aged(Loaded[s])
  <2>1. \A s \in Tasks : Loaded[s] = IF s \in TasksOf(tail) THEN tail.record ELSE disk[s]
    BY <1>2, LoadFacts, Loads
  <2>2. \A s \in Tasks : Loaded'[s] = IF s \in TasksOf(tail') THEN tail'.record ELSE disk'[s]
    BY <1>3, <1>4, LoadFacts, Loads
  <2>3. \A s \in Tasks : disk'[s] = Aged(disk[s])
    BY <1>1
  <2>. QED
    BY <1>4, <2>1, <2>2, <2>3
<1>7. job' \in [Workers -> Job \union {NoJob}]
  BY <1>1, JobAges
<1>8. TypeOK'
  BY <1>1, <1>3, <1>4, <1>7 DEF IInv, TypeOK, Entries
<1>. QED
  BY <1>1, <1>4, <1>5, <1>6, <1>8

LEMMA TickKeeps == ASSUME IInv, Tick PROVE IInv'
<1>1. /\ TypeOK' /\ TailTasks' = TailTasks
      /\ UNCHANGED <<up, call, enqueued, faults, crashes, swallowed, unsure>>
      /\ \A s \in Tasks : /\ tasks'[s] = Aged(tasks[s]) /\ disk'[s] = Aged(disk[s])
                          /\ Loaded'[s] = Aged(Loaded[s])
      /\ \A s \in TailTasks : tail'.record = Aged(tail.record)
  BY TickFacts
<1>2. \A w \in Workers : /\ job'[w] = NoJob <=> job[w] = NoJob
                         /\ job'[w].task = job[w].task /\ job'[w].attempt = job[w].attempt
                         /\ job[w] # NoJob => job[w].until \in Nat /\ job'[w].until = Less(job[w].until)
  BY JobAges
<1>3. \A w \in Workers, s \in Tasks : Executes(w, s)' <=> Executes(w, s)
  BY <1>2 DEF Executes
<1>4. Doubtful' = Doubtful /\ TailTasks \subseteq Tasks
  BY <1>1, Loads, LineFacts DEF Doubtful, IInv, TypeOK
<1>5. tasks \in Entries /\ disk \in Entries /\ Loaded \in Entries
  BY LoadFacts, Loads DEF IInv, TypeOK, Entries
<1>6. FileTold'
  BY <1>1, <1>4 DEF IInv, FileTold
<1>7. NewIds'
  <2>1. Aged(NoTask) = NoTask
    BY AgedFacts
  <2>2. \A s \in Tasks : s > enqueued' => tasks'[s] = NoTask /\ disk'[s] = NoTask
    BY <1>1, <2>1 DEF IInv, NewIds
  <2>3. ~up => tasks' = [s \in Tasks |-> NoTask]
    BY <1>1, <2>1 DEF IInv, NewIds, Tick
  <2>. QED
    BY <1>1, <2>2, <2>3 DEF IInv, NewIds
<1>8. CallSound'
  BY <1>1, <1>2 DEF IInv, CallSound
<1>9. \A task \in Task \union {NoTask}, w \in Workers :
         \A n : Matches(w, n, task) => Matches(w, n, Aged(task))
  BY AgedFacts DEF Matches
<1>10. AttemptsMatch'
  BY <1>1, <1>2, <1>3, <1>5, <1>9 DEF IInv, AttemptsMatch, Entries
<1>11. \A task \in Task \union {NoTask}, w \in Workers, n \in Nat :
          Holds(w, n, task) => Holds(w, Less(n), Aged(task))
  <2>. SUFFICES ASSUME NEW task \in Task \union {NoTask}, NEW w \in Workers, NEW n \in Nat,
                       Holds(w, n, task)
                PROVE  Holds(w, Less(n), Aged(task))
    OBVIOUS
  <2>1. task.lease \in Nat
    BY NoTaskFacts, TaskAssumption DEF Task
  <2>2. Less(n) > 0 => n > 0
    BY DEF Less
  <2>3. n <= task.lease => Less(n) <= Less(task.lease)
    BY <2>1 DEF Less
  <2>. QED
    BY <2>2, <2>3, AgedFacts DEF Holds
<1>12. LeasesHeld'
  <2>. SUFFICES ASSUME NEW w \in Workers, NEW s \in Tasks \ (swallowed \union Doubtful), Executes(w, s)
                PROVE  Holds(w, job'[w].until, Truth(s)')
    BY <1>1, <1>3, <1>4 DEF LeasesHeld
  <2>1. Holds(w, job[w].until, Truth(s)) /\ job[w].until \in Nat /\ job'[w].until = Less(job[w].until)
    BY <1>2 DEF IInv, LeasesHeld, Executes
  <2>2. Truth(s)' = Aged(Truth(s)) /\ Truth(s) \in Task \union {NoTask}
    BY <1>1, <1>5 DEF Truth, Entries
  <2>. QED
    BY <1>11, <2>1, <2>2
<1>13. OneLiveLease'
  <2>1. OneLiveLease <=> \A v, w \in Workers, s \in Tasks \ swallowed :
           Believes(v, s) /\ Believes(w, s) => v = w
    BY OneLiveLeaseAgain DEF IInv
  <2>2. \A w \in Workers, s \in Tasks : Believes(w, s)' => Believes(w, s)
    <3>1. \A n \in Nat : Less(n) > 0 => n > 0
      BY DEF Less
    <3>. QED
      BY <1>2, <1>3, <3>1 DEF Believes, Executes
  <2>. QED
    BY <1>1, <2>1, <2>2, OneLiveLeaseNext DEF IInv
<1>. QED
  BY <1>1, <1>6, <1>7, <1>8, <1>10, <1>12, <1>13 DEF IInv

-----------------------------------------------------------------------------
(* Crashes                                                                 *)

(* The line that a crash may leave is a move of an unfinished task.        *)
LEMMA LineBeingWritten ==
    ASSUME IInv, up, NEW line \in LinesBeingWritten, line[1] \in Tasks
    PROVE  /\ line[2] \in Task /\ tasks[line[1]].status \notin Finished
           /\ line[1] \notin swallowed =>
                 \A w \in Workers : Executes(w, line[1]) => Matches(w, job[w].attempt, line[2])
<1>. DEFINE Good(t, record) ==
        /\ record \in Task /\ tasks[t].status \notin Finished
        /\ t \notin swallowed =>
              \A w \in Workers : Executes(w, t) => Matches(w, job[w].attempt, record)
<1>0. \A t \in Tasks : tasks[t].status # "none" => tasks[t] \in Task
  BY Known0
<1>1. ASSUME NEW t \in Tasks, NEW w \in Workers, Owns(w, t)
      PROVE  /\ Good(t, Succeeded(tasks[t])) /\ Good(t, Renewed(tasks[t]))
             /\ Good(t, Retried(tasks[t]))
  <2>1. tasks[t] \in Task /\ tasks[t].status = "running"
    BY <1>0, <1>1 DEF Owns
  <2>2. t \notin swallowed =>
           \A v \in Workers : Executes(v, t) => Matches(v, job[v].attempt, tasks[t])
    BY DEF IInv, AttemptsMatch
  <2>. QED
    BY <2>1, <2>2, MoveFacts DEF Matches, Finished
<1>2. ASSUME NEW t \in Tasks, tasks[t].status \in {"queued", "running"}
      PROVE  Good(t, Cancelled(tasks[t]))
  BY <1>0, <1>2, MoveFacts DEF Matches, Finished
<1>3. ASSUME NEW t \in Tasks, Expired(t)
      PROVE  Good(t, Retried(tasks[t]))
  <2>1. tasks[t] \in Task /\ tasks[t].status = "running"
    BY <1>0, <1>3 DEF Expired
  <2>. QED
    BY <2>1, MoveFacts DEF Matches, Finished
<1>4. ASSUME NEW t \in Tasks, tasks[t].status = "queued", call.worker \in Workers,
             job[call.worker] = NoJob
      PROVE  Good(t, Claimed(tasks[t], call.worker))
  <2>1. tasks[t] \in Task
    BY <1>0, <1>4
  <2>. QED
    BY <1>4, <2>1, ClaimedFacts DEF Matches, Executes, Finished
<1>5. ASSUME enqueued + 1 \in Tasks, NEW p \in Priorities, NEW n \in AttemptLimits
      PROVE  Good(enqueued + 1, NewTask(p, n))
  <2>1. tasks[enqueued + 1] = NoTask
    BY <1>5, TaskAssumption DEF IInv, NewIds, TypeOK
  <2>. QED
    BY <2>1, NewTaskFacts, NoTaskFacts DEF Matches, Finished
<1>. HIDE DEF Good
<1>6. Good(line[1], line[2])
  <2>1. CASE call.op = "none"
    BY <1>1, <1>2, <1>5, <2>1 DEF LinesBeingWritten
  <2>2. CASE call.op = "fail"
    BY <1>1, <2>2 DEF LinesBeingWritten
  <2>3. CASE call.op = "sweep"
    <3>1. CASE \E t \in Tasks : SweepNext(t)
      BY <1>3, <2>3, <3>1 DEF LinesBeingWritten, SweepNext
    <3>2. CASE ~(\E t \in Tasks : SweepNext(t))
      <4>1. call.worker # Nobody
        BY <2>3, <3>2 DEF LinesBeingWritten
      <4>2. call.worker \in Workers /\ job[call.worker] = NoJob
        BY <2>3, <4>1 DEF IInv, TypeOK, Calls, CallSound
      <4>. QED
        BY <1>4, <2>3, <3>2, <4>1, <4>2 DEF LinesBeingWritten, First
    <3>. QED
      BY <3>1, <3>2
  <2>. QED
    BY <2>1, <2>2, <2>3 DEF IInv, TypeOK, Calls
<1>. QED
  BY <1>6 DEF Good

LEMMA CrashFacts ==
    ASSUME IInv, Crash
    PROVE  /\ up /\ up' = FALSE /\ TypeOK' /\ NewIds' /\ call' = NoCall
           /\ disk' = disk /\ swallowed \subseteq swallowed'
           /\ \A w \in Workers : job'[w] \in {job[w], NoJob}
           /\ \A s \in Tasks \ swallowed' :
                 /\ \/ Loaded'[s] \in {Loaded[s], tasks[s]}
                    \/ /\ tasks[s].status \notin Finished
                       /\ \A w \in Workers : Executes(w, s) => Matches(w, job[w].attempt, Loaded'[s])
                 /\ s \notin Doubtful' => s \notin Doubtful /\ disk[s] = tasks[s]
           /\ TornWrites = FALSE => tail' = tail /\ swallowed' = swallowed
<1>1. /\ up /\ up' = FALSE /\ crashes < MaxCrashes /\ crashes' = crashes + 1
      /\ tasks' = [t \in Tasks |-> NoTask] /\ call' = NoCall /\ UNCHANGED <<disk, faults, unsure>>
      /\ \E survivors \in SUBSET Workers :
            job' = [w \in Workers |-> IF w \in survivors THEN job[w] ELSE NoJob]
  BY DEF Crash
<1>2. /\ tasks \in Entries /\ disk \in Entries /\ tail \in Tails /\ TailTasks \subseteq Tasks
      /\ TailTasks = TasksOf(tail) /\ Tasks \subseteq Nat /\ enqueued \in Nat
  BY Loads, LineFacts, TaskAssumption DEF IInv, TypeOK, Entries, Tasks
<1>3. /\ job' \in [Workers -> Job \union {NoJob}] /\ \A w \in Workers : job'[w] \in {job[w], NoJob}
  BY <1>1 DEF IInv, TypeOK
<1>4. \/ UNCHANGED <<tail, swallowed, enqueued>>
      \/ \E t \in Tasks, record \in Task :
            /\ tasks[t].status \notin Finished
            /\ t \notin swallowed =>
                  \A w \in Workers : Executes(w, t) => Matches(w, job[w].attempt, record)
            /\ enqueued' = IF t > enqueued THEN t ELSE enqueued
            /\ tail' \in TornTails(t, record)
            /\ swallowed' = swallowed \union (IF tail' = tail THEN {} ELSE TailTasks \ unsure)
  <2>1. CASE UNCHANGED <<tail, swallowed, enqueued>>
    BY <2>1
  <2>2. CASE ~UNCHANGED <<tail, swallowed, enqueued>>
    <3>1. PICK line \in LinesBeingWritten :
             /\ line[1] \in Tasks
             /\ enqueued' = IF line[1] > enqueued THEN line[1] ELSE enqueued
             /\ tail' \in TornTails(line[1], line[2])
             /\ swallowed' = swallowed \union (IF tail' = tail THEN {} ELSE TailTasks \ unsure)
      BY <2>2 DEF Crash
    <3>. QED
      BY <1>1, <3>1, LineBeingWritten
  <2>. QED
    BY <2>1, <2>2
<1>5. \A t \in Tasks, record \in Task :
         /\ Whole(t, record) \in Tails /\ Whole(t, record) \notin {Clean, Fragment}
         /\ TasksOf(Whole(t, record)) = {t} /\ Whole(t, record).record = record
         /\ Fragment \in Tails
  BY DEF Whole, Tails, Clean, Fragment, TasksOf
<1>6. tail' \in Tails /\ enqueued' \in 0..MaxTasks /\ enqueued <= enqueued'
      /\ swallowed' \subseteq Tasks /\ swallowed \subseteq swallowed'
  <2>1. tail' \in Tails
    BY <1>2, <1>4, <1>5 DEF TornTails
  <2>2. enqueued' \in 0..MaxTasks /\ enqueued <= enqueued'
    BY <1>2, <1>4, TaskAssumption DEF IInv, TypeOK, Tasks
  <2>. QED
    BY <1>2, <1>4, <2>1, <2>2 DEF IInv, TypeOK
<1>7. TypeOK'
  <2>1. tasks' \in Entries
    BY <1>1 DEF Entries
  <2>2. crashes' \in 0..MaxCrashes
    BY <1>1, TaskAssumption DEF IInv, TypeOK
  <2>. QED
    BY <1>1, <1>2, <1>3, <1>6, <2>1, <2>2, NoneFacts DEF IInv, TypeOK, Entries
<1>8. /\ \A s \in Tasks : Loaded[s] = IF s \in TailTasks THEN tail.record ELSE disk[s]
      /\ \A s \in Tasks : Loaded'[s] = IF s \in TailTasks' THEN tail'.record ELSE disk'[s]
      /\ TailTasks' = TasksOf(tail')
  BY <1>1, <1>2, <1>6, LoadFacts, Loads
<1>9. /\ tail' = Fragment => TailTasks' = {}
      /\ tail = Clean => TailTasks = {}
      /\ tail' = tail => TailTasks' = TailTasks
  BY <1>2, <1>8, LineFacts
<1>10. Doubtful = TailTasks \ unsure /\ Doubtful' = TailTasks'
  BY <1>1 DEF Doubtful
<1>11. \A s \in Tasks \ swallowed : s \notin Doubtful => disk[s] = tasks[s]
  BY <1>1, <1>10 DEF IInv, FileTold
<1>12. NewIds'
  <2>1. \A s \in TailTasks' : s <= enqueued'
    <3>1. CASE UNCHANGED <<tail, swallowed, enqueued>>
      BY <1>9, <3>1 DEF IInv, NewIds
    <3>2. ASSUME NEW t \in Tasks, NEW record \in Task, tail' \in TornTails(t, record),
                 enqueued' = IF t > enqueued THEN t ELSE enqueued
          PROVE  \A s \in TailTasks' : s <= enqueued'
      <4>1. t <= enqueued' /\ \A s \in TailTasks : s <= enqueued'
        BY <1>2, <3>2 DEF IInv, NewIds
      <4>2. TailTasks' \subseteq TailTasks \union {t}
        BY <1>5, <1>8, <1>9, <3>2 DEF TornTails
      <4>. QED
        BY <4>1, <4>2
    <3>. QED
      BY <1>4, <3>1, <3>2
  <2>2. \A s \in Tasks : s > enqueued' => tasks'[s] = NoTask /\ disk'[s] = NoTask
    BY <1>1, <1>2, <1>6, TaskAssumption DEF IInv, NewIds
  <2>. QED
    BY <1>1, <2>1, <2>2 DEF NewIds
<1>13. \A s \in Tasks \ swallowed' :
          /\ \/ Loaded'[s] \in {Loaded[s], tasks[s]}
             \/ /\ tasks[s].status \notin Finished
                /\ \A w \in Workers : Executes(w, s) => Matches(w, job[w].attempt, Loaded'[s])
          /\ s \notin Doubtful' => s \notin Doubtful /\ disk[s] = tasks[s]
  <2>1. CASE tail' = tail
    BY <1>1, <1>6, <1>8, <1>9, <1>10, <1>11, <2>1
  <2>2. ASSUME NEW t \in Tasks, NEW record \in Task,
               tasks[t].status \notin Finished,
               t \notin swallowed =>
                  \A w \in Workers : Executes(w, t) => Matches(w, job[w].attempt, record),
               tail' \in TornTails(t, record), tail' # tail,
               swallowed' = swallowed \union (TailTasks \ unsure)
        PROVE  \A s \in Tasks \ swallowed' :
                  /\ \/ Loaded'[s] \in {Loaded[s], tasks[s]}
                     \/ /\ tasks[s].status \notin Finished
                        /\ \A w \in Workers : Executes(w, s) => Matches(w, job[w].attempt, Loaded'[s])
                  /\ s \notin Doubtful' => s \notin Doubtful /\ disk[s] = tasks[s]
    <3>1. tail' = Fragment \/ (tail = Clean /\ tail' = Whole(t, record))
      BY <2>2 DEF TornTails
    <3>2. CASE tail' = Fragment
      BY <1>1, <1>6, <1>8, <1>9, <1>10, <1>11, <2>2, <3>2
    <3>3. CASE tail = Clean /\ tail' = Whole(t, record)
      <4>1. TailTasks' = {t} /\ tail'.record = record /\ TailTasks = {}
        BY <1>5, <1>8, <1>9, <3>3
      <4>. QED
        BY <1>1, <1>6, <1>8, <1>10, <1>11, <2>2, <4>1
    <3>. QED
      BY <3>1, <3>2, <3>3
  <2>. QED
    BY <1>4, <2>1, <2>2
<1>14. TornWrites = FALSE => tail' = tail /\ swallowed' = swallowed
  BY <1>4 DEF TornTails
<1>. QED
  BY <1>1, <1>3, <1>6, <1>7, <1>12, <1>13, <1>14

LEMMA CrashKeeps == ASSUME IInv, Crash PROVE IInv'
<1>1. /\ up /\ up' = FALSE /\ TypeOK' /\ NewIds' /\ call' = NoCall
      /\ disk' = disk /\ swallowed \subseteq swallowed'
      /\ \A w \in Workers : job'[w] \in {job[w], NoJob}
      /\ \A s \in Tasks \ swallowed' :
            /\ \/ Loaded'[s] \in {Loaded[s], tasks[s]}
               \/ \A w \in Workers : Executes(w, s) => Matches(w, job[w].attempt, Loaded'[s])
            /\ s \notin Doubtful' => s \notin Doubtful /\ disk[s] = tasks[s]
  BY CrashFacts
<1>2. \A w \in Workers, s \in Tasks : Executes(w, s)' => Executes(w, s) /\ job'[w] = job[w]
  BY <1>1 DEF Executes
<1>3. FileTold' /\ CallSound'
  BY <1>1, NoneFacts DEF FileTold, CallSound
<1>4. AttemptsMatch'
  BY <1>1, <1>2 DEF IInv, AttemptsMatch
<1>5. LeasesHeld'
  BY <1>1, <1>2 DEF IInv, LeasesHeld, Truth
<1>6. OneLiveLease'
  <2>1. OneLiveLease <=> \A v, w \in Workers, s \in Tasks \ swallowed :
           Believes(v, s) /\ Believes(w, s) => v = w
    BY OneLiveLeaseAgain DEF IInv
  <2>2. \A w \in Workers, s \in Tasks : Believes(w, s)' => Believes(w, s)
    BY <1>2 DEF Believes
  <2>. QED
    BY <1>1, <2>1, <2>2, OneLiveLeaseNext DEF IInv
<1>. QED
  BY <1>1, <1>3, <1>4, <1>5, <1>6 DEF IInv

LEMMA RestartKeeps == ASSUME IInv, Restart PROVE IInv'
<1>1. /\ ~up /\ up' = TRUE /\ tasks' = Loaded /\ unsure' = {}
      /\ UNCHANGED <<disk, tail, call, job, enqueued, faults, crashes, swallowed>>
  BY DEF Restart
<1>2. /\ Loaded \in Entries /\ TailTasks \subseteq Tasks /\ Tasks \subseteq Nat
      /\ \A s \in Tasks : Loaded[s] = IF s \in TailTasks THEN tail.record ELSE disk[s]
  BY Loads, LineFacts, LoadFacts, TaskAssumption DEF IInv, TypeOK, Entries, Tasks
<1>3. TailTasks' = TailTasks /\ Loaded' = Loaded /\ Doubtful' = Doubtful /\ Doubtful = TailTasks
  BY <1>1 DEF TailTasks, Loaded, Doubtful
<1>4. TypeOK'
  BY <1>1, <1>2 DEF IInv, TypeOK, Entries
<1>5. FileTold'
  BY <1>1, <1>2, <1>3 DEF FileTold
<1>6. NewIds'
  <2>1. \A s \in TailTasks : ~(s > enqueued)
    <3>1. enqueued \in Nat
      BY TaskAssumption DEF IInv, TypeOK
    <3>2. \A s \in TailTasks : s \in Nat /\ s <= enqueued
      BY <1>2 DEF IInv, NewIds
    <3>. QED
      BY <3>1, <3>2
  <2>. QED
    BY <1>1, <1>2, <1>3, <2>1 DEF IInv, NewIds
<1>7. CallSound'
  BY <1>1 DEF IInv, CallSound
<1>8. AttemptsMatch'
  BY <1>1, <1>3 DEF IInv, AttemptsMatch, Executes
<1>9. LeasesHeld'
  BY <1>1, <1>2, <1>3 DEF IInv, LeasesHeld, Truth, Executes
<1>10. OneLiveLease'
  BY <1>1 DEF IInv, OneLiveLease
<1>. QED
  BY <1>4, <1>5, <1>6, <1>7, <1>8, <1>9, <1>10 DEF IInv

LEMMA StutterKeeps == ASSUME IInv, UNCHANGED vars PROVE IInv'
<1>1. /\ OtherTypes' /\ UNCHANGED <<up, tasks, disk, tail, enqueued, faults, swallowed, unsure, job>>
      /\ CallSound'
  BY DEF vars, IInv, TypeOK, OtherTypes, CallSound
<1>. QED
  BY <1>1, QuietKeeps

LEMMA IInvInit == Init => IInv
<1>. SUFFICES ASSUME Init PROVE IInv
  OBVIOUS
<1>1. tail = Clean /\ TailTasks = {} /\ Loaded = disk /\ Clean \in Tails
  BY DEF Init, TailTasks, Loaded, Clean, Tails
<1>2. TypeOK
  BY <1>1, TaskAssumption, NoneFacts DEF Init, TypeOK
<1>3. FileTold /\ NewIds /\ CallSound
  BY <1>1, NoneFacts DEF Init, FileTold, NewIds, CallSound
<1>4. AttemptsMatch /\ LeasesHeld /\ OneLiveLease
  BY DEF Init, AttemptsMatch, LeasesHeld, OneLiveLease, Executes
<1>. QED
  BY <1>2, <1>3, <1>4 DEF IInv

LEMMA IInvStep == IInv /\ [Next]_vars => IInv'
<1>. SUFFICES ASSUME IInv, [Next]_vars PROVE IInv'
  OBVIOUS
<1>. QED
  BY EnqueueKeeps, RecoverCallKeeps, SweepOneKeeps, SweepDoneKeeps, ClaimTakeKeeps, TickKeeps,
     CrashKeeps, RestartKeeps, CancelKeeps, ClaimCallKeeps, HeartbeatKeeps, CompleteKeeps,
     ExecutionFailsKeeps, FailKeeps, LateAnswerKeeps, WorkerDiesKeeps, StutterKeeps DEF Next

-----------------------------------------------------------------------------
(* The theorems                                                            *)

(* The inductive invariant holds in every reachable state, whatever        *)
(* crashes, dies, fails or is torn.                                        *)
THEOREM IInvCorrect == SafeSpec => []IInv
<1>. QED
  BY IInvInit, IInvStep, PTL DEF SafeSpec

(* Every variable of the queue, its file and its workers keeps its type.   *)
THEOREM TypeCorrect == SafeSpec => []TypeOK
<1>1. IInv => TypeOK
  BY DEF IInv
<1>. QED
  BY IInvCorrect, <1>1, PTL

(* record and load: the file replays to what the server holds in memory,   *)
(* but for tasks whose line was swallowed or whose append threw.           *)
THEOREM FileTells == SafeSpec => []FileMirrorsMemory
<1>1. IInv => FileMirrorsMemory
  <2>. SUFFICES ASSUME IInv, up, NEW t \in Tasks \ (swallowed \union unsure)
                PROVE  Loaded[t] = tasks[t]
    BY DEF FileMirrorsMemory
  <2>1. Loaded[t] = IF t \in TailTasks THEN tail.record ELSE disk[t]
    BY LoadFacts, Loads DEF IInv, TypeOK, Entries
  <2>. QED
    BY <2>1 DEF IInv, FileTold
<1>. QED
  BY IInvCorrect, <1>1, PTL

(* claim, heartbeat and recoverExpiredLeases: no two workers believe in a  *)
(* lease on one task.                                                      *)
THEOREM LeasesAreExclusive == SafeSpec => []OneLiveLease
<1>1. IInv => OneLiveLease
  BY DEF IInv
<1>. QED
  BY IInvCorrect, <1>1, PTL

(* ownedTask: the worker it lets answer executes the current attempt.      *)
THEOREM AnswersAreCurrent == SafeSpec => []CurrentAttemptAnswers
<1>1. IInv => CurrentAttemptAnswers
  <2>. SUFFICES ASSUME IInv, NEW w \in Workers, job[w] # NoJob, up,
                       job[w].task \notin swallowed, Owns(w, job[w].task)
                PROVE  job[w].attempt = tasks[job[w].task].attempt
    BY DEF CurrentAttemptAnswers
  <2>1. job[w].task \in Tasks /\ Executes(w, job[w].task)
    BY JobFacts
  <2>2. Matches(w, job[w].attempt, tasks[job[w].task])
    BY <2>1 DEF IInv, AttemptsMatch
  <2>. QED
    BY <2>2 DEF Matches, Owns
<1>. QED
  BY IInvCorrect, <1>1, PTL

-----------------------------------------------------------------------------
(* What a step does to the tasks                                           *)

(* The moves of one task that the server records.                          *)
Move(t, record) ==
    \/ tasks[t] = NoTask /\ \E p \in Priorities, n \in AttemptLimits : record = NewTask(p, n)
    \/ /\ tasks[t] \in Task
       /\ \/ /\ tasks[t].status = "queued"
             /\ \E w \in Workers : record = Claimed(tasks[t], w)
          \/ /\ tasks[t].status = "running"
             /\ record \in {Renewed(tasks[t]), Succeeded(tasks[t]), Retried(tasks[t])}
          \/ tasks[t].status \in {"queued", "running"} /\ record = Cancelled(tasks[t])

Records == \E t \in Tasks, record \in Task :
    /\ Move(t, record)
    /\ Recorded(t, record) \/ RecordThrows(t, record)

LEMMA StepShape ==
    ASSUME IInv, [Next]_vars
    PROVE  \/ up /\ up' /\ Records
           \/ Tick \/ Crash \/ Restart
           \/ UNCHANGED <<up, tasks, disk, tail, swallowed, unsure>>
<1>1. CASE Enqueue
  <2>1. PICK p \in Priorities, n \in AttemptLimits :
           Recorded(enqueued + 1, NewTask(p, n)) \/ RecordThrows(enqueued + 1, NewTask(p, n))
    BY <1>1 DEF Enqueue
  <2>2. up /\ up' /\ enqueued + 1 \in Tasks /\ enqueued + 1 > enqueued
    BY <1>1, TaskAssumption DEF Enqueue, Ready, IInv, TypeOK, Tasks
  <2>3. tasks[enqueued + 1] = NoTask /\ NewTask(p, n) \in Task
    BY <2>2, NewTaskFacts DEF IInv, NewIds
  <2>. QED
    BY <2>1, <2>2, <2>3 DEF Records, Move
<1>2. ASSUME NEW t \in Tasks, Cancel(t) PROVE up /\ up' /\ Records
  <2>1. tasks[t].status \in {"queued", "running"} /\ tasks[t] \in Task
    BY <1>2, Known0 DEF Cancel, ControlTaskStatus, Finished
  <2>. QED
    BY <1>2, <2>1, MoveFacts DEF Cancel, Ready, Records, Move
<1>3. ASSUME NEW w \in Workers, Heartbeat(w) \/ Complete(w) PROVE up /\ up' /\ Records
  <2>1. /\ up /\ up' /\ job[w] # NoJob /\ Owns(w, job[w].task)
        /\ \E record \in {Renewed(tasks[job[w].task]), Succeeded(tasks[job[w].task])} :
              Recorded(job[w].task, record) \/ RecordThrows(job[w].task, record)
    BY <1>3 DEF Heartbeat, Complete, Ready
  <2>2. /\ job[w].task \in Tasks /\ tasks[job[w].task].status = "running"
        /\ tasks[job[w].task] \in Task
    BY <2>1, JobFacts, Known0 DEF Owns
  <2>. QED
    BY <2>1, <2>2, MoveFacts DEF Records, Move
<1>4. ASSUME NEW w \in Workers, Fail(w)
      PROVE  \/ up /\ up' /\ Records
             \/ UNCHANGED <<up, tasks, disk, tail, swallowed, unsure>>
  <2>1. up /\ up' /\ job[w] # NoJob
    BY <1>4 DEF Fail, IInv, CallSound
  <2>2. CASE Owns(w, job[w].task)
    <3>1. /\ job[w].task \in Tasks /\ tasks[job[w].task].status = "running"
          /\ tasks[job[w].task] \in Task
      BY <2>1, <2>2, JobFacts, Known0 DEF Owns
    <3>2. \/ Recorded(job[w].task, Retried(tasks[job[w].task]))
          \/ RecordThrows(job[w].task, Retried(tasks[job[w].task]))
      BY <1>4, <2>2 DEF Fail
    <3>. QED
      BY <2>1, <3>1, <3>2, MoveFacts DEF Records, Move
  <2>3. CASE ~Owns(w, job[w].task)
    BY <1>4, <2>3 DEF Fail
  <2>. QED
    BY <2>2, <2>3
<1>5. CASE SweepOne
  <2>1. PICK t \in Tasks :
           Expired(t) /\ (Recorded(t, Retried(tasks[t])) \/ RecordThrows(t, Retried(tasks[t])))
    BY <1>5 DEF SweepOne, SweepNext
  <2>2. tasks[t].status = "running" /\ tasks[t] \in Task
    BY <2>1, Known0 DEF Expired
  <2>. QED
    BY <1>5, <2>1, <2>2, MoveFacts DEF SweepOne, Records, Move
<1>6. CASE ClaimTake
  <2>1. up /\ up' /\ call.worker \in Workers
    BY <1>6 DEF ClaimTake, IInv, TypeOK, Calls
  <2>2. PICK t \in Tasks :
           /\ tasks[t].status = "queued"
           /\ \/ Recorded(t, Claimed(tasks[t], call.worker))
              \/ RecordThrows(t, Claimed(tasks[t], call.worker))
    BY <1>6 DEF ClaimTake, First
  <2>3. tasks[t] \in Task
    BY <2>2, Known0
  <2>. QED
    BY <2>1, <2>2, <2>3, ClaimedFacts DEF Records, Move
<1>7. ASSUME NEW w \in Workers, ClaimCall(w) \/ ExecutionFails(w) \/ LateAnswer(w) \/ WorkerDies(w)
      PROVE  UNCHANGED <<up, tasks, disk, tail, swallowed, unsure>>
  BY <1>7 DEF ClaimCall, ExecutionFails, LateAnswer, WorkerDies
<1>8. RecoverCall \/ SweepDone \/ UNCHANGED vars =>
         UNCHANGED <<up, tasks, disk, tail, swallowed, unsure>>
  BY DEF RecoverCall, SweepDone, vars
<1>. QED
  BY <1>1, <1>2, <1>3, <1>4, <1>5, <1>6, <1>7, <1>8 DEF Next

(* A last line whose append threw is of a task that was not finished, and  *)
(* is not since: a later line of it would have swallowed it.               *)
Undecided == up => \A t \in (TailTasks \intersect unsure) \ swallowed :
    tasks[t].status \notin Finished

LEMMA UndecidedStep == IInv /\ Undecided /\ [Next]_vars => Undecided'
<1>. SUFFICES ASSUME IInv, Undecided, [Next]_vars PROVE Undecided'
  OBVIOUS
<1>0. TailTasks \subseteq Tasks /\ tasks \in Entries
  BY Loads, LineFacts DEF IInv, TypeOK, Entries
<1>1. CASE up /\ up' /\ Records
  <2>1. PICK t \in Tasks, record \in Task :
           Move(t, record) /\ (Recorded(t, record) \/ RecordThrows(t, record))
    BY <1>1 DEF Records
  <2>2. tasks[t].status \notin Finished
    BY <2>1, NoTaskFacts DEF Move, Finished
  <2>3. CASE Recorded(t, record)
    <3>1. TailTasks' = {}
      BY <1>1, <2>3, RecordedFacts DEF IInv
    <3>. QED
      BY <3>1 DEF Undecided
  <2>4. CASE RecordThrows(t, record)
    <3>1. /\ tasks' = tasks /\ swallowed \subseteq swallowed'
          /\ TailTasks' \subseteq TailTasks \union {t}
      BY <1>1, <2>4, ThrowsFacts DEF IInv
    <3>2. unsure' \subseteq unsure \union {t}
      BY <2>4 DEF RecordThrows
    <3>. QED
      BY <1>1, <2>2, <3>1, <3>2 DEF Undecided
  <2>. QED
    BY <2>1, <2>3, <2>4
<1>2. CASE Tick
  <2>1. /\ TailTasks' = TailTasks /\ UNCHANGED <<up, swallowed, unsure>>
        /\ \A t \in Tasks : tasks'[t].status = tasks[t].status
    BY <1>0, <1>2, TickFacts, AgedFacts DEF Entries
  <2>. QED
    BY <1>0, <2>1 DEF Undecided
<1>3. CASE Crash
  BY <1>3 DEF Crash, Undecided
<1>4. CASE Restart
  BY <1>4 DEF Restart, Undecided
<1>5. CASE UNCHANGED <<up, tasks, disk, tail, swallowed, unsure>>
  BY <1>5 DEF Undecided, TailTasks
<1>. QED
  BY <1>1, <1>2, <1>3, <1>4, <1>5, StepShape

LEMMA UndecidedCorrect == SafeSpec => []Undecided
<1>1. Init => Undecided
  BY DEF Init, Undecided
<1>. QED
  BY <1>1, UndecidedStep, IInvCorrect, PTL DEF SafeSpec

(* Finished tasks stay as they are, whatever happens to the server and to  *)
(* the file, unless an acknowledged line of theirs was swallowed.          *)
THEOREM FinishedStay == SafeSpec => FinishedForever
<1>. DEFINE Stays == \A t \in Tasks :
        Known(t).status \in Finished /\ t \notin swallowed' => Known(t)'.status = Known(t).status
<1>1. IInv /\ Undecided /\ [Next]_vars => Stays
  <2>. SUFFICES ASSUME IInv, Undecided, [Next]_vars, NEW t \in Tasks, Known(t).status \in Finished,
                       t \notin swallowed'
                PROVE  Known(t)'.status = Known(t).status
    OBVIOUS
  <2>0. Loaded \in Entries /\ tasks \in Entries
    BY LoadFacts, Loads DEF IInv, TypeOK, Entries
  <2>1. CASE up /\ up' /\ Records
    <3>1. PICK s \in Tasks, record \in Task :
             Move(s, record) /\ (Recorded(s, record) \/ RecordThrows(s, record))
      BY <2>1 DEF Records
    <3>2. tasks[s].status \notin Finished
      BY <3>1, NoTaskFacts DEF Move, Finished
    <3>3. tasks[t].status \in Finished /\ s # t
      BY <2>1, <3>2 DEF Known
    <3>4. tasks'[t] = tasks[t]
      BY <2>0, <3>1, <3>3 DEF Recorded, RecordThrows, Entries
    <3>. QED
      BY <2>1, <3>4 DEF Known
  <2>2. CASE Tick
    BY <2>0, <2>2, TickFacts, AgedFacts DEF Known, Entries
  <2>3. CASE Crash
    <3>1. /\ up /\ ~up' /\ t \notin swallowed
          /\ \/ Loaded'[t] \in {Loaded[t], tasks[t]}
             \/ tasks[t].status \notin Finished
      BY <2>3, CrashFacts
    <3>2. tasks[t].status \in Finished
      BY <3>1 DEF Known
    <3>3. Loaded[t] = tasks[t]
      <4>1. Loaded[t] = IF t \in TailTasks THEN tail.record ELSE disk[t]
        BY LoadFacts, Loads DEF IInv, TypeOK, Entries
      <4>2. t \notin TailTasks \intersect unsure
        BY <3>1, <3>2 DEF Undecided
      <4>. QED
        BY <3>1, <4>1, <4>2 DEF IInv, FileTold
    <3>. QED
      BY <3>1, <3>2, <3>3 DEF Known
  <2>4. CASE Restart
    BY <2>4 DEF Restart, Known
  <2>5. CASE UNCHANGED <<up, tasks, disk, tail, swallowed, unsure>>
    BY <2>5 DEF Known, Loaded
  <2>. QED
    BY <2>1, <2>2, <2>3, <2>4, <2>5, StepShape
<1>2. Stays => [Stays]_vars
  OBVIOUS
<1>. QED
  BY <1>1, <1>2, IInvCorrect, UndecidedCorrect, PTL DEF SafeSpec, FinishedForever
-----------------------------------------------------------------------------
(* The queue implements the life of independent tasks, while appends are   *)
(* whole: they may throw, and the server may crash, between lines.         *)

Untorn == tail = Clean /\ swallowed = {} /\ unsure = {}

(* An attempt is left to a queued task, and no attempt is beyond the limit.*)
Within(task) ==
    /\ task.status = "queued" => task.attempt < task.maxAttempts
    /\ task.status = "running" => task.attempt <= task.maxAttempts
AttemptsLeft == \A t \in Tasks : Within(disk[t])

LEMMA KnownNow ==
    ASSUME IInv, Untorn
    PROVE  \A t \in Tasks : Known(t) = disk[t] /\ (up => tasks[t] = disk[t])
<1>1. Loaded = disk /\ TailTasks = {}
  BY Loads DEF Untorn, LoadedOf, TasksOf, Clean
<1>. QED
  BY <1>1 DEF IInv, FileTold, Untorn, Known

LEMMA KnownNext ==
    ASSUME IInv', Untorn'
    PROVE  \A t \in Tasks : Known(t)' = disk'[t]
<1>1. Loaded' = disk' /\ TailTasks' = {}
  BY Loads DEF Untorn, LoadedOf, TasksOf, Clean
<1>. QED
  BY <1>1 DEF IInv, FileTold, Untorn, Known

(* What a step may do to the task t that the file tells of.                *)
Told(t, record) ==
    /\ Move(t, record) /\ record \in Task /\ tasks[t] = disk[t]
    /\ disk' = [disk EXCEPT ![t] = record]

LEMMA UntornStep ==
    ASSUME TornWrites = FALSE, IInv, Untorn, [Next]_vars
    PROVE  /\ Untorn'
           /\ \/ \E t \in Tasks, record \in Task : Told(t, record)
              \/ \A t \in Tasks : disk'[t] \in {disk[t], Aged(disk[t])}
<1>1. CASE up /\ up' /\ Records
  <2>1. PICK t \in Tasks, record \in Task :
           Move(t, record) /\ (Recorded(t, record) \/ RecordThrows(t, record))
    BY <1>1 DEF Records
  <2>2. CASE Recorded(t, record)
    <3>1. tasks[t] = disk[t]
      BY <1>1, KnownNow
    <3>. QED
      BY <2>1, <2>2, <3>1 DEF Recorded, Replay, Untorn, Told
  <2>3. CASE RecordThrows(t, record)
    BY <1>1, <2>3, ThrowsFacts DEF IInv, Untorn
  <2>. QED
    BY <2>1, <2>2, <2>3
<1>2. CASE Tick
  <2>1. tail' = tail
    BY <1>2 DEF Tick, Untorn, Clean
  <2>. QED
    BY <1>2, <2>1, TickFacts DEF Untorn
<1>3. CASE Crash
  BY <1>3, CrashFacts DEF Crash, Untorn
<1>4. CASE Restart
  BY <1>4 DEF Restart, Untorn
<1>5. CASE UNCHANGED <<up, tasks, disk, tail, swallowed, unsure>>
  BY <1>5 DEF Untorn
<1>. QED
  BY <1>1, <1>2, <1>3, <1>4, <1>5, StepShape

(* Each recorded move is a move of the task's life, or a renewed lease.    *)
Lives(task, record) ==
    \/ /\ task.status = "none" /\ record.status = "queued"
       /\ record.maxAttempts \in AttemptLimits /\ record.attempt = task.attempt
    \/ /\ record.maxAttempts = task.maxAttempts
       /\ \/ /\ task.status = "queued" /\ record.status = "running"
             /\ task.attempt < task.maxAttempts /\ record.attempt = task.attempt + 1
          \/ /\ record.attempt = task.attempt
             /\ \/ record.status = task.status
                \/ task.status = "running" /\ record.status = "succeeded"
                \/ /\ task.status = "running" /\ record.status = "queued"
                   /\ task.attempt < task.maxAttempts
                \/ /\ task.status = "running" /\ record.status = "failed"
                   /\ task.attempt = task.maxAttempts
                \/ task.status \in {"queued", "running"} /\ record.status = "cancelled"

LEMMA MoveLives ==
    ASSUME NEW t \in Tasks, NEW record \in Task, Move(t, record), Within(tasks[t]),
           tasks \in Entries
    PROVE  Within(record) /\ Lives(tasks[t], record)
<1>1. CASE tasks[t] = NoTask /\ \E p \in Priorities, n \in AttemptLimits : record = NewTask(p, n)
  <2>1. PICK p \in Priorities, n \in AttemptLimits : record = NewTask(p, n)
    BY <1>1
  <2>2. record.status = "queued" /\ record.attempt = 0 /\ record.maxAttempts = n /\ n > 0
    BY <2>1, NewTaskFacts, TaskAssumption
  <2>. QED
    BY <1>1, <2>2 DEF Within, Lives, NoTask
<1>2. CASE tasks[t] \in Task
  <2>1. tasks[t].attempt \in Nat /\ tasks[t].maxAttempts \in Nat
    BY <1>2, TaskAssumption DEF Task
  <2>2. ASSUME NEW w \in Workers, tasks[t].status = "queued", record = Claimed(tasks[t], w)
        PROVE  /\ record.status = "running" /\ record.attempt = tasks[t].attempt + 1
               /\ record.maxAttempts = tasks[t].maxAttempts
               /\ tasks[t].attempt < tasks[t].maxAttempts /\ Within(record)
    BY <1>2, <2>1, <2>2, ClaimedFacts DEF Within, Lives
  <2>3. CASE tasks[t].status = "running" /\ record = Renewed(tasks[t])
    BY <1>2, <2>3, MoveFacts DEF Within, Lives
  <2>4. CASE tasks[t].status = "running" /\ record = Succeeded(tasks[t])
    BY <1>2, <2>4, MoveFacts DEF Within, Lives
  <2>5. CASE tasks[t].status = "running" /\ record = Retried(tasks[t])
    BY <1>2, <2>1, <2>5, MoveFacts DEF Within, Lives
  <2>6. CASE tasks[t].status \in {"queued", "running"} /\ record = Cancelled(tasks[t])
    BY <1>2, <2>6, MoveFacts DEF Within, Lives
  <2>. QED
    BY <1>2, <2>2, <2>3, <2>4, <2>5, <2>6, NoTaskFacts DEF Move, Lives
<1>. QED
  BY <1>1, <1>2 DEF Move

LEMMA AttemptsLeftStep ==
    ASSUME TornWrites = FALSE, IInv, Untorn, AttemptsLeft, [Next]_vars
    PROVE  AttemptsLeft'
<1>0. disk \in Entries /\ tasks \in Entries
  BY DEF IInv, TypeOK, Entries
<1>1. ASSUME NEW t \in Tasks, NEW record \in Task, Told(t, record) PROVE AttemptsLeft'
  <2>1. Within(record)
    BY <1>0, <1>1, MoveLives DEF Told, AttemptsLeft
  <2>. QED
    BY <1>0, <1>1, <2>1 DEF Told, AttemptsLeft, Entries
<1>2. CASE \A t \in Tasks : disk'[t] \in {disk[t], Aged(disk[t])}
  BY <1>0, <1>2, AgedFacts DEF AttemptsLeft, Within, Entries
<1>. QED
  BY <1>1, <1>2, UntornStep

LEMMA StepImplements ==
    ASSUME TornWrites = FALSE, IInv, Untorn, AttemptsLeft, [Next]_vars, IInv'
    PROVE  [Lifecycle!Next]_(Lifecycle!lifeVars)
<1>. DEFINE status == [t \in Tasks |-> Known(t).status]
            attempt == [t \in Tasks |-> Known(t).attempt]
            limit == [t \in Tasks |-> Known(t).maxAttempts]
<1>0. disk \in Entries /\ tasks \in Entries
  BY DEF IInv, TypeOK, Entries
<1>1. /\ status = [t \in Tasks |-> disk[t].status]
      /\ attempt = [t \in Tasks |-> disk[t].attempt]
      /\ limit = [t \in Tasks |-> disk[t].maxAttempts]
  BY KnownNow
<1>2. /\ status' = [t \in Tasks |-> disk'[t].status]
      /\ attempt' = [t \in Tasks |-> disk'[t].attempt]
      /\ limit' = [t \in Tasks |-> disk'[t].maxAttempts]
  BY KnownNext, UntornStep
<1>. HIDE DEF status, attempt, limit
<1>3. ASSUME NEW t \in Tasks, NEW record \in Task, Told(t, record)
      PROVE  \/ UNCHANGED <<status, attempt, limit>>
             \/ /\ status[t] = "none" /\ status' = [status EXCEPT ![t] = "queued"]
                /\ \E n \in AttemptLimits : limit' = [limit EXCEPT ![t] = n]
                /\ UNCHANGED attempt
             \/ /\ status[t] = "queued" /\ status' = [status EXCEPT ![t] = "running"]
                /\ attempt[t] < limit[t] /\ attempt' = [attempt EXCEPT ![t] = @ + 1]
                /\ UNCHANGED limit
             \/ /\ UNCHANGED <<attempt, limit>>
                /\ \/ status[t] = "running" /\ status' = [status EXCEPT ![t] = "succeeded"]
                   \/ /\ status[t] = "running" /\ status' = [status EXCEPT ![t] = "queued"]
                      /\ attempt[t] < limit[t]
                   \/ /\ status[t] = "running" /\ status' = [status EXCEPT ![t] = "failed"]
                      /\ attempt[t] = limit[t]
                   \/ /\ status[t] \in {"queued", "running"}
                      /\ status' = [status EXCEPT ![t] = "cancelled"]
  <2>1. /\ status' = [status EXCEPT ![t] = record.status]
        /\ attempt' = [attempt EXCEPT ![t] = record.attempt]
        /\ limit' = [limit EXCEPT ![t] = record.maxAttempts]
    BY <1>0, <1>1, <1>2, <1>3 DEF Told, Entries
  <2>2. /\ status[t] = tasks[t].status /\ attempt[t] = tasks[t].attempt
        /\ limit[t] = tasks[t].maxAttempts
    BY <1>1, <1>3 DEF Told
  <2>3. /\ [status EXCEPT ![t] = status[t]] = status
        /\ [attempt EXCEPT ![t] = attempt[t]] = attempt
        /\ [limit EXCEPT ![t] = limit[t]] = limit
    BY <1>1
  <2>4. Move(t, record) /\ Within(tasks[t])
    BY <1>3 DEF Told, AttemptsLeft
  <2>5. Lives(tasks[t], record)
    BY <1>0, <2>4, MoveLives
  <2>. QED
    BY <2>1, <2>2, <2>3, <2>5 DEF Lives
<1>4. CASE \A t \in Tasks : disk'[t] \in {disk[t], Aged(disk[t])}
  <2>1. \A t \in Tasks : /\ disk'[t].status = disk[t].status
                          /\ disk'[t].attempt = disk[t].attempt
                          /\ disk'[t].maxAttempts = disk[t].maxAttempts
    BY <1>0, <1>4, AgedFacts DEF Entries
  <2>2. UNCHANGED <<status, attempt, limit>>
    BY <1>1, <1>2, <2>1
  <2>. QED
    BY <2>2 DEF Lifecycle!lifeVars, status, attempt, limit
<1>5. ASSUME NEW t \in Tasks, NEW record \in Task, Told(t, record)
      PROVE  [Lifecycle!Next]_(Lifecycle!lifeVars)
  BY <1>3, <1>5 DEF status, attempt, limit, Lifecycle!lifeVars, Lifecycle!Next, Lifecycle!Moves,
     Lifecycle!Accept, Lifecycle!Attempt, Lifecycle!Succeed, Lifecycle!Retry, Lifecycle!GiveUp,
     Lifecycle!Cancel
<1>. QED
  BY <1>4, <1>5, UntornStep

(* Between whole appends, every step of the queue, its workers, its clock  *)
(* and its crashes is a step in the life of one task, or none.             *)
THEOREM Implements == ASSUME TornWrites = FALSE PROVE SafeSpec => ImplementsLifecycle
<1>1. Init => Lifecycle!Init /\ Untorn /\ AttemptsLeft
  BY DEF Init, Lifecycle!Init, Untorn, AttemptsLeft, Within, Known, NoTask
<1>2. IInv /\ Untorn /\ AttemptsLeft /\ [Next]_vars => Untorn' /\ AttemptsLeft'
  BY UntornStep, AttemptsLeftStep
<1>3. IInv /\ IInv' /\ Untorn /\ AttemptsLeft /\ [Next]_vars =>
         [Lifecycle!Next]_(Lifecycle!lifeVars)
  BY StepImplements
<1>. QED
  BY <1>1, <1>2, <1>3, IInvCorrect, PTL DEF SafeSpec, ImplementsLifecycle, Lifecycle!Spec
===============================================================================
