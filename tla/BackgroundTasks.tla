--------------------------- MODULE BackgroundTasks ---------------------------
(***************************************************************************)
(* BackgroundTaskManager: shell commands that run on after the tool call   *)
(* that started them, each with its record, the handle of its process, a   *)
(* timer that turns a stop into a kill, and an execution run that mirrors  *)
(* it.  A command is a process that leads its own group; it may leave      *)
(* members of the group behind, and descendants that left the group but    *)
(* keep its pipes open.  Node reports the end of a process in two steps:   *)
(* it is reaped, and "close" fires when nobody holds the pipes.            *)
(*                                                                         *)
(* A process id is another process's once leader and group are gone and    *)
(* the kernel gives it out again.  Signals go to the group of that id, or  *)
(* to the process with that id.                                            *)
(***************************************************************************)
EXTENDS RunStates

CONSTANTS Tasks   \* bound: the tasks that are created

VARIABLES
    status,    \* info.status; "absent" before the task is created
    listed,    \* the manager's map of tasks, and of their runs
    handle,    \* tasks whose record still has the process
    stopped,   \* tasks marked stopped
    timer,     \* tasks whose escalation timer is armed
    run,       \* the status of the mirrored run
    aborted,   \* the caller's abort signal has fired
    listening, \* tasks that listen to it
    leader,    \* the command's process: alive, or how it ended
    group,     \* tasks with other members in their process group
    piping,    \* tasks with descendants outside it that hold the pipes
    escaped,   \* history: tasks that ever had such descendants
    doomed,    \* tasks whose group was sent SIGKILL and has not died yet
    reused,    \* tasks whose process id belongs to another process
    strays     \* history: tasks of which a signal was sent to another process

record == <<status, listed, handle, stopped, timer, run>>
processes == <<leader, group, piping, escaped, doomed, reused>>
BTvars == <<record, aborted, listening, processes, strays>>

Ends == {"ok", "bad", "signalled"}
Alive(t) == leader[t] = "alive"
Live(t) == Alive(t) \/ t \in group

BTInit ==
    /\ status = [t \in Tasks |-> "absent"]
    /\ listed = {} /\ handle = {} /\ stopped = {} /\ timer = {}
    /\ run = [t \in Tasks |-> "queued"]
    /\ aborted = FALSE /\ listening = {}
    /\ leader = [t \in Tasks |-> "none"]
    /\ group = {} /\ piping = {} /\ escaped = {} /\ doomed = {} /\ reused = {} /\ strays = {}

-----------------------------------------------------------------------------
(* The runs                                                                *)

(* transitionTaskRun: an illegal transition, or a run that is not known    *)
(* any more, is ignored.                                                   *)
MirrorRun(t, known, to) ==
    run' = IF t \in known /\ CanTransition(run[t], to) THEN [run EXCEPT ![t] = to] ELSE run

-----------------------------------------------------------------------------
(* createTask                                                              *)

(* The command is a script that is emulated at once; or a signal that      *)
(* fired before prevents it; or it is spawned; or the spawn fails and its  *)
(* error event follows before anything else runs.                          *)
CreateTask(t, how) ==
    /\ status[t] = "absent"
    /\ how = "completed" \/ (how = "stopped" <=> aborted)
    /\ listed' = listed \union {t}
    /\ status' = [status EXCEPT ![t] = how]
    /\ CASE how = "running" ->
              /\ handle' = handle \union {t}
              /\ listening' = listening \union {t}
              /\ leader' = [leader EXCEPT ![t] = "alive"]
              /\ run' = [run EXCEPT ![t] = "running"]
              /\ UNCHANGED stopped
         [] how = "failed" ->
              /\ run' = [run EXCEPT ![t] = "failed"]
              /\ UNCHANGED <<handle, listening, leader, stopped>>
         [] how \in {"stopped", "completed"} ->
              /\ run' = [run EXCEPT ![t] = "preparing"]
              /\ stopped' = IF how = "stopped" THEN stopped \union {t} ELSE stopped
              /\ UNCHANGED <<handle, listening, leader>>
    /\ UNCHANGED <<timer, aborted, group, piping, escaped, doomed, reused, strays>>

-----------------------------------------------------------------------------
(* stopInternal and its callers                                            *)

Signalled(T) == strays' = strays \union (T \cap reused)

(* Faulty variant: a task whose process is gone is stopped as well. *)
StoppableAny(T) == T \ stopped

(* Those of T that have a process and were not stopped before. *)
Stoppable(T) == (T \cap handle) \ stopped

StopInternal(T) ==
    /\ stopped' = stopped \union Stoppable(T)
    /\ timer' = timer \union Stoppable(T)
    /\ status' = [t \in Tasks |-> IF t \in Stoppable(T) THEN "stopped" ELSE status[t]]
    /\ Signalled(Stoppable(T))

StopTask(t) ==
    /\ t \in listed
    /\ StopInternal({t})
    /\ IF status[t] = "running" /\ Stoppable({t}) # {}
       THEN MirrorRun(t, listed, "cancelled")
       ELSE UNCHANGED run
    /\ UNCHANGED <<listed, handle, aborted, listening, processes>>

(* The abort listeners stop their tasks; no run is told. *)
Abort ==
    /\ ~aborted /\ aborted' = TRUE
    /\ StopInternal(listening)
    /\ listening' = {}
    /\ UNCHANGED <<listed, handle, run, processes>>

Dispose ==
    /\ listed # {}
    /\ StopInternal({t \in listed : status[t] = "running"})
    /\ listed' = {}
    /\ UNCHANGED <<handle, run, aborted, listening, processes>>

ClearCompleted ==
    /\ \E t \in listed : status[t] # "running"
    /\ listed' = {t \in listed : status[t] = "running"}
    /\ UNCHANGED <<status, handle, stopped, timer, run, aborted, listening, processes, strays>>

(* Faulty variant: a task that was cleared is not escalated any more. *)
EscalateListed(t) ==
    /\ t \in timer
    /\ timer' = timer \ {t}
    /\ IF t \in listed \cap handle /\ leader[t] \notin {"ok", "bad"}
       THEN Signalled({t}) /\ doomed' = doomed \union ({t} \cap {u \in Tasks : Live(u)})
       ELSE UNCHANGED <<strays, doomed>>
    /\ UNCHANGED <<status, listed, handle, stopped, run, aborted, listening,
                   leader, group, piping, escaped, reused>>

(* The grace period is over.  exitCode stays null when a signal ended the  *)
(* process.                                                                *)
Escalate(t) ==
    /\ t \in timer
    /\ timer' = timer \ {t}
    /\ IF t \in handle /\ leader[t] \notin {"ok", "bad"}
       THEN Signalled({t}) /\ doomed' = doomed \union ({t} \cap {u \in Tasks : Live(u)})
       ELSE UNCHANGED <<strays, doomed>>
    /\ UNCHANGED <<status, listed, handle, stopped, run, aborted, listening,
                   leader, group, piping, escaped, reused>>

-----------------------------------------------------------------------------
(* The close event                                                         *)

Close(t) ==
    /\ t \in handle /\ leader[t] \in Ends /\ t \notin group \union piping
    /\ listening' = listening \ {t}
    /\ timer' = timer \ {t}
    /\ handle' = handle \ {t}
    /\ IF t \in stopped \/ status[t] # "running" THEN UNCHANGED <<status, run>>
       ELSE /\ status' = [status EXCEPT ![t] = IF leader[t] = "ok" THEN "completed" ELSE "failed"]
            /\ MirrorRun(t, listed, IF leader[t] = "ok" THEN "succeeded" ELSE "failed")
    /\ UNCHANGED <<listed, stopped, aborted, processes, strays>>

-----------------------------------------------------------------------------
(* The processes                                                           *)

(* A descendant stays in the group, with the pipes, or leaves it. *)
Fork(t) ==
    /\ Alive(t)
    /\ \/ /\ t \notin group /\ group' = group \union {t}
          /\ UNCHANGED <<piping, escaped>>
       \/ /\ t \notin piping /\ piping' = piping \union {t}
          /\ escaped' = escaped \union {t}
          /\ UNCHANGED group
    /\ UNCHANGED <<record, aborted, listening, leader, doomed, reused, strays>>

LeaderEnds(t, how) ==
    /\ Alive(t) /\ t \notin doomed
    /\ leader' = [leader EXCEPT ![t] = how]
    /\ UNCHANGED <<record, aborted, listening, group, piping, escaped, doomed, reused, strays>>

DescendantsEnd(t) ==
    /\ \/ t \in group /\ group' = group \ {t} /\ UNCHANGED piping
       \/ t \in piping /\ piping' = piping \ {t} /\ UNCHANGED group
    /\ UNCHANGED <<record, aborted, listening, leader, escaped, doomed, reused, strays>>

(* SIGKILL: leader and group die. *)
Die(t) ==
    /\ t \in doomed
    /\ doomed' = doomed \ {t}
    /\ leader' = [leader EXCEPT ![t] = IF @ = "alive" THEN "signalled" ELSE @]
    /\ group' = group \ {t}
    /\ UNCHANGED <<record, aborted, listening, piping, escaped, reused, strays>>

(* Node delivers a close event that is due before the id is given out. *)
PidReused(t) ==
    /\ leader[t] \in Ends /\ t \notin group \union reused
    /\ t \in handle => t \in piping
    /\ reused' = reused \union {t}
    /\ UNCHANGED <<record, aborted, listening, leader, group, piping, escaped, doomed, strays>>

BTNext ==
    \/ Abort \/ Dispose \/ ClearCompleted
    \/ \E t \in Tasks :
          \/ \E how \in {"running", "stopped", "completed", "failed"} : CreateTask(t, how)
          \/ StopTask(t) \/ Escalate(t) \/ Close(t)
          \/ Fork(t) \/ DescendantsEnd(t) \/ Die(t) \/ PidReused(t)
          \/ \E how \in Ends : LeaderEnds(t, how)

(* Timers fire, events are delivered and a kill kills; a command need not  *)
(* end by itself, nor at the request of SIGTERM.                           *)
BTFairness == \A t \in Tasks : WF_BTvars(Escalate(t)) /\ WF_BTvars(Close(t)) /\ WF_BTvars(Die(t))

BTSpec == BTInit /\ [][BTNext]_BTvars /\ BTFairness

-----------------------------------------------------------------------------
(* Properties                                                              *)

BTTypeOK ==
    /\ status \in [Tasks -> {"absent", "running", "completed", "failed", "stopped"}]
    /\ leader \in [Tasks -> Ends \union {"none", "alive"}]
    /\ run \in [Tasks -> RunStatus]
    /\ \A T \in {listed, handle, stopped, timer, listening, group, piping, escaped, doomed,
                 reused, strays} : T \subseteq Tasks
    /\ aborted \in BOOLEAN

(* A process id that was given out again is signalled only if a descendant *)
(* outside the group kept the pipes, and with them the handle, of a        *)
(* command that is gone.                                                   *)
SignalsOwnProcesses == strays \subseteq escaped

(* Whatever stops a task, and even if its record is cleared meanwhile, its *)
(* command ends, although it may ignore SIGTERM.                           *)
StopEndsCommand == \A t \in Tasks : (t \in stopped /\ Alive(t)) ~> ~Alive(t)

(* A run that has ended says what its task says. *)
RunAgrees == \A t \in Tasks :
    /\ run[t] = "succeeded" => status[t] = "completed"
    /\ run[t] = "cancelled" => status[t] = "stopped"
    /\ run[t] = "failed" => status[t] = "failed"

-----------------------------------------------------------------------------
(* Statements of documents and tests that the code does not keep; the      *)
(* README tells how each one fails                                         *)

(* stopInternal's comments: it avoids hitting a reused process id after    *)
(* the process was reaped.                                                 *)
NoStrays == strays = {}

(* The manager's options: the run of a task is walked to a terminal state. *)
RunEnds == \A t \in Tasks :
    status[t] \in {"completed", "failed", "stopped"} => IsTerminalRunStatus(run[t])
=============================================================================
