------------------------------ MODULE Runs_proof ------------------------------
(***************************************************************************)
(* Proofs about the execution runs, for every value of the constants: the  *)
(* registry, its log and recovery from it (RunEvents), and the shell tasks *)
(* that mirror their state in a run (BackgroundTasks).                     *)
(***************************************************************************)
EXTENDS RunEvents, BackgroundTasks, TLAPS

(* The transition table, read as facts.                                    *)
LEMMA TransitionFacts ==
    /\ TerminalRunStates \subseteq RunStatus /\ InFlight \subseteq RunStatus
    /\ "failed" \in TerminalRunStates /\ "lost" \in TerminalRunStates
    /\ "failed" \in RunStatus /\ "lost" \in RunStatus /\ "none" \notin RunStatus
    /\ TerminalRunStates \intersect InFlight = {}
    /\ RunStatus = TerminalRunStates \union InFlight \union {"queued", "blocked"}
BY DEF TerminalRunStates, RunStatus, InFlight

(* A terminal status is never left; failure is open to what is in flight,  *)
(* loss to everything that is not terminal.                                *)
LEMMA TableFacts ==
    /\ \A from \in TerminalRunStates, to \in RunStatus : CanTransition(from, to) => to = from
    /\ \A from \in InFlight : CanTransition(from, "failed")
    /\ \A from \in RunStatus \ TerminalRunStates : CanTransition(from, "lost")
    /\ \A from \in RunStatus : CanTransition(from, from)
<1>. USE DEF CanTransition, ValidTransitions
<1>1. \A from \in TerminalRunStates, to \in RunStatus : CanTransition(from, to) => to = from
  BY DEF TerminalRunStates, RunStatus
<1>2. \A from \in InFlight : CanTransition(from, "failed")
  BY DEF InFlight, RunStatus
<1>3. \A from \in RunStatus \ TerminalRunStates : CanTransition(from, "lost")
  BY DEF TerminalRunStates, RunStatus
<1>. QED
  BY <1>1, <1>2, <1>3

Registry == [Runs -> Run \union {NoRun}]

LEMMA NoRunFacts ==
    /\ NoRun \notin Run /\ NoRun.status = "none" /\ NoRun.kind = "none"
    /\ \A x \in Run \union {NoRun} : x # NoRun <=> x.status \in RunStatus
    /\ \A x \in Run : x.status \in RunStatus
BY DEF NoRun, Run, RunStatus

-----------------------------------------------------------------------------
(* The log                                                                 *)

(* What a last line adds to the others, and the run it is of.              *)
RecoveredOf(state, line) ==
    IF line.line = "whole" THEN ApplyEvent(state, line.event) ELSE state
RunsOf(line) == IF line.line = "whole" THEN {line.event.run} ELSE {}

LEMMA Recovers ==
    /\ Recovered = RecoveredOf(disk, tail) /\ Recovered' = RecoveredOf(disk', tail')
    /\ TailRuns = RunsOf(tail) /\ TailRuns' = RunsOf(tail')
BY DEF Recovered, RecoveredOf, TailRuns, RunsOf

LEMMA LineFacts ==
    /\ Clean \in Tails /\ Fragment \in Tails
    /\ RunsOf(Clean) = {} /\ RunsOf(Fragment) = {}
    /\ \A state : RecoveredOf(state, Clean) = state /\ RecoveredOf(state, Fragment) = state
    /\ \A e \in Event : /\ Whole(e) \in Tails /\ RunsOf(Whole(e)) = {e.run}
                        /\ Whole(e) \notin {Clean, Fragment}
                        /\ \A state : RecoveredOf(state, Whole(e)) = ApplyEvent(state, e)
    /\ \A line \in Tails : /\ RunsOf(line) \subseteq Runs
                           /\ line \in {Clean, Fragment} \/ \E e \in Event : line = Whole(e)
BY DEF Clean, Fragment, Whole, Tails, RunsOf, RecoveredOf, Event

(* An event touches one run; a change that the table allows is replayed,   *)
(* and so is the creation of a run that is not there.                      *)
Alike(a, b) == a.status = b.status /\ a.phase = b.phase /\ a.kind = b.kind

LEMMA ReplayFacts ==
    ASSUME NEW state \in Registry, NEW e \in Event
    PROVE  /\ ApplyEvent(state, e) \in Registry
           /\ \A s \in Runs \ {e.run} : ApplyEvent(state, e)[s] = state[s]
           /\ e.type = "subsystem" => ApplyEvent(state, e) = state
           /\ e.type = "run.created" /\ state[e.run] = NoRun =>
                 ApplyEvent(state, e)[e.run] = e.snapshot
           /\ (/\ e.type = "run.changed" /\ state[e.run] \in Run
               /\ e.snapshot.kind = state[e.run].kind
               /\ CanTransition(state[e.run].status, e.snapshot.status))
                 => Alike(ApplyEvent(state, e)[e.run], e.snapshot)
<1>1. e.run \in Runs /\ e.snapshot \in Run /\ e.type \in {"run.created", "run.changed", "subsystem"}
  BY DEF Event
<1>2. state[e.run] \in Run \union {NoRun}
  BY <1>1 DEF Registry
<1>3. Replayed(state[e.run], e) \in Run \union {NoRun}
  <2>1. state[e.run] # NoRun =>
           [state[e.run] EXCEPT !.status = e.snapshot.status, !.phase = e.snapshot.phase] \in Run
    BY <1>1, <1>2 DEF Run
  <2>. QED
    BY <1>1, <1>2, <2>1 DEF Replayed
<1>4. /\ ApplyEvent(state, e) \in Registry
      /\ \A s \in Runs \ {e.run} : ApplyEvent(state, e)[s] = state[s]
      /\ ApplyEvent(state, e)[e.run] = Replayed(state[e.run], e)
  BY <1>1, <1>3 DEF ApplyEvent, Registry
<1>5. e.type = "subsystem" => ApplyEvent(state, e) = state
  BY <1>1 DEF Replayed, ApplyEvent, Registry
<1>6. e.type = "run.created" /\ state[e.run] = NoRun => ApplyEvent(state, e)[e.run] = e.snapshot
  BY <1>4 DEF Replayed
<1>7. ASSUME e.type = "run.changed", state[e.run] \in Run, e.snapshot.kind = state[e.run].kind,
             CanTransition(state[e.run].status, e.snapshot.status)
      PROVE  Alike(ApplyEvent(state, e)[e.run], e.snapshot)
  <2>1. state[e.run] # NoRun
    BY <1>7, NoRunFacts
  <2>2. Replayed(state[e.run], e) = [state[e.run] EXCEPT !.status = e.snapshot.status,
                                                        !.phase = e.snapshot.phase]
    BY <1>7, <2>1 DEF Replayed
  <2>. QED
    BY <1>4, <1>7, <2>2 DEF Alike, Run
<1>. QED
  BY <1>4, <1>5, <1>6, <1>7

-----------------------------------------------------------------------------
(* The inductive invariant                                                 *)

(* No last line is of a run all of whose events are in the log for good.   *)
NotInTail == durable \intersect TailRuns = {}

(* Where a run may be in the constructor's, the recovery's and a           *)
(* component's hands, and what its status then is.                         *)
InHand ==
    /\ process # "booting" => unreconciled = {}
    /\ process # "up" => owned = {} /\ recovering = {}
    /\ owned \intersect recovering = {}
    /\ \A r \in unreconciled : runs[r] \in Run /\ runs[r].status \in InFlight
    /\ \A r \in recovering : runs[r] \in Run /\ runs[r].status \notin TerminalRunStates
    /\ \A r \in owned : runs[r] \in Run

Settled(x) ==
    x = NoRun \/ IsTerminalRunStatus(x.status) \/ x.status \in {"queued", "blocked"}
Pending(x) == x.kind = "external_worker" /\ x.phase = "pending"

(* While the constructor runs, what it has not seen yet is on its list, or *)
(* will be on recovery's.                                                  *)
Listed ==
    process = "booting" =>
        \A r \in durable : Settled(runs[r]) \/ r \in unreconciled \/ Pending(runs[r])

IInv == TypeOK /\ NotInTail /\ InHand /\ Listed /\ LogMirrorsRegistry /\ NoOrphanInFlight

(* The part of the types that a dispatch touches.                          *)
LogTypes ==
    /\ runs \in Registry /\ disk \in Registry /\ tail \in Tails
    /\ sequences \in [Runs -> 0..MaxSequence] /\ faults \in 0..MaxFaults
    /\ durable \subseteq Runs /\ swallowed \subseteq Runs
OtherTypes ==
    /\ process \in {"up", "booting", "down"}
    /\ unreconciled \subseteq Runs /\ recovering \subseteq Runs /\ owned \subseteq Runs
    /\ session \in [Runs -> BOOLEAN] /\ crashes \in 0..MaxCrashes

LEMMA TypesNow == TypeOK <=> LogTypes /\ OtherTypes
BY DEF TypeOK, LogTypes, OtherTypes, Registry
LEMMA TypesNext == TypeOK' <=> LogTypes' /\ OtherTypes'
BY DEF TypeOK, LogTypes, OtherTypes, Registry

LEMMA RecoveredType == ASSUME LogTypes PROVE Recovered \in Registry
<1>1. CASE tail \in {Clean, Fragment}
  BY <1>1, Recovers, LineFacts DEF LogTypes
<1>2. ASSUME NEW e \in Event, tail = Whole(e) PROVE Recovered \in Registry
  BY <1>2, Recovers, LineFacts, ReplayFacts DEF LogTypes
<1>. QED
  BY <1>1, <1>2, LineFacts DEF LogTypes

(* A line is appended, or torn: the runs it costs their events, and what a *)
(* replay makes of the log for the others.                                 *)
LEMMA AppendFacts ==
    ASSUME LogTypes, NEW e \in Event, AppendLine(e)
    PROVE  /\ disk' \in Registry /\ tail' = Clean /\ swallowed' \subseteq Runs
           /\ TailRuns' = {} /\ Recovered' = disk' /\ LostBy(e) \subseteq TailRuns \union {e.run}
           /\ \A s \in Runs \ (LostBy(e) \union TailRuns) :
                 /\ s # e.run => Recovered'[s] = Recovered[s]
                 /\ s = e.run => Recovered'[s] = ApplyEvent(Recovered, e)[s]
           /\ TailRuns \subseteq LostBy(e)
<1>1. /\ tail' = Clean
      /\ \/ tail = Clean /\ disk' = ApplyEvent(disk, e) /\ swallowed' = swallowed
         \/ tail # Clean /\ disk' = disk /\ swallowed' = swallowed \union TailRuns \union {e.run}
  BY DEF AppendLine
<1>2. e.run \in Runs /\ TailRuns \subseteq Runs /\ disk \in Registry /\ tail \in Tails
  BY Recovers, LineFacts DEF LogTypes, Event
<1>3. TailRuns' = {} /\ Recovered' = disk'
  BY <1>1, Recovers, LineFacts
<1>4. CASE tail = Clean
  <2>1. TailRuns = {} /\ Recovered = disk
    BY <1>4, Recovers, LineFacts
  <2>2. disk' \in Registry /\ \A s \in Runs \ {e.run} : disk'[s] = disk[s]
    BY <1>1, <1>2, <1>4, ReplayFacts
  <2>. QED
    BY <1>1, <1>2, <1>3, <1>4, <2>1, <2>2 DEF LostBy, LogTypes
<1>5. CASE tail # Clean
  <2>1. \A s \in Runs \ TailRuns : Recovered[s] = disk[s]
    BY <1>2, Recovers, LineFacts, ReplayFacts
  <2>2. LostBy(e) = TailRuns \union {e.run}
    BY <1>5 DEF LostBy
  <2>. QED
    BY <1>1, <1>2, <1>3, <1>5, <2>1, <2>2 DEF LogTypes
<1>. QED
  BY <1>4, <1>5

LEMMA TearFacts ==
    ASSUME LogTypes, NEW e \in Event, TearLine(e)
    PROVE  /\ disk' = disk /\ tail' \in Tails /\ swallowed' = swallowed
           /\ TailRuns' \subseteq TailRuns \union {e.run}
           /\ \A s \in Runs \ TailRuns :
                 /\ s # e.run => Recovered'[s] = Recovered[s]
                 /\ s = e.run => Recovered'[s] \in {Recovered[s], ApplyEvent(Recovered, e)[s]}
<1>1. /\ UNCHANGED <<disk, swallowed>>
      /\ tail' = tail \/ tail' = Fragment \/ (tail = Clean /\ tail' = Whole(e))
  BY DEF TearLine
<1>2. e.run \in Runs /\ TailRuns \subseteq Runs /\ disk \in Registry /\ tail \in Tails
  BY Recovers, LineFacts DEF LogTypes, Event
<1>3. CASE tail' = tail
  BY <1>1, <1>2, <1>3, Recovers
<1>4. CASE tail' = Fragment
  <2>1. TailRuns' = {} /\ Recovered' = disk
    BY <1>1, <1>4, Recovers, LineFacts
  <2>2. \A s \in Runs \ TailRuns : Recovered[s] = disk[s]
    BY <1>2, Recovers, LineFacts, ReplayFacts
  <2>. QED
    BY <1>1, <1>4, <2>1, <2>2, LineFacts
<1>5. CASE tail = Clean /\ tail' = Whole(e)
  <2>1. TailRuns' = {e.run} /\ Recovered' = ApplyEvent(disk, e) /\ Recovered = disk
    BY <1>1, <1>5, Recovers, LineFacts
  <2>. QED
    BY <1>1, <1>2, <1>5, <2>1, LineFacts, ReplayFacts
<1>. QED
  BY <1>1, <1>3, <1>4, <1>5

-----------------------------------------------------------------------------
(* Dispatch                                                                *)

(* A new run, or a change that the table allows.                           *)
Legal(type, r, new) ==
    \/ type = "run.created" /\ runs[r] = NoRun
    \/ /\ type = "run.changed" /\ runs[r] \in Run /\ new.kind = runs[r].kind
       /\ CanTransition(runs[r].status, new.status)

Mirrored == \A s \in durable : Alike(Recovered[s], runs[s])

LEMMA MirroredIs == (process # "down" => Mirrored) <=> LogMirrorsRegistry
BY DEF Mirrored, LogMirrorsRegistry, Alike

(* What replay makes of a legal change of a run that the log mirrors.      *)
LEMMA LegalReplay ==
    ASSUME LogTypes, NEW r \in Runs, NEW new \in Run, NEW type \in {"run.created", "run.changed"},
           Legal(type, r, new), Alike(Recovered[r], runs[r])
    PROVE  Alike(ApplyEvent(Recovered, EventOf(type, r, new))[r], new)
<1>. DEFINE e == EventOf(type, r, new)
<1>1. e \in Event /\ e.type = type /\ e.run = r /\ e.snapshot = new
  BY DEF EventOf, Event
<1>2. Recovered \in Registry /\ Recovered[r] \in Run \union {NoRun} /\ runs[r] \in Run \union {NoRun}
  BY RecoveredType DEF LogTypes, Registry
<1>. HIDE DEF e
<1>3. CASE type = "run.created" /\ runs[r] = NoRun
  <2>1. Recovered[r] = NoRun
    BY <1>2, <1>3, NoRunFacts DEF Alike
  <2>2. ApplyEvent(Recovered, e)[r] = new
    BY <1>1, <1>2, <1>3, <2>1, ReplayFacts
  <2>. QED
    BY <2>2 DEF Alike, e
<1>4. CASE type = "run.changed" /\ runs[r] \in Run
  <2>1. Recovered[r] \in Run
    BY <1>2, <1>4, NoRunFacts DEF Alike
  <2>2. new.kind = Recovered[r].kind /\ CanTransition(Recovered[r].status, new.status)
    BY <1>4, NoRunFacts DEF Legal, Alike
  <2>3. Alike(ApplyEvent(Recovered, e)[r], new)
    BY <1>1, <1>2, <1>4, <2>1, <2>2, ReplayFacts
  <2>. QED
    BY <2>3 DEF e
<1>. QED
  BY <1>3, <1>4 DEF Legal

LEMMA DispatchFacts ==
    ASSUME LogTypes, NotInTail, Mirrored, NEW r \in Runs, NEW new \in Run,
           NEW type \in {"run.created", "run.changed"}, Legal(type, r, new),
           Dispatch(type, r, new)
    PROVE  /\ LogTypes' /\ NotInTail' /\ Mirrored' /\ durable' \subseteq durable
           /\ \A s \in Runs \ {r} : runs'[s] = runs[s]
           /\ \A s \in durable \ {r} : Recovered'[s] = Recovered[s]
           /\ runs'[r] \in Run /\ crashes' = crashes
           /\ r \in durable' => runs'[r] = new
           /\ runs'[r].status # new.status => CanTransition(new.status, "failed") /\ new.status # "failed"
           /\ DispatchThrows(EventOf(type, r, new), [runs EXCEPT ![r] = new]) => r \notin durable'
<1>. DEFINE e == EventOf(type, r, new)
            registry == [runs EXCEPT ![r] = new]
<1>1. e \in Event /\ e.type = type /\ e.run = r /\ e.snapshot = new
  BY DEF EventOf, Event
<1>2. registry \in Registry /\ registry[r] = new /\ \A s \in Runs \ {r} : registry[s] = runs[s]
  BY DEF LogTypes, Registry
<1>3. Dispatched(e, registry) \/ DispatchedCritical(e, registry) \/ DispatchThrows(e, registry)
  BY DEF Dispatch
<1>4. r \in durable => Alike(ApplyEvent(Recovered, e)[r], new)
  BY LegalReplay DEF Mirrored
<1>5. TailRuns \subseteq Runs /\ durable \intersect TailRuns = {}
  BY Recovers, LineFacts DEF LogTypes, NotInTail
<1>s. NextSequence(r) => sequences' \in [Runs -> 0..MaxSequence]
  BY RunEventsAssumption DEF NextSequence, LogTypes
<1>f. faults < MaxFaults /\ faults' = faults + 1 => faults' \in 0..MaxFaults
  BY RunEventsAssumption DEF LogTypes
<1>. HIDE DEF e, registry
<1>6. CASE Dispatched(e, registry)
  <2>1. /\ NextSequence(r) /\ AppendLine(e) /\ durable' = durable \ LostBy(e) /\ runs' = registry
        /\ UNCHANGED <<faults, crashes>>
    BY <1>1, <1>6 DEF Dispatched, bookkeeping
  <2>2. /\ disk' \in Registry /\ tail' = Clean /\ swallowed' \subseteq Runs /\ TailRuns' = {}
        /\ \A s \in durable' : /\ s # r => Recovered'[s] = Recovered[s]
                               /\ s = r => Recovered'[s] = ApplyEvent(Recovered, e)[s]
        /\ \A s \in durable \ {r} : Recovered'[s] = Recovered[s]
    BY <1>1, <1>5, <2>1, AppendFacts DEF LogTypes
  <2>3. LogTypes' /\ NotInTail'
    BY <1>2, <1>s, <2>1, <2>2, LineFacts DEF LogTypes, NotInTail
  <2>4. Mirrored'
    BY <1>2, <1>4, <2>1, <2>2 DEF Mirrored, LogTypes
  <2>5. r \in durable' => ~DispatchThrows(e, registry)
    BY <1>1 DEF DispatchThrows
  <2>. QED
    BY <1>2, <2>1, <2>2, <2>3, <2>4, <2>5 DEF e, registry
<1>7. CASE DispatchedCritical(e, registry)
  <2>0. /\ NextSequence(e.run) /\ AppendLine(e) /\ durable' = durable \ (LostBy(e) \union {e.run})
        /\ faults < MaxFaults /\ faults' = faults + 1 /\ crashes' = crashes
        /\ registry[e.run].status # "failed" /\ CanTransition(registry[e.run].status, "failed")
        /\ runs' = [registry EXCEPT ![e.run].status = "failed", ![e.run].phase = "critical"]
    BY <1>7, Zenon DEF DispatchedCritical
  <2>1. /\ NextSequence(r) /\ AppendLine(e) /\ durable' = durable \ (LostBy(e) \union {r})
        /\ faults < MaxFaults /\ faults' = faults + 1 /\ crashes' = crashes
        /\ new.status # "failed" /\ CanTransition(new.status, "failed")
        /\ runs' = [registry EXCEPT ![r].status = "failed", ![r].phase = "critical"]
    <3>1. e.run = r /\ registry[r] = new
      BY <1>1, <1>2
    <3>2. new.status # "failed" /\ CanTransition(new.status, "failed")
      BY <2>0, <3>1
    <3>3. NextSequence(r) /\ AppendLine(e) /\ durable' = durable \ (LostBy(e) \union {r})
      BY <2>0, <3>1
    <3>4. runs' = [registry EXCEPT ![r].status = "failed", ![r].phase = "critical"]
      BY <2>0, <3>1
    <3>. QED
      BY <2>0, <3>2, <3>3, <3>4
  <2>2. /\ disk' \in Registry /\ tail' = Clean /\ swallowed' \subseteq Runs /\ TailRuns' = {}
        /\ \A s \in durable \ {r} : Recovered'[s] = Recovered[s]
    BY <1>1, <1>5, <2>1, AppendFacts DEF LogTypes
  <2>3. runs' \in Registry /\ runs'[r] \in Run /\ \A s \in Runs \ {r} : runs'[s] = runs[s]
    <3>1. [new EXCEPT !.status = "failed", !.phase = "critical"] \in Run
      BY TransitionFacts DEF Run, Phases
    <3>2. runs' = [registry EXCEPT ![r] = [new EXCEPT !.status = "failed", !.phase = "critical"]]
      BY <1>2, <2>1
    <3>. QED
      BY <1>2, <3>1, <3>2 DEF Registry
  <2>4. LogTypes' /\ NotInTail'
    BY <1>s, <1>f, <2>1, <2>2, <2>3, LineFacts DEF LogTypes, NotInTail
  <2>5. Mirrored'
    BY <2>1, <2>2, <2>3 DEF Mirrored, LogTypes
  <2>. QED
    BY <2>1, <2>2, <2>3, <2>4, <2>5
<1>8. CASE DispatchThrows(e, registry)
  <2>1. /\ NextSequence(r) /\ TearLine(e) /\ durable' = durable \ (TailRuns \union {r})
        /\ faults < MaxFaults /\ faults' = faults + 1 /\ crashes' = crashes /\ runs' = registry
    BY <1>1, <1>8 DEF DispatchThrows
  <2>2. /\ disk' \in Registry /\ tail' \in Tails /\ swallowed' \subseteq Runs
        /\ TailRuns' \subseteq TailRuns \union {r}
        /\ \A s \in durable \ {r} : Recovered'[s] = Recovered[s]
    BY <1>1, <1>5, <2>1, TearFacts DEF LogTypes
  <2>3. LogTypes' /\ NotInTail'
    BY <1>2, <1>s, <1>f, <2>1, <2>2 DEF LogTypes, NotInTail
  <2>4. Mirrored'
    BY <1>2, <2>1, <2>2 DEF Mirrored, LogTypes
  <2>. QED
    BY <1>2, <2>1, <2>2, <2>3, <2>4
<1>. QED
  BY <1>3, <1>6, <1>7, <1>8
(* A dispatch leaves a terminal run its status: the table has no step out  *)
(* of it, and the bus forces no terminal run to failed.                    *)
LEMMA TerminalDispatched ==
    ASSUME LogTypes, NotInTail, Mirrored, NEW r \in Runs, NEW new \in Run,
           NEW type \in {"run.created", "run.changed"}, Legal(type, r, new),
           Dispatch(type, r, new), IsTerminalRunStatus(runs[r].status)
    PROVE  runs'[r].status = runs[r].status
<1>1. runs[r].status \in TerminalRunStates
  BY DEF IsTerminalRunStatus
<1>2. CanTransition(runs[r].status, new.status)
  BY <1>1, NoRunFacts, TransitionFacts DEF Legal
<1>3. new.status = runs[r].status
  BY <1>1, <1>2, TableFacts, NoRunFacts
<1>4. CanTransition(new.status, "failed") => new.status = "failed"
  BY <1>1, <1>3, TableFacts, TransitionFacts
<1>. QED
  BY <1>3, <1>4, DispatchFacts

(* What a run known to the process, or to the next, keeps in a step.       *)
Stays(r) ==
    r \in durable /\ IsTerminalRunStatus(Known(r).status) => Known(r)'.status = Known(r).status
Keeps == IInv' /\ \A r \in Runs : Stays(r)

-----------------------------------------------------------------------------
(* Components that drive runs                                              *)

LEMMA MovedFacts ==
    ASSUME NEW x \in Run, NEW to \in RunStatus
    PROVE  /\ Moved(x, to) \in Run /\ Moved(x, to).status = to /\ Moved(x, to).kind = x.kind
           /\ [x EXCEPT !.phase = "ordinary"] \in Run /\ [x EXCEPT !.phase = "reattached"] \in Run
           /\ [x EXCEPT !.status = to, !.phase = "ordinary"] \in Run
           /\ [x EXCEPT !.phase = "pending"] \in Run
BY DEF Moved, Run, Phases, Workers

(* A dispatch in a running process, for a run that was not there or that   *)
(* is in a component's or in recovery's hands.                             *)
LEMMA UpDispatchKeeps ==
    ASSUME IInv, process = "up", process' = "up", NEW r \in Runs, NEW new \in Run,
           NEW type \in {"run.created", "run.changed"}, Legal(type, r, new),
           Dispatch(type, r, new),
           UNCHANGED <<unreconciled, session>>,
           \/ owned' = owned \union {r} /\ recovering' = recovering \ {r}
           \/ /\ owned' = owned /\ recovering' = recovering \ {r}
              /\ r \in durable' => Settled(new)
    PROVE  Keeps
<1>1. LogTypes /\ OtherTypes /\ NotInTail /\ Mirrored
  BY TypesNow, MirroredIs DEF IInv
<1>2. /\ LogTypes' /\ NotInTail' /\ Mirrored' /\ durable' \subseteq durable
      /\ \A s \in Runs \ {r} : runs'[s] = runs[s]
      /\ runs'[r] \in Run /\ crashes' = crashes /\ (r \in durable' => runs'[r] = new)
  BY <1>1, DispatchFacts
<1>3. TypeOK'
  <2>1. OtherTypes'
    BY <1>1, <1>2 DEF OtherTypes
  <2>. QED
    BY <1>2, <2>1, TypesNext
<1>4. InHand'
  BY <1>1, <1>2 DEF IInv, InHand, OtherTypes
<1>5. Listed' /\ LogMirrorsRegistry'
  BY <1>2 DEF Listed, Mirrored, LogMirrorsRegistry, Alike
<1>6. NoOrphanInFlight'
  BY <1>1, <1>2 DEF IInv, NoOrphanInFlight, LogTypes, Settled
<1>7. \A s \in Runs : Stays(s)
  BY <1>1, <1>2, TerminalDispatched DEF Stays, Known
<1>. QED
  BY <1>2, <1>3, <1>4, <1>5, <1>6, <1>7 DEF IInv, Keeps

LEMMA CreateKeeps == ASSUME IInv, NEW r \in Runs, Create(r) PROVE Keeps
<1>. DEFINE At(new) == EventOf("run.created", r, new)
            With(new) == [runs EXCEPT ![r] = new]
<1>1. PICK new \in NewRuns :
         \/ /\ Dispatched(At(new), With(new)) \/ DispatchedCritical(At(new), With(new))
            /\ owned' = owned \union {r}
         \/ DispatchThrows(At(new), With(new)) /\ UNCHANGED owned
  BY DEF Create
<1>2. /\ process = "up" /\ process' = "up" /\ runs[r] = NoRun
      /\ UNCHANGED <<unreconciled, recovering, session>>
  BY DEF Create
<1>3. new \in Run
  BY DEF NewRuns, Run, RunKinds, RunStatus, Phases, Workers
<1>4. r \notin recovering
  BY <1>2, NoRunFacts DEF IInv, InHand
<1>5. Legal("run.created", r, new) /\ Dispatch("run.created", r, new)
  BY <1>1, <1>2 DEF Legal, Dispatch
<1>6. DispatchThrows(At(new), With(new)) => r \notin durable'
  <2>1. LogTypes /\ NotInTail /\ Mirrored
    BY <1>2, TypesNow, MirroredIs DEF IInv
  <2>. QED
    BY <1>3, <1>5, <2>1, DispatchFacts
<1>. HIDE DEF At, With
<1>. QED
  BY <1>1, <1>2, <1>3, <1>4, <1>5, <1>6, UpDispatchKeeps

LEMMA TransitionKeeps == ASSUME IInv, NEW r \in Runs, Transition(r) PROVE Keeps
<1>1. PICK to \in RunStatus :
         CanTransition(runs[r].status, to) /\ Dispatch("run.changed", r, Moved(runs[r], to))
  BY DEF Transition
<1>2. /\ process = "up" /\ process' = "up" /\ r \in owned
      /\ UNCHANGED <<unreconciled, recovering, owned, session>>
  BY DEF Transition
<1>3. runs[r] \in Run /\ r \notin recovering
  BY <1>2 DEF IInv, InHand
<1>4. PICK new \in Run : new = Moved(runs[r], to)
  BY <1>3, MovedFacts
<1>5. Legal("run.changed", r, new) /\ Dispatch("run.changed", r, new)
  BY <1>1, <1>3, <1>4, MovedFacts DEF Legal
<1>. QED
  BY <1>2, <1>3, <1>5, UpDispatchKeeps

LEMMA UpdateKeeps == ASSUME IInv, NEW r \in Runs, Update(r) PROVE Keeps
<1>1. /\ process = "up" /\ process' = "up" /\ r \in owned
      /\ Dispatch("run.changed", r, [runs[r] EXCEPT !.phase = "ordinary"])
      /\ UNCHANGED <<unreconciled, recovering, owned, session>>
  BY DEF Update
<1>2. runs[r] \in Run /\ r \notin recovering
  BY <1>1 DEF IInv, InHand
<1>3. PICK new \in Run : new = [runs[r] EXCEPT !.phase = "ordinary"]
  BY <1>2, MovedFacts, TransitionFacts
<1>4. new.status = runs[r].status /\ new.kind = runs[r].kind /\ runs[r].status \in RunStatus
  BY <1>2, <1>3 DEF Run
<1>5. Legal("run.changed", r, new) /\ Dispatch("run.changed", r, new)
  BY <1>1, <1>2, <1>3, <1>4, TableFacts DEF Legal
<1>. QED
  BY <1>1, <1>2, <1>5, UpDispatchKeeps

LEMMA RecoverWorkerKeeps == ASSUME IInv, NEW r \in Runs, RecoverWorker(r) PROVE Keeps
<1>1. /\ process = "up" /\ process' = "up" /\ r \in recovering /\ recovering' = recovering \ {r}
      /\ UNCHANGED <<unreconciled, session>>
      /\ \/ /\ Dispatch("run.changed", r, [runs[r] EXCEPT !.phase = "reattached"])
            /\ owned' = owned \union {r}
         \/ /\ Dispatch("run.changed", r, [runs[r] EXCEPT !.status = "lost", !.phase = "ordinary"])
            /\ owned' = owned
  BY DEF RecoverWorker
<1>2. runs[r] \in Run /\ runs[r].status \in RunStatus \ TerminalRunStates
  BY <1>1, NoRunFacts DEF IInv, InHand
<1>3. CASE /\ Dispatch("run.changed", r, [runs[r] EXCEPT !.phase = "reattached"])
           /\ owned' = owned \union {r}
  <2>1. PICK new \in Run : new = [runs[r] EXCEPT !.phase = "reattached"]
    BY <1>2, MovedFacts, TransitionFacts
  <2>2. new.status = runs[r].status /\ new.kind = runs[r].kind
    BY <1>2, <2>1 DEF Run
  <2>3. Legal("run.changed", r, new) /\ Dispatch("run.changed", r, new)
    BY <1>2, <1>3, <2>1, <2>2, TableFacts DEF Legal
  <2>. QED
    BY <1>1, <1>3, <2>3, UpDispatchKeeps
<1>4. CASE /\ Dispatch("run.changed", r, [runs[r] EXCEPT !.status = "lost", !.phase = "ordinary"])
           /\ owned' = owned
  <2>1. PICK new \in Run : new = [runs[r] EXCEPT !.status = "lost", !.phase = "ordinary"]
    BY <1>2, MovedFacts, TransitionFacts
  <2>2. new.status = "lost" /\ new.kind = runs[r].kind
    BY <1>2, <2>1 DEF Run
  <2>3. Legal("run.changed", r, new) /\ Dispatch("run.changed", r, new) /\ Settled(new)
    BY <1>2, <1>4, <2>1, <2>2, TableFacts, TransitionFacts DEF Legal, Settled, IsTerminalRunStatus
  <2>. QED
    BY <1>1, <1>4, <2>3, UpDispatchKeeps
<1>. QED
  BY <1>1, <1>3, <1>4

(* Steps that leave the runs alone, and what is recovered of them too.     *)
LEMMA QuietKeeps ==
    ASSUME IInv, LogTypes', OtherTypes', NotInTail', durable' \subseteq durable,
           \A s \in durable' : Recovered'[s] = Recovered[s],
           process = "up" \/ Recovered' = Recovered,
           UNCHANGED <<process, runs, unreconciled, recovering, owned>>
    PROVE  Keeps
<1>1. TypeOK' /\ InHand' /\ Listed' /\ NoOrphanInFlight'
  BY TypesNext DEF IInv, InHand, Listed, NoOrphanInFlight
<1>2. LogMirrorsRegistry'
  BY DEF IInv, LogMirrorsRegistry
<1>3. \A s \in Runs : Stays(s)
  BY DEF Stays, Known
<1>. QED
  BY <1>1, <1>2, <1>3 DEF IInv, Keeps

LEMMA EmitSubsystemKeeps == ASSUME IInv, NEW r \in Runs, EmitSubsystem(r) PROVE Keeps
<1>1. /\ process = "up" /\ r \in owned
      /\ UNCHANGED <<process, runs, unreconciled, recovering, owned, session, crashes>>
  BY DEF EmitSubsystem
<1>2. PICK e \in Event : e = EventOf("subsystem", r, runs[r])
  BY <1>1 DEF EventOf, Event, IInv, InHand
<1>3. e.run = r /\ e.type = "subsystem"
  BY <1>2 DEF EventOf
<1>4. \/ NextSequence(r) /\ AppendLine(e) /\ faults' = faults /\ durable' = durable \ LostBy(e)
      \/ /\ faults < MaxFaults /\ faults' = faults + 1 /\ NextSequence(r) /\ TearLine(e)
         /\ durable' = durable \ (TailRuns \union {r})
  BY <1>2 DEF EmitSubsystem
<1>5. /\ LogTypes /\ OtherTypes /\ NotInTail /\ ApplyEvent(Recovered, e) = Recovered
      /\ TailRuns \subseteq Runs
  <2>1. LogTypes /\ OtherTypes /\ NotInTail
    BY TypesNow DEF IInv
  <2>2. Recovered \in Registry
    BY <2>1, RecoveredType
  <2>. QED
    BY <1>3, <2>1, <2>2, ReplayFacts, Recovers, LineFacts DEF LogTypes
<1>6. /\ disk' \in Registry /\ tail' \in Tails /\ swallowed' \subseteq Runs
      /\ durable' \subseteq durable /\ \A s \in durable' : Recovered'[s] = Recovered[s]
      /\ NotInTail'
  <2>1. CASE AppendLine(e) /\ durable' = durable \ LostBy(e)
    <3>1. /\ disk' \in Registry /\ tail' = Clean /\ swallowed' \subseteq Runs /\ TailRuns' = {}
          /\ \A s \in Runs \ (LostBy(e) \union TailRuns) : Recovered'[s] = Recovered[s]
      BY <1>3, <1>5, <2>1, AppendFacts
    <3>. QED
      BY <1>5, <2>1, <3>1, LineFacts DEF NotInTail, LogTypes
  <2>2. CASE TearLine(e) /\ durable' = durable \ (TailRuns \union {r})
    BY <1>3, <1>5, <2>2, TearFacts DEF NotInTail, LogTypes
  <2>. QED
    BY <1>4, <2>1, <2>2
<1>7. LogTypes' /\ OtherTypes'
  <2>1. sequences' \in [Runs -> 0..MaxSequence] /\ faults' \in 0..MaxFaults
    BY <1>4, <1>5, RunEventsAssumption DEF NextSequence, LogTypes
  <2>. QED
    BY <1>1, <1>5, <1>6, <2>1 DEF LogTypes, OtherTypes
<1>. QED
  BY <1>1, <1>6, <1>7, QuietKeeps

LEMMA SessionStartsKeeps == ASSUME IInv, NEW r \in Runs, SessionStarts(r) PROVE Keeps
<1>1. /\ session' = [session EXCEPT ![r] = TRUE]
      /\ UNCHANGED <<process, runs, sequences, disk, tail, unreconciled, recovering, owned,
                     faults, crashes, durable, swallowed>>
  BY DEF SessionStarts, bookkeeping
<1>2. LogTypes' /\ OtherTypes' /\ Recovered' = Recovered /\ NotInTail'
  BY <1>1, TypesNow DEF IInv, LogTypes, OtherTypes, Recovered, NotInTail, TailRuns
<1>. QED
  BY <1>1, <1>2, QuietKeeps

LEMMA SessionEndsKeeps == ASSUME IInv, NEW r \in Runs, SessionEnds(r) PROVE Keeps
<1>1. /\ session' = [session EXCEPT ![r] = FALSE]
      /\ UNCHANGED <<process, runs, sequences, disk, tail, unreconciled, recovering, owned,
                     faults, crashes, durable, swallowed>>
  BY DEF SessionEnds, bookkeeping
<1>2. LogTypes' /\ OtherTypes' /\ Recovered' = Recovered /\ NotInTail'
  BY <1>1, TypesNow DEF IInv, LogTypes, OtherTypes, Recovered, NotInTail, TailRuns
<1>. QED
  BY <1>1, <1>2, QuietKeeps

-----------------------------------------------------------------------------
(* Crash, restart and the constructor                                      *)

(* The constructor has been through its list: what is in flight waits for  *)
(* its worker, and recovery takes it over.                                 *)
LEMMA BootDoneKeeps == ASSUME IInv, BootDone PROVE Keeps
<1>1. /\ process = "booting" /\ unreconciled = {} /\ process' = "up"
      /\ recovering' = {r \in Runs : /\ runs[r].kind = "external_worker"
                                     /\ runs[r].phase = "pending"
                                     /\ ~ IsTerminalRunStatus(runs[r].status)}
      /\ UNCHANGED <<runs, sequences, disk, tail, unreconciled, owned, session,
                     faults, crashes, durable, swallowed>>
  BY DEF BootDone, bookkeeping
<1>2. LogTypes /\ OtherTypes /\ NotInTail /\ Mirrored /\ Recovered' = Recovered
  BY <1>1, TypesNow, MirroredIs DEF IInv, Recovered
<1>3. owned = {}
  BY <1>1 DEF IInv, InHand
<1>4. TypeOK' /\ NotInTail'
  BY <1>1, <1>2, TypesNext DEF LogTypes, OtherTypes, NotInTail, TailRuns
<1>5. InHand'
  <2>1. \A r \in recovering' : runs[r] \in Run /\ runs[r].status \notin TerminalRunStates
    BY <1>1, <1>2, NoRunFacts DEF LogTypes, Registry, IsTerminalRunStatus
  <2>. QED
    BY <1>1, <1>3, <2>1 DEF InHand
<1>6. Listed' /\ LogMirrorsRegistry'
  BY <1>1, <1>2 DEF Listed, Mirrored, LogMirrorsRegistry, Alike
<1>7. NoOrphanInFlight'
  <2>1. \A r \in durable : Settled(runs[r]) \/ Pending(runs[r])
    BY <1>1 DEF IInv, Listed
  <2>2. \A r \in durable : r \in Runs
    BY <1>2 DEF LogTypes
  <2>. QED
    BY <1>1, <2>1, <2>2 DEF NoOrphanInFlight, Settled, Pending
<1>8. \A s \in Runs : Stays(s)
  BY <1>1, <1>2 DEF Stays, Known, Mirrored, Alike
<1>. QED
  BY <1>4, <1>5, <1>6, <1>7, <1>8 DEF IInv, Keeps

(* One run is reconciled: it has failed, or waits for its worker.          *)
LEMMA ReconcileOneKeeps == ASSUME IInv, NEW r \in Runs, ReconcileOne(r) PROVE Keeps
<1>1. /\ process = "booting" /\ process' = "booting" /\ r \in unreconciled
      /\ Dispatch("run.changed", r, Reconciled(runs[r])) /\ unreconciled' = unreconciled \ {r}
      /\ UNCHANGED <<recovering, owned, session>>
  BY DEF ReconcileOne
<1>2. LogTypes /\ OtherTypes /\ NotInTail /\ Mirrored
  BY <1>1, TypesNow, MirroredIs DEF IInv
<1>3. /\ runs[r] \in Run /\ runs[r].status \in InFlight /\ owned = {} /\ recovering = {}
      /\ runs[r].status \in RunStatus /\ runs[r].status \notin TerminalRunStates
  BY <1>1, TransitionFacts DEF IInv, InHand
<1>4. PICK new \in Run : new = Reconciled(runs[r])
  BY <1>3, MovedFacts, TransitionFacts DEF Reconciled
<1>5. /\ new.kind = runs[r].kind /\ CanTransition(runs[r].status, new.status)
      /\ Settled(new) \/ Pending(new)
  <2>1. CASE runs[r].kind = "external_worker"
    <3>1. new = [runs[r] EXCEPT !.phase = "pending"]
      BY <1>4, <2>1 DEF Reconciled
    <3>2. new.kind = runs[r].kind /\ new.status = runs[r].status /\ new.phase = "pending"
      BY <1>3, <3>1 DEF Run
    <3>. QED
      BY <1>3, <2>1, <3>2, TableFacts DEF Pending
  <2>2. CASE runs[r].kind # "external_worker"
    <3>1. new = [runs[r] EXCEPT !.status = "failed", !.phase = "ordinary"]
      BY <1>4, <2>2 DEF Reconciled
    <3>2. new.kind = runs[r].kind /\ new.status = "failed"
      BY <1>3, <3>1 DEF Run
    <3>. QED
      BY <1>3, <3>2, TableFacts, TransitionFacts DEF Settled, IsTerminalRunStatus
  <2>. QED
    BY <2>1, <2>2
<1>6. Legal("run.changed", r, new) /\ Dispatch("run.changed", r, new)
  BY <1>1, <1>3, <1>4, <1>5 DEF Legal
<1>7. /\ LogTypes' /\ NotInTail' /\ Mirrored' /\ durable' \subseteq durable
      /\ \A s \in Runs \ {r} : runs'[s] = runs[s]
      /\ \A s \in durable \ {r} : Recovered'[s] = Recovered[s]
      /\ runs'[r] \in Run /\ crashes' = crashes /\ (r \in durable' => runs'[r] = new)
  BY <1>2, <1>6, DispatchFacts
<1>8. TypeOK'
  BY <1>1, <1>2, <1>7, TypesNext DEF OtherTypes
<1>9. InHand'
  <2>1. \A s \in unreconciled' : runs'[s] \in Run /\ runs'[s].status \in InFlight
    BY <1>1, <1>2, <1>7 DEF IInv, InHand, OtherTypes
  <2>. QED
    BY <1>1, <1>3, <2>1 DEF InHand
<1>10. Listed'
  BY <1>1, <1>2, <1>5, <1>7 DEF IInv, Listed, LogTypes
<1>11. LogMirrorsRegistry' /\ NoOrphanInFlight'
  BY <1>1, <1>7 DEF Mirrored, LogMirrorsRegistry, Alike, NoOrphanInFlight
<1>12. \A s \in Runs : Stays(s)
  <2>1. r \in durable => ~ IsTerminalRunStatus(Recovered[r].status)
    BY <1>2, <1>3 DEF Mirrored, Alike, IsTerminalRunStatus
  <2>. QED
    BY <1>1, <1>7, <2>1 DEF Stays, Known
<1>. QED
  BY <1>7, <1>8, <1>9, <1>10, <1>11, <1>12 DEF IInv, Keeps

(* A crash takes what is in memory.  What the next process knows of a run  *)
(* is what the log kept; the line being written may be the first, or not,  *)
(* to tell of a change that the table allowed.                             *)
LEMMA CrashKeeps == ASSUME IInv, Crash PROVE Keeps
<1>1. /\ process # "down" /\ process' = "down" /\ crashes < MaxCrashes /\ crashes' = crashes + 1
      /\ runs' = [r \in Runs |-> NoRun] /\ sequences' = [r \in Runs |-> 0]
      /\ unreconciled' = {} /\ recovering' = {} /\ owned' = {}
      /\ UNCHANGED <<session, faults>>
  BY DEF Crash
<1>2. LogTypes /\ OtherTypes /\ NotInTail /\ Mirrored
  BY <1>1, TypesNow, MirroredIs DEF IInv
<1>3. \A r \in durable : r \in Runs /\ r \notin TailRuns /\ Alike(Recovered[r], runs[r])
  BY <1>2 DEF LogTypes, NotInTail, Mirrored
<1>4. /\ disk' = disk /\ tail' \in Tails /\ swallowed' = swallowed
      /\ durable' \subseteq durable /\ NotInTail'
      /\ \A r \in durable : IsTerminalRunStatus(Known(r).status) =>
                             Recovered'[r].status = Known(r).status
  <2>1. CASE UNCHANGED <<disk, tail, swallowed, durable>>
    <3>1. Recovered' = Recovered /\ NotInTail'
      BY <1>2, <2>1 DEF Recovered, NotInTail, TailRuns
    <3>. QED
      BY <1>2, <1>3, <2>1, <3>1 DEF LogTypes, Known, Alike
  <2>2. ASSUME NEW e \in LinesBeingWritten, process = "up",
               CanTransition(runs[e.run].status, e.snapshot.status),
               TearLine(e), durable' = durable \ (TailRuns \union {e.run})
        PROVE  <1>4
    <3>1. PICK r \in owned, to \in RunStatus : e = EventOf("run.changed", r, Moved(runs[r], to))
      BY DEF LinesBeingWritten
    <3>2. r \in Runs /\ runs[r] \in Run
      BY <1>2, <3>1 DEF OtherTypes, IInv, InHand
    <3>3. PICK new \in Run : new = Moved(runs[r], to)
      BY <3>2, MovedFacts
    <3>4. e = EventOf("run.changed", r, new) /\ e.run = r /\ e.snapshot = new /\ e \in Event
      BY <3>1, <3>2, <3>3 DEF EventOf, Event
    <3>5. Legal("run.changed", r, new)
      BY <2>2, <3>2, <3>3, <3>4, MovedFacts DEF Legal
    <3>6. /\ disk' = disk /\ tail' \in Tails /\ swallowed' = swallowed
          /\ TailRuns' \subseteq TailRuns \union {r}
          /\ \A s \in durable \ {r} : Recovered'[s] = Recovered[s]
          /\ r \in durable => Recovered'[r] \in {Recovered[r], ApplyEvent(Recovered, e)[r]}
      BY <1>2, <1>3, <2>2, <3>4, TearFacts
    <3>7. r \in durable => Alike(ApplyEvent(Recovered, e)[r], new)
      BY <1>2, <1>3, <3>2, <3>4, <3>5, LegalReplay
    <3>8. IsTerminalRunStatus(runs[r].status) => new.status = runs[r].status
      BY <2>2, <3>4, TableFacts, NoRunFacts DEF IsTerminalRunStatus
    <3>9. \A s \in durable : IsTerminalRunStatus(runs[s].status) =>
                             Recovered'[s].status = runs[s].status
      BY <1>3, <3>6, <3>7, <3>8 DEF Alike
    <3>. QED
      BY <2>2, <3>4, <3>6, <3>9 DEF Known, NotInTail
  <2>. QED
    BY <2>1, <2>2 DEF Crash
<1>5. TypeOK'
  <2>1. crashes' \in 0..MaxCrashes /\ 0 \in 0..MaxSequence
    BY <1>1, <1>2, RunEventsAssumption DEF OtherTypes
  <2>. QED
    BY <1>1, <1>2, <1>4, <2>1, TypesNext DEF LogTypes, OtherTypes, Registry
<1>6. InHand' /\ Listed' /\ LogMirrorsRegistry' /\ NoOrphanInFlight'
  BY <1>1 DEF InHand, Listed, LogMirrorsRegistry, NoOrphanInFlight
<1>7. \A s \in Runs : Stays(s)
  BY <1>1, <1>4 DEF Stays, Known
<1>. QED
  BY <1>4, <1>5, <1>6, <1>7 DEF IInv, Keeps

(* A new process takes its runs from the log.                              *)
LEMMA RestartKeeps == ASSUME IInv, Restart PROVE Keeps
<1>1. /\ process = "down" /\ process' = "booting" /\ runs' = Recovered
      /\ unreconciled' = {r \in Runs : Recovered[r].status \in InFlight}
      /\ durable' = Runs \ TailRuns
      /\ UNCHANGED <<sequences, disk, tail, recovering, owned, session, faults, crashes, swallowed>>
  BY DEF Restart, bookkeeping
<1>2. /\ LogTypes /\ OtherTypes /\ Recovered' = Recovered /\ TailRuns' = TailRuns
      /\ owned = {} /\ recovering = {}
  BY <1>1, TypesNow DEF IInv, Recovered, TailRuns, InHand
<1>3. Recovered \in Registry /\ \A r \in Runs : Recovered[r] \in Run \union {NoRun}
  BY <1>2, RecoveredType DEF Registry
<1>4. TypeOK'
  BY <1>1, <1>2, <1>3, TypesNext DEF LogTypes, OtherTypes
<1>5. NotInTail' /\ NoOrphanInFlight' /\ LogMirrorsRegistry'
  BY <1>1, <1>2 DEF NotInTail, NoOrphanInFlight, LogMirrorsRegistry
<1>6. InHand'
  BY <1>1, <1>2, <1>3, NoRunFacts, TransitionFacts DEF InHand
<1>7. Listed'
  BY <1>1, <1>3, NoRunFacts, TransitionFacts DEF Listed, Settled, IsTerminalRunStatus
<1>8. \A s \in Runs : Stays(s)
  BY <1>1, <1>2 DEF Stays, Known
<1>. QED
  BY <1>4, <1>5, <1>6, <1>7, <1>8 DEF IInv, Keeps

LEMMA StutterKeeps == ASSUME IInv, UNCHANGED vars PROVE Keeps
<1>1. LogTypes' /\ OtherTypes' /\ NotInTail' /\ Recovered' = Recovered
  BY TypesNow DEF vars, IInv, LogTypes, OtherTypes, NotInTail, TailRuns, Recovered
<1>. QED
  BY <1>1, QuietKeeps DEF vars

-----------------------------------------------------------------------------
(* The theorems                                                            *)

LEMMA IInvInit == Init => IInv
<1>. SUFFICES ASSUME Init PROVE IInv
  OBVIOUS
<1>1. /\ runs = [r \in Runs |-> NoRun] /\ disk = runs /\ tail = Clean /\ process = "up"
      /\ unreconciled = {} /\ recovering = {} /\ owned = {} /\ durable = Runs /\ swallowed = {}
      /\ sequences = [r \in Runs |-> 0] /\ session = [r \in Runs |-> FALSE]
      /\ faults = 0 /\ crashes = 0
  BY DEF Init
<1>2. Recovered = runs /\ TailRuns = {}
  BY <1>1, Recovers, LineFacts
<1>3. TypeOK
  <2>1. 0 \in 0..MaxSequence /\ 0 \in 0..MaxFaults /\ 0 \in 0..MaxCrashes
    BY RunEventsAssumption
  <2>. QED
    BY <1>1, <2>1, LineFacts, TypesNow DEF LogTypes, OtherTypes, Registry
<1>. QED
  BY <1>1, <1>2, <1>3
  DEF IInv, NotInTail, InHand, Listed, LogMirrorsRegistry, NoOrphanInFlight

LEMMA IInvStep == IInv /\ [Next]_vars => Keeps
<1>. SUFFICES ASSUME IInv, [Next]_vars PROVE Keeps
  OBVIOUS
<1>1. ASSUME NEW r \in Runs, Create(r) PROVE Keeps
  BY <1>1, CreateKeeps
<1>2. ASSUME NEW r \in Runs, Transition(r) PROVE Keeps
  BY <1>2, TransitionKeeps
<1>3. ASSUME NEW r \in Runs, Update(r) PROVE Keeps
  BY <1>3, UpdateKeeps
<1>4. ASSUME NEW r \in Runs, EmitSubsystem(r) PROVE Keeps
  BY <1>4, EmitSubsystemKeeps
<1>5. ASSUME NEW r \in Runs, SessionStarts(r) PROVE Keeps
  BY <1>5, SessionStartsKeeps
<1>6. ASSUME NEW r \in Runs, SessionEnds(r) PROVE Keeps
  BY <1>6, SessionEndsKeeps
<1>7. ASSUME NEW r \in Runs, ReconcileOne(r) PROVE Keeps
  BY <1>7, ReconcileOneKeeps
<1>8. ASSUME NEW r \in Runs, RecoverWorker(r) PROVE Keeps
  BY <1>8, RecoverWorkerKeeps
<1>. QED
  BY <1>1, <1>2, <1>3, <1>4, <1>5, <1>6, <1>7, <1>8, CrashKeeps, RestartKeeps, BootDoneKeeps,
     StutterKeeps DEF Next

(* What the log says agrees with memory, every run is in the right hands:  *)
(* the inductive invariant holds in every state of every behaviour.        *)
THEOREM IInvCorrect == SafeSpec => []IInv
<1>1. IInv /\ [Next]_vars => IInv'
  BY IInvStep DEF Keeps
<1>. QED
  BY IInvInit, <1>1, PTL DEF SafeSpec

(* Every part of the state has its type, for any set of runs, with or      *)
(* without critical subscribers, whatever the number of events, failed     *)
(* appends and crashes.                                                    *)
THEOREM TypeCorrect == SafeSpec => []TypeOK
<1>1. IInv => TypeOK
  BY DEF IInv
<1>. QED
  BY IInvCorrect, <1>1, PTL

(* ExecutionRunEventBus logs what it changes and recoverRegistryFromStore  *)
(* replays it: a run whose events all reached the log is rebuilt as the    *)
(* process has it in memory, at every point between two events.            *)
THEOREM ReplayInvertsDispatch == SafeSpec => []LogMirrorsRegistry
<1>1. IInv => LogMirrorsRegistry
  BY DEF IInv
<1>. QED
  BY IInvCorrect, <1>1, PTL

(* recoverNonTerminalRuns leaves no run of a previous process in flight    *)
(* without a component or a recovery pass behind it.                       *)
THEOREM NoRunIsOrphaned == SafeSpec => []NoOrphanInFlight
<1>1. IInv => NoOrphanInFlight
  BY DEF IInv
<1>. QED
  BY IInvCorrect, <1>1, PTL

(* A terminal status that is in the log is never left, through transitions,*)
(* forced failures, crashes, replays and recovery passes.                  *)
THEOREM AnEndIsForEver == SafeSpec => TerminalForever
<1>1. IInv /\ [Next]_vars => [\A r \in Runs :
         r \in durable /\ IsTerminalRunStatus(Known(r).status)
            => Known(r)'.status = Known(r).status]_vars
  BY IInvStep DEF Keeps, Stays
<1>. QED
  BY IInvCorrect, <1>1, PTL DEF SafeSpec, TerminalForever

-----------------------------------------------------------------------------
(* BackgroundTasks                                                         *)

(* A task that has not been created has left no trace. *)
Untouched == \A t \in Tasks : status[t] = "absent" =>
    /\ t \notin handle \union listed \union listening \union timer \union stopped
    /\ run[t] = "queued" /\ leader[t] = "none"

(* A command that runs and was not stopped has its process, and a run that *)
(* runs; only a command with a process can be stopped or closed.           *)
RunningIsLive == \A t \in Tasks :
    /\ status[t] = "running" => t \in handle \ stopped
    /\ t \in handle \ stopped => status[t] = "running" /\ run[t] = "running"
    /\ t \in handle \intersect stopped => status[t] = "stopped"

(* Only a process that was started and is gone loses its id, and while its *)
(* handle is kept a descendant outside the group was there.                *)
IdsKept ==
    /\ piping \subseteq escaped
    /\ strays \subseteq escaped
    /\ \A t \in Tasks : t \in reused => leader[t] \in Ends
    /\ handle \intersect reused \subseteq escaped

TasksInv == BTTypeOK /\ Untouched /\ RunningIsLive /\ RunAgrees /\ IdsKept

LEMMA TaskRunFacts ==
    /\ {"queued", "preparing", "running", "succeeded", "failed", "cancelled"} \subseteq RunStatus
    /\ CanTransition("running", "succeeded") /\ CanTransition("running", "failed")
    /\ CanTransition("running", "cancelled")
BY DEF RunStatus, CanTransition, ValidTransitions

LEMMA TasksInvInit == BTInit => TasksInv
BY TaskRunFacts DEF BTInit, TasksInv, BTTypeOK, Untouched, RunningIsLive, RunAgrees, IdsKept, RunStatus

-----------------------------------------------------------------------------
(* Stopping                                                                *)

(* A stop marks the tasks that run, and signals no stranger of a task      *)
(* without an escaped descendant.                                          *)
LEMMA StopStep ==
    ASSUME TasksInv, NEW T, T \subseteq Tasks, StopInternal(T)
    PROVE  /\ \A t \in Tasks : status'[t] = IF t \in Stoppable(T) THEN "stopped" ELSE status[t]
           /\ status' \in [Tasks -> {"absent", "running", "completed", "failed", "stopped"}]
           /\ stopped' = stopped \union Stoppable(T) /\ timer' = timer \union Stoppable(T)
           /\ Stoppable(T) = (T \intersect handle) \ stopped
           /\ \A t \in Stoppable(T) : status[t] = "running" /\ run[t] = "running"
           /\ strays' \subseteq Tasks /\ strays' \subseteq escaped
<1>1. Stoppable(T) = (T \intersect handle) \ stopped
  BY DEF Stoppable
<1>2. strays' = strays \union (Stoppable(T) \intersect reused)
  BY DEF StopInternal, Signalled
<1>3. \A t \in Stoppable(T) : status[t] = "running" /\ run[t] = "running"
  BY <1>1 DEF TasksInv, RunningIsLive
<1>4. strays' \subseteq Tasks /\ strays' \subseteq escaped
  BY <1>1, <1>2 DEF TasksInv, IdsKept, BTTypeOK
<1>. QED
  BY <1>1, <1>3, <1>4 DEF StopInternal, TasksInv, BTTypeOK

LEMMA StopTaskKeeps ==
    ASSUME TasksInv, NEW t \in Tasks, StopTask(t)
    PROVE  TasksInv'
<1>1. /\ \A u \in Tasks : status'[u] = IF u \in Stoppable({t}) THEN "stopped" ELSE status[u]
      /\ status' \in [Tasks -> {"absent", "running", "completed", "failed", "stopped"}]
      /\ stopped' = stopped \union Stoppable({t}) /\ timer' = timer \union Stoppable({t})
      /\ Stoppable({t}) = ({t} \intersect handle) \ stopped
      /\ \A u \in Stoppable({t}) : status[u] = "running" /\ run[u] = "running"
      /\ strays' \subseteq Tasks /\ strays' \subseteq escaped
  <2>1. StopInternal({t}) /\ {t} \subseteq Tasks
    BY DEF StopTask
  <2>. QED
    BY <2>1, StopStep
<1>2. UNCHANGED <<listed, handle, aborted, listening, leader, group, piping, escaped, doomed, reused>>
  BY DEF StopTask, processes
<1>3. run' = IF t \in Stoppable({t}) THEN [run EXCEPT ![t] = "cancelled"] ELSE run
  <2>1. CASE t \in Stoppable({t})
    <3>1. status[t] = "running" /\ run[t] = "running" /\ t \in listed
      BY <1>1, <2>1 DEF StopTask
    <3>. QED
      BY <2>1, <3>1, TaskRunFacts DEF StopTask, MirrorRun
  <2>2. CASE t \notin Stoppable({t})
    <3>1. Stoppable({t}) = {}
      BY <1>1, <2>2
    <3>. QED
      BY <2>2, <3>1 DEF StopTask
  <2>. QED
    BY <2>1, <2>2
<1>4. BTTypeOK'
  <2>1. run' \in [Tasks -> RunStatus]
    BY <1>3, TaskRunFacts DEF TasksInv, BTTypeOK
  <2>2. stopped' \subseteq Tasks /\ timer' \subseteq Tasks
    BY <1>1 DEF TasksInv, BTTypeOK
  <2>3. \A T \in {listed, handle, stopped, timer, listening, group, piping, escaped, doomed,
                   reused, strays}' : T \subseteq Tasks
    BY <1>1, <1>2, <2>2 DEF TasksInv, BTTypeOK
  <2>4. leader' \in [Tasks -> Ends \union {"none", "alive"}] /\ aborted' \in BOOLEAN
    BY <1>2 DEF TasksInv, BTTypeOK
  <2>. QED
    BY <1>1, <2>1, <2>3, <2>4 DEF BTTypeOK
<1>5. Untouched'
  BY <1>1, <1>2, <1>3 DEF TasksInv, Untouched, BTTypeOK
<1>6. RunningIsLive'
  BY <1>1, <1>2, <1>3 DEF TasksInv, RunningIsLive, BTTypeOK
<1>7. RunAgrees'
  BY <1>1, <1>2, <1>3 DEF TasksInv, RunAgrees, BTTypeOK
<1>8. IdsKept'
  BY <1>1, <1>2 DEF TasksInv, IdsKept
<1>. QED
  BY <1>4, <1>5, <1>6, <1>7, <1>8 DEF TasksInv

(* An abort and a dispose: many tasks are stopped, no run is told. *)
LEMMA StopManyKeeps ==
    ASSUME TasksInv, NEW T, T \subseteq Tasks, StopInternal(T),
           listed' \subseteq listed, listening' \subseteq listening, aborted' \in BOOLEAN,
           UNCHANGED <<handle, run, processes>>
    PROVE  TasksInv'
<1>1. /\ \A t \in Tasks : status'[t] = IF t \in Stoppable(T) THEN "stopped" ELSE status[t]
      /\ status' \in [Tasks -> {"absent", "running", "completed", "failed", "stopped"}]
      /\ stopped' = stopped \union Stoppable(T) /\ timer' = timer \union Stoppable(T)
      /\ Stoppable(T) = (T \intersect handle) \ stopped
      /\ \A t \in Stoppable(T) : status[t] = "running" /\ run[t] = "running"
      /\ strays' \subseteq Tasks /\ strays' \subseteq escaped
  BY StopStep
<1>2. UNCHANGED <<handle, run, leader, group, piping, escaped, doomed, reused>>
  BY DEF processes
<1>3. BTTypeOK'
  BY <1>1, <1>2 DEF TasksInv, BTTypeOK
<1>4. Untouched'
  BY <1>1, <1>2 DEF TasksInv, Untouched, BTTypeOK
<1>5. RunningIsLive'
  BY <1>1, <1>2 DEF TasksInv, RunningIsLive, BTTypeOK
<1>6. RunAgrees'
  BY <1>1, <1>2 DEF TasksInv, RunAgrees, BTTypeOK
<1>7. IdsKept'
  BY <1>1, <1>2 DEF TasksInv, IdsKept
<1>. QED
  BY <1>3, <1>4, <1>5, <1>6, <1>7 DEF TasksInv

-----------------------------------------------------------------------------
(* The other steps                                                         *)

LEMMA CreateTaskKeeps ==
    ASSUME TasksInv, NEW t \in Tasks, NEW how \in {"running", "stopped", "completed", "failed"},
           CreateTask(t, how)
    PROVE  TasksInv'
<1>1. /\ status[t] = "absent" /\ t \notin handle \union listed \union listening \union timer
      /\ run[t] = "queued" /\ leader[t] = "none" /\ t \notin reused
  BY DEF CreateTask, TasksInv, Untouched, IdsKept, Ends
<1>2. /\ listed' = listed \union {t} /\ status' = [status EXCEPT ![t] = how]
      /\ UNCHANGED <<timer, aborted, group, piping, escaped, doomed, reused, strays>>
  BY DEF CreateTask
<1>3. CASE how = "running"
  <2>1. /\ handle' = handle \union {t} /\ listening' = listening \union {t}
        /\ leader' = [leader EXCEPT ![t] = "alive"] /\ run' = [run EXCEPT ![t] = "running"]
        /\ UNCHANGED stopped
    BY <1>3 DEF CreateTask
  <2>2. t \notin stopped
    BY <1>1 DEF TasksInv, Untouched
  <2>3. BTTypeOK' /\ Untouched'
    BY <1>1, <1>2, <1>3, <2>1, TaskRunFacts DEF TasksInv, BTTypeOK, Untouched
  <2>4. RunningIsLive'
    BY <1>1, <1>2, <1>3, <2>1, <2>2 DEF TasksInv, BTTypeOK, RunningIsLive
  <2>5. RunAgrees' /\ IdsKept'
    BY <1>1, <1>2, <1>3, <2>1 DEF TasksInv, BTTypeOK, RunAgrees, IdsKept
  <2>. QED
    BY <2>3, <2>4, <2>5 DEF TasksInv
<1>4. CASE how = "failed"
  <2>1. run' = [run EXCEPT ![t] = "failed"] /\ UNCHANGED <<handle, listening, leader, stopped>>
    BY <1>4 DEF CreateTask
  <2>. QED
    BY <1>1, <1>2, <1>4, <2>1, TaskRunFacts
    DEF TasksInv, BTTypeOK, Untouched, RunningIsLive, RunAgrees, IdsKept
<1>5. CASE how \in {"stopped", "completed"}
  <2>1. /\ run' = [run EXCEPT ![t] = "preparing"] /\ UNCHANGED <<handle, listening, leader>>
        /\ stopped' \in {stopped, stopped \union {t}}
    BY <1>5 DEF CreateTask
  <2>. QED
    BY <1>1, <1>2, <1>5, <2>1, TaskRunFacts
    DEF TasksInv, BTTypeOK, Untouched, RunningIsLive, RunAgrees, IdsKept
<1>. QED
  BY <1>3, <1>4, <1>5

LEMMA CloseKeeps ==
    ASSUME TasksInv, NEW t \in Tasks, Close(t)
    PROVE  TasksInv'
<1>1. /\ t \in handle /\ handle' = handle \ {t} /\ timer' = timer \ {t}
      /\ listening' = listening \ {t}
      /\ UNCHANGED <<listed, stopped, aborted, leader, group, piping, escaped, doomed, reused, strays>>
  BY DEF Close, processes
<1>2. CASE t \in stopped \/ status[t] # "running"
  <2>1. UNCHANGED <<status, run>>
    BY <1>2 DEF Close
  <2>. QED
    BY <1>1, <1>2, <2>1 DEF TasksInv, BTTypeOK, Untouched, RunningIsLive, RunAgrees, IdsKept
<1>3. CASE ~(t \in stopped \/ status[t] # "running")
  <2>1. run[t] = "running"
    BY <1>1, <1>3 DEF TasksInv, RunningIsLive
  <2>2. PICK task \in {"completed", "failed"}, mirrored \in {"succeeded", "failed"} :
           /\ status' = [status EXCEPT ![t] = task]
           /\ run' = IF t \in listed THEN [run EXCEPT ![t] = mirrored] ELSE run
           /\ (task = "completed") <=> (mirrored = "succeeded")
    BY <1>3, <2>1, TaskRunFacts DEF Close, MirrorRun
  <2>3. BTTypeOK' /\ Untouched' /\ RunningIsLive' /\ IdsKept'
    BY <1>1, <1>3, <2>1, <2>2, TaskRunFacts DEF TasksInv, BTTypeOK, Untouched, RunningIsLive, IdsKept
  <2>4. RunAgrees'
    BY <1>1, <1>3, <2>1, <2>2 DEF TasksInv, BTTypeOK, RunAgrees
  <2>. QED
    BY <2>3, <2>4 DEF TasksInv
<1>. QED
  BY <1>2, <1>3

LEMMA EscalateKeeps ==
    ASSUME TasksInv, NEW t \in Tasks, Escalate(t)
    PROVE  TasksInv'
<1>1. /\ timer' = timer \ {t}
      /\ UNCHANGED <<status, listed, handle, stopped, run, aborted, listening,
                     leader, group, piping, escaped, reused>>
  BY DEF Escalate
<1>2. strays' \subseteq Tasks /\ strays' \subseteq escaped /\ doomed' \subseteq Tasks
  <2>1. CASE t \in handle /\ leader[t] \notin {"ok", "bad"}
    BY <2>1 DEF Escalate, Signalled, TasksInv, IdsKept, BTTypeOK
  <2>2. CASE ~(t \in handle /\ leader[t] \notin {"ok", "bad"})
    BY <2>2 DEF Escalate, TasksInv, IdsKept, BTTypeOK
  <2>. QED
    BY <2>1, <2>2
<1>. QED
  BY <1>1, <1>2 DEF TasksInv, BTTypeOK, Untouched, RunningIsLive, RunAgrees, IdsKept

(* What the system does to processes changes no record. *)
LEMMA SystemKeeps ==
    ASSUME TasksInv, NEW t \in Tasks,
           \/ Fork(t) \/ DescendantsEnd(t) \/ Die(t) \/ PidReused(t)
           \/ \E how \in Ends : LeaderEnds(t, how)
    PROVE  TasksInv'
<1>1. UNCHANGED <<status, listed, handle, stopped, timer, run, aborted, listening, strays>>
  BY DEF Fork, DescendantsEnd, Die, PidReused, LeaderEnds, record
<1>2. CASE Fork(t)
  BY <1>1, <1>2 DEF Fork, TasksInv, BTTypeOK, Untouched, RunningIsLive, RunAgrees, IdsKept
<1>3. CASE DescendantsEnd(t)
  BY <1>1, <1>3 DEF DescendantsEnd, TasksInv, BTTypeOK, Untouched, RunningIsLive, RunAgrees, IdsKept
<1>4. CASE Die(t)
  BY <1>1, <1>4 DEF Die, TasksInv, BTTypeOK, Untouched, RunningIsLive, RunAgrees, IdsKept, Ends
<1>5. CASE PidReused(t)
  BY <1>1, <1>5 DEF PidReused, TasksInv, BTTypeOK, Untouched, RunningIsLive, RunAgrees, IdsKept
<1>6. ASSUME NEW how \in Ends, LeaderEnds(t, how) PROVE TasksInv'
  BY <1>1, <1>6 DEF LeaderEnds, Alive, TasksInv, BTTypeOK, Untouched, RunningIsLive, RunAgrees, IdsKept, Ends
<1>. QED
  BY <1>2, <1>3, <1>4, <1>5, <1>6

LEMMA TasksInvStep == TasksInv /\ [BTNext]_BTvars => TasksInv'
<1>. SUFFICES ASSUME TasksInv, [BTNext]_BTvars PROVE TasksInv'
  OBVIOUS
<1>1. CASE Abort
  <2>1. /\ StopInternal(listening) /\ listening \subseteq Tasks
        /\ listed' \subseteq listed /\ listening' \subseteq listening /\ aborted' \in BOOLEAN
        /\ UNCHANGED <<handle, run, processes>>
    BY <1>1 DEF Abort, TasksInv, BTTypeOK
  <2>. QED
    BY <2>1, StopManyKeeps
<1>2. CASE Dispose
  <2>. DEFINE T == {t \in listed : status[t] = "running"}
  <2>1. /\ StopInternal(T) /\ T \subseteq Tasks
        /\ listed' \subseteq listed /\ listening' \subseteq listening /\ aborted' \in BOOLEAN
        /\ UNCHANGED <<handle, run, processes>>
    BY <1>2 DEF Dispose, TasksInv, BTTypeOK
  <2>. QED
    BY <2>1, StopManyKeeps
<1>3. CASE ClearCompleted
  BY <1>3 DEF ClearCompleted, processes, TasksInv, BTTypeOK, Untouched, RunningIsLive, RunAgrees, IdsKept
<1>4. ASSUME NEW t \in Tasks, NEW how \in {"running", "stopped", "completed", "failed"},
             CreateTask(t, how)
      PROVE  TasksInv'
  BY <1>4, CreateTaskKeeps
<1>5. ASSUME NEW t \in Tasks, StopTask(t) PROVE TasksInv'
  BY <1>5, StopTaskKeeps
<1>6. ASSUME NEW t \in Tasks, Escalate(t) PROVE TasksInv'
  BY <1>6, EscalateKeeps
<1>7. ASSUME NEW t \in Tasks, Close(t) PROVE TasksInv'
  BY <1>7, CloseKeeps
<1>8. ASSUME NEW t \in Tasks,
             \/ Fork(t) \/ DescendantsEnd(t) \/ Die(t) \/ PidReused(t)
             \/ \E how \in Ends : LeaderEnds(t, how)
      PROVE  TasksInv'
  BY <1>8, SystemKeeps
<1>9. CASE UNCHANGED BTvars
  BY <1>9 DEF BTvars, record, processes, TasksInv, BTTypeOK, Untouched, RunningIsLive, RunAgrees, IdsKept
<1>. QED
  BY <1>1, <1>2, <1>3, <1>4, <1>5, <1>6, <1>7, <1>8, <1>9 DEF BTNext

-----------------------------------------------------------------------------
(* Every field of a task's record, and what the model keeps of processes,  *)
(* has its type, for any set of tasks.                                     *)
THEOREM TasksTypeCorrect == BTSpec => []BTTypeOK
<1>1. TasksInv => BTTypeOK
  BY DEF TasksInv
<1>. QED
  BY <1>1, TasksInvInit, TasksInvStep, PTL DEF BTSpec

(* The run of a task never ends with another outcome than the task's:      *)
(* stops, aborts, clearing and late close events included. Of a run that   *)
(* an abort or dispose leaves unfinished it says nothing.                  *)
THEOREM RunsAgree == BTSpec => []RunAgrees
<1>1. TasksInv => RunAgrees
  BY DEF TasksInv
<1>. QED
  BY <1>1, TasksInvInit, TasksInvStep, PTL DEF BTSpec

(* A stop or its escalation signals a process id that was given to another *)
(* process only if a descendant had left the command's group.              *)
THEOREM OwnProcesses == BTSpec => []SignalsOwnProcesses
<1>1. TasksInv => SignalsOwnProcesses
  BY DEF TasksInv, IdsKept, SignalsOwnProcesses
<1>. QED
  BY <1>1, TasksInvInit, TasksInvStep, PTL DEF BTSpec
=============================================================================
