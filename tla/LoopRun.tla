------------------------------- MODULE LoopRun -------------------------------
(***************************************************************************)
(* The autonomous loop (runLoop): up to maxIters turns of the engine, each *)
(* followed by the driver's own checks; a checkpoint after each one, kept  *)
(* in a file and a backup; completion only through the joint gate.  The    *)
(* driver is killed, interrupted and started again at any point; meanwhile *)
(* the user edits the contract and the model writes what it likes into     *)
(* .loop, the flags included.                                              *)
(*                                                                         *)
(* One driver at a time: that is LoopLease's subject.  A tree stands for   *)
(* the state of the workspace, all that the evidence hash, the branch, the *)
(* head and the changed files tell apart.  GOAL.md and ACCEPTANCE.md are   *)
(* kept as version numbers.  The two fast gates are one gate, as are the   *)
(* full ones; whether a gate is green depends on the tree alone.           *)
(***************************************************************************)
EXTENDS Naturals, FiniteSets

CONSTANTS
    MaxIters,         \* config.maxIters
    NoProgressLimit,  \* iterations without progress that park the loop (3)
    Trees,            \* states of the workspace
    EditedFiles,      \* bound: the contract files that the user edits
    MaxEdits,         \* bound: how often
    MaxStarts,        \* bound: drivers started
    MaxCrashes,       \* bound: drivers killed
    MaxFaults         \* bound: checkpoint writes that fail

ASSUME LoopAssumption ==
    /\ MaxIters \in Nat \ {0} /\ NoProgressLimit \in Nat \ {0}
    /\ Trees # {} /\ EditedFiles \subseteq {"goal", "acceptance"}
    /\ MaxEdits \in Nat /\ MaxStarts \in Nat /\ MaxCrashes \in Nat /\ MaxFaults \in Nat

VARIABLES
    main, backup,      \* checkpoint.json, checkpoint.previous.json
    done, parked, candidate,  \* DONE.flag, PARKED.flag, CANDIDATE_DONE.flag
    contract,          \* versions of GOAL.md and ACCEPTANCE.md
    tree, green,       \* the workspace; the gates that pass on each tree
    pc,                \* where the driver is
    driver,            \* its variables: run, iteration, sequence, ...
    turn,              \* the iteration's: contract at its start, outcome, checks
    saving,            \* the save under way: its checkpoint, and what follows
    starts, crashes, faults,
    turns,             \* history: turns begun since the last start from scratch
    saved,             \* history: sequence of the last save that completed since
    won,               \* history: a succeeded checkpoint was saved since
    earned             \* history: the joint gate was passed since both files were cleared

disk == <<main, backup>>
flags == <<done, parked, candidate>>
world == <<contract, tree, green>>
bounds == <<starts, crashes, faults>>
history == <<turns, saved, won, earned>>
vars == <<disk, flags, world, pc, driver, turn, saving, bounds, history>>

Gates == {"fast", "full"}
Versions == 0..MaxEdits
Contracts == [goal : Versions, acceptance : Versions]
Endings == {"succeeded", "failed", "cancelled"}
Phases == Endings \union {"iteration-complete", "interrupted"}
Statuses == {"completed", "exhausted", "partial", "none"}

NoFile == [run |-> 0]
Checkpoint == [run : Nat, sequence : Nat, iteration : Nat, phase : Phases,
               noProgress : Nat, gates : SUBSET Gates, tree : Trees,
               contract : Contracts]
Flag == [run : Nat, sequence : Nat, contract : Contracts, nonce : BOOLEAN]
Candidate == [run : Nat, sequence : Nat, contract : Contracts, fresh : BOOLEAN]
Exists(file) == file # NoFile

Idle(run) == [run |-> run, iteration |-> 1, sequence |-> 0, noProgress |-> 0,
              gates |-> {}, restored |-> NoFile, unhealthy |-> FALSE]
NoTurn == [contract |-> [goal |-> 0, acceptance |-> 0], status |-> "none", passed |-> FALSE]
NoSave == [checkpoint |-> NoFile, next |-> "off"]

Init ==
    /\ main = NoFile /\ backup = NoFile
    /\ done = NoFile /\ parked = FALSE /\ candidate = NoFile
    /\ contract = [goal |-> 0, acceptance |-> 0]
    /\ tree \in Trees
    /\ green \in [Trees -> SUBSET Gates]
    /\ pc = "off"
    /\ driver = Idle(0) /\ turn = NoTurn /\ saving = NoSave
    /\ starts = 0 /\ crashes = 0 /\ faults = 0
    /\ turns = 0 /\ saved = 0 /\ won = FALSE /\ earned = FALSE

-----------------------------------------------------------------------------
(* CheckpointManager                                                       *)

(* Faulty variant: the backup is not read when the main file is missing. *)
LoadMain == main

Load == IF Exists(main) THEN main ELSE backup

(* The checkpoint that the driver writes now. *)
Snapshot(phase, gates) ==
    [run |-> driver.run, sequence |-> driver.sequence + 1,
     iteration |-> driver.iteration, phase |-> phase,
     noProgress |-> driver.noProgress, gates |-> gates, tree |-> tree,
     contract |-> contract]

(* Start to save a checkpoint and go on to "next" afterwards; only the     *)
(* flag still needs the variables of the iteration.                        *)
Save(checkpoint, next, gates) ==
    /\ saving' = [checkpoint |-> checkpoint, next |-> next]
    /\ turn' = IF next = "flag" THEN turn ELSE NoTurn
    /\ driver' = [driver EXCEPT !.sequence = @ + 1, !.gates = gates]
    /\ pc' = "backup"

(* Faulty variant: the backup is a file that is only ever removed. *)
SaveDropsMain ==
    /\ pc = "backup"
    /\ main' = NoFile
    /\ pc' = "rename"
    /\ UNCHANGED <<backup, flags, world, driver, turn, saving, bounds, history>>

SaveBacksUp ==
    /\ pc = "backup"
    /\ IF Exists(main)
       THEN backup' = main /\ main' = NoFile
       ELSE UNCHANGED disk
    /\ pc' = "rename"
    /\ UNCHANGED <<flags, world, driver, turn, saving, bounds, history>>

(* The process goes, and its variables with it. *)
Leave ==
    /\ pc' = "off"
    /\ driver' = Idle(driver.run) /\ turn' = NoTurn /\ saving' = NoSave

(* After an iteration's checkpoint comes the next one, after a last        *)
(* checkpoint the end or the flag.                                         *)
Saved ==
    IF saving.next = "off" THEN Leave
    ELSE /\ pc' = saving.next
         /\ driver' = IF saving.next = "top" THEN [driver EXCEPT !.iteration = @ + 1]
                      ELSE driver
         /\ saving' = NoSave
         /\ UNCHANGED turn

(* The temporary file is renamed over the checkpoint, or could not be      *)
(* written; every caller swallows that error.                              *)
SaveRenames ==
    /\ pc = "rename"
    /\ Saved
    /\ \/ /\ main' = saving.checkpoint
          /\ saved' = saving.checkpoint.sequence
          /\ won' = (won \/ saving.checkpoint.phase = "succeeded")
          /\ UNCHANGED faults
       \/ /\ faults < MaxFaults
          /\ faults' = faults + 1
          /\ UNCHANGED <<main, saved, won>>
    /\ UNCHANGED <<backup, flags, world, starts, crashes, turns, earned>>

ClearMain ==
    /\ pc = "clear"
    /\ main' = NoFile
    /\ pc' = "clearBackup"
    /\ turns' = 0 /\ saved' = 0 /\ won' = FALSE
    /\ UNCHANGED <<backup, flags, world, driver, turn, saving, bounds, earned>>

ClearBackup ==
    /\ pc = "clearBackup"
    /\ backup' = NoFile
    /\ pc' = "top"
    /\ earned' = FALSE
    /\ UNCHANGED <<main, flags, world, driver, turn, saving, bounds, turns, saved, won>>

-----------------------------------------------------------------------------
(* The start of a driver                                                   *)

(* --restart discards the checkpoints; resume: false leaves them unread.   *)
Start(mode) ==
    /\ pc = "off" /\ starts < MaxStarts
    /\ starts' = starts + 1
    /\ driver' = Idle(driver.run + 1)
    /\ pc' = CASE mode = "restart" -> "clear"
               [] mode = "resume" -> "resume"
               [] mode = "unread" -> "top"
    /\ IF mode = "unread" THEN turns' = 0 /\ won' = FALSE ELSE UNCHANGED <<turns, won>>
    /\ UNCHANGED <<disk, flags, world, turn, saving, crashes, faults, saved, earned>>

(* Faulty variant: the iteration that was recorded is run again. *)
ResumeSame ==
    /\ pc = "resume"
    /\ driver' = IF Exists(Load)
                 THEN [driver EXCEPT !.iteration = Load.iteration, !.sequence = Load.sequence,
                                     !.noProgress = Load.noProgress, !.gates = Load.gates,
                                     !.restored = Load]
                 ELSE driver
    /\ pc' = IF Exists(Load) /\ Load.phase = "succeeded" THEN "already" ELSE "top"
    /\ UNCHANGED <<disk, flags, world, turn, saving, bounds, history>>

Resume ==
    /\ pc = "resume"
    /\ driver' = IF Exists(Load)
                 THEN [driver EXCEPT !.iteration = Load.iteration + 1,
                                     !.sequence = Load.sequence,
                                     !.noProgress = Load.noProgress,
                                     !.gates = Load.gates,
                                     !.restored = Load]
                 ELSE driver
    /\ pc' = IF Exists(Load) /\ Load.phase = "succeeded" THEN "already" ELSE "top"
    /\ UNCHANGED <<disk, flags, world, turn, saving, bounds, history>>

(* finishLoopRun: a last checkpoint, the lease, the run's terminal status. *)
Finish(status, next, gates) == Save(Snapshot(status, gates), next, gates)

AlreadyDone ==
    /\ pc = "already"
    /\ Finish("succeeded", "off", driver.gates)
    /\ UNCHANGED <<disk, flags, world, bounds, turns, saved, won, earned>>

-----------------------------------------------------------------------------
(* The top of an iteration                                                 *)

MustPark == driver.unhealthy \/ driver.noProgress >= NoProgressLimit

(* Faulty variant: any checkpoint vouches for a flag. *)
VerifyDoneFlagAnyPhase(flag, checkpoint) ==
    \/ flag.nonce /\ flag.run = driver.run
    \/ /\ Exists(checkpoint)
       /\ flag.run = checkpoint.run
       /\ flag.sequence = checkpoint.sequence
       /\ flag.contract = contract

(* The driver's own nonce, or what a succeeded checkpoint vouches for.     *)
(* (The gates of a flag are those of its checkpoint.)                      *)
VerifyDoneFlag(flag, checkpoint) ==
    \/ flag.nonce /\ flag.run = driver.run
    \/ /\ Exists(checkpoint) /\ checkpoint.phase = "succeeded"
       /\ flag.run = checkpoint.run
       /\ flag.sequence = checkpoint.sequence
       /\ flag.contract = contract

Verified == Exists(done) /\ VerifyDoneFlag(done, Load)

OutOfIterations ==
    /\ pc = "top" /\ driver.iteration > MaxIters
    /\ Finish("failed", "off", driver.gates)
    /\ UNCHANGED <<disk, flags, world, bounds, turns, saved, won, earned>>

Park ==
    /\ pc = "top" /\ driver.iteration <= MaxIters /\ MustPark
    /\ parked' = TRUE
    /\ Finish("cancelled", "off", driver.gates)
    /\ UNCHANGED <<disk, done, candidate, world, bounds, turns, saved, won, earned>>

FlagVerified ==
    /\ pc = "top" /\ driver.iteration <= MaxIters /\ ~MustPark /\ Verified
    /\ Finish("succeeded", "off", driver.gates)
    /\ UNCHANGED <<disk, flags, world, bounds, turns, saved, won, earned>>

(* An unverified DONE.flag is renamed away first. *)
FoundParked ==
    /\ pc = "top" /\ driver.iteration <= MaxIters /\ ~MustPark /\ ~Verified /\ parked
    /\ done' = NoFile
    /\ Finish("cancelled", "off", driver.gates)
    /\ UNCHANGED <<disk, parked, candidate, world, bounds, turns, saved, won, earned>>

BeginTurn ==
    /\ pc = "top" /\ driver.iteration <= MaxIters /\ ~MustPark /\ ~Verified /\ ~parked
    /\ done' = NoFile
    /\ turn' = [contract |-> contract, status |-> "none", passed |-> FALSE]
    /\ candidate' = IF Exists(candidate) THEN [candidate EXCEPT !.fresh = FALSE] ELSE candidate
    /\ turns' = turns + 1
    /\ pc' = "turn"
    /\ UNCHANGED <<disk, parked, world, driver, saving, bounds, saved, won,
                   earned>>

-----------------------------------------------------------------------------
(* The turn, and what the model and the user do to the files meanwhile     *)

WriteCandidate ==
    /\ pc = "turn"
    /\ candidate' = [run |-> driver.run, sequence |-> driver.sequence,
                     contract |-> turn.contract, fresh |-> TRUE]
    /\ UNCHANGED <<disk, done, parked, world, pc, driver, turn, saving, bounds, history>>

(* The model can read the checkpoint; the nonce is in no file. *)
ForgeDoneFlag ==
    /\ pc = "turn" /\ Exists(Load)
    /\ done' = [run |-> Load.run, sequence |-> Load.sequence, contract |-> contract,
                nonce |-> FALSE]
    /\ UNCHANGED <<disk, parked, candidate, world, pc, driver, turn, saving, bounds, history>>

WriteParkedFlag ==
    /\ pc = "turn"
    /\ parked' = TRUE
    /\ UNCHANGED <<disk, done, candidate, world, pc, driver, turn, saving, bounds, history>>

RemoveParkedFlag ==
    /\ pc = "off" /\ parked
    /\ parked' = FALSE
    /\ UNCHANGED <<disk, done, candidate, world, pc, driver, turn, saving, bounds, history>>

(* An edit is made where the driver may notice it: anywhere else, nothing  *)
(* reads the contract before the next of these places.                     *)
EditContract(file) ==
    /\ pc \in {"off", "top", "turn", "judge", "full"}
    /\ contract.goal + contract.acceptance < MaxEdits
    /\ contract' = [contract EXCEPT ![file] = @ + 1]
    /\ UNCHANGED <<disk, flags, tree, green, pc, driver, turn, saving, bounds, history>>

(* The heartbeat gives up: it parks the loop and aborts the turn. *)
HeartbeatFatal ==
    /\ pc = "turn" /\ ~driver.unhealthy
    /\ driver' = [driver EXCEPT !.unhealthy = TRUE]
    /\ parked' = TRUE
    /\ UNCHANGED <<disk, done, candidate, world, pc, turn, saving, bounds, history>>

TurnReturns(status, after, progressed) ==
    /\ pc = "turn"
    /\ tree' = after
    /\ turn' = [turn EXCEPT !.status = status]
    /\ driver' = [driver EXCEPT !.noProgress = IF progressed THEN 0 ELSE @ + 1]
    /\ pc' = "checks"
    /\ UNCHANGED <<disk, flags, contract, green, saving, bounds, history>>

TurnThrows(after) ==
    /\ pc = "turn"
    /\ tree' = after
    /\ pc' = "checks"
    /\ UNCHANGED <<disk, flags, contract, green, driver, turn, saving, bounds, history>>

(* SIGINT and SIGTERM are served where the driver awaits: a checkpoint of  *)
(* the interruption, and then the one of every end.                        *)
Signal ==
    /\ pc = "turn"
    /\ Save(Snapshot("interrupted", driver.gates), "signalled", driver.gates)
    /\ UNCHANGED <<disk, flags, world, bounds, turns, saved, won, earned>>

FinishSignalled ==
    /\ pc = "signalled"
    /\ Finish("cancelled", "off", driver.gates)
    /\ UNCHANGED <<disk, flags, world, bounds, turns, saved, won, earned>>

-----------------------------------------------------------------------------
(* After the turn                                                          *)

CanReuseGateEvidence(gate) ==
    /\ Exists(driver.restored)
    /\ driver.restored.contract = turn.contract
    /\ driver.restored.tree = tree
    /\ gate \in driver.restored.gates

GatePasses(gate) == CanReuseGateEvidence(gate) \/ gate \in green[tree]

HeartbeatLost ==
    /\ pc = "checks" /\ driver.unhealthy
    /\ Finish("cancelled", "off", driver.gates)
    /\ UNCHANGED <<disk, flags, world, bounds, turns, saved, won, earned>>

(* The acceptance commands and the fast gates. *)
RunChecks(accepted) ==
    /\ pc = "checks" /\ ~driver.unhealthy
    /\ turn' = [turn EXCEPT !.passed = accepted /\ GatePasses("fast")]
    /\ driver' = [driver EXCEPT !.gates =
                     IF GatePasses("fast") THEN @ \union {"fast"} ELSE @]
    /\ pc' = "judge"
    /\ UNCHANGED <<disk, flags, world, saving, bounds, history>>

CandidateMatches ==
    /\ Exists(candidate)
    /\ candidate.run = driver.run
    /\ candidate.sequence = driver.sequence
    /\ candidate.contract = turn.contract

(* canPromoteCompletion; others: the task graph and the workers agree. *)
CanPromote(others) ==
    turn.passed /\ CandidateMatches /\ turn.status = "completed" /\ others

(* The checkpoint of an iteration carries the acceptance it was read with. *)
IterationSnapshot(gates) ==
    [Snapshot("iteration-complete", gates) EXCEPT !.contract.acceptance = turn.contract.acceptance]

Judge(others) ==
    /\ pc = "judge"
    /\ candidate' = NoFile
    /\ IF CanPromote(others) /\ contract = turn.contract
       THEN /\ pc' = "full"
            /\ earned' = (earned \/ candidate.fresh)
            /\ UNCHANGED <<parked, driver, turn, saving>>
       ELSE /\ UNCHANGED earned
            /\ IF turn.status = "exhausted"
               THEN parked' = TRUE /\ Finish("failed", "off", driver.gates)
               ELSE /\ Save(IterationSnapshot(driver.gates), "top", driver.gates)
                    /\ UNCHANGED parked
    /\ UNCHANGED <<disk, done, world, bounds, turns, saved, won>>

(* The full gates: the checkpoint first, then the flag bound to it. *)
RunFullGates ==
    /\ pc = "full"
    /\ IF GatePasses("full")
       THEN Finish("succeeded", "flag", driver.gates \union {"full"})
       ELSE Save(IterationSnapshot(driver.gates), "top", driver.gates)
    /\ UNCHANGED <<disk, flags, world, bounds, turns, saved, won, earned>>

WriteDoneFlag ==
    /\ pc = "flag"
    /\ done' = [run |-> driver.run, sequence |-> driver.sequence,
                contract |-> turn.contract, nonce |-> TRUE]
    /\ Leave
    /\ UNCHANGED <<disk, parked, candidate, world, bounds, history>>

Crash ==
    /\ pc # "off" /\ crashes < MaxCrashes
    /\ crashes' = crashes + 1
    /\ Leave
    /\ UNCHANGED <<disk, flags, world, starts, faults, history>>

Next ==
    \/ SaveBacksUp \/ SaveRenames \/ ClearMain \/ ClearBackup
    \/ \E mode \in {"resume", "restart", "unread"} : Start(mode)
    \/ Resume \/ AlreadyDone
    \/ OutOfIterations \/ Park \/ FlagVerified \/ FoundParked \/ BeginTurn
    \/ WriteCandidate \/ ForgeDoneFlag \/ WriteParkedFlag \/ RemoveParkedFlag
    \/ \E file \in EditedFiles : EditContract(file)
    \/ HeartbeatFatal
    \/ \E status \in Statuses \ {"none"}, after \in Trees, progressed \in BOOLEAN :
          TurnReturns(status, after, progressed)
    \/ \E after \in Trees : TurnThrows(after)
    \/ Signal \/ FinishSignalled \/ HeartbeatLost
    \/ \E accepted \in BOOLEAN : RunChecks(accepted)
    \/ \E others \in BOOLEAN : Judge(others)
    \/ RunFullGates \/ WriteDoneFlag \/ Crash

Spec == Init /\ [][Next]_vars

-----------------------------------------------------------------------------
(* Properties                                                              *)

TypeOK ==
    /\ main \in Checkpoint \union {NoFile} /\ backup \in Checkpoint \union {NoFile}
    /\ done \in Flag \union {NoFile} /\ parked \in BOOLEAN
    /\ candidate \in Candidate \union {NoFile}
    /\ contract \in Contracts /\ tree \in Trees /\ green \in [Trees -> SUBSET Gates]
    /\ pc \in {"off", "clear", "clearBackup", "resume", "already", "top", "turn", "signalled",
               "checks", "judge", "full", "flag", "backup", "rename"}
    /\ driver \in [run : Nat, iteration : Nat, sequence : Nat, noProgress : Nat,
                   gates : SUBSET Gates, restored : Checkpoint \union {NoFile},
                   unhealthy : BOOLEAN]
    /\ turn \in [contract : Contracts, status : Statuses, passed : BOOLEAN]
    /\ saving \in [checkpoint : Checkpoint \union {NoFile},
                   next : {"off", "top", "flag", "signalled"}]
    /\ starts \in Nat /\ crashes \in Nat /\ faults \in Nat
    /\ turns \in Nat /\ saved \in Nat /\ won \in BOOLEAN /\ earned \in BOOLEAN

(* A checkpoint whose save completed is never lost: whatever the crashes   *)
(* and failed writes of later saves, load() returns it or a newer one.     *)
CheckpointLoads ==
    saved > 0 => Exists(Load) /\ Load.sequence >= saved

(* A crash or a lost checkpoint costs one iteration each: restarts never   *)
(* give a loop more turns than maxIters and those.                         *)
TurnsBounded == turns <= MaxIters + crashes + faults

(* Once success is on disk, no driver runs another turn (unless told not   *)
(* to resume), wherever the one that wrote it died.                        *)
NoTurnAfterSuccess == [][BeginTurn => ~won]_vars

(* A loop ends as succeeded only if the joint gate was passed, since its   *)
(* checkpoints were last cleared, on a candidate that the model wrote in   *)
(* the turn that was then judged: forged flags, stale candidates and       *)
(* restarts do not get there.                                              *)
Succeeding == Exists(saving.checkpoint) /\ saving.checkpoint.phase = "succeeded"
SuccessIsEarned == Succeeding => earned

-----------------------------------------------------------------------------
(* Statements of documents and tests that the code does not keep; the      *)
(* README tells how each one fails                                         *)

(* ADR-007: editing GOAL.md or ACCEPTANCE.md ends the validity of an       *)
(* earlier completion.                                                     *)
SuccessIsCurrent == pc = "already" => driver.restored.contract = contract

(* Restored evidence of a gate stands for a gate that passed on this tree. *)
EvidenceIsReal == \A gate \in Gates :
    pc = "checks" /\ CanReuseGateEvidence(gate) => gate \in green[tree]
=============================================================================
