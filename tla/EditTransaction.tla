--------------------------- MODULE EditTransaction ---------------------------
(***************************************************************************)
(* A batch of edits in an AtomicTransaction: a backup of each file before  *)
(* its first change, one atomic write per edit, at the end the backups are *)
(* removed, or renamed back when an edit fails.  Two callers: the MultiEdit*)
(* tool, which checks all edits first and then reads, replaces and writes  *)
(* each one, and atomicEdit, which writes whole files and whose mutateAll  *)
(* undoes what it applied before the rollback undoes it again.             *)
(*                                                                         *)
(* Any copy, write, rename or unlink may fail and the process may be       *)
(* killed.  A write replaces a file at once (atomicWrite renames a         *)
(* temporary file over it); a copy that fails leaves nothing.  The content *)
(* of a file is the set of the batch's edits that are in it; the text an   *)
(* edit looks for is there once the edits that bring it are, and as long   *)
(* as those that take it away are not.                                     *)
(***************************************************************************)
EXTENDS Naturals, Sequences, FiniteSets

CONSTANTS
    Paths,
    Links,      \* paths that are symbolic links when the batch starts
    Target,     \* [Links -> Paths \ Links]
    Batches,    \* the batches that are tried
    MaxFaults   \* bound: operations on files that fail

Edit(n) == [path : Paths, all : BOOLEAN, brings : SUBSET (1..n), takes : SUBSET (1..n)]

ASSUME EditAssumption ==
    /\ Links \subseteq Paths /\ Target \in [Links -> Paths \ Links]
    /\ \A batch \in Batches : batch \in Seq(Edit(Len(batch))) /\ Len(batch) > 0
    /\ MaxFaults \in Nat

VARIABLES
    caller, batch,  \* who runs which batch
    content,        \* what each path holds: a file, or nothing
    links,          \* the paths that are links now
    backup,         \* <file>.txn.<id>.bak of each path
    snapshots,      \* the transaction's map: paths in order, with a backup or without
    committed,      \* the transaction's flag
    pc, at,         \* where the caller is: the step, and the edit or snapshot
    outcome,        \* what it reports
    faults, original  \* history: failures so far, the files before the batch

vars == <<caller, batch, content, links, backup, snapshots, committed, pc, at,
          outcome, faults, original>>

Absent == [exists |-> FALSE, edits |-> {}]
File(edits) == [exists |-> TRUE, edits |-> edits]
Contents == [exists : BOOLEAN, edits : SUBSET Nat]

Init ==
    /\ caller \in {"MultiEdit", "atomicEdit"} /\ batch \in Batches
    /\ content \in [Paths -> {Absent, File({})}]
    /\ links = Links
    /\ \A path \in Links : content[Target[path]].exists
    /\ backup = [path \in Paths |-> Absent]
    /\ snapshots = <<>>
    /\ committed = FALSE
    /\ pc = (IF caller = "MultiEdit" THEN "validate" ELSE "snapshot") /\ at = 1
    /\ outcome = "none"
    /\ faults = 0
    /\ original = content

-----------------------------------------------------------------------------
(* The files                                                               *)

Real(path) == IF path \in links THEN Target[path] ELSE path
Read(path) == content[Real(path)]

Fault == faults < MaxFaults /\ faults' = faults + 1

(* atomicWrite: through a link, to the file it names. *)
Write(path, file) == content' = [content EXCEPT ![Real(path)] = file]

Found(edit, file) ==
    file.exists /\ edit.brings \subseteq file.edits /\ edit.takes \cap file.edits = {}

-----------------------------------------------------------------------------
(* MultiEdit checks every edit first; only an edit of one occurrence must  *)
(* find its text.                                                          *)

Valid(edit) == Read(edit.path).exists /\ (edit.all \/ Found(edit, Read(edit.path)))

Validate ==
    /\ pc = "validate"
    /\ IF \A i \in DOMAIN batch : Valid(batch[i])
       THEN pc' = "snapshot" /\ UNCHANGED outcome
       ELSE pc' = "done" /\ outcome' = "rejected"
    /\ UNCHANGED <<caller, batch, content, links, backup, snapshots, committed, at,
                   faults, original>>

-----------------------------------------------------------------------------
(* One edit after the other                                                *)

Tracked == {snapshots[i].path : i \in DOMAIN snapshots}

(* An edit failed: MultiEdit rolls back; mutateAll undoes the edits before *)
(* it, latest first, and then atomicEdit rolls back.                       *)
Fail ==
    IF caller = "MultiEdit" THEN pc' = "rollback" /\ at' = 1
    ELSE pc' = "undo" /\ at' = at - 1

Snapshot(copied) == snapshots' = Append(snapshots, [path |-> batch[at].path, copied |-> copied])

(* Faulty variant: a second edit of a file takes a second snapshot. *)
TakeSnapshotAgain ==
    LET path == batch[at].path IN
    /\ pc = "snapshot"
    /\ \/ /\ ~Read(path).exists
          /\ Snapshot(FALSE) /\ pc' = "write"
          /\ UNCHANGED <<backup, at, faults>>
       \/ /\ Read(path).exists
          /\ backup' = [backup EXCEPT ![path] = Read(path)]
          /\ Snapshot(TRUE) /\ pc' = "write"
          /\ UNCHANGED <<at, faults>>
       \/ /\ Fault /\ Fail
          /\ UNCHANGED <<backup, snapshots>>
    /\ UNCHANGED <<caller, batch, content, links, committed, outcome, original>>

(* The first snapshot of a path is kept. *)
TakeSnapshot ==
    LET path == batch[at].path IN
    /\ pc = "snapshot"
    /\ \/ /\ path \in Tracked
          /\ pc' = "write"
          /\ UNCHANGED <<backup, snapshots, at, faults>>
       \/ /\ path \notin Tracked /\ ~Read(path).exists
          /\ Snapshot(FALSE) /\ pc' = "write"
          /\ UNCHANGED <<backup, at, faults>>
       \/ /\ path \notin Tracked /\ Read(path).exists
          /\ backup' = [backup EXCEPT ![path] = Read(path)]
          /\ Snapshot(TRUE) /\ pc' = "write"
          /\ UNCHANGED <<at, faults>>
       \/ /\ path \notin Tracked /\ Read(path).exists
          /\ Fault /\ Fail
          /\ UNCHANGED <<backup, snapshots>>
    /\ UNCHANGED <<caller, batch, content, links, committed, outcome, original>>

(* What the edit writes: atomicEdit a whole file, MultiEdit what replace   *)
(* returns, which is the old content when the text is not there.           *)
Edited(edit, file) ==
    IF caller = "atomicEdit" THEN File({at})
    ELSE IF Found(edit, file) THEN File(file.edits \union {at}) ELSE file

(* Only a replacement of all occurrences notices that there is none. *)
NothingToReplace(edit) ==
    caller = "MultiEdit" /\ edit.all /\ ~Found(edit, Read(edit.path))

NextEdit ==
    IF at = Len(batch)
    THEN pc' = "commit" /\ at' = 1 /\ committed' = TRUE
    ELSE pc' = "snapshot" /\ at' = at + 1 /\ UNCHANGED committed

ApplyEdit ==
    LET edit == batch[at] IN
    /\ pc = "write"
    /\ \/ /\ ~NothingToReplace(edit)
          /\ Write(edit.path, Edited(edit, Read(edit.path)))
          /\ NextEdit
          /\ UNCHANGED faults
       \/ /\ NothingToReplace(edit)
          /\ Fail
          /\ UNCHANGED <<content, committed, faults>>
       \/ /\ Fault /\ Fail
          /\ UNCHANGED <<content, committed>>
    /\ UNCHANGED <<caller, batch, links, backup, snapshots, outcome, original>>

-----------------------------------------------------------------------------
(* The end of the transaction                                              *)

Finish(result) == pc' = "done" /\ outcome' = result

(* restoreOne: a file that was not there is removed, a backup is renamed   *)
(* over its path, a link included; without a backup the rename fails.      *)
RestoreOne(snapshot) ==
    LET path == snapshot.path IN
    \/ /\ snapshot.copied => backup[path].exists
       /\ content' = [content EXCEPT ![path] = IF snapshot.copied THEN backup[path] ELSE Absent]
       /\ backup' = [backup EXCEPT ![path] = Absent]
       /\ links' = links \ {path}
       /\ UNCHANGED faults
    \/ /\ snapshot.copied /\ ~backup[path].exists
       /\ UNCHANGED <<content, backup, links, faults>>
    \/ /\ IF snapshot.copied THEN backup[path].exists ELSE content[path].exists
       /\ Fault
       /\ UNCHANGED <<content, backup, links>>

(* mutateAll: the edits that were applied, latest first. *)
UndoApplied ==
    /\ pc = "undo"
    /\ IF at = 0
       THEN /\ pc' = "rollback" /\ at' = 1
            /\ UNCHANGED <<content, backup, links, faults>>
       ELSE /\ \E i \in DOMAIN snapshots :
                  snapshots[i].path = batch[at].path /\ RestoreOne(snapshots[i])
            /\ at' = at - 1
            /\ UNCHANGED pc
    /\ UNCHANGED <<caller, batch, snapshots, committed, outcome, original>>

(* Faulty variant: a restore that fails ends the rollback. *)
RollbackStops ==
    /\ pc = "rollback"
    /\ IF at > Len(snapshots)
       THEN /\ Finish("failed") /\ snapshots' = <<>>
            /\ UNCHANGED <<content, backup, links, faults, at>>
       ELSE /\ RestoreOne(snapshots[at])
            /\ at' = IF backup' = backup THEN Len(snapshots) + 1 ELSE at + 1
            /\ UNCHANGED <<pc, outcome, snapshots>>
    /\ UNCHANGED <<caller, batch, committed, original>>

Rollback ==
    /\ pc = "rollback"
    /\ IF at > Len(snapshots)
       THEN /\ Finish("failed") /\ snapshots' = <<>>
            /\ UNCHANGED <<content, backup, links, faults, at>>
       ELSE /\ RestoreOne(snapshots[at])
            /\ at' = at + 1
            /\ UNCHANGED <<pc, outcome, snapshots>>
    /\ UNCHANGED <<caller, batch, committed, original>>

(* commit returns the errors of the backups that it could not remove. *)
Uncleaned == \E i \in DOMAIN snapshots : backup[snapshots[i].path].exists

(* commit: the flag is set; then the backups go, those that can.  When one *)
(* stays, commit's result is not ok and not rolled back: atomicEdit returns*)
(* it as it is, MultiEdit reports success without looking at it.           *)
Commit ==
    /\ pc = "commit"
    /\ IF at > Len(snapshots)
       THEN /\ Finish(IF caller = "atomicEdit" /\ Uncleaned THEN "failed" ELSE "success")
            /\ snapshots' = <<>>
            /\ UNCHANGED <<backup, faults, at>>
       ELSE /\ \/ /\ backup' = [backup EXCEPT ![snapshots[at].path] = Absent]
                  /\ UNCHANGED faults
               \/ snapshots[at].copied /\ Fault /\ UNCHANGED backup
            /\ at' = at + 1
            /\ UNCHANGED <<pc, outcome, snapshots>>
    /\ UNCHANGED <<caller, batch, content, links, committed, original>>

(* The process is killed; nothing recovers the transaction afterwards. *)
Crash ==
    /\ pc # "done"
    /\ pc' = "done" /\ outcome' = "crashed"
    /\ UNCHANGED <<caller, batch, content, links, backup, snapshots, committed, at,
                   faults, original>>

Next ==
    \/ Validate \/ TakeSnapshot \/ ApplyEdit
    \/ UndoApplied \/ Rollback \/ Commit \/ Crash

Spec == Init /\ [][Next]_vars

-----------------------------------------------------------------------------
(* Properties                                                              *)

Snapshots == [path : Paths, copied : BOOLEAN]

TypeOK ==
    /\ caller \in {"MultiEdit", "atomicEdit"} /\ batch \in Batches
    /\ content \in [Paths -> Contents] /\ original \in [Paths -> {Absent, File({})}]
    /\ links \in SUBSET Links
    /\ backup \in [Paths -> Contents]
    /\ snapshots \in Seq(Snapshots)
    /\ committed \in BOOLEAN
    /\ pc \in {"validate", "snapshot", "write", "undo", "rollback", "commit", "done"}
    /\ at \in Nat
    /\ outcome \in {"none", "rejected", "success", "failed", "crashed"}
    /\ faults \in 0..MaxFaults

(* The paths that held a file, and what each one is, or can be made again  *)
(* from its backup.                                                        *)
Before == {path \in Paths : original[path].exists}
Recovered == [path \in Before |->
    IF ~committed /\ backup[path].exists THEN backup[path] ELSE content[path]]

Batch == INSTANCE BatchEdit WITH files <- Recovered

(* Whatever fails and wherever the process is killed, the originals are    *)
(* all there, in place or as backups, until all the edits are made.        *)
ImplementsBatch == Batch!Spec

Backups == {path \in Paths : backup[path].exists}
LeftBehind == {path \in Paths : content[path] # original[path]} \union Backups

(* atomicEdit: each path holds what the last of the first n edits of it    *)
(* wrote.                                                                  *)
InPlace(n) == \A i \in 1..n :
    (\A j \in (i + 1)..n : batch[j].path # batch[i].path) => Read(batch[i].path) = File({i})

(* A batch reported as failed is one of two things, told apart by the      *)
(* flag rolledBack of the report.  Rolled back, it leaves every path as it *)
(* was, those it created included, and no backup behind: a path that it    *)
(* does not leave so cost an operation that failed.  Not rolled back, only *)
(* the cleaning failed: every edit is in place, and each backup that stays *)
(* cost an operation that failed.                                          *)
FailureUndone == outcome = "failed" =>
    IF committed
    THEN InPlace(Len(batch)) /\ Backups # {} /\ Cardinality(Backups) <= faults
    ELSE Cardinality(LeftBehind) <= faults

-----------------------------------------------------------------------------
(* Statements of documents and tests that the code does not keep; the      *)
(* README tells how each one fails                                         *)

(* The header of MultiEdit: either all edits succeed or none does. *)
SuccessIsComplete ==
    caller = "MultiEdit" /\ outcome = "success" =>
       \A i \in DOMAIN batch : i \in Read(batch[i].path).edits
=============================================================================
