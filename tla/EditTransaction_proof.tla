------------------------ MODULE EditTransaction_proof ------------------------
(***************************************************************************)
(* Proofs about EditTransaction: the type invariant, and that on files     *)
(* that are no symbolic links the transaction implements BatchEdit and a   *)
(* batch reported as failed is undone, or all there, but for what an       *)
(* operation that failed costs.                                            *)
(***************************************************************************)
EXTENDS EditTransaction, FiniteSetTheorems, TLAPS

(* What a live transaction relies on.  Before a batch fails, exactly the   *)
(* files in the snapshot map have backups; a path whose snapshot is no     *)
(* copy held no file.                                                      *)
Forward == pc \in {"validate", "snapshot", "write"}

Places ==
    /\ Forward => at \in DOMAIN batch
    /\ pc = "undo" => at \in 0..Len(batch)
    /\ pc \in {"rollback", "commit"} => at >= 1
    /\ committed => pc \in {"commit", "done"}
    /\ pc = "commit" => committed

Copies ==
    /\ \A i \in DOMAIN snapshots : snapshots[i].path \in Before => snapshots[i].copied
    /\ Forward => \A path \in Before : backup[path].exists <=> path \in Tracked
    /\ pc = "write" => batch[at].path \in Tracked

Originals == \A path \in Before :
    IF backup[path].exists THEN backup[path] = original[path]
    ELSE content[path] = original[path]

IInv == TypeOK /\ Places /\ (~committed => Copies /\ Originals)

-----------------------------------------------------------------------------
(* Facts about the operators                                               *)

(* An edit of a batch names a path. *)
LEMMA BatchPaths ==
    ASSUME TypeOK, NEW i \in DOMAIN batch
    PROVE  /\ DOMAIN batch = 1..Len(batch) /\ Len(batch) \in Nat
           /\ batch[i].path \in Paths
<1>1. batch \in Seq(Edit(Len(batch)))
  BY EditAssumption DEF TypeOK
<1>2. \A S : batch \in Seq(S) =>
         DOMAIN batch = 1..Len(batch) /\ Len(batch) \in Nat /\ \A j \in DOMAIN batch : batch[j] \in S
  OBVIOUS
<1>3. batch[i] \in Edit(Len(batch))
  BY <1>1, <1>2
<1>. QED
  BY <1>1, <1>2, <1>3 DEF Edit

(* A path names a path, and what is read there is a content. *)
LEMMA RealPaths ==
    ASSUME TypeOK, NEW path \in Paths
    PROVE  Real(path) \in Paths /\ Read(path) \in Contents
<1>1. Real(path) \in Paths
  BY EditAssumption DEF TypeOK, Real
<1>. QED
  BY <1>1 DEF TypeOK, Read

(* What an edit writes is a file when there was one. *)
LEMMA EditedFile ==
    ASSUME TypeOK, NEW edit, NEW file \in Contents
    PROVE  Edited(edit, file) \in Contents
<1>1. File({at}) \in Contents /\ File(file.edits \union {at}) \in Contents
  BY DEF TypeOK, File, Contents
<1>. QED
  BY <1>1 DEF Edited

-----------------------------------------------------------------------------
(* Types                                                                   *)

(* A restore keeps the types. *)
LEMMA RestoreType ==
    ASSUME TypeOK, NEW snapshot \in Snapshots, RestoreOne(snapshot)
    PROVE  /\ content' \in [Paths -> Contents] /\ backup' \in [Paths -> Contents]
           /\ links' \in SUBSET Links /\ faults' \in 0..MaxFaults
<1>1. Absent \in Contents
  BY DEF Absent, Contents
<1>2. snapshot.path \in Paths
  BY DEF Snapshots
<1>3. backup[snapshot.path] \in Contents
  BY <1>2 DEF TypeOK
<1>4. faults' \in 0..MaxFaults
  BY EditAssumption DEF RestoreOne, Fault, TypeOK
<1>. QED
  BY <1>1, <1>2, <1>3, <1>4 DEF RestoreOne, TypeOK

(* Initially the variables have their types and places. *)
LEMMA TypeInit == Init => TypeOK /\ Places
<1>. SUFFICES ASSUME Init PROVE TypeOK /\ Places
  OBVIOUS
<1>1. Absent \in Contents /\ File({}) \in Contents
  BY DEF Absent, File, Contents
<1>2. content \in [Paths -> Contents]
  BY <1>1 DEF Init
<1>3. batch \in Seq(Edit(Len(batch))) /\ Len(batch) > 0
  BY EditAssumption DEF Init
<1>4. 1 \in DOMAIN batch
  <2>1. \A S : batch \in Seq(S) => DOMAIN batch = 1..Len(batch) /\ Len(batch) \in Nat
    OBVIOUS
  <2>. QED
    BY <1>3, <2>1
<1>5. TypeOK
  <2>1. 0 \in 0..MaxFaults
    BY EditAssumption
  <2>2. backup \in [Paths -> Contents] /\ original \in [Paths -> {Absent, File({})}]
    BY <1>1 DEF Init
  <2>3. snapshots \in Seq(Snapshots)
    BY DEF Init
  <2>. QED
    BY <1>2, <2>1, <2>2, <2>3 DEF Init, TypeOK
<1>6. Places
  BY <1>4 DEF Init, Places, Forward
<1>. QED
  BY <1>5, <1>6

(* Every step keeps them. *)
LEMMA TypeStep == TypeOK /\ Places /\ [Next]_vars => TypeOK' /\ Places'
<1>. SUFFICES ASSUME TypeOK, Places, [Next]_vars PROVE TypeOK' /\ Places'
  OBVIOUS
<1>0. batch \in Seq(Edit(Len(batch))) /\ Len(batch) > 0 /\ MaxFaults \in Nat
  BY EditAssumption DEF TypeOK
<1>1. CASE Validate
  <2>1. TypeOK'
    BY <1>1 DEF Validate, TypeOK
  <2>2. Places'
    BY <1>1 DEF Validate, TypeOK, Places, Forward
  <2>. QED
    BY <2>1, <2>2
<1>2. CASE TakeSnapshot
  <2>. DEFINE path == batch[at].path
  <2>1. at \in DOMAIN batch /\ path \in Paths
    BY <1>2, BatchPaths DEF TakeSnapshot, Places, Forward
  <2>2. Read(path) \in Contents
    BY <2>1, RealPaths
  <2>3. backup' \in [Paths -> Contents]
    BY <1>2, <2>1, <2>2 DEF TakeSnapshot, TypeOK
  <2>4. snapshots' \in Seq(Snapshots)
    <3>1. \A copied \in BOOLEAN : [path |-> path, copied |-> copied] \in Snapshots
      BY <2>1 DEF Snapshots
    <3>2. snapshots' = snapshots \/ \E copied \in BOOLEAN :
             snapshots' = Append(snapshots, [path |-> path, copied |-> copied])
      BY <1>2 DEF TakeSnapshot, Snapshot
    <3>3. \A S, s, e : s \in Seq(S) /\ e \in S => Append(s, e) \in Seq(S)
      OBVIOUS
    <3>. QED
      BY <3>1, <3>2, <3>3, Zenon DEF TypeOK
  <2>5. faults' \in 0..MaxFaults
    <3>1. faults' = faults \/ (faults < MaxFaults /\ faults' = faults + 1)
      BY <1>2, Zenon DEF TakeSnapshot, Fault
    <3>. QED
      BY <1>0, <3>1 DEF TypeOK
  <2>6. \/ pc' = "write" /\ at' = at
        \/ pc' = "rollback" /\ at' = 1
        \/ pc' = "undo" /\ at' = at - 1
    BY <1>2 DEF TakeSnapshot, Fail
  <2>7. at \in 1..Len(batch) /\ DOMAIN batch = 1..Len(batch)
    BY <2>1, BatchPaths
  <2>8. UNCHANGED <<caller, batch, content, links, committed, outcome, original>> /\ pc = "snapshot"
    BY <1>2 DEF TakeSnapshot
  <2>9. TypeOK'
    BY <2>3, <2>4, <2>5, <2>6, <2>7, <2>8 DEF TypeOK
  <2>10. Places'
    BY <2>6, <2>7, <2>8 DEF Places, Forward
  <2>. QED
    BY <2>9, <2>10
<1>3. CASE ApplyEdit
  <2>1. at \in DOMAIN batch /\ batch[at].path \in Paths
    BY <1>3, BatchPaths DEF ApplyEdit, Places, Forward
  <2>2. Edited(batch[at], Read(batch[at].path)) \in Contents /\ Real(batch[at].path) \in Paths
    BY <2>1, RealPaths, EditedFile
  <2>3. content' \in [Paths -> Contents]
    BY <1>3, <2>1, <2>2 DEF ApplyEdit, Write, TypeOK
  <2>4. faults' \in 0..MaxFaults
    BY <1>0, <1>3 DEF ApplyEdit, Fault, TypeOK
  <2>5. \/ pc' = "rollback" /\ at' = 1
        \/ pc' = "undo" /\ at' = at - 1
        \/ pc' = "commit" /\ at' = 1
        \/ pc' = "snapshot" /\ at' = at + 1 /\ at # Len(batch)
    BY <1>3 DEF ApplyEdit, Fail, NextEdit
  <2>13. \/ committed' = committed /\ pc' # "commit"
         \/ committed' = TRUE /\ pc' = "commit"
    BY <1>3 DEF ApplyEdit, Fail, NextEdit
  <2>6. DOMAIN batch = 1..Len(batch)
    BY <2>1, BatchPaths
  <2>14. at \in 1..Len(batch) /\ Len(batch) \in Nat
    BY <2>1, BatchPaths
  <2>7. UNCHANGED <<caller, batch, links, backup, snapshots, outcome, original>> /\ pc = "write"
    BY <1>3 DEF ApplyEdit
  <2>8. TypeOK'
    <3>1. at' \in Nat
      <4>1. at - 1 \in Nat /\ at + 1 \in Nat /\ 1 \in Nat
        BY <2>14
      <4>. QED
        BY <2>5, <4>1, Zenon
    <3>3. committed' \in BOOLEAN
      BY <2>13, Zenon DEF TypeOK
    <3>2. pc' \in {"validate", "snapshot", "write", "undo", "rollback", "commit", "done"}
      BY <2>5
    <3>. QED
      BY <2>3, <2>4, <2>7, <3>1, <3>3, <3>2 DEF TypeOK
  <2>9. Forward' => at' \in DOMAIN batch'
    <3>1. Forward' => at' = at + 1 /\ at # Len(batch)
      BY <2>5 DEF Forward
    <3>2. at # Len(batch) => at + 1 \in 1..Len(batch)
      BY <2>14
    <3>. QED
      BY <2>6, <2>7, <3>1, <3>2, Zenon
  <2>10. pc' = "undo" => at' \in 0..Len(batch')
    <3>1. pc' = "undo" => at' = at - 1
      BY <2>5
    <3>2. at - 1 \in 0..Len(batch)
      BY <2>14
    <3>. QED
      BY <2>7, <3>1, <3>2, Zenon
  <2>11. pc' \in {"rollback", "commit"} => at' >= 1
    BY <2>5
  <2>12. committed' => pc' \in {"commit", "done"}
    BY <2>13, <2>7 DEF Places
  <2>15. pc' = "commit" => committed'
    BY <2>13, Zenon
  <2>. QED
    BY <2>8, <2>9, <2>10, <2>11, <2>12, <2>15 DEF Places
<1>4. CASE UndoApplied
  <2>1. CASE at = 0
    BY <1>4, <2>1 DEF UndoApplied, TypeOK, Places, Forward
  <2>2. CASE at # 0
    <3>1. PICK i \in DOMAIN snapshots : RestoreOne(snapshots[i])
      BY <1>4, <2>2 DEF UndoApplied
    <3>2. snapshots[i] \in Snapshots
      BY <3>1 DEF TypeOK
    <3>3. /\ content' \in [Paths -> Contents] /\ backup' \in [Paths -> Contents]
          /\ links' \in SUBSET Links /\ faults' \in 0..MaxFaults
      BY <3>1, <3>2, RestoreType
    <3>4. /\ at' = at - 1 /\ pc = "undo" /\ at \in 0..Len(batch)
          /\ UNCHANGED <<pc, caller, batch, snapshots, committed, outcome, original>>
      BY <1>4, <2>2 DEF UndoApplied, Places, Forward
    <3>5. at' \in 0..Len(batch)
      BY <3>4, <2>2, <1>0
    <3>6. TypeOK'
      BY <3>3, <3>4, <3>5 DEF TypeOK
    <3>. QED
      BY <3>4, <3>5, <3>6 DEF Places, Forward
  <2>. QED
    BY <2>1, <2>2
<1>5. CASE Rollback
  <2>1. CASE at > Len(snapshots)
    BY <1>5, <2>1 DEF Rollback, Finish, TypeOK, Places, Forward
  <2>2. CASE ~(at > Len(snapshots))
    <3>1. /\ RestoreOne(snapshots[at]) /\ at' = at + 1 /\ pc = "rollback"
          /\ UNCHANGED <<pc, outcome, snapshots, caller, batch, committed, original>>
      BY <1>5, <2>2 DEF Rollback
    <3>2. at \in DOMAIN snapshots
      BY <3>1, <2>2 DEF TypeOK, Places, Forward
    <3>3. snapshots[at] \in Snapshots
      BY <3>2 DEF TypeOK
    <3>4. /\ content' \in [Paths -> Contents] /\ backup' \in [Paths -> Contents]
          /\ links' \in SUBSET Links /\ faults' \in 0..MaxFaults
      BY <3>1, <3>3, RestoreType
    <3>5. TypeOK'
      BY <3>1, <3>4 DEF TypeOK
    <3>. QED
      BY <3>1, <3>5 DEF Places, Forward, TypeOK
  <2>. QED
    BY <2>1, <2>2
<1>6. CASE Commit
  <2>1. CASE at > Len(snapshots)
    <3>1. pc' = "done" /\ outcome' \in {"failed", "success"}
      BY <1>6, <2>1 DEF Commit, Finish
    <3>. QED
      BY <1>6, <2>1, <3>1 DEF Commit, TypeOK, Places, Forward
  <2>2. CASE ~(at > Len(snapshots))
    <3>1. /\ at' = at + 1 /\ pc = "commit"
          /\ UNCHANGED <<pc, outcome, snapshots, caller, batch, content, links, committed, original>>
      BY <1>6, <2>2 DEF Commit
    <3>2. backup' \in [Paths -> Contents]
      <4>1. Absent \in Contents
        BY DEF Absent, Contents
      <4>. QED
        BY <1>6, <2>2, <4>1 DEF Commit, TypeOK
    <3>3. faults' \in 0..MaxFaults
      BY <1>0, <1>6, <2>2 DEF Commit, Fault, TypeOK
    <3>4. TypeOK'
      BY <3>1, <3>2, <3>3 DEF TypeOK
    <3>. QED
      BY <3>1, <3>4 DEF Places, Forward, TypeOK
  <2>. QED
    BY <2>1, <2>2
<1>7. CASE Crash
  BY <1>7 DEF Crash, TypeOK, Places, Forward
<1>8. CASE UNCHANGED vars
  BY <1>8 DEF vars, TypeOK, Places, Forward
<1>. QED
  BY <1>1, <1>2, <1>3, <1>4, <1>5, <1>6, <1>7, <1>8 DEF Next

(* The variables keep their types, whatever fails. *)
THEOREM TypeCorrect == Spec => []TypeOK
<1>1. TypeOK /\ Places /\ [Next]_vars => (TypeOK /\ Places)'
  BY TypeStep
<1>. QED
  BY <1>1, TypeInit, PTL DEF Spec

-----------------------------------------------------------------------------
(* The originals                                                           *)

(* Without links every path is itself. *)
LEMMA NoLinkReads ==
    ASSUME TypeOK, Links = {}
    PROVE  /\ links = {}
           /\ \A path : Real(path) = path /\ Read(path) = content[path]
<1>1. links = {}
  BY DEF TypeOK
<1>. QED
  BY <1>1 DEF Real, Read

(* A restore brings an original back, or leaves it where it is. *)
LEMMA RestoreKeeps ==
    ASSUME TypeOK, Copies, Originals, NEW i \in DOMAIN snapshots,
           RestoreOne(snapshots[i]), original' = original
    PROVE  Originals'
<1>. DEFINE path == snapshots[i].path
<1>0. snapshots[i] \in Snapshots /\ path \in Paths
  <2>1. snapshots[i] \in Snapshots
    BY DEF TypeOK
  <2>. QED
    BY <2>1 DEF Snapshots
<1>1. path \in Before => snapshots[i].copied
  BY DEF Copies
<1>. SUFFICES ASSUME NEW q \in Before
              PROVE  IF backup'[q].exists THEN backup'[q] = original[q]
                     ELSE content'[q] = original[q]
  BY DEF Originals, Before
<1>2. q \in Paths
  BY DEF Before
<1>3. IF backup[q].exists THEN backup[q] = original[q] ELSE content[q] = original[q]
  BY DEF Originals
<1>4. CASE UNCHANGED <<content, backup>>
  BY <1>3, <1>4
<1>5. CASE /\ snapshots[i].copied => backup[path].exists
           /\ content' = [content EXCEPT ![path] = IF snapshots[i].copied THEN backup[path]
                                                   ELSE Absent]
           /\ backup' = [backup EXCEPT ![path] = Absent]
  <2>1. CASE q = path
    <3>1. content'[q] = backup[q] /\ backup'[q] = Absent /\ backup[q].exists
      BY <1>0, <1>1, <1>5, <2>1 DEF TypeOK
    <3>. QED
      BY <1>3, <3>1 DEF Absent
  <2>2. CASE q # path
    <3>1. content'[q] = content[q] /\ backup'[q] = backup[q]
      BY <1>2, <1>5, <2>2 DEF TypeOK
    <3>. QED
      BY <1>3, <3>1
  <2>. QED
    BY <2>1, <2>2
<1>. QED
  BY <1>4, <1>5 DEF RestoreOne

(* A snapshot is added to those there are. *)
LEMMA SnapshotTracks ==
    ASSUME TypeOK, NEW copied, Snapshot(copied)
    PROVE  /\ Tracked' = Tracked \union {batch[at].path}
           /\ \A i \in DOMAIN snapshots' :
                 \/ i \in DOMAIN snapshots /\ snapshots'[i] = snapshots[i]
                 \/ snapshots'[i] = [path |-> batch[at].path, copied |-> copied]
<1>. DEFINE new == [path |-> batch[at].path, copied |-> copied]
            n == Len(snapshots)
<1>1. snapshots' = Append(snapshots, new)
  BY DEF Snapshot
<1>2. /\ DOMAIN snapshots = 1..n /\ n \in Nat /\ DOMAIN snapshots' = 1..(n + 1)
      /\ snapshots'[n + 1] = new
      /\ \A i \in 1..n : snapshots'[i] = snapshots[i]
  BY <1>1 DEF TypeOK
<1>. HIDE DEF new
<1>3. \A i \in 1..(n + 1) : i \in 1..n \/ i = n + 1
  BY <1>2
<1>4. 1..n \subseteq 1..(n + 1) /\ n + 1 \in 1..(n + 1)
  BY <1>2
<1>5. new.path = batch[at].path
  BY DEF new
<1>6. Tracked' = Tracked \union {batch[at].path}
  BY <1>2, <1>3, <1>4, <1>5, Zenon DEF Tracked
<1>. QED
  BY <1>2, <1>3, <1>6, Zenon DEF new

(* Initially nothing is tracked and every file is its own original. *)
LEMMA OriginalsInit == Init => Copies /\ Originals
<1>. SUFFICES ASSUME Init PROVE Copies /\ Originals
  OBVIOUS
<1>1. \A path \in Paths : ~backup[path].exists
  BY DEF Init, Absent
<1>2. DOMAIN snapshots = {} /\ Tracked = {}
  BY DEF Init, Tracked
<1>3. Before \subseteq Paths
  BY DEF Before
<1>. QED
  BY <1>1, <1>2, <1>3 DEF Init, Copies, Originals

(* A step never uncommits, and the history variable stays. *)
LEMMA OriginalConstant ==
    ASSUME [Next]_vars
    PROVE  original' = original /\ (committed' = committed \/ committed' = TRUE)
<1>1. CASE Validate BY <1>1, Zenon DEF Validate
<1>2. CASE TakeSnapshot BY <1>2, Zenon DEF TakeSnapshot
<1>3. CASE ApplyEdit
  <2>1. committed' = committed \/ committed' = TRUE
    BY <1>3 DEF ApplyEdit, NextEdit, Fail
  <2>. QED
    BY <1>3, <2>1, Zenon DEF ApplyEdit
<1>4. CASE UndoApplied BY <1>4, Zenon DEF UndoApplied
<1>5. CASE Rollback BY <1>5, Zenon DEF Rollback
<1>6. CASE Commit BY <1>6, Zenon DEF Commit
<1>7. CASE Crash BY <1>7, Zenon DEF Crash
<1>8. CASE UNCHANGED vars BY <1>8, Zenon DEF vars
<1>. QED
  BY <1>1, <1>2, <1>3, <1>4, <1>5, <1>6, <1>7, <1>8 DEF Next

(* Until the commit every step keeps them. *)
LEMMA OriginalsStep ==
    ASSUME Links = {}, IInv, [Next]_vars, ~committed'
    PROVE  ~committed /\ Copies' /\ Originals'
<1>1. ~committed /\ original' = original
  <2>1. original' = original /\ (committed' = committed \/ committed' = TRUE)
    BY OriginalConstant
  <2>. QED
    BY <2>1
<1>2. TypeOK /\ Places /\ Copies /\ Originals
  BY <1>1 DEF IInv
<1>3. Before' = Before /\ Before \subseteq Paths
  BY <1>1 DEF Before
<1>4. ASSUME UNCHANGED <<content, backup>> PROVE Originals'
  BY <1>1, <1>2, <1>3, <1>4 DEF Originals
<1>5. ASSUME UNCHANGED snapshots PROVE Tracked' = Tracked
  BY <1>5 DEF Tracked
<1>6. CASE Validate
  <2>1. UNCHANGED <<content, backup, batch, snapshots, at>> /\ pc = "validate" /\ pc' # "write"
    BY <1>6 DEF Validate
  <2>. QED
    BY <1>1, <1>2, <1>3, <1>4, <1>5, <2>1 DEF Copies, Forward
<1>7. CASE TakeSnapshot
  <2>. DEFINE path == batch[at].path
  <2>1. at \in DOMAIN batch /\ path \in Paths /\ pc = "snapshot" /\ UNCHANGED <<content, batch>>
    BY <1>2, <1>7, BatchPaths DEF TakeSnapshot, Places, Forward
  <2>2. Read(path) = content[path]
    BY <1>2, NoLinkReads
  <2>3. CASE path \in Tracked /\ pc' = "write" /\ UNCHANGED <<backup, snapshots, at>>
    BY <1>1, <1>2, <1>3, <1>4, <1>5, <2>1, <2>3 DEF Copies, Forward
  <2>4. CASE /\ path \notin Tracked /\ ~content[path].exists
             /\ Snapshot(FALSE) /\ pc' = "write" /\ UNCHANGED <<backup, at>>
    <3>1. path \notin Before
      BY <1>2, <2>1, <2>4 DEF Copies, Originals, Forward, Before
    <3>2. /\ Tracked' = Tracked \union {path}
          /\ \A i \in DOMAIN snapshots' :
                \/ i \in DOMAIN snapshots /\ snapshots'[i] = snapshots[i]
                \/ snapshots'[i] = [path |-> path, copied |-> FALSE]
      BY <1>2, <2>4, SnapshotTracks
    <3>. QED
      BY <1>1, <1>2, <1>3, <1>4, <2>1, <2>4, <3>1, <3>2 DEF Copies, Forward
  <2>5. CASE /\ path \notin Tracked /\ content[path].exists
             /\ backup' = [backup EXCEPT ![path] = content[path]]
             /\ Snapshot(TRUE) /\ pc' = "write" /\ UNCHANGED at
    <3>1. /\ Tracked' = Tracked \union {path}
          /\ \A i \in DOMAIN snapshots' :
                \/ i \in DOMAIN snapshots /\ snapshots'[i] = snapshots[i]
                \/ snapshots'[i] = [path |-> path, copied |-> TRUE]
      BY <1>2, <2>5, SnapshotTracks
    <3>2. /\ backup'[path] = content[path]
          /\ \A q \in Paths : q # path => backup'[q] = backup[q]
      BY <1>2, <2>1, <2>5 DEF TypeOK
    <3>3. \A q \in Before : backup'[q].exists <=> q \in Tracked'
      BY <1>2, <1>3, <2>1, <2>5, <3>1, <3>2 DEF Copies, Forward
    <3>4. path \in Before => content[path] = original[path]
      BY <1>2, <2>1, <2>5 DEF Copies, Originals, Forward
    <3>5. Originals'
      BY <1>1, <1>2, <1>3, <2>1, <3>2, <3>4 DEF Originals
    <3>6. \A i \in DOMAIN snapshots' : snapshots'[i].path \in Before => snapshots'[i].copied
      BY <1>2, <3>1 DEF Copies
    <3>. QED
      BY <1>1, <1>3, <2>1, <2>5, <3>1, <3>3, <3>5, <3>6 DEF Copies
  <2>6. CASE Fail /\ UNCHANGED <<backup, snapshots>>
    <3>1. pc' \notin {"validate", "snapshot", "write"}
      BY <2>6 DEF Fail
    <3>. QED
      BY <1>1, <1>2, <1>3, <1>4, <1>5, <2>1, <2>6, <3>1 DEF Copies, Forward
  <2>. QED
    BY <1>7, <2>2, <2>3, <2>4, <2>5, <2>6 DEF TakeSnapshot
<1>8. CASE ApplyEdit
  <2>. DEFINE path == batch[at].path
  <2>1. /\ at \in DOMAIN batch /\ path \in Paths /\ path \in Tracked /\ pc = "write"
        /\ UNCHANGED <<batch, backup, snapshots>>
    BY <1>2, <1>8, BatchPaths DEF ApplyEdit, Places, Forward, Copies
  <2>2. Real(path) = path
    BY <1>2, NoLinkReads
  <2>3. content' = content \/ \E file : content' = [content EXCEPT ![path] = file]
    BY <1>8, <2>2 DEF ApplyEdit, Write
  <2>4. Originals'
    <3>1. path \in Before => backup[path].exists
      BY <1>2, <2>1 DEF Copies, Forward
    <3>2. \A q \in Paths : q # path => content'[q] = content[q]
      BY <1>2, <2>3 DEF TypeOK
    <3>. QED
      BY <1>1, <1>2, <1>3, <2>1, <3>1, <3>2 DEF Originals
  <2>5. pc' # "write"
    BY <1>8 DEF ApplyEdit, NextEdit, Fail
  <2>. QED
    BY <1>1, <1>2, <1>3, <1>5, <2>1, <2>4, <2>5 DEF Copies, Forward
<1>9. CASE UndoApplied
  <2>1. pc' \notin {"validate", "snapshot", "write"} /\ UNCHANGED snapshots
    BY <1>9 DEF UndoApplied
  <2>2. Originals'
    BY <1>1, <1>2, <1>4, <1>9, RestoreKeeps DEF UndoApplied
  <2>. QED
    BY <1>1, <1>2, <1>3, <2>1, <2>2 DEF Copies, Forward
<1>10. CASE Rollback
  <2>1. pc' \notin {"validate", "snapshot", "write"} /\ (snapshots' = snapshots \/ snapshots' = <<>>)
    BY <1>10 DEF Rollback, Finish
  <2>2. Originals'
    <3>1. CASE at > Len(snapshots)
      BY <1>4, <1>10, <3>1 DEF Rollback
    <3>2. CASE ~(at > Len(snapshots))
      <4>1. RestoreOne(snapshots[at]) /\ at \in DOMAIN snapshots
        BY <1>2, <1>10, <3>2 DEF Rollback, TypeOK, Places
      <4>. QED
        BY <1>1, <1>2, <4>1, RestoreKeeps
    <3>. QED
      BY <3>1, <3>2
  <2>3. \A i \in DOMAIN snapshots' : i \in DOMAIN snapshots /\ snapshots'[i] = snapshots[i]
    BY <2>1
  <2>. QED
    BY <1>1, <1>2, <1>3, <2>1, <2>2, <2>3 DEF Copies, Forward
<1>11. CASE Commit
  BY <1>1, <1>2, <1>11, Zenon DEF Commit, Places
<1>12. CASE Crash
  <2>1. pc' = "done" /\ UNCHANGED <<content, backup, snapshots>>
    BY <1>12 DEF Crash
  <2>. QED
    BY <1>1, <1>2, <1>3, <1>4, <2>1 DEF Copies, Forward
<1>13. CASE UNCHANGED vars
  <2>1. UNCHANGED <<pc, at, batch, content, backup, snapshots>>
    BY <1>13 DEF vars
  <2>. QED
    BY <1>1, <1>2, <1>3, <1>4, <1>5, <2>1 DEF Copies, Forward
<1>. QED
  BY <1>1, <1>6, <1>7, <1>8, <1>9, <1>10, <1>11, <1>12, <1>13 DEF Next

(* The originals are recoverable in every state before the commit. *)
LEMMA IInvCorrect == ASSUME Links = {} PROVE Spec => []IInv
<1>1. Init => IInv
  BY TypeInit, OriginalsInit DEF IInv
<1>2. IInv /\ [Next]_vars => IInv'
  BY TypeStep, OriginalsStep DEF IInv
<1>. QED
  BY <1>1, <1>2, PTL DEF Spec

-----------------------------------------------------------------------------
(* The refinement                                                          *)

(* Before the commit, what can be recovered is what was there. *)
LEMMA RecoveredOriginals ==
    ASSUME Originals, ~committed
    PROVE  Recovered = [path \in Before |-> original[path]]
  BY DEF Originals, Recovered

(* On files that are not symbolic links, whatever fails and wherever the   *)
(* process is killed, a batch happens at once or not at all.               *)
THEOREM Implements == ASSUME Links = {} PROVE Spec => ImplementsBatch
<1>1. Init => Batch!Init
  BY DEF Init, Batch!Init, Recovered
<1>2. IInv /\ [Next]_vars => [Batch!Commit]_(Batch!vars)
  <2>. SUFFICES ASSUME IInv, [Next]_vars PROVE [Batch!Commit]_(Batch!vars)
    OBVIOUS
  <2>1. CASE ~committed'
    <3>1. ~committed /\ Originals' /\ Originals
      BY <2>1, OriginalsStep DEF IInv
    <3>2. original' = original /\ Before' = Before
      BY OriginalConstant DEF Before
    <3>3. Recovered = [path \in Before |-> original[path]]
      BY <3>1, RecoveredOriginals
    <3>4. Recovered' = [path \in Before |-> original[path]]
      BY <2>1, <3>1, <3>2 DEF Originals, Recovered
    <3>. QED
      BY <2>1, <3>1, <3>3, <3>4, OriginalConstant DEF Batch!vars
  <2>2. CASE committed' /\ ~committed
    <3>1. DOMAIN Recovered = Before /\ Recovered' = [path \in Before' |-> Recovered'[path]]
      BY DEF Recovered
    <3>2. Before' = Before
      BY OriginalConstant DEF Before
    <3>. QED
      BY <2>2, <3>1, <3>2 DEF Batch!Commit
  <2>3. CASE committed' /\ committed
    <3>1. pc \in {"commit", "done"}
      BY <2>3 DEF IInv, Places
    <3>2. UNCHANGED <<content, committed, original>>
      BY <3>1 DEF Next, Validate, TakeSnapshot, ApplyEdit, UndoApplied, Rollback, Commit,
                  Crash, vars
    <3>. QED
      BY <2>3, <3>2 DEF Recovered, Before, Batch!vars
  <2>. QED
    BY <2>1, <2>2, <2>3
<1>. QED
  BY <1>1, <1>2, IInvCorrect, PTL DEF Spec, ImplementsBatch, Batch!Spec

-----------------------------------------------------------------------------
(* What a failed batch leaves                                              *)

(* The paths of the snapshots that rollback has still to come to, and what *)
(* is not as it was and will not be restored any more.                     *)
ToRestore == {snapshots[i].path : i \in {j \in DOMAIN snapshots : j >= at}}
Missed == LeftBehind \ ToRestore

(* Until the rollback only what is in the snapshot map has changed; the    *)
(* rollback then passes a path that stays changed once for every operation *)
(* that failed.                                                            *)
Undoing ==
    /\ \A i \in DOMAIN snapshots : snapshots[i].copied <=> snapshots[i].path \in Before
    /\ pc \in {"validate", "snapshot", "write", "undo"} => LeftBehind \subseteq Tracked
    /\ pc = "rollback" => IsFiniteSet(Missed) /\ Cardinality(Missed) <= faults

(* What atomicEdit has written is in place until an edit fails; the        *)
(* cleaning passes a backup that stays once for every unlink that failed.  *)
Uncleanable == Backups \ ToRestore

Committing ==
    /\ caller = "atomicEdit" /\ Forward => InPlace(at - 1)
    /\ caller = "atomicEdit" /\ committed => InPlace(Len(batch))
    /\ pc = "commit" => IsFiniteSet(Uncleanable) /\ Cardinality(Uncleanable) <= faults

UndoInv ==
    /\ outcome # "none" => pc = "done"
    /\ ~committed => Undoing
    /\ Committing
    /\ FailureUndone

(* A restore changes one path; either that path is as it was or an         *)
(* operation has failed.                                                   *)
LEMMA RestoreUndoes ==
    ASSUME TypeOK, Originals, Undoing, NEW i \in DOMAIN snapshots,
           RestoreOne(snapshots[i]), original' = original
    PROVE  LET path == snapshots[i].path IN
           \/ LeftBehind' = LeftBehind \ {path} /\ faults' = faults
           \/ LeftBehind' = LeftBehind /\ faults' = faults + 1
<1>. DEFINE path == snapshots[i].path
            s == snapshots[i]
<1>1. s \in Snapshots /\ path \in Paths
  <2>1. s \in Snapshots
    BY DEF TypeOK
  <2>. QED
    BY <2>1 DEF Snapshots
<1>2. s.copied <=> original[path].exists
  BY <1>1 DEF Undoing, Before
<1>3. original[path] \in {Absent, File({})}
  BY <1>1 DEF TypeOK
<1>4. ~original[path].exists => original[path] = Absent
  BY <1>3 DEF File
<1>5. original[path].exists =>
         IF backup[path].exists THEN backup[path] = original[path] ELSE content[path] = original[path]
  BY <1>1 DEF Originals, Before
<1>6. CASE /\ s.copied => backup[path].exists
           /\ content' = [content EXCEPT ![path] = IF s.copied THEN backup[path] ELSE Absent]
           /\ backup' = [backup EXCEPT ![path] = Absent]
           /\ faults' = faults
  <2>1. content'[path] = original[path] /\ ~backup'[path].exists
    BY <1>1, <1>2, <1>4, <1>5, <1>6 DEF TypeOK, Absent
  <2>2. \A q \in Paths : q # path => content'[q] = content[q] /\ backup'[q] = backup[q]
    BY <1>6 DEF TypeOK
  <2>. QED
    BY <1>6, <2>1, <2>2 DEF LeftBehind, Backups
<1>7. CASE s.copied /\ ~backup[path].exists /\ UNCHANGED <<content, backup, faults>>
  <2>1. path \notin LeftBehind
    BY <1>2, <1>5, <1>7 DEF LeftBehind, Backups
  <2>. QED
    BY <1>7, <2>1 DEF LeftBehind, Backups
<1>8. CASE Fault /\ UNCHANGED <<content, backup>>
  BY <1>8 DEF Fault, LeftBehind, Backups
<1>. QED
  BY <1>6, <1>7, <1>8 DEF RestoreOne

(* A step of the rollback. *)
LEMMA RollbackUndoes ==
    ASSUME IInv, Undoing, ~committed, Rollback, at <= Len(snapshots)
    PROVE  Undoing'
<1>1. /\ TypeOK /\ Originals /\ at \in 1..Len(snapshots) /\ DOMAIN snapshots = 1..Len(snapshots)
      /\ at \in DOMAIN snapshots /\ Len(snapshots) \in Nat
  BY DEF IInv, TypeOK, Places, Rollback
<1>2. /\ RestoreOne(snapshots[at]) /\ at' = at + 1 /\ pc = "rollback" /\ pc' = "rollback"
      /\ UNCHANGED <<snapshots, original>>
  BY <1>1 DEF Rollback
<1>. DEFINE path == snapshots[at].path
<1>3. \/ LeftBehind' = LeftBehind \ {path} /\ faults' = faults
      \/ LeftBehind' = LeftBehind /\ faults' = faults + 1
  BY <1>1, <1>2, RestoreUndoes
<1>4. ToRestore \subseteq ToRestore' \union {path}
  BY <1>1, <1>2 DEF ToRestore
<1>5. IsFiniteSet(Missed) /\ Cardinality(Missed) <= faults /\ faults \in Nat
  BY <1>1, <1>2, EditAssumption DEF Undoing, TypeOK
<1>6. Cardinality(Missed) \in Nat
  BY <1>5, FS_CardinalityType
<1>7. CASE LeftBehind' = LeftBehind \ {path} /\ faults' = faults
  <2>1. Missed' \subseteq Missed
    BY <1>4, <1>7 DEF Missed
  <2>2. IsFiniteSet(Missed') /\ Cardinality(Missed') <= Cardinality(Missed)
    BY <1>5, <2>1, FS_Subset
  <2>3. Cardinality(Missed') \in Nat
    BY <2>2, FS_CardinalityType
  <2>4. Cardinality(Missed') <= faults'
    BY <1>5, <1>6, <1>7, <2>2, <2>3
  <2>. QED
    BY <1>2, <2>2, <2>4 DEF Undoing, Before
<1>8. CASE LeftBehind' = LeftBehind /\ faults' = faults + 1
  <2>1. Missed' \subseteq Missed \union {path}
    BY <1>4, <1>8 DEF Missed
  <2>2. /\ IsFiniteSet(Missed \union {path})
        /\ Cardinality(Missed \union {path}) \in {Cardinality(Missed), Cardinality(Missed) + 1}
    BY <1>5, FS_AddElement, Zenon
  <2>3. IsFiniteSet(Missed') /\ Cardinality(Missed') <= Cardinality(Missed \union {path})
    BY <2>1, <2>2, FS_Subset
  <2>4. Cardinality(Missed') \in Nat /\ Cardinality(Missed \union {path}) \in Nat
    BY <2>2, <2>3, FS_CardinalityType
  <2>5. Cardinality(Missed') <= faults'
    BY <1>5, <1>6, <1>8, <2>2, <2>3, <2>4
  <2>. QED
    BY <1>2, <2>3, <2>5 DEF Undoing, Before
<1>. QED
  BY <1>3, <1>7, <1>8

(* The rollback begins with every snapshot before it. *)
LEMMA RollbackBegins ==
    ASSUME TypeOK', at' = 1, LeftBehind' \subseteq Tracked'
    PROVE  (IsFiniteSet(Missed) /\ Cardinality(Missed) <= faults)'
<1>1. ToRestore' = Tracked'
  BY DEF TypeOK, ToRestore, Tracked
<1>2. Missed' = {}
  BY <1>1 DEF Missed
<1>3. faults' \in Nat
  BY EditAssumption DEF TypeOK
<1>. QED
  BY <1>2, <1>3, FS_EmptySet

(* Until the commit every step but the rollback's keeps it. *)
LEMMA UndoingStep ==
    ASSUME Links = {}, IInv, UndoInv, [Next]_vars, ~committed'
    PROVE  Undoing'
<1>1. ~committed /\ original' = original /\ Before' = Before
  BY OriginalConstant, OriginalsStep DEF Before
<1>2. TypeOK /\ TypeOK' /\ Places /\ Copies /\ Originals /\ Undoing
  BY <1>1, TypeStep DEF IInv, UndoInv
<1>3. ASSUME UNCHANGED snapshots
      PROVE  \A i \in DOMAIN snapshots' : snapshots'[i].copied <=> snapshots'[i].path \in Before'
  BY <1>1, <1>2, <1>3 DEF Undoing
<1>4. ASSUME UNCHANGED <<content, backup>> PROVE LeftBehind' = LeftBehind
  BY <1>1, <1>4 DEF LeftBehind, Backups
<1>5. ASSUME UNCHANGED snapshots PROVE Tracked' = Tracked
  BY <1>5 DEF Tracked
<1>6. ASSUME at' = 1, LeftBehind' \subseteq Tracked'
      PROVE  IsFiniteSet(Missed') /\ Cardinality(Missed') <= faults'
  BY <1>2, <1>6, RollbackBegins
<1>7. ASSUME Fail, UNCHANGED <<content, backup, snapshots>>, LeftBehind \subseteq Tracked
      PROVE  Undoing'
  <2>1. LeftBehind' \subseteq Tracked'
    BY <1>4, <1>5, <1>7
  <2>2. pc' = "undo" \/ (pc' = "rollback" /\ at' = 1)
    BY <1>7 DEF Fail
  <2>. QED
    BY <1>3, <1>6, <1>7, <2>1, <2>2 DEF Undoing
<1>8. CASE Validate
  <2>1. UNCHANGED <<content, backup, snapshots>> /\ pc = "validate" /\ pc' # "rollback"
    BY <1>8 DEF Validate
  <2>. QED
    BY <1>2, <1>3, <1>4, <1>5, <2>1 DEF Undoing
<1>9. CASE TakeSnapshot
  <2>. DEFINE path == batch[at].path
  <2>1. /\ at \in DOMAIN batch /\ path \in Paths /\ pc = "snapshot" /\ UNCHANGED content
        /\ LeftBehind \subseteq Tracked
    BY <1>2, <1>9, BatchPaths DEF TakeSnapshot, Places, Forward, Undoing
  <2>2. Read(path) = content[path]
    BY <1>2, NoLinkReads
  <2>3. CASE path \in Tracked /\ pc' = "write" /\ UNCHANGED <<backup, snapshots>>
    BY <1>2, <1>3, <1>4, <1>5, <2>1, <2>3 DEF Undoing
  <2>4. CASE Fail /\ UNCHANGED <<backup, snapshots>>
    BY <1>7, <2>1, <2>4
  <2>5. ASSUME NEW copied \in BOOLEAN, copied <=> content[path].exists, path \notin Tracked,
               Snapshot(copied), pc' = "write",
               \A q \in Paths : q # path => backup'[q] = backup[q]
        PROVE  Undoing'
    <3>1. /\ Tracked' = Tracked \union {path}
          /\ \A i \in DOMAIN snapshots' :
                \/ i \in DOMAIN snapshots /\ snapshots'[i] = snapshots[i]
                \/ snapshots'[i] = [path |-> path, copied |-> copied]
      BY <1>2, <2>5, SnapshotTracks
    <3>2. copied <=> path \in Before
      BY <2>1, <2>5 DEF LeftBehind, Backups, Before
    <3>3. \A i \in DOMAIN snapshots' : snapshots'[i].copied <=> snapshots'[i].path \in Before'
      BY <1>1, <1>2, <3>1, <3>2 DEF Undoing
    <3>4. LeftBehind' \subseteq LeftBehind \union {path}
      BY <1>1, <2>1, <2>5 DEF LeftBehind, Backups
    <3>. QED
      BY <2>1, <2>5, <3>1, <3>3, <3>4 DEF Undoing
  <2>6. CASE /\ path \notin Tracked /\ ~content[path].exists
             /\ Snapshot(FALSE) /\ pc' = "write" /\ UNCHANGED backup
    BY <2>5, <2>6, Zenon
  <2>7. CASE /\ path \notin Tracked /\ content[path].exists
             /\ backup' = [backup EXCEPT ![path] = content[path]]
             /\ Snapshot(TRUE) /\ pc' = "write"
    <3>1. \A q \in Paths : q # path => backup'[q] = backup[q]
      BY <1>2, <2>7 DEF TypeOK
    <3>. QED
      BY <2>5, <2>7, <3>1, Zenon
  <2>. QED
    BY <1>9, <2>2, <2>3, <2>4, <2>6, <2>7 DEF TakeSnapshot
<1>10. CASE ApplyEdit
  <2>. DEFINE path == batch[at].path
  <2>1. /\ at \in DOMAIN batch /\ path \in Paths /\ path \in Tracked /\ pc = "write"
        /\ UNCHANGED <<backup, snapshots>> /\ LeftBehind \subseteq Tracked
    BY <1>2, <1>10, BatchPaths DEF ApplyEdit, Places, Forward, Copies, Undoing
  <2>2. Real(path) = path
    BY <1>2, NoLinkReads
  <2>3. CASE Fail /\ UNCHANGED content
    BY <1>7, <2>1, <2>3
  <2>4. CASE NextEdit /\ \E file : content' = [content EXCEPT ![path] = file]
    <3>1. pc' = "snapshot"
      BY <1>1, <2>4 DEF NextEdit
    <3>2. \A q \in Paths : q # path => content'[q] = content[q]
      BY <1>2, <2>4 DEF TypeOK
    <3>3. LeftBehind' \subseteq LeftBehind \union {path}
      BY <1>1, <2>1, <3>2 DEF LeftBehind, Backups
    <3>. QED
      BY <1>3, <1>5, <2>1, <3>1, <3>3 DEF Undoing
  <2>. QED
    BY <1>10, <2>2, <2>3, <2>4 DEF ApplyEdit, Write
<1>11. CASE UndoApplied
  <2>1. pc = "undo" /\ UNCHANGED snapshots /\ LeftBehind \subseteq Tracked
    BY <1>2, <1>11 DEF UndoApplied, Undoing
  <2>2. LeftBehind' \subseteq LeftBehind
    BY <1>1, <1>2, <1>4, <1>11, RestoreUndoes DEF UndoApplied
  <2>3. pc' = "undo" \/ (pc' = "rollback" /\ at' = 1)
    BY <1>11 DEF UndoApplied
  <2>. QED
    BY <1>3, <1>5, <1>6, <2>1, <2>2, <2>3 DEF Undoing
<1>12. CASE Rollback
  <2>1. CASE at > Len(snapshots)
    <3>1. pc' = "done" /\ snapshots' = <<>>
      BY <1>12, <2>1 DEF Rollback, Finish
    <3>. QED
      BY <3>1 DEF Undoing
  <2>2. CASE ~(at > Len(snapshots))
    BY <1>1, <1>2, <1>12, <2>2, RollbackUndoes DEF TypeOK
  <2>. QED
    BY <2>1, <2>2
<1>13. CASE Commit
  BY <1>1, <1>2, <1>13, Zenon DEF Commit, Places
<1>14. CASE Crash
  <2>1. pc' = "done" /\ UNCHANGED snapshots
    BY <1>14 DEF Crash
  <2>. QED
    BY <1>3, <2>1 DEF Undoing
<1>15. CASE UNCHANGED vars
  <2>1. UNCHANGED <<pc, at, content, backup, snapshots, faults>>
    BY <1>15 DEF vars
  <2>2. Missed' = Missed
    BY <1>4, <2>1 DEF Missed, ToRestore
  <2>. QED
    BY <1>2, <1>3, <1>4, <1>5, <2>1, <2>2 DEF Undoing
<1>. QED
  BY <1>8, <1>9, <1>10, <1>11, <1>12, <1>13, <1>14, <1>15 DEF Next

(* A step of the cleaning. *)
LEMMA CleaningStep ==
    ASSUME IInv, Committing, Commit, at <= Len(snapshots)
    PROVE  Committing'
<1>1. /\ TypeOK /\ at \in 1..Len(snapshots) /\ at \in DOMAIN snapshots /\ Len(snapshots) \in Nat
      /\ DOMAIN snapshots = 1..Len(snapshots)
  BY DEF IInv, TypeOK, Places, Commit
<1>2. /\ at' = at + 1 /\ pc = "commit" /\ pc' = "commit"
      /\ UNCHANGED <<snapshots, caller, batch, content, links, committed>>
  BY <1>1 DEF Commit
<1>. DEFINE path == snapshots[at].path
<1>3. path \in Paths
  <2>1. snapshots[at] \in Snapshots
    BY <1>1 DEF TypeOK
  <2>. QED
    BY <2>1 DEF Snapshots
<1>4. \/ Backups' = Backups \ {path} /\ faults' = faults
      \/ Backups' = Backups /\ faults' = faults + 1
  <2>1. CASE backup' = [backup EXCEPT ![path] = Absent] /\ faults' = faults
    <3>1. ~backup'[path].exists /\ \A q \in Paths : q # path => backup'[q] = backup[q]
      BY <1>1, <1>3, <2>1 DEF TypeOK, Absent
    <3>. QED
      BY <2>1, <3>1 DEF Backups
  <2>2. CASE Fault /\ UNCHANGED backup
    BY <2>2 DEF Fault, Backups
  <2>. QED
    BY <1>1, <2>1, <2>2 DEF Commit
<1>5. ToRestore \subseteq ToRestore' \union {path}
  BY <1>1, <1>2 DEF ToRestore
<1>6. /\ IsFiniteSet(Uncleanable) /\ Cardinality(Uncleanable) <= faults /\ faults \in Nat
      /\ Cardinality(Uncleanable) \in Nat
  BY <1>1, <1>2, EditAssumption, FS_CardinalityType DEF Committing, TypeOK
<1>7. IsFiniteSet(Uncleanable') /\ Cardinality(Uncleanable') <= faults'
  <2>1. CASE Backups' = Backups \ {path} /\ faults' = faults
    <3>1. Uncleanable' \subseteq Uncleanable
      BY <1>5, <2>1 DEF Uncleanable
    <3>2. IsFiniteSet(Uncleanable') /\ Cardinality(Uncleanable') <= Cardinality(Uncleanable)
      BY <1>6, <3>1, FS_Subset
    <3>3. Cardinality(Uncleanable') \in Nat
      BY <3>2, FS_CardinalityType
    <3>. QED
      BY <1>6, <2>1, <3>2, <3>3
  <2>2. CASE Backups' = Backups /\ faults' = faults + 1
    <3>1. Uncleanable' \subseteq Uncleanable \union {path}
      BY <1>5, <2>2 DEF Uncleanable
    <3>2. /\ IsFiniteSet(Uncleanable \union {path})
          /\ Cardinality(Uncleanable \union {path})
                \in {Cardinality(Uncleanable), Cardinality(Uncleanable) + 1}
      BY <1>6, FS_AddElement, Zenon
    <3>3. /\ IsFiniteSet(Uncleanable')
          /\ Cardinality(Uncleanable') <= Cardinality(Uncleanable \union {path})
      BY <3>1, <3>2, FS_Subset
    <3>4. Cardinality(Uncleanable') \in Nat /\ Cardinality(Uncleanable \union {path}) \in Nat
      BY <3>2, <3>3, FS_CardinalityType
    <3>. QED
      BY <1>6, <2>2, <3>2, <3>3, <3>4
  <2>. QED
    BY <1>4, <2>1, <2>2
<1>8. ASSUME NEW n PROVE InPlace(n)' <=> InPlace(n)
  BY <1>2 DEF InPlace, Read, Real
<1>9. caller' = "atomicEdit" /\ committed' => InPlace(Len(batch))'
  BY <1>2, <1>8 DEF Committing
<1>. QED
  BY <1>2, <1>7, <1>9 DEF Committing, Forward

(* An edit of atomicEdit that is written is in place, and so are those     *)
(* before it that it does not replace.                                     *)
LEMMA EditInPlace ==
    ASSUME Links = {}, TypeOK, TypeOK', at \in DOMAIN batch, InPlace(at - 1),
           content' = [content EXCEPT ![batch[at].path] = File({at})],
           batch' = batch
    PROVE  \A n : n = at => InPlace(n)'
<1>1. batch[at].path \in Paths /\ DOMAIN batch = 1..Len(batch) /\ Len(batch) \in Nat
  BY BatchPaths
<1>2. at \in 1..Len(batch)
  BY <1>1
<1>3. \A path : Read(path) = content[path] /\ Read(path)' = content'[path]
  BY NoLinkReads DEF TypeOK, Read, Real
<1>. SUFFICES ASSUME NEW i \in 1..at, \A j \in (i + 1)..at : batch[j].path # batch[i].path
              PROVE  content'[batch[i].path] = File({i})
  BY <1>3 DEF InPlace
<1>4. batch[i].path \in Paths
  BY <1>1, <1>2, BatchPaths
<1>5. CASE i = at
  BY <1>1, <1>5 DEF TypeOK
<1>6. CASE i # at
  <2>1. i \in 1..(at - 1) /\ at \in (i + 1)..at
    BY <1>2, <1>6
  <2>2. \A j \in (i + 1)..(at - 1) : j \in (i + 1)..at
    BY <1>2
  <2>3. content[batch[i].path] = File({i})
    BY <1>3, <2>1, <2>2 DEF InPlace
  <2>. QED
    BY <1>4, <2>1, <2>3 DEF TypeOK
<1>. QED
  BY <1>5, <1>6

(* Every step keeps it. *)
LEMMA CommittingStep ==
    ASSUME Links = {}, IInv, UndoInv, [Next]_vars
    PROVE  Committing'
<1>1. /\ TypeOK /\ TypeOK' /\ Places /\ Committing
      /\ ~committed => Undoing
  BY TypeStep DEF IInv, UndoInv
<1>2. ASSUME NEW n, UNCHANGED <<batch, content, links>> PROVE InPlace(n)' <=> InPlace(n)
  BY <1>2 DEF InPlace, Read, Real
<1>3. ASSUME pc' \in {"undo", "rollback", "done"}, ~committed' PROVE Committing'
  BY <1>3 DEF Committing, Forward
<1>4. CASE Validate
  <2>1. /\ UNCHANGED <<caller, batch, content, links, committed, at>>
        /\ pc = "validate" /\ pc' \in {"snapshot", "done"}
    BY <1>4 DEF Validate
  <2>. QED
    BY <1>1, <1>2, <2>1 DEF Committing, Forward
<1>5. CASE TakeSnapshot
  <2>1. /\ UNCHANGED <<caller, batch, content, links, committed>> /\ pc = "snapshot"
        /\ (pc' = "write" /\ at' = at) \/ Fail
    BY <1>5 DEF TakeSnapshot
  <2>2. ~committed'
    BY <1>1, <2>1 DEF Places
  <2>3. CASE pc' = "write" /\ at' = at
    BY <1>1, <1>2, <2>1, <2>2, <2>3 DEF Committing, Forward
  <2>4. CASE Fail
    BY <1>3, <2>2, <2>4 DEF Fail
  <2>. QED
    BY <2>1, <2>3, <2>4
<1>6. CASE ApplyEdit
  <2>. DEFINE path == batch[at].path
  <2>1. /\ at \in DOMAIN batch /\ path \in Paths /\ pc = "write" /\ ~committed
        /\ UNCHANGED <<caller, batch, links, backup, snapshots>>
    BY <1>1, <1>6, BatchPaths DEF ApplyEdit, Places, Forward
  <2>2. CASE Fail /\ UNCHANGED committed
    BY <1>3, <2>1, <2>2 DEF Fail
  <2>3. CASE Write(path, Edited(batch[at], Read(path))) /\ NextEdit
    <3>1. caller = "atomicEdit" => content' = [content EXCEPT ![path] = File({at})]
      BY <1>1, <2>3, NoLinkReads DEF Write, Edited
    <3>2. caller = "atomicEdit" => \A n : n = at => InPlace(n)'
      BY <1>1, <2>1, <3>1, EditInPlace DEF Committing, Forward
    <3>3. at \in Nat
      BY <1>1 DEF TypeOK
    <3>4. CASE at # Len(batch)
      <4>1. pc' = "snapshot" /\ at' - 1 = at /\ ~committed'
        BY <2>1, <2>3, <3>3, <3>4 DEF NextEdit
      <4>. QED
        BY <2>1, <3>2, <4>1 DEF Committing
    <3>5. CASE at = Len(batch)
      <4>1. pc' = "commit" /\ at' = 1
        BY <2>3, <3>5 DEF NextEdit
      <4>2. Backups' \subseteq Tracked'
        BY <1>1, <2>1 DEF Undoing, LeftBehind, Backups, Tracked
      <4>3. ToRestore' = Tracked'
        BY <1>1, <4>1 DEF TypeOK, ToRestore, Tracked
      <4>4. Uncleanable' = {} /\ faults' \in Nat
        BY <1>1, <4>2, <4>3, EditAssumption DEF Uncleanable, TypeOK
      <4>5. IsFiniteSet(Uncleanable') /\ Cardinality(Uncleanable') <= faults'
        BY <4>4, FS_EmptySet
      <4>. QED
        BY <2>1, <3>2, <3>5, <4>1, <4>5 DEF Committing, Forward
    <3>. QED
      BY <3>4, <3>5
  <2>. QED
    BY <1>6, <2>2, <2>3 DEF ApplyEdit
<1>7. CASE UndoApplied
  BY <1>1, <1>3, <1>7 DEF UndoApplied, Places
<1>8. CASE Rollback
  BY <1>1, <1>3, <1>8 DEF Rollback, Finish, Places
<1>9. CASE Commit
  <2>1. CASE at > Len(snapshots)
    <3>1. pc' = "done" /\ UNCHANGED <<caller, batch, content, links, committed>>
      BY <1>9, <2>1 DEF Commit, Finish
    <3>. QED
      BY <1>1, <1>2, <3>1 DEF Committing, Forward
  <2>2. CASE ~(at > Len(snapshots))
    BY <1>1, <1>9, <2>2, CleaningStep DEF TypeOK
  <2>. QED
    BY <2>1, <2>2
<1>10. CASE Crash
  <2>1. pc' = "done" /\ UNCHANGED <<caller, batch, content, links, committed>>
    BY <1>10 DEF Crash
  <2>. QED
    BY <1>1, <1>2, <2>1 DEF Committing, Forward
<1>11. CASE UNCHANGED vars
  <2>1. UNCHANGED <<caller, batch, content, links, committed, at, pc, snapshots, backup, faults>>
    BY <1>11 DEF vars
  <2>2. Uncleanable' = Uncleanable
    BY <2>1 DEF Uncleanable, Backups, ToRestore
  <2>. QED
    BY <1>1, <1>2, <2>1, <2>2 DEF Committing, Forward
<1>. QED
  BY <1>4, <1>5, <1>6, <1>7, <1>8, <1>9, <1>10, <1>11 DEF Next

(* A batch has an outcome when it is done; the end of a rollback and that  *)
(* of a cleaning report failures.                                          *)
LEMMA UndoInvStep ==
    ASSUME Links = {}, IInv, UndoInv, [Next]_vars
    PROVE  UndoInv'
<1>1. (~committed' => Undoing') /\ Committing'
  BY UndoingStep, CommittingStep
<1>2. TypeOK /\ Places /\ Committing /\ FailureUndone
  BY DEF IInv, UndoInv
<1>3. ASSUME pc # "done", outcome' = "none" \/ (pc' = "done" /\ outcome' # "failed")
      PROVE  UndoInv'
  BY <1>1, <1>3 DEF UndoInv, FailureUndone
<1>4. pc # "done" => outcome = "none"
  BY DEF UndoInv
<1>5. CASE Validate \/ TakeSnapshot \/ ApplyEdit \/ UndoApplied \/ Crash
  <2>1. pc # "done"
    BY <1>5 DEF Validate, TakeSnapshot, ApplyEdit, UndoApplied, Crash
  <2>2. outcome' = "none" \/ (pc' = "done" /\ outcome' \in {"rejected", "crashed"})
    BY <1>4, <1>5, <2>1 DEF Validate, TakeSnapshot, ApplyEdit, UndoApplied, Crash
  <2>. QED
    BY <1>3, <2>1, <2>2
<1>6. CASE Rollback
  <2>1. pc = "rollback" /\ outcome = "none" /\ ~committed /\ UNCHANGED committed
    BY <1>2, <1>4, <1>6 DEF Rollback, Places
  <2>2. CASE ~(at > Len(snapshots))
    <3>1. outcome' = "none"
      BY <1>6, <2>1, <2>2 DEF Rollback
    <3>. QED
      BY <1>3, <2>1, <3>1
  <2>3. CASE at > Len(snapshots)
    <3>1. pc' = "done" /\ UNCHANGED <<content, backup, faults, original>>
      BY <1>6, <2>3 DEF Rollback, Finish
    <3>2. LeftBehind' = LeftBehind
      BY <3>1 DEF LeftBehind, Backups
    <3>3. ToRestore = {}
      BY <1>2, <2>3 DEF ToRestore, TypeOK
    <3>4. Cardinality(LeftBehind) <= faults
      BY <2>1, <3>3 DEF UndoInv, Undoing, Missed
    <3>. QED
      BY <1>1, <2>1, <3>1, <3>2, <3>4 DEF UndoInv, FailureUndone
  <2>. QED
    BY <2>2, <2>3
<1>7. CASE Commit
  <2>1. pc = "commit" /\ outcome = "none" /\ committed /\ UNCHANGED committed
    BY <1>2, <1>4, <1>7 DEF Commit, Places
  <2>2. CASE ~(at > Len(snapshots))
    <3>1. outcome' = "none"
      BY <1>7, <2>1, <2>2 DEF Commit
    <3>. QED
      BY <1>3, <2>1, <3>1
  <2>3. CASE at > Len(snapshots)
    <3>1. /\ pc' = "done" /\ UNCHANGED <<batch, links, content, backup, faults>>
          /\ outcome' = "failed" => caller = "atomicEdit" /\ Uncleaned
      BY <1>7, <2>3 DEF Commit, Finish
    <3>2. Backups' = Backups /\ (InPlace(Len(batch))' <=> InPlace(Len(batch)))
      BY <3>1 DEF Backups, InPlace, Read, Real
    <3>3. ToRestore = {}
      BY <1>2, <2>3 DEF ToRestore, TypeOK
    <3>4. Cardinality(Backups) <= faults
      BY <1>2, <2>1, <3>3 DEF Committing, Uncleanable
    <3>5. Uncleaned => Backups # {}
      <4>1. \A i \in DOMAIN snapshots : snapshots[i] \in Snapshots
        BY <1>2 DEF TypeOK
      <4>2. \A snapshot \in Snapshots : snapshot.path \in Paths
        BY DEF Snapshots
      <4>. QED
        BY <4>1, <4>2 DEF Uncleaned, Backups
    <3>6. caller = "atomicEdit" => InPlace(Len(batch))
      BY <1>2, <2>1 DEF Committing
    <3>7. FailureUndone'
      BY <2>1, <3>1, <3>2, <3>4, <3>5, <3>6 DEF FailureUndone
    <3>. QED
      BY <1>1, <3>1, <3>7 DEF UndoInv
  <2>. QED
    BY <2>2, <2>3
<1>8. CASE UNCHANGED vars
  <2>1. UNCHANGED <<outcome, pc, content, backup, original, faults, batch, links, committed>>
    BY <1>8 DEF vars
  <2>2. LeftBehind' = LeftBehind /\ Backups' = Backups
    BY <2>1 DEF LeftBehind, Backups
  <2>3. InPlace(Len(batch))' <=> InPlace(Len(batch))
    BY <2>1 DEF InPlace, Read, Real
  <2>4. FailureUndone'
    BY <1>2, <2>1, <2>2, <2>3 DEF FailureUndone
  <2>. QED
    BY <1>1, <2>1, <2>4 DEF UndoInv
<1>. QED
  BY <1>5, <1>6, <1>7, <1>8 DEF Next

(* On files that are not symbolic links a batch reported as failed is      *)
(* either rolled back, every path as it was and no backup, but for one     *)
(* path for each operation that failed: the undo of mutateAll and the      *)
(* rollback after it do not undo one another; or it is all in place, and   *)
(* atomicEdit reports only the backups that could not be removed.          *)
THEOREM FailuresAreUndone == ASSUME Links = {} PROVE Spec => []FailureUndone
<1>1. Init => UndoInv
  <2>. SUFFICES ASSUME Init PROVE UndoInv
    OBVIOUS
  <2>1. outcome = "none" /\ snapshots = <<>> /\ pc # "rollback"
    BY DEF Init
  <2>2. LeftBehind = {}
    BY DEF Init, LeftBehind, Backups, Absent
  <2>3. Committing
    BY DEF Init, Committing, InPlace
  <2>. QED
    BY <2>1, <2>2, <2>3 DEF UndoInv, Undoing, FailureUndone
<1>2. IInv /\ UndoInv /\ [Next]_vars => UndoInv'
  BY UndoInvStep
<1>3. UndoInv => FailureUndone
  BY DEF UndoInv
<1>. QED
  BY <1>1, <1>2, <1>3, IInvCorrect, PTL DEF Spec
=============================================================================
