--------------------------- MODULE Storage_proofs ----------------------------
(***************************************************************************)
(* Proofs about SafeSave, for any files, texts and number of rewrites.     *)
(* The inductive invariant adds to the properties what each step of an     *)
(* operation knows: what the staging file holds, and that a version which  *)
(* has been left behind cannot come back while it is being loaded.         *)
(***************************************************************************)
EXTENDS StorageMC, TLAPS

\* The disk has left version w for good: its metadata or its text moved on.
Beyond(v, w) ==
    \/ v = Missing
    \/ v.stamp > w.stamp
    \/ v.stamp = w.stamp /\ v.amended /\ v.text # w.text

TargetKnown == op.step # "idle" => op.target \in Paths

StampsKnown ==
    /\ \A p \in Paths : file[p] # Missing => file[p].stamp <= clock
    /\ op.expected # Missing => op.expected.stamp <= clock
    /\ doc.baseline # Missing => doc.baseline.stamp <= clock

StageKnown ==
    /\ op.step \notin {"write", "preserve", "recheck", "commit"} => stage = Missing
    /\ op.step \in {"preserve", "recheck", "commit"} => stage = doc.text
    /\ op.step \in {"recheck", "commit", "verify"} => op.held = doc.text

LoadKnown ==
    /\ op.step = "settle" => op.held \in Texts
    /\ op.step \in {"load", "settle"} /\ op.expected # Missing =>
         file[op.target] = op.expected \/ Beyond(file[op.target], op.expected)
    /\ op.step = "settle" /\ op.expected # Missing =>
         op.held = op.expected.text \/ Beyond(file[op.target], op.expected)

SavedKnown == doc.baseline # Missing => savedText = doc.baseline.text

WindowKnown == op.step = "commit" => Same(file[op.target], op.expected) \/ raced

NothingOwed == op.step = "tidy" => owed = Missing

IInv ==
    /\ TypeOK
    /\ TargetKnown
    /\ StampsKnown
    /\ StageKnown
    /\ LoadKnown
    /\ SavedKnown
    /\ CleanMatchesBaseline
    /\ WindowKnown
    /\ NothingOwed
    /\ SnapshotOutlivesSave

-----------------------------------------------------------------------------

\* Everything the invariant says holds before anything was opened.
LEMMA InitEstablishes == Init => IInv
<1> SUFFICES ASSUME Init PROVE IInv
    OBVIOUS
<1> USE SafeSaveAssumption DEF Init
<1>0. \A v \in [text : Texts, stamp : {0}, amended : {FALSE}] :
         v \in Version /\ v.stamp = 0
    <2> TAKE v \in [text : Texts, stamp : {0}, amended : {FALSE}]
    <2>1. v.text \in Texts /\ v.stamp \in {0} /\ v.amended \in {FALSE}
        OBVIOUS
    <2>2. v.amended \in BOOLEAN
        BY <2>1, Zenon
    <2>3. v.stamp \in Nat /\ v.stamp = 0
        BY <2>1
    <2>4. v = [text |-> v.text, stamp |-> v.stamp, amended |-> v.amended]
        OBVIOUS
    <2>5. [text |-> v.text, stamp |-> v.stamp, amended |-> v.amended] \in Version
        BY <2>1, <2>2, <2>3, Zenon DEF Version
    <2> QED  BY <2>3, <2>4, <2>5
<1>1. TypeOK
    <2>1. file \in [Paths -> {Missing} \cup Version]
        BY <1>0 DEF Version
    <2>2. op \in Operation
        BY DEF Operation, Idle
    <2>3. doc \in [path : Paths \cup {NoPath}, text : Texts, dirty : BOOLEAN,
                   baseline : {Missing} \cup Version]
        BY DEF Untitled
    <2> QED  BY <2>1, <2>2, <2>3 DEF TypeOK
<1>2. op.step = "idle" /\ op.expected = Missing
    BY DEF Idle
<1>3. doc.baseline = Missing
    BY DEF Untitled
<1>4. \A p \in Paths : file[p] # Missing => file[p].stamp <= clock
    <2> TAKE p \in Paths
    <2>1. file[p] # Missing => file[p].stamp = 0
        BY <1>0
    <2> QED  BY <2>1
<1> QED  BY <1>1, <1>2, <1>3, <1>4 DEF IInv, TargetKnown, StampsKnown, StageKnown,
             LoadKnown, SavedKnown, CleanMatchesBaseline, WindowKnown, NothingOwed,
             SnapshotOutlivesSave

\* What the rename, a fresh write and an amending write put on disk is a version.
LEMMA NewVersion ==
    ASSUME NEW t \in Texts, NEW n \in Nat, NEW b \in BOOLEAN
    PROVE  [text |-> t, stamp |-> n, amended |-> b] \in Version
BY DEF Version

\* No action leaves the types: the only texts that reach a file are complete.
LEMMA TypesKept == ASSUME IInv, [Next]_vars PROVE TypeOK'
<1> USE SafeSaveAssumption DEF Calm, At
<1>0. TypeOK /\ TargetKnown /\ StageKnown /\ LoadKnown
    BY DEF IInv
<1>1. ASSUME NEW t \in Texts, Edit(t) PROVE TypeOK'
    BY <1>0, <1>1 DEF TypeOK, Edit, disk, work
<1>2. CASE Checkpoint
    BY <1>0, <1>2 DEF TypeOK, Checkpoint, disk, work
<1>3. CASE Discard
    BY <1>0, <1>3 DEF TypeOK, Discard, Untitled, disk, work
<1>4. CASE BeginSave
    BY <1>0, <1>4 DEF TypeOK, BeginSave, Begin, Idle, Operation, Steps, disk,
        work
<1>5. ASSUME NEW p \in Paths, BeginSaveAs(p) PROVE TypeOK'
    BY <1>0, <1>5 DEF TypeOK, BeginSaveAs, Begin, Idle, Operation, Steps,
        disk, work
<1>6. CASE Fail
    BY <1>0, <1>6 DEF TypeOK, Fail, Idle, Operation, disk, work
<1>7. CASE Check
    BY <1>0, <1>7 DEF TypeOK, Check, Operation, Steps, disk, work
<1>8. CASE Inspect
    BY <1>0, <1>8 DEF TypeOK, Inspect, Operation, Steps, disk, work
<1>9. CASE CreateStage
    BY <1>0, <1>9 DEF TypeOK, CreateStage, Operation, Steps, disk, work
<1>10. CASE WriteStage
    BY <1>0, <1>10 DEF TypeOK, WriteStage, Operation, Steps, disk, work
<1>11. CASE Preserve
    BY <1>0, <1>11 DEF TypeOK, Preserve, Operation, Steps, StageKnown, disk,
        work
<1>12. CASE Recheck
    BY <1>0, <1>12 DEF TypeOK, Recheck, Operation, Steps, disk, work
<1>13. CASE Commit
    <2>1. stage \in Texts /\ op.target \in Paths /\ clock + 1 \in Nat
        BY <1>0, <1>13 DEF TypeOK, Commit, StageKnown, TargetKnown
    <2>2. file' \in [Paths -> {Missing} \cup Version]
        BY <1>0, <1>13, <2>1, NewVersion DEF TypeOK, Commit
    <2>3. op' \in Operation
        BY <1>0, <1>13 DEF TypeOK, Commit, Operation, Steps
    <2> QED  BY <1>0, <1>13, <2>1, <2>2, <2>3 DEF TypeOK, Commit, work
<1>14. CASE Verify
    BY <1>0, <1>14 DEF TypeOK, Verify, Operation, Steps, TargetKnown, disk,
        work
<1>15. CASE Tidy
    BY <1>0, <1>15 DEF TypeOK, Tidy, Operation, Idle, disk, work
<1>16. ASSUME NEW p \in Paths, BeginLoad(p) PROVE TypeOK'
    BY <1>0, <1>16 DEF TypeOK, BeginLoad, Begin, Idle, Operation, Steps, disk,
        work
<1>17. CASE Load
    BY <1>0, <1>17 DEF TypeOK, Load, Operation, Steps, TargetKnown, Version,
        disk, work
<1>18. CASE Settle
    <2>1. op.held \in Texts /\ op.target \in Paths
        BY <1>0, <1>18 DEF Settle, LoadKnown, TargetKnown
    <2>2. file[op.target] \in {Missing} \cup Version
        BY <1>0, <2>1 DEF TypeOK
    <2>3. doc' \in [path : Paths \cup {NoPath}, text : Texts, dirty : BOOLEAN,
                    baseline : {Missing} \cup Version]
        BY <1>18, <2>1, <2>2 DEF Settle
    <2>4. op' \in Operation
        BY <1>0, <1>18 DEF TypeOK, Settle, Operation, Steps
    <2> QED  BY <1>0, <1>18, <2>1, <2>3, <2>4 DEF TypeOK, Settle, disk
<1>19. ASSUME NEW p \in Paths, NEW t \in Texts, Overwrite(p, t) PROVE TypeOK'
    <2>1. ASSUME file[p] # Missing PROVE file[p].stamp \in Nat
        BY <1>0, <2>1 DEF TypeOK, Version
    <2>2. clock' \in Nat /\ file' \in [Paths -> {Missing} \cup Version]
        <3>1. \A n \in Nat, b \in BOOLEAN :
                [text |-> t, stamp |-> n, amended |-> b] \in {Missing} \cup Version
            BY NewVersion
        <3>2. clock + 1 \in Nat /\ file \in [Paths -> {Missing} \cup Version]
            BY <1>0 DEF TypeOK
        <3>3. \/ /\ clock' = clock + 1
                 /\ file' = [file EXCEPT ![p] =
                               [text |-> t, stamp |-> clock + 1, amended |-> FALSE]]
              \/ /\ clock' = clock
                 /\ file[p] # Missing
                 /\ file' = [file EXCEPT ![p] =
                               [text |-> t, stamp |-> file[p].stamp, amended |-> TRUE]]
            BY <1>19 DEF Overwrite
        <3>4. clock' \in Nat
            BY <1>0, <3>2, <3>3 DEF TypeOK
        <3>5. PICK v \in {Missing} \cup Version : file' = [file EXCEPT ![p] = v]
            BY <2>1, <3>1, <3>2, <3>3
        <3> QED  BY <3>2, <3>4, <3>5
    <2>3. raced' \in BOOLEAN
        BY <1>0, <1>19 DEF TypeOK, Overwrite, Racing
    <2> QED  BY <1>0, <1>19, <2>2, <2>3 DEF TypeOK, Overwrite, work
<1>20. ASSUME NEW p \in Paths, Remove(p) PROVE TypeOK'
    BY <1>0, <1>20 DEF TypeOK, Remove, Racing, disk, work
<1>21. CASE Crash
    BY <1>0, <1>21 DEF TypeOK, Crash, disk, work
<1>22. CASE UNCHANGED vars
    BY <1>0, <1>22 DEF TypeOK, vars, disk, work
<1> QED  BY <1>1, <1>2, <1>3, <1>4, <1>5, <1>6, <1>7, <1>8, <1>9, <1>10,
        <1>11, <1>12, <1>13, <1>14, <1>15, <1>16, <1>17, <1>18, <1>19, <1>20,
        <1>21, <1>22
        DEF Next

\* What each step knows stays true, whoever moves.
LEMMA KnowledgeKept == ASSUME IInv, [Next]_vars PROVE IInv'
<1> USE SafeSaveAssumption
    DEF Calm, At, TargetKnown, StampsKnown, StageKnown, LoadKnown, SavedKnown,
        CleanMatchesBaseline, WindowKnown, NothingOwed, SnapshotOutlivesSave
<1>a. TypeOK /\ TypeOK'
    BY TypesKept DEF IInv
<1>1. ASSUME NEW t \in Texts, Edit(t) PROVE IInv'
    <2>1. doc' = [doc EXCEPT !.text = t, !.dirty = doc'.dirty]
        BY <1>a, <1>1 DEF TypeOK, Edit
    <2>2. ~doc'.dirty => t = savedText
        BY <1>a, <1>1 DEF TypeOK, Edit
    <2> QED  BY <1>a, <1>1, <2>1, <2>2 DEF IInv, TypeOK, Edit, disk, work
<1>2. CASE Checkpoint
    BY <1>a, <1>2 DEF IInv, TypeOK, Operation, Checkpoint, disk, work
<1>3. CASE Discard
    BY <1>a, <1>3 DEF IInv, TypeOK, Operation, Discard, Untitled, disk, work
<1>4. CASE BeginSave
    BY <1>a, <1>4 DEF IInv, TypeOK, Operation, BeginSave, Begin, Idle, disk,
        work
<1>5. ASSUME NEW p \in Paths, BeginSaveAs(p) PROVE IInv'
    BY <1>a, <1>5 DEF IInv, TypeOK, Operation, BeginSaveAs, Begin, Idle, disk,
        work
<1>6. CASE Fail
    BY <1>a, <1>6 DEF IInv, TypeOK, Operation, Fail, Idle, disk, work
<1>7. CASE Check
    BY <1>a, <1>7 DEF IInv, TypeOK, Operation, Check, disk, work
<1>8. CASE Inspect
    BY <1>a, <1>8 DEF IInv, TypeOK, Operation, Inspect, disk, work
<1>9. CASE CreateStage
    BY <1>a, <1>9 DEF IInv, TypeOK, Operation, CreateStage, disk, work
<1>10. CASE WriteStage
    BY <1>a, <1>10 DEF IInv, TypeOK, Operation, WriteStage, disk, work
<1>11. CASE Preserve
    BY <1>a, <1>11 DEF IInv, TypeOK, Operation, Preserve, disk, work
<1>12. CASE Recheck
    BY <1>a, <1>12 DEF IInv, TypeOK, Operation, Recheck, Same, disk, work
<1>13. CASE Commit
    BY <1>a, <1>13 DEF IInv, TypeOK, Operation, Commit, Version, disk, work
<1>14. CASE Verify
    BY <1>a, <1>14 DEF IInv, TypeOK, Operation, Verify, disk, work
<1>15. CASE Tidy
    BY <1>a, <1>15 DEF IInv, TypeOK, Operation, Tidy, Idle, disk, work
<1>16. ASSUME NEW p \in Paths, BeginLoad(p) PROVE IInv'
    BY <1>a, <1>16 DEF IInv, TypeOK, Operation, BeginLoad, Begin, Idle, disk,
        work
<1>17. CASE Load
    BY <1>a, <1>17 DEF IInv, TypeOK, Operation, Load, Beyond, Version, disk,
        work
<1>18. CASE Settle
    BY <1>a, <1>18 DEF IInv, TypeOK, Operation, Settle, Same, Beyond, Version,
        disk, work
<1>19. ASSUME NEW p \in Paths, NEW t \in Texts, Overwrite(p, t) PROVE IInv'
    <2>1. \A q \in Paths : file[q] # Missing => file[q].stamp \in Nat
        BY <1>a DEF TypeOK, Version
    <2>2. PICK v : file' = [file EXCEPT ![p] = v]
        BY <1>19 DEF Overwrite
    <2>3. \A q \in Paths : file'[q] = IF q = p THEN v ELSE file[q]
        BY <1>a, <2>2 DEF TypeOK
    <2>4. /\ clock <= clock' /\ v.stamp <= clock'
          /\ file[p] # Missing => Beyond(v, file[p])
        <3>1. \/ clock' = clock + 1 /\ v.stamp = clock + 1
              \/ /\ clock' = clock /\ file[p] # Missing /\ ~file[p].amended
                 /\ file[p].text # t
                 /\ v = [text |-> t, stamp |-> file[p].stamp, amended |-> TRUE]
            BY <1>a, <1>19, <2>3 DEF TypeOK, Overwrite
        <3>2. clock \in Nat /\ (file[p] # Missing => file[p].stamp <= clock)
            BY <1>a DEF IInv, TypeOK
        <3> QED  BY <2>1, <3>1, <3>2 DEF Beyond
    <2>5. StampsKnown'
        BY <1>a, <1>19, <2>1, <2>3, <2>4 DEF IInv, TypeOK, Overwrite, Version, Operation
    <2>6. LoadKnown'
        BY <1>a, <1>19, <2>1, <2>3, <2>4 DEF IInv, TypeOK, Overwrite, Beyond, Operation, Version
    <2>7. WindowKnown'
        BY <1>a, <1>19, <2>3 DEF IInv, Overwrite, Racing
    <2> QED  BY <1>a, <1>19, <2>5, <2>6, <2>7 DEF IInv, Overwrite, work
<1>20. ASSUME NEW p \in Paths, Remove(p) PROVE IInv'
    BY <1>a, <1>20 DEF IInv, TypeOK, Operation, Remove, Racing, Beyond, disk,
        work
<1>21. CASE Crash
    BY <1>a, <1>21 DEF IInv, TypeOK, Operation, Crash, disk, work
<1>22. CASE UNCHANGED vars
    BY <1>a, <1>22 DEF IInv, vars, disk, work
<1> QED  BY <1>1, <1>2, <1>3, <1>4, <1>5, <1>6, <1>7, <1>8, <1>9, <1>10,
        <1>11, <1>12, <1>13, <1>14, <1>15, <1>16, <1>17, <1>18, <1>19, <1>20,
        <1>21, <1>22
        DEF Next

-----------------------------------------------------------------------------

\* The invariant is inductive: with it the properties hold of every behaviour.
THEOREM SaveInductive == Spec => []IInv
<1>1. Init => IInv
    BY InitEstablishes
<1>2. IInv /\ [Next]_vars => IInv'
    BY KnowledgeKept
<1> QED  BY <1>1, <1>2, PTL DEF Spec

\* Files hold complete texts and every variable keeps its shape, for any number
\* of files, texts and rewrites.
THEOREM SaveTypes == Spec => []TypeOK
<1>1. IInv => TypeOK
    BY DEF IInv
<1> QED  BY <1>1, SaveInductive, PTL

\* A clean document shows the version it is compared with on disk.
THEOREM CleanIsBaseline == Spec => []CleanMatchesBaseline
<1>1. IInv => CleanMatchesBaseline
    BY DEF IInv
<1> QED  BY <1>1, SaveInductive, PTL

\* No staging file is left between operations.
THEOREM NoStageLeft == Spec => []StagesAreRemoved
<1>1. IInv => StagesAreRemoved
    BY DEF IInv, StageKnown, StagesAreRemoved, Calm
<1> QED  BY <1>1, SaveInductive, PTL

\* What a checkpoint protects is in the snapshot until it is verified on disk.
THEOREM SnapshotKept == Spec => []SnapshotOutlivesSave
<1>1. IInv => SnapshotOutlivesSave
    BY DEF IInv
<1> QED  BY <1>1, SaveInductive, PTL

\* A save replaces the version it expected, or one written in the window between
\* its last check and the rename; where it found no file it replaces nothing.
THEOREM NothingUnseenOverwritten == Spec => OverwritesOnlyExpected
<1> DEFINE Replaces == \A p \in Paths :
              op.step = "commit" /\ op'.step = "verify" /\ p = op.target
                /\ file[p] # Missing
              => op.existed /\ (Same(file[p], op.expected) \/ raced)
<1>1. IInv /\ [Next]_vars => [Replaces]_vars
    <2> SUFFICES ASSUME IInv, [Next]_vars, op.step = "commit", op'.step = "verify",
                        file[op.target] # Missing
                 PROVE  op.existed /\ (Same(file[op.target], op.expected) \/ raced)
        OBVIOUS
    <2>1. Same(file[op.target], op.expected) \/ raced
        BY DEF IInv, WindowKnown
    <2>2. op.existed
        <3>1. op \in Operation
            BY DEF IInv, TypeOK
        <3>2. Commit
            BY <3>1 DEF Next, vars, At, Calm, Edit, Checkpoint, Discard, Begin,
                BeginSave, BeginSaveAs, Fail, Check, Inspect, CreateStage, WriteStage,
                Preserve, Recheck, Verify, Tidy, BeginLoad, Load, Settle, Overwrite,
                Remove, Crash, Idle, Operation
        <3> QED  BY <3>2 DEF Commit
    <2> QED  BY <2>1, <2>2
<1> QED  BY <1>1, SaveInductive, PTL DEF Spec, OverwritesOnlyExpected
-----------------------------------------------------------------------------
(***************************************************************************)
(* The recovery sessions, beside the document.                             *)
(***************************************************************************)
Recovery == INSTANCE RecoverySessions_proofs WITH Overtaking <- FALSE, owed <- owedWorks

LEMMA SessionsStart == MCInit => Recovery!Init
BY DEF MCInit, Sessions!Init, Recovery!Init, Sessions!NoDocs, Recovery!NoDocs

LEMMA SessionsStep == [MCNext]_<<part, vars, sessionVars>> => [Recovery!Next]_(Recovery!vars)
<1>1. Sessions!Next => Recovery!Next
  <2>1. ASSUME NEW i \in Instances, Sessions!Step(i) PROVE Recovery!Step(i)
    BY <2>1 DEF Sessions!Step, Recovery!Step, Sessions!OpenLease, Recovery!OpenLease,
       Sessions!TryLock, Recovery!TryLock, Sessions!CreateLease, Recovery!CreateLease,
       Sessions!LockLease, Recovery!LockLease, Sessions!CollectVanished, Recovery!CollectVanished,
       Sessions!CollectSnapshots, Recovery!CollectSnapshots, Sessions!CollectEmpty,
       Recovery!CollectEmpty, Sessions!RemoveLease, Recovery!RemoveLease,
       Sessions!RemoveDirectory, Recovery!RemoveDirectory, Sessions!FinishStartup,
       Recovery!FinishStartup, Sessions!Checkpoint, Recovery!Checkpoint, Sessions!Write,
       Recovery!Write, Sessions!RestoreCheckpoint, Recovery!RestoreCheckpoint,
       Sessions!RestoreDiscard, Recovery!RestoreDiscard, Sessions!Drop, Recovery!Drop,
       Sessions!Leave, Recovery!Leave, Sessions!End, Recovery!End, Sessions!files, Recovery!files,
       Sessions!memory, Recovery!memory, Sessions!history, Recovery!history, Sessions!Starting,
       Recovery!Starting, Sessions!NoDocs, Recovery!NoDocs, Sessions!Go, Recovery!Go,
       Sessions!Held, Recovery!Held, Sessions!Release, Recovery!Release,
       Sessions!OnlyLeaseRemains, Recovery!OnlyLeaseRemains
  <2>2. ASSUME NEW i \in Instances, Sessions!Event(i) PROVE Recovery!Event(i)
    BY <2>2 DEF Sessions!Event, Recovery!Event, Sessions!MakeDirectory, Recovery!MakeDirectory,
       Sessions!FailStartup, Recovery!FailStartup, Sessions!Begin, Recovery!Begin,
       Sessions!EditMore, Recovery!EditMore, Sessions!Settle, Recovery!Settle, Sessions!Restore,
       Recovery!Restore, Sessions!DiscardEntry, Recovery!DiscardEntry, Sessions!Drop,
       Recovery!Drop, Sessions!Quit, Recovery!Quit, Sessions!End, Recovery!End, Sessions!Crash,
       Recovery!Crash, Sessions!files, Recovery!files, Sessions!memory, Recovery!memory,
       Sessions!history, Recovery!history, Sessions!Starting, Recovery!Starting, Sessions!NoDocs,
       Recovery!NoDocs, Sessions!Go, Recovery!Go, Sessions!Held, Recovery!Held, Sessions!Release,
       Recovery!Release, Sessions!OnlyLeaseRemains, Recovery!OnlyLeaseRemains
  <2> QED BY <2>1, <2>2 DEF Sessions!Next, Recovery!Next
<1> QED BY <1>1 DEF MCNext, sessionVars, Recovery!vars, Recovery!files, Recovery!memory,
     Recovery!history

\* Work that was checkpointed is in a snapshot until it is saved or discarded, beside whatever
\* the documents do (recovery.rs: checkpoint, restore, discard, finish).
THEOREM StorageLosesNothing == MCSpec => []NothingLost
<1>1. MCSpec => Recovery!Spec
  BY SessionsStart, SessionsStep, PTL DEF MCSpec, Recovery!Spec
<1>2. Recovery!Spec => []Recovery!TypeOK
  BY Recovery!SessionsKeepTypes, StorageAssumption
<1>3. Recovery!Spec => []Recovery!NothingLost
  BY Recovery!CheckpointedWorkIsFound, StorageAssumption
<1>4. Recovery!TypeOK /\ Recovery!NothingLost => NothingLost
  BY DEF NothingLost, Sessions!TypeOK, Recovery!TypeOK, Sessions!NothingLost,
     Recovery!NothingLost, Sessions!Held, Recovery!Held, Sessions!Phases, Recovery!Phases
<1> QED BY <1>1, <1>2, <1>3, <1>4, PTL
=============================================================================
