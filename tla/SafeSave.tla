------------------------------ MODULE SafeSave ------------------------------
(***************************************************************************)
(* One document and the disk: Document::save and Document::reread of       *)
(* documents.rs over the staged replacement of safe_save.rs, with other    *)
(* programs writing the same files between any two system calls, I/O       *)
(* errors at every call, and a crash at any moment.                        *)
(*                                                                         *)
(* The user interface runs saves and loads to completion, so no edit       *)
(* happens inside one; only other programs and a crash interleave.         *)
(***************************************************************************)
EXTENDS Naturals

CONSTANTS
    Paths,      \* the files the document may be opened from or saved to
    Texts,      \* complete contents of a file or of the buffer
    Empty,      \* the content of a new document
    Partial,    \* the content of a staging file that is not completely written
    Missing,    \* no file, no version, no snapshot
    NoPath,     \* the path of an untitled document
    MaxStamp    \* bound of a model: how often files are rewritten

ASSUME SafeSaveAssumption ==
    /\ Empty \in Texts
    /\ Partial \notin Texts
    /\ Missing \notin Texts
    /\ Partial # Missing
    /\ NoPath \notin Paths
    /\ MaxStamp \in Nat

(***************************************************************************)
(* A DiskVersion.  stamp stands for the modification time, the length and  *)
(* the file identity, text for the hash.  A program may rewrite a file     *)
(* without changing its metadata, once per stamp: amended says that it     *)
(* did.  Two versions the code calls equal are equal in text and stamp.    *)
(***************************************************************************)
Version == [text : Texts, stamp : Nat, amended : BOOLEAN]

VARIABLES
    running,    \* the editor has not crashed
    file,       \* the files, as every program sees them
    clock,      \* stamps handed out so far
    stage,      \* content of the staging file beside the target
    doc,        \* the document: path, text, dirty, baseline (disk_version)
    op,         \* the operation under way: its next step and its locals
    snapshot,   \* the recovery snapshot of the document
    savedText,  \* history: the text that was last declared saved
    owed,       \* history: a snapshot text neither saved nor given up
    raced       \* history: another program wrote the target since the recheck

disk == <<file, clock>>
work == <<snapshot, savedText, owed>>
vars == <<running, disk, stage, doc, op, work, raced>>

Steps == {"check", "inspect", "stage", "write", "preserve", "recheck", "commit",
          "verify", "tidy", "load", "settle"}

\* The locals of save and reread: the resolved path, the version required on
\* disk, whether the target's metadata was found, and the bytes staged or read.
Operation == [step : Steps \cup {"idle"}, target : Paths \cup {NoPath},
              expected : {Missing} \cup Version, existed : BOOLEAN,
              held : {Missing} \cup Texts]

Idle == [step |-> "idle", target |-> NoPath, expected |-> Missing,
         existed |-> FALSE, held |-> Missing]

\* Mutant of Same: versions are told apart by their metadata alone.
SameMetadata(v, w) ==
    \/ v = Missing /\ w = Missing
    \/ v # Missing /\ w # Missing /\ v.stamp = w.stamp

\* DiskVersion equality: metadata and content, nothing else.
Same(v, w) ==
    \/ v = Missing /\ w = Missing
    \/ v # Missing /\ w # Missing /\ v.text = w.text /\ v.stamp = w.stamp

Untitled == [path |-> NoPath, text |-> Empty, dirty |-> FALSE, baseline |-> Missing]

\* A pristine untitled document, which opening a file replaces.
Pristine == doc.path = NoPath /\ ~doc.dirty

Init ==
    /\ running = TRUE
    /\ file \in [Paths -> {Missing} \cup
                          [text : Texts, stamp : {0}, amended : {FALSE}]]
    /\ clock = 0
    /\ stage = Missing
    /\ doc = Untitled
    /\ op = Idle
    /\ snapshot = Missing
    /\ savedText = Empty
    /\ owed = Missing
    /\ raced = FALSE

Calm == running /\ op.step = "idle"
At(s) == running /\ op.step = s

-----------------------------------------------------------------------------
(* The user and the timer, between operations. *)

\* Any edit, undo or redo.  The buffer compares generations: a text other than
\* the saved one is always dirty, the saved text itself may be either.
Edit(t) ==
    /\ Calm
    /\ \E d \in IF t = savedText THEN BOOLEAN ELSE {TRUE} :
         doc' = [doc EXCEPT !.text = t, !.dirty = d]
    /\ UNCHANGED <<running, disk, stage, op, work, raced>>

\* checkpoint_recovery for this document: the snapshot is replaced atomically.
Checkpoint ==
    /\ Calm
    /\ snapshot' = IF doc.dirty THEN doc.text ELSE Missing
    /\ owed' = snapshot'
    /\ UNCHANGED <<running, disk, stage, doc, op, savedText, raced>>

\* Close without saving: remove_active discards the snapshot with the document.
Discard ==
    /\ Calm
    /\ doc' = Untitled
    /\ savedText' = Empty
    /\ snapshot' = Missing
    /\ owed' = Missing
    /\ UNCHANGED <<running, disk, stage, op, raced>>

-----------------------------------------------------------------------------
(* safe_save::save, one action per look at the disk. *)

Begin(s, p, v) ==
    /\ op' = [Idle EXCEPT !.step = s, !.target = p, !.expected = v]
    /\ UNCHANGED <<running, disk, stage, doc, work, raced>>

\* Save to the document's own file: the version it was read or saved as.
BeginSave ==
    /\ Calm
    /\ doc.path # NoPath
    /\ clock < MaxStamp
    /\ Begin("check", doc.path, doc.baseline)

\* Save As elsewhere, with the picker's consent: whatever is there now.
BeginSaveAs(p) ==
    /\ Calm
    /\ p # doc.path
    /\ clock < MaxStamp
    /\ Begin("check", p, file[p])

\* Mutant of Fail: the staging file is left behind.
FailKeepingStage ==
    /\ running
    /\ op.step \in Steps \ {"tidy"}
    /\ op' = Idle
    /\ raced' = FALSE
    /\ UNCHANGED <<running, disk, stage, doc, work>>

\* An error or a conflict: the operation returns and Stage::drop removes the
\* staging file.  The document is as it was.
Fail ==
    /\ running
    /\ op.step \in Steps \ {"tidy"}
    /\ op' = Idle
    /\ stage' = Missing
    /\ raced' = FALSE
    /\ UNCHANGED <<running, disk, doc, work>>

Check ==
    /\ At("check")
    /\ Same(file[op.target], op.expected)
    /\ op' = [op EXCEPT !.step = "inspect"]
    /\ UNCHANGED <<running, disk, stage, doc, work, raced>>

\* The second look only decides how to commit: check_target's refusals are Fail.
Inspect ==
    /\ At("inspect")
    /\ op' = [op EXCEPT !.step = "stage", !.existed = file[op.target] # Missing]
    /\ UNCHANGED <<running, disk, stage, doc, work, raced>>

CreateStage ==
    /\ At("stage")
    /\ stage' = Partial
    /\ op' = [op EXCEPT !.step = "write"]
    /\ UNCHANGED <<running, disk, doc, work, raced>>

\* Mutant of WriteStage: the result of writing is ignored.
WriteStageUnchecked ==
    /\ At("write")
    /\ stage' \in {doc.text, Partial}
    /\ op' = [op EXCEPT !.step = "preserve"]
    /\ UNCHANGED <<running, disk, doc, work, raced>>

WriteStage ==
    /\ At("write")
    /\ stage' = doc.text
    /\ op' = [op EXCEPT !.step = "preserve"]
    /\ UNCHANGED <<running, disk, doc, work, raced>>

\* Owner, mode and attributes are copied from the target, which must still be
\* there; then the staging file is read back.
Preserve ==
    /\ At("preserve")
    /\ op.existed => file[op.target] # Missing
    /\ op' = [op EXCEPT !.step = "recheck", !.held = stage]
    /\ UNCHANGED <<running, disk, stage, doc, work, raced>>

\* Mutant of Recheck: the target is not looked at again.
RecheckNothing ==
    /\ At("recheck")
    /\ op' = [op EXCEPT !.step = "commit"]
    /\ raced' = FALSE
    /\ UNCHANGED <<running, disk, stage, doc, work>>

Recheck ==
    /\ At("recheck")
    /\ Same(file[op.target], op.expected)
    /\ op' = [op EXCEPT !.step = "commit"]
    /\ raced' = FALSE
    /\ UNCHANGED <<running, disk, stage, doc, work>>

\* Mutant of Commit: the snapshot is given up before the commit is verified.
CommitClearingRecovery ==
    /\ At("commit")
    /\ ~op.existed => file[op.target] = Missing
    /\ clock' = clock + 1
    /\ file' = [file EXCEPT ![op.target] =
                  [text |-> stage, stamp |-> clock + 1, amended |-> FALSE]]
    /\ stage' = Missing
    /\ snapshot' = Missing
    /\ op' = [op EXCEPT !.step = "verify"]
    /\ raced' = FALSE
    /\ UNCHANGED <<running, doc, savedText, owed>>

\* A target that was not there is created without replacing anything; one that
\* was is replaced by the rename, even if it disappeared meanwhile.
Commit ==
    /\ At("commit")
    /\ ~op.existed => file[op.target] = Missing
    /\ clock' = clock + 1
    /\ file' = [file EXCEPT ![op.target] =
                  [text |-> stage, stamp |-> clock + 1, amended |-> FALSE]]
    /\ stage' = Missing
    /\ op' = [op EXCEPT !.step = "verify"]
    /\ raced' = FALSE
    /\ UNCHANGED <<running, doc, work>>

\* The committed bytes are read back before they become the baseline.  Then the
\* document takes the path and the version, and is clean.
Verify ==
    /\ At("verify")
    /\ file[op.target] # Missing
    /\ file[op.target].text = op.held
    /\ doc' = [doc EXCEPT !.path = op.target, !.dirty = FALSE,
                          !.baseline = file[op.target]]
    /\ savedText' = doc.text
    /\ owed' = Missing
    /\ op' = [op EXCEPT !.step = "tidy"]
    /\ UNCHANGED <<running, disk, stage, snapshot, raced>>

\* clear_recovery, last of all.  Its failure is reported and changes nothing.
Tidy ==
    /\ At("tidy")
    /\ snapshot' \in {snapshot, Missing}
    /\ op' = Idle
    /\ UNCHANGED <<running, disk, stage, doc, savedText, owed, raced>>

-----------------------------------------------------------------------------
(* Document::reread and add_file_path: version, bytes, version. *)

\* Reading the file again, or opening one in place of a pristine document.
BeginLoad(p) ==
    /\ Calm
    /\ p = doc.path \/ Pristine
    /\ Begin("load", p, file[p])

\* The bytes go to a buffer of their own.  Reloading needs a file, opening a
\* path that has none begins an empty document.
Load ==
    /\ At("load")
    /\ doc.path = op.target => file[op.target] # Missing
    /\ op' = [op EXCEPT !.step = "settle",
                        !.held = IF file[op.target] = Missing
                                   THEN Empty ELSE file[op.target].text]
    /\ UNCHANGED <<running, disk, stage, doc, work, raced>>

\* Only an unchanged version is adopted, with the bytes read under it.  Reload
\* gives up the edits: the user confirmed that when there were any.
Settle ==
    /\ At("settle")
    /\ Same(file[op.target], op.expected)
    /\ doc' = [path |-> op.target, text |-> op.held, dirty |-> FALSE,
               baseline |-> file[op.target]]
    /\ savedText' = op.held
    /\ owed' = Missing
    /\ op' = [op EXCEPT !.step = "tidy"]
    /\ UNCHANGED <<running, disk, stage, snapshot, raced>>

-----------------------------------------------------------------------------
(* Everybody else. *)

Racing(p) == raced' = (raced \/ (op.step = "commit" /\ p = op.target))

\* Another program writes a file, with new metadata or, once, with the old.
Overwrite(p, t) ==
    /\ running
    /\ \/ /\ clock < MaxStamp
          /\ clock' = clock + 1
          /\ file' = [file EXCEPT ![p] =
                        [text |-> t, stamp |-> clock + 1, amended |-> FALSE]]
       \/ /\ file[p] # Missing
          /\ ~file[p].amended
          /\ file[p].text # t
          /\ file' = [file EXCEPT ![p] =
                        [text |-> t, stamp |-> file[p].stamp, amended |-> TRUE]]
          /\ UNCHANGED clock
    /\ Racing(p)
    /\ UNCHANGED <<running, stage, doc, op, work>>

Remove(p) ==
    /\ running
    /\ file[p] # Missing
    /\ file' = [file EXCEPT ![p] = Missing]
    /\ Racing(p)
    /\ UNCHANGED <<running, clock, stage, doc, op, work>>

\* The process dies with the operation it was in; what it had put on disk stays.
Crash ==
    /\ running
    /\ running' = FALSE
    /\ UNCHANGED <<disk, stage, doc, op, work, raced>>

Next ==
    \/ \E t \in Texts : Edit(t)
    \/ Checkpoint
    \/ Discard
    \/ BeginSave
    \/ \E p \in Paths : BeginSaveAs(p)
    \/ Fail
    \/ Check
    \/ Inspect
    \/ CreateStage
    \/ WriteStage
    \/ Preserve
    \/ Recheck
    \/ Commit
    \/ Verify
    \/ Tidy
    \/ \E p \in Paths : BeginLoad(p)
    \/ Load
    \/ Settle
    \/ \E p \in Paths, t \in Texts : Overwrite(p, t)
    \/ \E p \in Paths : Remove(p)
    \/ Crash

Spec == Init /\ [][Next]_vars

-----------------------------------------------------------------------------
(* Properties *)

\* Every variable keeps its shape; in particular the files hold complete texts
\* whatever a save was doing when it failed or crashed: the destination is never
\* truncated and never receives a half-written staging file.
TypeOK ==
    /\ running \in BOOLEAN
    /\ file \in [Paths -> {Missing} \cup Version]
    /\ clock \in Nat
    /\ stage \in {Missing, Partial} \cup Texts
    /\ doc \in [path : Paths \cup {NoPath}, text : Texts, dirty : BOOLEAN,
                baseline : {Missing} \cup Version]
    /\ op \in Operation
    /\ snapshot \in {Missing} \cup Texts
    /\ savedText \in Texts
    /\ owed \in {Missing} \cup Texts
    /\ raced \in BOOLEAN

\* A clean document shows the text of the version it would be compared with:
\* after any mixture of saves, failed saves, reloads and other programs' writes
\* (some of which leave the metadata alone), "clean" and "unchanged on disk"
\* together mean that the buffer and the file are the same.
CleanMatchesBaseline ==
    ~doc.dirty /\ doc.baseline # Missing => doc.text = doc.baseline.text

\* A save never destroys another program's version that the user has not seen:
\* what the rename replaces is the version the save expected, unless a program
\* wrote between the last check and the rename (the limit safe_save.rs states),
\* and where no file was found nothing is ever replaced.
OverwritesOnlyExpected ==
    [][ \A p \in Paths :
          op.step = "commit" /\ op'.step = "verify" /\ p = op.target
            /\ file[p] # Missing
          => op.existed /\ (Same(file[p], op.expected) \/ raced) ]_vars

\* No staging file outlives the save that made it, whichever call failed, but
\* through a crash.
StagesAreRemoved == Calm => stage = Missing

\* Text that a completed checkpoint protects stays in the snapshot until it has
\* been verified on disk or the user gave it up: a crash inside a save, a failed
\* or conflicting save never leaves it in memory only.
SnapshotOutlivesSave == owed # Missing => snapshot = owed
=============================================================================
