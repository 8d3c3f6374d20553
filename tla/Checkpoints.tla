------------------------------ MODULE Checkpoints ------------------------------
(***************************************************************************)
(* The recovery snapshots of the open documents of one instance.  About    *)
(* once a second the main loop runs checkpoint_recovery: it goes through   *)
(* the list, writes a snapshot of every dirty document that changed since  *)
(* its last one, removes the snapshots of the clean ones, and returns at   *)
(* the first error.  Saving, reloading and closing give a snapshot up.     *)
(*                                                                         *)
(* One action per document of a checkpoint: the process can end between    *)
(* any two.  A write that fails leaves the old snapshot.  The sessions the *)
(* snapshots are kept in are the subject of RecoverySessions.              *)
(***************************************************************************)
EXTENDS Naturals, Sequences, SequencesExt

CONSTANTS
  Docs,          \* the documents opened in a run, by their recovery_id
  Bodies,         \* what they may contain
  Formats,       \* encodings and newline styles
  Unrecordable,  \* documents whose snapshot can never be written
  None,          \* no document, no snapshot, no recovery_generation
  MaxRevisions    \* bound: changes of one document

Content == [text : Bodies, format : Formats]
Generation == [revision : 0 .. MaxRevisions, format : Formats]
Document ==
  [text : Bodies, format : Formats, dirty : BOOLEAN, revision : 0 .. MaxRevisions,
   recovery_generation : Generation \cup {None}, recovery_path : BOOLEAN]

ASSUME CheckpointsAssumption ==
  /\ Unrecordable \subseteq Docs
  /\ None \notin Content \cup Generation \cup Document
  /\ MaxRevisions \in Nat

VARIABLES
  list,    \* DocumentManager.list; the first document is the active one
  fresh,   \* documents not opened yet
  doc,     \* the documents; None for one that is not open
  snaps,   \* the snapshots on disk
  warned,  \* documents whose snapshot could not be removed, and the user was told
  at       \* the place in the list a checkpoint has come to; 0 between two

vars == <<list, fresh, doc, snaps, warned, at>>

Opened(text, format) ==
  [text |-> text, format |-> format, dirty |-> FALSE, revision |-> 0,
   recovery_generation |-> None, recovery_path |-> FALSE]

Init ==
  /\ list = <<>> /\ fresh = Docs
  /\ doc = [d \in Docs |-> None]
  /\ snaps = [d \in Docs |-> None]
  /\ warned = {} /\ at = 0

Open == {list[i] : i \in DOMAIN list}
ContentOf(d) == [text |-> doc[d].text, format |-> doc[d].format]
-----------------------------------------------------------------------------
(* What the user does, between two checkpoints; to the active document.    *)

VersionByRevision(d) ==
  [revision |-> doc[d].revision, format |-> CHOOSE format \in Formats : TRUE]

(* What a snapshot is written for. *)
Version(d) ==
  [revision |-> doc[d].revision, format |-> doc[d].format]

Between == at = 0 /\ UNCHANGED at
Active == Head(list)

AddDocument ==
  /\ Between
  /\ \E d \in fresh :
       /\ list' = <<d>> \o list
       /\ fresh' = fresh \ {d}
       /\ \E text \in Bodies, format \in Formats :
            doc' = [doc EXCEPT ![d] = Opened(text, format)]
  /\ UNCHANGED <<snaps, warned>>

UpdateActiveDoubled ==
  /\ Between
  /\ \E i \in DOMAIN list : list' = <<list[i]>> \o list
  /\ UNCHANGED <<fresh, doc, snaps, warned>>

UpdateActive ==
  /\ Between
  /\ \E i \in DOMAIN list : i > 1 /\ list' = <<list[i]>> \o RemoveAt(list, i)
  /\ UNCHANGED <<fresh, doc, snaps, warned>>

(* Edits, undo and redo; the last two may come back to the saved text. *)
Change ==
  /\ Between /\ list # <<>>
  /\ doc[Active].revision < MaxRevisions
  /\ \E text \in Bodies, dirty \in BOOLEAN :
       doc' = [doc EXCEPT ![Active].text = text, ![Active].dirty = dirty,
                          ![Active].revision = @ + 1]
  /\ UNCHANGED <<list, fresh, snaps, warned>>

(* Another encoding makes the document dirty and is no edit. *)
Reformat ==
  /\ Between /\ list # <<>>
  /\ \E format \in Formats \ {doc[Active].format} :
       doc' = [doc EXCEPT ![Active].format = format, ![Active].dirty = TRUE]
  /\ UNCHANGED <<list, fresh, snaps, warned>>

(* The snapshot is removed by the path kept; an error is reported. *)
ClearRecovery(d, removed) ==
  /\ removed \in {TRUE, ~doc[d].recovery_path}
  /\ snaps' = IF doc[d].recovery_path /\ removed THEN [snaps EXCEPT ![d] = None] ELSE snaps
  /\ warned' = IF removed THEN warned ELSE warned \cup {d}

(* After an error the path is kept on. *)
Settle(d, changed) ==
  \E removed \in BOOLEAN :
    /\ ClearRecovery(d, removed)
    /\ doc' = [doc EXCEPT ![d] =
                 [changed EXCEPT !.dirty = FALSE, !.recovery_generation = None,
                                 !.recovery_path = ~removed]]

Save ==
  /\ Between /\ list # <<>>
  /\ Settle(Active, doc[Active])
  /\ UNCHANGED <<list, fresh>>

Reload ==
  /\ Between /\ list # <<>>
  /\ doc[Active].revision < MaxRevisions
  /\ \E text \in Bodies, format \in Formats :
       Settle(Active,
         [doc[Active] EXCEPT !.text = text, !.format = format, !.revision = @ + 1])
  /\ UNCHANGED <<list, fresh>>

RemoveActive ==
  /\ Between /\ list # <<>>
  /\ \E removed \in BOOLEAN : ClearRecovery(Active, removed)
  /\ doc' = [doc EXCEPT ![Active] = None]
  /\ list' = Tail(list)
  /\ UNCHANGED fresh
-----------------------------------------------------------------------------
(* checkpoint_recovery. *)

StartCheckpoint ==
  /\ at = 0 /\ at' = 1
  /\ UNCHANGED <<list, fresh, doc, snaps, warned>>

Here(d) == at \in DOMAIN list /\ list[at] = d
Behind(d) == doc[d].dirty /\ doc[d].recovery_generation # Version(d)
GoOn == at' = at + 1

RecordWithoutPath(d) ==
  /\ Here(d) /\ Behind(d) /\ d \notin Unrecordable
  /\ snaps' = [snaps EXCEPT ![d] = ContentOf(d)]
  /\ doc' = [doc EXCEPT ![d].recovery_generation = Version(d)]
  /\ warned' = warned \ {d}
  /\ GoOn
  /\ UNCHANGED <<list, fresh>>

Record(d) ==
  /\ Here(d) /\ Behind(d) /\ d \notin Unrecordable
  /\ snaps' = [snaps EXCEPT ![d] = ContentOf(d)]
  /\ doc' = [doc EXCEPT ![d].recovery_generation = Version(d), ![d].recovery_path = TRUE]
  /\ warned' = warned \ {d}
  /\ GoOn
  /\ UNCHANGED <<list, fresh>>

ClearKnown(d) ==
  /\ Here(d) /\ ~doc[d].dirty
  /\ snaps' = [snaps EXCEPT ![d] = IF doc[d].recovery_generation = None THEN @ ELSE None]
  /\ doc' = [doc EXCEPT ![d].recovery_generation = None]
  /\ GoOn
  /\ UNCHANGED <<list, fresh, warned>>

Clear(d) ==
  /\ Here(d) /\ ~doc[d].dirty
  /\ snaps' = [snaps EXCEPT ![d] = None]
  /\ doc' = [doc EXCEPT ![d].recovery_generation = None, ![d].recovery_path = FALSE]
  /\ warned' = warned \ {d}
  /\ GoOn
  /\ UNCHANGED <<list, fresh>>

Skip(d) ==
  /\ Here(d) /\ doc[d].dirty /\ ~Behind(d)
  /\ GoOn
  /\ UNCHANGED <<list, fresh, doc, snaps, warned>>

FailMarking(d) ==
  /\ Here(d) /\ (Behind(d) \/ ~doc[d].dirty)
  /\ at' = 0
  /\ doc' = [doc EXCEPT ![d].recovery_generation = Version(d)]
  /\ UNCHANGED <<list, fresh, snaps, warned>>

(* The first error ends the checkpoint: no document after it is looked at. *)
Fail(d) ==
  /\ Here(d) /\ (Behind(d) \/ ~doc[d].dirty)
  /\ at' = 0
  /\ UNCHANGED <<list, fresh, doc, snaps, warned>>

EndCheckpoint ==
  /\ at = Len(list) + 1 /\ at' = 0
  /\ UNCHANGED <<list, fresh, doc, snaps, warned>>

Visit(d) == Record(d) \/ Clear(d) \/ Skip(d) \/ Fail(d)
Checkpoint == StartCheckpoint \/ (\E d \in Docs : Visit(d)) \/ EndCheckpoint

Next ==
  \/ AddDocument \/ UpdateActive \/ Change \/ Reformat
  \/ Save \/ Reload \/ RemoveActive
  \/ Checkpoint

(* The main loop comes back to the checkpoint; an error does not last.     *)
Fairness ==
  /\ WF_vars(Checkpoint)
  /\ \A d \in Docs : SF_vars(Record(d)) /\ SF_vars(Clear(d))

Spec == Init /\ [][Next]_vars /\ Fairness
-----------------------------------------------------------------------------
(* Properties. *)

(* The types of the state; no document is twice in the list, and what is    *)
(* kept of documents is kept of those in it.                                *)
TypeOK ==
  /\ list \in Seq(Docs) /\ IsInjective(list)
  /\ fresh \subseteq Docs \ Open
  /\ doc \in [Docs -> Document \cup {None}]
  /\ \A d \in Docs : doc[d] # None <=> d \in Open
  /\ snaps \in [Docs -> Content \cup {None}]
  /\ warned \subseteq Docs
  /\ at \in 0 .. Len(list) + 1

(* A document that the next checkpoint will pass over because it counts as *)
(* recorded has a snapshot of exactly its text and format, so that a crash *)
(* loses nothing of it ("recovery_generation", documents.rs:364).          *)
RecordedIsOnDisk ==
  \A d \in Open :
    doc[d].dirty /\ ~Behind(d) => snaps[d] = ContentOf(d)

(* A closed document leaves a snapshot, for a later instance to offer,     *)
(* only if the user was told that it could not be removed.                 *)
ClosedLeaveNothing ==
  \A d \in Docs \ (Open \cup fresh) : snaps[d] # None => d \in warned

Unrecorded(d) == d \in Open /\ doc[d].dirty /\ snaps[d] # ContentOf(d)
Outdated(d) == d \in Open /\ ~doc[d].dirty /\ snaps[d] # None

(* "Unsaved buffers receive private, checksummed recovery snapshots about  *)
(* once a second" (docs/workbench.md:84): the edits of a document whose    *)
(* snapshot can be written get into one, or go with the document.          *)
EditsGetRecorded ==
  \A d \in Docs \ Unrecordable : Unrecorded(d) ~> ~Unrecorded(d)

(* A document saved or undone to its saved text loses its snapshot.        *)
SavedSnapshotsGo == \A d \in Docs : Outdated(d) ~> ~Outdated(d)
=============================================================================
