----------------------------- MODULE VersionLine -----------------------------
(***************************************************************************)
(* What an undo history promises its user: a line of versions of one       *)
(* document, the present one somewhere on it, and a mark on the version    *)
(* that is on disk.  UndoHistory is shown to implement it.                 *)
(***************************************************************************)
EXTENDS Integers, Sequences

CONSTANT Content  \* what a document may contain

VARIABLES
  past,     \* the versions undo leads to, the nearest last
  present,  \* the version on the screen
  future,   \* the versions redo leads to, the nearest last
  onDisk    \* the contents last saved or loaded

line == <<past, present, future, onDisk>>

\* A version remembers whether it is the one that is known to be on disk.
Version == [content : Content, saved : BOOLEAN]

Fresh(c) == [content |-> c, saved |-> FALSE]
Edited == [content : Content, saved : {FALSE}]
Marked(c) == [content |-> c, saved |-> TRUE]
Unmarked(versions) ==
  [i \in DOMAIN versions |-> Fresh(versions[i].content)]

\* The history is finite: the oldest k versions may be forgotten, never all.
Forget(versions, k) == SubSeq(versions, k + 1, Len(versions))
Remembered(versions) == {Forget(versions, k) : k \in 0..Len(versions) - 1}

TypeOK ==
  /\ past \in Seq(Version)
  /\ present \in Version
  /\ future \in Seq(Version)
  /\ onDisk \in Content

Init ==
  /\ onDisk \in Content
  /\ present = Marked(onDisk)
  /\ past = <<>>
  /\ future = <<>>

\* A command, a macro or the first of a run of key strokes.
Record ==
  /\ future' = <<>>
  /\ present' \in Edited
  /\ past' \in Remembered(Append(past, present))
  /\ UNCHANGED onDisk

\* A further key stroke of the run joins its version, never a saved one.
Amend ==
  /\ ~present.saved
  /\ future' = <<>>
  /\ present' \in Edited
  /\ past' \in Remembered(past)
  /\ UNCHANGED onDisk

Undo ==
  /\ future' = Append(future, present)
  /\ past = Append(past', present')
  /\ UNCHANGED onDisk

Redo ==
  /\ future = Append(future', present')
  /\ past' = Append(past, present)
  /\ UNCHANGED onDisk

Save ==
  /\ onDisk' = present.content
  /\ present' = Marked(present.content)
  /\ past' = Unmarked(past)
  /\ future' = Unmarked(future)

\* The contents on disk are no longer known to be any version's.
Distrust ==
  /\ present' = Fresh(present.content)
  /\ past' = Unmarked(past)
  /\ future' = Unmarked(future)
  /\ UNCHANGED onDisk

Load ==
  /\ onDisk' \in Content
  /\ present' = Marked(onDisk')
  /\ past' = <<>>
  /\ future' = <<>>

Next ==
  \/ Record
  \/ Amend
  \/ Undo
  \/ Redo
  \/ Save
  \/ Distrust
  \/ Load

Spec == Init /\ [][Next]_line
=============================================================================
