---------------------------- MODULE UndoHistoryMC ----------------------------
(***************************************************************************)
(* The properties of UndoHistory that TLC checks, the refinement mapping   *)
(* to VersionLine and the constants of the runs.                           *)
(***************************************************************************)
EXTENDS UndoHistory, FiniteSets

\* The value of Chars in the runs.
MCChars == {"x", "n"}

\* The value of Loads in the runs: a file another program wrote.
MCLoads == {Loaded(<<"n">>, TRUE)}

-----------------------------------------------------------------------------
(***************************************************************************)
(* The refinement mapping.  A version is the first entry of a group; while *)
(* a group is open, or undo_redo is walking, the line is the one before.   *)
(***************************************************************************)

VersionOf(e, mark) == [content |-> Loaded(e.other, e.nb), saved |-> e.gb = mark]

\* The first entries of the groups of a stack.
Firsts(s) == {i \in 1..Len(s) : Boundary(s, i)}

\* The k-th member of a set of numbers.
Nth(S, k) == CHOOSE i \in S : Cardinality(S \cap 1..i) = k

\* The versions that the groups of a stack lead to.
Versions(s, mark) ==
  LET firsts == Firsts(s)
      version == [i \in firsts |-> VersionOf(s[i], mark)]
  IN  [k \in 1..Cardinality(firsts) |-> version[Nth(firsts, k)]]

\* The entries of a stack below the group of stamp g, which is its newest.
Without(s, g) == SubSeq(s, 1, Cardinality({i \in 1..Len(s) : s[i].gb # g}))

Current == [content |-> Loaded(text, crlf), saved |-> generation = saved]

\* The walk has moved an entry.
Moved == mode # "ready" /\ generation # walk.from

\* The version the walk comes from is the last one of the stack it fills.
AfterWalk(from) == IF WalkContinues(from) THEN <<>> ELSE <<Current>>

past ==
  IF Transaction # NoGroup THEN Versions(Without(undo, Transaction.gb), saved)
  ELSE IF Moved /\ mode = "undo" THEN Versions(undo, saved) \o AfterWalk(undo)
  ELSE IF Moved THEN Pop(Versions(undo, saved))
  ELSE Versions(undo, saved)

future ==
  IF Transaction # NoGroup THEN Versions(Transaction.redo, saved)
  ELSE IF Moved /\ mode = "redo" THEN Versions(redo, saved) \o AfterWalk(redo)
  ELSE IF Moved THEN Pop(Versions(redo, saved))
  ELSE Versions(redo, saved)

present ==
  IF Transaction # NoGroup
    THEN [content |-> Loaded(Transaction.text, Transaction.nb),
          saved |-> Transaction.gb = saved]
  ELSE IF Moved /\ mode = "undo" THEN Top(Versions(redo, saved))
  ELSE IF Moved THEN Top(Versions(undo, saved))
  ELSE Current

Line == INSTANCE VersionLine WITH
          Content <- [text : Seq(Chars), crlf : BOOLEAN],
          onDisk <- disk

\* Undo and redo restore whole versions byte for byte, typing joins the
\* newest unsaved version, a macro is one version or none, the dirty flag
\* follows the saved version through undo, redo, trimming and new branches
\* (TextBuffer::undo_redo, edit_begin, abort_undo_group, trim_history).
ImplementsVersionLine == Line!Spec
=============================================================================
