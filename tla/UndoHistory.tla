----------------------------- MODULE UndoHistory -----------------------------
(***************************************************************************)
(* The undo history of a TextBuffer (src/src/buffer/mod.rs) together with  *)
(* the generation stamps of its GapBuffer (src/src/buffer/gap_buffer.rs),  *)
(* which decide whether a document is dirty.                               *)
(*                                                                         *)
(* Every entry of the two stacks is one exact byte replacement.  Entries   *)
(* with the same generation `gb' (generation_before) form one group, that  *)
(* is, one step of the user's Undo and Redo.  Typing coalesces into the    *)
(* newest entry or group, commands and macros open a group of their own.   *)
(*                                                                         *)
(* Data abstractions.  The text is a sequence over Chars.  Cursor and      *)
(* selection positions are inputs of an edit; the state keeps the cursor   *)
(* only while lastType is not "Other", because every operation that moves  *)
(* it resets lastType, and coalescing reads it only then.  Statistics,     *)
(* layout and the caret restored by undo are left out.  A generation is a  *)
(* natural number: one edit takes one new stamp, however many times its    *)
(* byte operations bump the counter, and fewer than 2^32 are taken.        *)
(***************************************************************************)
EXTENDS Integers, Sequences, Splicing

CONSTANTS
  Chars,              \* the characters a document may hold
  Newline,            \* the one that insert_final_newline appends
  Capacity,           \* length the gap buffer can reserve
  MaxHistory,         \* entries kept by trim_history (1000 in the code)
  MaxGeneration,      \* bound of a run: edits ever made to the buffer
  MaxInsert,          \* bound of a run: characters one edit inserts
  MaxDepth,           \* bound of a run: nesting of undo groups
  InsertFinalNewline, \* the editor setting of that name
  Loads               \* bound of a run: what a reload may find on disk

ASSUME ConstantsAssumption ==
  /\ Newline \in Chars
  /\ Capacity \in Nat
  /\ MaxHistory \in Nat \ {0}
  /\ MaxGeneration \in Nat
  /\ MaxInsert \in Nat
  /\ MaxDepth \in Nat \ {0}
  /\ InsertFinalNewline \in BOOLEAN
  /\ Loads \subseteq [text : Seq(Chars), crlf : BOOLEAN]

VARIABLES
  text,        \* the buffer's contents
  crlf,        \* newlines_are_crlf
  generation,  \* stamp of the current contents
  counter,     \* generation_counter: the newest stamp ever taken
  saved,       \* last_save_generation, Unsaved for None
  undo, redo,  \* the two stacks, newest entry last
  lastType,    \* last_history_type
  cursor,      \* where the last edit left the cursor
  group,       \* active_edit_group, NoGroup for None
  mode,        \* "ready", or the direction undo_redo is walking
  walk,        \* the generations the walk leaves and looks for
  aborting,    \* the group whose abort ordered the walk
  capacityError,  \* edit_capacity_error
  disk         \* environment: what was last saved to, or loaded from, disk

vars == <<text, crlf, generation, counter, saved, undo, redo, lastType,
          cursor, group, mode, walk, aborting, capacityError, disk>>

Unsaved == -1
NoGroup == [depth |-> 0]
NoWalk == [from |-> 0, to |-> 0]

HistoryType == {"Other", "Write", "Delete"}

(***************************************************************************)
(* A history entry replaces `del' by `add' at offset `off'.  The field     *)
(* `other' is auxiliary: the text on the other side of the replacement,    *)
(* recorded when the entry is made or turned and read by no action.        *)
(***************************************************************************)
Entry == [off : Nat, del : Seq(Chars), add : Seq(Chars),
          gb : Nat, nb : BOOLEAN, other : Seq(Chars)]

Top(s) == s[Len(s)]
Pop(s) == SubSeq(s, 1, Len(s) - 1)

\* edit_delete and edit_write append to the entry the edit extends.
Grown(e, del, add) == [e EXCEPT !.del = @ \o del, !.add = @ \o add]

\* What undo_redo does to the text for one entry: added becomes deleted.
Reversed(t, e) == Splice(t, e.off, Len(e.add), e.del)

Turned(e, t, g, nl) ==
  [e EXCEPT !.del = e.add, !.add = e.del, !.gb = g, !.nb = nl, !.other = t]

\* An entry is the first (oldest) of its group.
Boundary(s, i) == i = 1 \/ s[i - 1].gb # s[i].gb

Loaded(t, nl) == [text |-> t, crlf |-> nl]

Init ==
  /\ text = <<>>
  /\ crlf = FALSE
  /\ generation = 0
  /\ counter = 0
  /\ saved = 0
  /\ undo = <<>>
  /\ redo = <<>>
  /\ lastType = "Other"
  /\ cursor = 0
  /\ group = NoGroup
  /\ mode = "ready"
  /\ walk = NoWalk
  /\ aborting = NoGroup
  /\ capacityError = FALSE
  /\ disk = Loaded(text, crlf)

-----------------------------------------------------------------------------
(***************************************************************************)
(* Editing: edit_begin, edit_delete, edit_write, edit_end                  *)
(***************************************************************************)

\* edit_begin: the edit continues the run of typing or deleting before it.
SameRun(type) == type # "Other" /\ type = lastType /\ undo # <<>>

\* Mutant of Coalesces: the run alone decides, not where the edit begins.
CoalescesAnywhere(type, beg) == SameRun(type)

\* edit_begin: the edit extends the newest entry's own replacement.
Coalesces(type, beg) ==
  /\ SameRun(type)
  /\ \/ type = "Write" /\ beg = Top(undo).off + Len(Top(undo).add)
     \/ type = "Delete" /\ Top(undo).add = <<>> /\ beg = Top(undo).off

\* Mutant of Origin: an entry of a group records the stamp before itself.
OriginPerEdit(type) == [gb |-> generation, nb |-> crlf]

\* edit_begin: the stamp and newline flag a new entry records.
Origin(type) ==
  IF group # NoGroup THEN [gb |-> group.gb, nb |-> group.nb]
  ELSE IF SameRun(type) THEN [gb |-> Top(undo).gb, nb |-> Top(undo).nb]
  ELSE [gb |-> generation, nb |-> crlf]

\* The undo stack after the edit deletes `del' and adds `add' at beg.
Recorded(type, beg, del, add) ==
  IF Coalesces(type, beg)
    THEN Append(Pop(undo), Grown(Top(undo), del, add))
    ELSE Append(undo, [off |-> beg, del |-> del, add |-> add,
                       gb |-> Origin(type).gb, nb |-> Origin(type).nb,
                       other |-> text])

\* Mutants of TrimStops: one entry too many is kept, or a group is split.
TrimStopsLate(s, k) ==
  /\ k = 0 \/ (k < Len(s) /\ Boundary(s, k + 1))
  /\ Len(s) - k <= MaxHistory + 1 \/ s[k + 1].gb = Top(s).gb

TrimStopsInGroup(s, k) == Len(s) - k <= MaxHistory

\* trim_history may stop after dropping the k oldest entries: it drops whole
\* groups, and stops at the limit or when one group is left.
TrimStops(s, k) ==
  /\ k = 0 \/ (k < Len(s) /\ Boundary(s, k + 1))
  /\ Len(s) - k <= MaxHistory \/ s[k + 1].gb = Top(s).gb

\* Where trim_history stops: at the first place it may.
TrimPoints(s) ==
  {k \in 0..Len(s) - 1 : TrimStops(s, k) /\ \A j \in 0..k - 1 : ~TrimStops(s, j)}

\* The undo stack becomes s, less what trim_history drops from it; nothing is
\* dropped inside a group.
Trim(s, inGroup) ==
  \/ /\ inGroup \/ s = <<>>
     /\ undo' = s
  \/ /\ ~inGroup
     /\ \E k \in TrimPoints(s) : undo' = SubSeq(s, k + 1, Len(s))

\* Mutant of Edit: the stamps are counted from the current version instead
\* of the newest.
EditReusingStamps(type, beg, n, add, at) ==
  /\ counter < MaxGeneration
  /\ text' = Splice(text, beg, n, add)
  /\ Trim(Recorded(type, beg, Extract(text, beg, n), add), group # NoGroup)
  /\ redo' = <<>>
  /\ generation' = generation + 1
  /\ counter' = generation + 1
  /\ lastType' = type
  /\ cursor' = IF type = "Other" THEN 0 ELSE at

\* One edit session: replace n characters after beg by add, leave the cursor
\* at `at'.
Edit(type, beg, n, add, at) ==
  /\ counter < MaxGeneration
  /\ text' = Splice(text, beg, n, add)
  /\ Trim(Recorded(type, beg, Extract(text, beg, n), add), group # NoGroup)
  /\ redo' = <<>>
  /\ generation' = counter + 1
  /\ counter' = counter + 1
  /\ lastType' = type
  /\ cursor' = IF type = "Other" THEN 0 ELSE at

\* Nothing but the undo machinery may run while it walks, and a macro stops
\* at the command that met the capacity limit.
Ready ==
  /\ mode = "ready"
  /\ ~(group # NoGroup /\ group.depth = 1 /\ capacityError)

\* TextBuffer::write appends the newline when the edit ends the buffer and
\* its last line is not empty.
FinalNewline(beg, n, ins) ==
  IF /\ InsertFinalNewline
     /\ beg + n = Len(text)
     /\ ins[Len(ins)] # Newline
  THEN <<Newline>> ELSE <<>>

\* write_canon and write_raw: replace the selection, or the characters that
\* overtyping runs over, by ins.  The whole edit is refused up front when its
\* upper bound does not fit.
Write(type, beg, n, ins) ==
  LET add == ins \o FinalNewline(beg, n, ins)
  IN  /\ Ready
      /\ type \in {"Other", "Write"}
      /\ lastType = "Other" \/ type = "Other" \/ (beg = cursor /\ n <= Len(ins))
      /\ beg + n <= Len(text)
      /\ ins # <<>>
      /\ \/ /\ Len(text) - n + Len(add) <= Capacity
            /\ Edit(type, beg, n, add, beg + Len(ins))
            /\ UNCHANGED capacityError
         \/ /\ Len(text) - n + Len(add) > Capacity
            /\ capacityError' = TRUE
            /\ UNCHANGED <<text, undo, redo, generation, counter, lastType,
                           cursor>>
      /\ UNCHANGED <<crlf, saved, group, mode, walk, aborting, disk>>

\* delete, backspace_with_auto_unindent, extract_selection: the range ends or
\* begins at the cursor unless the cursor moved since the last edit.
Delete(beg, n) ==
  /\ Ready
  /\ n > 0
  /\ beg + n <= Len(text)
  /\ lastType = "Other" \/ cursor \in {beg, beg + n}
  /\ Edit("Delete", beg, n, <<>>, beg)
  /\ UNCHANGED <<crlf, saved, group, mode, walk, aborting, capacityError, disk>>

\* set_cursor, set_cursor_for_selection, set_selection_ranges
MoveCursor ==
  /\ Ready
  /\ lastType # "Other"
  /\ lastType' = "Other"
  /\ cursor' = 0
  /\ UNCHANGED <<text, crlf, generation, counter, saved, undo, redo, group,
                 mode, walk, aborting, capacityError, disk>>

\* normalize_newlines of a document in which no line ending has to change.
FlipNewlines ==
  /\ Ready
  /\ group = NoGroup
  /\ Edit("Other", 0, 0, <<>>, 0)
  /\ crlf' = ~crlf
  /\ UNCHANGED <<saved, group, mode, walk, aborting, capacityError, disk>>

\* draw_editor reports the error and clears it.
ReportCapacityError ==
  /\ group = NoGroup
  /\ mode = "ready"
  /\ capacityError
  /\ capacityError' = FALSE
  /\ UNCHANGED <<text, crlf, generation, counter, saved, undo, redo, lastType,
                 cursor, group, mode, walk, aborting, disk>>

-----------------------------------------------------------------------------
(***************************************************************************)
(* Groups: a macro's replay, a multi-caret command, apply_byte_edits       *)
(***************************************************************************)

\* edit_begin_grouping at depth 0; normalize_newlines is the one that also
\* sets the newline flag once its byte edits are in.  replay clears the
\* capacity error first.
BeginGroup(normalizes) ==
  /\ mode = "ready"
  /\ group = NoGroup
  /\ group' = [depth |-> 1, gb |-> generation, nb |-> crlf, redo |-> redo,
               text |-> text, normalizes |-> normalizes]
  /\ redo' = <<>>
  /\ lastType' = "Other"
  /\ cursor' = 0
  /\ capacityError' = FALSE
  /\ UNCHANGED <<text, crlf, generation, counter, saved, undo, mode, walk,
                 aborting, disk>>

\* edit_begin_grouping inside a group.
NestGroup ==
  /\ Ready
  /\ group # NoGroup
  /\ group.depth < MaxDepth
  /\ group' = [group EXCEPT !.depth = @ + 1]
  /\ UNCHANGED <<text, crlf, generation, counter, saved, undo, redo, lastType,
                 cursor, mode, walk, aborting, capacityError, disk>>

\* edit_end_grouping inside a group: an inner end changes only the depth.
UnnestGroup ==
  /\ mode = "ready"
  /\ group # NoGroup
  /\ group.depth > 1
  /\ group' = [group EXCEPT !.depth = @ - 1]
  /\ UNCHANGED <<text, crlf, generation, counter, saved, undo, redo, lastType,
                 cursor, mode, walk, aborting, capacityError, disk>>

\* Mutant of EndGroup: a group that changed the text brings redo back too.
EndGroupRestoringRedo ==
  /\ Ready
  /\ group # NoGroup
  /\ group.depth = 1
  /\ redo' = group.redo
  /\ Trim(undo, FALSE)
  /\ crlf' = IF group.normalizes /\ generation # group.gb THEN ~crlf ELSE crlf
  /\ group' = NoGroup
  /\ lastType' = "Other"
  /\ cursor' = 0
  /\ UNCHANGED <<text, generation, counter, saved, mode, walk, aborting,
                 capacityError, disk>>

\* edit_end_grouping of the outermost group.
EndGroup ==
  /\ Ready
  /\ group # NoGroup
  /\ group.depth = 1
  /\ redo' = IF generation = group.gb THEN group.redo ELSE redo
  /\ Trim(undo, FALSE)
  /\ crlf' = IF group.normalizes /\ generation # group.gb THEN ~crlf ELSE crlf
  /\ group' = NoGroup
  /\ lastType' = "Other"
  /\ cursor' = 0
  /\ UNCHANGED <<text, generation, counter, saved, mode, walk, aborting,
                 capacityError, disk>>

\* replay met the capacity limit: abort_undo_group.
AbortGroup ==
  /\ mode = "ready"
  /\ group # NoGroup
  /\ group.depth = 1
  /\ capacityError
  /\ capacityError' = FALSE
  /\ group' = NoGroup
  /\ lastType' = "Other"
  /\ cursor' = 0
  /\ \/ /\ generation = group.gb
        /\ redo' = group.redo
        /\ UNCHANGED <<mode, walk, aborting>>
     \/ /\ generation # group.gb
        /\ mode' = "undo"
        /\ walk' = [from |-> generation, to |-> Top(undo).gb]
        /\ aborting' = group
        /\ UNCHANGED redo
  /\ UNCHANGED <<text, crlf, generation, counter, saved, undo, disk>>

-----------------------------------------------------------------------------
(***************************************************************************)
(* Undo and redo: undo_redo, one step per iteration of its loop            *)
(***************************************************************************)

StartWalk(direction, from) ==
  /\ mode = "ready"
  /\ group = NoGroup
  /\ lastType' = "Other"
  /\ cursor' = 0
  /\ \/ /\ from = <<>>
        /\ lastType # "Other"
        /\ UNCHANGED <<mode, walk>>
     \/ /\ from # <<>>
        /\ mode' = direction
        /\ walk' = [from |-> generation, to |-> Top(from).gb]
  /\ UNCHANGED <<text, crlf, generation, counter, saved, undo, redo, group,
                 aborting, capacityError, disk>>

Undo == StartWalk("undo", undo)
Redo == StartWalk("redo", redo)

\* The stack the walk takes entries from still holds one of the group.
WalkContinues(from) == from # <<>> /\ Top(from).gb = walk.to

\* The entry is reversed and moved; its stamps trade places.  The byte
\* operations bump the counter too, but the stamp is overwritten at once.
WalkEntry(e) ==
  /\ text' = Reversed(text, e)
  /\ generation' = e.gb
  /\ crlf' = e.nb
  /\ UNCHANGED <<counter, saved, lastType, cursor, group, mode, walk, aborting,
                 capacityError, disk>>

UndoEntry ==
  /\ mode = "undo"
  /\ WalkContinues(undo)
  /\ WalkEntry(Top(undo))
  /\ undo' = Pop(undo)
  /\ redo' = Append(redo, Turned(Top(undo), text, walk.from, crlf))

RedoEntry ==
  /\ mode = "redo"
  /\ WalkContinues(redo)
  /\ WalkEntry(Top(redo))
  /\ redo' = Pop(redo)
  /\ undo' = Append(undo, Turned(Top(redo), text, walk.from, crlf))

\* The loop breaks; an abort then puts the redo stack back.
EndWalk ==
  /\ \/ mode = "undo" /\ ~WalkContinues(undo)
     \/ mode = "redo" /\ ~WalkContinues(redo)
  /\ mode' = "ready"
  /\ walk' = NoWalk
  /\ aborting' = NoGroup
  /\ redo' = IF aborting = NoGroup THEN redo ELSE aborting.redo
  /\ UNCHANGED <<text, crlf, generation, counter, saved, undo, lastType, cursor,
                 group, capacityError, disk>>

-----------------------------------------------------------------------------
(***************************************************************************)
(* Saving and loading                                                      *)
(***************************************************************************)

Idle == mode = "ready" /\ group = NoGroup

\* mark_saved, after Document::save committed the file.
Save ==
  /\ Idle
  /\ saved' = generation
  /\ disk' = Loaded(text, crlf)
  /\ lastType' = "Other"
  /\ cursor' = 0
  /\ UNCHANGED <<text, crlf, generation, counter, undo, redo, group, mode, walk,
                 aborting, capacityError>>

\* mark_as_dirty: a change of encoding, or text restored from a recovery copy.
MarkDirty ==
  /\ Idle
  /\ saved' = Unsaved
  /\ UNCHANGED <<text, crlf, generation, counter, undo, redo, lastType, cursor,
                 group, mode, walk, aborting, capacityError, disk>>

\* replace_loaded_content: the file was read again into a fresh buffer.
Reload(file) ==
  /\ Idle
  /\ counter < MaxGeneration
  /\ text' = file.text
  /\ crlf' = file.crlf
  /\ generation' = counter + 1
  /\ counter' = counter + 1
  /\ saved' = counter + 1
  /\ undo' = <<>>
  /\ redo' = <<>>
  /\ lastType' = "Other"
  /\ cursor' = 0
  /\ disk' = file
  /\ UNCHANGED <<group, mode, walk, aborting, capacityError>>

-----------------------------------------------------------------------------

\* What one edit may insert.
Insertion == UNION {[1..k -> Chars] : k \in 1..MaxInsert}

Next ==
  \/ \E type \in {"Other", "Write"}, beg \in 0..Len(text), ins \in Insertion :
       \E n \in 0..Len(text) - beg : Write(type, beg, n, ins)
  \/ \E beg \in 0..Len(text) : \E n \in 1..Len(text) - beg : Delete(beg, n)
  \/ MoveCursor
  \/ FlipNewlines
  \/ ReportCapacityError
  \/ \E normalizes \in BOOLEAN : BeginGroup(normalizes)
  \/ NestGroup
  \/ UnnestGroup
  \/ EndGroup
  \/ AbortGroup
  \/ Undo
  \/ Redo
  \/ UndoEntry
  \/ RedoEntry
  \/ EndWalk
  \/ Save
  \/ MarkDirty
  \/ \E file \in Loads : Reload(file)

Spec == Init /\ [][Next]_vars

-----------------------------------------------------------------------------
(***************************************************************************)
(* Properties                                                              *)
(***************************************************************************)

OpenGroup ==
  [depth : Nat \ {0}, gb : Nat, nb : BOOLEAN, redo : Seq(Entry),
   text : Seq(Chars), normalizes : BOOLEAN]

\* The type invariant of the history's state.
TypeOK ==
  /\ text \in Seq(Chars)
  /\ crlf \in BOOLEAN
  /\ generation \in Nat
  /\ counter \in Nat
  /\ saved \in Nat \cup {Unsaved}
  /\ undo \in Seq(Entry)
  /\ redo \in Seq(Entry)
  /\ lastType \in HistoryType
  /\ cursor \in Nat
  /\ group \in OpenGroup \cup {NoGroup}
  /\ mode \in {"ready", "undo", "redo"}
  /\ walk \in [from : Nat, to : Nat]
  /\ aborting \in OpenGroup \cup {NoGroup}
  /\ capacityError \in BOOLEAN
  /\ disk \in [text : Seq(Chars), crlf : BOOLEAN]

\* is_dirty
Clean == generation = saved

\* A document the editor shows as clean has exactly the contents that were
\* last saved or loaded, whatever was undone, redone, branched, coalesced,
\* trimmed, rolled back or failed since (TextBuffer::is_dirty): otherwise
\* closing it would lose an edit without a question.
CleanMeansSaved == Idle /\ Clean => disk = Loaded(text, crlf)

\* What e replaced is still where e says, and reversing e yields the text on
\* its other side.
Undoes(t, e) ==
  /\ e.off + Len(e.add) <= Len(t)
  /\ Extract(t, e.off, Len(e.add)) = e.add
  /\ Reversed(t, e) = e.other

\* The text the i-th entry of s applies to when t is the current one.
After(s, i, t) == IF i = Len(s) THEN t ELSE s[i + 1].other

Reversible(s, t) == \A i \in 1..Len(s) : Undoes(After(s, i, t), s[i])

\* The open group, or the one being rolled back.
Transaction == IF aborting # NoGroup THEN aborting ELSE group

\* At every moment, in the middle of a group or of a walk too, every entry of
\* both stacks can be reversed exactly: it finds the bytes it added at the
\* offset it recorded, and leaves the text it was made from
\* (TextBuffer::undo_redo, edit_begin's coalescing, abort_undo_group).
HistoryReversible ==
  /\ Reversible(undo, text)
  /\ Reversible(redo, text)
  /\ Transaction # NoGroup => Reversible(Transaction.redo, Transaction.text)

\* The stamps that occur in a stack.
Stamps(s) == {s[i].gb : i \in 1..Len(s)}

Ascending(s) == \A i, j \in 1..Len(s) : i < j => s[i].gb <= s[j].gb
Descending(s) == \A i, j \in 1..Len(s) : i < j => s[i].gb >= s[j].gb

\* The stamps grow along the line of versions, past, present and future, so
\* that no two groups can run into each other and no version shares the stamp
\* of another (GapBuffer::bump_generation never reuses one after an undo).
HistoryOrdered ==
  /\ Ascending(undo)
  /\ Descending(redo)
  /\ mode = "ready" =>
       /\ \A g \in Stamps(undo) : g < generation
       /\ \A g \in Stamps(redo) : g > generation
  /\ Transaction # NoGroup =>
       /\ Descending(Transaction.redo)
       /\ \A g \in Stamps(Transaction.redo) : g > Transaction.gb

\* Between commands the history keeps at most MaxHistory entries, or the one
\* group that exceeds the limit by itself (TextBuffer::trim_history).
HistoryBounded ==
  Idle => \/ Len(undo) <= MaxHistory
          \/ \A g \in Stamps(undo) : g = undo[1].gb

\* A macro that runs into the buffer's capacity leaves nothing behind: the text,
\* the newline style, the dirty flag's stamp and the redo stack are those it
\* found when it began (macros::replay, TextBuffer::abort_undo_group).
RollbackExact ==
  [][aborting # NoGroup /\ aborting' = NoGroup =>
       /\ Loaded(text', crlf') = Loaded(aborting.text, aborting.nb)
       /\ generation' = aborting.gb
       /\ redo' = aborting.redo]_vars

-----------------------------------------------------------------------------
(***************************************************************************)
(* The inductive invariant behind CleanMeansSaved: what is known of the    *)
(* saved version wherever its stamp occurs, and how far a group or a walk  *)
(* has come.                                                               *)
(***************************************************************************)

\* Contents with the stamp g are those on disk if g was the one saved.
Known(g, t, nl) == g = saved => disk = Loaded(t, nl)

KnownVersions(s) ==
  \A i \in 1..Len(s) : Boundary(s, i) => Known(s[i].gb, s[i].other, s[i].nb)

SavedKnown ==
  /\ KnownVersions(undo)
  /\ KnownVersions(redo)
  /\ mode = "ready" => Known(generation, text, crlf)
  /\ Transaction # NoGroup =>
       /\ KnownVersions(Transaction.redo)
       /\ Known(Transaction.gb, Transaction.text, Transaction.nb)

\* No stamp is newer than the counter.
StampsTaken ==
  /\ generation <= counter
  /\ saved <= counter
  /\ walk.from <= counter
  /\ \A g \in Stamps(redo) : g <= counter
  /\ Transaction # NoGroup =>
       \A g \in Stamps(Transaction.redo) : g <= counter

\* The newest entries of s are those of the group g, down to its origin.
Holds(s, g) ==
  \E k \in 1..Len(s) :
    /\ Boundary(s, k)
    /\ s[k].other = g.text
    /\ s[k].nb = g.nb
    /\ \A j \in k..Len(s) : s[j].gb = g.gb

GroupProgress ==
  group # NoGroup =>
    /\ mode = "ready"
    /\ aborting = NoGroup
    /\ crlf = group.nb
    /\ \/ /\ generation = group.gb
          /\ text = group.text
          /\ lastType = "Other"
       \/ /\ generation > group.gb
          /\ generation # saved
          /\ Holds(undo, group)

UndoProgress ==
  mode = "undo" =>
    /\ walk.to < walk.from
    /\ \A g \in Stamps(undo) : g <= walk.to
    /\ \A g \in Stamps(redo) : g >= walk.from
    /\ \/ WalkContinues(undo)
       \/ generation = walk.to /\ Known(walk.to, text, crlf)
    /\ \/ redo # <<>> /\ Top(redo).gb = walk.from
       \/ Known(walk.from, text, crlf)

RedoProgress ==
  mode = "redo" =>
    /\ walk.to > walk.from
    /\ walk.to <= counter
    /\ \A g \in Stamps(undo) : g <= walk.from
    /\ \A g \in Stamps(redo) : g >= walk.to
    /\ \/ WalkContinues(redo)
       \/ generation = walk.to /\ Known(walk.to, text, crlf)
    /\ \/ undo # <<>> /\ Top(undo).gb = walk.from
       \/ Known(walk.from, text, crlf)

AbortProgress ==
  aborting # NoGroup =>
    /\ mode = "undo"
    /\ walk.to = aborting.gb
    /\ \/ Holds(undo, aborting)
       \/ /\ ~WalkContinues(undo)
          /\ generation = aborting.gb
          /\ text = aborting.text
          /\ crlf = aborting.nb

IInv ==
  /\ TypeOK
  /\ HistoryReversible
  /\ HistoryOrdered
  /\ SavedKnown
  /\ StampsTaken
  /\ GroupProgress
  /\ UndoProgress
  /\ RedoProgress
  /\ AbortProgress

-----------------------------------------------------------------------------
(***************************************************************************)
(* The invariant behind HistoryBounded: what undo and redo hold together,  *)
(* which walks leave alone and aborted groups bring back.                  *)
(***************************************************************************)

OneGroup(s) == \A i, j \in 1..Len(s) : s[i].gb = s[j].gb

\* The k oldest entries of s and all of r: within the limit, or one group.
Fits(s, k, r) ==
  \/ k + Len(r) <= MaxHistory
  \/ r = <<>> /\ \A i, j \in 1..k : s[i].gb = s[j].gb
  \/ k = 0 /\ OneGroup(r)

\* What the group g found, before its own entries and the redo stack it keeps.
FitsBelow(s, g) ==
  \E k \in 0..Len(s) :
    /\ \A i \in 1..k : s[i].gb # g.gb
    /\ \A i \in k + 1..Len(s) : s[i].gb = g.gb
    /\ Fits(s, k, g.redo)

\* A walk moves entries one by one, or the only group from side to side.
FitsMoving(from, into) ==
  \/ Len(from) + Len(into) <= MaxHistory
  \/ /\ \A g \in Stamps(from) : g = walk.to
     /\ \A g \in Stamps(into) : g = walk.from

Limited ==
  /\ Idle => Fits(undo, Len(undo), redo)
  /\ group # NoGroup => redo = <<>>
  /\ Transaction # NoGroup => FitsBelow(undo, Transaction)
  /\ mode = "undo" /\ aborting = NoGroup => FitsMoving(undo, redo)
  /\ mode = "redo" => FitsMoving(redo, undo)
=============================================================================
