------------------------------- MODULE Editing -------------------------------
(***************************************************************************)
(* What one editing command does to a text buffer: the text, the cursor,   *)
(* the primary selection, the further carets and the rectangle             *)
(* (src/src/buffer/mod.rs, src/src/buffer/navigation.rs).  A buffer is a   *)
(* record                                                                  *)
(*   text       the graphemes of the document                              *)
(*   cursor     an offset in it                                            *)
(*   selection  <<>>, or the two points <<beg, end>> it goes from and to   *)
(*   others     the secondary selections, pairs of offsets                 *)
(*   rectangle  <<>>, or the two corners of the last column selection      *)
(*   overtype   whether typing replaces what follows                       *)
(*   full       an edit was refused for want of room                       *)
(* A point is a record [x, y].  Word wrap is off, so that visual and       *)
(* logical points agree; lines end in one newline; indentation is made of  *)
(* spaces and no final newline is added.  History is modelled elsewhere    *)
(* (UndoHistory).                                                          *)
(***************************************************************************)
EXTENDS Integers, Sequences, FiniteSets, Splicing
LOCAL INSTANCE SequencesExt
LOCAL INSTANCE FiniteSetsExt

CONSTANTS TabSize,    \* columns between two tab stops
          Room        \* graphemes the buffer can hold

ASSUME EditingAssumption == TabSize \in Nat \ {0} /\ Room \in Nat

NL == "newline"
SP == "space"
TAB == "tab"
Far == 1000           \* CoordType::MAX

Larger(i, j) == IF i < j THEN j ELSE i
Smaller(i, j) == IF i < j THEN i ELSE j
Low(r) == Smaller(r[1], r[2])
High(r) == Larger(r[1], r[2])
Wide(r) == r[1] # r[2]
Covered(t, r) == Extract(t, Low(r), High(r) - Low(r))

-----------------------------------------------------------------------------
(* Rows and points. *)

Breaks(t) == {i \in 1..Len(t) : t[i] = NL}
Rows(t) == Cardinality(Breaks(t)) + 1
RowAt(t, o) == Cardinality({i \in Breaks(t) : i <= o})
RowStart(t, o) == Max({0} \cup {i \in Breaks(t) : i <= o})
RowEnd(t, o) == Min({Len(t)} \cup {i - 1 : i \in {j \in Breaks(t) : j > o}})
LineStart(t, y) == Min({o \in 0..Len(t) : RowAt(t, o) = y})
PointAt(t, o) == [x |-> o - RowStart(t, o), y |-> RowAt(t, o)]

\* cursor_move_to_logical_internal, cursor_move_to_visual_internal: a point is
\* clamped to its row, and beyond the last row to the end of the text.
OffsetAt(t, p) ==
  LET within(start) == Smaller(start + Larger(p.x, 0), RowEnd(t, start))
  IN IF p.y >= Rows(t) THEN Len(t) ELSE within(LineStart(t, Larger(p.y, 0)))

\* A set of numbers in ascending order.
Ascending(S) ==
  [k \in 1..Cardinality(S) |-> CHOOSE m \in S : Cardinality({n \in S : n < m}) = k - 1]

\* From two offsets to two points, and back.
Points(t, r) == <<PointAt(t, r[1]), PointAt(t, r[2])>>
Offsets(t, ends) == <<OffsetAt(t, ends[1]), OffsetAt(t, ends[2])>>

\* A row with its newline.
LineRange(t, y) == <<LineStart(t, y), OffsetAt(t, [x |-> 0, y |-> y + 1])>>

\* goto_line_start, one row down, as the cut of whole lines uses it: at the end
\* of the text it stays, and from elsewhere in the last row it falls back to
\* that row's start.
NextLineStart(t, o) ==
  LET below(y) == CASE y < Rows(t) -> LineStart(t, y)
                    [] y >= Rows(t) /\ o = Len(t) -> o
                    [] OTHER -> RowStart(t, o)
  IN below(RowAt(t, o) + 1)

Before(p, q) == p.y < q.y \/ (p.y = q.y /\ p.x < q.x)

\* measure_indent_internal: how many spaces follow offset o, at most `most`.
Indentation(t, o, most) ==
  Max({k \in 0..Smaller(Larger(most, 0), Len(t) - o) :
         \A i \in o + 1..o + k : t[i] = SP})

ToTabStop(column) == TabSize - (column % TabSize)
PreviousTabStop(column) == (Larger(column - 1, 0) \div TabSize) * TabSize

-----------------------------------------------------------------------------
(* Words. *)

ClassOf(ch) == CASE ch = SP -> "whitespace" [] ch = NL -> "newline"
                 [] ch = "." -> "separator" [] OTHER -> "word"

\* The farthest offset reached from o over characters of one class.
SkipForward(t, o, class) ==
  Max({e \in o..Len(t) : \A i \in o + 1..e : ClassOf(t[i]) = class})
SkipBackward(t, o, class) ==
  Min({e \in 0..o : \A i \in e + 1..o : ClassOf(t[i]) = class})

\* word_forward and word_backward: over one newline, over blanks, then over one
\* word or one run of separators; a lone separator takes the word behind it.
WordForward(t, o) ==
  LET run(at, class) ==
        LET over(end) == IF class = "separator" /\ end = at + 1
                         THEN SkipForward(t, end, "word") ELSE end
        IN IF class \in {"separator", "word"} THEN over(SkipForward(t, at, class)) ELSE at
      from(at) == run(at, IF at < Len(t) THEN ClassOf(t[at + 1]) ELSE "whitespace")
      lined == IF o < Len(t) /\ t[o + 1] = NL THEN o + 1 ELSE o
  IN from(SkipForward(t, lined, "whitespace"))

WordBackward(t, o) ==
  LET run(at, class) ==
        LET over(end) == IF class = "separator" /\ end = at - 1
                         THEN SkipBackward(t, end, "word") ELSE end
        IN IF class \in {"separator", "word"} THEN over(SkipBackward(t, at, class)) ELSE at
      from(at) == run(at, IF at > 0 THEN ClassOf(t[at]) ELSE "whitespace")
      lined == IF o > 0 /\ t[o] = NL THEN o - 1 ELSE o
  IN from(SkipBackward(t, lined, "whitespace"))

\* word_select: the run around o of the class of the next character or, before
\* a newline and at the end, of the previous one.
WordAround(t, o) ==
  LET next == IF o < Len(t) THEN ClassOf(t[o + 1]) ELSE "newline"
      class == IF next = "newline" /\ o > 0 THEN ClassOf(t[o]) ELSE next
  IN <<IF class = "newline" THEN o ELSE SkipBackward(t, o, class),
       IF next = "newline" THEN o ELSE SkipForward(t, o, next)>>

\* cursor_move_delta_internal.  A newline counts for one grapheme.
Moved(t, o, word, delta) ==
  CASE word /\ delta = 1 -> WordForward(t, o)
    [] word /\ delta = -1 -> WordBackward(t, o)
    [] OTHER -> Smaller(Larger(o + delta, 0), Len(t))

-----------------------------------------------------------------------------
(* Selections and carets. *)

\* set_selection drops a selection whose ends are one point.
Chosen(ends) == IF ends[1] = ends[2] THEN <<>> ELSE ends

Primary(b) ==
  IF b.selection = <<>> THEN <<b.cursor, b.cursor>> ELSE Offsets(b.text, b.selection)

HasSelection(b) == b.selection # <<>>
\* The selection, or where the cursor is.
Ends(b) == IF HasSelection(b) THEN b.selection ELSE Points(b.text, <<b.cursor, b.cursor>>)
Selected(b) == HasSelection(b) /\ Wide(Primary(b))

\* The stable sort of sort_by_key.
Less(p, q) == Low(p) < Low(q) \/ (Low(p) = Low(q) /\ High(p) < High(q))
Inserted(rs, r) ==
  Splice(rs, Min({i - 1 : i \in {j \in 1..Len(rs) : Less(r, rs[j])}} \cup {Len(rs)}), 0, <<r>>)
InOrder(rs) ==
  LET sorted[i \in 0..Len(rs)] == IF i = 0 THEN <<>> ELSE Inserted(sorted[i - 1], rs[i])
  IN sorted[Len(rs)]

\* selection_ranges.
Ranges(b) == InOrder(Append(b.others, Primary(b)))

SetCursor(b, o) ==
  [b EXCEPT !.cursor = o, !.selection = <<>>, !.others = <<>>, !.rectangle = <<>>]

\* set_cursor_for_selection.
SelectTo(b, o) ==
  LET beg == IF HasSelection(b) THEN b.selection[1] ELSE PointAt(b.text, b.cursor)
  IN [SetCursor(b, o) EXCEPT !.selection = Chosen(<<beg, PointAt(b.text, o)>>)]

\* Select the text from offset beg to offset end, the cursor at the end.
Select(b, r) == [SetCursor(b, r[2]) EXCEPT !.selection = Chosen(Points(b.text, r))]

\* set_selection_ranges: overlapping ranges are joined, and an empty one with
\* what it touches; the last becomes the primary selection.
\*
\* Mutant of JoinRange: an empty caret may touch another range.
JoinOverlapping(s, r) ==
  LET join(last, end) ==
        IF Low(r) >= High(last) THEN Append(s, r)
        ELSE [s EXCEPT ![Len(s)] =
                IF last[1] > last[2] THEN <<end, Low(last)>> ELSE <<Low(last), end>>]
  IN IF s = <<>> THEN <<r>> ELSE join(Last(s), Larger(High(r), High(Last(s))))

JoinRange(s, r) ==
  LET touch(last) == Low(r) = High(last) /\ ~(Wide(r) /\ Wide(last))
      join(last, end) ==
        IF Low(r) >= High(last) /\ ~touch(last) THEN Append(s, r)
        ELSE [s EXCEPT ![Len(s)] =
                IF last[1] > last[2] THEN <<end, Low(last)>> ELSE <<Low(last), end>>]
  IN IF s = <<>> THEN <<r>> ELSE join(Last(s), Larger(High(r), High(Last(s))))

Joined(rs) ==
  LET joined[i \in 0..Len(rs)] == IF i = 0 THEN <<>> ELSE JoinRange(joined[i - 1], rs[i])
  IN joined[Len(rs)]

Clamped(t, rs) ==
  [i \in 1..Len(rs) |-> <<Smaller(rs[i][1], Len(t)), Smaller(rs[i][2], Len(t))>>]

SetRanges(b, rs) ==
  LET place(joined) ==
        [b EXCEPT !.cursor = Last(joined)[2], !.others = Front(joined),
                  !.selection = Chosen(Points(b.text, Last(joined)))]
  IN IF rs = <<>> THEN b ELSE place(Joined(InOrder(Clamped(b.text, rs))))

ClearSelection(b) == [b EXCEPT !.selection = <<>>, !.others = <<>>, !.rectangle = <<>>]

SelectWord(b) == Select(b, WordAround(b.text, b.cursor))

SelectLine(b) == Select(b, LineRange(b.text, RowAt(b.text, b.cursor)))

\* select_lines: whole lines from the one the drag began in to the one it is in.
SelectLines(b, anchor, head) ==
  LET row(y) == Smaller(Larger(y, 0), Rows(b.text) - 1)
      lines(from, to) ==
        IF to < from
        THEN <<OffsetAt(b.text, [x |-> 0, y |-> from + 1]), LineStart(b.text, to)>>
        ELSE <<LineStart(b.text, from), OffsetAt(b.text, [x |-> 0, y |-> to + 1])>>
  IN Select(b, lines(row(anchor), row(head)))

\* selection_anchor_line.
AnchorLine(b) ==
  IF ~HasSelection(b) THEN RowAt(b.text, b.cursor)
  ELSE LET beg == b.selection[1]
       IN IF beg.x = 0 /\ Before(b.selection[2], beg) THEN beg.y - 1 ELSE beg.y

SelectAll(b) == Select(b, <<0, Len(b.text)>>)

\* find_all_matches: the leftmost occurrences that do not overlap.
Occurrences(t, p) ==
  LET at(i) == i + Len(p) <= Len(t) /\ Extract(t, i, Len(p)) = p
      add(prior, s) ==
        prior \cup {o \in {s} : o >= 0 /\ at(o) /\ \A q \in prior : q + Len(p) <= o}
      found[i \in 0..Len(t)] == IF i = 0 THEN {} ELSE add(found[i - 1], i - Len(p))
  IN IF p = <<>> THEN {} ELSE found[Len(t)]

\* add_next_occurrence: the next occurrence of the selected text that no
\* selection overlaps, with wrap-around.
AddNext(b) ==
  LET free(rs, p) ==
        {s \in Occurrences(b.text, p) :
           \A i \in 1..Len(rs) : ~(s < High(rs[i]) /\ s + Len(p) > Low(rs[i]))}
      add(rs, s, p) == SetRanges(b, Append(rs, <<s, s + Len(p)>>))
      next(starts, behind, p) ==
        IF starts = {} THEN b ELSE add(Ranges(b), Min(IF behind = {} THEN starts ELSE behind), p)
      seek(starts, r, p) == next(starts, {s \in starts : s >= High(r)}, p)
      look(r, p) == seek(free(Ranges(b), p), r, p)
      from(r) == IF Wide(r) THEN look(r, Covered(b.text, r)) ELSE b
  IN IF HasSelection(b) THEN from(Primary(b)) ELSE SelectWord(b)

AddCursorAt(b, p) ==
  LET add(o) == SetRanges(b, Append(Ranges(b), <<o, o>>)) IN add(OffsetAt(b.text, p))

\* add_cursor_vertical: next to the first or the last caret.
AddCursor(b, delta) ==
  LET edge(rs) == PointAt(b.text, High(IF delta < 0 THEN rs[1] ELSE Last(rs)))
      beside(p) == IF p.y + delta \notin 0..Rows(b.text) - 1 THEN b
                   ELSE AddCursorAt(b, [p EXCEPT !.y = @ + delta])
  IN beside(edge(Ranges(b)))

\* select_rectangle: one range in every row between the two corners.
SelectRectangle(b, anchor, head) ==
  LET row(y) == <<OffsetAt(b.text, [x |-> anchor.x, y |-> y]),
                  OffsetAt(b.text, [x |-> head.x, y |-> y])>>
      rows(top, bottom) == [i \in 1..Larger(bottom - top + 1, 0) |-> row(top + i - 1)]
      all == rows(Larger(Smaller(anchor.y, head.y), 0),
                  Smaller(Larger(anchor.y, head.y), Rows(b.text) - 1))
  IN [SetRanges(b, all) EXCEPT !.rectangle = <<anchor, head>>]

ExtendRectangle(b, dx, dy) ==
  LET stretch(corners) ==
        SelectRectangle(b, corners[1],
          [x |-> Larger(corners[2].x + dx, 0),
           y |-> Smaller(Larger(corners[2].y + dy, 0), Rows(b.text) - 1)])
  IN stretch(IF b.rectangle = <<>> THEN Points(b.text, <<b.cursor, b.cursor>>)
             ELSE b.rectangle)

\* Move the caret of every range to to[range]; extending keeps the range's other end.
MoveEach(b, to, extend) ==
  LET moved(r) == <<IF extend THEN r[1] ELSE to[r], to[r]>>
      move(rs) == SetRanges(b, [i \in 1..Len(rs) |-> moved(rs[i])])
  IN [move(Ranges(b)) EXCEPT !.rectangle = <<>>]

\* move_cursors_delta: without extending, a selection collapses to its edge.
MoveCursors(b, word, delta, extend) ==
  LET step(r) == IF ~extend /\ Wide(r) THEN (IF delta < 0 THEN Low(r) ELSE High(r))
                 ELSE Moved(b.text, r[2], word, delta)
  IN MoveEach(b, [r \in ToSet(Ranges(b)) |-> step(r)], extend)

MoveCursorsVertical(b, delta, extend) ==
  LET step(r) == OffsetAt(b.text, [PointAt(b.text, r[2]) EXCEPT !.y = @ + delta])
  IN MoveEach(b, [r \in ToSet(Ranges(b)) |-> step(r)], extend)

MoveCursorsBoundary(b, end, extend) ==
  LET step(r) == IF end THEN RowEnd(b.text, r[2]) ELSE RowStart(b.text, r[2])
  IN MoveEach(b, [r \in ToSet(Ranges(b)) |-> step(r)], extend)

-----------------------------------------------------------------------------
(* Edits. *)

HasRoom(b, extra) == Len(b.text) + Larger(extra, 0) <= Room

\* write_capacity_bound: room for the expansion of tabs and for the
\* indentation copied at every newline.
CapacityBound(ins, raw, column) ==
  LET lines == Cardinality({i \in 1..Len(ins) : ins[i] = NL})
      wide == Len(ins) * TabSize
  IN CASE ins = <<>> -> 0
       [] raw -> Len(ins) + lines + 2
       [] OTHER -> wide + lines * (column + wide + 2) + 2

\* One character typed at s.cursor: a newline brings the indentation of its
\* line along, a tab becomes spaces, and overtyping deletes as much as it
\* writes but never a newline.
Typed(s, ch, overtype) ==
  LET start == RowStart(s.text, s.cursor)
      spaces(n) == [i \in 1..n |-> SP]
      over(n) == IF ~overtype \/ ch = NL THEN 0
                 ELSE Smaller(n, RowEnd(s.text, s.cursor) - s.cursor)
      put(new) == [text |-> Splice(s.text, s.cursor, over(Len(new)), new),
                   cursor |-> s.cursor + Len(new)]
  IN put(CASE ch = NL -> <<NL>> \o spaces(Indentation(s.text, start, s.cursor - start))
           [] ch = TAB -> spaces(ToTabStop(s.cursor - start))
           [] OTHER -> <<ch>>)

\* One character after the other.
TypedAll(s, ins, overtype) ==
  LET typed[i \in 0..Len(ins)] == IF i = 0 THEN s ELSE Typed(typed[i - 1], ins[i], overtype)
  IN typed[Len(ins)]

\* write: the selection, if there is one, is deleted first.
WriteAt(b, ins, at, raw) ==
  LET finish(gone, done) ==
        [b EXCEPT !.text = done.text, !.cursor = done.cursor,
                  !.selection = IF gone > 0 THEN <<>> ELSE @]
      write(start, gone) ==
        CASE ~HasRoom(b, CapacityBound(ins, raw, PointAt(b.text, start).x) - gone) ->
               [b EXCEPT !.full = TRUE]
          [] ins = <<>> /\ gone = 0 -> b
          [] OTHER ->
               finish(gone,
                 IF raw THEN [text |-> Splice(b.text, start, gone, ins), cursor |-> start + Len(ins)]
                 ELSE TypedAll([text |-> Splice(b.text, start, gone, <<>>), cursor |-> start],
                               ins, b.overtype))
      replace(r) == write(IF Wide(r) THEN Low(r) ELSE at, High(r) - Low(r))
  IN replace(Primary(b))

\* The most the text can grow to while the ranges rs are replaced, from the last
\* to the first.
MostWritten(b, rs, texts, raw) ==
  LET grown(s, len) == [len |-> len, most |-> Larger(s.most, len)]
      need[i \in 1..Len(rs) + 1] ==
        IF i > Len(rs) THEN [len |-> Len(b.text), most |-> Len(b.text)]
        ELSE grown(need[i + 1],
                   need[i + 1].len - (High(rs[i]) - Low(rs[i]))
                     + CapacityBound(texts[i], raw, PointAt(b.text, Low(rs[i])).x))
  IN need[1].most

\* One range is replaced, and the carets behind it shift along.
ReplaceCaret(s, r, ins, raw) ==
  LET selected == [s.b EXCEPT !.cursor = r[2], !.selection = Chosen(Points(s.b.text, r))]
      shifted(new) == [j \in 1..Len(s.carets) |-> s.carets[j] + Len(new.text) - Len(s.b.text)]
      place(new) == [b |-> new, carets |-> Append(shifted(new), new.cursor)]
  IN place(WriteAt(selected, ins, r[2], raw))

Replaced(b, rs, texts, raw) ==
  LET done[i \in 1..Len(rs) + 1] ==
        IF i > Len(rs) THEN [b |-> b, carets |-> <<>>]
        ELSE ReplaceCaret(done[i + 1], rs[i], texts[i], raw)
  IN done[1]

\* write_multiple_texts: every selection is replaced by its own text, from the
\* last to the first.
WriteMultiple(b, texts, raw) ==
  LET alone == [b EXCEPT !.others = <<>>, !.rectangle = <<>>]
      settle(s) == SetRanges(s.b, [i \in 1..Len(s.carets) |-> <<s.carets[i], s.carets[i]>>])
      write(rs) == IF ~HasRoom(b, MostWritten(b, rs, texts, raw) - Len(b.text))
                   THEN [b EXCEPT !.full = TRUE]
                   ELSE settle(Replaced(alone, rs, texts, raw))
  IN write(Ranges(b))

SameEverywhere(b, ins) == [i \in 1..Len(b.others) + 1 |-> ins]

\* write_canon and write_raw.
Write(b, ins, raw) ==
  IF b.others # <<>> THEN WriteMultiple(b, SameEverywhere(b, ins), raw)
  ELSE WriteAt(b, ins, b.cursor, raw)

\* Delete the text between two offsets; the cursor is left there.
DeleteBetween(b, from, to) ==
  [b EXCEPT !.text = Splice(b.text, from, to - from, <<>>), !.cursor = from]

\* Every empty caret at o is stretched to stretch[o], and what is then selected goes.
DeleteEach(b, stretch) ==
  LET to(r) == IF Wide(r) THEN r ELSE <<r[1], stretch[r[1]]>>
      widen(rs) == SetRanges(b, [i \in 1..Len(rs) |-> to(rs[i])])
      empty(wide) == WriteMultiple(wide, SameEverywhere(wide, <<>>), TRUE)
  IN empty(widen(Ranges(b)))

\* delete with one caret, for a delta other than 0.
DeleteAlone(b, word, delta) ==
  LET between(r) == IF ~Wide(r) THEN b
                    ELSE [DeleteBetween(b, Low(r), High(r)) EXCEPT !.selection = <<>>]
  IN between(IF Selected(b) THEN Primary(b) ELSE <<b.cursor, Moved(b.text, b.cursor, word, delta)>>)

\* delete.
Delete(b, word, delta) ==
  LET to == [o \in 0..Len(b.text) |-> Moved(b.text, o, word, delta)]
  IN IF b.others # <<>> THEN DeleteEach(b, to) ELSE DeleteAlone(b, word, delta)

\* backspace_target: in the indentation, the previous tab stop.
BackspaceTarget(t, o, word) ==
  LET unindent(start, from) ==
        IF o > start /\ from + Indentation(t, start + from, o - start - from) >= o - start
        THEN start + from ELSE Moved(t, o, word, -1)
      stop(start) == Indentation(t, start, IF word THEN 0 ELSE PreviousTabStop(o - start))
      in(start) == unindent(start, stop(start))
  IN in(RowStart(t, o))

\* backspace_with_auto_unindent.
Backspace(b, word) ==
  LET to == [o \in 0..Len(b.text) |-> BackspaceTarget(b.text, o, word)]
      back(o) == IF o = b.cursor THEN b ELSE DeleteBetween(b, o, b.cursor)
  IN CASE b.others # <<>> -> DeleteEach(b, to)
       [] b.others = <<>> /\ HasSelection(b) -> DeleteAlone(b, word, -1)
       [] OTHER -> back(to[b.cursor])

\* apply_byte_edits: the replacements [from, to, ins], in order and disjoint,
\* are made from the last to the first; a refused set changes nothing.
Disjoint(t, edits) ==
  \A i \in 1..Len(edits) :
    /\ 0 <= edits[i].from /\ edits[i].from <= edits[i].to /\ edits[i].to <= Len(t)
    /\ i > 1 => edits[i - 1].to <= edits[i].from /\ edits[i - 1].from # edits[i].from
Grown(e) == Len(e.ins) - (e.to - e.from)
MostGrown(t, edits) ==
  LET grown(s, len) == [len |-> len, most |-> Larger(s.most, len)]
      need[i \in 1..Len(edits) + 1] ==
        IF i > Len(edits) THEN [len |-> Len(t), most |-> Len(t)]
        ELSE grown(need[i + 1], need[i + 1].len + Grown(edits[i]))
  IN need[1].most
EditsFit(b, edits) == HasRoom(b, MostGrown(b.text, edits) - Len(b.text))
ApplyEdit(s, e) ==
  IF e.from = e.to /\ e.ins = <<>> THEN s
  ELSE [s EXCEPT !.text = Splice(s.text, e.from, e.to - e.from, e.ins),
                 !.cursor = e.from + Len(e.ins)]
ApplyEdits(b, edits) ==
  LET done[i \in 1..Len(edits) + 1] ==
        IF i > Len(edits) THEN b ELSE ApplyEdit(done[i + 1], edits[i])
  IN ClearSelection(done[1])

\* Where the edits move offset o.
Followed(edits, o) ==
  LET follow(e, m) ==
        CASE o >= e.to -> m + Grown(e)
          [] o < e.to /\ o > e.from -> e.from + Len(e.ins)
          [] OTHER -> m
      to[i \in 1..Len(edits) + 1] == IF i > Len(edits) THEN o ELSE follow(edits[i], to[i + 1])
  IN to[1]

\* The edit that indents or unindents the line that starts at start: to the
\* next tab stop behind its indentation, or back to the previous one.
IndentEdit(t, start, direction) ==
  LET edit(width) ==
        [from |-> start + IF direction < 0 THEN Indentation(t, start, PreviousTabStop(width)) ELSE width,
         to |-> start + width,
         ins |-> [i \in 1..IF direction < 0 THEN 0 ELSE ToTabStop(width) |-> SP]]
  IN edit(Indentation(t, start, Far))

\* indent_change with several carets: every line that a range touches, once.
IndentEach(b, direction) ==
  LET t == b.text
      rowsOf(r) ==
        LET to(p) == IF p.x = 0 /\ Wide(r) THEN p.y - 1 ELSE p.y
        IN RowAt(t, Low(r))..to(PointAt(t, High(r)))
      lines(rs) == {y \in 0..Rows(t) - 1 : /\ \E i \in 1..Len(rs) : y \in rowsOf(rs[i])
                                           /\ \/ direction > 0
                                              \/ Indentation(t, LineStart(t, y), Far) > 0}
      edits(ys) == [i \in 1..Cardinality(ys) |->
                      IndentEdit(t, LineStart(t, Ascending(ys)[i]), direction)]
      make(rs, es) ==
        LET to == [i \in 1..Len(rs) |-> <<Followed(es, rs[i][1]), Followed(es, rs[i][2])>>]
        IN CASE es = <<>> -> b
             [] es # <<>> /\ ~EditsFit(b, es) -> [b EXCEPT !.full = TRUE]
             [] OTHER -> SetRanges(ApplyEdits(b, es), to)
      indent(rs) == make(rs, edits(lines(rs)))
  IN indent(Ranges(b))

\* indent_change with one selection: line after line, the points of the
\* selection shifting with the lines they are in.
IndentLine(s, y, direction) ==
  LET t == s.b.text
      start == OffsetAt(t, [x |-> 0, y |-> y])
      at(e) == SetCursor(s.b, OffsetAt(t, [x |-> e.to - start, y |-> RowAt(t, start)]))
      shift(p, delta) == IF p.y = y THEN [p EXCEPT !.x = @ + delta] ELSE p
      change(behind, e) ==
        [b |-> IF direction < 0 THEN DeleteBetween(behind, e.from, e.to)
               ELSE WriteAt(behind, <<TAB>>, behind.cursor, FALSE),
         beg |-> shift(s.beg, Grown(e)), end |-> shift(s.end, Grown(e))]
      indent(e) ==
        IF e.to = start /\ direction < 0 THEN [s EXCEPT !.b = at(e)] ELSE change(at(e), e)
  IN indent(IndentEdit(t, start, direction))

IndentLines(s, ys, direction) ==
  LET done[i \in 0..Len(ys)] == IF i = 0 THEN s ELSE IndentLine(done[i - 1], ys[i], direction)
  IN done[Len(ys)]

Indent(b, direction) ==
  LET rows(beg, end) ==
        [i \in 1..end.y - beg.y + (IF end.x = 0 /\ end.y > beg.y THEN 0 ELSE 1) |-> beg.y + i - 1]
      lines(ends) == IF Before(ends[2], ends[1]) THEN rows(ends[2], ends[1])
                     ELSE rows(ends[1], ends[2])
      settle(s) ==
        [s.b EXCEPT !.cursor = OffsetAt(s.b.text, s.end),
           !.selection = IF HasSelection(b) THEN Chosen(<<s.beg, s.end>>) ELSE <<>>]
      alone(ends) ==
        settle(IndentLines([b |-> b, beg |-> ends[1], end |-> ends[2]], lines(ends), direction))
      tab == IF b.others # <<>> THEN \A i \in 1..Len(Ranges(b)) : ~Wide(Ranges(b)[i])
             ELSE Ends(b)[1].y = Ends(b)[2].y
  IN CASE direction > 0 /\ tab -> Write(b, <<TAB>>, FALSE)
       [] b.others # <<>> /\ ~(direction > 0 /\ tab) -> IndentEach(b, direction)
       [] OTHER -> alone(Ends(b))

\* indent_end_logical_pos.
IndentEnd(b) ==
  LET start == RowStart(b.text, b.cursor)
  IN [x |-> Indentation(b.text, start, Far), y |-> RowAt(b.text, b.cursor)]

\* duplicate_line_or_selection.
Duplicate(b) ==
  LET t == b.text
      insert(at, ins, begin) ==
        LET edit == <<[from |-> at, to |-> at, ins |-> ins]>>
        IN IF ~EditsFit(b, edit) THEN [b EXCEPT !.full = TRUE]
           ELSE SetRanges(ApplyEdits(b, edit), <<<<begin, at + Len(ins)>>>>)
      lines(from, at) == insert(at, <<NL>> \o Covered(t, <<from, at>>), at + 1)
      rows(first, last) == lines(LineStart(t, first), RowEnd(t, LineStart(t, last)))
      selection(r, beg, end) ==
        IF beg.x = 0 /\ (end.x = 0 \/ High(r) = RowEnd(t, High(r)))
        THEN rows(beg.y, IF end.x = 0 /\ end.y > beg.y THEN end.y - 1 ELSE end.y)
        ELSE insert(High(r), Covered(t, r), High(r))
      copy(r) == IF Wide(r) THEN selection(r, PointAt(t, Low(r)), PointAt(t, High(r)))
                 ELSE lines(RowStart(t, b.cursor), RowEnd(t, b.cursor))
  IN copy(Primary(b))

\* selection_range_internal with line_fallback: nothing when it is empty.
LineOrSelection(b) ==
  IF HasSelection(b) THEN Primary(b) ELSE LineRange(b.text, RowAt(b.text, b.cursor))

\* extract_selection: the text, with a newline when it is a whole line, and
\* the buffer without it if it is cut.
Extracted(b, cut) ==
  LET ended(out) == IF HasSelection(b) \/ Last(out) = NL THEN out ELSE Append(out, NL)
      take(r) ==
        IF ~Wide(r) THEN [b |-> b, out |-> <<>>]
        ELSE [b |-> IF cut THEN [DeleteBetween(b, Low(r), High(r)) EXCEPT !.selection = <<>>] ELSE b,
              out |-> ended(Covered(b.text, r))]
  IN take(LineOrSelection(b))

\* cut_copy with several carets: when all are empty, their whole lines.
Fragments(b) ==
  LET line(o) == <<RowStart(b.text, o), NextLineStart(b.text, o)>>
      widen(rs) == IF \E i \in 1..Len(rs) : Wide(rs[i]) THEN b
                   ELSE SetRanges(b, [i \in 1..Len(rs) |-> line(rs[i][1])])
      pieces(rs) == [i \in 1..Len(rs) |-> Covered(b.text, rs[i])]
      of(wide) == [b |-> wide, pieces |-> pieces(Ranges(wide))]
  IN of(widen(Ranges(b)))

\* The pieces, a newline between each two.
JoinedPieces(pieces) ==
  LET joined[i \in 1..Len(pieces)] ==
        IF i = 1 THEN pieces[1] ELSE joined[i - 1] \o <<NL>> \o pieces[i]
  IN joined[Len(pieces)]

\* cut_copy: the buffer, and the clipboard it writes.
CutCopy(b, cut) ==
  LET many(f) ==
        [b |-> IF cut THEN WriteMultiple(f.b, SameEverywhere(f.b, <<>>), TRUE)
               ELSE SetRanges(b, Ranges(b)),
         clip |-> [data |-> JoinedPieces(f.pieces), fragments |-> f.pieces, line |-> FALSE]]
      one(e) == [b |-> e.b, clip |-> [data |-> e.out, fragments |-> <<>>, line |-> ~HasSelection(b)]]
  IN IF b.others # <<>> THEN many(Fragments(b)) ELSE one(Extracted(b, cut))

\* paste, of a clipboard that has data.
RowsOf(data) ==
  LET add(rows, ch) == IF ch = NL THEN Append(rows, <<>>)
                       ELSE [rows EXCEPT ![Len(rows)] = Append(@, ch)]
      rows[i \in 0..Len(data)] == IF i = 0 THEN <<<<>>>> ELSE add(rows[i - 1], data[i])
  IN rows[Len(data)]
Paste(b, clip) ==
  LET carets == Len(b.others) + 1
      texts(rows) == CASE Len(clip.fragments) = carets -> clip.fragments
                       [] Len(clip.fragments) # carets /\ Len(rows) = carets -> rows
                       [] OTHER -> SameEverywhere(b, clip.data)
      below(new, here) ==
        IF clip.line THEN SetCursor(new, OffsetAt(new.text, [here EXCEPT !.y = @ + 1])) ELSE new
      at == IF clip.line THEN RowStart(b.text, b.cursor) ELSE b.cursor
  IN CASE clip.data = <<>> -> b
       [] clip.data # <<>> /\ b.others # <<>> -> WriteMultiple(b, texts(RowsOf(clip.data)), TRUE)
       [] OTHER -> below(WriteAt(b, clip.data, at, TRUE), PointAt(b.text, b.cursor))

\* move_selected_lines: the neighbouring line is cut and pasted on the other
\* side; a missing newline is typed first.
MoveLines(b, delta) ==
  LET shift(p) == [p EXCEPT !.y = @ + delta]
      follow(new) ==
        [SetCursor(new, OffsetAt(new.text, shift(PointAt(b.text, b.cursor)))) EXCEPT
           !.selection = IF HasSelection(b) THEN <<shift(b.selection[1]), shift(b.selection[2])>>
                         ELSE <<>>]
      paste(at, out) == IF out = <<>> THEN at ELSE WriteAt(at, out, at.cursor, TRUE)
      break(at, out, row) == IF out = <<>> \/ RowAt(at.text, at.cursor) # row
                             THEN WriteAt(at, <<NL>>, at.cursor, FALSE) ELSE at
      put(at, out, row) == follow(paste(break(at, out, row), out))
      atRow(new, y) == SetCursor(new, OffsetAt(new.text, [x |-> 0, y |-> y]))
      carry(cut, row) == put(atRow(cut.b, row), cut.out, row)
      move(beg, end) ==
        IF (delta < 0 /\ beg <= 0) \/ (delta > 0 /\ end >= Rows(b.text) - 1)
        THEN [b EXCEPT !.others = <<>>, !.rectangle = <<>>]
        ELSE carry(Extracted(atRow(b, IF delta < 0 THEN beg - 1 ELSE end + 1), TRUE),
                   IF delta < 0 THEN end ELSE beg)
      over(ends) == move(Smaller(ends[1].y, ends[2].y), Larger(ends[1].y, ends[2].y))
  IN over(Ends(b))
=============================================================================
