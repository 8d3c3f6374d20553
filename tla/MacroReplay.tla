----------------------------- MODULE MacroReplay -----------------------------
(***************************************************************************)
(* The editor under the keyboard and the mouse, and what the replay of a   *)
(* macro makes of the same keys (src/src/bin/edit/main.rs, macros.rs,      *)
(* shortcuts.rs, src/src/tui.rs).  Recorded and replayed buffer are shown  *)
(* to stay equal key by key, from every buffer that can be reached.        *)
(***************************************************************************)
EXTENDS Textarea
LOCAL INSTANCE SequencesExt

CONSTANTS Characters,   \* what can be typed, without newline and tab
          Clips,        \* contents the clipboard can have
          MaxLength,    \* bounds the text
          MaxCarets,    \* bounds the selections
          MaxColumn     \* bounds the corners of a rectangle

Chars == Characters \cup {NL, SP}

ASSUME MacroReplayAssumption == MaxLength \in Nat /\ MaxCarets \in Nat /\ MaxColumn \in Nat

\* What is copied is text, and its pieces are.
ASSUME ClipsAssumption ==
  \A clip \in Clips : clip.data \in Seq(Chars) /\ clip.fragments \in Seq(Seq(Chars))

VARIABLES editor,    \* [buf, column]
          anchor     \* where the mouse button went down: <<>>, <<kind, place>>

editorVars == <<editor, anchor>>

EmptyBuffer == [text |-> <<>>, cursor |-> 0, selection |-> <<>>, others |-> <<>>,
                rectangle |-> <<>>, overtype |-> FALSE, full |-> FALSE]

buffer == editor.buf

\* The bounds.  Unindenting moves the points of a selection left of the text;
\* typing can then go on and unindent again.
Small(b) ==
  /\ Len(b.text) <= MaxLength /\ Carets(b) <= MaxCarets
  /\ b.rectangle # <<>> => b.rectangle[2].x <= MaxColumn
  /\ HasSelection(b) => \A i \in {1, 2} : b.selection[i].x >= -TabSize

EditorInit ==
  /\ editor = Settled(EmptyBuffer)
  /\ anchor = <<>>

Become(new, to) ==
  /\ ~buffer.full /\ Small(new.buf)
  /\ editor' = new
  /\ anchor' = to

\* Any key ends a drag over the line numbers.  (No key is pressed while the
\* button is held on a rectangle's corner.)
ByKey(new) == (anchor = <<>> \/ OnLine(anchor)) /\ Become(new, <<>>)

Type == \E ch \in Characters : ByKey(CharacterTyped(editor, ch))
Press == \E k \in EditKeys : ByKey(KeyPressed(editor, k))
PressAppKey == \E k \in AppKeys, clip \in Clips : ByKey(AppKeyPressed(editor, k, clip))

Places == {At(x, y) : x \in 0..MaxColumn, y \in 0..Rows(buffer.text)}

MouseDown == \E p \in Places, clicks \in 1..4, mods \in {{}, {"shift"}, {"alt"}} :
  /\ clicks = 1 \/ mods = {}
  /\ Become(ClickColumn(editor, ClickText(buffer, p, clicks, mods), clicks, mods),
            IF "alt" \in mods THEN <<"corner", p>> ELSE <<>>)
MouseDrag == \E p \in Places :
  /\ ~OnLine(anchor)
  /\ Become(Settled(DragText(buffer, p, anchor)), anchor)
GutterDown == \E y \in 0..Rows(buffer.text), shift \in BOOLEAN :
  LET line == GutterAnchor(buffer, y, shift, anchor)
  IN Become(Settled(SelectLines(buffer, line, LineAt(buffer, y))), <<"line", line>>)
GutterDrag == \E y \in 0..Rows(buffer.text) :
  /\ OnLine(anchor)
  /\ Become(Settled(SelectLines(buffer, anchor[2], LineAt(buffer, y))), anchor)
MouseUp ==
  /\ anchor # <<>> /\ ~OnLine(anchor)
  /\ Become(editor, <<>>)

\* The refused edit is reported; the buffer is as it was.
Report ==
  /\ buffer.full
  /\ editor' = [editor EXCEPT !.buf.full = FALSE]
  /\ UNCHANGED anchor

EditorNext ==
  \/ Type \/ Press \/ PressAppKey
  \/ MouseDown \/ MouseDrag \/ GutterDown \/ GutterDrag \/ MouseUp
  \/ Report

EditorSpec == EditorInit /\ [][EditorNext]_editorVars

-----------------------------------------------------------------------------
(* Properties. *)

\* An indent_change can leave a point of the selection outside of its row, and
\* typing then moves the cursor away from the selection.
Adrift(b) ==
  HasSelection(b) /\ \/ Primary(b)[2] # b.cursor
                     \/ \E i \in {1, 2} : PointAt(b.text, Primary(b)[i]) # b.selection[i]

\* The selections are in document order, disjoint and in the text, the primary
\* one is the last of them: what every edit with several carets relies on so
\* that no character is replaced twice (set_selection_ranges, and every
\* operation that sets selections otherwise).
CaretsAreSound ==
  LET inText(r) == 0 <= Low(r) /\ High(r) <= Len(buffer.text)
      apart(q, r) == High(q) < Low(r) \/ (High(q) = Low(r) /\ Wide(q) /\ Wide(r))
      sound(rs) ==
        /\ \A i \in 1..Len(rs) : inText(rs[i]) /\ (i > 1 => apart(rs[i - 1], rs[i]))
        /\ rs[Len(rs)] = Primary(buffer)
  IN ~Adrift(buffer) => sound(Ranges(buffer))

\* Replacing every selection by ins at once, from left to right.
Simultaneous(b, ins) ==
  LET rs == Ranges(b)
      step(s, r) == [text |-> s.text \o Extract(b.text, s.from, Low(r) - s.from) \o ins,
                     from |-> High(r),
                     carets |-> s.carets \cup {Len(s.text) + Low(r) - s.from + Len(ins)}]
      done[i \in 0..Len(rs)] ==
        IF i = 0 THEN [text |-> <<>>, from |-> 0, carets |-> {}] ELSE step(done[i - 1], rs[i])
      close(s) == [text |-> s.text \o Extract(b.text, s.from, Len(b.text) - s.from),
                   carets |-> s.carets]
  IN close(done[Len(rs)])

\* Writing with several carets, which the code does from the last caret to the
\* first while it shifts the carets already placed, replaces all selections at
\* once and leaves every caret behind its own text.
WritesAtOnce ==
  LET same(new, sum) == new.full \/ (/\ new.text = sum.text
                                     /\ {r[2] : r \in ToSet(Ranges(new))} = sum.carets)
  IN \A ins \in {<<>>, <<NL>>} \cup {<<ch>> : ch \in Characters} :
       Adrift(buffer) \/ same(Write(buffer, ins, TRUE), Simultaneous(buffer, ins))

\* The state has its shape; the selections stay in order and disjoint; and a
\* write replaces all of them at once.
CaretsWriteAtOnce ==
  /\ buffer.text \in Seq(Chars) /\ buffer.cursor \in 0..Len(buffer.text)
  /\ buffer.overtype \in BOOLEAN /\ buffer.full \in BOOLEAN
  /\ anchor = <<>> \/ anchor[1] \in {"line", "corner"}
  /\ CaretsAreSound
  /\ WritesAtOnce

\* What is cut is put back by a paste: pieces cut from several selections go
\* back to where they came from unless their carets have met, and a cut line
\* to its own row (cut_copy, paste).
CutIsPasted ==
  LET terminated == HasSelection(buffer) \/ RowAt(buffer.text, buffer.cursor) < Rows(buffer.text) - 1
      whole(cut) == IF Carets(buffer) > 1 THEN Carets(cut.b) = Carets(buffer) ELSE terminated
      restored(back) == back.full \/ back.text = buffer.text
      undone(cut) == whole(cut) /\ ~cut.b.full => restored(Paste(cut.b, cut.clip))
  IN undone(CutCopy(buffer, TRUE))

\* The columns that a replay in step with the editor can hold: with one caret
\* the editor's, or none when a vertical command starts from the cursor anyway.
ReplayColumns ==
  {c \in {editor.column} : Carets(buffer) = 1}
    \cup {c \in {Unset} : Carets(buffer) > 1 \/ editor.column = Here(buffer).x}

\* A recorded command does to the buffer what its key did, and a vertical one
\* leaves a column that the next can go on from.
Follows(c, new) ==
  \A column \in IF c.command = "Vertical" THEN ReplayColumns ELSE {Unset} :
    LET same(r) == r.buf = new.buf /\ (c.command = "Vertical" => r.column \in {Unset, new.column})
    IN same(ReplayStep(c, [buf |-> buffer, column |-> column]))

\* Three things part the editor and the replay: Alt with several carets, of
\* which only one then moves; a selection out of its row; and, by the choice
\* of ReplayColumns, a preferred column that an application command left behind.
Apart(k, new) ==
  \/ Alone(k) /\ Carets(buffer) > 1 /\ k.key \in {"Left", "Right", "Home", "End"}
  \/ Adrift(buffer) \/ Adrift(new.buf)

\* Every input that is recorded: its command, and what it does in the editor.
Inputs ==
  LET key(k, new) == [command |-> CommandOf(k), new |-> new, apart |-> Apart(k, new)]
      app(k, clip) == [command |-> AppCommandOf(k, clip), new |-> AppKeyPressed(editor, k, clip),
                       apart |-> Adrift(buffer)]
      character(ch) == [command |-> Insertion(ch), new |-> CharacterTyped(editor, ch),
                        apart |-> FALSE]
  IN {key(k, KeyPressed(editor, k)) : k \in {k \in EditKeys : CommandOf(k) # NoCommand}}
       \cup {app(k, clip) : k \in AppKeys, clip \in Clips}
       \cup {character(ch) : ch \in Characters}

\* Apart from these, replaying the recorded command gives the same text,
\* cursor, selections and overtype mode as the key did, from every buffer:
\* macro capture describes the action the key was dispatched to.
CommandsFollow == \A i \in Inputs : i.apart \/ Follows(i.command, i.new)

\* Replaying the command recorded for a key does what the key did, and what is
\* cut is put back by a paste, from every buffer in which a key can be pressed:
\* a refused edit is reported first.
ReplayFollows == ~buffer.full => CommandsFollow /\ CutIsPasted

=============================================================================
