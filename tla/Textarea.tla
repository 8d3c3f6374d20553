------------------------------- MODULE Textarea -------------------------------
(***************************************************************************)
(* What a key or a mouse event does in the editor (src/src/tui.rs,         *)
(* textarea_handle_input), and what the macro command recorded for the     *)
(* same key does on replay (src/src/bin/edit/macros.rs).                   *)
(*                                                                         *)
(* An editor is a record [buf, column]: the buffer and the column that     *)
(* vertical movement aims for (preferred_column).  During replay that      *)
(* column is held by the replay itself and is Unset between vertical       *)
(* commands.                                                               *)
(***************************************************************************)
EXTENDS Editing

CONSTANT PageRows     \* rows that PageUp and PageDown move by

ASSUME TextareaAssumption == PageRows \in Nat

Unset == -1
Here(b) == PointAt(b.text, b.cursor)
At(x, y) == [x |-> x, y |-> y]
Carets(b) == Len(b.others) + 1

GoTo(b, o, extend) == IF extend THEN SelectTo(b, o) ELSE SetCursor(b, o)
GoToPoint(b, p, extend) == GoTo(b, OffsetAt(b.text, p), extend)

\* Most keys end by making the cursor's column the preferred one.
Settled(b) == [buf |-> b, column |-> Here(b).x]
\* PageUp, PageDown, Up and Down keep it, and so does a command that the
\* application runs before the textarea sees the key.
Keeping(e, b) == [e EXCEPT !.buf = b]

-----------------------------------------------------------------------------
(* Keys. *)

\* Left and Right.  With several carets all of them move, unless Alt is held.
SideKey(e, word, delta, extend, alt) ==
  LET b == e.buf
      to(r) == CASE extend \/ ~Wide(r) -> Moved(b.text, b.cursor, word, delta)
                 [] ~extend /\ Wide(r) /\ delta < 0 -> Low(r)
                 [] OTHER -> High(r)
  IN Settled(IF Carets(b) > 1 /\ ~alt THEN MoveCursors(b, word, delta, extend)
             ELSE GoTo(b, to(Primary(b)), extend))

\* Home and End.  Home stops at the end of the indentation first.
BoundaryKey(e, end, document, extend, alt) ==
  LET b == e.buf
      aim == CASE document /\ end -> At(Far, Far) [] document /\ ~end -> At(0, 0)
               [] OTHER -> At(IF end THEN Far ELSE 0, Here(b).y)
      again(there, indent, x) ==
        IF /\ ~document /\ ~end /\ Here(there).x = 0
           /\ Before(indent, Here(b)) \/ x = 0
        THEN GoToPoint(there, indent, extend) ELSE there
      home(there) == again(there, IndentEnd(there), Here(b).x)
  IN Settled(IF Carets(b) > 1 /\ ~alt /\ ~document THEN MoveCursorsBoundary(b, end, extend)
             ELSE home(GoToPoint(b, aim, extend)))

\* The end of the selection from which Up or Down goes on.
Edge(b, delta) ==
  LET of(r) == PointAt(b.text, IF delta < 0 THEN Low(r) ELSE High(r)) IN of(Primary(b))

\* Up and Down without a modifier or with Shift.
UpDownKey(e, delta, extend) ==
  LET b == e.buf
      land(there, past, x) == [buf |-> there, column |-> IF past THEN Here(there).x ELSE x]
      go(past, x, y) == land(GoToPoint(b, At(IF past THEN (IF delta < 0 THEN 0 ELSE Far) ELSE x, y),
                                       extend), past, x)
      from(x, y) == go(y + delta \notin 0..Rows(b.text) - 1, x, y + delta)
      start(p) == from(p.x, p.y)
  IN CASE Carets(b) > 1 -> Settled(MoveCursorsVertical(b, delta, extend))
       [] Carets(b) = 1 /\ ~extend /\ Selected(b) -> start(Edge(b, delta))
       [] OTHER -> from(e.column, Here(b).y)

\* PageUp and PageDown.
PageKey(e, delta, extend) ==
  LET b == e.buf
      past == IF delta < 0 THEN Here(b).y = 0 ELSE Here(b).y >= Rows(b.text) - 1
      aim == At(IF past THEN (IF delta < 0 THEN 0 ELSE Far) ELSE e.column,
                Here(b).y + delta * PageRows)
      land(there) ==
        [buf |-> there,
         column |-> IF ~past THEN e.column ELSE IF delta < 0 THEN 0 ELSE Here(there).x]
  IN land(GoToPoint(b, aim, extend))

\* A key is [key, mods].  What it means for those that share an action:
Keyed(keys, mods) == [key : keys, mods : mods]
Extends(k) == "shift" \in k.mods
ByWord(k) == "ctrl" \in k.mods
Alone(k) == "alt" \in k.mods
Backwards == {"Left", "Up", "Home", "Back", "PageUp"}
Delta(k) == IF k.key \in Backwards THEN -1 ELSE 1
Slope(k) == IF k.key \in {"Left", "Right"} THEN <<Delta(k), 0>> ELSE <<0, Delta(k)>>

EditKeys == Keyed({"Left", "Right"}, {{}, {"shift"}, {"ctrl"}, {"ctrl", "shift"}, {"alt"},
                                      {"alt", "shift"}})
  \cup Keyed({"Home", "End"}, {{}, {"shift"}, {"ctrl"}, {"ctrl", "shift"}, {"alt"}})
  \cup Keyed({"Up", "Down"}, {{}, {"shift"}, {"alt"}, {"alt", "shift"}, {"ctrl", "alt"}})
  \cup Keyed({"Back", "Delete"}, {{}, {"ctrl"}})
  \cup Keyed({"PageUp", "PageDown", "Tab"}, {{}, {"shift"}})
  \cup Keyed({"Return", "Escape", "Insert"}, {{}})
  \cup Keyed({"L"}, {{"ctrl"}}) \cup Keyed({"D"}, {{"ctrl", "alt"}})
\* Keys bound to a command of the application (shortcuts.rs).
AppKeys == Keyed({"Cut", "Copy", "Paste", "SelectAll", "Duplicate"}, {{}})

\* textarea_handle_input, for a key that is not a character.
KeyPressed(e, k) ==
  LET b == e.buf
      settled == CASE k.key = "Back" -> Backspace(b, ByWord(k))
                   [] k.key = "Delete" -> Delete(b, ByWord(k), 1)
                   [] k.key = "Tab" -> Indent(b, IF Extends(k) THEN -1 ELSE 1)
                   [] k.key = "Return" -> Write(b, <<NL>>, FALSE)
                   [] k.key = "Escape" -> ClearSelection(b)
                   [] k.key = "Insert" -> [b EXCEPT !.overtype = ~@]
                   [] k.key = "L" -> SelectLine(b)
                   [] k.key = "D" -> AddNext(b)
  IN CASE k.mods = {"alt", "shift"} -> Keeping(e, ExtendRectangle(b, Slope(k)[1], Slope(k)[2]))
       [] k.key \in {"Left", "Right"} /\ k.mods # {"alt", "shift"} ->
            SideKey(e, ByWord(k), Delta(k), Extends(k), Alone(k))
       [] k.key \in {"Home", "End"} ->
            BoundaryKey(e, k.key = "End", ByWord(k), Extends(k), Alone(k))
       [] k.key \in {"Up", "Down"} /\ ~Alone(k) -> UpDownKey(e, Delta(k), Extends(k))
       [] k.key \in {"Up", "Down"} /\ k.mods = {"alt"} -> Keeping(e, MoveLines(b, Delta(k)))
       [] k.key \in {"Up", "Down"} /\ k.mods = {"ctrl", "alt"} ->
            Keeping(e, AddCursor(b, Delta(k)))
       [] k.key \in {"PageUp", "PageDown"} -> PageKey(e, Delta(k), Extends(k))
       [] OTHER -> Settled(settled)

CharacterTyped(e, ch) == Settled(Write(e.buf, <<ch>>, FALSE))

\* handle_shortcuts: the application edits the buffer and consumes the key, so
\* that the textarea does not settle the column.
AppKeyPressed(e, k, clip) ==
  Keeping(e, CASE k.key = "Cut" -> CutCopy(e.buf, TRUE).b
               [] k.key = "Copy" -> CutCopy(e.buf, FALSE).b
               [] k.key = "Paste" -> Paste(e.buf, clip)
               [] k.key = "SelectAll" -> SelectAll(e.buf)
               [] k.key = "Duplicate" -> Duplicate(e.buf))

-----------------------------------------------------------------------------
(* The mouse.  An anchor is <<>>, or where the button went down:           *)
(* <<"line", number>> in the gutter, <<"corner", point>> for a rectangle.  *)

ClickText(b, p, clicks, mods) ==
  CASE "alt" \in mods -> AddCursorAt(b, p)
    [] clicks = 4 -> SelectAll(b)
    [] clicks = 3 -> SelectLine(b)
    [] clicks = 2 -> SelectWord(b)
    [] OTHER -> GoToPoint(b, p, "shift" \in mods)
\* The preferred column follows single clicks only.
ClickColumn(e, b, clicks, mods) ==
  [buf |-> b, column |-> IF clicks = 1 \/ "alt" \in mods THEN Here(b).x ELSE e.column]

DragText(b, p, anchor) ==
  IF anchor = <<>> THEN GoToPoint(b, p, TRUE) ELSE SelectRectangle(b, anchor[2], p)

\* The line under a row of the screen, and the one a gutter click starts from.
OnLine(anchor) == anchor # <<>> /\ anchor[1] = "line"
LineAt(b, row) == Smaller(Larger(row, 0), Rows(b.text) - 1)
GutterAnchor(b, row, extend, anchor) ==
  CASE ~extend -> LineAt(b, row) [] extend /\ OnLine(anchor) -> anchor[2]
    [] OTHER -> AnchorLine(b)

-----------------------------------------------------------------------------
(* Recording: the command for a key, or NoCommand, with which recording     *)
(* stops before the key is acted upon (command_from_key, macro_command).    *)

NoCommand == [command |-> "none"]
Insertion(ch) == [command |-> "Insert", text |-> <<ch>>, raw |-> FALSE]

CommandOf(k) ==
  CASE k.mods = {"alt", "shift"} ->
         [command |-> "Rectangle", dx |-> Slope(k)[1], dy |-> Slope(k)[2]]
    [] k.key \in {"Left", "Right"} /\ k.mods # {"alt", "shift"} ->
         [command |-> "Move", word |-> ByWord(k), delta |-> Delta(k), extend |-> Extends(k)]
    [] k.key \in {"Home", "End"} ->
         [command |-> "Boundary", end |-> k.key = "End", document |-> ByWord(k),
          extend |-> Extends(k)]
    [] k.key \in {"Up", "Down"} /\ k.mods = {"ctrl", "alt"} ->
         [command |-> "AddCursor", delta |-> Delta(k)]
    [] k.key \in {"Up", "Down"} /\ ~Alone(k) ->
         [command |-> "Vertical", delta |-> Delta(k), extend |-> Extends(k)]
    [] k.key \in {"Back", "Delete"} ->
         [command |-> "Delete", word |-> ByWord(k), delta |-> Delta(k)]
    [] k.key = "Tab" -> [command |-> "Indent", direction |-> IF Extends(k) THEN -1 ELSE 1]
    [] k.key = "Return" -> Insertion(NL)
    [] k.key = "Escape" -> [command |-> "ClearSelection"]
    [] k.key = "Insert" -> [command |-> "ToggleOvertype"]
    [] k.key = "L" -> [command |-> "SelectLine"]
    [] k.key = "D" -> [command |-> "AddNext"]
    [] OTHER -> NoCommand

AppCommandOf(k, clip) ==
  IF k.key = "Paste" THEN [command |-> "Paste", clip |-> clip] ELSE [command |-> k.key]

-----------------------------------------------------------------------------
(* Replay.  Apply is Command::apply; a vertical command is replayed by     *)
(* move_vertical with the column kept since the last one.                  *)

Boundary(b, end, document, extend) ==
  BoundaryKey(Settled(b), end, document, extend, FALSE).buf

Vertical(b, column, delta, extend) ==
  LET land(there, x, y) ==
        [buf |-> there,
         column |-> CASE y < 0 -> 0 [] y >= Rows(b.text) -> Here(there).x [] OTHER -> x]
      go(x, y) == land(GoToPoint(b, At(IF y < 0 THEN 0 ELSE IF y >= Rows(b.text) THEN Far ELSE x, y),
                                 extend), x, y)
      start(p) == go(p.x, p.y + delta)
  IN CASE Carets(b) > 1 -> [buf |-> MoveCursorsVertical(b, delta, extend), column |-> column]
       [] Carets(b) = 1 /\ ~extend /\ Selected(b) -> start(Edge(b, delta))
       [] OTHER -> start(IF column = Unset THEN Here(b) ELSE At(column, Here(b).y))

Apply(c, b) ==
  CASE c.command = "Insert" -> Write(b, c.text, c.raw)
    [] c.command = "Paste" -> Paste(b, c.clip)
    [] c.command = "Move" -> MoveCursors(b, c.word, c.delta, c.extend)
    [] c.command = "Boundary" -> Boundary(b, c.end, c.document, c.extend)
    [] c.command = "Delete" /\ c.delta = -1 -> Backspace(b, c.word)
    [] c.command = "Delete" /\ c.delta # -1 -> Delete(b, c.word, c.delta)
    [] c.command = "Indent" -> Indent(b, c.direction)
    [] c.command = "SelectAll" -> SelectAll(b)
    [] c.command = "SelectLine" -> SelectLine(b)
    [] c.command = "AddNext" -> AddNext(b)
    [] c.command = "AddCursor" -> AddCursor(b, c.delta)
    [] c.command = "Rectangle" -> ExtendRectangle(b, c.dx, c.dy)
    [] c.command = "ClearSelection" -> ClearSelection(b)
    [] c.command = "Duplicate" -> Duplicate(b)
    [] c.command = "Cut" -> CutCopy(b, TRUE).b
    [] c.command = "Copy" -> b
    [] c.command = "ToggleOvertype" -> [b EXCEPT !.overtype = ~@]

\* Mutant of ReplayStep: every vertical command starts from the cursor.
ReplayStepForgetting(c, r) ==
  IF c.command = "Vertical" THEN Vertical(r.buf, Unset, c.delta, c.extend)
  ELSE [buf |-> Apply(c, r.buf), column |-> Unset]

\* One round of the loop of replay, on [buf, column].
ReplayStep(c, r) ==
  IF c.command = "Vertical" THEN Vertical(r.buf, r.column, c.delta, c.extend)
  ELSE [buf |-> Apply(c, r.buf), column |-> Unset]
=============================================================================
