----------------------------- MODULE ApplicationMC -----------------------------
(***************************************************************************)
(* The parts of the application around the documents, in one run: the      *)
(* terminal's input, the macro recorder, the screen, the workbench, the    *)
(* data views, and the settings.  Each behaviour exercises one part; the   *)
(* state of the others rests.                                              *)
(***************************************************************************)
EXTENDS TerminalInput, Tools, TLC

VARIABLES
  size, drawn, rendered, canvas, draws, screen, missed,
  source  \* of a data view: its kind and its text

-----------------------------------------------------------------------------
\* Every form of input: text of one, two and three bytes, a lone Escape, keys with and without
\* modifiers in each of their encodings, a paste, both mouse reports; and three that mean
\* nothing.
MCGestures ==
  LET Csi(bytes) == <<ESC, 91>> \o bytes
      Says(bytes, means) == [bytes |-> bytes, means |-> means]
      pasted == <<97, 10, 195, 169>>
  IN {Says(<<97>>, <<TextInput(<<97>>)>>),
      Says(<<195, 169>>, <<TextInput(<<195, 169>>)>>),
      Says(<<226, 130, 172>>, <<TextInput(<<226, 130, 172>>)>>),
      Says(<<ESC>>, <<Key(27, {})>>),
      Says(<<4>>, <<Key(68, {"ctrl"})>>),
      Says(<<ESC, 97>>, <<Key(65, {"alt"})>>),
      Says(Csi(<<49, 59, 53, 65>>), <<Key(38, {"ctrl"})>>),
      Says(<<ESC, 79, 80>>, <<Key(112, {})>>),
      Says(Csi(<<49, 53, 126>>), <<Key(116, {})>>),
      Says(Csi(<<50, 48, 48, 126>>) \o pasted \o Csi(<<50, 48, 49, 126>>), <<Paste(pasted)>>),
      Says(Csi(<<77, 32, 33, 195, 169>>), Mouse(<<0, 1, 201>>, FALSE)),
      Says(Csi(<<60, 54, 53, 59, 51, 59, 50, 77>>), Mouse(<<65, 3, 2>>, FALSE)),
      Says(Csi(<<55, 117>>), <<>>),
      Says(<<ESC, 93, 97, ESC, 92>>, <<>>),
      Says(<<ESC, 80, 97, ESC, 97, BEL>>, <<>>)}

\* Two colors, the cursor position and the device attributes; the colors end in BEL, as they
\* were asked for.
MCReplies ==
  <<ESC, 93, 97, BEL, ESC, 93, 98, BEL, ESC, 91, 49, 59, 51, 82, ESC, 91, 99>>

\* Two texts, of which one query finds one and the other both; only one of them is a table.
MCTexts == {"row", "prose"}
MCMatches == [narrow |-> {"row"}, wide |-> {"row", "prose"}]
MCTextLength == [a |-> 1, b |-> 2, c |-> 3]

\* A wide glyph alone and after a narrow one, on a row of three and on two rows.
Display == INSTANCE Framebuffer WITH
  Sizes <- {[w |-> 3, h |-> 1], [w |-> 1, h |-> 2]}, Texts <- {<<"W">>, <<"x", "W">>},
  Colors <- {"dim"}, Attributes <- {"bold"}, MaxDraws <- 2,
  back <- drawn, front <- rendered

Lay == INSTANCE Layout

\* Trees with a box in a stack, a table, and something that scrolls; every border, padding and
\* position of the box.
Trees ==
  LET Node(parent, kind) ==
        [parent |-> parent, kind |-> kind, border |-> FALSE, padding |-> 0,
         position |-> "stretch", size |-> {}, columns |-> <<>>]
      Label(parent, w, h) == [Node(parent, "text") EXCEPT !.size = {[w |-> w, h |-> h]}]
      roots == {[Node(0, "stack") EXCEPT !.border = b] : b \in BOOLEAN}
      boxes == {[Node(1, "stack") EXCEPT !.border = b, !.padding = p, !.position = at] :
                  b \in BOOLEAN, p \in 0 .. 1, at \in {"stretch", "left", "center", "right"}}
      Stacked(root, box, w, h) == <<root, box, Label(2, w, h), Label(1, 2, 1)>>
      Tabled(root, box, w, h) ==
        <<root, [Node(1, "table") EXCEPT !.border = box.border, !.columns = <<0, 3>>],
          Node(2, "row"), [Label(3, w, h) EXCEPT !.border = box.border, !.padding = box.padding],
          Label(3, 1, 1), Node(2, "row"), Label(6, 1, 1)>>
      Scrolling(root, box, w, h) ==
        <<root, [box EXCEPT !.kind = "scroll"], Node(2, "stack"), Label(3, w, h), Label(3, 1, 2)>>
  IN UNION {{Stacked(root, box, s[1], s[2]), Tabled(root, box, s[1], s[2]),
             Scrolling(root, box, s[1], s[2])} :
              root \in roots, box \in boxes, s \in {<<1, 2>>, <<3, 1>>}}

Views == INSTANCE DataLens WITH MaxRows <- 4, MaxCells <- 6, MaxDepth <- 2

\* What a source begins with; it goes on with any signs of its kind.
Sources == {<<"csv", <<>>>>, <<"csv", <<"B">>>>, <<"csv", <<"q", "x", "q", ",">>>>,
            <<"default", <<>>>>, <<"default", <<"T", " ">>>>, <<"levels", <<"x", "n">>>>,
            <<"json", <<>>>>, <<"json", <<"[", "z", ",">>>>}
SourceLength == 4
Signs == [csv |-> {",", "q", "r", "n", "x"}, default |-> {"T", "L", " ", "x", "r", "n"},
          levels |-> {"L", " ", "x", "r", "n"},
          json |-> {"[", "]", "{", "}", ",", ":", "s", "1", "z", "c"}]
Values(kind) == UNION {[1 .. n -> Signs[kind]] : n \in 0 .. 2}

WriteSource ==
  /\ Len(source.text) < SourceLength
  /\ \E sign \in Signs[source.kind] : source' = [source EXCEPT !.text = Append(@, sign)]

\* On the drive, "far" is another name of "near"; "raw" is a name that JSON cannot hold.  The
\* user writes what is no JSON, what is out of range, and a file with a list that is out of
\* order and a shortcut that a terminal cannot report.
UserContents ==
  LET Opened(path, time) == [path |-> path, opened_at |-> time]
  IN {[garbage |-> 1], [tab_size |-> 9],
      [edit_find |-> <<"shift", <<"char", 70>>>>,
       recent_files |-> <<Opened("near", 0), Opened("far", 1), Opened("", 1), Opened("near", 1)>>]}

MCIdentity == [near |-> "near", far |-> "near", raw |-> "raw", lost |-> "lost"]
MCLossy == [near |-> "near", far |-> "far", raw |-> "lost", lost |-> "lost"]

\* Two files, a pattern for one and a pattern for both; two languages, and one there is not.
MCMatching == "a.*" :> {"a.txt"} @@ "*.txt" :> {"a.txt", "b.txt"} @@ "" :> {}
MCRuleTexts ==
  {<<"broken">>} \cup
  ({"rules"} \X UNION {[1 .. n -> {"a.*", "*.txt", ""} \X {"rust", "plaintext", "klingon"}] :
                         n \in 0 .. 2})

displayVars == <<size, drawn, rendered, canvas, draws, screen, missed>>
allVars == <<vars, toolVars, displayVars, source>>

MCInit ==
  /\ part \in {"input", "work", "recorder", "display", "views", "settings", "rules"}
  /\ source \in {[kind |-> s[1], text |-> s[2]] : s \in Sources}
  /\ part # "views" => source = [kind |-> "csv", text |-> <<>>]
  /\ Init /\ ToolsInit /\ Display!Init
  /\ part # "work" => /\ DOMAIN docs = {} /\ fields = "wide"
                     /\ disk = [p \in Paths |-> "row"]
  /\ part # "display" => screen.size.w = 3
  /\ part # "settings" => attached

MCNext ==
  /\ UNCHANGED part
  /\ \/ part = "input" /\ Next /\ UNCHANGED <<toolVars, displayVars, source>>
     \/ ToolsNext /\ UNCHANGED <<vars, displayVars, source>>
     \/ part = "display" /\ Display!Next /\ UNCHANGED <<vars, toolVars, source>>
     \/ part = "views" /\ WriteSource /\ UNCHANGED <<vars, toolVars, displayVars>>

\* The threads of the workbench run; where another part is looked at, they have nothing to do.
MCSpec == MCInit /\ [][MCNext]_allVars /\ Work!Fairness

-----------------------------------------------------------------------------
\* Searches end and permits come back (Workbench: SearchesEnd).
SearchesEnd == Work!SearchesEnd

\* Input and answers arrive as they were sent, in whatever pieces (TerminalInput:
\* GesturesArrive, AnswersAreHeard).
InputIsUnderstood == part = "input" => GesturesArrive /\ AnswersAreHeard

\* What is written is what is read back, and nothing else changes: an edit changes the cell it
\* was made in and no other, whatever the source looks like; settings and shortcuts come back
\* (DataLens: ChangesOneCell, ColumnsDiffer; Settings: SettingsReturn, ShortcutsReturn).
WrittenReadsBack ==
  /\ part = "views" =>
       /\ Views!ChangesOneCell(source.kind, source.text, Values(source.kind))
       /\ source.text = <<>> => Views!ColumnsDiffer(99)
  /\ part = "settings" => Stored!SettingsReturn
  /\ part = "rules" /\ rules = <<>> => Stored!ShortcutsReturn

\* Everything has its place, on screens from far too small to ample, and a thumb its track.
LaidOut ==
  /\ \A t \in Trees, s \in {<<1, 1>>, <<4, 3>>, <<9, 5>>, <<9, 9>>}, scrolled \in {0, 3},
        float \in {{}, {[x |-> 2, y |-> 1, centered |-> TRUE]}} :
       LET viewport == Lay!Rect(0, 0, s[1], s[2])
           gap == [w |-> 1, h |-> 0]
       IN scrolled = 0 \/ t[2].kind = "scroll" =>
          \A place \in {Lay!Layout(t, viewport, gap, scrolled, float)} :
            /\ Lay!CutToItsPlace(t, viewport, place)
            /\ float = {} => Lay!HasItsRoom(t, viewport, gap, place)
            /\ Lay!ScrollsWithin(t, place)
  /\ \A rows \in 1 .. 5, content \in 1 .. 17, offset \in 0 .. 16 :
       offset <= content - rows => Lay!ThumbIsRight(rows, offset, content)

\* After a frame the terminal shows it (Framebuffer: FrameIsShown), and what is drawn in it has
\* its place and nothing beside it (Layout: CutToItsPlace, HasItsRoom, ScrollsWithin,
\* ThumbIsRight).
FrameIsShown ==
  part = "display" =>
    /\ Display!FrameIsShown
    /\ size.w = 0 /\ screen.size.w = 3 => LaidOut
=============================================================================
