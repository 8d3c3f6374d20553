------------------------------- MODULE Framebuffer -------------------------------
(***************************************************************************)
(* The framebuffer.  A frame is drawn into the back buffer; rendering      *)
(* sends the terminal what changed since the frame before.  The terminal   *)
(* keeps its own screen, pen and cursor, and loses what it showed when it  *)
(* is resized.                                                             *)
(*                                                                         *)
(* Beside the buffers the model keeps a canvas: cells as the drawing       *)
(* operations leave them, without lines of text of varying length.  What   *)
(* the terminal shows after a frame must be the canvas.                    *)
(*                                                                         *)
(* A glyph is a character of one or two columns.  Coordinates count from   *)
(* 0, as in the code.                                                      *)
(***************************************************************************)
EXTENDS Integers, Sequences, FiniteSets

CONSTANTS
  Sizes,       \* [w, h]: of the terminal
  Texts,       \* sequences of glyphs that are written
  Colors,      \* "none" is zero, "dim" is translucent, the others are opaque
  Attributes,
  MaxDraws     \* bound: drawing operations in a frame

VARIABLES
  size,      \* of both buffers
  back, front,  \* the frame being drawn, and the one rendered last
  canvas,
  draws,     \* operations left, or -1 between frames
  screen,    \* the terminal: size, cells, cursor
  missed     \* the size of the terminal is not the one the program was told last

vars == <<size, back, front, canvas, draws, screen, missed>>

Wide == {"W", "V"}
WidthOf(g) == IF g \in Wide THEN 2 ELSE 1

Columns(s) == 0 .. s.w - 1
Rows(s) == 0 .. s.h - 1

\* Columns before glyph i of a line.
Before(line, i) ==
  LET f[k \in 1 .. Len(line) + 1] == IF k = 1 THEN 0 ELSE f[k - 1] + WidthOf(line[k - 1])
  IN f[i]

\* MeasurementConfig::goto_visual: the last glyph boundary that is not past x.
GotoVisual(line, x) ==
  LET ends == {i \in 0 .. Len(line) : Before(line, i + 1) <= x}
  IN CHOOSE i \in ends : \A j \in ends : j <= i

Smaller(m, n) == IF m < n THEN m ELSE n

\* LineBuffer::replace_text.  A text never starts left of the screen (Layout: clips).
ReplacedText(line, width, left, clip, new) ==
  LET layout == Smaller(clip, width) - left
      count == GotoVisual(new, layout)
      right == left + Before(new, count + 1)
      old == GotoVisual(line, left)
      past == LET n == GotoVisual(line, right)
              IN IF Before(line, n + 1) < right THEN Smaller(n + 1, Len(line)) ELSE n
      Spaces(n) == [i \in 1 .. n |-> " "]
  IN IF layout <= 0 \/ new = <<>> THEN line
     ELSE SubSeq(line, 1, old) \o Spaces(left - Before(line, old + 1))
            \o SubSeq(new, 1, count)
            \o Spaces(IF Before(line, past + 1) > right THEN Before(line, past + 1) - right ELSE 0)
            \o SubSeq(line, past + 1, Len(line))

\* StraightRgba::oklab_blend, and Bitmap::blend.
Blend(under, color) ==
  CASE color = "none" -> under
    [] color = "dim" -> IF under = "none" THEN "dim" ELSE "dark"
    [] OTHER -> color

\* format_color: the default color, a translucent one over it, or the color itself.
Format(ground, color) ==
  CASE color = "none" -> <<"default">>
    [] color = "dim" -> <<"over", ground>>
    [] OTHER -> <<"rgb", color>>

NoCursor == [y |-> -1, x |-> -1, overtype |-> FALSE]

Blank(s, fill) ==
  [text |-> [y \in Rows(s) |-> [x \in 1 .. s.w |-> " "]],
   bg |-> [y \in Rows(s) |-> [x \in Columns(s) |-> fill]],
   fg |-> [y \in Rows(s) |-> [x \in Columns(s) |-> fill]],
   attr |-> [y \in Rows(s) |-> [x \in Columns(s) |-> {}]],
   cursor |-> NoCursor]

\* A canvas cell: a glyph and which of its columns this is.
BlankCanvas(s) == [y \in Rows(s) |-> [x \in Columns(s) |-> <<" ", 0>>]]

\* External: a terminal after a resize shows what it likes.
Scrambled(s) ==
  [size |-> s, cursor |-> [NoCursor EXCEPT !.y = -2],
   cells |-> [y \in Rows(s) |-> [x \in Columns(s) |-> [glyph |-> <<"?", 0>>]]]]

Nothing == [w |-> 0, h |-> 0]

Init ==
  /\ size = Nothing /\ back = Blank(Nothing, "none") /\ front = back
  /\ canvas = BlankCanvas(Nothing) /\ draws = -1
  /\ screen \in {Scrambled(s) : s \in Sizes}
  /\ missed = TRUE

(***************************************************************************)
(* Drawing.                                                                *)
(***************************************************************************)
\* Mutant: the frame before is kept when the size is new.
FlipKeepingFront ==
  /\ draws = -1
  /\ size' = screen.size
  /\ front' = IF size' = size THEN front ELSE Blank(size', "none")
  /\ back' = Blank(size', "none")
  /\ canvas' = BlankCanvas(size')
  /\ draws' = MaxDraws /\ missed' = FALSE
  /\ UNCHANGED screen

\* flip: a new size makes both buffers anew, and the one before unlike any frame.
Flip ==
  /\ draws = -1
  /\ size' = screen.size
  /\ front' = IF size' = size THEN front
              ELSE [Blank(size', "never") EXCEPT !.cursor.y = -2]
  /\ back' = Blank(size', "none")
  /\ canvas' = BlankCanvas(size')
  /\ draws' = MaxDraws /\ missed' = FALSE
  /\ UNCHANGED screen

Drawing == draws > 0 /\ draws' = draws - 1 /\ UNCHANGED <<size, front, screen, missed>>

\* A glyph on the canvas: of a wide one that is cut a blank is left.
Put(row, x, g) ==
  LET cut == {c \in DOMAIN row :
                \/ c = x - 1 /\ row[c][1] \in Wide /\ row[c][2] = 0
                \/ c = x + WidthOf(g) /\ row[c][2] = 1}
  IN [c \in DOMAIN row |->
        IF c \in x .. x + WidthOf(g) - 1 THEN <<g, c - x>>
        ELSE IF c \in cut THEN <<" ", 0>> ELSE row[c]]

\* A text is written up to the first glyph that does not fit.  Where it starts inside a wide
\* glyph that one goes, even if nothing fits.
Painted(row, left, clip, new) ==
  LET start == IF row[left][1] \in Wide /\ row[left][2] = 1
               THEN [row EXCEPT ![left - 1] = <<" ", 0>>, ![left] = <<" ", 0>>] ELSE row
      f[i \in 0 .. Len(new)] ==
        IF i = 0 THEN [row |-> start, full |-> FALSE]
        ELSE LET b == f[i - 1]
                 x == left + Before(new, i)
             IN IF b.full \/ x + WidthOf(new[i]) > Smaller(clip, Cardinality(DOMAIN row))
                THEN [b EXCEPT !.full = TRUE]
                ELSE [row |-> Put(b.row, x, new[i]), full |-> FALSE]
  IN f[Len(new)].row

ReplaceText(y, left, clip, new) ==
  /\ Drawing
  /\ back' = [back EXCEPT !.text[y] = ReplacedText(@, size.w, left, clip, new)]
  /\ canvas' = [canvas EXCEPT ![y] = Painted(@, left, clip, new)]

Cells(row, columns, F(_)) == [x \in DOMAIN row |-> IF x \in columns THEN F(row[x]) ELSE row[x]]

\* blend_bg, blend_fg, replace_attr and reverse over columns of a row.
BlendBg(y, columns, color) ==
  /\ Drawing
  /\ back' = [back EXCEPT !.bg[y] = Cells(@, columns, LAMBDA c : Blend(c, color))]
  /\ UNCHANGED canvas

BlendFg(y, columns, color) ==
  /\ Drawing
  /\ back' = [back EXCEPT !.fg[y] = Cells(@, columns, LAMBDA c : Blend(c, color))]
  /\ UNCHANGED canvas

ReplaceAttr(y, columns, mask, attr) ==
  /\ Drawing
  /\ back' = [back EXCEPT !.attr[y] = Cells(@, columns, LAMBDA a : (a \ mask) \cup attr)]
  /\ UNCHANGED canvas

Reverse(y, columns) ==
  /\ Drawing
  /\ back' = [back EXCEPT
       !.bg[y] = [x \in DOMAIN @ |-> IF x \in columns THEN back.fg[y][x] ELSE @[x]],
       !.fg[y] = [x \in DOMAIN @ |-> IF x \in columns THEN back.bg[y][x] ELSE @[x]]]
  /\ UNCHANGED canvas

SetCursor(y, x, overtype) ==
  /\ Drawing
  /\ back' = [back EXCEPT !.cursor = [y |-> y, x |-> x, overtype |-> overtype]]
  /\ UNCHANGED canvas

(***************************************************************************)
(* Rendering, and the terminal (external) that is told.                    *)
(***************************************************************************)
Changed(y) ==
  \/ front.text[y] # back.text[y] \/ front.bg[y] # back.bg[y]
  \/ front.fg[y] # back.fg[y] \/ front.attr[y] # back.attr[y]

\* The glyph of a line that ends with column x.
EndingAt(line, x) == {i \in 1 .. Len(line) : Before(line, i + 1) = x + 1}

\* A terminal writes a glyph where it is, with its pen.
Write(t, g) ==
  LET row == t.cells[t.y]
      Has(c, part) == c \in DOMAIN row /\ row[c].glyph[2] = part /\ row[c].glyph[1] \in Wide
      Cell(c) == IF c \in t.x .. t.x + WidthOf(g) - 1 THEN [glyph |-> <<g, c - t.x>>, pen |-> t.pen]
                 ELSE IF (c = t.x - 1 /\ Has(c, 0)) \/ (c = t.x + WidthOf(g) /\ Has(c, 1))
                 THEN [row[c] EXCEPT !.glyph = <<" ", 0>>]
                 ELSE row[c]
  IN [t EXCEPT !.cells[t.y] = [c \in DOMAIN row |-> Cell(c)], !.x = @ + WidthOf(g)]

\* What a row sends: for each run of one style the pen, as far as it differs from the one sent
\* last, and the glyphs that end in the run.
SentRow(t0, y) ==
  LET line == back.text[y]
      f[x \in -1 .. size.w - 1] ==
        IF x = -1 THEN [t0 EXCEPT !.y = y, !.x = 0]
        ELSE
          LET t == f[x - 1]
              pen == [bg |-> IF t.last.bg = back.bg[y][x] THEN t.pen.bg
                             ELSE Format("bg", back.bg[y][x]),
                      fg |-> IF t.last.fg = back.fg[y][x] THEN t.pen.fg
                             ELSE Format("fg", back.fg[y][x]),
                      attr |-> (t.pen.attr \ (t.last.attr \ back.attr[y][x]))
                                 \cup (back.attr[y][x] \ t.last.attr)]
              styled == [t EXCEPT !.pen = pen,
                           !.last = [bg |-> back.bg[y][x], fg |-> back.fg[y][x],
                                     attr |-> back.attr[y][x]]]
              ending == EndingAt(line, x)
          IN IF ending = {} THEN styled ELSE Write(styled, line[CHOOSE i \in ending : TRUE])
  IN f[size.w - 1]

\* All rows that changed; the pen is reset before the first.
Sent ==
  LET start == [cells |-> screen.cells, y |-> 0, x |-> 0,
                pen |-> [bg |-> <<"default">>, fg |-> <<"default">>, attr |-> {}],
                last |-> [bg |-> "unset", fg |-> "unset", attr |-> {}]]
      f[y \in -1 .. size.h - 1] ==
        IF y = -1 THEN start ELSE IF Changed(y) THEN SentRow(f[y - 1], y) ELSE f[y - 1]
  IN f[size.h - 1]

Render ==
  /\ draws >= 0 /\ draws' = -1
  /\ LET wrote == \E y \in Rows(size) : Changed(y)
         sent == Sent
     IN screen' = [screen EXCEPT
          !.cells = sent.cells,
          !.cursor = IF ~wrote /\ back.cursor = front.cursor THEN @
                     ELSE IF back.cursor.y >= 0 THEN back.cursor ELSE NoCursor]
  /\ front' = back
  /\ UNCHANGED <<size, back, canvas, missed>>

\* The user resizes the window between two frames; the program is told before the next.
Resize ==
  /\ draws = -1 /\ ~missed
  /\ \E s \in Sizes \ {size} : screen' = Scrambled(s)
  /\ missed' = TRUE
  /\ UNCHANGED <<size, back, front, canvas, draws>>

Next ==
  \/ Flip \/ Render \/ Resize
  \/ \E y \in Rows(size), left \in Columns(size) :
       \/ \E clip \in left + 1 .. size.w, new \in Texts : ReplaceText(y, left, clip, new)
       \/ \E right \in left .. size.w - 1, c \in Colors :
            BlendBg(y, left .. right, c) \/ BlendFg(y, left .. right, c)
       \/ \E right \in left .. size.w - 1, attr \in SUBSET Attributes :
            ReplaceAttr(y, left .. right, IF attr = {} THEN Attributes ELSE attr, attr)
       \/ \E right \in left .. size.w - 1 : Reverse(y, left .. right)
       \/ \E overtype \in BOOLEAN : SetCursor(y, left, overtype)

Spec == Init /\ [][Next]_vars

-----------------------------------------------------------------------------
\* A glyph is shown in the style of its last column.
StyleAt(y, x) ==
  LET last == IF canvas[y][x][1] \in Wide /\ canvas[y][x][2] = 0 THEN x + 1 ELSE x
  IN [bg |-> Format("bg", back.bg[y][last]), fg |-> Format("fg", back.fg[y][last]),
      attr |-> back.attr[y][last]]

\* After a frame the terminal shows it, whatever it showed before: the rows that were left out
\* had not changed, a pen that was not set again was still right, glyphs that were cut or
\* clipped have left no column behind, and a resize was followed by all of it.
FrameIsShown ==
  draws = -1 /\ ~missed =>
    /\ \A y \in Rows(size) : \A x \in Columns(size) :
         screen.cells[y][x] = [glyph |-> canvas[y][x], pen |-> StyleAt(y, x)]
    /\ screen.cursor = back.cursor
==================================================================================
