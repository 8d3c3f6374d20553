---------------------------------- MODULE Layout ----------------------------------
(***************************************************************************)
(* Where the nodes of the interface come to lie.  A pass from the leaves   *)
(* gives every node its own size; a pass from the root hands out the       *)
(* screen.  The rest of the toolkit leans on the result: a text is never   *)
(* written left of the screen, a click belongs to one of two siblings, and *)
(* what does not fit is cut, not drawn over its neighbour.                 *)
(*                                                                         *)
(* A tree is a sequence of nodes, parents first; node 1 is the root:       *)
(*   [parent, kind, border, padding, position, size, columns]              *)
(* kind is "stack", "table" (its children are rows), "row", "scroll" (its  *)
(* one child is what scrolls) or "text"; size is the set of the one size a *)
(* node was given, or empty; columns are the widths given to a table.      *)
(* Offsets and gravity of a float are whole cells and halves here.         *)
(***************************************************************************)
EXTENDS Integers, Sequences, FiniteSets, FiniteSetsExt

Children(t, i) == {j \in DOMAIN t : t[j].parent = i}
Before(t, j) == {k \in Children(t, t[j].parent) : k < j}
Nth(t, j) == Cardinality(Before(t, j)) + 1

\* What a maximum that starts at 0 ends at.
Largest(S) == Max(S \cup {0})
Most(m, n) == IF m < n THEN n ELSE m
Least(m, n) == IF m < n THEN m ELSE n

\* Borders and padding on both sides, and the track right of what scrolls.
Around(n) == (2 * n.padding) + IF n.border THEN 2 ELSE 0
Track(n) == IF n.kind = "scroll" /\ ~n.border THEN 1 ELSE 0

\* intrinsic_to_outer.
Outside(n, size) == [w |-> size.w + Around(n) + Track(n), h |-> size.h + Around(n)]

(***************************************************************************)
(* compute_intrinsic_size.                                                 *)
(***************************************************************************)
Cells(t, table) == UNION {Children(t, row) : row \in Children(t, table)}
Given(t, table, c) == IF c \in DOMAIN t[table].columns THEN {t[table].columns[c]} ELSE {}
ColumnsOf(t, table) ==
  DOMAIN t[table].columns \cup {Nth(t, j) : j \in Cells(t, table)}
Gaps(n) == Largest({n - 1})

Sizes(t, gap) ==
  LET size[i \in DOMAIN t] ==
        LET out(j) == Outside(t[j], size[j])
            H(j) == out(j).h
            Column(c) == Largest(Given(t, t[i].parent, c)
                          \cup {out(j).w : j \in {k \in Cells(t, t[i].parent) : Nth(t, k) = c}})
            columns == ColumnsOf(t, t[i].parent)
            widest == Largest({out(j).w : j \in Children(t, i)})
            stacked == MapThenSumSet(H, Children(t, i))
        IN CASE t[i].size # {} -> CHOOSE s \in t[i].size : TRUE
             [] t[i].size = {} /\ t[i].kind = "row" ->
                  [w |-> MapThenSumSet(Column, columns) + (gap.w * Gaps(Cardinality(columns))),
                   h |-> Largest({H(j) : j \in Children(t, i)})]
             [] t[i].size = {} /\ t[i].kind = "table" ->
                  [w |-> widest, h |-> stacked + (gap.h * Gaps(Cardinality(Children(t, i))))]
             [] OTHER -> [w |-> widest, h |-> stacked]
  IN size

(***************************************************************************)
(* Rectangles.                                                             *)
(***************************************************************************)
Rect(l, t, r, b) == [left |-> l, top |-> t, right |-> r, bottom |-> b]
Nowhere == Rect(0, 0, 0, 0)
Empty(r) == r.left >= r.right \/ r.top >= r.bottom

\* Nothing in common is an empty rectangle, never a negative one.
Intersect(a, b) ==
  LET l == Most(a.left, b.left)
      t == Most(a.top, b.top)
  IN Rect(l, t, Most(l, Least(a.right, b.right)), Most(t, Least(a.bottom, b.bottom)))

\* outer_to_inner.
Inside(n, r) ==
  LET d == n.padding + IF n.border THEN 1 ELSE 0
  IN Rect(r.left + d, r.top + d, r.right - d - Track(n), r.bottom - d)

(***************************************************************************)
(* layout_children, as its child sees it.  A node has its outer and inner  *)
(* rectangle, both clipped, and the clip for its own children.             *)
(***************************************************************************)
Placed(n, outer, clip) ==
  LET inner == Inside(n, outer)
  IN [outer |-> outer, inner |-> inner, clip |-> clip,
      outerClipped |-> Intersect(outer, clip), innerClipped |-> Intersect(inner, clip)]

\* A node whose parent has no room is not laid out.
Unplaced ==
  [outer |-> Nowhere, inner |-> Nowhere, clip |-> Nowhere,
   outerClipped |-> Nowhere, innerClipped |-> Nowhere]

\* The left end and the width of a child of a stack.
Across(position, width, from) ==
  LET room == from.right - from.left
      left == CASE position \in {"stretch", "left"} -> from.left
                [] position = "center" -> from.left + (Most(room - width, 0) \div 2)
                [] position = "right" -> from.left + Most(room - width, 0)
  IN <<left, IF position = "stretch" THEN room ELSE width>>

\* A root that floats lies at its anchor, or where gravity pulls it, within the screen.
Floated(size, float, viewport) ==
  LET x == float.x - (IF float.centered THEN size.w \div 2 ELSE 0)
      y == float.y - (IF float.centered THEN size.h \div 2 ELSE 0)
  IN Intersect(Rect(x, y, x + size.w, y + size.h), viewport)

\* The root is the screen or floats over it; scrolled is the offset asked of what scrolls.
Layout(t, viewport, gap, scrolled, float) ==
  LET sizes == Sizes(t, gap)
      out(j) == Outside(t[j], sizes[j])
      Height(j) == out(j).h
      RowStep(row) == Largest({out(c).h : c \in Children(t, row)}) + gap.h
      Column(table, c) ==
        Largest(Given(t, table, c) \cup {out(j).w : j \in {k \in Cells(t, table) : Nth(t, k) = c}})
      InStack(i, from) ==
        LET x == Across(t[i].position, out(i).w, from)
            y == from.top + MapThenSumSet(Height, Before(t, i))
        IN Rect(x[1], y, x[1] + x[2], y + out(i).h)
      RowOf(i, from) ==
        LET y == from.top + MapThenSumSet(RowStep, Before(t, i))
        IN Rect(from.left, y, from.right, y + out(i).h)
      CellOf(i, from) ==
        LET row == t[i].parent
            ColumnStep(c) == Column(t[row].parent, c) + gap.w
            x == from.left + MapThenSumSet(ColumnStep, 1 .. Nth(t, i) - 1)
            y == from.top + MapThenSumSet(RowStep, Before(t, row))
        IN Rect(x, y, x + Column(t[row].parent, Nth(t, i)), y + out(i).h)
      Scrolled(i, from) ==
        LET room == from.bottom - from.top
            height == Most(sizes[i].h, room)
            y == from.top - Least(Most(scrolled, 0), height - room)
        IN Rect(from.left, y, from.right, y + height)
      place[i \in DOMAIN t] ==
        LET n == t[i]
            by == IF t[n.parent].kind = "row" THEN t[n.parent].parent ELSE n.parent
            from == place[by].inner
            within(r) == Placed(n, Intersect(r, from), place[by].clip)
            content == Placed(n, Scrolled(i, from), place[by].innerClipped)
            root == Placed(n, IF float = {} THEN viewport
                              ELSE Floated(out(1), CHOOSE f \in float : TRUE, viewport), viewport)
        IN IF i = 1 THEN [root EXCEPT !.clip = root.outer, !.innerClipped = root.inner]
           ELSE IF Empty(from) THEN Unplaced
           ELSE CASE t[by].kind = "scroll" -> [content EXCEPT !.clip = content.innerClipped]
                  [] t[by].kind = "table" /\ by = n.parent -> within(RowOf(i, from))
                  [] t[by].kind = "table" /\ by # n.parent -> within(CellOf(i, from))
                  [] OTHER -> within(InStack(i, from))
  IN place

(***************************************************************************)
(* draw_scrollbar: the eighths of cells the thumb covers, in a track from  *)
(* row 0 of so many rows.  Nothing is drawn when all of the content shows. *)
(***************************************************************************)
Thumb(rows, offset, content) ==
  LET over == content - rows
      at == Least(Most(offset, 0), over)
      height == Most(((64 * rows * rows) + (4 * content)) \div (8 * content), 8)
      top == (((8 * rows) - height) * 8 * at + (4 * over)) \div (8 * over)
  IN top .. top + height - 1

\* What is drawn for it: full blocks, and a block of eighths at either end.
Blocks(thumb) ==
  LET top == Min(thumb)
      bottom == Max(thumb) + 1
  IN [full |-> (top + 7) \div 8 .. (bottom \div 8) - 1,
      first |-> IF top % 8 = 0 THEN {} ELSE {[row |-> ((top + 7) \div 8) - 1, low |-> 8 - (top % 8)]},
      last |-> IF bottom % 8 = 0 THEN {} ELSE {[row |-> bottom \div 8, high |-> bottom % 8]}]

\* The eighths a reader sees.
Seen(blocks) ==
  {e \in 0 .. (8 * 64) : e \div 8 \in blocks.full}
    \cup UNION {((8 * b.row) + 8 - b.low) .. ((8 * b.row) + 7) : b \in blocks.first}
    \cup UNION {(8 * b.row) .. ((8 * b.row) + b.high - 1) : b \in blocks.last}

-----------------------------------------------------------------------------
Within(a, b) ==
  Empty(a) \/ (b.left <= a.left /\ b.top <= a.top /\ a.right <= b.right /\ a.bottom <= b.bottom)

\* Nothing is drawn outside the screen or outside what holds it, and of two siblings no cell of
\* the screen belongs to both.
CutToItsPlace(t, viewport, place) ==
  /\ \A i \in DOMAIN t : Within(place[i].innerClipped, place[i].outerClipped)
                          /\ Within(place[i].outerClipped, viewport)
  /\ \A i \in DOMAIN t \ {1} :
       /\ Within(place[i].outerClipped, place[IF t[t[i].parent].kind = "row"
                                              THEN t[t[i].parent].parent
                                              ELSE t[i].parent].innerClipped)
       /\ \A j \in Children(t, t[i].parent) \ {i} :
            Empty(Intersect(place[i].outerClipped, place[j].outerClipped))

\* On a screen that has room for the root, every text has the room it asked for: no border,
\* padding, gap or track was forgotten on the way up.
HasItsRoom(t, viewport, gap, place) ==
  LET root == Outside(t[1], Sizes(t, gap)[1])
  IN root.w <= viewport.right /\ root.h <= viewport.bottom =>
       \A i \in DOMAIN t : t[i].kind = "text" =>
         \A s \in t[i].size :
           /\ s.w <= place[i].inner.right - place[i].inner.left
           /\ s.h <= place[i].inner.bottom - place[i].inner.top

\* What scrolls covers the area it scrolls in, wherever it was scrolled to.
ScrollsWithin(t, place) ==
  \A i \in DOMAIN t \ {1} :
    t[t[i].parent].kind = "scroll" /\ ~Empty(place[t[i].parent].inner) =>
      Within(place[t[i].parent].inner, place[i].outer)

\* The thumb stays in its track, is never less than a row, touches an end only when there is
\* nothing more that way, and is drawn to the eighth of a cell.
ThumbIsRight(rows, offset, content) ==
  LET thumb == Thumb(rows, offset, content)
  IN content > rows =>
       /\ thumb \subseteq 0 .. (8 * rows) - 1
       /\ Cardinality(thumb) >= 8
       /\ offset = 0 => 0 \in thumb
       /\ offset = content - rows => (8 * rows) - 1 \in thumb
       /\ Seen(Blocks(thumb)) = thumb
=============================================================================
