---------------------------- MODULE Editing_proofs ----------------------------
(***************************************************************************)
(* The editor under keys, mouse and clipboard: its buffer stays valid,     *)
(* writing with several carets replaces all selections at once, a replayed *)
(* macro does what its keys did, and what is cut is put back by a paste.   *)
(*                                                                         *)
(* From the bottom up: positions in a text, ranges and their joining, the  *)
(* buffer, moves, edits, the commands, what a write does with all carets,  *)
(* keys and mouse, what a replay does, cut and paste, and the theorems.    *)
(***************************************************************************)
EXTENDS MacroReplay, Splicing_proofs, FiniteSetTheorems, TLAPS

LOCAL INSTANCE SequencesExt
LOCAL INSTANCE FiniteSetsExt

-----------------------------------------------------------------------------
(***************************************************************************)
(* Least and greatest members                                              *)
(***************************************************************************)
\* A set of numbers that is not empty has a least member.
LEMMA MinIn ==
  ASSUME NEW S \in SUBSET Nat, S # {}
  PROVE  Min(S) \in S /\ \A j \in S : Min(S) <= j
<1>1. \E k \in S : \A j \in S : k <= j
  BY LeastExists
<1> QED BY <1>1 DEF Min

\* A set of numbers up to n has a greatest member.
LEMMA MaxIn ==
  ASSUME NEW n \in Nat, NEW S \in SUBSET (0..n), S # {}
  PROVE  Max(S) \in S /\ \A j \in S : j <= Max(S)
<1> DEFINE T == {n - k : k \in S}
<1>1. T \in SUBSET Nat /\ T # {}
  <2>1. \A k \in S : n - k \in Nat
    OBVIOUS
  <2>2. PICK k \in S : TRUE
    OBVIOUS
  <2>3. n - k \in T
    OBVIOUS
  <2> QED BY <2>1, <2>3
<1>2. PICK m \in T : \A j \in T : m <= j
  <2> HIDE DEF T
  <2> QED BY <1>1, LeastExists
<1>3. PICK k \in S : m = n - k
  BY <1>2
<1>4. ASSUME NEW j \in S PROVE k >= j
  <2>1. n - j \in T
    OBVIOUS
  <2>2. m <= n - j
    BY <2>1, <1>2
  <2> QED BY <2>2, <1>3
<1>5. \E x \in S : \A j \in S : x >= j
  BY <1>4
<1>6. Max(S) \in S /\ \A j \in S : Max(S) >= j
  BY <1>5 DEF Max
<1> QED BY <1>6

\* The lesser and the larger of two numbers.
LEMMA Lesser ==
  ASSUME NEW i \in Int, NEW j \in Int
  PROVE  /\ Smaller(i, j) \in {i, j} /\ Smaller(i, j) <= i /\ Smaller(i, j) <= j
         /\ Larger(i, j) \in {i, j} /\ i <= Larger(i, j) /\ j <= Larger(i, j)
BY DEF Smaller, Larger

-----------------------------------------------------------------------------
(***************************************************************************)
(* Rows and points                                                         *)
(***************************************************************************)
Documents == Seq(Chars)
Point == [x : Int, y : Int]

\* How many breaks there are up to an offset.
LEMMA BreaksUpTo ==
  ASSUME NEW t \in Documents, NEW o \in Int
  PROVE  LET B == {i \in Breaks(t) : i <= o}
         IN /\ IsFiniteSet(B) /\ Cardinality(B) \in Nat /\ RowAt(t, o) = Cardinality(B)
            /\ IsFiniteSet(Breaks(t)) /\ Cardinality(B) < Rows(t)
<1>1. Breaks(t) \subseteq 1..Len(t) /\ Len(t) \in Nat
  BY DEF Breaks, Documents
<1>2. IsFiniteSet(Breaks(t))
  <2>1. IsFiniteSet(1..Len(t))
    BY <1>1, FS_Interval
  <2> QED BY <1>1, <2>1, FS_Subset
<1> DEFINE B == {i \in Breaks(t) : i <= o}
<1>3. B \subseteq Breaks(t)
  OBVIOUS
<1> HIDE DEF B
<1>4. IsFiniteSet(B) /\ Cardinality(B) <= Cardinality(Breaks(t))
  BY <1>2, <1>3, FS_Subset
<1>5. Cardinality(B) \in Nat /\ Cardinality(Breaks(t)) \in Nat
  BY <1>4, <1>2, FS_CardinalityType
<1> QED BY <1>2, <1>4, <1>5 DEF B, RowAt, Rows

\* An offset lies in one of the rows.
LEMMA RowType ==
  ASSUME NEW t \in Documents, NEW o \in Int
  PROVE  RowAt(t, o) \in Nat /\ RowAt(t, o) < Rows(t) /\ Rows(t) \in Nat /\ 0 < Rows(t)
<1>1. RowAt(t, o) \in Nat /\ RowAt(t, o) < Rows(t) /\ IsFiniteSet(Breaks(t))
  BY BreaksUpTo
<1>2. Cardinality(Breaks(t)) \in Nat
  BY <1>1, FS_CardinalityType
<1> QED BY <1>1, <1>2 DEF Rows

\* Rows go up with offsets; a break between two offsets parts their rows, and
\* without one they are in the same.
LEMMA RowsRise ==
  ASSUME NEW t \in Documents, NEW o \in Int, NEW p \in Int, o <= p
  PROVE  /\ RowAt(t, o) <= RowAt(t, p)
         /\ (\E i \in Breaks(t) : o < i /\ i <= p) => RowAt(t, o) < RowAt(t, p)
         /\ (\A i \in Breaks(t) : ~(o < i /\ i <= p)) => RowAt(t, o) = RowAt(t, p)
<1> DEFINE B(q) == {i \in Breaks(t) : i <= q}
<1>1. /\ IsFiniteSet(B(o)) /\ RowAt(t, o) = Cardinality(B(o)) /\ Cardinality(B(o)) \in Nat
      /\ IsFiniteSet(B(p)) /\ RowAt(t, p) = Cardinality(B(p)) /\ Cardinality(B(p)) \in Nat
  BY BreaksUpTo
<1>2. B(o) \subseteq B(p)
  BY DEF Breaks
<1>3. Cardinality(B(o)) <= Cardinality(B(p))
  <2> HIDE DEF B
  <2> QED BY <1>1, <1>2, FS_Subset
<1>4. ASSUME NEW i \in Breaks(t), o < i, i <= p PROVE Cardinality(B(o)) < Cardinality(B(p))
  <2>1. i \in B(p) /\ i \notin B(o)
    BY <1>4 DEF Breaks
  <2> HIDE DEF B
  <2>2. Cardinality(B(o)) = Cardinality(B(p)) => B(o) = B(p)
    BY <1>1, <1>2, FS_Subset
  <2> QED BY <2>1, <2>2, <1>3, <1>1
<1>5. (\A i \in Breaks(t) : ~(o < i /\ i <= p)) => B(o) = B(p)
  BY DEF Breaks
<1> HIDE DEF B
<1> QED BY <1>1, <1>3, <1>4, <1>5

\* A row's first and last offset around an offset in it.
LEMMA RowBounds ==
  ASSUME NEW t \in Documents, NEW o \in 0..Len(t)
  PROVE  /\ RowStart(t, o) \in 0..o /\ RowEnd(t, o) \in o..Len(t)
         /\ RowStart(t, o) = 0 \/ RowStart(t, o) \in Breaks(t)
         /\ \A i \in Breaks(t) : i <= RowStart(t, o) \/ i > RowEnd(t, o)
         /\ RowEnd(t, o) = Len(t) \/ RowEnd(t, o) + 1 \in Breaks(t)
<1>1. Breaks(t) \subseteq 1..Len(t) /\ Len(t) \in Nat
  BY DEF Breaks, Documents
<1> DEFINE S == {0} \cup {i \in Breaks(t) : i <= o}
           E == {Len(t)} \cup {i - 1 : i \in {j \in Breaks(t) : j > o}}
<1>2. S \in SUBSET (0..o) /\ S # {} /\ o \in Nat
  BY <1>1
<1>3. E \in SUBSET Nat /\ E # {}
  BY <1>1
<1>4. RowStart(t, o) = Max(S) /\ RowEnd(t, o) = Min(E)
  BY DEF RowStart, RowEnd
<1>5. Max(S) \in S /\ \A j \in S : j <= Max(S)
  <2> HIDE DEF S
  <2> QED BY <1>2, MaxIn
<1>6. Min(E) \in E /\ \A j \in E : Min(E) <= j
  <2> HIDE DEF E
  <2> QED BY <1>3, MinIn
<1> DEFINE lo == Max(S) hi == Min(E)
<1> HIDE DEF lo, hi
<1>7. lo \in 0..o /\ (lo = 0 \/ lo \in Breaks(t))
  BY <1>5, <1>2 DEF lo
<1>8. hi \in o..Len(t) /\ (hi = Len(t) \/ hi + 1 \in Breaks(t))
  BY <1>6, <1>1 DEF hi
<1>9. ASSUME NEW i \in Breaks(t) PROVE i <= lo \/ i > hi
  <2>1. CASE i <= o
    BY <2>1, <1>5 DEF lo
  <2>2. CASE i > o
    <3>1. i - 1 \in E
      BY <2>2
    <3>2. hi <= i - 1
      BY <3>1, <1>6 DEF hi
    <3> QED BY <3>2, <1>1, <1>8
  <2> QED BY <2>1, <2>2, <1>1
<1> QED BY <1>4, <1>7, <1>8, <1>9 DEF lo, hi

\* Every row has an offset.
LEMMA RowExists ==
  ASSUME NEW t \in Documents, NEW y \in Nat, y < Rows(t)
  PROVE  \E o \in 0..Len(t) : RowAt(t, o) = y
<1>1. Breaks(t) \subseteq 1..Len(t) /\ Len(t) \in Nat
  BY DEF Breaks, Documents
<1> DEFINE S == {o \in 0..Len(t) : \A z \in 0..RowAt(t, o) : \E q \in 0..Len(t) : RowAt(t, q) = z}
<1>2. 0 \in S
  <2>1. {i \in Breaks(t) : i <= 0} = {}
    BY <1>1
  <2>2. RowAt(t, 0) = 0
    BY <2>1, FS_EmptySet DEF RowAt
  <2> QED BY <2>2, <1>1
<1>3. ASSUME NEW o \in 1..Len(t), o - 1 \in S PROVE o \in S
  <2>1. RowAt(t, o) \in Nat /\ RowAt(t, o - 1) \in Nat
    BY RowType, <1>1
  <2>2. RowAt(t, o) <= RowAt(t, o - 1) + 1
    <3> DEFINE A == {i \in Breaks(t) : i <= o - 1}
               B == {i \in Breaks(t) : i <= o}
    <3>1. /\ IsFiniteSet(A) /\ RowAt(t, o - 1) = Cardinality(A)
          /\ IsFiniteSet(B) /\ RowAt(t, o) = Cardinality(B)
      BY BreaksUpTo, <1>1
    <3>2. B \subseteq A \cup {o}
      BY <1>1
    <3> HIDE DEF A, B
    <3>3. IsFiniteSet(A \cup {o}) /\ Cardinality(A \cup {o}) <= Cardinality(A) + 1
      <4>1. Cardinality(A) \in Nat
        BY <3>1, FS_CardinalityType
      <4>2. /\ IsFiniteSet(A \cup {o})
            /\ Cardinality(A \cup {o}) = IF o \in A THEN Cardinality(A) ELSE Cardinality(A) + 1
        BY <3>1, FS_AddElement
      <4> QED BY <4>1, <4>2
    <3>4. Cardinality(B) <= Cardinality(A \cup {o})
      BY <3>2, <3>3, FS_Subset
    <3>5. Cardinality(A \cup {o}) \in Nat
      BY <3>3, FS_CardinalityType
    <3> QED BY <3>1, <3>3, <3>4, <3>5, <2>1
  <2>3. ASSUME NEW z \in 0..RowAt(t, o) PROVE \E q \in 0..Len(t) : RowAt(t, q) = z
    <3>1. CASE z = RowAt(t, o)
      BY <3>1
    <3>2. CASE z # RowAt(t, o)
      <4>1. z \in 0..RowAt(t, o - 1)
        BY <3>2, <2>1, <2>2
      <4> QED BY <4>1, <1>3
    <3> QED BY <3>1, <3>2
  <2> QED BY <2>3
<1>4. Len(t) \in S
  <2>1. \A o \in 0..Len(t) : o \in S
    <3> HIDE DEF S
    <3> QED BY <1>1, <1>2, <1>3, Induction
  <2> QED BY <2>1, <1>1
<1>5. y \in 0..RowAt(t, Len(t))
  <2>1. {i \in Breaks(t) : i <= Len(t)} = Breaks(t)
    BY <1>1
  <2>2. RowAt(t, Len(t)) = Cardinality(Breaks(t)) /\ RowAt(t, Len(t)) \in Nat
    <3>1. RowAt(t, Len(t)) \in Nat
      BY RowType, <1>1
    <3> QED BY <2>1, <3>1 DEF RowAt
  <2> QED BY <2>2 DEF Rows
<1> QED BY <1>4, <1>5

\* The start of a row: the first offset in it.
LEMMA LineStartIs ==
  ASSUME NEW t \in Documents, NEW y \in Nat, y < Rows(t)
  PROVE  /\ LineStart(t, y) \in 0..Len(t) /\ RowAt(t, LineStart(t, y)) = y
         /\ \A o \in 0..Len(t) : RowAt(t, o) = y => LineStart(t, y) <= o
<1> DEFINE S == {o \in 0..Len(t) : RowAt(t, o) = y}
<1>1. S # {}
  BY RowExists
<1>2. S \in SUBSET Nat
  OBVIOUS
<1>3. Min(S) \in S /\ \A j \in S : Min(S) <= j
  <2> HIDE DEF S
  <2> QED BY <1>1, <1>2, MinIn
<1>4. LineStart(t, y) = Min(S)
  BY DEF LineStart
<1> QED BY <1>3, <1>4

\* The row of an offset starts where RowStart says.
LEMMA RowStartIs ==
  ASSUME NEW t \in Documents, NEW o \in 0..Len(t)
  PROVE  LineStart(t, RowAt(t, o)) = RowStart(t, o) /\ RowAt(t, RowStart(t, o)) = RowAt(t, o)
<1> DEFINE s == RowStart(t, o) y == RowAt(t, o) l == LineStart(t, y)
<1>0. Len(t) \in Nat
  BY DEF Documents
<1>1. /\ s \in 0..o /\ (s = 0 \/ s \in Breaks(t))
      /\ \A i \in Breaks(t) : i <= s \/ i > o
  <2>1. RowEnd(t, o) \in o..Len(t)
    BY RowBounds
  <2>2. \A i \in Breaks(t) : i \in Int
    BY <1>0 DEF Breaks
  <2> QED BY RowBounds, <2>1, <2>2, <1>0
<1>2. \A i \in Breaks(t) : ~(s < i /\ i <= o)
  BY <1>1, <1>0 DEF Breaks
<1>3. RowAt(t, s) = RowAt(t, o)
  BY <1>1, <1>2, RowsRise
<1>4. y \in Nat /\ y < Rows(t)
  BY RowType
<1>5. /\ l \in 0..Len(t) /\ RowAt(t, l) = y
      /\ \A q \in 0..Len(t) : RowAt(t, q) = y => l <= q
  BY <1>4, LineStartIs
<1>6. s \in 0..Len(t)
  BY <1>1, <1>0
<1>7. l <= s
  BY <1>5, <1>6, <1>3
<1>8. ASSUME l < s PROVE FALSE
  <2>1. s \in Breaks(t)
    BY <1>8, <1>1, <1>5
  <2>2. RowAt(t, l) < RowAt(t, s)
    <3>1. l \in Int /\ s \in Int /\ l <= s
      BY <1>5, <1>6, <1>7
    <3> HIDE DEF l, s
    <3> QED BY <3>1, <2>1, <1>8, RowsRise
  <2> QED BY <2>2, <1>3, <1>5, <1>4
<1>9. l = s
  BY <1>5, <1>6, <1>7, <1>8
<1> QED BY <1>9, <1>3

\* A point leads to an offset in the text, and in its own row if there is such a row.
LEMMA OffsetType ==
  ASSUME NEW t \in Documents, NEW p \in Point
  PROVE  OffsetAt(t, p) \in 0..Len(t)
<1>0. Len(t) \in Nat /\ p.x \in Int /\ p.y \in Int
  BY DEF Documents, Point
<1>1. CASE p.y >= Rows(t)
  BY <1>0, <1>1 DEF OffsetAt
<1>2. CASE ~(p.y >= Rows(t))
  <2> DEFINE y == Larger(p.y, 0)
             s == LineStart(t, y)
  <2>1. Rows(t) \in Nat /\ 0 < Rows(t)
    BY RowType
  <2>2. y \in Nat /\ y < Rows(t)
    BY <2>1, <1>2, <1>0 DEF Larger
  <2>3. s \in 0..Len(t)
    BY <2>2, LineStartIs
  <2> HIDE DEF s
  <2>4. RowEnd(t, s) \in s..Len(t)
    BY <2>3, RowBounds
  <2>5. s + Larger(p.x, 0) \in Int /\ s + Larger(p.x, 0) >= s
    BY <2>3, <1>0 DEF Larger
  <2>6. Smaller(s + Larger(p.x, 0), RowEnd(t, s)) \in 0..Len(t)
    BY <2>3, <2>4, <2>5, <1>0 DEF Smaller
  <2> QED BY <2>6, <1>2 DEF OffsetAt, s
<1> QED BY <1>1, <1>2

\* The point of an offset.
LEMMA PointType ==
  ASSUME NEW t \in Documents, NEW o \in 0..Len(t)
  PROVE  PointAt(t, o) \in Point /\ PointAt(t, o).x = o - RowStart(t, o)
         /\ PointAt(t, o).y = RowAt(t, o) /\ PointAt(t, o).x \in Nat /\ PointAt(t, o).y \in Nat
<1>0. Len(t) \in Nat
  BY DEF Documents
<1>1. RowStart(t, o) \in 0..o
  BY RowBounds
<1>2. RowAt(t, o) \in Nat
  BY RowType
<1> QED BY <1>0, <1>1, <1>2 DEF PointAt, Point

\* The point of an offset leads back to it.
LEMMA OffsetOfPoint ==
  ASSUME NEW t \in Documents, NEW o \in 0..Len(t)
  PROVE  OffsetAt(t, PointAt(t, o)) = o
<1> DEFINE p == PointAt(t, o) s == RowStart(t, o)
<1>0. Len(t) \in Nat
  BY DEF Documents
<1>1. p.x = o - s /\ p.y = RowAt(t, o) /\ p.y \in Nat
  BY PointType
<1>2. p.y < Rows(t) /\ Rows(t) \in Nat
  BY <1>1, RowType
<1>3. LineStart(t, p.y) = s
  BY <1>1, RowStartIs
<1>4. s \in 0..o
  BY RowBounds
<1>5. RowEnd(t, s) \in s..Len(t) /\ (RowEnd(t, s) = Len(t) \/ RowEnd(t, s) + 1 \in Breaks(t))
  BY <1>4, <1>0, RowBounds
<1>6. RowEnd(t, s) >= o
  <2>1. SUFFICES ASSUME RowEnd(t, s) < o PROVE FALSE
    BY <1>5, <1>0
  <2>2. RowEnd(t, s) + 1 \in Breaks(t)
    BY <2>1, <1>5, <1>0
  <2>3. RowEnd(t, s) + 1 > s /\ RowEnd(t, s) + 1 <= o
    BY <2>1, <1>5, <1>4
  <2>4. RowAt(t, s) < RowAt(t, o)
    BY <2>2, <2>3, <1>4, RowsRise
  <2> QED BY <2>4, RowStartIs, RowType
<1> HIDE DEF p, s
<1>7. Larger(p.y, 0) = p.y /\ Larger(p.x, 0) = o - s
  BY <1>1, <1>4 DEF Larger
<1>8. Smaller(s + (o - s), RowEnd(t, s)) = o
  BY <1>4, <1>5, <1>6 DEF Smaller
<1>9. OffsetAt(t, p) = o
  BY <1>2, <1>3, <1>7, <1>8, <1>1 DEF OffsetAt
<1> QED BY <1>9 DEF p

Spans == Nat \X Nat
Inside(t, r) == r[1] <= Len(t) /\ r[2] <= Len(t)

\* The points of a range lead back to it, and are one point when it is empty.
LEMMA PointsBack ==
  ASSUME NEW t \in Documents, NEW r \in Spans, Inside(t, r)
  PROVE  /\ Points(t, r) \in Point \X Point /\ Offsets(t, Points(t, r)) = r
         /\ Points(t, r)[1] = Points(t, r)[2] <=> r[1] = r[2]
<1>1. r[1] \in 0..Len(t) /\ r[2] \in 0..Len(t) /\ r = <<r[1], r[2]>>
  BY DEF Spans, Inside, Documents
<1>2. PointAt(t, r[1]) \in Point /\ PointAt(t, r[2]) \in Point
  BY <1>1, PointType
<1>3. OffsetAt(t, PointAt(t, r[1])) = r[1] /\ OffsetAt(t, PointAt(t, r[2])) = r[2]
  BY <1>1, OffsetOfPoint
<1> QED BY <1>1, <1>2, <1>3 DEF Points, Offsets

\* A row with its newline is a range in the text.
LEMMA LineRangeType ==
  ASSUME NEW t \in Documents, NEW y \in Nat, y < Rows(t)
  PROVE  LineRange(t, y) \in Spans /\ Inside(t, LineRange(t, y))
<1>0. Len(t) \in Nat
  BY DEF Documents
<1>1. LineStart(t, y) \in 0..Len(t)
  BY LineStartIs
<1>2. [x |-> 0, y |-> y + 1] \in Point
  BY DEF Point
<1>3. OffsetAt(t, [x |-> 0, y |-> y + 1]) \in 0..Len(t)
  BY <1>2, OffsetType
<1> QED BY <1>0, <1>1, <1>3 DEF LineRange, Spans, Inside

\* The start of the next line is an offset of the text.
LEMMA NextLineStartType ==
  ASSUME NEW t \in Documents, NEW o \in 0..Len(t)
  PROVE  NextLineStart(t, o) \in 0..Len(t)
<1>0. Len(t) \in Nat
  BY DEF Documents
<1>1. RowAt(t, o) \in Nat /\ Rows(t) \in Nat
  BY RowType
<1>2. RowStart(t, o) \in 0..Len(t)
  BY RowBounds, <1>0
<1> DEFINE y == RowAt(t, o) + 1
<1>3. y < Rows(t) => LineStart(t, y) \in 0..Len(t)
  BY <1>1, LineStartIs
<1>4. NextLineStart(t, o) = CASE y < Rows(t) -> LineStart(t, y)
                              [] y >= Rows(t) /\ o = Len(t) -> o
                              [] OTHER -> RowStart(t, o)
  BY DEF NextLineStart
<1> QED BY <1>1, <1>2, <1>3, <1>4

-----------------------------------------------------------------------------
(***************************************************************************)
(* Indentation and words                                                   *)
(***************************************************************************)
\* The indentation at an offset is of spaces and lies in the text.
LEMMA IndentationType ==
  ASSUME NEW t \in Documents, NEW o \in 0..Len(t), NEW most \in Int
  PROVE  LET k == Indentation(t, o, most)
         IN k \in Nat /\ o + k <= Len(t) /\ k <= Larger(most, 0) /\ \A i \in o + 1..o + k : t[i] = SP
<1>0. Len(t) \in Nat
  BY DEF Documents
<1> DEFINE n == Smaller(Larger(most, 0), Len(t) - o)
           S == {k \in 0..n : \A i \in o + 1..o + k : t[i] = SP}
<1>1. n \in Nat /\ n <= Larger(most, 0) /\ n <= Len(t) - o
  BY <1>0 DEF Smaller, Larger
<1> HIDE DEF n
<1>2. 0 \in S
  BY <1>1
<1>3. Max(S) \in S
  <2>1. S \in SUBSET (0..n) /\ S # {}
    BY <1>2
  <2> HIDE DEF S
  <2> QED BY <2>1, <1>1, MaxIn
<1>4. Indentation(t, o, most) = Max(S)
  BY DEF Indentation, n
<1> DEFINE k == Max(S)
<1>5. k \in 0..n /\ \A i \in o + 1..o + k : t[i] = SP
  BY <1>3
<1> HIDE DEF k
<1>6. k \in Nat /\ o + k <= Len(t) /\ k <= Larger(most, 0)
  BY <1>5, <1>1, <1>0 DEF Larger
<1> QED BY <1>4, <1>5, <1>6 DEF k

\* Indentation stays in its row.
LEMMA IndentationInRow ==
  ASSUME NEW t \in Documents, NEW o \in 0..Len(t), NEW most \in Int
  PROVE  RowAt(t, o + Indentation(t, o, most)) = RowAt(t, o)
<1> DEFINE k == Indentation(t, o, most)
<1>1. k \in Nat /\ \A i \in o + 1..o + k : t[i] = SP
  BY IndentationType
<1> HIDE DEF k
<1>2. \A i \in Breaks(t) : ~(o < i /\ i <= o + k)
  BY <1>1 DEF Breaks, SP, NL, Documents
<1>3. RowAt(t, o) = RowAt(t, o + k)
  BY <1>1, <1>2, RowsRise
<1> QED BY <1>3 DEF k

\* Skipping over one class of characters stays in the text.
LEMMA SkipType ==
  ASSUME NEW t \in Documents, NEW o \in 0..Len(t), NEW class
  PROVE  SkipForward(t, o, class) \in o..Len(t) /\ SkipBackward(t, o, class) \in 0..o
<1>0. Len(t) \in Nat
  BY DEF Documents
<1> DEFINE S == {e \in o..Len(t) : \A i \in o + 1..e : ClassOf(t[i]) = class}
           B == {e \in 0..o : \A i \in e + 1..o : ClassOf(t[i]) = class}
<1>1. o \in S /\ o \in B
  BY <1>0
<1>2. Max(S) \in S
  <2>1. S \in SUBSET (0..Len(t)) /\ S # {}
    BY <1>1
  <2> HIDE DEF S
  <2> QED BY <2>1, <1>0, MaxIn
<1>3. Min(B) \in B
  <2>1. B \in SUBSET Nat /\ B # {}
    BY <1>1
  <2> HIDE DEF B
  <2> QED BY <2>1, MinIn
<1> QED BY <1>2, <1>3 DEF SkipForward, SkipBackward

\* word_forward stays in the text and never moves back.
LEMMA WordForwardType ==
  ASSUME NEW t \in Documents, NEW o \in 0..Len(t)
  PROVE  WordForward(t, o) \in o..Len(t)
<1>0. Len(t) \in Nat
  BY DEF Documents
<1> DEFINE over(at, end, class) == IF class = "separator" /\ end = at + 1
                                   THEN SkipForward(t, end, "word") ELSE end
           run(at, class) == IF class \in {"separator", "word"}
                             THEN over(at, SkipForward(t, at, class), class) ELSE at
           from(at) == run(at, IF at < Len(t) THEN ClassOf(t[at + 1]) ELSE "whitespace")
           lined == IF o < Len(t) /\ t[o + 1] = NL THEN o + 1 ELSE o
<1>1. lined \in o..Len(t)
  BY <1>0
<1>2. ASSUME NEW at \in 0..Len(t), NEW class PROVE run(at, class) \in at..Len(t)
  <2>1. SkipForward(t, at, class) \in at..Len(t)
    BY SkipType
  <2>2. SkipForward(t, SkipForward(t, at, class), "word") \in SkipForward(t, at, class)..Len(t)
    <3>1. SkipForward(t, at, class) \in 0..Len(t)
      BY <2>1, <1>0
    <3> QED BY <3>1, SkipType
  <2>3. over(at, SkipForward(t, at, class), class) \in at..Len(t)
    BY <2>1, <2>2, <1>0
  <2> QED BY <2>1, <2>3, <1>0
<1> HIDE DEF lined, run
<1>3. lined \in 0..Len(t)
  BY <1>1, <1>0
<1>4. SkipForward(t, lined, "whitespace") \in lined..Len(t)
  BY <1>3, SkipType
<1>5. SkipForward(t, lined, "whitespace") \in 0..Len(t)
  BY <1>4, <1>3, <1>0
<1>6. from(SkipForward(t, lined, "whitespace")) \in SkipForward(t, lined, "whitespace")..Len(t)
  BY <1>5, <1>2
<1>7. WordForward(t, o) = from(SkipForward(t, lined, "whitespace"))
  BY DEF WordForward, lined, run
<1>8. from(SkipForward(t, lined, "whitespace")) \in o..Len(t)
  <2> HIDE DEF from
  <2> QED BY <1>1, <1>4, <1>6, <1>0
<1> QED BY <1>7, <1>8

\* word_backward stays in the text and never moves on.
LEMMA WordBackwardType ==
  ASSUME NEW t \in Documents, NEW o \in 0..Len(t)
  PROVE  WordBackward(t, o) \in 0..o
<1>0. Len(t) \in Nat
  BY DEF Documents
<1> DEFINE over(at, end, class) == IF class = "separator" /\ end = at - 1
                                   THEN SkipBackward(t, end, "word") ELSE end
           run(at, class) == IF class \in {"separator", "word"}
                             THEN over(at, SkipBackward(t, at, class), class) ELSE at
           from(at) == run(at, IF at > 0 THEN ClassOf(t[at]) ELSE "whitespace")
           lined == IF o > 0 /\ t[o] = NL THEN o - 1 ELSE o
<1>1. lined \in 0..o
  BY <1>0
<1>2. ASSUME NEW at \in 0..Len(t), NEW class PROVE run(at, class) \in 0..at
  <2>1. SkipBackward(t, at, class) \in 0..at
    BY SkipType
  <2>2. SkipBackward(t, SkipBackward(t, at, class), "word") \in 0..SkipBackward(t, at, class)
    <3>1. SkipBackward(t, at, class) \in 0..Len(t)
      BY <2>1, <1>0
    <3> QED BY <3>1, SkipType
  <2>3. over(at, SkipBackward(t, at, class), class) \in 0..at
    BY <2>1, <2>2, <1>0
  <2> QED BY <2>1, <2>3, <1>0
<1> HIDE DEF lined, run
<1>3. lined \in 0..Len(t)
  BY <1>1, <1>0
<1>4. SkipBackward(t, lined, "whitespace") \in 0..lined
  BY <1>3, SkipType
<1>5. SkipBackward(t, lined, "whitespace") \in 0..Len(t)
  BY <1>4, <1>3, <1>0
<1>6. from(SkipBackward(t, lined, "whitespace")) \in 0..SkipBackward(t, lined, "whitespace")
  BY <1>5, <1>2
<1>7. WordBackward(t, o) = from(SkipBackward(t, lined, "whitespace"))
  BY DEF WordBackward, lined, run
<1>8. from(SkipBackward(t, lined, "whitespace")) \in 0..o
  <2> HIDE DEF from
  <2> QED BY <1>1, <1>4, <1>6, <1>0
<1> QED BY <1>7, <1>8

\* word_select gives a range in the text.
LEMMA WordAroundType ==
  ASSUME NEW t \in Documents, NEW o \in 0..Len(t)
  PROVE  WordAround(t, o) \in Spans /\ Inside(t, WordAround(t, o))
<1>0. Len(t) \in Nat
  BY DEF Documents
<1>1. \A class : SkipForward(t, o, class) \in 0..Len(t) /\ SkipBackward(t, o, class) \in 0..Len(t)
  <2> TAKE class
  <2>1. SkipForward(t, o, class) \in o..Len(t) /\ SkipBackward(t, o, class) \in 0..o
    BY SkipType
  <2> QED BY <2>1, <1>0
<1>2. \E next, class : WordAround(t, o) =
        <<IF class = "newline" THEN o ELSE SkipBackward(t, o, class),
          IF next = "newline" THEN o ELSE SkipForward(t, o, next)>>
  BY DEF WordAround
<1> QED BY <1>0, <1>1, <1>2 DEF Spans, Inside

\* cursor_move_delta stays in the text.
LEMMA MovedType ==
  ASSUME NEW t \in Documents, NEW o \in 0..Len(t), NEW word, NEW delta \in Int
  PROVE  Moved(t, o, word, delta) \in 0..Len(t)
<1>0. Len(t) \in Nat
  BY DEF Documents
<1>1. WordForward(t, o) \in 0..Len(t)
  BY WordForwardType, <1>0
<1>2. WordBackward(t, o) \in 0..Len(t)
  BY WordBackwardType, <1>0
<1>3. Smaller(Larger(o + delta, 0), Len(t)) \in 0..Len(t)
  BY <1>0 DEF Smaller, Larger
<1> QED BY <1>1, <1>2, <1>3 DEF Moved

-----------------------------------------------------------------------------
(***************************************************************************)
(* Ranges in order, and joined                                             *)
(***************************************************************************)
Members(rs) == {rs[i] : i \in 1..Len(rs)}
Sorted(rs) == \A i \in 1..Len(rs), j \in 1..Len(rs) : i < j => Low(rs[i]) <= Low(rs[j])
Parted(q, r) == High(q) < Low(r) \/ (High(q) = Low(r) /\ Wide(q) /\ Wide(r))
Spread(t, rs) ==
  /\ rs \in Seq(Spans)
  /\ \A i \in 1..Len(rs) : Inside(t, rs[i])
  /\ \A i \in 1..Len(rs), j \in 1..Len(rs) : i < j => Parted(rs[i], rs[j])

\* The two ends of a range, in either direction.
LEMMA SpanType ==
  ASSUME NEW r \in Spans
  PROVE  /\ r = <<r[1], r[2]>> /\ r[1] \in Nat /\ r[2] \in Nat
         /\ Low(r) \in Nat /\ High(r) \in Nat /\ Low(r) <= High(r)
         /\ Wide(r) <=> Low(r) < High(r)
         /\ ~Wide(r) => Low(r) = r[1] /\ High(r) = r[1] /\ r[2] = r[1]
         /\ r[1] \in Low(r)..High(r) /\ r[2] \in Low(r)..High(r)
BY DEF Spans, Low, High, Wide, Smaller, Larger

\* A range is inside of the text when its high end is.
LEMMA InsideIs ==
  ASSUME NEW t \in Documents, NEW r \in Spans
  PROVE  Inside(t, r) <=> High(r) <= Len(t)
BY DEF Spans, Inside, High, Larger, Documents

\* A range goes in front of the first that it is less than.
LEMMA InsertedIs ==
  ASSUME NEW s \in Seq(Spans), NEW r \in Spans
  PROVE  \E k \in 0..Len(s) :
           /\ \A j \in 1..k : ~Less(r, s[j])
           /\ k < Len(s) => Less(r, s[k + 1])
           /\ IsSplice(Inserted(s, r), Spans, s, k, 0, <<r>>)
<1>0. Len(s) \in Nat
  OBVIOUS
<1> DEFINE S == {i - 1 : i \in {j \in 1..Len(s) : Less(r, s[j])}} \cup {Len(s)}
           k == Min(S)
<1>1. k \in S /\ \A j \in S : k <= j
  <2>1. S \in SUBSET Nat /\ S # {}
    BY <1>0
  <2> HIDE DEF S
  <2> QED BY <2>1, MinIn
<1>2. Inserted(s, r) = Splice(s, k, 0, <<r>>)
  BY DEF Inserted
<1> HIDE DEF k
<1>3. k \in 0..Len(s)
  BY <1>1, <1>0
<1>4. k < Len(s) => Less(r, s[k + 1])
  BY <1>1, <1>0
<1>5. ASSUME NEW j \in 1..k PROVE ~Less(r, s[j])
  <2>1. j \in 1..Len(s)
    BY <1>3
  <2>2. Less(r, s[j]) => j - 1 \in S
    BY <2>1
  <2>3. j - 1 < k
    BY <1>3
  <2> QED BY <2>2, <2>3, <1>1, <1>3
<1>6. IsSplice(Splice(s, k, 0, <<r>>), Spans, s, k, 0, <<r>>)
  <2>1. k \in Nat /\ 0 \in Nat /\ k + 0 <= Len(s) /\ <<r>> \in Seq(Spans)
    BY <1>3, <1>0
  <2> QED BY <2>1, SpliceProperties
<1> QED BY <1>2, <1>3, <1>4, <1>5, <1>6

\* Insertion keeps a list sorted and adds one range to it.
LEMMA InsertedSorted ==
  ASSUME NEW s \in Seq(Spans), NEW r \in Spans, Sorted(s)
  PROVE  /\ Inserted(s, r) \in Seq(Spans) /\ Len(Inserted(s, r)) = Len(s) + 1
         /\ Sorted(Inserted(s, r)) /\ Members(Inserted(s, r)) = Members(s) \cup {r}
         /\ (\A j \in 1..Len(s) : Low(s[j]) < Low(r)) => Inserted(s, r) = Append(s, r)
<1> DEFINE u == Inserted(s, r)
<1>1. PICK k \in 0..Len(s) : /\ \A j \in 1..k : ~Less(r, s[j])
                             /\ k < Len(s) => Less(r, s[k + 1])
                             /\ IsSplice(u, Spans, s, k, 0, <<r>>)
  BY InsertedIs
<1> HIDE DEF u
<1>2. /\ Len(s) \in Nat /\ u \in Seq(Spans) /\ Len(u) = Len(s) + 1
      /\ \A i \in 1..Len(s) + 1 :
           u[i] = IF i <= k THEN s[i] ELSE IF i = k + 1 THEN r ELSE s[i - 1]
  BY <1>1 DEF IsSplice
<1>3. ASSUME NEW j \in 1..Len(s) PROVE s[j] \in Spans /\ Low(s[j]) \in Nat
  <2>1. s[j] \in Spans
    OBVIOUS
  <2> QED BY <2>1, SpanType
<1>4. Low(r) \in Nat
  BY SpanType
<1>5. \A j \in 1..k : Low(s[j]) <= Low(r)
  BY <1>1, <1>3, <1>4 DEF Less
<1>6. \A j \in k + 1..Len(s) : Low(r) <= Low(s[j])
  <2> TAKE j \in k + 1..Len(s)
  <2>1. k < Len(s) /\ k + 1 \in 1..Len(s) /\ j \in 1..Len(s)
    BY <1>2
  <2>2. Low(r) <= Low(s[k + 1])
    BY <2>1, <1>1, <1>3, <1>4 DEF Less
  <2>3. Low(s[k + 1]) <= Low(s[j])
    BY <2>1, <1>3 DEF Sorted
  <2> QED BY <2>1, <2>2, <2>3, <1>3, <1>4
<1>7. ASSUME NEW i \in 1..Len(s) + 1, NEW j \in 1..Len(s) + 1, i < j
      PROVE  Low(u[i]) <= Low(u[j])
  <2>1. CASE j <= k
    <3>1. u[i] = s[i] /\ u[j] = s[j] /\ i \in 1..Len(s) /\ j \in 1..Len(s)
      BY <2>1, <1>2, <1>7
    <3> QED BY <3>1, <1>7 DEF Sorted
  <2>2. CASE j = k + 1
    <3>1. u[i] = s[i] /\ u[j] = r /\ i \in 1..k
      BY <2>2, <1>2, <1>7
    <3> QED BY <3>1, <1>5
  <2>3. CASE j > k + 1 /\ i <= k
    <3>1. u[i] = s[i] /\ u[j] = s[j - 1] /\ i \in 1..Len(s) /\ j - 1 \in 1..Len(s) /\ i < j - 1
      BY <2>3, <1>2
    <3> QED BY <3>1 DEF Sorted
  <2>4. CASE j > k + 1 /\ i = k + 1
    <3>1. u[i] = r /\ u[j] = s[j - 1] /\ j - 1 \in k + 1..Len(s)
      BY <2>4, <1>2
    <3> QED BY <3>1, <1>6
  <2>5. CASE j > k + 1 /\ i > k + 1
    <3>1. u[i] = s[i - 1] /\ u[j] = s[j - 1] /\ i - 1 \in 1..Len(s) /\ j - 1 \in 1..Len(s) /\ i - 1 < j - 1
      BY <2>5, <1>2, <1>7
    <3> QED BY <3>1 DEF Sorted
  <2> QED BY <2>1, <2>2, <2>3, <2>4, <2>5
<1>8. Sorted(u)
  BY <1>7, <1>2 DEF Sorted
<1>9. Members(u) = Members(s) \cup {r}
  <2>1. ASSUME NEW i \in 1..Len(s) + 1 PROVE u[i] \in Members(s) \cup {r}
    BY <1>2 DEF Members
  <2>2. ASSUME NEW j \in 1..Len(s) PROVE s[j] \in Members(u)
    <3>1. CASE j <= k
      <4>1. u[j] = s[j] /\ j \in 1..Len(u)
        BY <3>1, <1>2
      <4> QED BY <4>1 DEF Members
    <3>2. CASE j > k
      <4>1. u[j + 1] = s[j] /\ j + 1 \in 1..Len(u)
        BY <3>2, <1>2
      <4> QED BY <4>1 DEF Members
    <3> QED BY <3>1, <3>2
  <2>3. r \in Members(u)
    <3>1. u[k + 1] = r /\ k + 1 \in 1..Len(u)
      BY <1>2
    <3> QED BY <3>1 DEF Members
  <2>4. Members(u) \subseteq Members(s) \cup {r}
    BY <2>1, <1>2 DEF Members
  <2>5. Members(s) \subseteq Members(u)
    BY <2>2 DEF Members
  <2> QED BY <2>3, <2>4, <2>5
<1>10. ASSUME \A j \in 1..Len(s) : Low(s[j]) < Low(r) PROVE u = Append(s, r)
  <2>1. k = Len(s)
    <3>1. SUFFICES ASSUME k < Len(s) PROVE FALSE
      BY <1>2
    <3>2. k + 1 \in 1..Len(s)
      BY <3>1, <1>2
    <3>3. Low(r) <= Low(s[k + 1])
      BY <3>2, <1>6, <1>2
    <3> QED BY <3>2, <3>3, <1>10, <1>3, <1>4
  <2>2. Append(s, r) \in Seq(Spans) /\ Len(Append(s, r)) = Len(s) + 1
    OBVIOUS
  <2>3. \A i \in 1..Len(s) + 1 : Append(s, r)[i] = u[i]
    BY <2>1, <1>2
  <2> QED BY <2>2, <2>3, <1>2
<1> QED BY <1>2, <1>8, <1>9, <1>10 DEF u

Rising(rs) == \A i \in 1..Len(rs), j \in 1..Len(rs) : i < j => Low(rs[i]) < Low(rs[j])

\* The first i of a sequence, and one more.
LEMMA Prefix ==
  ASSUME NEW S, NEW s \in Seq(S), NEW i \in 1..Len(s)
  PROVE  /\ SubSeq(s, 1, i - 1) \in Seq(S) /\ Len(SubSeq(s, 1, i - 1)) = i - 1
         /\ \A j \in 1..i - 1 : SubSeq(s, 1, i - 1)[j] = s[j]
         /\ SubSeq(s, 1, i) = Append(SubSeq(s, 1, i - 1), s[i])
         /\ {s[j] : j \in 1..i} = {s[j] : j \in 1..i - 1} \cup {s[i]}
<1> DEFINE u == SubSeq(s, 1, i - 1) v == SubSeq(s, 1, i)
<1>1. u \in Seq(S) /\ Len(u) = i - 1 /\ \A j \in 1..i - 1 : u[j] = s[j]
  OBVIOUS
<1>2. v \in Seq(S) /\ Len(v) = i /\ \A j \in 1..i : v[j] = s[j]
  OBVIOUS
<1> HIDE DEF u, v
<1>3. s[i] \in S /\ Append(u, s[i]) \in Seq(S) /\ Len(Append(u, s[i])) = i
  BY <1>1
<1>4. \A j \in 1..i : Append(u, s[i])[j] = v[j]
  BY <1>1, <1>2
<1>5. v = Append(u, s[i])
  BY <1>2, <1>3, <1>4
<1>6. {s[j] : j \in 1..i} = {s[j] : j \in 1..i - 1} \cup {s[i]}
  OBVIOUS
<1> QED BY <1>1, <1>5, <1>6 DEF u, v

\* The stable sort gives the same ranges in order, and leaves strictly rising ones alone.
LEMMA InOrderIs ==
  ASSUME NEW rs \in Seq(Spans)
  PROVE  /\ InOrder(rs) \in Seq(Spans) /\ Len(InOrder(rs)) = Len(rs)
         /\ Sorted(InOrder(rs)) /\ Members(InOrder(rs)) = Members(rs)
         /\ Rising(rs) => InOrder(rs) = rs
<1> DEFINE n == Len(rs)
           Fine(s, i) == /\ Len(s) = i /\ Sorted(s) /\ Members(s) = {rs[j] : j \in 1..i}
                         /\ Rising(rs) => s = SubSeq(rs, 1, i)
           e == <<>>
           P == {p \in Seq(Spans) \X (0..n) : Fine(p[1], p[2])}
           F == [p \in Seq(Spans) \X (1..n) |-> Inserted(p[1], rs[p[2]])]
<1>0. n \in Nat
  OBVIOUS
<1>1. <<e, 0>> \in P
  <2>1. e \in Seq(Spans) /\ Len(e) = 0 /\ 0 \in 0..n
    OBVIOUS
  <2>2. Sorted(e)
    BY DEF Sorted
  <2>3. Members(e) = {rs[j] : j \in 1..0}
    BY DEF Members
  <2>4. e = SubSeq(rs, 1, 0)
    OBVIOUS
  <2>5. Fine(e, 0)
    BY <2>1, <2>2, <2>3, <2>4
  <2> DEFINE p == <<e, 0>>
  <2>6. p \in Seq(Spans) \X (0..n) /\ p[1] = e /\ p[2] = 0
    <3> HIDE DEF e
    <3> QED BY <2>1
  <2> HIDE DEF Fine, p
  <2>7. p \in P
    BY <2>5, <2>6
  <2> QED BY <2>7 DEF p
<1>2. ASSUME NEW i \in 1..n, NEW s, <<s, i - 1>> \in P
      PROVE  <<Inserted(s, rs[i]), i>> \in P /\ s \in Seq(Spans)
  <2>1. s \in Seq(Spans) /\ Fine(s, i - 1)
    BY <1>2
  <2>2. rs[i] \in Spans
    OBVIOUS
  <2> DEFINE u == Inserted(s, rs[i])
  <2>3. /\ u \in Seq(Spans) /\ Len(u) = Len(s) + 1 /\ Sorted(u) /\ Members(u) = Members(s) \cup {rs[i]}
        /\ (\A j \in 1..Len(s) : Low(s[j]) < Low(rs[i])) => u = Append(s, rs[i])
    BY <2>1, <2>2, InsertedSorted
  <2> HIDE DEF u
  <2>4. Len(u) = i
    BY <2>1, <2>3
  <2>5. Members(u) = {rs[j] : j \in 1..i}
    BY <2>1, <2>3, Prefix
  <2>6. Rising(rs) => u = SubSeq(rs, 1, i)
    <3> SUFFICES ASSUME Rising(rs) PROVE u = SubSeq(rs, 1, i)
      OBVIOUS
    <3>1. s = SubSeq(rs, 1, i - 1)
      BY <2>1
    <3>2. \A j \in 1..i - 1 : s[j] = rs[j]
      BY <3>1, Prefix
    <3>3. \A j \in 1..Len(s) : Low(s[j]) < Low(rs[i])
      BY <3>2, <2>1 DEF Rising
    <3>4. SubSeq(rs, 1, i) = Append(SubSeq(rs, 1, i - 1), rs[i])
      BY Prefix
    <3> QED BY <3>1, <3>3, <3>4, <2>3
  <2>7. Fine(u, i)
    BY <2>3, <2>4, <2>5, <2>6
  <2> HIDE DEF Fine
  <2>8. <<u, i>> \in P
    BY <2>3, <2>7
  <2> QED BY <2>8, <2>1 DEF u
<1>13. P \subseteq Seq(Spans) \X (0..n)
  OBVIOUS
<1> HIDE DEF P
<1>3. ASSUME NEW i \in 1..n, NEW s, <<s, i - 1>> \in P PROVE <<F[<<s, i>>], i>> \in P
  <2>1. F[<<s, i>>] = Inserted(s, rs[i])
    BY <1>3, <1>2
  <2> QED BY <2>1, <1>3, <1>2
<1>4. PICK g : Recursive(g, n, Seq(Spans), P, e, F)
  <2> HIDE DEF n, F, e
  <2>1. \A i \in 1..n : \A s : <<s, i - 1>> \in P => <<F[<<s, i>>], i>> \in P
    BY <1>3
  <2> QED BY <1>0, <1>1, <1>13, <2>1, Recursion
<1>5. ASSUME NEW i \in 1..n PROVE g[i] = Inserted(g[i - 1], rs[i])
  <2>1. <<g[i - 1], i - 1>> \in P
    BY <1>4 DEF Recursive
  <2> QED BY <2>1, <1>4, <1>2 DEF Recursive
<1>6. g = [i \in 0..n |-> IF i = 0 THEN <<>> ELSE Inserted(g[i - 1], rs[i])]
  <2>1. \A i \in 0..n : g[i] = IF i = 0 THEN <<>> ELSE Inserted(g[i - 1], rs[i])
    BY <1>4, <1>5 DEF Recursive
  <2> QED BY <2>1, <1>4 DEF Recursive
<1>7. \E f : /\ f = [i \in 0..n |-> IF i = 0 THEN <<>> ELSE Inserted(f[i - 1], rs[i])]
             /\ InOrder(rs) = f[n]
  BY <1>6 DEF InOrder
<1>8. PICK f : /\ f = [i \in 0..n |-> IF i = 0 THEN <<>> ELSE Inserted(f[i - 1], rs[i])]
               /\ InOrder(rs) = f[n]
  BY <1>7
<1> DEFINE S == {i \in 0..n : <<f[i], i>> \in P}
<1>9. 0 \in S
  BY <1>1, <1>8
<1>10. ASSUME NEW i \in 1..n, i - 1 \in S PROVE i \in S
  <2>1. f[i] = Inserted(f[i - 1], rs[i])
    BY <1>8
  <2> QED BY <2>1, <1>10, <1>2
<1>11. n \in S
  <2>1. \A i \in 0..n : i \in S
    <3> HIDE DEF S, n
    <3> QED BY <1>0, <1>9, <1>10, Induction
  <2> QED BY <2>1
<1>12. InOrder(rs) \in Seq(Spans) /\ Fine(InOrder(rs), n)
  <2>1. <<f[n], n>> \in P
    BY <1>11
  <2> QED BY <2>1, <1>8 DEF P
<1> QED BY <1>12 DEF Members

-----------------------------------------------------------------------------
(***************************************************************************)
(* Joining ranges                                                          *)
(***************************************************************************)

Empty(rs) == \A i \in 1..Len(rs) : ~Wide(rs[i])

\* A range that begins no earlier than the last is added or joined with it.
LEMMA JoinRangeIs ==
  ASSUME NEW t \in Documents, NEW s \in Seq(Spans), Spread(t, s),
         NEW r \in Spans, Inside(t, r), s # <<>> => Low(s[Len(s)]) <= Low(r)
  PROVE  LET u == JoinRange(s, r)
         IN /\ u \in Seq(Spans) /\ Spread(t, u) /\ u # <<>> /\ Low(u[Len(u)]) <= Low(r)
            /\ Len(u) <= Len(s) + 1
            /\ (s = <<>> \/ Parted(s[Len(s)], r)) => u = Append(s, r)
            /\ Empty(s) /\ ~Wide(r) => Empty(u) /\ Members(u) = Members(s) \cup {r}
<1>0. Len(t) \in Nat /\ Len(s) \in Nat
  BY DEF Documents
<1>1. /\ \A i \in 1..Len(s) : s[i] \in Spans /\ Inside(t, s[i])
      /\ \A i \in 1..Len(s), j \in 1..Len(s) : i < j => Parted(s[i], s[j])
  BY DEF Spread
<1>2. CASE s = <<>>
  <2>1. JoinRange(s, r) = <<r>> /\ <<r>> = Append(s, r)
    BY <1>2 DEF JoinRange
  <2>2. <<r>> \in Seq(Spans) /\ Len(<<r>>) = 1 /\ <<r>>[1] = r /\ <<r>> # <<>>
    OBVIOUS
  <2>3. Spread(t, <<r>>)
    BY <2>2 DEF Spread
  <2>4. Members(<<r>>) = {r} /\ Members(s) = {} /\ (~Wide(r) => Empty(<<r>>))
    BY <2>2, <1>2 DEF Members, Empty
  <2>5. Low(r) \in Nat
    BY SpanType
  <2>6. Len(s) = 0
    BY <1>2
  <2> QED BY <2>1, <2>2, <2>3, <2>4, <2>5, <2>6
<1>3. CASE s # <<>>
  <2> DEFINE n == Len(s)
             last == s[n]
             end == Larger(High(r), High(last))
             touch == Low(r) = High(last) /\ ~(Wide(r) /\ Wide(last))
             both == IF last[1] > last[2] THEN <<end, Low(last)>> ELSE <<Low(last), end>>
             add == Low(r) >= High(last) /\ ~touch
  <2>1. n \in 1..Len(s) /\ last \in Spans /\ Inside(t, last)
    BY <1>3, <1>0, <1>1
  <2>2. JoinRange(s, r) = IF add THEN Append(s, r) ELSE [s EXCEPT ![n] = both]
    BY <1>3 DEF JoinRange, Last
  <2>3. /\ Low(r) \in Nat /\ High(r) \in Nat /\ Low(r) <= High(r) /\ (Wide(r) <=> Low(r) < High(r))
        /\ Low(last) \in Nat /\ High(last) \in Nat /\ Low(last) <= High(last)
        /\ (Wide(last) <=> Low(last) < High(last))
        /\ Low(last) <= Low(r) /\ High(r) <= Len(t) /\ High(last) <= Len(t)
    <3>1. Low(last) <= Low(r)
      BY <1>3
    <3>2. High(r) <= Len(t) /\ High(last) <= Len(t)
      BY <2>1, InsideIs
    <3> HIDE DEF last
    <3> QED BY <2>1, <3>1, <3>2, SpanType
  <2>4. ASSUME add
        PROVE  Parted(last, r)
    BY <2>4, <2>3 DEF Parted
  <2>5. Parted(last, r) => add
    BY <2>3 DEF Parted
  <2>6. ASSUME NEW i \in 1..n - 1 PROVE s[i] \in Spans /\ Parted(s[i], last)
    BY <1>1, <2>1
  <2>7. CASE add
    <3> DEFINE u == Append(s, r)
    <3>1. JoinRange(s, r) = u
      BY <2>2, <2>7
    <3>2. /\ u \in Seq(Spans) /\ Len(u) = n + 1 /\ u[n + 1] = r /\ u # <<>>
          /\ \A i \in 1..n : u[i] = s[i]
      <4>1. u \in Seq(Spans) /\ Len(u) = n + 1 /\ u[n + 1] = r
        OBVIOUS
      <4>2. \A i \in 1..n : u[i] = s[i]
        OBVIOUS
      <4>3. u # <<>>
        BY <4>1, <1>0
      <4> QED BY <4>1, <4>2, <4>3
    <3> HIDE DEF u
    <3>3. ASSUME NEW i \in 1..n PROVE Parted(s[i], r)
      <4>1. CASE i = n
        BY <4>1, <2>4, <2>7
      <4>2. CASE i # n
        <5>1. s[i] \in Spans /\ Parted(s[i], last)
          BY <4>2, <2>6
        <5>2. High(s[i]) \in Nat
          BY <5>1, SpanType
        <5> QED BY <5>1, <5>2, <2>3, <2>7 DEF Parted
      <4> QED BY <4>1, <4>2
    <3>4. Spread(t, u)
      <4>1. \A i \in 1..n + 1 : Inside(t, u[i])
        BY <3>2, <1>1
      <4>2. \A i \in 1..n + 1, j \in 1..n + 1 : i < j => Parted(u[i], u[j])
        <5> TAKE i \in 1..n + 1, j \in 1..n + 1
        <5> SUFFICES ASSUME i < j PROVE Parted(u[i], u[j])
          OBVIOUS
        <5>1. CASE j = n + 1
          BY <5>1, <3>2, <3>3, <1>0
        <5>2. CASE j # n + 1
          <6>1. i \in 1..n /\ j \in 1..n
            BY <5>2
          <6> QED BY <6>1, <3>2, <1>1
        <5> QED BY <5>1, <5>2
      <4> QED BY <3>2, <4>1, <4>2 DEF Spread
    <3>5. Empty(s) /\ ~Wide(r) => Empty(u)
      <4>1. \A i \in 1..n + 1 : i \in 1..n \/ i = n + 1
        BY <1>0
      <4> QED BY <3>2, <4>1 DEF Empty
    <3>6. Members(u) = Members(s) \cup {r}
      <4>1. 1..n + 1 = (1..n) \cup {n + 1}
        BY <1>0
      <4> QED BY <3>2, <4>1 DEF Members
    <3>7. Len(u) <= Len(s) + 1
      BY <3>2, <1>0
    <3> QED BY <3>1, <3>2, <3>4, <3>5, <3>6, <3>7, <2>3 DEF u
  <2>8. CASE ~add
    <3> DEFINE u == [s EXCEPT ![n] = both]
    <3>1. JoinRange(s, r) = u
      BY <2>2, <2>8
    <3>2. /\ both \in Spans /\ Low(both) = Low(last) /\ High(both) = end
          /\ end \in Nat /\ end <= Len(t) /\ High(last) <= end /\ High(r) <= end
      <4>1. end \in Nat /\ end <= Len(t) /\ High(last) <= end /\ High(r) <= end
        BY <2>3 DEF Larger
      <4> HIDE DEF end
      <4>2. Low(last) <= end
        BY <2>3, <4>1
      <4> HIDE DEF last
      <4>3. both \in Spans
        BY <2>3, <4>1 DEF Spans
      <4>4. Low(both) = Low(last) /\ High(both) = end
        BY <2>3, <4>1, <4>2 DEF Low, High, Smaller, Larger
      <4> QED BY <4>1, <4>3, <4>4
    <3>3. Wide(both) <=> Low(last) < end
      BY <3>2, SpanType
    <3> HIDE DEF both, end
    <3>4. /\ u \in Seq(Spans) /\ Len(u) = n /\ u[n] = both /\ u # <<>>
          /\ \A i \in 1..n - 1 : u[i] = s[i]
      BY <2>1, <3>2, <1>0
    <3> HIDE DEF u
    <3>5. ASSUME NEW i \in 1..n - 1 PROVE Parted(s[i], both)
      <4>1. s[i] \in Spans /\ Parted(s[i], last)
        BY <2>6
      <4>2. High(s[i]) \in Nat
        BY <4>1, SpanType
      <4> QED BY <4>1, <4>2, <2>3, <3>2, <3>3 DEF Parted
    <3>6. Spread(t, u)
      <4>1. \A i \in 1..n : Inside(t, u[i])
        <5>1. Inside(t, both)
          BY <3>2, InsideIs
        <5>2. \A i \in 1..n : i = n \/ i \in 1..n - 1
          BY <1>0
        <5> QED BY <5>1, <5>2, <3>4, <1>1
      <4>2. \A i \in 1..n, j \in 1..n : i < j => Parted(u[i], u[j])
        <5> TAKE i \in 1..n, j \in 1..n
        <5> SUFFICES ASSUME i < j PROVE Parted(u[i], u[j])
          OBVIOUS
        <5>1. CASE j = n
          <6>1. i \in 1..n - 1
            BY <5>1
          <6> QED BY <6>1, <5>1, <3>4, <3>5
        <5>2. CASE j # n
          <6>1. i \in 1..n - 1 /\ j \in 1..n - 1
            BY <5>2
          <6> QED BY <6>1, <3>4, <1>1
        <5> QED BY <5>1, <5>2
      <4> QED BY <3>4, <4>1, <4>2 DEF Spread
    <3>7. Low(u[Len(u)]) <= Low(r)
      BY <3>4, <3>2, <2>3
    <3>8. ASSUME Empty(s), ~Wide(r) PROVE Empty(u) /\ Members(u) = Members(s) \cup {r}
      <4>1. ~Wide(last)
        BY <3>8, <2>1 DEF Empty
      <4>2. Low(r) = Low(last) /\ High(r) = Low(last) /\ High(last) = Low(last)
        BY <4>1, <3>8, <2>3, <2>8
      <4>3. r = <<Low(last), Low(last)>> /\ last = <<Low(last), Low(last)>>
        <5>1. r = <<Low(r), Low(r)>>
          BY <3>8, SpanType
        <5>2. last = <<Low(last), Low(last)>>
          BY <4>1, <2>1, SpanType
        <5> QED BY <5>1, <5>2, <4>2
      <4>4. both = <<Low(last), Low(last)>>
        <5>1. end = Low(last)
          BY <4>2 DEF end, Larger
        <5> QED BY <5>1 DEF both
      <4>5. u = s
        BY <4>3, <4>4 DEF u
      <4>6. r \in Members(s)
        BY <4>3, <2>1 DEF Members
      <4> QED BY <4>5, <4>6, <3>8
    <3>9. Len(u) <= Len(s) + 1
      BY <3>4, <1>0
    <3> QED BY <3>1, <3>4, <3>6, <3>7, <3>8, <3>9, <2>5, <2>8, <1>3 DEF u
  <2> QED BY <2>7, <2>8
<1> QED BY <1>2, <1>3

\* Spread ranges are in ascending order.
LEMMA SpreadRises ==
  ASSUME NEW t \in Documents, NEW rs, Spread(t, rs)
  PROVE  rs \in Seq(Spans) /\ Rising(rs) /\ Sorted(rs)
<1>1. rs \in Seq(Spans) /\ Len(rs) \in Nat
  BY DEF Spread
<1>2. ASSUME NEW i \in 1..Len(rs), NEW j \in 1..Len(rs), i < j PROVE Low(rs[i]) < Low(rs[j])
  <2>1. Parted(rs[i], rs[j])
    BY <1>2 DEF Spread
  <2>2. rs[i] \in Spans /\ rs[j] \in Spans
    BY <1>1
  <2>3. Low(rs[i]) \in Nat /\ High(rs[i]) \in Nat /\ Low(rs[j]) \in Nat
        /\ Low(rs[i]) <= High(rs[i]) /\ (Wide(rs[i]) <=> Low(rs[i]) < High(rs[i]))
    BY <2>2, SpanType
  <2> QED BY <2>1, <2>3 DEF Parted
<1>3. Rising(rs)
  BY <1>2 DEF Rising
<1>4. ASSUME NEW i \in 1..Len(rs), NEW j \in 1..Len(rs), i < j PROVE Low(rs[i]) <= Low(rs[j])
  <2>1. rs[i] \in Spans /\ rs[j] \in Spans
    BY <1>1
  <2>2. Low(rs[i]) \in Nat /\ Low(rs[j]) \in Nat
    BY <2>1, SpanType
  <2> QED BY <2>2, <1>2, <1>4
<1> QED BY <1>1, <1>3, <1>4 DEF Sorted

\* Joining sorted ranges makes them disjoint, and leaves disjoint ones alone.
LEMMA JoinedIs ==
  ASSUME NEW t \in Documents, NEW rs \in Seq(Spans), Sorted(rs),
         \A i \in 1..Len(rs) : Inside(t, rs[i])
  PROVE  /\ Spread(t, Joined(rs)) /\ (rs # <<>> => Joined(rs) # <<>>)
         /\ Len(Joined(rs)) <= Len(rs)
         /\ Spread(t, rs) => Joined(rs) = rs
         /\ Empty(rs) => Empty(Joined(rs)) /\ Members(Joined(rs)) = Members(rs)
<1> DEFINE n == Len(rs)
           e == <<>>
           Fine(s, i) == /\ Spread(t, s) /\ (i > 0 => s # <<>>) /\ Len(s) <= i
                         /\ s # <<>> => i > 0 /\ Low(s[Len(s)]) <= Low(rs[i])
                         /\ Spread(t, rs) => s = SubSeq(rs, 1, i)
                         /\ Empty(rs) => Empty(s) /\ Members(s) = {rs[j] : j \in 1..i}
           P == {p \in Seq(Spans) \X (0..n) : Fine(p[1], p[2])}
           F == [p \in Seq(Spans) \X (1..n) |-> JoinRange(p[1], rs[p[2]])]
<1>0. n \in Nat /\ \A i \in 1..n : rs[i] \in Spans /\ Low(rs[i]) \in Nat
  BY SpanType
<1>1. <<e, 0>> \in P
  <2>1. e \in Seq(Spans) /\ Len(e) = 0 /\ 0 \in 0..n
    OBVIOUS
  <2>2. Spread(t, e)
    BY <2>1 DEF Spread
  <2>3. Members(e) = {rs[j] : j \in 1..0} /\ Empty(e)
    BY DEF Members, Empty
  <2>4. e = SubSeq(rs, 1, 0)
    OBVIOUS
  <2>5. Fine(e, 0)
    BY <2>1, <2>2, <2>3, <2>4
  <2> DEFINE p == <<e, 0>>
  <2>6. p \in Seq(Spans) \X (0..n) /\ p[1] = e /\ p[2] = 0
    <3> HIDE DEF e
    <3> QED BY <2>1
  <2> HIDE DEF Fine, p
  <2>7. p \in P
    BY <2>5, <2>6
  <2> QED BY <2>7 DEF p
<1>2. ASSUME NEW i \in 1..n, NEW s, <<s, i - 1>> \in P
      PROVE  <<JoinRange(s, rs[i]), i>> \in P /\ s \in Seq(Spans)
  <2>1. s \in Seq(Spans) /\ Fine(s, i - 1)
    BY <1>2
  <2> DEFINE r == rs[i]
  <2>2. r \in Spans /\ Inside(t, r) /\ Spread(t, s)
    BY <2>1
  <2>3. s # <<>> => Low(s[Len(s)]) <= Low(r)
    <3> SUFFICES ASSUME s # <<>> PROVE Low(s[Len(s)]) <= Low(r)
      OBVIOUS
    <3>1. i - 1 \in 1..n /\ Low(s[Len(s)]) <= Low(rs[i - 1])
      BY <2>1
    <3>2. Low(rs[i - 1]) <= Low(rs[i])
      BY <3>1 DEF Sorted
    <3>3. s[Len(s)] \in Spans
      BY <2>1
    <3>4. Low(s[Len(s)]) \in Nat
      BY <3>3, SpanType
    <3> QED BY <3>1, <3>2, <3>4, <1>0
  <2> DEFINE u == JoinRange(s, r)
  <2>4. /\ u \in Seq(Spans) /\ Spread(t, u) /\ u # <<>> /\ Low(u[Len(u)]) <= Low(r)
        /\ Len(u) <= Len(s) + 1
        /\ (s = <<>> \/ Parted(s[Len(s)], r)) => u = Append(s, r)
        /\ Empty(s) /\ ~Wide(r) => Empty(u) /\ Members(u) = Members(s) \cup {r}
    <3> HIDE DEF r
    <3> QED BY <2>1, <2>2, <2>3, JoinRangeIs
  <2> HIDE DEF u
  <2>5. ASSUME Spread(t, rs) PROVE u = SubSeq(rs, 1, i)
    <3>1. s = SubSeq(rs, 1, i - 1)
      BY <2>1, <2>5
    <3>2. Len(s) = i - 1 /\ \A j \in 1..i - 1 : s[j] = rs[j]
      BY <3>1, Prefix
    <3>3. s = <<>> \/ Parted(s[Len(s)], r)
      <4>1. CASE i = 1
        BY <4>1, <3>2
      <4>2. CASE i # 1
        <5>1. i - 1 \in 1..n /\ s[Len(s)] = rs[i - 1]
          BY <4>2, <3>2
        <5> QED BY <5>1, <2>5 DEF Spread
      <4> QED BY <4>1, <4>2
    <3>4. SubSeq(rs, 1, i) = Append(SubSeq(rs, 1, i - 1), rs[i])
      BY Prefix
    <3> QED BY <3>1, <3>3, <3>4, <2>4
  <2>6. ASSUME Empty(rs) PROVE Empty(u) /\ Members(u) = {rs[j] : j \in 1..i}
    <3>1. ~Wide(r)
      BY <2>6 DEF Empty
    <3>2. {rs[j] : j \in 1..i} = {rs[j] : j \in 1..i - 1} \cup {rs[i]}
      BY Prefix
    <3> QED BY <3>1, <3>2, <2>4, <2>1, <2>6
  <2>9. Len(u) <= i
    <3>1. Len(s) \in Nat /\ Len(u) \in Nat /\ Len(s) <= i - 1 /\ i \in Nat
      BY <2>1, <2>4, <1>0
    <3> QED BY <3>1, <2>4
  <2>7. Fine(u, i)
    BY <2>4, <2>5, <2>6, <2>9
  <2> HIDE DEF Fine
  <2>8. <<u, i>> \in P
    BY <2>4, <2>7
  <2> QED BY <2>8, <2>1 DEF u
<1>3. P \subseteq Seq(Spans) \X (0..n)
  OBVIOUS
<1> HIDE DEF P
<1>4. ASSUME NEW i \in 1..n, NEW s, <<s, i - 1>> \in P PROVE <<F[<<s, i>>], i>> \in P
  <2>1. F[<<s, i>>] = JoinRange(s, rs[i])
    BY <1>4, <1>2
  <2> QED BY <2>1, <1>4, <1>2
<1>5. PICK g : Recursive(g, n, Seq(Spans), P, e, F)
  <2> HIDE DEF n, F, e
  <2>1. \A i \in 1..n : \A s : <<s, i - 1>> \in P => <<F[<<s, i>>], i>> \in P
    BY <1>4
  <2> QED BY <1>0, <1>1, <1>3, <2>1, Recursion
<1>6. g = [i \in 0..n |-> IF i = 0 THEN <<>> ELSE JoinRange(g[i - 1], rs[i])]
  <2>1. ASSUME NEW i \in 1..n PROVE g[i] = JoinRange(g[i - 1], rs[i])
    <3>1. <<g[i - 1], i - 1>> \in P
      BY <1>5 DEF Recursive
    <3> QED BY <3>1, <1>5, <1>2 DEF Recursive
  <2>2. \A i \in 0..n : g[i] = IF i = 0 THEN <<>> ELSE JoinRange(g[i - 1], rs[i])
    BY <1>5, <2>1 DEF Recursive
  <2> QED BY <2>2, <1>5 DEF Recursive
<1>7. \E f : /\ f = [i \in 0..n |-> IF i = 0 THEN <<>> ELSE JoinRange(f[i - 1], rs[i])]
             /\ Joined(rs) = f[n]
  BY <1>6 DEF Joined
<1>8. PICK f : /\ f = [i \in 0..n |-> IF i = 0 THEN <<>> ELSE JoinRange(f[i - 1], rs[i])]
               /\ Joined(rs) = f[n]
  BY <1>7
<1> DEFINE S == {i \in 0..n : <<f[i], i>> \in P}
<1>9. 0 \in S
  BY <1>1, <1>8
<1>10. ASSUME NEW i \in 1..n, i - 1 \in S PROVE i \in S
  <2>1. f[i] = JoinRange(f[i - 1], rs[i])
    BY <1>8
  <2> QED BY <2>1, <1>10, <1>2
<1>11. n \in S
  <2>1. \A i \in 0..n : i \in S
    <3> HIDE DEF S, n
    <3> QED BY <1>0, <1>9, <1>10, Induction
  <2> QED BY <2>1
<1>12. Joined(rs) \in Seq(Spans) /\ Fine(Joined(rs), n)
  <2>1. <<f[n], n>> \in P
    BY <1>11
  <2> QED BY <2>1, <1>8 DEF P
<1>13. rs = SubSeq(rs, 1, n)
  OBVIOUS
<1>14. rs # <<>> => n > 0
  OBVIOUS
<1> QED BY <1>12, <1>13, <1>14 DEF Members

-----------------------------------------------------------------------------
(***************************************************************************)
(* Buffers                                                                 *)
(***************************************************************************)
Selections == {<<>>} \cup (Point \X Point)
Buffers ==
  [text : Documents, cursor : Nat, selection : Selections, others : Seq(Spans),
   rectangle : Selections, overtype : BOOLEAN, full : BOOLEAN]

\* A buffer as every operation finds it and leaves it.
Shaped(b) ==
  /\ b \in Buffers /\ b.cursor <= Len(b.text)
  /\ b.selection # <<>> => b.selection[1] # b.selection[2]
Valid(b) == Shaped(b) /\ Spread(b.text, Append(b.others, Primary(b)))

\* The fields of a buffer.
LEMMA ShapedType ==
  ASSUME NEW b, Shaped(b)
  PROVE  /\ b.text \in Documents /\ Len(b.text) \in Nat /\ b.cursor \in 0..Len(b.text)
         /\ b.others \in Seq(Spans) /\ b.selection \in Selections
         /\ b.selection # <<>> => b.selection \in Point \X Point /\ b.selection[1] # b.selection[2]
         /\ b.rectangle \in Selections /\ b.overtype \in BOOLEAN /\ b.full \in BOOLEAN
BY DEF Shaped, Buffers, Selections, Documents

\* The primary selection is a range in the text.
LEMMA PrimaryType ==
  ASSUME NEW b, Shaped(b)
  PROVE  /\ Primary(b) \in Spans /\ Inside(b.text, Primary(b))
         /\ Low(Primary(b)) \in Nat /\ High(Primary(b)) \in Nat
         /\ Low(Primary(b)) <= High(Primary(b)) /\ High(Primary(b)) <= Len(b.text)
<1>0. Len(b.text) \in Nat /\ b.text \in Documents
  BY ShapedType
<1>1. CASE b.selection = <<>>
  <2>1. Primary(b) = <<b.cursor, b.cursor>>
    BY <1>1 DEF Primary
  <2>2. b.cursor \in 0..Len(b.text)
    BY ShapedType
  <2>3. Primary(b) \in Spans /\ Inside(b.text, Primary(b))
    BY <2>1, <2>2 DEF Spans, Inside
  <2> QED BY <2>3, <1>0, SpanType, InsideIs
<1>2. CASE b.selection # <<>>
  <2>1. b.selection \in Point \X Point
    BY <1>2, ShapedType
  <2>2. b.selection[1] \in Point /\ b.selection[2] \in Point
    BY <2>1
  <2>3. OffsetAt(b.text, b.selection[1]) \in 0..Len(b.text) /\ OffsetAt(b.text, b.selection[2]) \in 0..Len(b.text)
    BY <2>2, <1>0, OffsetType
  <2>4. Primary(b) \in Spans /\ Inside(b.text, Primary(b))
    BY <2>3, <1>0, <1>2 DEF Primary, Offsets, Spans, Inside
  <2> QED BY <2>4, <1>0, SpanType, InsideIs
<1> QED BY <1>1, <1>2

\* With one selection nothing can overlap.
LEMMA AloneIsValid ==
  ASSUME NEW b, Shaped(b), b.others = <<>>
  PROVE  Valid(b) /\ Ranges(b) = <<Primary(b)>>
<1>1. Primary(b) \in Spans /\ Inside(b.text, Primary(b))
  BY PrimaryType
<1> DEFINE r == Primary(b)
<1> HIDE DEF r
<1>2. Append(b.others, r) = <<r>>
  OBVIOUS
<1>3. <<r>> \in Seq(Spans) /\ Len(<<r>>) = 1 /\ <<r>>[1] = r
  BY <1>1 DEF r
<1>4. Spread(b.text, <<r>>)
  BY <1>3, <1>1 DEF Spread, r
<1>5. b.text \in Documents
  BY ShapedType
<1>6. InOrder(<<r>>) = <<r>>
  BY <1>3, <1>4, <1>5, SpreadRises, InOrderIs
<1> QED BY <1>2, <1>4, <1>6 DEF Valid, Ranges, r

\* selection_ranges of a valid buffer: the further carets, then the primary one, disjoint.
LEMMA RangesIs ==
  ASSUME NEW b, Valid(b)
  PROVE  /\ Ranges(b) = Append(b.others, Primary(b)) /\ Spread(b.text, Ranges(b))
         /\ Ranges(b) \in Seq(Spans) /\ Len(Ranges(b)) = Len(b.others) + 1
         /\ Ranges(b)[Len(Ranges(b))] = Primary(b) /\ Ranges(b) # <<>>
<1>1. b.text \in Documents /\ b.others \in Seq(Spans) /\ Primary(b) \in Spans
  BY ShapedType, PrimaryType DEF Valid
<1> DEFINE rs == Append(b.others, Primary(b))
<1>2. /\ rs \in Seq(Spans) /\ Len(rs) = Len(b.others) + 1 /\ rs[Len(b.others) + 1] = Primary(b)
      /\ Len(b.others) \in Nat
  BY <1>1
<1>3. Spread(b.text, rs)
  BY DEF Valid
<1> HIDE DEF rs
<1>4. InOrder(rs) = rs
  BY <1>1, <1>2, <1>3, SpreadRises, InOrderIs
<1>5. rs # <<>>
  BY <1>2
<1> QED BY <1>2, <1>3, <1>4, <1>5 DEF Ranges, rs

\* Clamping brings every range into the text and leaves those inside alone.
LEMMA ClampedIs ==
  ASSUME NEW t \in Documents, NEW rs \in Seq(Spans)
  PROVE  /\ Clamped(t, rs) \in Seq(Spans) /\ Len(Clamped(t, rs)) = Len(rs)
         /\ \A i \in 1..Len(rs) : Inside(t, Clamped(t, rs)[i])
         /\ (\A i \in 1..Len(rs) : Inside(t, rs[i])) => Clamped(t, rs) = rs
         /\ Empty(rs) => Empty(Clamped(t, rs))
<1> DEFINE c(r) == <<Smaller(r[1], Len(t)), Smaller(r[2], Len(t))>>
<1>0. Len(t) \in Nat /\ Len(rs) \in Nat
  BY DEF Documents
<1>1. ASSUME NEW r \in Spans
      PROVE  c(r) \in Spans /\ Inside(t, c(r)) /\ (Inside(t, r) => c(r) = r) /\ (~Wide(r) => ~Wide(c(r)))
  BY <1>0 DEF Spans, Inside, Smaller, Wide
<1>2. \A i \in 1..Len(rs) : rs[i] \in Spans
  OBVIOUS
<1>3. Clamped(t, rs) = [i \in 1..Len(rs) |-> c(rs[i])]
  BY DEF Clamped
<1> HIDE DEF c
<1> DEFINE u == [i \in 1..Len(rs) |-> c(rs[i])]
<1>4. u \in Seq(Spans) /\ Len(u) = Len(rs) /\ \A i \in 1..Len(rs) : u[i] = c(rs[i])
  BY <1>0, <1>1, <1>2
<1> HIDE DEF u
<1>5. (\A i \in 1..Len(rs) : Inside(t, rs[i])) => u = rs
  BY <1>1, <1>2, <1>4
<1>6. Empty(rs) => Empty(u)
  BY <1>1, <1>2, <1>4 DEF Empty
<1> QED BY <1>1, <1>2, <1>3, <1>4, <1>5, <1>6 DEF u

\* set_selection_ranges keeps the selections in order and disjoint; ranges that are so already
\* are kept, and carets keep their places.
LEMMA SetRangesIs ==
  ASSUME NEW b, Shaped(b), NEW rs \in Seq(Spans), rs # <<>>
  PROVE  LET new == SetRanges(b, rs)
         IN /\ Valid(new) /\ new.text = b.text /\ new.full = b.full /\ Len(Ranges(new)) <= Len(rs)
            /\ new.rectangle = b.rectangle /\ new.overtype = b.overtype
            /\ Spread(b.text, rs) => Ranges(new) = rs
            /\ Empty(rs) /\ (\A i \in 1..Len(rs) : Inside(b.text, rs[i])) =>
                 Empty(Ranges(new)) /\ Members(Ranges(new)) = Members(rs)
<1>0. b.text \in Documents /\ Len(b.text) \in Nat
  BY ShapedType
<1> DEFINE c == Clamped(b.text, rs) o == InOrder(c) j == Joined(o) n == Len(j)
           new == SetRanges(b, rs)
<1>1. /\ c \in Seq(Spans) /\ Len(c) = Len(rs) /\ \A i \in 1..Len(rs) : Inside(b.text, c[i])
      /\ (\A i \in 1..Len(rs) : Inside(b.text, rs[i])) => c = rs
      /\ Empty(rs) => Empty(c)
  BY <1>0, ClampedIs
<1> HIDE DEF c
<1>2. o \in Seq(Spans) /\ Len(o) = Len(c) /\ Sorted(o) /\ Members(o) = Members(c) /\ (Rising(c) => o = c)
  BY <1>1, InOrderIs
<1> HIDE DEF o
<1>3. ASSUME NEW i \in 1..Len(o) PROVE Inside(b.text, o[i]) /\ (Empty(c) => ~Wide(o[i]))
  <2>1. o[i] \in Members(c)
    BY <1>2 DEF Members
  <2> QED BY <2>1, <1>1 DEF Members, Empty
<1>4. o # <<>>
  BY <1>1, <1>2
<1>5. /\ Spread(b.text, j) /\ j # <<>> /\ (Spread(b.text, o) => j = o) /\ Len(j) <= Len(o)
      /\ Empty(o) => Empty(j) /\ Members(j) = Members(o)
  BY <1>0, <1>2, <1>3, <1>4, JoinedIs
<1> HIDE DEF j
<1>6. j \in Seq(Spans) /\ n \in 1..Len(j) /\ j[n] \in Spans /\ Inside(b.text, j[n])
  BY <1>5 DEF Spread
<1> DEFINE last == j[n]
<1>7. new = [b EXCEPT !.cursor = last[2], !.others = SubSeq(j, 1, n - 1),
                      !.selection = Chosen(Points(b.text, last))]
  BY DEF SetRanges, Last, Front, j, o, c
<1> DEFINE front == SubSeq(j, 1, n - 1) chosen == Chosen(Points(b.text, last))
<1>8. /\ last[2] \in Nat /\ last[2] <= Len(b.text) /\ front \in Seq(Spans)
      /\ Append(front, last) = j
  <2>1. last[2] \in Nat /\ last[2] <= Len(b.text)
    BY <1>6 DEF Spans, Inside
  <2>2. front \in Seq(Spans) /\ SubSeq(j, 1, n) = Append(front, j[n])
    BY <1>6, Prefix
  <2>3. SubSeq(j, 1, n) = j
    BY <1>6
  <2> QED BY <2>1, <2>2, <2>3
<1>9. /\ Points(b.text, last) \in Point \X Point /\ Offsets(b.text, Points(b.text, last)) = last
      /\ Points(b.text, last)[1] = Points(b.text, last)[2] <=> last[1] = last[2]
  BY <1>0, <1>6, PointsBack
<1>10. /\ chosen \in Selections /\ (chosen # <<>> => chosen[1] # chosen[2])
       /\ chosen = <<>> => last[1] = last[2]
       /\ chosen # <<>> => chosen = Points(b.text, last)
  <2> DEFINE q == Points(b.text, last)
  <2>1. q \in Point \X Point /\ q # <<>>
    BY <1>9
  <2> HIDE DEF q, last
  <2> QED BY <2>1, <1>9 DEF Chosen, Selections, q
<1> HIDE DEF front, chosen
<1>11. /\ new.text = b.text /\ new.full = b.full /\ new.rectangle = b.rectangle
       /\ new.overtype = b.overtype /\ new.cursor = last[2] /\ new.others = front
       /\ new.selection = chosen /\ new \in Buffers
  <2> HIDE DEF last, new
  <2> QED BY <1>7, <1>8, <1>10 DEF Shaped, Buffers, front, chosen
<1> HIDE DEF new
<1>12. Primary(new) = last
  <2>1. CASE chosen = <<>>
    <3>1. last = <<last[2], last[2]>>
      <4>1. last = <<last[1], last[2]>>
        BY <1>6, SpanType
      <4> QED BY <4>1, <2>1, <1>10
    <3> QED BY <3>1, <2>1, <1>11 DEF Primary
  <2>2. CASE chosen # <<>>
    BY <2>2, <1>9, <1>10, <1>11 DEF Primary
  <2> QED BY <2>1, <2>2
<1>13. Shaped(new)
  BY <1>8, <1>10, <1>11 DEF Shaped
<1>14. Valid(new)
  BY <1>5, <1>8, <1>11, <1>12, <1>13 DEF Valid
<1>15. Ranges(new) = j
  BY <1>8, <1>11, <1>12, <1>14, RangesIs
<1>16. Spread(b.text, rs) => j = rs
  <2> SUFFICES ASSUME Spread(b.text, rs) PROVE j = rs
    OBVIOUS
  <2>1. c = rs
    BY <1>1 DEF Spread
  <2>2. o = c
    BY <2>1, <1>0, <1>2, SpreadRises
  <2> QED BY <2>1, <2>2, <1>5
<1>17. Empty(rs) /\ (\A i \in 1..Len(rs) : Inside(b.text, rs[i])) => Empty(j) /\ Members(j) = Members(rs)
  BY <1>1, <1>2, <1>3, <1>5 DEF Empty
<1>18. Len(j) <= Len(rs)
  BY <1>1, <1>2, <1>5
<1> HIDE DEF j
<1> QED BY <1>11, <1>14, <1>15, <1>16, <1>17, <1>18 DEF new

-----------------------------------------------------------------------------
(***************************************************************************)
(* Selecting                                                               *)
(***************************************************************************)
\* Two points are a selection, or none when they are one.
LEMMA ChosenType ==
  ASSUME NEW ends \in Point \X Point
  PROVE  /\ Chosen(ends) \in Selections
         /\ Chosen(ends) # <<>> => Chosen(ends)[1] # Chosen(ends)[2]
BY DEF Chosen, Selections

\* Setting the cursor leaves one caret and no selection.
LEMMA SetCursorIs ==
  ASSUME NEW b, Shaped(b), NEW o \in 0..Len(b.text)
  PROVE  /\ Valid(SetCursor(b, o)) /\ SetCursor(b, o).others = <<>>
         /\ SetCursor(b, o).text = b.text /\ SetCursor(b, o).cursor = o
         /\ SetCursor(b, o).selection = <<>> /\ SetCursor(b, o).rectangle = <<>>
         /\ SetCursor(b, o).full = b.full /\ SetCursor(b, o).overtype = b.overtype
<1> DEFINE new == SetCursor(b, o)
<1>1. /\ new \in Buffers /\ new.text = b.text /\ new.cursor = o /\ new.others = <<>>
      /\ new.selection = <<>> /\ new.rectangle = <<>> /\ new.full = b.full
      /\ new.overtype = b.overtype
  <2>1. <<>> \in Seq(Spans) /\ <<>> \in Selections /\ b \in Buffers /\ o \in Nat
    BY ShapedType DEF Selections, Shaped
  <2>2. new = [b EXCEPT !.cursor = o, !.selection = <<>>, !.others = <<>>, !.rectangle = <<>>]
    BY DEF SetCursor
  <2> HIDE DEF new
  <2>3. new \in Buffers
    BY <2>1, <2>2 DEF Buffers
  <2>4. /\ new.text = b.text /\ new.cursor = o /\ new.others = <<>>
        /\ new.selection = <<>> /\ new.rectangle = <<>> /\ new.full = b.full
        /\ new.overtype = b.overtype
    BY <2>1, <2>2 DEF Buffers
  <2> QED BY <2>3, <2>4
<1> HIDE DEF new
<1>2. Shaped(new)
  BY <1>1 DEF Shaped
<1> QED BY <1>1, <1>2, AloneIsValid DEF new

\* One selection, wherever the cursor is.
LEMMA WithSelection ==
  ASSUME NEW b, Shaped(b), NEW o \in 0..Len(b.text), NEW ends \in Point \X Point
  PROVE  LET new == [SetCursor(b, o) EXCEPT !.selection = Chosen(ends)]
         IN Valid(new) /\ new.others = <<>> /\ new.text = b.text
<1> DEFINE at == SetCursor(b, o) chosen == Chosen(ends)
           new == [at EXCEPT !.selection = chosen]
<1>1. Shaped(at) /\ at.others = <<>> /\ at.text = b.text
  BY SetCursorIs DEF Valid
<1>2. chosen \in Selections /\ (chosen # <<>> => chosen[1] # chosen[2])
  BY ChosenType
<1> HIDE DEF at, chosen
<1>3. /\ new \in Buffers /\ new.text = b.text /\ new.others = <<>> /\ new.cursor = at.cursor
      /\ new.selection = chosen
  BY <1>1, <1>2 DEF Shaped, Buffers
<1> HIDE DEF new
<1>4. Shaped(new)
  BY <1>1, <1>2, <1>3 DEF Shaped
<1> QED BY <1>3, <1>4, AloneIsValid DEF new, at, chosen

\* set_cursor_for_selection keeps the buffer valid.
LEMMA SelectToValid ==
  ASSUME NEW b, Shaped(b), NEW o \in 0..Len(b.text)
  PROVE  Valid(SelectTo(b, o)) /\ SelectTo(b, o).others = <<>> /\ SelectTo(b, o).text = b.text
<1> DEFINE beg == IF HasSelection(b) THEN b.selection[1] ELSE PointAt(b.text, b.cursor)
           ends == <<beg, PointAt(b.text, o)>>
<1>1. /\ b.text \in Documents /\ b.cursor \in 0..Len(b.text)
      /\ b.selection # <<>> => b.selection \in Point \X Point
  BY ShapedType
<1>2. beg \in Point
  BY <1>1, PointType DEF HasSelection
<1>3. PointAt(b.text, o) \in Point
  BY <1>1, PointType
<1>4. ends \in Point \X Point
  BY <1>2, <1>3
<1>5. SelectTo(b, o) = [SetCursor(b, o) EXCEPT !.selection = Chosen(ends)]
  BY DEF SelectTo
<1> HIDE DEF ends
<1> QED BY <1>4, <1>5, WithSelection

\* Selecting a range of the text keeps the buffer valid.
LEMMA SelectValid ==
  ASSUME NEW b, Shaped(b), NEW r \in Spans, Inside(b.text, r)
  PROVE  Valid(Select(b, r)) /\ Select(b, r).others = <<>> /\ Select(b, r).text = b.text
<1>1. b.text \in Documents /\ r[2] \in 0..Len(b.text)
  BY ShapedType DEF Spans, Inside
<1>2. Points(b.text, r) \in Point \X Point
  BY <1>1, PointsBack
<1>3. Select(b, r) = [SetCursor(b, r[2]) EXCEPT !.selection = Chosen(Points(b.text, r))]
  BY DEF Select
<1> QED BY <1>1, <1>2, <1>3, WithSelection

\* clear_selection keeps the buffer valid.
LEMMA ClearSelectionValid ==
  ASSUME NEW b, Shaped(b)
  PROVE  /\ Valid(ClearSelection(b)) /\ ClearSelection(b).others = <<>>
         /\ ClearSelection(b).text = b.text /\ ClearSelection(b).full = b.full
<1> DEFINE new == ClearSelection(b)
<1>1. /\ new \in Buffers /\ new.text = b.text /\ new.cursor = b.cursor /\ new.others = <<>>
      /\ new.selection = <<>> /\ new.full = b.full
  <2>1. <<>> \in Seq(Spans) /\ <<>> \in Selections /\ b \in Buffers
    BY DEF Selections, Shaped
  <2>2. new = [b EXCEPT !.selection = <<>>, !.others = <<>>, !.rectangle = <<>>]
    BY DEF ClearSelection
  <2> HIDE DEF new
  <2>3. new \in Buffers
    BY <2>1, <2>2 DEF Buffers
  <2>4. /\ new.text = b.text /\ new.cursor = b.cursor /\ new.others = <<>>
        /\ new.selection = <<>> /\ new.full = b.full
    BY <2>1, <2>2 DEF Buffers
  <2> QED BY <2>3, <2>4
<1> HIDE DEF new
<1>2. Shaped(new)
  BY <1>1 DEF Shaped
<1> QED BY <1>1, <1>2, AloneIsValid DEF new

\* Flags and the rectangle play no part.
LEMMA SameCarets ==
  ASSUME NEW b, Valid(b), NEW new \in Buffers, new.text = b.text, new.cursor = b.cursor,
         new.others = b.others, new.selection = b.selection
  PROVE  Valid(new) /\ Ranges(new) = Ranges(b)
<1>1. Primary(new) = Primary(b)
  BY DEF Primary
<1> QED BY <1>1 DEF Valid, Shaped, Ranges

\* The remembered rectangle does not touch the carets.
LEMMA RectangleField ==
  ASSUME NEW b, Valid(b), NEW rectangle \in Selections
  PROVE  LET new == [b EXCEPT !.rectangle = rectangle]
         IN Valid(new) /\ new.text = b.text /\ new.others = b.others /\ Ranges(new) = Ranges(b)
<1> DEFINE new == [b EXCEPT !.rectangle = rectangle]
<1>1. /\ new \in Buffers /\ new.text = b.text /\ new.cursor = b.cursor /\ new.others = b.others
      /\ new.selection = b.selection
  BY DEF Valid, Shaped, Buffers
<1> HIDE DEF new
<1> QED BY <1>1, SameCarets DEF new

\* The overtype mode does not touch the carets.
LEMMA OvertypeField ==
  ASSUME NEW b, Valid(b), NEW overtype \in BOOLEAN
  PROVE  LET new == [b EXCEPT !.overtype = overtype]
         IN Valid(new) /\ new.text = b.text /\ new.others = b.others /\ Ranges(new) = Ranges(b)
<1> DEFINE new == [b EXCEPT !.overtype = overtype]
<1>1. /\ new \in Buffers /\ new.text = b.text /\ new.cursor = b.cursor /\ new.others = b.others
      /\ new.selection = b.selection
  BY DEF Valid, Shaped, Buffers
<1> HIDE DEF new
<1> QED BY <1>1, SameCarets DEF new

\* A refusal does not touch the carets.
LEMMA FullField ==
  ASSUME NEW b, Valid(b), NEW full \in BOOLEAN
  PROVE  LET new == [b EXCEPT !.full = full]
         IN Valid(new) /\ new.text = b.text /\ new.others = b.others /\ Ranges(new) = Ranges(b)
<1> DEFINE new == [b EXCEPT !.full = full]
<1>1. /\ new \in Buffers /\ new.text = b.text /\ new.cursor = b.cursor /\ new.others = b.others
      /\ new.selection = b.selection
  BY DEF Valid, Shaped, Buffers
<1> HIDE DEF new
<1> QED BY <1>1, SameCarets DEF new

\* select_word keeps the buffer valid.
LEMMA SelectWordValid ==
  ASSUME NEW b, Shaped(b)
  PROVE  Valid(SelectWord(b)) /\ SelectWord(b).others = <<>> /\ SelectWord(b).text = b.text
BY ShapedType, WordAroundType, SelectValid DEF SelectWord

\* select_line keeps the buffer valid.
LEMMA SelectLineValid ==
  ASSUME NEW b, Shaped(b)
  PROVE  Valid(SelectLine(b)) /\ SelectLine(b).others = <<>> /\ SelectLine(b).text = b.text
<1>1. b.text \in Documents /\ b.cursor \in 0..Len(b.text)
  BY ShapedType
<1>2. RowAt(b.text, b.cursor) \in Nat /\ RowAt(b.text, b.cursor) < Rows(b.text)
  <2>1. b.cursor \in Int
    BY <1>1
  <2> QED BY <1>1, <2>1, RowType
<1>3. LineRange(b.text, RowAt(b.text, b.cursor)) \in Spans
      /\ Inside(b.text, LineRange(b.text, RowAt(b.text, b.cursor)))
  BY <1>1, <1>2, LineRangeType
<1> QED BY <1>3, SelectValid DEF SelectLine

\* select_all keeps the buffer valid.
LEMMA SelectAllValid ==
  ASSUME NEW b, Shaped(b)
  PROVE  Valid(SelectAll(b)) /\ SelectAll(b).others = <<>> /\ SelectAll(b).text = b.text
<1>1. <<0, Len(b.text)>> \in Spans /\ Inside(b.text, <<0, Len(b.text)>>)
  BY ShapedType DEF Spans, Inside
<1> QED BY <1>1, SelectValid DEF SelectAll

\* select_lines keeps the buffer valid, whatever rows the drag goes through.
LEMMA SelectLinesValid ==
  ASSUME NEW b, Shaped(b), NEW anc \in Int, NEW head \in Int
  PROVE  /\ Valid(SelectLines(b, anc, head)) /\ SelectLines(b, anc, head).others = <<>>
         /\ SelectLines(b, anc, head).text = b.text
<1> DEFINE row(y) == Smaller(Larger(y, 0), Rows(b.text) - 1)
           lines(from, to) ==
             IF to < from
             THEN <<OffsetAt(b.text, [x |-> 0, y |-> from + 1]), LineStart(b.text, to)>>
             ELSE <<LineStart(b.text, from), OffsetAt(b.text, [x |-> 0, y |-> to + 1])>>
<1>0. b.text \in Documents /\ Len(b.text) \in Nat /\ Rows(b.text) \in Nat /\ 0 < Rows(b.text)
  BY ShapedType, RowType
<1>1. ASSUME NEW y \in Int PROVE row(y) \in Nat /\ row(y) < Rows(b.text)
  BY <1>0 DEF Smaller, Larger
<1>2. ASSUME NEW y \in Nat, y < Rows(b.text)
      PROVE  LineStart(b.text, y) \in 0..Len(b.text)
             /\ OffsetAt(b.text, [x |-> 0, y |-> y + 1]) \in 0..Len(b.text)
  <2>1. [x |-> 0, y |-> y + 1] \in Point
    BY DEF Point
  <2> QED BY <2>1, <1>0, <1>2, LineStartIs, OffsetType
<1> HIDE DEF row
<1>3. lines(row(anc), row(head)) \in Spans /\ Inside(b.text, lines(row(anc), row(head)))
  <2> DEFINE i == row(anc) j == row(head)
  <2>1. i \in Nat /\ i < Rows(b.text) /\ j \in Nat /\ j < Rows(b.text)
    BY <1>1
  <2> HIDE DEF i, j
  <2>2. lines(i, j) \in Spans /\ Inside(b.text, lines(i, j))
    BY <2>1, <1>2, <1>0 DEF Spans, Inside
  <2> QED BY <2>2 DEF i, j
<1>4. SelectLines(b, anc, head) = Select(b, lines(row(anc), row(head)))
  BY DEF SelectLines, row
<1> HIDE DEF lines
<1> QED BY <1>3, <1>4, SelectValid

\* The line a selection was begun on is a number.
LEMMA AnchorLineType ==
  ASSUME NEW b, Shaped(b)
  PROVE  AnchorLine(b) \in Int
<1>1. /\ b.text \in Documents /\ b.cursor \in 0..Len(b.text)
      /\ b.selection # <<>> => b.selection \in Point \X Point
  BY ShapedType
<1>2. RowAt(b.text, b.cursor) \in Int
  BY <1>1, RowType
<1>3. b.selection # <<>> => b.selection[1].y \in Int
  BY <1>1 DEF Point
<1> QED BY <1>2, <1>3 DEF AnchorLine, HasSelection

\* The ranges of a buffer, one more of them, or each of them changed.
LEMMA AddRange ==
  ASSUME NEW b, Valid(b), NEW r \in Spans
  PROVE  Valid(SetRanges(b, Append(Ranges(b), r))) /\ SetRanges(b, Append(Ranges(b), r)).text = b.text
<1>1. Ranges(b) \in Seq(Spans)
  BY RangesIs
<1> DEFINE rs == Ranges(b) all == Append(rs, r)
<1> HIDE DEF rs
<1>2. all \in Seq(Spans) /\ all # <<>>
  <2>1. all \in Seq(Spans) /\ Len(all) = Len(rs) + 1 /\ Len(rs) \in Nat
    BY <1>1 DEF rs
  <2> HIDE DEF all
  <2> QED BY <2>1
<1> HIDE DEF all
<1> QED BY <1>2, SetRangesIs DEF Valid, all, rs

\* Every range may be replaced by any other.
LEMMA ChangeRanges ==
  ASSUME NEW b, Valid(b), NEW to, \A i \in 1..Len(Ranges(b)) : to[i] \in Spans
  PROVE  LET new == SetRanges(b, [i \in 1..Len(Ranges(b)) |-> to[i]])
         IN /\ Valid(new) /\ new.text = b.text /\ new.full = b.full
            /\ new.rectangle = b.rectangle /\ new.overtype = b.overtype
<1> DEFINE n == Len(Ranges(b)) all == [i \in 1..n |-> to[i]]
<1>1. n \in Nat /\ n > 0
  BY RangesIs, ShapedType DEF Valid
<1> HIDE DEF n
<1>2. \A i \in 1..n : to[i] \in Spans
  BY DEF n
<1>3. all \in Seq(Spans) /\ Len(all) = n
  BY <1>1, <1>2
<1>4. all # <<>>
  BY <1>1, <1>3
<1> HIDE DEF all
<1> QED BY <1>3, <1>4, SetRangesIs DEF Valid, all, n

WithOccurrence(t, p, prior, s) ==
  LET at(i) == i + Len(p) <= Len(t) /\ Extract(t, i, Len(p)) = p
  IN prior \cup {o \in {s} : o >= 0 /\ at(o) /\ \A q \in prior : q + Len(p) <= o}

\* The occurrences of a pattern are offsets.
LEMMA OccurrencesType ==
  ASSUME NEW t \in Documents, NEW p \in Documents
  PROVE  Occurrences(t, p) \in SUBSET Nat
<1> DEFINE n == Len(t)
           e == {}
           add(prior, i) == WithOccurrence(t, p, prior, i - Len(p))
           P == (SUBSET Nat) \X (0..n)
           F == [q \in (SUBSET Nat) \X (1..n) |-> add(q[1], q[2])]
<1>0. n \in Nat /\ Len(p) \in Nat
  BY DEF Documents
<1>1. ASSUME NEW i \in 1..n, NEW prior \in SUBSET Nat PROVE add(prior, i) \in SUBSET Nat
  <2>1. SUFFICES ASSUME NEW x \in add(prior, i) PROVE x \in Nat
    OBVIOUS
  <2>2. x \in prior \/ (x = i - Len(p) /\ x >= 0)
    BY <2>1 DEF WithOccurrence
  <2>3. CASE x \in prior
    BY <2>3
  <2>4. CASE x = i - Len(p) /\ x >= 0
    <3>1. i \in Int /\ Len(p) \in Int
      BY <1>0
    <3> QED BY <2>4, <3>1
  <2> QED BY <2>2, <2>3, <2>4
<1> HIDE DEF add, e
<1>2. <<e, 0>> \in P
  BY <1>0 DEF e
<1>3. ASSUME NEW i \in 1..n, NEW s, <<s, i - 1>> \in P
      PROVE  <<F[<<s, i>>], i>> \in P /\ F[<<s, i>>] = add(s, i)
             /\ <<add(s, i), i>> \in P
  <2>1. s \in SUBSET Nat 
    BY <1>3, <1>0
  <2>2. F[<<s, i>>] = add(s, i)
    BY <2>1
  <2>3. add(s, i) \in SUBSET Nat
    BY <2>1, <1>1
  <2> HIDE DEF F
  <2> QED BY <2>2, <2>3
<1>4. P \subseteq (SUBSET Nat) \X (0..n)
  OBVIOUS
<1> HIDE DEF P, F
<1>5. PICK g : Recursive(g, n, SUBSET Nat, P, e, F)
  <2> HIDE DEF n
  <2>1. \A i \in 1..n : \A s : <<s, i - 1>> \in P => <<F[<<s, i>>], i>> \in P
    BY <1>3
  <2> QED BY <1>0, <1>2, <1>4, <2>1, Recursion
<1>6. g = [i \in 0..n |-> IF i = 0 THEN e ELSE add(g[i - 1], i)]
  <2>1. ASSUME NEW i \in 1..n PROVE g[i] = add(g[i - 1], i)
    <3>1. <<g[i - 1], i - 1>> \in P
      BY <1>5 DEF Recursive
    <3> QED BY <3>1, <1>5, <1>3 DEF Recursive
  <2>2. \A i \in 0..n : g[i] = IF i = 0 THEN e ELSE add(g[i - 1], i)
    BY <1>5, <2>1 DEF Recursive
  <2> QED BY <2>2, <1>5 DEF Recursive
<1>7. \E f : /\ f = [i \in 0..n |-> IF i = 0 THEN e ELSE add(f[i - 1], i)]
             /\ p # <<>> => Occurrences(t, p) = f[n]
  <2>1. CASE p = <<>>
    BY <1>6, <2>1
  <2>2. CASE p # <<>>
    <3>1. Occurrences(t, p) =
            LET found[i \in 0..Len(t)] ==
                  IF i = 0 THEN {} ELSE WithOccurrence(t, p, found[i - 1], i - Len(p))
            IN found[Len(t)]
      BY <2>2 DEF Occurrences, WithOccurrence
    <3> QED BY <1>6, <3>1 DEF add, e
  <2> QED BY <2>1, <2>2
<1>8. PICK f : /\ f = [i \in 0..n |-> IF i = 0 THEN e ELSE add(f[i - 1], i)]
               /\ p # <<>> => Occurrences(t, p) = f[n]
  BY <1>7
<1> DEFINE S == {i \in 0..n : <<f[i], i>> \in P}
<1>9. 0 \in S
  BY <1>2, <1>8, <1>0
<1>10. ASSUME NEW i \in 1..n, i - 1 \in S PROVE i \in S
  <2>1. f[i] = add(f[i - 1], i)
    BY <1>8
  <2>2. <<f[i - 1], i - 1>> \in P
    BY <1>10
  <2>3. <<add(f[i - 1], i), i>> \in P
    BY <2>2, <1>3
  <2> QED BY <2>1, <2>3
<1>11. n \in S
  <2>1. \A i \in 0..n : i \in S
    <3> HIDE DEF S, n
    <3> QED BY <1>0, <1>9, <1>10, Induction
  <2> QED BY <2>1, <1>0
<1>12. p # <<>> => Occurrences(t, p) \in SUBSET Nat
  <2>1. <<f[n], n>> \in P
    BY <1>11
  <2> QED BY <2>1, <1>8 DEF P
<1>13. p = <<>> => Occurrences(t, p) = {}
  BY DEF Occurrences
<1> QED BY <1>12, <1>13

\* The text a range covers.
LEMMA CoveredIs ==
  ASSUME NEW t \in Documents, NEW r \in Spans, Inside(t, r)
  PROVE  Covered(t, r) \in Documents /\ Len(Covered(t, r)) = High(r) - Low(r)
<1>1. /\ Low(r) \in Nat /\ High(r) - Low(r) \in Nat /\ Low(r) + (High(r) - Low(r)) <= Len(t)
  BY SpanType, InsideIs
<1>2. t \in Seq(Chars)
  BY DEF Documents
<1> QED BY <1>1, <1>2, ExtractProperties DEF Covered, Documents

\* add_next_occurrence keeps the buffer valid.
LEMMA AddNextValid ==
  ASSUME NEW b, Valid(b)
  PROVE  Valid(AddNext(b)) /\ AddNext(b).text = b.text
<1> DEFINE free(rs, p) ==
             {s \in Occurrences(b.text, p) :
                \A i \in 1..Len(rs) : ~(s < High(rs[i]) /\ s + Len(p) > Low(rs[i]))}
           add(rs, s, p) == SetRanges(b, Append(rs, <<s, s + Len(p)>>))
           next(starts, behind, p) ==
             IF starts = {} THEN b ELSE add(Ranges(b), Min(IF behind = {} THEN starts ELSE behind), p)
           seek(starts, r, p) == next(starts, {s \in starts : s >= High(r)}, p)
           look(r, p) == seek(free(Ranges(b), p), r, p)
<1>0. Shaped(b) /\ b.text \in Documents
  BY ShapedType DEF Valid
<1>1. ASSUME NEW s \in Nat, NEW p \in Documents
      PROVE  Valid(add(Ranges(b), s, p)) /\ add(Ranges(b), s, p).text = b.text
  <2>1. <<s, s + Len(p)>> \in Spans
    BY DEF Spans, Documents
  <2> QED BY <2>1, AddRange
<1> HIDE DEF add
<1>2. ASSUME NEW starts \in SUBSET Nat, NEW behind \in SUBSET starts, NEW p \in Documents
      PROVE  Valid(next(starts, behind, p)) /\ next(starts, behind, p).text = b.text
  <2>1. CASE starts = {}
    BY <2>1
  <2>2. CASE starts # {}
    <3> DEFINE from == IF behind = {} THEN starts ELSE behind
    <3>1. from \in SUBSET Nat /\ from # {}
      BY <2>2
    <3>2. next(starts, behind, p) = add(Ranges(b), Min(from), p)
      BY <2>2
    <3> HIDE DEF from
    <3>3. Min(from) \in Nat
      BY <3>1, MinIn
    <3> QED BY <3>2, <3>3, <1>1
  <2> QED BY <2>1, <2>2
<1> HIDE DEF next
<1>3. ASSUME NEW r, NEW p \in Documents PROVE Valid(look(r, p)) /\ look(r, p).text = b.text
  <2>1. free(Ranges(b), p) \in SUBSET Nat
    BY <1>0, OccurrencesType
  <2> HIDE DEF free
  <2> QED BY <2>1, <1>2
<1>4. AddNext(b) = IF HasSelection(b)
                   THEN IF Wide(Primary(b)) THEN look(Primary(b), Covered(b.text, Primary(b))) ELSE b
                   ELSE SelectWord(b)
  BY DEF AddNext, next, add
<1> HIDE DEF look
<1>5. Covered(b.text, Primary(b)) \in Documents
  BY <1>0, PrimaryType, CoveredIs
<1>6. Valid(look(Primary(b), Covered(b.text, Primary(b))))
      /\ look(Primary(b), Covered(b.text, Primary(b))).text = b.text
  BY <1>3, <1>5
<1>7. Valid(SelectWord(b)) /\ SelectWord(b).text = b.text
  BY <1>0, SelectWordValid
<1> QED BY <1>4, <1>6, <1>7

\* add_cursor_at keeps the buffer valid.
LEMMA AddCursorAtValid ==
  ASSUME NEW b, Valid(b), NEW p \in Point
  PROVE  Valid(AddCursorAt(b, p)) /\ AddCursorAt(b, p).text = b.text
<1> DEFINE o == OffsetAt(b.text, p)
<1>1. o \in 0..Len(b.text) /\ Len(b.text) \in Nat
  BY ShapedType, OffsetType DEF Valid
<1> HIDE DEF o
<1>2. <<o, o>> \in Spans
  BY <1>1 DEF Spans
<1>3. AddCursorAt(b, p) = SetRanges(b, Append(Ranges(b), <<o, o>>))
  BY DEF AddCursorAt, o
<1> QED BY <1>2, <1>3, AddRange

\* add_cursor_vertical keeps the buffer valid.
LEMMA AddCursorValid ==
  ASSUME NEW b, Valid(b), NEW delta \in Int
  PROVE  Valid(AddCursor(b, delta)) /\ AddCursor(b, delta).text = b.text
<1> DEFINE rs == Ranges(b)
           end == IF delta < 0 THEN rs[1] ELSE rs[Len(rs)]
           p == PointAt(b.text, High(end))
<1>1. b.text \in Documents /\ rs \in Seq(Spans) /\ rs # <<>> /\ Spread(b.text, rs)
  BY ShapedType, RangesIs DEF Valid
<1> HIDE DEF rs
<1>2. end \in Spans /\ Inside(b.text, end)
  <2>1. 1 \in 1..Len(rs) /\ Len(rs) \in 1..Len(rs)
    BY <1>1
  <2> QED BY <2>1, <1>1 DEF Spread
<1>3. High(end) \in 0..Len(b.text)
  BY <1>1, <1>2, SpanType, InsideIs DEF Documents
<1>4. p \in Point
  BY <1>1, <1>3, PointType
<1> HIDE DEF p
<1>5. [p EXCEPT !.y = @ + delta] \in Point
  BY <1>4 DEF Point
<1>6. AddCursor(b, delta) = IF p.y + delta \notin 0..Rows(b.text) - 1 THEN b
                            ELSE AddCursorAt(b, [p EXCEPT !.y = @ + delta])
  BY DEF AddCursor, Last, p, rs
<1> QED BY <1>5, <1>6, AddCursorAtValid

\* select_rectangle keeps the buffer valid, between any two corners.
LEMMA SelectRectangleValid ==
  ASSUME NEW b, Valid(b), NEW anc \in Point, NEW head \in Point
  PROVE  Valid(SelectRectangle(b, anc, head)) /\ SelectRectangle(b, anc, head).text = b.text
<1> DEFINE row(y) == <<OffsetAt(b.text, [x |-> anc.x, y |-> y]),
                       OffsetAt(b.text, [x |-> head.x, y |-> y])>>
           top == Larger(Smaller(anc.y, head.y), 0)
           bottom == Smaller(Larger(anc.y, head.y), Rows(b.text) - 1)
           n == Larger(bottom - top + 1, 0)
           all == [i \in 1..n |-> row(top + i - 1)]
           set == SetRanges(b, all)
<1>0. /\ b.text \in Documents /\ Shaped(b) /\ Rows(b.text) \in Nat
      /\ anc.x \in Int /\ anc.y \in Int /\ head.x \in Int /\ head.y \in Int
  BY ShapedType, RowType DEF Valid, Point
<1>1. top \in Int /\ bottom \in Int /\ n \in Nat
  BY <1>0 DEF Larger, Smaller
<1> HIDE DEF top, bottom, n
<1>2. ASSUME NEW y \in Int PROVE row(y) \in Spans
  <2>1. [x |-> anc.x, y |-> y] \in Point /\ [x |-> head.x, y |-> y] \in Point
    BY <1>0 DEF Point
  <2>2. /\ OffsetAt(b.text, [x |-> anc.x, y |-> y]) \in 0..Len(b.text)
        /\ OffsetAt(b.text, [x |-> head.x, y |-> y]) \in 0..Len(b.text)
    BY <2>1, <1>0, OffsetType
  <2> QED BY <2>2 DEF Spans
<1> HIDE DEF row
<1>3. all \in Seq(Spans)
  BY <1>1, <1>2
<1> HIDE DEF all
<1>4. Valid(set) /\ set.text = b.text
  <2>1. CASE all = <<>>
    BY <2>1 DEF SetRanges
  <2>2. CASE all # <<>>
    BY <2>2, <1>0, <1>3, SetRangesIs
  <2> QED BY <2>1, <2>2
<1>5. <<anc, head>> \in Selections
  BY DEF Selections
<1>6. SelectRectangle(b, anc, head) = [set EXCEPT !.rectangle = <<anc, head>>]
  BY DEF SelectRectangle, all, row, n, top, bottom
<1> HIDE DEF set
<1> QED BY <1>4, <1>5, <1>6, RectangleField

\* Growing the rectangle keeps the buffer valid.
LEMMA ExtendRectangleValid ==
  ASSUME NEW b, Valid(b), NEW dx \in Int, NEW dy \in Int
  PROVE  Valid(ExtendRectangle(b, dx, dy)) /\ ExtendRectangle(b, dx, dy).text = b.text
<1> DEFINE corners == IF b.rectangle = <<>> THEN Points(b.text, <<b.cursor, b.cursor>>)
                      ELSE b.rectangle
           to == [x |-> Larger(corners[2].x + dx, 0),
                  y |-> Smaller(Larger(corners[2].y + dy, 0), Rows(b.text) - 1)]
<1>0. /\ b.text \in Documents /\ b.cursor \in 0..Len(b.text) /\ b.rectangle \in Selections
      /\ Len(b.text) \in Nat
  BY ShapedType DEF Valid
<1>1. Rows(b.text) \in Nat
  BY <1>0, RowType
<1>2. corners \in Point \X Point
  <2>1. <<b.cursor, b.cursor>> \in Spans /\ Inside(b.text, <<b.cursor, b.cursor>>)
    BY <1>0 DEF Spans, Inside
  <2>2. Points(b.text, <<b.cursor, b.cursor>>) \in Point \X Point
    BY <2>1, <1>0, PointsBack
  <2> QED BY <2>2, <1>0 DEF Selections
<1> HIDE DEF corners
<1>3. corners[1] \in Point /\ corners[2].x \in Int /\ corners[2].y \in Int
  BY <1>2 DEF Point
<1>4. to \in Point
  BY <1>1, <1>3 DEF Point, Larger, Smaller
<1>5. ExtendRectangle(b, dx, dy) = SelectRectangle(b, corners[1], to)
  BY DEF ExtendRectangle, corners
<1> HIDE DEF to
<1> QED BY <1>3, <1>4, <1>5, SelectRectangleValid

\* Moving every caret somewhere keeps the buffer valid.
LEMMA MoveEachValid ==
  ASSUME NEW b, Valid(b), NEW to, NEW extend,
         \A i \in 1..Len(Ranges(b)) : to[Ranges(b)[i]] \in Nat
  PROVE  Valid(MoveEach(b, to, extend)) /\ MoveEach(b, to, extend).text = b.text
<1> DEFINE rs == Ranges(b)
           moved(r) == <<IF extend THEN r[1] ELSE to[r], to[r]>>
           f == [i \in 1..Len(rs) |-> moved(rs[i])]
           set == SetRanges(b, f)
<1>1. rs \in Seq(Spans)
  BY RangesIs
<1>2. ASSUME NEW i \in 1..Len(rs) PROVE f[i] \in Spans
  <2>1. rs[i] \in Spans /\ rs[i][1] \in Nat
    BY <1>1 DEF Spans
  <2> QED BY <2>1 DEF Spans
<1>3. f = [i \in 1..Len(Ranges(b)) |-> f[i]]
  OBVIOUS
<1> HIDE DEF f
<1>4. Valid(set) /\ set.text = b.text
  BY <1>2, <1>3, ChangeRanges
<1>5. <<>> \in Selections
  BY DEF Selections
<1>6. MoveEach(b, to, extend) = [set EXCEPT !.rectangle = <<>>]
  BY DEF MoveEach, f
<1> HIDE DEF set
<1> QED BY <1>4, <1>5, <1>6, RectangleField

\* Every selected range lies in the text.
LEMMA RangeAt ==
  ASSUME NEW b, Valid(b), NEW i \in 1..Len(Ranges(b))
  PROVE  LET r == Ranges(b)[i]
         IN /\ r \in Spans /\ Inside(b.text, r) /\ r[1] \in 0..Len(b.text) /\ r[2] \in 0..Len(b.text)
            /\ Low(r) \in 0..Len(b.text) /\ High(r) \in 0..Len(b.text) /\ r \in ToSet(Ranges(b))
<1> DEFINE r == Ranges(b)[i]
<1>1. b.text \in Documents /\ Len(b.text) \in Nat /\ Ranges(b) \in Seq(Spans)
  BY ShapedType, RangesIs DEF Valid
<1>2. r \in Spans /\ Inside(b.text, r) /\ r \in ToSet(Ranges(b))
  BY <1>1, RangesIs DEF Spread, ToSet
<1> HIDE DEF r
<1>3. /\ Low(r) \in Nat /\ High(r) \in Nat /\ Low(r) <= High(r) /\ High(r) <= Len(b.text)
      /\ r[1] \in Nat /\ r[2] \in Nat
  BY <1>1, <1>2, SpanType, InsideIs
<1> QED BY <1>1, <1>2, <1>3 DEF r, Inside

\* move_cursors_delta keeps the buffer valid.
LEMMA MoveCursorsValid ==
  ASSUME NEW b, Valid(b), NEW word, NEW delta \in Int, NEW extend
  PROVE  Valid(MoveCursors(b, word, delta, extend))
<1> DEFINE step(r) == IF ~extend /\ Wide(r) THEN (IF delta < 0 THEN Low(r) ELSE High(r))
                      ELSE Moved(b.text, r[2], word, delta)
           to == [r \in ToSet(Ranges(b)) |-> step(r)]
<1>0. b.text \in Documents
  BY ShapedType DEF Valid
<1>1. ASSUME NEW i \in 1..Len(Ranges(b)) PROVE to[Ranges(b)[i]] \in Nat
  <2> DEFINE r == Ranges(b)[i]
  <2>1. /\ r \in ToSet(Ranges(b)) /\ r[2] \in 0..Len(b.text) /\ Low(r) \in Nat /\ High(r) \in Nat
    BY RangeAt
  <2> HIDE DEF r
  <2>2. Moved(b.text, r[2], word, delta) \in 0..Len(b.text)
    BY <2>1, <1>0, MovedType
  <2>3. step(r) \in Nat
    BY <2>1, <2>2
  <2>4. to[r] = step(r)
    BY <2>1
  <2> QED BY <2>3, <2>4 DEF r
<1>2. MoveCursors(b, word, delta, extend) = MoveEach(b, to, extend)
  BY DEF MoveCursors
<1> HIDE DEF to
<1> QED BY <1>1, <1>2, MoveEachValid

\* move_cursors_vertical keeps the buffer valid.
LEMMA MoveCursorsVerticalValid ==
  ASSUME NEW b, Valid(b), NEW delta \in Int, NEW extend
  PROVE  Valid(MoveCursorsVertical(b, delta, extend))
<1> DEFINE step(r) == OffsetAt(b.text, [PointAt(b.text, r[2]) EXCEPT !.y = @ + delta])
           to == [r \in ToSet(Ranges(b)) |-> step(r)]
<1>0. b.text \in Documents
  BY ShapedType DEF Valid
<1>1. ASSUME NEW i \in 1..Len(Ranges(b)) PROVE to[Ranges(b)[i]] \in Nat
  <2> DEFINE r == Ranges(b)[i]
  <2>1. r \in ToSet(Ranges(b)) /\ r[2] \in 0..Len(b.text)
    BY RangeAt
  <2> HIDE DEF r
  <2> DEFINE p == PointAt(b.text, r[2])
  <2>2. p \in Point
    BY <2>1, <1>0, PointType
  <2> HIDE DEF p
  <2>3. [p EXCEPT !.y = @ + delta] \in Point
    BY <2>2 DEF Point
  <2>4. OffsetAt(b.text, [p EXCEPT !.y = @ + delta]) \in 0..Len(b.text)
    BY <2>3, <1>0, OffsetType
  <2>5. step(r) \in Nat
    BY <2>4 DEF p
  <2>6. to[r] = step(r)
    BY <2>1
  <2> QED BY <2>5, <2>6 DEF r
<1>2. MoveCursorsVertical(b, delta, extend) = MoveEach(b, to, extend)
  BY DEF MoveCursorsVertical
<1> HIDE DEF to
<1> QED BY <1>1, <1>2, MoveEachValid

\* move_cursors_boundary keeps the buffer valid.
LEMMA MoveCursorsBoundaryValid ==
  ASSUME NEW b, Valid(b), NEW end, NEW extend
  PROVE  Valid(MoveCursorsBoundary(b, end, extend))
<1> DEFINE step(r) == IF end THEN RowEnd(b.text, r[2]) ELSE RowStart(b.text, r[2])
           to == [r \in ToSet(Ranges(b)) |-> step(r)]
<1>0. b.text \in Documents
  BY ShapedType DEF Valid
<1>1. ASSUME NEW i \in 1..Len(Ranges(b)) PROVE to[Ranges(b)[i]] \in Nat
  <2> DEFINE r == Ranges(b)[i]
  <2>1. r \in ToSet(Ranges(b)) /\ r[2] \in 0..Len(b.text)
    BY RangeAt
  <2> HIDE DEF r
  <2>2. RowEnd(b.text, r[2]) \in Nat /\ RowStart(b.text, r[2]) \in Nat
    BY <2>1, <1>0, RowBounds
  <2>3. to[r] = step(r)
    BY <2>1
  <2> QED BY <2>2, <2>3 DEF r
<1>2. MoveCursorsBoundary(b, end, extend) = MoveEach(b, to, extend)
  BY DEF MoveCursorsBoundary
<1> HIDE DEF to
<1> QED BY <1>1, <1>2, MoveEachValid

-----------------------------------------------------------------------------
(***************************************************************************)
(* Writing at one caret                                                    *)
(***************************************************************************)
Typeable == Chars \cup {TAB}
Begins(u, t, k) == k <= Len(u) /\ k <= Len(t) /\ \A i \in 1..k : u[i] = t[i]

\* A splice leaves what is before it.
LEMMA SpliceBegins ==
  ASSUME NEW t \in Documents, NEW off \in Nat, NEW n \in Nat, off + n <= Len(t), NEW ins \in Documents
  PROVE  LET u == Splice(t, off, n, ins)
         IN /\ u \in Documents /\ Len(u) = Len(t) - n + Len(ins) /\ off + Len(ins) <= Len(u)
            /\ Len(u) \in Nat /\ Len(ins) \in Nat /\ Begins(u, t, off)
<1>1. t \in Seq(Chars) /\ ins \in Seq(Chars) /\ Len(t) \in Nat /\ Len(ins) \in Nat
  BY DEF Documents
<1>2. IsSplice(Splice(t, off, n, ins), Chars, t, off, n, ins)
  BY <1>1, SpliceProperties
<1> DEFINE u == Splice(t, off, n, ins)
<1> HIDE DEF u
<1>3. /\ u \in Seq(Chars) /\ Len(u) = Len(t) - n + Len(ins)
      /\ \A i \in 1..Len(t) - n + Len(ins) :
           u[i] = IF i <= off THEN t[i]
                  ELSE IF i <= off + Len(ins) THEN ins[i - off]
                  ELSE t[i - Len(ins) + n]
  BY <1>2 DEF IsSplice, u
<1>4. \A i \in 1..off : u[i] = t[i]
  BY <1>1, <1>3
<1> QED BY <1>1, <1>3, <1>4 DEF Documents, Begins, u

\* Beginning alike is transitive.
LEMMA BeginsTrans ==
  ASSUME NEW u \in Documents, NEW v \in Documents, NEW t \in Documents, NEW k \in Nat, NEW m \in Nat,
         k <= m, Begins(u, v, m), Begins(v, t, k)
  PROVE  Begins(u, t, k)
BY DEF Begins, Documents

\* Spaces are text.
LEMMA SpacesType ==
  ASSUME NEW n \in Nat
  PROVE  [i \in 1..n |-> SP] \in Documents /\ Len([i \in 1..n |-> SP]) = n
<1>1. SP \in Chars
  BY DEF Chars
<1> QED BY <1>1 DEF Documents

\* Rounding down to a multiple.
LEMMA Division ==
  ASSUME NEW k \in Nat, k > 0, NEW c \in Nat
  PROVE  (c \div k) * k \in Nat /\ (c \div k) * k <= c
<1>1. c \div k \in Nat
  OBVIOUS
<1>2. (c \div k) * k <= c
  OBVIOUS
<1>3. \A d \in Nat : d * k \in Nat
  OBVIOUS
<1> QED BY <1>1, <1>2, <1>3

\* The next tab stop is ahead, and the previous one is not.
LEMMA TabStops ==
  ASSUME NEW column \in Nat
  PROVE  /\ ToTabStop(column) \in Nat /\ PreviousTabStop(column) \in Nat
         /\ PreviousTabStop(column) <= column
<1>0. TabSize \in Nat /\ TabSize > 0
  BY EditingAssumption
<1>1. column % TabSize \in 0..TabSize - 1
  BY <1>0
<1>2. ToTabStop(column) \in Nat
  BY <1>0, <1>1 DEF ToTabStop
<1> DEFINE c == Larger(column - 1, 0) d == c \div TabSize
<1>3. c \in Nat /\ c <= column
  BY DEF Larger
<1> HIDE DEF c
<1>5. d * TabSize \in Nat /\ d * TabSize <= c
  BY <1>0, <1>3, Division
<1> HIDE DEF d
<1>6. PreviousTabStop(column) = d * TabSize
  BY DEF PreviousTabStop, d, c
<1> QED BY <1>2, <1>3, <1>5, <1>6

\* What is being typed into.
Drafts == [text : Documents, cursor : Nat]

\* One typed character leaves what is before the cursor, and never shortens the text.
LEMMA TypedIs ==
  ASSUME NEW s \in Drafts, s.cursor <= Len(s.text), NEW ch \in Typeable, NEW overtype
  PROVE  LET new == Typed(s, ch, overtype)
         IN /\ new \in Drafts /\ new.cursor <= Len(new.text) /\ s.cursor <= new.cursor
            /\ Len(s.text) <= Len(new.text) /\ Begins(new.text, s.text, s.cursor)
<1> DEFINE start == RowStart(s.text, s.cursor)
           spaces(n) == [i \in 1..n |-> SP]
           over(n) == IF ~overtype \/ ch = NL THEN 0
                      ELSE Smaller(n, RowEnd(s.text, s.cursor) - s.cursor)
           put(new) == [text |-> Splice(s.text, s.cursor, over(Len(new)), new),
                        cursor |-> s.cursor + Len(new)]
           ind == Indentation(s.text, start, s.cursor - start)
           stop == ToTabStop(s.cursor - start)
           what == CASE ch = NL -> <<NL>> \o spaces(ind)
                     [] ch = TAB -> spaces(stop)
                     [] OTHER -> <<ch>>
<1>0. s.text \in Documents /\ s.cursor \in 0..Len(s.text) /\ Len(s.text) \in Nat /\ s.cursor \in Nat
  BY DEF Drafts, Documents
<1>1. start \in 0..s.cursor /\ RowEnd(s.text, s.cursor) \in s.cursor..Len(s.text)
  BY <1>0, RowBounds
<1>2. ind \in Nat
  <2>1. start \in 0..Len(s.text) /\ s.cursor - start \in Int
    BY <1>0, <1>1
  <2> HIDE DEF start
  <2> QED BY <2>1, <1>0, IndentationType
<1>3. stop \in Nat
  <2>1. s.cursor - start \in Nat
    BY <1>0, <1>1
  <2> HIDE DEF start
  <2> QED BY <2>1, TabStops
<1> HIDE DEF ind, stop, start
<1>4. what \in Documents
  <2>1. spaces(ind) \in Documents /\ spaces(stop) \in Documents
    BY <1>2, <1>3, SpacesType
  <2> HIDE DEF spaces
  <2>2. <<NL>> \in Documents
    BY DEF Documents, Chars
  <2>3. <<NL>> \o spaces(ind) \in Documents
    BY <2>1, <2>2 DEF Documents
  <2>4. ch # TAB => <<ch>> \in Documents
    BY DEF Typeable, Documents
  <2> QED BY <2>1, <2>3, <2>4
<1>5. Typed(s, ch, overtype) = put(what)
  BY DEF Typed, start, ind, stop
<1> HIDE DEF what
<1> DEFINE n == Len(what) k == over(n)
<1>6. n \in Nat
  BY <1>4 DEF Documents
<1> HIDE DEF n
<1>7. k \in Nat /\ s.cursor + k <= Len(s.text) /\ k <= n
  BY <1>0, <1>1, <1>6 DEF Smaller
<1> HIDE DEF k
<1> DEFINE u == Splice(s.text, s.cursor, k, what)
<1>8. /\ u \in Documents /\ Len(u) = Len(s.text) - k + n /\ s.cursor + n <= Len(u)
      /\ Begins(u, s.text, s.cursor)
  BY <1>0, <1>4, <1>7, SpliceBegins DEF n
<1>9. put(what) = [text |-> u, cursor |-> s.cursor + n]
  BY DEF k, n
<1> HIDE DEF u, put
<1>10. /\ put(what) \in Drafts /\ put(what).text = u /\ put(what).cursor = s.cursor + n
       /\ s.cursor <= s.cursor + n /\ Len(s.text) <= Len(u)
  BY <1>0, <1>6, <1>7, <1>8, <1>9 DEF Drafts
<1> QED BY <1>5, <1>8, <1>10

\* So do all of them.
LEMMA TypedAllIs ==
  ASSUME NEW s \in Drafts, s.cursor <= Len(s.text), NEW ins \in Seq(Typeable), NEW overtype
  PROVE  LET new == TypedAll(s, ins, overtype)
         IN /\ new \in Drafts /\ new.cursor <= Len(new.text) /\ s.cursor <= new.cursor
            /\ Len(s.text) <= Len(new.text) /\ Begins(new.text, s.text, s.cursor)
<1> DEFINE n == Len(ins)
           Fine(d) == /\ d.cursor <= Len(d.text) /\ s.cursor <= d.cursor
                      /\ Len(s.text) <= Len(d.text) /\ Begins(d.text, s.text, s.cursor)
           P == {p \in Drafts \X (0..n) : Fine(p[1])}
           F == [p \in Drafts \X (1..n) |-> Typed(p[1], ins[p[2]], overtype)]
<1>0. /\ n \in Nat /\ \A i \in 1..n : ins[i] \in Typeable
      /\ s.text \in Documents /\ s.cursor \in Nat /\ Len(s.text) \in Nat
  BY DEF Drafts, Documents
<1>1. <<s, 0>> \in P
  <2>1. Fine(s)
    BY <1>0 DEF Begins
  <2> HIDE DEF Fine
  <2> QED BY <2>1, <1>0
<1>2. ASSUME NEW i \in 1..n, NEW d, <<d, i - 1>> \in P
      PROVE  <<Typed(d, ins[i], overtype), i>> \in P /\ d \in Drafts
  <2>1. d \in Drafts /\ Fine(d)
    BY <1>2
  <2> DEFINE e == Typed(d, ins[i], overtype)
  <2>2. /\ e \in Drafts /\ e.cursor <= Len(e.text) /\ d.cursor <= e.cursor
        /\ Len(d.text) <= Len(e.text) /\ Begins(e.text, d.text, d.cursor)
    BY <2>1, <1>0, TypedIs
  <2> HIDE DEF e
  <2>3. /\ d.text \in Documents /\ d.cursor \in Nat /\ Len(d.text) \in Nat
        /\ e.text \in Documents /\ e.cursor \in Nat /\ Len(e.text) \in Nat
    BY <2>1, <2>2 DEF Drafts, Documents
  <2>4. Begins(e.text, s.text, s.cursor)
    BY <1>0, <2>1, <2>2, <2>3, BeginsTrans
  <2>5. Fine(e)
    BY <2>1, <2>2, <2>3, <2>4, <1>0
  <2> HIDE DEF Fine
  <2> QED BY <2>1, <2>2, <2>5 DEF e
<1>3. P \subseteq Drafts \X (0..n)
  OBVIOUS
<1> HIDE DEF P
<1>4. ASSUME NEW i \in 1..n, NEW d, <<d, i - 1>> \in P PROVE <<F[<<d, i>>], i>> \in P
  <2>1. F[<<d, i>>] = Typed(d, ins[i], overtype)
    BY <1>4, <1>2
  <2> QED BY <2>1, <1>4, <1>2
<1>5. PICK g : Recursive(g, n, Drafts, P, s, F)
  <2> HIDE DEF n, F
  <2>1. \A i \in 1..n : \A d : <<d, i - 1>> \in P => <<F[<<d, i>>], i>> \in P
    BY <1>4
  <2> QED BY <1>0, <1>1, <1>3, <2>1, Recursion
<1>6. g = [i \in 0..n |-> IF i = 0 THEN s ELSE Typed(g[i - 1], ins[i], overtype)]
  <2>1. ASSUME NEW i \in 1..n PROVE g[i] = Typed(g[i - 1], ins[i], overtype)
    <3>1. <<g[i - 1], i - 1>> \in P
      BY <1>5 DEF Recursive
    <3> QED BY <3>1, <1>5, <1>2 DEF Recursive
  <2>2. \A i \in 0..n : g[i] = IF i = 0 THEN s ELSE Typed(g[i - 1], ins[i], overtype)
    BY <1>5, <2>1 DEF Recursive
  <2> QED BY <2>2, <1>5 DEF Recursive
<1>7. \E f : /\ f = [i \in 0..n |-> IF i = 0 THEN s ELSE Typed(f[i - 1], ins[i], overtype)]
             /\ TypedAll(s, ins, overtype) = f[n]
  BY <1>6 DEF TypedAll
<1>8. PICK f : /\ f = [i \in 0..n |-> IF i = 0 THEN s ELSE Typed(f[i - 1], ins[i], overtype)]
               /\ TypedAll(s, ins, overtype) = f[n]
  BY <1>7
<1> DEFINE S == {i \in 0..n : <<f[i], i>> \in P}
<1>9. 0 \in S
  BY <1>1, <1>8
<1>10. ASSUME NEW i \in 1..n, i - 1 \in S PROVE i \in S
  <2>1. f[i] = Typed(f[i - 1], ins[i], overtype)
    BY <1>8
  <2>2. <<f[i - 1], i - 1>> \in P
    BY <1>10
  <2>3. <<Typed(f[i - 1], ins[i], overtype), i>> \in P
    BY <2>2, <1>2
  <2> QED BY <2>1, <2>3
<1>11. n \in S
  <2>1. \A i \in 0..n : i \in S
    <3> HIDE DEF S, n
    <3> QED BY <1>0, <1>9, <1>10, Induction
  <2> QED BY <2>1
<1>12. TypedAll(s, ins, overtype) \in Drafts /\ Fine(TypedAll(s, ins, overtype))
  <2>1. <<f[n], n>> \in P
    BY <1>11
  <2> QED BY <2>1, <1>8 DEF P
<1> QED BY <1>12

\* Where a write at offset at begins, and how much it deletes.
WriteStart(b, at) == IF Wide(Primary(b)) THEN Low(Primary(b)) ELSE at
WriteGone(b) == High(Primary(b)) - Low(Primary(b))
WriteDone(b, ins, start, gone, raw) ==
  IF raw THEN [text |-> Splice(b.text, start, gone, ins), cursor |-> start + Len(ins)]
  ELSE TypedAll([text |-> Splice(b.text, start, gone, <<>>), cursor |-> start],
                ins, b.overtype)
Written(b, gone, done) ==
  [b EXCEPT !.text = done.text, !.cursor = done.cursor,
            !.selection = IF gone > 0 THEN <<>> ELSE @]
Refused(b) == [b EXCEPT !.full = TRUE]
Idle(b, ins) == ins = <<>> /\ WriteGone(b) = 0

\* A write is refused, changes nothing, or replaces the selection.
LEMMA WriteAtCases ==
  ASSUME NEW b, NEW ins, NEW at, NEW raw
  PROVE  LET start == WriteStart(b, at) gone == WriteGone(b)
         IN \/ WriteAt(b, ins, at, raw) = Refused(b)
            \/ Idle(b, ins) /\ WriteAt(b, ins, at, raw) = b
            \/ WriteAt(b, ins, at, raw) = Written(b, gone, WriteDone(b, ins, start, gone, raw))
BY DEF Idle, WriteAt, WriteStart, WriteGone, WriteDone, Written, Refused

\* A refused write only reports that.
LEMMA RefusedIs ==
  ASSUME NEW b, Shaped(b)
  PROVE  /\ Shaped(Refused(b)) /\ Refused(b).text = b.text /\ Refused(b).others = b.others
         /\ Refused(b).cursor = b.cursor /\ Refused(b).selection = b.selection /\ Refused(b).full
         /\ Refused(b).rectangle = b.rectangle
BY DEF Shaped, Buffers, Refused

\* Where a write begins, and how much it deletes.
LEMMA WriteStartIs ==
  ASSUME NEW b, Shaped(b), NEW at \in 0..Len(b.text)
  PROVE  /\ WriteStart(b, at) \in Nat /\ WriteGone(b) \in Nat
         /\ WriteStart(b, at) + WriteGone(b) <= Len(b.text)
         /\ WriteGone(b) > 0 <=> Wide(Primary(b))
<1>1. /\ Primary(b) \in Spans /\ Low(Primary(b)) \in Nat /\ High(Primary(b)) \in Nat
      /\ Low(Primary(b)) <= High(Primary(b)) /\ High(Primary(b)) <= Len(b.text)
  BY PrimaryType
<1>2. Wide(Primary(b)) <=> Low(Primary(b)) < High(Primary(b))
  BY <1>1, SpanType
<1>3. Len(b.text) \in Nat
  BY ShapedType
<1> QED BY <1>1, <1>2, <1>3 DEF WriteStart, WriteGone

\* What a write leaves: what is before it, and at least all of the rest.
LEMMA WriteDoneIs ==
  ASSUME NEW b, Shaped(b), NEW start \in Nat, NEW gone \in Nat, start + gone <= Len(b.text),
         NEW ins \in Seq(Typeable), NEW raw, raw => ins \in Documents
  PROVE  LET new == WriteDone(b, ins, start, gone, raw)
         IN /\ new.text \in Documents /\ new.cursor \in Nat /\ new.cursor <= Len(new.text)
            /\ start <= new.cursor /\ Len(b.text) - gone <= Len(new.text)
            /\ Begins(new.text, b.text, start)
<1>0. b.text \in Documents /\ Len(b.text) \in Nat /\ <<>> \in Documents /\ Len(<<>>) = 0
  BY ShapedType DEF Documents
<1>1. CASE raw
  <2> DEFINE u == Splice(b.text, start, gone, ins)
  <2>1. /\ u \in Documents /\ Len(u) = Len(b.text) - gone + Len(ins) /\ start + Len(ins) <= Len(u)
        /\ Len(u) \in Nat /\ Len(ins) \in Nat /\ Begins(u, b.text, start)
    BY <1>0, <1>1, SpliceBegins
  <2> HIDE DEF u
  <2>2. WriteDone(b, ins, start, gone, raw) = [text |-> u, cursor |-> start + Len(ins)]
    BY <1>1 DEF WriteDone, u
  <2> QED BY <2>1, <2>2, <1>0
<1>2. CASE ~raw
  <2> DEFINE u == Splice(b.text, start, gone, <<>>) s == [text |-> u, cursor |-> start]
             new == TypedAll(s, ins, b.overtype)
  <2>1. /\ u \in Documents /\ Len(u) = Len(b.text) - gone /\ start <= Len(u)
        /\ Len(u) \in Nat /\ Begins(u, b.text, start)
    BY <1>0, SpliceBegins
  <2>2. WriteDone(b, ins, start, gone, raw) = new
    BY <1>2 DEF WriteDone
  <2> HIDE DEF u
  <2>3. s \in Drafts /\ s.text = u /\ s.cursor = start
    BY <2>1 DEF Drafts
  <2> HIDE DEF s
  <2>4. /\ new \in Drafts /\ new.cursor <= Len(new.text) /\ start <= new.cursor
        /\ Len(u) <= Len(new.text) /\ Begins(new.text, u, start)
    BY <2>1, <2>3, TypedAllIs
  <2> HIDE DEF new
  <2>5. new.text \in Documents /\ new.cursor \in Nat
    BY <2>4 DEF Drafts
  <2>6. Begins(new.text, b.text, start)
    BY <1>0, <2>1, <2>4, <2>5, BeginsTrans
  <2> QED BY <1>0, <2>1, <2>2, <2>4, <2>5, <2>6
<1> QED BY <1>1, <1>2

\* The buffer after a write.
LEMMA WrittenIs ==
  ASSUME NEW b, Shaped(b), NEW gone \in Nat, NEW done, done.text \in Documents, done.cursor \in Nat,
         done.cursor <= Len(done.text)
  PROVE  LET new == Written(b, gone, done)
         IN /\ Shaped(new) /\ new.text = done.text /\ new.cursor = done.cursor
            /\ new.others = b.others /\ new.full = b.full /\ new.rectangle = b.rectangle
            /\ new.selection = IF gone > 0 THEN <<>> ELSE b.selection
<1> DEFINE sel == IF gone > 0 THEN <<>> ELSE b.selection
<1>1. sel \in Selections /\ (sel # <<>> => sel[1] # sel[2])
  <2>1. b.selection \in Selections /\ (b.selection # <<>> => b.selection[1] # b.selection[2])
    BY ShapedType
  <2> QED BY <2>1 DEF Selections
<1>2. Written(b, gone, done) = [b EXCEPT !.text = done.text, !.cursor = done.cursor, !.selection = sel]
  BY DEF Written, Shaped, Buffers
<1> HIDE DEF sel
<1> DEFINE new == [b EXCEPT !.text = done.text, !.cursor = done.cursor, !.selection = sel]
<1>3. /\ new \in Buffers /\ new.text = done.text /\ new.cursor = done.cursor
      /\ new.others = b.others /\ new.full = b.full /\ new.rectangle = b.rectangle
      /\ new.selection = sel
  BY <1>1 DEF Shaped, Buffers
<1> HIDE DEF new
<1>4. Shaped(new)
  BY <1>1, <1>3 DEF Shaped
<1> QED BY <1>2, <1>3, <1>4 DEF new, sel

\* A write leaves the text before it alone, and deletes no more than the selection.
LEMMA WriteAtIs ==
  ASSUME NEW b, Shaped(b), NEW at \in 0..Len(b.text), NEW ins \in Seq(Typeable), NEW raw,
         raw => ins \in Documents
  PROVE  LET new == WriteAt(b, ins, at, raw) start == WriteStart(b, at)
         IN /\ Shaped(new) /\ new.others = b.others /\ new.rectangle = b.rectangle
            /\ Len(b.text) - WriteGone(b) <= Len(new.text) /\ Begins(new.text, b.text, start)
            /\ start <= b.cursor => start <= new.cursor
            /\ b.full => new.full
<1> DEFINE new == WriteAt(b, ins, at, raw) start == WriteStart(b, at) gone == WriteGone(b)
           done == WriteDone(b, ins, start, gone, raw)
<1>0. /\ start \in Nat /\ gone \in Nat /\ start + gone <= Len(b.text)
      /\ Len(b.text) \in Nat /\ b.text \in Documents
  BY WriteStartIs, ShapedType
<1>1. \/ new = Refused(b) \/ new = b \/ new = Written(b, gone, done)
  BY WriteAtCases
<1> HIDE DEF start, gone
<1>2. /\ done.text \in Documents /\ done.cursor \in Nat /\ done.cursor <= Len(done.text)
      /\ start <= done.cursor /\ Len(b.text) - gone <= Len(done.text)
      /\ Begins(done.text, b.text, start)
  BY <1>0, WriteDoneIs
<1> HIDE DEF new, done
<1>3. Begins(b.text, b.text, start)
  BY <1>0 DEF Begins
<1>4. CASE new = Refused(b)
  BY <1>0, <1>3, <1>4, RefusedIs DEF new, start, gone
<1>5. CASE new = b
  BY <1>0, <1>3, <1>5 DEF new, start, gone
<1>6. CASE new = Written(b, gone, done)
  <2> DEFINE w == Written(b, gone, done)
  <2>1. /\ Shaped(w) /\ w.text = done.text /\ w.cursor = done.cursor
        /\ w.others = b.others /\ w.full = b.full /\ w.rectangle = b.rectangle
    <3>1. gone \in Nat /\ done.text \in Documents /\ done.cursor \in Nat /\ done.cursor <= Len(done.text)
      BY <1>0, <1>2
    <3>2. Shaped(w)
      BY <3>1, WrittenIs
    <3>3. w.text = done.text
      BY <3>1, WrittenIs
    <3>4. w.cursor = done.cursor
      BY <3>1, WrittenIs
    <3>5. w.others = b.others
      BY <3>1, WrittenIs
    <3>6. w.full = b.full
      BY <3>1, WrittenIs
    <3>7. w.rectangle = b.rectangle
      BY <3>1, WrittenIs
    <3> QED BY <3>2, <3>3, <3>4, <3>5, <3>6, <3>7
  <2> HIDE DEF w
  <2>2. new = w
    BY <1>6 DEF w
  <2> QED BY <2>1, <2>2, <1>2 DEF new, start, gone
<1> QED BY <1>1, <1>4, <1>5, <1>6

\* A raw write that is not refused is a splice.
LEMMA WriteAtRaw ==
  ASSUME NEW b, Shaped(b), NEW at \in 0..Len(b.text), NEW ins \in Documents
  PROVE  LET new == WriteAt(b, ins, at, TRUE) start == WriteStart(b, at) gone == WriteGone(b)
         IN \/ new.full
            \/ /\ new.text = Splice(b.text, start, gone, ins)
               /\ new.cursor = start + Len(ins) \/ (ins = <<>> /\ gone = 0 /\ new.cursor = b.cursor)
               /\ new.selection = IF gone > 0 THEN <<>> ELSE b.selection
<1> DEFINE new == WriteAt(b, ins, at, TRUE) start == WriteStart(b, at) gone == WriteGone(b)
           done == WriteDone(b, ins, start, gone, TRUE)
<1>0. /\ start \in Nat /\ gone \in Nat /\ start + gone <= Len(b.text)
      /\ Len(b.text) \in Nat /\ b.text \in Documents
  BY WriteStartIs, ShapedType
<1>1. new = Refused(b) \/ (Idle(b, ins) /\ new = b) \/ new = Written(b, gone, done)
  <2>1. PICK raw : raw = TRUE
    OBVIOUS
  <2> DEFINE d == WriteDone(b, ins, start, gone, raw) w == WriteAt(b, ins, at, raw)
  <2>2. w = Refused(b) \/ (Idle(b, ins) /\ w = b) \/ w = Written(b, gone, d)
    BY WriteAtCases
  <2>3. w = new /\ d = done
    BY <2>1, Zenon
  <2> HIDE DEF w, d, new, done
  <2> QED BY <2>2, <2>3
<1>2. done = [text |-> Splice(b.text, start, gone, ins), cursor |-> start + Len(ins)]
  BY DEF WriteDone
<1>3. ins \in Seq(Typeable)
  BY DEF Documents, Typeable
<1>4. done.text \in Documents /\ done.cursor \in Nat /\ done.cursor <= Len(done.text)
  BY <1>0, <1>3, WriteDoneIs
<1> HIDE DEF new, done, start, gone
<1> DEFINE Spliced == /\ new.text = Splice(b.text, start, gone, ins)
                      /\ new.cursor = start + Len(ins) \/ (ins = <<>> /\ gone = 0 /\ new.cursor = b.cursor)
                      /\ new.selection = IF gone > 0 THEN <<>> ELSE b.selection
<1>5. CASE new = Refused(b)
  <2>1. Refused(b).full
    BY RefusedIs
  <2>2. new.full
    BY <2>1, <1>5, Zenon
  <2> QED BY <2>2, Zenon DEF new
<1>6. CASE Idle(b, ins) /\ new = b
  <2>1. Splice(b.text, start, 0, <<>>) = b.text
    BY <1>0, SpliceNothing DEF Documents
  <2>2. Spliced
    BY <2>1, <1>6 DEF Idle, gone
  <2> QED BY <2>2, Zenon DEF new, start, gone
<1>7. CASE new = Written(b, gone, done)
  <2> DEFINE w == Written(b, gone, done)
  <2>1. gone \in Nat /\ done.text \in Documents /\ done.cursor \in Nat /\ done.cursor <= Len(done.text)
    BY <1>0, <1>4
  <2>2. w.text = done.text
    BY <2>1, WrittenIs
  <2>3. w.cursor = done.cursor
    BY <2>1, WrittenIs
  <2>4. w.selection = IF gone > 0 THEN <<>> ELSE b.selection
    BY <2>1, WrittenIs
  <2> HIDE DEF w
  <2>5. new = w
    BY <1>7 DEF w
  <2>6. Spliced
    BY <2>2, <2>3, <2>4, <2>5, <1>2
  <2> QED BY <2>6, Zenon DEF new, start, gone
<1> QED BY <1>1, <1>5, <1>6, <1>7, Zenon

-----------------------------------------------------------------------------
(***************************************************************************)
(* Writing at every caret                                                  *)
(***************************************************************************)
\* A buffer with the range r of its text selected.
AtRange(b, r) == [b EXCEPT !.cursor = r[2], !.selection = Chosen(Points(b.text, r))]

\* One range of several is made the primary selection.
LEMMA AtRangeIs ==
  ASSUME NEW b, Shaped(b), NEW r \in Spans, Inside(b.text, r)
  PROVE  LET new == AtRange(b, r)
         IN /\ Shaped(new) /\ new.text = b.text /\ new.others = b.others /\ new.full = b.full
            /\ new.cursor = r[2] /\ Primary(new) = r /\ (~Wide(r) => new.selection = <<>>)
<1> DEFINE chosen == Chosen(Points(b.text, r)) new == AtRange(b, r)
<1>0. b.text \in Documents /\ Len(b.text) \in Nat /\ r[2] \in Nat /\ r[2] <= Len(b.text)
  BY ShapedType, SpanType DEF Inside
<1>1. /\ Points(b.text, r) \in Point \X Point /\ Offsets(b.text, Points(b.text, r)) = r
      /\ Points(b.text, r)[1] = Points(b.text, r)[2] <=> r[1] = r[2]
  BY <1>0, PointsBack
<1>2. /\ chosen \in Selections /\ (chosen # <<>> => chosen[1] # chosen[2])
      /\ chosen = <<>> <=> r[1] = r[2]
      /\ chosen # <<>> => chosen = Points(b.text, r)
  <2> DEFINE q == Points(b.text, r)
  <2>1. q \in Point \X Point /\ q # <<>>
    BY <1>1
  <2> HIDE DEF q
  <2> QED BY <2>1, <1>1 DEF Chosen, Selections, q
<1> HIDE DEF chosen
<1>3. new = [b EXCEPT !.cursor = r[2], !.selection = chosen]
  BY DEF AtRange, chosen
<1> HIDE DEF new
<1>4. /\ new \in Buffers /\ new.text = b.text /\ new.others = b.others /\ new.full = b.full
      /\ new.cursor = r[2] /\ new.selection = chosen
  BY <1>0, <1>2, <1>3 DEF Shaped, Buffers
<1>5. Shaped(new)
  BY <1>0, <1>2, <1>4 DEF Shaped
<1>6. Primary(new) = r
  <2>1. CASE chosen = <<>>
    <3>1. r = <<r[2], r[2]>>
      <4>1. r = <<r[1], r[2]>>
        BY SpanType
      <4> QED BY <4>1, <2>1, <1>2
    <3> QED BY <3>1, <2>1, <1>4 DEF Primary
  <2>2. CASE chosen # <<>>
    BY <2>2, <1>1, <1>2, <1>4 DEF Primary
  <2> QED BY <2>1, <2>2
<1>7. ~Wide(r) => chosen = <<>>
  BY <1>2 DEF Wide
<1> QED BY <1>4, <1>5, <1>6, <1>7 DEF new

\* A buffer in which some of the carets have been written at.
Trials ==
  {s \in [b : Buffers, carets : Seq(Nat)] :
     Shaped(s.b) /\ \A j \in 1..Len(s.carets) : s.carets[j] <= Len(s.b.text)}

CaretReplaced(s, r, new, wrote) ==
  /\ new \in Trials /\ new.b = wrote /\ new.b.others = s.b.others
  /\ Begins(wrote.text, s.b.text, Low(r))
  /\ Len(new.carets) = Len(s.carets) + 1
  /\ \A j \in 1..Len(s.carets) : new.carets[j] = s.carets[j] + Len(wrote.text) - Len(s.b.text)
  /\ new.carets[Len(s.carets) + 1] = wrote.cursor
  /\ \A j \in 1..Len(new.carets) : Low(r) <= new.carets[j]
  /\ s.b.full => wrote.full

\* Replacing one range keeps the text before it, and the carets behind it in the text.
LEMMA ReplaceCaretIs ==
  ASSUME NEW s \in Trials, NEW r \in Spans, Inside(s.b.text, r),
         \A j \in 1..Len(s.carets) : High(r) <= s.carets[j],
         NEW ins \in Seq(Typeable), NEW raw, raw => ins \in Documents
  PROVE  CaretReplaced(s, r, ReplaceCaret(s, r, ins, raw), WriteAt(AtRange(s.b, r), ins, r[2], raw))
<1> DEFINE sel == AtRange(s.b, r) wrote == WriteAt(sel, ins, r[2], raw)
           m == Len(s.carets) c == [j \in 1..m |-> s.carets[j] + Len(wrote.text) - Len(s.b.text)]
           new == ReplaceCaret(s, r, ins, raw)
<1>0. /\ Shaped(s.b) /\ s.carets \in Seq(Nat) /\ s.b.text \in Documents /\ Len(s.b.text) \in Nat
      /\ m \in Nat /\ \A j \in 1..m : s.carets[j] \in Nat
  BY ShapedType DEF Trials
<1>1. /\ r[2] \in 0..Len(s.b.text) /\ Low(r) \in Nat /\ High(r) \in Nat /\ Low(r) <= High(r)
      /\ Low(r) <= r[2] /\ (~Wide(r) => Low(r) = r[2])
  BY <1>0, SpanType DEF Inside
<1>2. /\ Shaped(sel) /\ sel.text = s.b.text /\ sel.others = s.b.others /\ sel.full = s.b.full
      /\ sel.cursor = r[2] /\ Primary(sel) = r
  BY <1>0, AtRangeIs
<1>3. new = [b |-> wrote, carets |-> Append(c, wrote.cursor)]
  BY DEF ReplaceCaret, AtRange
<1> HIDE DEF sel
<1>4. WriteStart(sel, r[2]) = Low(r) /\ WriteGone(sel) = High(r) - Low(r)
  BY <1>1, <1>2 DEF WriteStart, WriteGone
<1>5. /\ Shaped(wrote) /\ wrote.others = sel.others
      /\ Len(sel.text) - WriteGone(sel) <= Len(wrote.text)
      /\ Begins(wrote.text, sel.text, WriteStart(sel, r[2]))
      /\ WriteStart(sel, r[2]) <= sel.cursor => WriteStart(sel, r[2]) <= wrote.cursor
      /\ sel.full => wrote.full
  <2>1. r[2] \in 0..Len(sel.text)
    BY <1>1, <1>2
  <2> QED BY <2>1, <1>2, WriteAtIs
<1> HIDE DEF wrote
<1>6. /\ wrote \in Buffers /\ Len(wrote.text) \in Nat /\ wrote.cursor \in Nat
      /\ Len(s.b.text) - (High(r) - Low(r)) <= Len(wrote.text) /\ Low(r) <= wrote.cursor
      /\ wrote.others = s.b.others /\ Begins(wrote.text, s.b.text, Low(r))
  <2>1. wrote \in Buffers /\ Len(wrote.text) \in Nat /\ wrote.cursor \in Nat
    BY <1>5, ShapedType DEF Shaped, Buffers
  <2> QED BY <2>1, <1>1, <1>2, <1>4, <1>5
<1>7. ASSUME NEW j \in 1..m
      PROVE  s.carets[j] + Len(wrote.text) - Len(s.b.text) \in Nat
             /\ Low(r) <= s.carets[j] + Len(wrote.text) - Len(s.b.text)
  <2>1. s.carets[j] \in Nat /\ High(r) <= s.carets[j]
    BY <1>0
  <2> DEFINE x == s.carets[j] y == Len(wrote.text) z == Len(s.b.text) l == Low(r) h == High(r)
  <2>2. /\ x \in Nat /\ y \in Nat /\ z \in Nat /\ l \in Nat /\ h \in Nat
        /\ h <= x /\ z - (h - l) <= y
    BY <2>1, <1>0, <1>1, <1>6
  <2> HIDE DEF x, y, z, l, h
  <2>3. x + y - z \in Nat /\ l <= x + y - z
    BY <2>2
  <2> QED BY <2>3 DEF x, y, z, l
<1>8. /\ c \in Seq(Nat) /\ Len(c) = m
      /\ \A j \in 1..m : c[j] = s.carets[j] + Len(wrote.text) - Len(s.b.text)
  <2> DEFINE e(j) == s.carets[j] + Len(wrote.text) - Len(s.b.text)
             k == [j \in 1..m |-> e(j)]
  <2>1. \A j \in 1..m : e(j) \in Nat
    BY <1>7
  <2>2. c = k
    OBVIOUS
  <2> HIDE DEF m, e, c
  <2>3. k \in Seq(Nat) /\ Len(k) = m /\ \A j \in 1..m : k[j] = e(j)
    BY <2>1, <1>0
  <2> HIDE DEF k
  <2>4. c \in Seq(Nat) /\ Len(c) = m /\ \A j \in 1..m : c[j] = e(j)
    BY <2>2, <2>3
  <2> QED BY <2>4 DEF e
<1> HIDE DEF c, new
<1> DEFINE d == Append(c, wrote.cursor)
<1>9. /\ d \in Seq(Nat) /\ Len(d) = m + 1 /\ d[m + 1] = wrote.cursor
      /\ \A j \in 1..m : d[j] = c[j]
  BY <1>6, <1>8, <1>0
<1> HIDE DEF d
<1>10. new.b = wrote /\ new.carets = d /\ new \in Trials
  <2>1. new = [b |-> wrote, carets |-> d]
    BY <1>3 DEF d
  <2>2. \A j \in 1..m + 1 : d[j] <= Len(wrote.text)
    <3> TAKE j \in 1..m + 1
    <3>1. CASE j = m + 1
      BY <3>1, <1>5, <1>9 DEF Shaped
    <3>2. CASE j # m + 1
      <4>1. j \in 1..m /\ s.carets[j] \in Nat /\ s.carets[j] <= Len(s.b.text)
        BY <3>2, <1>0 DEF Trials
      <4>2. d[j] = s.carets[j] + Len(wrote.text) - Len(s.b.text)
        BY <4>1, <1>8, <1>9
      <4> DEFINE x == s.carets[j] y == Len(wrote.text) z == Len(s.b.text)
      <4>3. x \in Nat /\ y \in Nat /\ z \in Nat /\ x <= z /\ d[j] = x + y - z
        BY <4>1, <4>2, <1>0, <1>6
      <4> HIDE DEF x, y, z
      <4>4. d[j] <= y
        BY <4>3
      <4> QED BY <4>4 DEF y
    <3> QED BY <3>1, <3>2
  <2> HIDE DEF m
  <2> QED BY <2>1, <2>2, <1>5, <1>6, <1>9 DEF Trials
<1>11. \A j \in 1..m : d[j] = s.carets[j] + Len(wrote.text) - Len(s.b.text)
  BY <1>8, <1>9
<1>12. \A j \in 1..m + 1 : Low(r) <= d[j]
  <2> TAKE j \in 1..m + 1
  <2>1. CASE j = m + 1
    BY <2>1, <1>6, <1>9
  <2>2. CASE j # m + 1
    <3>1. j \in 1..m
      BY <2>2, <1>0
    <3> QED BY <3>1, <1>7, <1>11
  <2> QED BY <2>1, <2>2
<1>13. s.b.full => wrote.full
  BY <1>2, <1>5
<1>14. CaretReplaced(s, r, new, wrote)
  BY <1>6, <1>9, <1>10, <1>11, <1>12, <1>13 DEF CaretReplaced
<1> QED BY <1>14, Zenon DEF new, wrote, sel

\* What is known of the text in front of the i-th range while the ranges are replaced from
\* the last to the first: it is still there, and all carets are behind it.
Ahead(t, rs, i) == IF i > Len(rs) THEN Len(t) ELSE Low(rs[i])
Placing(b, rs, s, i) ==
  /\ s \in Trials /\ s.b.others = b.others
  /\ Begins(s.b.text, b.text, Ahead(b.text, rs, i))
  /\ Len(s.carets) = Len(rs) + 1 - i
  /\ \A j \in 1..Len(s.carets) : Ahead(b.text, rs, i) <= s.carets[j]
  /\ b.full => s.b.full
Fresh(b) == [b |-> b, carets |-> <<>>]
Replacing(f, b, rs, texts, raw) ==
  /\ f[Len(rs) + 1] = Fresh(b)
  /\ \A i \in 1..Len(rs) + 1 : Placing(b, rs, f[i], i)
  /\ \A i \in 1..Len(rs) : f[i] = ReplaceCaret(f[i + 1], rs[i], texts[i], raw)

\* Spread ranges, from left to right.
LEMMA SpreadRanges ==
  ASSUME NEW t \in Documents, NEW rs, Spread(t, rs)
  PROVE  /\ Len(rs) \in Nat /\ Len(t) \in Nat /\ rs \in Seq(Spans)
         /\ \A i \in 1..Len(rs) :
              /\ rs[i] \in Spans /\ Inside(t, rs[i]) /\ Low(rs[i]) \in Nat /\ High(rs[i]) \in Nat
              /\ High(rs[i]) <= Len(t) /\ Low(rs[i]) <= High(rs[i])
         /\ \A i \in 1..Len(rs), j \in 1..Len(rs) : i < j => High(rs[i]) <= Low(rs[j])
<1>1. rs \in Seq(Spans) /\ Len(rs) \in Nat /\ Len(t) \in Nat
  BY DEF Spread, Documents
<1>2. ASSUME NEW i \in 1..Len(rs)
      PROVE  /\ rs[i] \in Spans /\ Inside(t, rs[i]) /\ Low(rs[i]) \in Nat /\ High(rs[i]) \in Nat
             /\ High(rs[i]) <= Len(t) /\ Low(rs[i]) <= High(rs[i])
  <2>1. rs[i] \in Spans /\ Inside(t, rs[i])
    BY <1>1 DEF Spread
  <2> QED BY <2>1, <1>1, SpanType, InsideIs
<1>3. \A i \in 1..Len(rs), j \in 1..Len(rs) : i < j => High(rs[i]) <= Low(rs[j])
  <2> TAKE i \in 1..Len(rs), j \in 1..Len(rs)
  <2>1. i < j => Parted(rs[i], rs[j])
    BY DEF Spread
  <2>2. High(rs[i]) \in Nat /\ Low(rs[j]) \in Nat
    BY <1>2
  <2> QED BY <2>1, <2>2 DEF Parted
<1> QED BY <1>1, <1>2, <1>3

\* One range replaced, with the others in front of it still to come.
LEMMA PlacingStep ==
  ASSUME NEW b, Shaped(b), NEW rs, Spread(b.text, rs), NEW i \in 1..Len(rs),
         NEW s, Placing(b, rs, s, i + 1),
         NEW ins \in Seq(Typeable), NEW raw, raw => ins \in Documents
  PROVE  LET q == ReplaceCaret(s, rs[i], ins, raw)
         IN /\ Placing(b, rs, q, i) /\ Inside(s.b.text, rs[i])
            /\ CaretReplaced(s, rs[i], q, WriteAt(AtRange(s.b, rs[i]), ins, rs[i][2], raw))
<1> DEFINE n == Len(rs)
<1>0. /\ n \in Nat /\ b.text \in Documents /\ Len(b.text) \in Nat /\ rs \in Seq(Spans)
      /\ \A k \in 1..n : /\ rs[k] \in Spans /\ Inside(b.text, rs[k]) /\ Low(rs[k]) \in Nat
                         /\ High(rs[k]) \in Nat /\ High(rs[k]) <= Len(b.text) /\ Low(rs[k]) <= High(rs[k])
      /\ \A k \in 1..n, j \in 1..n : k < j => High(rs[k]) <= Low(rs[j])
  BY ShapedType, SpreadRanges
<1> DEFINE r == rs[i] q == ReplaceCaret(s, r, ins, raw)
           a == Ahead(b.text, rs, i + 1)
           wrote == WriteAt(AtRange(s.b, r), ins, r[2], raw)
<1>1. s \in Trials
  BY DEF Placing
<1>2. a \in Nat /\ High(r) <= a /\ Ahead(b.text, rs, i) = Low(r) /\ r \in Spans
      /\ Low(r) \in Nat /\ High(r) \in Nat /\ Low(r) <= High(r)
  <2>1. CASE i = n
    <3>1. a = Len(b.text) /\ Ahead(b.text, rs, i) = Low(r)
      BY <2>1, <1>0 DEF Ahead
    <3> HIDE DEF a
    <3> QED BY <3>1, <1>0
  <2>2. CASE i # n
    <3>1. a = Low(rs[i + 1]) /\ Ahead(b.text, rs, i) = Low(r) /\ i + 1 \in 1..n
      BY <2>2, <1>0 DEF Ahead
    <3> HIDE DEF a
    <3> QED BY <3>1, <1>0
  <2> QED BY <2>1, <2>2
<1>3. /\ Shaped(s.b) /\ s.b.text \in Documents /\ Len(s.b.text) \in Nat /\ s.carets \in Seq(Nat)
      /\ Len(s.carets) \in Nat
  BY <1>1, ShapedType DEF Trials
<1>4. /\ s.b.others = b.others /\ Begins(s.b.text, b.text, a) /\ Len(s.carets) = n - i
      /\ \A j \in 1..Len(s.carets) : a <= s.carets[j]
      /\ b.full => s.b.full
  <2>1. n + 1 - (i + 1) = n - i
    BY <1>0
  <2> QED BY <1>1, <2>1 DEF Placing
<1> HIDE DEF a, r
<1>5. Inside(s.b.text, r) /\ \A j \in 1..Len(s.carets) : High(r) <= s.carets[j]
  <2>1. a <= Len(s.b.text)
    BY <1>4 DEF Begins
  <2>2. High(r) <= Len(s.b.text)
    BY <2>1, <1>2, <1>3
  <2>3. \A j \in 1..Len(s.carets) : s.carets[j] \in Nat
    BY <1>3
  <2>4. \A j \in 1..Len(s.carets) : High(r) <= s.carets[j]
    BY <1>2, <1>4, <2>3
  <2> QED BY <1>2, <1>3, <2>2, <2>4, InsideIs
<1>6. CaretReplaced(s, r, q, wrote)
  BY <1>1, <1>2, <1>5, ReplaceCaretIs
<1> HIDE DEF q, wrote
<1>7. /\ q \in Trials /\ q.b = wrote /\ q.b.others = s.b.others
      /\ Begins(wrote.text, s.b.text, Low(r))
      /\ Len(q.carets) = Len(s.carets) + 1
      /\ \A j \in 1..Len(q.carets) : Low(r) <= q.carets[j]
      /\ s.b.full => wrote.full
  BY <1>6 DEF CaretReplaced
<1>8. Begins(q.b.text, b.text, Low(r))
  <2>1. q.b.text \in Documents /\ Len(q.b.text) \in Nat
    BY <1>7, ShapedType DEF Trials
  <2>2. Low(r) <= a
    BY <1>2
  <2>3. \A k \in 1..Low(r) : k \in 1..a
    BY <1>2, <2>2
  <2>4. Low(r) <= Len(b.text)
    BY <1>2, <1>4, <1>0, <2>2 DEF Begins
  <2>5. \A k \in 1..Low(r) : q.b.text[k] = b.text[k]
    BY <1>4, <1>7, <2>3 DEF Begins
  <2> QED BY <1>7, <2>4, <2>5 DEF Begins
<1>9. Len(q.carets) = n + 1 - i
  <2>1. (n - i) + 1 = n + 1 - i
    BY <1>0
  <2> QED BY <2>1, <1>4, <1>7
<1>10. b.full => q.b.full
  BY <1>4, <1>7
<1>11. Placing(b, rs, q, i)
  <2>1. q.b.others = b.others
    BY <1>4, <1>7
  <2> QED BY <1>2, <1>7, <1>8, <1>9, <1>10, <2>1 DEF Placing
<1> QED BY <1>5, <1>6, <1>11 DEF q, r, wrote

\* Replacing the ranges one after the other does not get in its own way.
LEMMA ReplacedIs ==
  ASSUME NEW b, Shaped(b), NEW rs, Spread(b.text, rs), NEW texts, NEW raw,
         \A i \in 1..Len(rs) : texts[i] \in Seq(Typeable) /\ (raw => texts[i] \in Documents)
  PROVE  \E f : Replacing(f, b, rs, texts, raw) /\ Replaced(b, rs, texts, raw) = f[1]
<1> DEFINE n == Len(rs)
           e == Fresh(b)
           P == {p \in Trials \X (1..n + 1) : Placing(b, rs, p[1], p[2])}
           F == [p \in Trials \X (1..n) |-> ReplaceCaret(p[1], rs[p[2]], texts[p[2]], raw)]
<1>0. n \in Nat /\ b.text \in Documents /\ Len(b.text) \in Nat
  BY ShapedType DEF Spread
<1>1. <<e, n + 1>> \in P
  <2>1. e \in Trials /\ e.b = b /\ e.carets = <<>> /\ Len(e.carets) = 0
    BY DEF Trials, Fresh, Shaped
  <2>2. Begins(b.text, b.text, Len(b.text))
    BY <1>0 DEF Begins
  <2>3. Ahead(b.text, rs, n + 1) = Len(b.text)
    BY <1>0 DEF Ahead
  <2> HIDE DEF e
  <2>4. Placing(b, rs, e, n + 1)
    BY <2>1, <2>2, <2>3, <1>0 DEF Placing
  <2> QED BY <2>1, <2>4, <1>0
<1> HIDE DEF e
<1>2. ASSUME NEW i \in 1..n, NEW s, <<s, i + 1>> \in P
      PROVE  <<ReplaceCaret(s, rs[i], texts[i], raw), i>> \in P /\ s \in Trials
  <2>1. s \in Trials /\ Placing(b, rs, s, i + 1)
    BY <1>2
  <2>2. texts[i] \in Seq(Typeable) /\ (raw => texts[i] \in Documents) /\ i \in 1..Len(rs)
    OBVIOUS
  <2> DEFINE q == ReplaceCaret(s, rs[i], texts[i], raw)
  <2>3. Placing(b, rs, q, i)
    BY <2>1, <2>2, PlacingStep
  <2> HIDE DEF q
  <2>4. q \in Trials /\ i \in 1..n + 1
    BY <2>3, <1>0 DEF Placing
  <2> QED BY <2>1, <2>3, <2>4 DEF q
<1>3. P \subseteq Trials \X (1..n + 1)
  OBVIOUS
<1> HIDE DEF P
<1>4. ASSUME NEW i \in 1..n, NEW s, <<s, i + 1>> \in P PROVE <<F[<<s, i>>], i>> \in P
  <2>1. F[<<s, i>>] = ReplaceCaret(s, rs[i], texts[i], raw)
    BY <1>4, <1>2
  <2> QED BY <2>1, <1>4, <1>2
<1>5. PICK g : RecursiveDown(g, n, Trials, P, e, F)
  <2> HIDE DEF n, F
  <2>1. \A i \in 1..n : \A s : <<s, i + 1>> \in P => <<F[<<s, i>>], i>> \in P
    BY <1>4
  <2> QED BY <1>0, <1>1, <1>3, <2>1, RecursionDown
<1>6. g = [i \in 1..n + 1 |-> IF i > n THEN e ELSE ReplaceCaret(g[i + 1], rs[i], texts[i], raw)]
  <2>1. ASSUME NEW i \in 1..n PROVE g[i] = ReplaceCaret(g[i + 1], rs[i], texts[i], raw)
    <3>1. <<g[i + 1], i + 1>> \in P
      BY <1>0, <1>5 DEF RecursiveDown
    <3> QED BY <3>1, <1>5, <1>2 DEF RecursiveDown
  <2>2. \A i \in 1..n + 1 : g[i] = IF i > n THEN e ELSE ReplaceCaret(g[i + 1], rs[i], texts[i], raw)
    <3> TAKE i \in 1..n + 1
    <3>1. i > n => i = n + 1
      BY <1>0
    <3>2. ~(i > n) => i \in 1..n
      BY <1>0
    <3>3. g[n + 1] = e
      BY <1>5 DEF RecursiveDown
    <3> QED BY <2>1, <3>1, <3>2, <3>3
  <2> QED BY <2>2, <1>5 DEF RecursiveDown
<1>7. \E f : /\ f = [i \in 1..n + 1 |-> IF i > n THEN e ELSE ReplaceCaret(f[i + 1], rs[i], texts[i], raw)]
             /\ Replaced(b, rs, texts, raw) = f[1]
  BY <1>6 DEF Replaced, e, Fresh
<1>8. PICK f : /\ f = [i \in 1..n + 1 |-> IF i > n THEN e ELSE ReplaceCaret(f[i + 1], rs[i], texts[i], raw)]
               /\ Replaced(b, rs, texts, raw) = f[1]
  BY <1>7
<1> DEFINE S == {i \in 1..n + 1 : <<f[i], i>> \in P}
<1>9. n + 1 \in S
  <2>1. f[n + 1] = e
    <3>1. n + 1 \in 1..n + 1 /\ n + 1 > n
      BY <1>0
    <3> HIDE DEF n
    <3> QED BY <1>8, <3>1
  <2>2. n + 1 \in 1..n + 1
    BY <1>0
  <2>3. <<f[n + 1], n + 1>> \in P
    BY <1>1, <2>1
  <2> HIDE DEF P, n, e
  <2> QED BY <2>2, <2>3
<1>10. ASSUME NEW i \in 1..n PROVE f[i] = ReplaceCaret(f[i + 1], rs[i], texts[i], raw)
  <2>1. i \in 1..n + 1 /\ ~(i > n)
    BY <1>0
  <2> HIDE DEF n
  <2> QED BY <1>8, <2>1
<1>11. ASSUME NEW i \in 1..n, i + 1 \in S PROVE i \in S
  <2>1. <<f[i + 1], i + 1>> \in P
    BY <1>11
  <2>2. <<ReplaceCaret(f[i + 1], rs[i], texts[i], raw), i>> \in P
    BY <2>1, <1>2
  <2>3. i \in 1..n + 1
    BY <1>0
  <2> QED BY <2>2, <2>3, <1>10
<1>12. \A i \in 1..n + 1 : Placing(b, rs, f[i], i)
  <2>1. \A i \in 1..n + 1 : i \in S
    <3> HIDE DEF S, n
    <3> QED BY <1>0, <1>9, <1>11, InductionDown
  <2> QED BY <2>1 DEF P
<1>13. f[n + 1] = Fresh(b)
  BY <1>8, <1>0 DEF e
<1>14. Replacing(f, b, rs, texts, raw)
  BY <1>10, <1>12, <1>13 DEF Replacing
<1> HIDE DEF S, n, P, F, e
<1> QED BY <1>8, <1>14

\* A buffer with one caret and no rectangle.
WithoutOthers(b) == [b EXCEPT !.others = <<>>, !.rectangle = <<>>]

\* The buffer without its further carets.
LEMMA AloneIs ==
  ASSUME NEW b, Shaped(b)
  PROVE  LET new == WithoutOthers(b)
         IN /\ Valid(new) /\ new.text = b.text /\ new.others = <<>> /\ new.full = b.full
            /\ new.cursor = b.cursor /\ new.selection = b.selection
<1> DEFINE new == WithoutOthers(b)
<1>0. <<>> \in Seq(Spans) /\ <<>> \in Selections
  BY DEF Selections
<1>1. /\ new \in Buffers /\ new.text = b.text /\ new.others = <<>> /\ new.full = b.full
      /\ new.cursor = b.cursor /\ new.selection = b.selection
  BY <1>0 DEF Shaped, Buffers, WithoutOthers
<1> HIDE DEF new
<1>2. Shaped(new)
  BY <1>1 DEF Shaped
<1>3. Valid(new)
  BY <1>1, <1>2, AloneIsValid
<1> QED BY <1>1, <1>3 DEF new

\* The carets that have been placed become the selections.
Settle(s) == SetRanges(s.b, [i \in 1..Len(s.carets) |-> <<s.carets[i], s.carets[i]>>])

\* The carets left by a write become the selections, one for every place.
LEMMA SettleIs ==
  ASSUME NEW s \in Trials, Len(s.carets) > 0
  PROVE  /\ Valid(Settle(s)) /\ Settle(s).text = s.b.text /\ Settle(s).full = s.b.full
         /\ Empty(Ranges(Settle(s)))
         /\ Members(Ranges(Settle(s))) = {<<s.carets[i], s.carets[i]>> : i \in 1..Len(s.carets)}
<1> DEFINE n == Len(s.carets) c(i) == <<s.carets[i], s.carets[i]>> rs == [i \in 1..n |-> c(i)]
<1>0. Shaped(s.b) /\ n \in Nat /\ Len(s.b.text) \in Nat /\ \A i \in 1..n : s.carets[i] \in Nat
  BY ShapedType DEF Trials
<1>1. \A i \in 1..n : /\ c(i) \in Spans /\ ~Wide(c(i))
                      /\ s.carets[i] <= Len(s.b.text) => Inside(s.b.text, c(i))
  BY <1>0 DEF Spans, Wide, Inside
<1>2. Settle(s) = SetRanges(s.b, rs)
  BY DEF Settle
<1> DEFINE cs == {c(i) : i \in 1..n}
<1>3. cs = {<<s.carets[i], s.carets[i]>> : i \in 1..Len(s.carets)}
  OBVIOUS
<1>4. \A i \in 1..n : Inside(s.b.text, c(i))
  <2>1. \A i \in 1..n : s.carets[i] <= Len(s.b.text)
    BY DEF Trials
  <2> QED BY <1>1, <2>1
<1> HIDE DEF c
<1>5. rs \in Seq(Spans) /\ Len(rs) = n /\ \A i \in 1..n : rs[i] = c(i)
  <2> HIDE DEF n
  <2> QED BY <1>0, <1>1
<1>6. Members(rs) = cs
  <2> HIDE DEF rs
  <2> QED BY <1>5 DEF Members
<1> HIDE DEF rs, cs
<1>7. rs # <<>>
  BY <1>5
<1>8. Empty(rs)
  BY <1>1, <1>5 DEF Empty
<1> DEFINE new == SetRanges(s.b, rs)
<1>9. /\ Valid(new) /\ new.text = s.b.text /\ new.full = s.b.full
      /\ Empty(rs) /\ (\A i \in 1..Len(rs) : Inside(s.b.text, rs[i])) =>
           Empty(Ranges(new)) /\ Members(Ranges(new)) = Members(rs)
  BY <1>0, <1>5, <1>7, SetRangesIs
<1> HIDE DEF new
<1>10. Empty(Ranges(new)) /\ Members(Ranges(new)) = cs
  BY <1>4, <1>5, <1>6, <1>8, <1>9
<1> QED BY <1>2, <1>3, <1>9, <1>10 DEF new

\* write_multiple_texts is refused, or replaces every range and settles.
LEMMA WriteMultipleIs ==
  ASSUME NEW b, NEW texts, NEW raw
  PROVE  \/ WriteMultiple(b, texts, raw) = Refused(b)
         \/ WriteMultiple(b, texts, raw) = Settle(Replaced(WithoutOthers(b), Ranges(b), texts, raw))
BY DEF WriteMultiple, Refused, Settle, WithoutOthers

\* A refused write keeps the buffer valid.
LEMMA RefusedValid ==
  ASSUME NEW b, Valid(b)
  PROVE  Valid(Refused(b)) /\ Ranges(Refused(b)) = Ranges(b)
<1>1. Refused(b) = [b EXCEPT !.full = TRUE]
  BY DEF Refused
<1>2. Refused(b) \in Buffers /\ Refused(b).text = b.text /\ Refused(b).cursor = b.cursor
      /\ Refused(b).others = b.others /\ Refused(b).selection = b.selection
  BY RefusedIs DEF Valid, Shaped
<1> QED BY <1>2, SameCarets

\* There is a caret for every range, and a refusal on the way stays reported.
LEMMA ReplacedFits ==
  ASSUME NEW b, Valid(b), NEW texts, NEW raw,
         \A i \in 1..Len(Ranges(b)) : texts[i] \in Seq(Typeable) /\ (raw => texts[i] \in Documents)
  PROVE  LET s == Replaced(WithoutOthers(b), Ranges(b), texts, raw)
         IN /\ s \in Trials /\ Len(s.carets) = Len(Ranges(b)) /\ Len(s.carets) > 0
            /\ b.full => s.b.full
<1> DEFINE a == WithoutOthers(b) rs == Ranges(b) s == Replaced(a, rs, texts, raw)
<1>1. Shaped(a) /\ a.text = b.text /\ a.full = b.full
  BY AloneIs DEF Valid
<1>2. Spread(b.text, rs) /\ rs \in Seq(Spans) /\ rs # <<>>
  BY RangesIs
<1> HIDE DEF a, rs
<1>3. Spread(a.text, rs)
  BY <1>1, <1>2
<1>4. \A i \in 1..Len(rs) : texts[i] \in Seq(Typeable) /\ (raw => texts[i] \in Documents)
  BY DEF rs
<1>5. PICK f : Replacing(f, a, rs, texts, raw) /\ s = f[1]
  BY <1>1, <1>3, <1>4, ReplacedIs
<1> HIDE DEF s
<1>6. Len(rs) \in Nat /\ Len(rs) > 0
  BY <1>2
<1>7. Placing(a, rs, s, 1)
  BY <1>5, <1>6 DEF Replacing
<1>8. s \in Trials /\ Len(s.carets) = Len(rs) /\ (a.full => s.b.full)
  BY <1>6, <1>7 DEF Placing
<1>9. b.full => s.b.full
  BY <1>1, <1>8
<1> QED BY <1>6, <1>8, <1>9 DEF s, a, rs

\* write_multiple_texts keeps the buffer valid, whatever is written.
LEMMA WriteMultipleValid ==
  ASSUME NEW b, Valid(b), NEW texts, NEW raw,
         \A i \in 1..Len(Ranges(b)) : texts[i] \in Seq(Typeable) /\ (raw => texts[i] \in Documents)
  PROVE  Valid(WriteMultiple(b, texts, raw))
<1> DEFINE s == Replaced(WithoutOthers(b), Ranges(b), texts, raw)
<1>1. s \in Trials /\ Len(s.carets) > 0
  BY ReplacedFits
<1> HIDE DEF s
<1>2. Valid(Settle(s))
  BY <1>1, SettleIs
<1>3. Valid(Refused(b))
  BY RefusedValid
<1> QED BY <1>2, <1>3, WriteMultipleIs DEF s

\* The same text for every caret.
LEMMA SameTexts ==
  ASSUME NEW b, Valid(b), NEW ins
  PROVE  \A i \in 1..Len(Ranges(b)) : SameEverywhere(b, ins)[i] = ins
<1>1. Len(Ranges(b)) = Len(b.others) + 1
  BY RangesIs
<1> QED BY <1>1 DEF SameEverywhere

\* write_canon and write_raw keep the buffer valid.
LEMMA WriteValid ==
  ASSUME NEW b, Valid(b), NEW ins \in Seq(Typeable), NEW raw, raw => ins \in Documents
  PROVE  Valid(Write(b, ins, raw))
<1>1. CASE b.others # <<>>
  <2> DEFINE texts == SameEverywhere(b, ins)
  <2>1. \A i \in 1..Len(Ranges(b)) : texts[i] \in Seq(Typeable) /\ (raw => texts[i] \in Documents)
    BY SameTexts
  <2> HIDE DEF texts
  <2>2. Valid(WriteMultiple(b, texts, raw))
    BY <2>1, WriteMultipleValid
  <2> QED BY <1>1, <2>2 DEF Write, texts
<1>2. CASE b.others = <<>>
  <2> DEFINE new == WriteAt(b, ins, b.cursor, raw)
  <2>1. Shaped(b) /\ b.cursor \in 0..Len(b.text)
    BY ShapedType DEF Valid
  <2>2. Shaped(new) /\ new.others = b.others
    BY <2>1, WriteAtIs
  <2> HIDE DEF new
  <2>3. Valid(new)
    BY <2>2, <1>2, AloneIsValid
  <2> QED BY <1>2, <2>3 DEF Write, new
<1> QED BY <1>1, <1>2

-----------------------------------------------------------------------------
(***************************************************************************)
(* Deleting                                                                *)
(***************************************************************************)
\* Deleting between two offsets leaves the cursor at the first.
LEMMA DeleteBetweenIs ==
  ASSUME NEW b, Shaped(b), NEW from \in Nat, NEW to \in Nat, from <= to, to <= Len(b.text)
  PROVE  LET new == DeleteBetween(b, from, to)
         IN /\ Shaped(new) /\ new.others = b.others /\ new.full = b.full
            /\ new.text = Splice(b.text, from, to - from, <<>>) /\ new.cursor = from
            /\ new.selection = b.selection
<1> DEFINE u == Splice(b.text, from, to - from, <<>>) new == DeleteBetween(b, from, to)
<1>1. u \in Documents /\ from <= Len(u)
  <2>1. b.text \in Documents /\ <<>> \in Documents /\ Len(<<>>) = 0 /\ Len(b.text) \in Nat
    BY ShapedType DEF Documents
  <2>2. to - from \in Nat /\ from + (to - from) <= Len(b.text)
    BY <2>1
  <2>3. u \in Documents /\ from + Len(<<>>) <= Len(u)
    BY <2>1, <2>2, SpliceBegins
  <2> HIDE DEF u
  <2> QED BY <2>1, <2>3
<1>2. new = [b EXCEPT !.text = u, !.cursor = from]
  BY DEF DeleteBetween
<1> HIDE DEF u, new
<1>3. /\ new \in Buffers /\ new.text = u /\ new.cursor = from /\ new.others = b.others
      /\ new.full = b.full /\ new.selection = b.selection
  BY <1>1, <1>2 DEF Shaped, Buffers
<1>4. Shaped(new)
  BY <1>1, <1>3 DEF Shaped
<1> QED BY <1>3, <1>4 DEF new, u

\* Deleting what is selected, and the selection with it.
DeleteSelected(b, r) == [DeleteBetween(b, Low(r), High(r)) EXCEPT !.selection = <<>>]

\* Deleting a range leaves the further carets.
LEMMA DeleteSelectedIs ==
  ASSUME NEW b, Shaped(b), NEW r \in Spans, Inside(b.text, r)
  PROVE  Shaped(DeleteSelected(b, r)) /\ DeleteSelected(b, r).others = b.others
<1> DEFINE d == DeleteBetween(b, Low(r), High(r)) new == DeleteSelected(b, r)
<1>1. Shaped(d) /\ d.others = b.others
  <2>1. Low(r) \in Nat /\ High(r) \in Nat /\ Low(r) <= High(r) /\ High(r) <= Len(b.text)
    BY ShapedType, SpanType, InsideIs
  <2> QED BY <2>1, DeleteBetweenIs
<1>2. new = [d EXCEPT !.selection = <<>>]
  BY DEF DeleteSelected
<1> HIDE DEF d, new
<1>3. <<>> \in Selections
  BY DEF Selections
<1>4. /\ new \in Buffers /\ new.others = d.others /\ new.selection = <<>>
      /\ new.text = d.text /\ new.cursor = d.cursor
  BY <1>1, <1>2, <1>3 DEF Shaped, Buffers
<1>5. Shaped(new)
  BY <1>1, <1>4 DEF Shaped
<1> QED BY <1>1, <1>4, <1>5 DEF new

\* delete with one caret keeps the buffer valid.
LEMMA DeleteAloneValid ==
  ASSUME NEW b, Valid(b), b.others = <<>>, NEW word, NEW delta \in Int
  PROVE  Valid(DeleteAlone(b, word, delta))
<1> DEFINE r == IF Selected(b) THEN Primary(b)
                ELSE <<b.cursor, Moved(b.text, b.cursor, word, delta)>>
<1>0. /\ Shaped(b) /\ b.text \in Documents /\ b.cursor \in 0..Len(b.text) /\ Len(b.text) \in Nat
      /\ Primary(b) \in Spans /\ Inside(b.text, Primary(b))
  BY ShapedType, PrimaryType DEF Valid
<1>1. r \in Spans /\ Inside(b.text, r)
  <2>1. Moved(b.text, b.cursor, word, delta) \in 0..Len(b.text)
    BY <1>0, MovedType
  <2> QED BY <2>1, <1>0 DEF Spans, Inside
<1>2. DeleteAlone(b, word, delta) = IF ~Wide(r) THEN b ELSE DeleteSelected(b, r)
  BY DEF DeleteAlone, DeleteSelected
<1> HIDE DEF r
<1>3. Valid(DeleteSelected(b, r))
  <2>1. Shaped(DeleteSelected(b, r)) /\ DeleteSelected(b, r).others = <<>>
    BY <1>0, <1>1, DeleteSelectedIs
  <2> QED BY <2>1, AloneIsValid
<1> QED BY <1>2, <1>3

\* delete with several carets keeps the buffer valid.
LEMMA DeleteEachValid ==
  ASSUME NEW b, Valid(b), NEW stretch, \A o \in 0..Len(b.text) : stretch[o] \in 0..Len(b.text)
  PROVE  Valid(DeleteEach(b, stretch))
<1> DEFINE rs == Ranges(b) to(r) == IF Wide(r) THEN r ELSE <<r[1], stretch[r[1]]>>
           f == [i \in 1..Len(rs) |-> to(rs[i])]
           wide == SetRanges(b, f)
<1>1. ASSUME NEW i \in 1..Len(rs) PROVE f[i] \in Spans
  <2>1. rs[i] \in Spans /\ rs[i][1] \in 0..Len(b.text)
    BY RangeAt
  <2>2. stretch[rs[i][1]] \in 0..Len(b.text) /\ Len(b.text) \in Nat
    BY <2>1, ShapedType DEF Valid
  <2>3. to(rs[i]) \in Spans
    BY <2>1, <2>2 DEF Spans
  <2> QED BY <2>3
<1>2. Valid(wide)
  <2> DEFINE g == [i \in 1..Len(rs) |-> f[i]]
  <2>1. g = f
    OBVIOUS
  <2> HIDE DEF f
  <2>2. Valid(SetRanges(b, g))
    BY <1>1, ChangeRanges
  <2> HIDE DEF g
  <2> QED BY <2>1, <2>2
<1>3. DeleteEach(b, stretch) = WriteMultiple(wide, SameEverywhere(wide, <<>>), TRUE)
  BY DEF DeleteEach
<1> HIDE DEF wide
<1> DEFINE texts == SameEverywhere(wide, <<>>)
<1>4. \A i \in 1..Len(Ranges(wide)) : texts[i] \in Seq(Typeable) /\ (TRUE => texts[i] \in Documents)
  <2>1. \A i \in 1..Len(Ranges(wide)) : texts[i] = <<>>
    BY <1>2, SameTexts
  <2>2. <<>> \in Seq(Typeable) /\ <<>> \in Documents
    BY DEF Documents
  <2> HIDE DEF texts
  <2> QED BY <2>1, <2>2
<1> HIDE DEF texts
<1>5. Valid(WriteMultiple(wide, texts, TRUE))
  BY <1>2, <1>4, WriteMultipleValid
<1> QED BY <1>3, <1>5 DEF texts

\* delete keeps the buffer valid.
LEMMA DeleteValid ==
  ASSUME NEW b, Valid(b), NEW word, NEW delta \in Int
  PROVE  Valid(Delete(b, word, delta))
<1> DEFINE to == [o \in 0..Len(b.text) |-> Moved(b.text, o, word, delta)]
<1>1. \A o \in 0..Len(b.text) : to[o] \in 0..Len(b.text)
  <2>1. b.text \in Documents
    BY ShapedType DEF Valid
  <2> QED BY <2>1, MovedType
<1>2. Delete(b, word, delta) = IF b.others # <<>> THEN DeleteEach(b, to) ELSE DeleteAlone(b, word, delta)
  BY DEF Delete
<1> HIDE DEF to
<1> QED BY <1>1, <1>2, DeleteEachValid, DeleteAloneValid

\* backspace_target never moves on.
LEMMA BackspaceTargetType ==
  ASSUME NEW t \in Documents, NEW o \in 0..Len(t), NEW word
  PROVE  BackspaceTarget(t, o, word) \in 0..o
<1> DEFINE start == RowStart(t, o) most == IF word THEN 0 ELSE PreviousTabStop(o - start)
           from == Indentation(t, start, most)
<1>0. Len(t) \in Nat
  BY DEF Documents
<1>1. start \in 0..o /\ start \in 0..Len(t)
  BY <1>0, RowBounds
<1>2. Moved(t, o, word, -1) \in 0..o
  <2>1. WordBackward(t, o) \in 0..o
    BY WordBackwardType
  <2>2. Smaller(Larger(o + (-1), 0), Len(t)) \in 0..o
    BY <1>0 DEF Smaller, Larger
  <2> QED BY <2>1, <2>2 DEF Moved
<1>3. BackspaceTarget(t, o, word)
        = IF o > start /\ from + Indentation(t, start + from, o - start - from) >= o - start
          THEN start + from ELSE Moved(t, o, word, -1)
  BY DEF BackspaceTarget
<1> HIDE DEF start
<1>4. most \in Nat /\ most <= o - start
  <2>1. o - start \in Nat
    BY <1>0, <1>1
  <2>2. PreviousTabStop(o - start) \in Nat /\ PreviousTabStop(o - start) <= o - start
    BY <2>1, TabStops
  <2> QED BY <2>1, <2>2
<1> HIDE DEF most
<1>5. from \in Nat /\ from <= Larger(most, 0)
  <2>1. most \in Int
    BY <1>4
  <2> QED BY <1>1, <2>1, IndentationType
<1> HIDE DEF from
<1>6. start + from \in 0..o
  BY <1>0, <1>1, <1>4, <1>5 DEF Larger
<1> QED BY <1>2, <1>3, <1>6

\* backspace_with_auto_unindent keeps the buffer valid.
LEMMA BackspaceValid ==
  ASSUME NEW b, Valid(b), NEW word
  PROVE  Valid(Backspace(b, word))
<1> DEFINE to == [o \in 0..Len(b.text) |-> BackspaceTarget(b.text, o, word)]
           back(o) == IF o = b.cursor THEN b ELSE DeleteBetween(b, o, b.cursor)
<1>0. Shaped(b) /\ b.text \in Documents /\ Len(b.text) \in Nat /\ b.cursor \in 0..Len(b.text)
  BY ShapedType DEF Valid
<1>1. \A o \in 0..Len(b.text) : to[o] \in 0..o
  BY <1>0, BackspaceTargetType
<1>2. Backspace(b, word) = CASE b.others # <<>> -> DeleteEach(b, to)
                             [] b.others = <<>> /\ HasSelection(b) -> DeleteAlone(b, word, -1)
                             [] OTHER -> back(to[b.cursor])
  BY DEF Backspace
<1> HIDE DEF to
<1>3. CASE b.others # <<>>
  <2>1. \A o \in 0..Len(b.text) : to[o] \in 0..Len(b.text)
    BY <1>0, <1>1
  <2>2. Valid(DeleteEach(b, to))
    BY <2>1, DeleteEachValid
  <2> QED BY <1>2, <1>3, <2>2
<1>4. CASE b.others = <<>>
  <2>1. Valid(DeleteAlone(b, word, -1))
    BY <1>4, DeleteAloneValid
  <2> DEFINE o == to[b.cursor] new == DeleteBetween(b, o, b.cursor)
  <2>2. o \in Nat /\ o <= b.cursor /\ b.cursor \in Nat /\ b.cursor <= Len(b.text)
    BY <1>0, <1>1
  <2> HIDE DEF o
  <2>3. Shaped(new) /\ new.others = b.others
    BY <1>0, <2>2, DeleteBetweenIs
  <2> HIDE DEF new
  <2>4. Valid(new)
    BY <1>4, <2>3, AloneIsValid
  <2>5. Valid(back(o))
    BY <2>4 DEF new
  <2> HIDE DEF back
  <2> QED BY <1>2, <1>4, <2>1, <2>5 DEF o
<1> QED BY <1>3, <1>4

-----------------------------------------------------------------------------
(***************************************************************************)
(* All selections at once                                                  *)
(***************************************************************************)
\* The sum of a document's parts: what lies in front of each range, and ins in its place.
Sums == [text : Documents, from : Nat, carets : SUBSET Nat]
Added(t, s, r, ins) ==
  [text |-> s.text \o Extract(t, s.from, Low(r) - s.from) \o ins,
   from |-> High(r),
   carets |-> s.carets \cup {Len(s.text) + Low(r) - s.from + Len(ins)}]
Nothing == [text |-> <<>>, from |-> 0, carets |-> {}]
Closed(t, s) == [text |-> s.text \o Extract(t, s.from, Len(t) - s.from), carets |-> s.carets]

\* How far the sum has come before and after range i, and where its carets are.
From(rs, i) == IF i = 0 THEN 0 ELSE High(rs[i])
Adding(f, t, rs, texts) ==
  /\ f[0] = Nothing
  /\ \A i \in 0..Len(rs) : f[i] \in Sums /\ f[i].from = From(rs, i)
  /\ \A i \in 1..Len(rs) : f[i] = Added(t, f[i - 1], rs[i], texts[i])
  /\ \A i \in 0..Len(rs) : f[i].carets = {Len(f[m].text) : m \in 1..i}

\* A range begins behind the one before it.
LEMMA FromIs ==
  ASSUME NEW t \in Documents, NEW rs, Spread(t, rs), NEW i \in 1..Len(rs)
  PROVE  From(rs, i - 1) \in Nat /\ From(rs, i - 1) <= Low(rs[i])
<1>1. /\ Len(rs) \in Nat
      /\ \A k \in 1..Len(rs) : Low(rs[k]) \in Nat /\ High(rs[k]) \in Nat
      /\ \A k \in 1..Len(rs), j \in 1..Len(rs) : k < j => High(rs[k]) <= Low(rs[j])
  BY SpreadRanges
<1>2. CASE i = 1
  BY <1>1, <1>2 DEF From
<1>3. CASE i # 1
  <2>1. i - 1 \in 1..Len(rs) /\ i - 1 < i /\ i - 1 # 0
    BY <1>1, <1>3
  <2> QED BY <1>1, <2>1 DEF From
<1> QED BY <1>2, <1>3

\* Two texts one after the other.
LEMMA Joining ==
  ASSUME NEW u \in Documents, NEW v \in Documents
  PROVE  u \o v \in Documents /\ Len(u \o v) = Len(u) + Len(v) /\ Len(u) \in Nat /\ Len(v) \in Nat
BY ConcatProperties DEF Documents

Grows(t, s, r, ins, u) ==
  /\ u \in Sums /\ u.from = High(r)
  /\ Len(u.text) = Len(s.text) + Low(r) - s.from + Len(ins)
  /\ u.carets = s.carets \cup {Len(u.text)}
  /\ u.text = (s.text \o Extract(t, s.from, Low(r) - s.from)) \o ins

\* One step of replacing all selections at once.
LEMMA AddedIs ==
  ASSUME NEW t \in Documents, NEW s \in Sums, NEW r \in Spans, Inside(t, r), s.from <= Low(r),
         NEW ins \in Documents
  PROVE  Grows(t, s, r, ins, Added(t, s, r, ins))
<1> DEFINE g == Low(r) - s.from x == Extract(t, s.from, g) u == Added(t, s, r, ins)
           y == s.text \o x z == y \o ins
<1>0. /\ s.text \in Documents /\ s.from \in Nat /\ s.carets \in SUBSET Nat
      /\ Low(r) \in Nat /\ High(r) \in Nat /\ Low(r) <= High(r) /\ High(r) <= Len(t)
      /\ Len(t) \in Nat /\ Len(s.text) \in Nat /\ Len(ins) \in Nat
  BY SpanType, InsideIs DEF Sums, Documents
<1>1. g \in Nat /\ s.from + g <= Len(t)
  BY <1>0
<1> DEFINE l == Len(s.text) + Low(r) - s.from + Len(ins)
<1>2. l = Len(s.text) + g + Len(ins)
  BY <1>0
<1>3. u = [text |-> z, from |-> High(r), carets |-> s.carets \cup {l}]
  BY DEF Added
<1> HIDE DEF g, l, u
<1>4. x \in Documents /\ Len(x) = g
  BY <1>0, <1>1, ExtractProperties DEF Documents
<1> HIDE DEF x
<1>5. y \in Documents /\ Len(y) = Len(s.text) + g
  BY <1>0, <1>4, Joining
<1> HIDE DEF y
<1>6. z \in Documents /\ Len(z) = Len(s.text) + g + Len(ins)
  <2>1. z \in Documents /\ Len(z) = Len(y) + Len(ins)
    BY <1>5, Joining
  <2> HIDE DEF z
  <2> QED BY <2>1, <1>0, <1>5
<1> HIDE DEF z
<1>7. l \in Nat /\ Len(z) = l
  BY <1>0, <1>1, <1>2, <1>6
<1>8. /\ u.text = z /\ u.from = High(r) /\ u.carets = s.carets \cup {l}
      /\ u \in Sums
  BY <1>0, <1>3, <1>6, <1>7 DEF Sums
<1>9. Grows(t, s, r, ins, u)
  BY <1>7, <1>8 DEF l, z, y, x, g, Grows
<1> QED BY <1>9 DEF u

SumOf(t, rs, texts) ==
  LET done[i \in 0..Len(rs)] == IF i = 0 THEN Nothing ELSE Added(t, done[i - 1], rs[i], texts[i])
  IN Closed(t, done[Len(rs)])

\* Replacing all selections at once, as a function over them.
LEMMA SumOfIs ==
  ASSUME NEW t \in Documents, NEW rs, Spread(t, rs), NEW texts,
         \A i \in 1..Len(rs) : texts[i] \in Documents
  PROVE  \E f : Adding(f, t, rs, texts) /\ SumOf(t, rs, texts) = Closed(t, f[Len(rs)])
<1> DEFINE n == Len(rs) e == Nothing
           P == {p \in Sums \X (0..n) : p[1].from = From(rs, p[2])}
           F == [p \in Sums \X (1..n) |-> Added(t, p[1], rs[p[2]], texts[p[2]])]
<1>0. /\ n \in Nat
      /\ \A i \in 1..n : rs[i] \in Spans /\ Inside(t, rs[i])
      /\ \A i \in 1..n : From(rs, i - 1) \in Nat /\ From(rs, i - 1) <= Low(rs[i])
  BY SpreadRanges, FromIs
<1>1. <<e, 0>> \in P
  <2>1. e \in Sums /\ e.from = From(rs, 0)
    BY DEF Nothing, Sums, Documents, From
  <2> HIDE DEF e
  <2> QED BY <2>1, <1>0
<1> HIDE DEF e
<1>2. ASSUME NEW i \in 1..n, NEW s, <<s, i - 1>> \in P
      PROVE  /\ <<Added(t, s, rs[i], texts[i]), i>> \in P /\ s \in Sums
             /\ Added(t, s, rs[i], texts[i]).carets
                  = s.carets \cup {Len(Added(t, s, rs[i], texts[i]).text)}
  <2>1. s \in Sums /\ s.from = From(rs, i - 1)
    BY <1>2
  <2> DEFINE r == rs[i] ins == texts[i] u == Added(t, s, r, ins)
  <2>2. s.from <= Low(r) /\ r \in Spans /\ Inside(t, r) /\ ins \in Documents
    BY <1>0, <2>1
  <2> HIDE DEF r, ins
  <2>3. u \in Sums /\ u.from = High(r) /\ u.carets = s.carets \cup {Len(u.text)}
    <3>1. Grows(t, s, r, ins, u)
      BY <2>1, <2>2, AddedIs
    <3> HIDE DEF u
    <3> QED BY <3>1 DEF Grows
  <2> HIDE DEF u
  <2>4. u.from = From(rs, i) /\ i \in 0..n
    BY <2>3, <1>0 DEF From, r
  <2>5. <<u, i>> \in P
    BY <2>3, <2>4
  <2> HIDE DEF P
  <2> QED BY <2>1, <2>3, <2>5 DEF u, r, ins
<1>3. P \subseteq Sums \X (0..n)
  OBVIOUS
<1> HIDE DEF P
<1>4. ASSUME NEW i \in 1..n, NEW s, <<s, i - 1>> \in P PROVE <<F[<<s, i>>], i>> \in P
  <2>1. F[<<s, i>>] = Added(t, s, rs[i], texts[i])
    BY <1>4, <1>2
  <2> QED BY <2>1, <1>4, <1>2
<1>5. PICK g : Recursive(g, n, Sums, P, e, F)
  <2> HIDE DEF n, F
  <2>1. \A i \in 1..n : \A s : <<s, i - 1>> \in P => <<F[<<s, i>>], i>> \in P
    BY <1>4
  <2> QED BY <1>0, <1>1, <1>3, <2>1, Recursion
<1>6. g = [i \in 0..n |-> IF i = 0 THEN e ELSE Added(t, g[i - 1], rs[i], texts[i])]
  <2>1. ASSUME NEW i \in 1..n PROVE g[i] = Added(t, g[i - 1], rs[i], texts[i])
    <3>1. <<g[i - 1], i - 1>> \in P
      BY <1>5 DEF Recursive
    <3> QED BY <3>1, <1>5, <1>2 DEF Recursive
  <2>2. \A i \in 0..n : g[i] = IF i = 0 THEN e ELSE Added(t, g[i - 1], rs[i], texts[i])
    BY <1>5, <2>1 DEF Recursive
  <2> QED BY <2>2, <1>5 DEF Recursive
<1>7. \E f : /\ f = [i \in 0..n |-> IF i = 0 THEN e ELSE Added(t, f[i - 1], rs[i], texts[i])]
             /\ SumOf(t, rs, texts) = Closed(t, f[n])
  BY <1>6 DEF SumOf, e
<1>8. PICK f : /\ f = [i \in 0..n |-> IF i = 0 THEN e ELSE Added(t, f[i - 1], rs[i], texts[i])]
               /\ SumOf(t, rs, texts) = Closed(t, f[n])
  BY <1>7
<1>9. f[0] = e
  <2>1. 0 \in 0..n
    BY <1>0
  <2> HIDE DEF n
  <2> QED BY <2>1, <1>8
<1>10. ASSUME NEW i \in 1..n PROVE f[i] = Added(t, f[i - 1], rs[i], texts[i])
  <2>1. i \in 0..n /\ i # 0
    BY <1>0
  <2> HIDE DEF n
  <2> QED BY <2>1, <1>8
<1> DEFINE S == {i \in 0..n : <<f[i], i>> \in P /\ f[i].carets = {Len(f[m].text) : m \in 1..i}}
<1>11. 0 \in S
  <2>1. e.carets = {Len(f[m].text) : m \in 1..0}
    BY DEF e, Nothing
  <2> QED BY <2>1, <1>1, <1>9, <1>0
<1>12. ASSUME NEW i \in 1..n, i - 1 \in S PROVE i \in S
  <2>1. <<f[i - 1], i - 1>> \in P /\ f[i - 1].carets = {Len(f[m].text) : m \in 1..i - 1}
    BY <1>12
  <2>2. <<f[i], i>> \in P /\ f[i].carets = f[i - 1].carets \cup {Len(f[i].text)}
    BY <2>1, <1>2, <1>10
  <2>3. 1..i = (1..i - 1) \cup {i}
    BY <1>0
  <2>4. f[i].carets = {Len(f[m].text) : m \in 1..i}
    BY <2>1, <2>2, <2>3
  <2>5. i \in 0..n
    BY <1>0
  <2> QED BY <2>2, <2>4, <2>5
<1>13. \A i \in 0..n : i \in S
  <2> HIDE DEF S, n
  <2> QED BY <1>0, <1>11, <1>12, Induction
<1>14. \A i \in 0..n : f[i] \in Sums /\ f[i].from = From(rs, i)
  BY <1>13 DEF P
<1>15. \A i \in 0..n : f[i].carets = {Len(f[m].text) : m \in 1..i}
  BY <1>13
<1>16. Adding(f, t, rs, texts)
  BY <1>9, <1>10, <1>14, <1>15 DEF Adding, e
<1> HIDE DEF S, n, P, F, e
<1> QED BY <1>8, <1>16 DEF n

-----------------------------------------------------------------------------
(***************************************************************************)
(* One range at a time                                                     *)
(***************************************************************************)

\* A text from an offset on.
Rest(u, a) == SubSeq(u, a + 1, Len(u))

\* What follows an offset.
LEMMA RestIs ==
  ASSUME NEW u \in Documents, NEW a \in Nat, a <= Len(u)
  PROVE  /\ Rest(u, a) \in Documents /\ Len(Rest(u, a)) = Len(u) - a
         /\ \A i \in 1..Len(u) - a : Rest(u, a)[i] = u[a + i]
         /\ Rest(u, a) = Extract(u, a, Len(u) - a)
<1>1. Len(u) \in Nat /\ a + (Len(u) - a) = Len(u) /\ Len(u) - a \in Nat
  BY DEF Documents
<1>2. Rest(u, a) = Extract(u, a, Len(u) - a)
  BY <1>1 DEF Rest, Extract
<1> DEFINE n == Len(u) - a x == Extract(u, a, n)
<1>3. u \in Seq(Chars) /\ n \in Nat /\ a + n <= Len(u)
  BY <1>1 DEF Documents
<1> HIDE DEF n
<1>4. x \in Seq(Chars) /\ Len(x) = n /\ \A i \in 1..n : x[i] = u[a + i]
  BY <1>3, ExtractProperties
<1> HIDE DEF x
<1>5. Rest(u, a) = x
  BY <1>2 DEF x, n
<1>6. /\ Rest(u, a) \in Documents /\ Len(Rest(u, a)) = n
      /\ \A i \in 1..n : Rest(u, a)[i] = u[a + i]
  BY <1>4, <1>5 DEF Documents
<1> QED BY <1>2, <1>6 DEF n

\* Two texts, one after the other.
LEMMA JoinedAt ==
  ASSUME NEW u \in Documents, NEW v \in Documents
  PROVE  /\ u \o v \in Documents /\ Len(u \o v) = Len(u) + Len(v)
         /\ \A i \in 1..Len(u) + Len(v) :
              (u \o v)[i] = IF i <= Len(u) THEN u[i] ELSE v[i - Len(u)]
BY ConcatProperties DEF Documents

\* What follows offset a when a range behind it has been replaced.
Remains(u, a, o, g, ins) ==
  Rest(Splice(u, o, g, ins), a) = (Extract(u, a, o - a) \o ins) \o Rest(u, o + g)

\* What follows the inserted text of a splice is what followed the deleted one.
LEMMA RestOfSplice ==
  ASSUME NEW u \in Documents, NEW a \in Nat, NEW o \in Nat, a <= o, NEW g \in Nat, o + g <= Len(u),
         NEW ins \in Documents
  PROVE  Remains(u, a, o, g, ins)
<1> DEFINE v == Splice(u, o, g, ins) x == Extract(u, a, o - a) y == x \o ins w == Rest(u, o + g)
           z == y \o w l == Len(ins) m == Len(u)
<1>0. l \in Nat /\ m \in Nat
  BY DEF Documents
<1>1. /\ v \in Documents /\ Len(v) = m - g + l
      /\ \A i \in 1..m - g + l :
           v[i] = IF i <= o THEN u[i] ELSE IF i <= o + l THEN ins[i - o] ELSE u[i - l + g]
  BY SpliceProperties DEF IsSplice, Documents
<1>2. /\ x \in Documents /\ Len(x) = o - a /\ \A i \in 1..o - a : x[i] = u[a + i]
  <2>1. o - a \in Nat /\ a + (o - a) <= m
    BY <1>0
  <2> QED BY <2>1, ExtractProperties DEF Documents
<1>3. w \in Documents /\ Len(w) = m - (o + g) /\ \A i \in 1..m - (o + g) : w[i] = u[o + g + i]
  <2>1. o + g \in Nat /\ o + g <= Len(u)
    OBVIOUS
  <2> QED BY <2>1, RestIs
<1> HIDE DEF v, x, w
<1>4. /\ y \in Documents /\ Len(y) = o - a + l
      /\ \A i \in 1..o - a + l : y[i] = IF i <= o - a THEN x[i] ELSE ins[i - (o - a)]
  <2>1. /\ y \in Documents /\ Len(y) = Len(x) + Len(ins)
        /\ \A i \in 1..Len(x) + Len(ins) : y[i] = IF i <= Len(x) THEN x[i] ELSE ins[i - Len(x)]
    BY <1>2, JoinedAt
  <2> HIDE DEF y
  <2> QED BY <2>1, <1>2
<1> HIDE DEF y
<1>5. /\ z \in Documents /\ Len(z) = o - a + l + (m - (o + g))
      /\ \A i \in 1..o - a + l + (m - (o + g)) :
           z[i] = IF i <= o - a + l THEN y[i] ELSE w[i - (o - a + l)]
  <2>1. /\ z \in Documents /\ Len(z) = Len(y) + Len(w)
        /\ \A i \in 1..Len(y) + Len(w) : z[i] = IF i <= Len(y) THEN y[i] ELSE w[i - Len(y)]
    BY <1>3, <1>4, JoinedAt
  <2> HIDE DEF z
  <2> QED BY <2>1, <1>3, <1>4
<1> HIDE DEF z, l, m
<1>6. a <= Len(v)
  BY <1>0, <1>1 DEF m
<1> DEFINE r == Rest(v, a) k == m - g + l - a
<1>7. r \in Documents /\ Len(r) = k /\ \A i \in 1..k : r[i] = v[a + i]
  <2>1. /\ r \in Documents /\ Len(r) = Len(v) - a
        /\ \A i \in 1..Len(v) - a : r[i] = v[a + i]
    BY <1>1, <1>6, RestIs
  <2>2. Len(v) - a = k
    BY <1>1, <1>0
  <2> HIDE DEF r, k
  <2> QED BY <2>1, <2>2
<1>8. k = o - a + l + (m - (o + g)) /\ k \in Nat
  BY <1>0, <1>1, <1>6
<1> HIDE DEF r
<1>9. ASSUME NEW i \in 1..k PROVE r[i] = z[i]
  <2>1. a + i \in 1..m - g + l /\ i \in 1..o - a + l + (m - (o + g))
    BY <1>0, <1>8
  <2> DEFINE j == a + i
  <2>7. j \in 1..m - g + l /\ j = a + i /\ j \in Int
    BY <2>1, <1>0
  <2>8. r[i] = v[j]
    BY <1>7
  <2> HIDE DEF j
  <2>2. r[i] = IF j <= o THEN u[j] ELSE IF j <= o + l THEN ins[j - o] ELSE u[j - l + g]
    BY <1>1, <2>7, <2>8
  <2>3. z[i] = IF i <= o - a + l THEN y[i] ELSE w[i - (o - a + l)]
    BY <1>5, <2>1
  <2>4. CASE j <= o
    <3>1. i \in 1..o - a /\ i \in 1..o - a + l /\ i <= o - a + l
      BY <2>4, <2>7, <1>0
    <3>2. r[i] = u[j] /\ j = a + i
      BY <2>2, <2>4, <2>7
    <3>3. z[i] = x[i]
      BY <3>1, <2>3, <1>4
    <3> QED BY <3>1, <3>2, <3>3, <1>2
  <2>5. CASE j > o /\ j <= o + l
    <3>1. i \in 1..o - a + l /\ i <= o - a + l /\ ~(i <= o - a) /\ j - o = i - (o - a) /\ ~(j <= o)
      BY <2>5, <2>7, <1>0
    <3> QED BY <3>1, <2>2, <2>3, <2>5, <1>4
  <2>6. CASE j > o + l
    <3>1. ~(i <= o - a + l) /\ ~(j <= o) /\ ~(j <= o + l)
          /\ i - (o - a + l) \in 1..m - (o + g)
          /\ o + g + (i - (o - a + l)) = j - l + g
      BY <2>6, <2>7, <1>0, <1>8
    <3>2. w[i - (o - a + l)] = u[o + g + (i - (o - a + l))]
      BY <3>1, <1>3 DEF m
    <3> QED BY <3>1, <3>2, <2>2, <2>3
  <2> QED BY <2>4, <2>5, <2>6, <2>7, <1>0
<1> HIDE DEF k
<1>10. r \in Seq(Chars) /\ z \in Seq(Chars) /\ Len(z) = k
  BY <1>5, <1>7, <1>8 DEF Documents
<1>11. r = z
  BY <1>7, <1>9, <1>10, SeqEqual
<1> QED BY <1>11 DEF Remains, r, v, z, y, x, w

\* Adding a part on the left and replacing a range on the right come to the same.
Regroups(x, e, ins, w) == ((x \o e) \o ins) \o w = x \o ((e \o ins) \o w)

\* The order in which four pieces are put together does not matter.
LEMMA SumMeets ==
  ASSUME NEW x \in Documents, NEW e \in Documents, NEW ins \in Documents, NEW w \in Documents
  PROVE  Regroups(x, e, ins, w)
<1>1. x \in Seq(Chars) /\ e \in Seq(Chars) /\ ins \in Seq(Chars) /\ w \in Seq(Chars)
  BY DEF Documents
<1>2. ins \o w \in Seq(Chars) /\ x \o e \in Seq(Chars)
  BY <1>1, ConcatProperties
<1>3. ((x \o e) \o ins) \o w = (x \o e) \o (ins \o w)
  BY <1>1, <1>2, ConcatAssociative
<1>4. (x \o e) \o (ins \o w) = x \o (e \o (ins \o w))
  BY <1>1, <1>2, ConcatAssociative
<1>5. e \o (ins \o w) = (e \o ins) \o w
  BY <1>1, ConcatAssociative
<1> QED BY <1>3, <1>4, <1>5 DEF Regroups

\* What a caret replaced without a refusal has written.
Wrote(s, r, ins, q) ==
  /\ q.b.text = Splice(s.b.text, Low(r), High(r) - Low(r), ins)
  /\ Len(q.b.text) - Len(s.b.text) = Len(ins) - (High(r) - Low(r))
  /\ q.b.cursor = Low(r) + Len(ins)
  /\ q.b.selection = <<>>

\* Replacing one range: it was refused, or the range is its text, the caret behind it.
LEMMA ReplaceCaretWrites ==
  ASSUME NEW s \in Trials, NEW r \in Spans, Inside(s.b.text, r), NEW ins \in Documents,
         NEW q, q.b = WriteAt(AtRange(s.b, r), ins, r[2], TRUE)
  PROVE  q.b.full \/ Wrote(s, r, ins, q)
<1> DEFINE sel == AtRange(s.b, r) wrote == WriteAt(sel, ins, r[2], TRUE)
<1>0. /\ Shaped(s.b) /\ s.b.text \in Documents /\ Len(s.b.text) \in Nat /\ Len(ins) \in Nat
  BY ShapedType DEF Trials, Documents
<1>1. /\ r[2] \in 0..Len(s.b.text) /\ Low(r) \in Nat /\ High(r) \in Nat /\ Low(r) <= High(r)
      /\ (~Wide(r) => Low(r) = r[2] /\ High(r) = Low(r)) /\ (Wide(r) => Low(r) < High(r))
      /\ High(r) <= Len(s.b.text)
  BY <1>0, SpanType, InsideIs DEF Inside
<1>2. /\ Shaped(sel) /\ sel.text = s.b.text /\ sel.cursor = r[2] /\ Primary(sel) = r
      /\ (~Wide(r) => sel.selection = <<>>)
  BY <1>0, AtRangeIs
<1> HIDE DEF sel
<1>3. WriteStart(sel, r[2]) = Low(r) /\ WriteGone(sel) = High(r) - Low(r)
  BY <1>1, <1>2 DEF WriteStart, WriteGone
<1> DEFINE start == WriteStart(sel, r[2]) gone == WriteGone(sel)
<1>4. \/ wrote.full
      \/ /\ wrote.text = Splice(sel.text, start, gone, ins)
         /\ wrote.cursor = start + Len(ins) \/ (ins = <<>> /\ gone = 0 /\ wrote.cursor = sel.cursor)
         /\ wrote.selection = IF gone > 0 THEN <<>> ELSE sel.selection
  <2>1. r[2] \in 0..Len(sel.text)
    BY <1>1, <1>2
  <2> QED BY <2>1, <1>2, WriteAtRaw
<1>5. q.b = wrote
  BY DEF sel
<1> HIDE DEF wrote
<1>6. CASE wrote.full
  BY <1>5, <1>6, Zenon
<1>7. CASE /\ wrote.text = Splice(sel.text, start, gone, ins)
           /\ wrote.cursor = start + Len(ins) \/ (ins = <<>> /\ gone = 0 /\ wrote.cursor = sel.cursor)
           /\ wrote.selection = IF gone > 0 THEN <<>> ELSE sel.selection
  <2>1. /\ q.b.text = Splice(s.b.text, Low(r), High(r) - Low(r), ins)
        /\ q.b.cursor = Low(r) + Len(ins)
        /\ q.b.selection = <<>>
    <3>1. q.b.text = Splice(s.b.text, Low(r), High(r) - Low(r), ins)
      BY <1>2, <1>3, <1>5, <1>7
    <3>2. q.b.cursor = Low(r) + Len(ins)
      <4>1. CASE wrote.cursor = start + Len(ins)
        BY <4>1, <1>3, <1>5
      <4>2. CASE ins = <<>> /\ gone = 0 /\ wrote.cursor = sel.cursor
        <5>1. ~Wide(r) /\ Len(ins) = 0
          BY <4>2, <1>1, <1>3
        <5>2. q.b.cursor = r[2]
          BY <4>2, <1>2, <1>5
        <5>3. r[2] = Low(r) + Len(ins)
          BY <5>1, <1>1
        <5> QED BY <5>2, <5>3
      <4> QED BY <4>1, <4>2, <1>7
    <3>3. q.b.selection = <<>>
      <4>1. q.b.selection = IF gone > 0 THEN <<>> ELSE sel.selection
        BY <1>5, <1>7
      <4>2. CASE Wide(r)
        <5>1. gone > 0
          BY <4>2, <1>1, <1>3
        <5> QED BY <4>1, <5>1
      <4>3. CASE ~Wide(r)
        BY <4>1, <4>3, <1>2
      <4> QED BY <4>2, <4>3
    <3> QED BY <3>1, <3>2, <3>3
  <2>2. Len(Splice(s.b.text, Low(r), High(r) - Low(r), ins)) = Len(s.b.text) - (High(r) - Low(r)) + Len(ins)
    <3>1. High(r) - Low(r) \in Nat /\ Low(r) + (High(r) - Low(r)) <= Len(s.b.text)
      BY <1>0, <1>1
    <3> QED BY <3>1, <1>0, <1>1, SpliceBegins
  <2>3. Len(q.b.text) - Len(s.b.text) = Len(ins) - (High(r) - Low(r))
    <3> DEFINE x == Len(q.b.text) y == Len(s.b.text) l == Len(ins) g == High(r) - Low(r)
    <3>1. x = y - g + l
      BY <2>1, <2>2
    <3>3. y \in Nat /\ l \in Nat /\ g \in Int
      BY <1>0, <1>1
    <3> HIDE DEF x, y, l, g
    <3>2. x - y = l - g
      BY <3>1, <3>3
    <3> QED BY <3>2 DEF x, y, l, g
  <2> QED BY <2>1, <2>3 DEF Wrote
<1> QED BY <1>4, <1>6, <1>7

-----------------------------------------------------------------------------
(***************************************************************************)
(* From the last caret to the first is the same as at once                 *)
(***************************************************************************)

\* What is before a splice can be taken out of either text.
LEMMA ExtractBegins ==
  ASSUME NEW u \in Documents, NEW t \in Documents, NEW k \in Nat, Begins(u, t, k),
         NEW a \in Nat, NEW g \in Nat, a + g <= k
  PROVE  Extract(u, a, g) = Extract(t, a, g) /\ Extract(t, a, g) \in Documents
<1> DEFINE x == Extract(u, a, g) y == Extract(t, a, g)
<1>1. k <= Len(u) /\ k <= Len(t) /\ \A i \in 1..k : u[i] = t[i]
  BY DEF Begins
<1>2. Len(u) \in Nat /\ Len(t) \in Nat /\ u \in Seq(Chars) /\ t \in Seq(Chars)
  BY DEF Documents
<1>0. a + g <= Len(u) /\ a + g <= Len(t)
  BY <1>1, <1>2
<1>3. x \in Seq(Chars) /\ Len(x) = g /\ \A i \in 1..g : x[i] = u[a + i]
  <2>1. Len(u) \in Nat /\ u \in Seq(Chars) /\ a + g <= Len(u)
    BY <1>0, <1>2
  <2> QED BY <2>1, ExtractProperties
<1>4. y \in Seq(Chars) /\ Len(y) = g /\ \A i \in 1..g : y[i] = t[a + i]
  <2>1. Len(t) \in Nat /\ t \in Seq(Chars) /\ a + g <= Len(t)
    BY <1>0, <1>2
  <2> QED BY <2>1, ExtractProperties
<1> HIDE DEF x, y
<1>5. \A i \in 1..g : x[i] = y[i]
  <2> TAKE i \in 1..g
  <2>1. a + i \in 1..k
    OBVIOUS
  <2> QED BY <2>1, <1>1, <1>3, <1>4
<1>6. x = y
  BY <1>3, <1>4, <1>5, SeqEqual
<1> QED BY <1>4, <1>6 DEF x, y, Documents

Meets(r, ins, d, e, s, q) ==
  /\ e.text \o Rest(s.b.text, High(r)) = d.text \o Rest(q.b.text, d.from)
  /\ \A j \in 1..Len(s.carets) : q.carets[j] = s.carets[j] + (Len(ins) - (High(r) - Low(r)))
  /\ q.carets[Len(s.carets) + 1] = Low(r) + Len(ins)
  /\ Len(e.text) = Len(d.text) + Low(r) - d.from + Len(ins)

\* Each range replaced on the right is one added on the left.
LEMMA SumStep ==
  ASSUME NEW b, Shaped(b), NEW rs, Spread(b.text, rs), NEW i \in 1..Len(rs),
         NEW d \in Sums, d.from = From(rs, i - 1), NEW s, Placing(b, rs, s, i + 1),
         NEW ins \in Documents
  PROVE  LET r == rs[i] q == ReplaceCaret(s, r, ins, TRUE)
         IN IF s.b.full THEN q.b.full
            ELSE q.b.full \/ Meets(r, ins, d, Added(b.text, d, r, ins), s, q)
<1> DEFINE r == rs[i] q == ReplaceCaret(s, r, ins, TRUE) e == Added(b.text, d, r, ins)
           wrote == WriteAt(AtRange(s.b, r), ins, r[2], TRUE)
           a == Low(r) g == High(r) - Low(r) u == s.b.text
<1>0. /\ b.text \in Documents /\ Len(b.text) \in Nat /\ s \in Trials /\ u \in Documents
      /\ Len(u) \in Nat /\ Len(ins) \in Nat /\ Len(s.carets) \in Nat
      /\ \A j \in 1..Len(s.carets) : s.carets[j] \in Nat
  <2>1. s \in Trials
    BY DEF Placing
  <2>2. Shaped(s.b) /\ s.carets \in Seq(Nat)
    BY <2>1 DEF Trials
  <2>3. b.text \in Documents /\ u \in Documents
    BY <2>2, ShapedType
  <2>4. /\ Len(s.carets) \in Nat /\ \A j \in 1..Len(s.carets) : s.carets[j] \in Nat
    BY <2>2
  <2> HIDE DEF u
  <2>5. Len(b.text) \in Nat /\ Len(u) \in Nat /\ Len(ins) \in Nat
    BY <2>3 DEF Documents
  <2> QED BY <2>1, <2>3, <2>4, <2>5
<1>1. r \in Spans /\ Inside(b.text, r) /\ a \in Nat /\ High(r) \in Nat /\ a <= High(r)
      /\ From(rs, i - 1) \in Nat /\ From(rs, i - 1) <= a
  BY <1>0, SpreadRanges, FromIs
<1>2. ins \in Seq(Typeable)
  BY DEF Documents, Typeable
<1>3. Placing(b, rs, q, i) /\ Inside(u, r) /\ CaretReplaced(s, r, q, wrote)
  BY <1>2, PlacingStep
<1>4. Begins(u, b.text, Ahead(b.text, rs, i + 1)) /\ High(r) <= Ahead(b.text, rs, i + 1)
      /\ Ahead(b.text, rs, i + 1) \in Nat
  <2>1. Begins(u, b.text, Ahead(b.text, rs, i + 1))
    BY DEF Placing
  <2>2. CASE i = Len(rs)
    <3>1. Ahead(b.text, rs, i + 1) = Len(b.text)
      BY <2>2 DEF Ahead
    <3>2. High(r) <= Len(b.text)
      BY <1>0, <1>1, InsideIs
    <3> QED BY <2>1, <3>1, <3>2, <1>0
  <2>3. CASE i # Len(rs)
    <3>1. i + 1 \in 1..Len(rs) /\ i < i + 1 /\ ~(i + 1 > Len(rs))
      BY <2>3, <1>0, SpreadRanges
    <3>2. Ahead(b.text, rs, i + 1) = Low(rs[i + 1])
      BY <3>1 DEF Ahead
    <3>3. Low(rs[i + 1]) \in Nat /\ High(r) <= Low(rs[i + 1])
      BY <1>0, <3>1, SpreadRanges
    <3> QED BY <2>1, <3>2, <3>3
  <2> QED BY <2>2, <2>3
<1> HIDE DEF q, wrote, r, e
<1>5. q.b = wrote
  BY <1>3 DEF CaretReplaced
<1>6. CASE s.b.full
  <2>1. wrote.full
    BY <1>3, <1>6 DEF CaretReplaced
  <2>2. q.b.full
    BY <2>1, <1>5, Zenon
  <2> QED BY <2>2, <1>6, Zenon DEF q, r
<1>7. CASE ~s.b.full
  <2>1. q.b.full \/ Wrote(s, r, ins, q)
    BY <1>0, <1>1, <1>3, <1>5, ReplaceCaretWrites DEF wrote
  <2>2. ASSUME Wrote(s, r, ins, q) PROVE Meets(r, ins, d, e, s, q)
    <3> DEFINE x == Extract(u, d.from, a - d.from) v == q.b.text l == Len(ins)
    <3>1. /\ v = Splice(u, a, g, ins) /\ Len(v) - Len(u) = l - g
          /\ q.b.cursor = a + l
      BY <2>2 DEF Wrote
    <3>2. g \in Nat /\ a + g = High(r) /\ a + g <= Len(u) /\ d.from \in Nat /\ d.from <= a
          /\ a - d.from \in Nat /\ d.from + (a - d.from) = a
      <4>1. High(r) <= Len(u)
        BY <1>0, <1>1, <1>3, InsideIs
      <4> DEFINE h == High(r) l0 == d.from m == Len(u)
      <4>2. h \in Nat /\ h <= m /\ l0 \in Nat /\ l0 <= a /\ a \in Nat /\ a <= h /\ g = h - a
        BY <4>1, <1>1
      <4> HIDE DEF h, l0, m, a, g
      <4>3. g \in Nat /\ a + g = h /\ a + g <= m /\ a - l0 \in Nat /\ l0 + (a - l0) = a
        BY <4>2
      <4> QED BY <4>2, <4>3 DEF h, l0, m
    <3>3. Rest(v, d.from) = (x \o ins) \o Rest(u, High(r))
      <4>1. Rest(Splice(u, a, g, ins), d.from) = (x \o ins) \o Rest(u, a + g)
        <5> DEFINE o == d.from
        <5>1. o \in Nat /\ o <= a /\ a \in Nat /\ g \in Nat /\ a + g <= Len(u)
          BY <1>1, <3>2
        <5>2. u \in Documents
          BY <1>0
        <5> HIDE DEF o, a, g, u
        <5>3. Remains(u, o, a, g, ins)
          BY <5>1, <5>2, RestOfSplice
        <5> QED BY <5>3 DEF o, Remains
      <4> QED BY <4>1, <3>1, <3>2
    <3>4. Extract(b.text, d.from, a - d.from) = x /\ x \in Documents
      <4>1. d.from + (a - d.from) <= Ahead(b.text, rs, i + 1)
        BY <1>1, <1>4, <3>2
      <4>2. x = Extract(b.text, d.from, a - d.from) /\ Extract(b.text, d.from, a - d.from) \in Documents
        BY <4>1, <1>0, <1>4, <3>2, ExtractBegins
      <4> QED BY <4>2
    <3>5. Grows(b.text, d, r, ins, e)
      BY <1>0, <1>1, <3>2, AddedIs DEF e
    <3>6. e.text = (d.text \o x) \o ins /\ Len(e.text) = Len(d.text) + a - d.from + l
      BY <3>4, <3>5 DEF Grows
    <3>7. d.text \in Documents /\ Rest(u, High(r)) \in Documents
      <4>1. High(r) <= Len(u) /\ High(r) \in Nat
        BY <3>2, <1>1
      <4> QED BY <4>1, <1>0, RestIs DEF Sums
    <3>8. ((d.text \o x) \o ins) \o Rest(u, High(r)) = d.text \o ((x \o ins) \o Rest(u, High(r)))
      <4>1. x \in Documents /\ d.text \in Documents /\ Rest(u, High(r)) \in Documents
        BY <3>4, <3>7
      <4> DEFINE y == d.text w == Rest(u, High(r))
      <4> HIDE DEF x, y, w
      <4>2. Regroups(y, x, ins, w)
        BY <4>1, SumMeets DEF y, w
      <4> QED BY <4>2 DEF y, w, Regroups
    <3>9. e.text \o Rest(u, High(r)) = d.text \o Rest(v, d.from)
      BY <3>3, <3>6, <3>8
    <3>10. ASSUME NEW j \in 1..Len(s.carets)
           PROVE  q.carets[j] = s.carets[j] + (l - g)
      <4>1. q.carets[j] = s.carets[j] + Len(v) - Len(u)
        BY <1>3, <1>5 DEF CaretReplaced
      <4>2. Len(v) \in Nat /\ s.carets[j] \in Nat
        <5>1. v \in Documents
          <6>1. u \in Documents /\ a \in Nat /\ g \in Nat /\ a + g <= Len(u)
            BY <1>0, <1>1, <3>2
          <6> HIDE DEF u, a, g
          <6>2. Splice(u, a, g, ins) \in Documents
            BY <6>1, SpliceBegins
          <6> QED BY <6>2, <3>1 DEF u, a, g
        <5> QED BY <5>1, <1>0 DEF Documents
      <4> DEFINE p == Len(v) m == Len(u) c == s.carets[j]
      <4>3. p \in Nat /\ m \in Nat /\ c \in Nat /\ p - m = l - g
        BY <4>2, <1>0, <3>1
      <4> HIDE DEF p, m, c, g, l
      <4>4. c + p - m = c + (p - m)
        BY <4>3
      <4>5. c + p - m = c + (l - g)
        BY <4>3, <4>4
      <4> QED BY <4>1, <4>5 DEF p, m, c
    <3>11. q.carets[Len(s.carets) + 1] = a + l
      BY <1>3, <1>5, <3>1 DEF CaretReplaced
    <3> HIDE DEF x, v
    <3> QED BY <3>6, <3>9, <3>10, <3>11 DEF Meets, v
  <2>3. q.b.full \/ Meets(r, ins, d, e, s, q)
    BY <2>1, <2>2
  <2> QED BY <2>3, <1>7, Zenon DEF q, r, e
<1> QED BY <1>6, <1>7

\* The ranges from i on have been replaced: what they became follows the sum of those in front.
Completed(t, s, d, from, sum) == d.text \o Rest(s.b.text, from) = Closed(t, sum).text
CaretsAgree(rs, s, g, d, from, i) ==
  \A m \in i..Len(rs) : s.carets[Len(rs) + 1 - m] = Len(g[m].text) - Len(d.text) + from
Agrees(t, rs, s, g, i) ==
  /\ Completed(t, s, g[i - 1], From(rs, i - 1), g[Len(rs)])
  /\ CaretsAgree(rs, s, g, g[i - 1], From(rs, i - 1), i)
Matched(t, rs, f, g, i) == f[i].b.full \/ Agrees(t, rs, f[i], g, i)

\* One more range is replaced.
LEMMA MatchedStep ==
  ASSUME NEW b, Shaped(b), NEW rs, Spread(b.text, rs), NEW texts,
         NEW f, Replacing(f, b, rs, texts, TRUE), NEW g, Adding(g, b.text, rs, texts),
         NEW i \in 1..Len(rs), texts[i] \in Documents, Matched(b.text, rs, f, g, i + 1)
  PROVE  Matched(b.text, rs, f, g, i)
<1> DEFINE n == Len(rs) r == rs[i] ins == texts[i] d == g[i - 1] e == g[i] s == f[i + 1] q == f[i]
           c == Closed(b.text, g[n]).text
<1>0. /\ n \in Nat /\ r \in Spans /\ Low(r) \in Nat /\ High(r) \in Nat /\ Low(r) <= High(r)
      /\ i \in 1..n /\ i + 1 \in 1..n + 1 /\ i - 1 \in 0..n /\ i \in 0..n
  BY ShapedType, SpreadRanges
<1>1. /\ d \in Sums /\ d.from = From(rs, i - 1) /\ e = Added(b.text, d, r, ins)
      /\ e \in Sums /\ e.from = From(rs, i)
  BY <1>0 DEF Adding
<1>2. Placing(b, rs, s, i + 1) /\ Placing(b, rs, q, i)
  BY <1>0 DEF Replacing
<1>3. q = ReplaceCaret(s, r, ins, TRUE)
  BY <1>0 DEF Replacing
<1>4. IF s.b.full THEN q.b.full ELSE q.b.full \/ Meets(r, ins, d, e, s, q)
  <2> HIDE DEF d, s
  <2>1. LET q0 == ReplaceCaret(s, rs[i], ins, TRUE)
        IN IF s.b.full THEN q0.b.full
           ELSE q0.b.full \/ Meets(rs[i], ins, d, Added(b.text, d, rs[i], ins), s, q0)
    BY <1>1, <1>2, SumStep
  <2> HIDE DEF q, e
  <2> QED BY <2>1, <1>1, <1>3, Zenon
<1>5. ASSUME ~s.b.full, Meets(r, ins, d, e, s, q) PROVE Matched(b.text, rs, f, g, i)
  <2>1. /\ e.text \o Rest(s.b.text, From(rs, i)) = c
        /\ \A m \in i + 1..n :
             s.carets[n + 1 - m] = Len(g[m].text) - Len(e.text) + From(rs, i)
    <3>1. i + 1 - 1 = i
      BY <1>0
    <3>2. Agrees(b.text, rs, s, g, i + 1)
      BY <1>5, Zenon DEF Matched
    <3> HIDE DEF s
    <3>3. /\ Completed(b.text, s, e, From(rs, i), g[n])
          /\ CaretsAgree(rs, s, g, e, From(rs, i), i + 1)
      BY <3>1, <3>2 DEF Agrees
    <3> QED BY <3>3 DEF Completed, CaretsAgree
  <2>2. From(rs, i) = High(r) /\ i # 0
    BY <1>0 DEF From
  <2>3. d.text \o Rest(q.b.text, From(rs, i - 1)) = c
    BY <2>1, <2>2, <1>1, <1>5 DEF Meets
  <2>4. Len(s.carets) = n - i
    BY <1>0, <1>2 DEF Placing
  <2>5. ASSUME NEW m \in i..n
        PROVE  q.carets[n + 1 - m] = Len(g[m].text) - Len(d.text) + From(rs, i - 1)
    <3> DEFINE w == Len(g[m].text) x == Len(e.text) y == Len(d.text) z == From(rs, i - 1)
               l == Len(ins) low == Low(r) high == High(r)
    <3>1. /\ w \in Nat /\ x \in Nat /\ y \in Nat /\ z \in Nat /\ l \in Nat
      <4>1. g[m] \in Sums
        BY <1>0 DEF Adding
      <4>2. g[m].text \in Documents /\ e.text \in Documents /\ d.text \in Documents /\ z \in Nat
        BY <4>1, <1>1 DEF Sums
      <4> HIDE DEF z
      <4> QED BY <4>2 DEF Documents
    <3>2. x = y + low - z + l
      BY <1>1, <1>5 DEF Meets
    <3>3. CASE m = i
      <4>1. n + 1 - m = Len(s.carets) + 1
        BY <3>3, <2>4, <1>0
      <4>2. q.carets[n + 1 - m] = low + l
        BY <4>1, <1>5 DEF Meets
      <4>3. w = x
        BY <3>3
      <4>4. low + l = w - y + z
        <5>1. low \in Nat
          BY <1>0
        <5> HIDE DEF w, x, y, z, l, low
        <5> QED BY <5>1, <3>1, <3>2, <4>3
      <4> QED BY <4>2, <4>4
    <3>4. CASE m # i
      <4> DEFINE j == n + 1 - m
      <4>1. m \in i + 1..n /\ j \in 1..Len(s.carets)
        BY <3>4, <2>4, <1>0
      <4>2. s.carets[j] = w - x + high
        BY <4>1, <2>1, <2>2
      <4>3. q.carets[j] = s.carets[j] + (l - (high - low))
        BY <4>1, <1>5 DEF Meets
      <4>4. q.carets[j] = w - y + z
        <5>1. low \in Nat /\ high \in Nat
          BY <1>0
        <5> DEFINE v == w - x + high
        <5>2. q.carets[j] = v + (l - (high - low))
          BY <4>2, <4>3
        <5> HIDE DEF w, x, y, z, l, low, high
        <5>3. v + (l - (high - low)) = w - y + z
          BY <5>1, <3>1, <3>2
        <5> QED BY <5>2, <5>3
      <4> QED BY <4>4
    <3> QED BY <3>3, <3>4
  <2>6. Completed(b.text, q, d, From(rs, i - 1), g[n]) /\ CaretsAgree(rs, q, g, d, From(rs, i - 1), i)
    BY <2>3, <2>5 DEF Completed, CaretsAgree
  <2>7. Agrees(b.text, rs, q, g, i)
    BY <2>6 DEF Agrees
  <2> QED BY <2>7, Zenon DEF Matched
<1>6. ASSUME q.b.full PROVE Matched(b.text, rs, f, g, i)
  BY <1>6, Zenon DEF Matched
<1>7. ASSUME s.b.full PROVE q.b.full
  BY <1>4, <1>7, Zenon
<1>8. q.b.full \/ (~s.b.full /\ Meets(r, ins, d, e, s, q))
  BY <1>4, <1>7, Zenon
<1> QED BY <1>5, <1>6, <1>8, Zenon

\* Nothing has been replaced yet: what follows the last range is the rest of the text.
LEMMA MatchedLast ==
  ASSUME NEW b, Shaped(b), NEW rs, Spread(b.text, rs), NEW texts,
         NEW f, Replacing(f, b, rs, texts, TRUE), NEW g, Adding(g, b.text, rs, texts)
  PROVE  Matched(b.text, rs, f, g, Len(rs) + 1)
<1> DEFINE n == Len(rs) t == b.text d == g[n]
<1>0. n \in Nat /\ t \in Documents /\ Len(t) \in Nat
  BY ShapedType, SpreadRanges
<1>1. d \in Sums /\ d.from = From(rs, n)
  BY <1>0 DEF Adding
<1>2. f[n + 1] = Fresh(b) /\ f[n + 1].b = b
  BY DEF Replacing, Fresh
<1>3. From(rs, n) \in Nat /\ From(rs, n) <= Len(t)
  <2>1. CASE n = 0
    BY <2>1, <1>0 DEF From
  <2>2. CASE n # 0
    <3>1. n \in 1..n
      BY <2>2, <1>0
    <3> QED BY <3>1, <2>2, <1>0, SpreadRanges DEF From
  <2> QED BY <2>1, <2>2
<1>4. Rest(t, From(rs, n)) = Extract(t, d.from, Len(t) - d.from)
  BY <1>0, <1>1, <1>3, RestIs
<1>5. Closed(t, d).text = d.text \o Rest(t, From(rs, n))
  BY <1>4 DEF Closed
<1>6. n + 1 - 1 = n /\ \A m \in n + 1..n : FALSE
  BY <1>0
<1> DEFINE s == f[n + 1]
<1>7. Completed(t, s, d, From(rs, n), g[n]) /\ CaretsAgree(rs, s, g, d, From(rs, n), n + 1)
  BY <1>2, <1>5, <1>6 DEF Completed, CaretsAgree
<1> HIDE DEF s
<1>8. Agrees(t, rs, s, g, n + 1)
  BY <1>6, <1>7 DEF Agrees
<1> QED BY <1>8, Zenon DEF Matched, s, n

\* What the sum says of a trial.
Equals(s, sum) == s.b.text = sum.text /\ {s.carets[j] : j \in 1..Len(s.carets)} = sum.carets

\* Replacing the ranges from the last to the first, while the carets already placed shift along,
\* comes to the same as replacing all of them at once.
LEMMA ReplacedIsSum ==
  ASSUME NEW b, Shaped(b), NEW rs, Spread(b.text, rs), NEW texts,
         \A i \in 1..Len(rs) : texts[i] \in Documents
  PROVE  Replaced(b, rs, texts, TRUE).b.full
           \/ Equals(Replaced(b, rs, texts, TRUE), SumOf(b.text, rs, texts))
<1> DEFINE n == Len(rs) t == b.text
<1>0. n \in Nat /\ t \in Documents /\ Len(t) \in Nat
  BY ShapedType, SpreadRanges
<1>1. PICK f : Replacing(f, b, rs, texts, TRUE) /\ Replaced(b, rs, texts, TRUE) = f[1]
  <2>1. PICK raw : raw = TRUE
    OBVIOUS
  <2>2. \A i \in 1..Len(rs) : texts[i] \in Seq(Typeable) /\ (raw => texts[i] \in Documents)
    BY DEF Documents, Typeable
  <2>3. \E f : Replacing(f, b, rs, texts, raw) /\ Replaced(b, rs, texts, raw) = f[1]
    BY <2>2, ReplacedIs
  <2> QED BY <2>1, <2>3
<1>2. PICK g : Adding(g, t, rs, texts) /\ SumOf(t, rs, texts) = Closed(t, g[Len(rs)])
  BY <1>0, SumOfIs
<1> DEFINE S == {i \in 1..n + 1 : Matched(t, rs, f, g, i)}
<1>3. n + 1 \in S
  <2>1. Matched(t, rs, f, g, n + 1)
    BY <1>1, <1>2, MatchedLast
  <2>2. n + 1 \in 1..n + 1
    BY <1>0
  <2> QED BY <2>1, <2>2
<1>4. ASSUME NEW i \in 1..n, i + 1 \in S PROVE i \in S
  <2>1. Matched(t, rs, f, g, i + 1) /\ texts[i] \in Documents /\ i \in 1..n + 1
    BY <1>0, <1>4
  <2>2. Matched(t, rs, f, g, i)
    BY <2>1, <1>1, <1>2, MatchedStep
  <2> QED BY <2>1, <2>2
<1>5. 1 \in S
  <2> HIDE DEF S, n
  <2>1. \A i \in 1..n + 1 : i \in S
    BY <1>0, <1>3, <1>4, InductionDown
  <2> QED BY <2>1, <1>0
<1>6. CASE f[1].b.full
  BY <1>1, <1>6, Zenon
<1>7. CASE ~f[1].b.full
  <2>0. Agrees(t, rs, f[1], g, 1)
    <3>1. Matched(t, rs, f, g, 1)
      BY <1>5
    <3> QED BY <3>1, <1>7, Zenon DEF Matched
  <2>1. /\ g[1 - 1].text \o Rest(f[1].b.text, From(rs, 1 - 1)) = Closed(t, g[n]).text
        /\ \A m \in 1..n :
             f[1].carets[n + 1 - m] = Len(g[m].text) - Len(g[1 - 1].text) + From(rs, 1 - 1)
    BY <2>0 DEF Agrees, Completed, CaretsAgree
  <2>2. g[0].text = <<>> /\ From(rs, 0) = 0 /\ 1 - 1 = 0 /\ Len(g[0].text) = 0
    BY <1>2 DEF Adding, Nothing, From
  <2>3. Placing(b, rs, f[1], 1)
    BY <1>0, <1>1 DEF Replacing
  <2>4. f[1].b.text \in Documents /\ Len(f[1].carets) = n
    <3>1. Shaped(f[1].b) /\ Len(f[1].carets) = n + 1 - 1
      BY <2>3 DEF Placing, Trials
    <3> QED BY <3>1, <1>0, ShapedType
  <2>5. f[1].b.text = Closed(t, g[n]).text
    <3> DEFINE u == f[1].b.text
    <3>1. u \in Seq(Chars) /\ Len(u) \in Nat
      BY <2>4 DEF Documents
    <3> HIDE DEF u
    <3>2. Rest(u, 0) = u
      BY <3>1, SubSeqProperties DEF Rest
    <3>3. <<>> \o u = u
      BY <3>1, ConcatEmptySeq
    <3> QED BY <3>2, <3>3, <2>1, <2>2 DEF u
  <2>6. \A m \in 1..n : f[1].carets[n + 1 - m] = Len(g[m].text) /\ Len(g[m].text) \in Nat
    <3> TAKE m \in 1..n
    <3>1. g[m] \in Sums
      BY <1>0, <1>2 DEF Adding
    <3>2. g[m].text \in Documents
      BY <3>1 DEF Sums
    <3> DEFINE w == Len(g[m].text)
    <3>3. w \in Nat
      BY <3>2 DEF Documents
    <3>4. f[1].carets[n + 1 - m] = w - 0 + 0
      BY <2>1, <2>2
    <3> HIDE DEF w
    <3>5. f[1].carets[n + 1 - m] = w
      BY <3>3, <3>4
    <3> QED BY <3>3, <3>5 DEF w
  <2>7. {f[1].carets[j] : j \in 1..n} = {Len(g[m].text) : m \in 1..n}
    <3> DEFINE p == {f[1].carets[j] : j \in 1..n} w == {Len(g[m].text) : m \in 1..n}
    <3>1. ASSUME NEW v \in p PROVE v \in w
      <4>1. PICK j \in 1..n : v = f[1].carets[j]
        BY <3>1
      <4>2. n + 1 - j \in 1..n /\ n + 1 - (n + 1 - j) = j
        BY <1>0
      <4>3. v = Len(g[n + 1 - j].text)
        BY <4>1, <4>2, <2>6
      <4> QED BY <4>2, <4>3
    <3>2. ASSUME NEW v \in w PROVE v \in p
      <4>1. PICK m \in 1..n : v = Len(g[m].text)
        BY <3>2
      <4>2. n + 1 - m \in 1..n
        BY <1>0
      <4>3. v = f[1].carets[n + 1 - m]
        BY <4>1, <2>6
      <4> QED BY <4>2, <4>3
    <3> HIDE DEF p, w
    <3>3. p = w
      BY <3>1, <3>2
    <3> QED BY <3>3 DEF p, w
  <2>8. Closed(t, g[n]).carets = {Len(g[m].text) : m \in 1..n}
    BY <1>0, <1>2 DEF Adding, Closed
  <2> QED BY <2>4, <2>5, <2>7, <2>8, <1>1, <1>2 DEF Equals
<1> QED BY <1>6, <1>7

\* The buffer is what the sum says, or the edit was refused.
Same(new, sum) ==
  new.full \/ (/\ new.text = sum.text
               /\ {r[2] : r \in ToSet(Ranges(new))} = sum.carets)

\* What a trial equals, the buffer settled from it equals.
LEMMA SettleEquals ==
  ASSUME NEW s \in Trials, Len(s.carets) > 0, NEW sum, Equals(s, sum)
  PROVE  /\ Settle(s).text = sum.text
         /\ {r[2] : r \in ToSet(Ranges(Settle(s)))} = sum.carets
<1> DEFINE new == Settle(s) n == Len(s.carets) rs == Ranges(new)
<1>1. /\ Valid(new) /\ new.text = s.b.text
      /\ Members(rs) = {<<s.carets[i], s.carets[i]>> : i \in 1..n}
  BY SettleIs
<1> HIDE DEF new
<1>2. rs \in Seq(Spans)
  BY <1>1, RangesIs
<1>3. ToSet(rs) = Members(rs)
  <2> HIDE DEF rs
  <2> QED BY <1>2 DEF ToSet, Members
<1> HIDE DEF rs
<1> DEFINE p == {r[2] : r \in ToSet(rs)} w == {s.carets[j] : j \in 1..n}
<1>4. ASSUME NEW v \in p PROVE v \in w
  <2>1. PICK r \in Members(rs) : v = r[2]
    BY <1>3, <1>4
  <2>2. PICK i \in 1..n : r = <<s.carets[i], s.carets[i]>>
    BY <1>1, <2>1
  <2> QED BY <2>1, <2>2
<1>5. ASSUME NEW v \in w PROVE v \in p
  <2>1. PICK i \in 1..n : v = s.carets[i]
    BY <1>5
  <2>2. <<v, v>> \in Members(rs)
    BY <1>1, <2>1
  <2> QED BY <2>2, <1>3
<1> HIDE DEF p, w
<1>6. p = w
  BY <1>4, <1>5
<1> QED BY <1>1, <1>6 DEF p, w, rs, new, n, Equals

\* Writing with several carets.
LEMMA MultipleIsSum ==
  ASSUME NEW b, Valid(b), NEW texts, \A i \in 1..Len(Ranges(b)) : texts[i] \in Documents
  PROVE  Same(WriteMultiple(b, texts, TRUE), SumOf(b.text, Ranges(b), texts))
<1> DEFINE rs == Ranges(b) a == WithoutOthers(b)
           s == Replaced(a, rs, texts, TRUE) new == WriteMultiple(b, texts, TRUE)
           sum == SumOf(b.text, rs, texts)
<1>1. \A i \in 1..Len(rs) : texts[i] \in Documents
  OBVIOUS
<1>2. Shaped(a) /\ a.text = b.text /\ Spread(a.text, rs)
  <2>1. Shaped(b)
    BY DEF Valid
  <2>2. Valid(a) /\ a.text = b.text
    BY <2>1, AloneIs
  <2>3. Spread(b.text, rs)
    BY RangesIs
  <2> QED BY <2>2, <2>3 DEF Valid
<1>3. s \in Trials /\ Len(s.carets) > 0
  <2>1. PICK raw : raw = TRUE
    OBVIOUS
  <2>2. \A i \in 1..Len(Ranges(b)) : texts[i] \in Seq(Typeable) /\ (raw => texts[i] \in Documents)
    BY <1>1 DEF Documents, Typeable
  <2>3. /\ Replaced(a, rs, texts, raw) \in Trials
        /\ Len(Replaced(a, rs, texts, raw).carets) > 0
    BY <2>2, ReplacedFits
  <2> QED BY <2>1, <2>3
<1>4. s.b.full \/ Equals(s, sum)
  <2> HIDE DEF rs, a
  <2>1. s.b.full \/ Equals(s, SumOf(a.text, rs, texts))
    BY <1>1, <1>2, ReplacedIsSum
  <2> HIDE DEF s
  <2> QED BY <2>1, <1>2, Zenon
<1>5. new = Refused(b) \/ new = Settle(s)
  BY WriteMultipleIs
<1> HIDE DEF s, new, sum
<1>6. ASSUME new = Refused(b) PROVE new.full
  <2>1. Refused(b).full
    <3>1. b \in Buffers
      BY DEF Valid, Shaped
    <3> QED BY <3>1 DEF Refused, Buffers
  <2> QED BY <1>6, <2>1, Zenon
<1>7. ASSUME new = Settle(s), s.b.full PROVE new.full
  <2>1. Settle(s).full = s.b.full
    BY <1>3, SettleIs
  <2>2. Settle(s).full
    BY <2>1, <1>7
  <2> QED BY <2>2, <1>7, Zenon
<1>8. ASSUME new = Settle(s), Equals(s, sum)
      PROVE  new.text = sum.text /\ {r[2] : r \in ToSet(Ranges(new))} = sum.carets
  BY <1>3, <1>8, SettleEquals
<1>9. Same(new, sum)
  BY <1>4, <1>5, <1>6, <1>7, <1>8, Zenon DEF Same
<1> QED BY <1>9 DEF new, sum

\* Where the selection is within its rows, the cursor is at its end.
LEMMA Aligned ==
  ASSUME NEW b, Shaped(b), ~Adrift(b)
  PROVE  /\ Primary(b)[2] = b.cursor /\ AtRange(b, Primary(b)) = b
<1>0. /\ b \in Buffers /\ b.text \in Documents /\ b.cursor \in Nat
      /\ b.selection # <<>> => b.selection \in Point \X Point /\ b.selection[1] # b.selection[2]
  BY ShapedType DEF Shaped
<1>1. CASE b.selection = <<>>
  <2>1. Primary(b) = <<b.cursor, b.cursor>>
    BY <1>1 DEF Primary
  <2>2. Chosen(Points(b.text, <<b.cursor, b.cursor>>)) = <<>>
    BY DEF Chosen, Points
  <2> DEFINE p == <<b.cursor, b.cursor>>
  <2>3. p[2] = b.cursor
    OBVIOUS
  <2> HIDE DEF p
  <2>4. AtRange(b, p) = [b EXCEPT !.cursor = b.cursor, !.selection = b.selection]
    BY <2>2, <2>3, <1>1 DEF AtRange, p
  <2>5. AtRange(b, p) = b
    BY <2>4, <1>0 DEF Buffers
  <2> QED BY <2>1, <2>3, <2>5 DEF p
<1>2. CASE b.selection # <<>>
  <2>1. /\ Primary(b)[2] = b.cursor
        /\ PointAt(b.text, Primary(b)[1]) = b.selection[1]
        /\ PointAt(b.text, Primary(b)[2]) = b.selection[2]
    BY <1>2 DEF Adrift, HasSelection
  <2>2. b.selection = <<b.selection[1], b.selection[2]>>
    BY <1>0, <1>2
  <2>3. Points(b.text, Primary(b)) = b.selection
    BY <2>1, <2>2 DEF Points
  <2>4. Chosen(Points(b.text, Primary(b))) = b.selection
    BY <2>3, <1>0, <1>2 DEF Chosen
  <2>5. AtRange(b, Primary(b)) = [b EXCEPT !.cursor = b.cursor, !.selection = b.selection]
    BY <2>1, <2>4 DEF AtRange
  <2> QED BY <2>1, <2>5, <1>0 DEF Buffers
<1> QED BY <1>1, <1>2

\* Writing with one caret.
LEMMA SingleIsSum ==
  ASSUME NEW b, Valid(b), b.others = <<>>, ~Adrift(b), NEW ins \in Documents
  PROVE  Same(WriteAt(b, ins, b.cursor, TRUE), SumOf(b.text, Ranges(b), <<ins>>))
<1> DEFINE r == Primary(b) rs == <<r>> texts == <<ins>> a == Fresh(b)
           s == Replaced(b, rs, texts, TRUE) new == WriteAt(b, ins, b.cursor, TRUE)
           sum == SumOf(b.text, rs, texts)
<1>0. Shaped(b) /\ Ranges(b) = rs /\ r \in Spans /\ Inside(b.text, r) /\ Spread(b.text, rs)
      /\ Len(rs) = 1 /\ \A i \in 1..Len(rs) : texts[i] = ins /\ texts[i] \in Documents
  <2>1. Shaped(b)
    BY DEF Valid
  <2>2. Ranges(b) = rs /\ Spread(b.text, Ranges(b))
    BY <2>1, AloneIsValid, RangesIs
  <2>3. r \in Spans /\ Inside(b.text, r)
    BY <2>1, PrimaryType
  <2> QED BY <2>1, <2>2, <2>3
<1>1. s.b.full \/ Equals(s, sum)
  <2> HIDE DEF rs, texts
  <2> QED BY <1>0, ReplacedIsSum
<1>2. PICK f : Replacing(f, b, rs, texts, TRUE) /\ s = f[1]
  <2>1. PICK raw : raw = TRUE
    OBVIOUS
  <2> HIDE DEF rs, texts
  <2>2. \A i \in 1..Len(rs) : texts[i] \in Seq(Typeable) /\ (raw => texts[i] \in Documents)
    BY <1>0 DEF Documents, Typeable
  <2>3. \E f : Replacing(f, b, rs, texts, raw) /\ Replaced(b, rs, texts, raw) = f[1]
    <3>1. Shaped(b) /\ Spread(b.text, rs)
      BY <1>0
    <3> QED BY <3>1, <2>2, ReplacedIs
  <2> QED BY <2>1, <2>3
<1>3. s = ReplaceCaret(a, r, ins, TRUE) /\ Placing(b, rs, a, 1 + 1)
  <2>1. f[Len(rs) + 1] = a /\ Placing(b, rs, f[1 + 1], 1 + 1)
        /\ f[1] = ReplaceCaret(f[1 + 1], rs[1], texts[1], TRUE)
    <3>1. 1 \in 1..Len(rs) /\ 1 + 1 \in 1..Len(rs) + 1
      BY <1>0
    <3> HIDE DEF rs, texts, a
    <3> QED BY <3>1, <1>2 DEF Replacing, a
  <2> QED BY <2>1, <1>0, <1>2
<1>4. CaretReplaced(a, r, s, new)
  <2>1. PICK raw : raw = TRUE
    OBVIOUS
  <2>2. ins \in Seq(Typeable) /\ 1 \in 1..Len(rs)
    BY <1>0 DEF Documents, Typeable
  <2>3. CaretReplaced(a, rs[1], ReplaceCaret(a, rs[1], ins, raw),
                      WriteAt(AtRange(a.b, rs[1]), ins, rs[1][2], raw))
    <3> HIDE DEF rs, a
    <3> QED BY <1>0, <1>3, <2>2, PlacingStep
  <2>4. rs[1] = r /\ a.b = b /\ AtRange(b, r) = b /\ r[2] = b.cursor
    BY <1>0, Aligned DEF Fresh
  <2> QED BY <2>1, <2>3, <2>4, <1>3
<1>5. s.b = new /\ s.carets[1] = new.cursor /\ Len(s.carets) = 1 /\ new.others = <<>>
  <2>1. a.carets = <<>> /\ Len(a.carets) = 0 /\ a.b = b
    BY DEF Fresh
  <2> HIDE DEF a, new, s
  <2> QED BY <1>4, <2>1 DEF CaretReplaced
<1>6. s.b.full \/ Wrote(a, r, ins, s)
  <2>1. a \in Trials /\ a.b = b /\ AtRange(b, r) = b /\ r[2] = b.cursor
    BY <1>0, <1>3, Aligned DEF Fresh, Placing
  <2>2. s.b = WriteAt(AtRange(a.b, r), ins, r[2], TRUE)
    BY <2>1, <1>5
  <2>3. Inside(a.b.text, r)
    BY <1>0, <2>1
  <2> HIDE DEF a, r, s
  <2> QED BY <2>1, <2>2, <2>3, <1>0, ReplaceCaretWrites
<1>7. ASSUME Equals(s, sum), Wrote(a, r, ins, s)
      PROVE  new.text = sum.text /\ {q[2] : q \in ToSet(Ranges(new))} = sum.carets
  <2>1. Shaped(new) /\ new.selection = <<>>
    <3>1. s \in Trials
      BY <1>4 DEF CaretReplaced
    <3> HIDE DEF s, new, a
    <3> QED BY <3>1, <1>5, <1>7 DEF Wrote, Trials
  <2> HIDE DEF new, s
  <2>2. Ranges(new) = <<Primary(new)>>
    BY <2>1, <1>5, AloneIsValid
  <2>3. Primary(new) = <<new.cursor, new.cursor>>
    BY <2>1 DEF Primary
  <2>4. ToSet(Ranges(new)) = {<<new.cursor, new.cursor>>}
    <3> DEFINE p == <<new.cursor, new.cursor>>
    <3> HIDE DEF p
    <3>1. ToSet(<<p>>) = {p}
      BY DEF ToSet
    <3> QED BY <3>1, <2>2, <2>3 DEF p
  <2>5. {q[2] : q \in ToSet(Ranges(new))} = {new.cursor}
    BY <2>4
  <2>6. {s.carets[j] : j \in 1..Len(s.carets)} = {new.cursor}
    BY <1>5
  <2> QED BY <2>5, <2>6, <1>5, <1>7 DEF Equals
<1> HIDE DEF new, s, sum, a
<1>8. ASSUME s.b.full PROVE new.full
  BY <1>5, <1>8, Zenon
<1>9. Same(new, sum)
  BY <1>1, <1>6, <1>7, <1>8, Zenon DEF Same
<1> QED BY <1>0, <1>9 DEF new, sum

\* The sum of one text for all selections.
LEMMA SumOfOne ==
  ASSUME NEW b, Len(Ranges(b)) \in Nat, NEW ins, NEW texts, \A i \in 1..Len(Ranges(b)) : texts[i] = ins
  PROVE  Simultaneous(b, ins) = SumOf(b.text, Ranges(b), texts)
<1> DEFINE t == b.text rs == Ranges(b) n == Len(rs)
           same(f) == [i \in 0..n |-> IF i = 0 THEN Nothing ELSE Added(t, f[i - 1], rs[i], ins)]
           each(f) == [i \in 0..n |-> IF i = 0 THEN Nothing ELSE Added(t, f[i - 1], rs[i], texts[i])]
<1>1. ASSUME NEW f PROVE same(f) = each(f)
  <2>1. \A i \in 0..n : i # 0 => texts[i] = ins
    <3> HIDE DEF rs
    <3>1. n \in Nat /\ \A i \in 1..n : texts[i] = ins
      BY DEF rs
    <3> HIDE DEF n
    <3> QED BY <3>1
  <2> HIDE DEF n, rs, t
  <2> QED BY <2>1
<1>2. Simultaneous(b, ins) = Closed(t, (CHOOSE f : f = same(f))[n])
  BY DEF Simultaneous, Added, Nothing, Closed
<1>3. SumOf(t, rs, texts) = Closed(t, (CHOOSE f : f = each(f))[n])
  BY DEF SumOf
<1> HIDE DEF same, each
<1>4. (CHOOSE f : f = same(f)) = (CHOOSE f : f = each(f))
  <2>1. \A f : f = same(f) <=> f = each(f)
    BY <1>1
  <2> QED BY <2>1
<1> HIDE DEF n, rs, t
<1>5. Simultaneous(b, ins) = SumOf(t, rs, texts)
  BY <1>2, <1>3, <1>4
<1> QED BY <1>5 DEF t, rs

\* Writing replaces all selections at once.
LEMMA WriteIsSimultaneous ==
  ASSUME NEW b, Valid(b), ~Adrift(b), NEW ins \in Documents
  PROVE  Same(Write(b, ins, TRUE), Simultaneous(b, ins))
<1> DEFINE rs == Ranges(b) texts == SameEverywhere(b, ins)
<1>1. Len(rs) \in Nat /\ Len(rs) = Len(b.others) + 1 /\ \A i \in 1..Len(rs) : texts[i] = ins
  BY RangesIs, SameTexts
<1>2. CASE b.others # <<>>
  <2>1. Write(b, ins, TRUE) = WriteMultiple(b, texts, TRUE)
    BY <1>2 DEF Write
  <2>2. Same(WriteMultiple(b, texts, TRUE), SumOf(b.text, rs, texts))
    <3> HIDE DEF texts
    <3> QED BY <1>1, MultipleIsSum
  <2>3. Simultaneous(b, ins) = SumOf(b.text, rs, texts)
    <3> HIDE DEF texts
    <3> QED BY <1>1, SumOfOne
  <2> HIDE DEF texts, rs
  <2> QED BY <2>1, <2>2, <2>3
<1>3. CASE b.others = <<>>
  <2>1. Write(b, ins, TRUE) = WriteAt(b, ins, b.cursor, TRUE)
    BY <1>3 DEF Write
  <2>2. Same(WriteAt(b, ins, b.cursor, TRUE), SumOf(b.text, rs, <<ins>>))
    BY <1>3, SingleIsSum
  <2>3. Simultaneous(b, ins) = SumOf(b.text, rs, <<ins>>)
    <3> DEFINE one == <<ins>>
    <3>1. Len(rs) = 1 /\ one[1] = ins
      BY <1>1, <1>3
    <3> HIDE DEF one, rs
    <3>2. \A i \in 1..Len(rs) : one[i] = ins
      BY <3>1
    <3>3. Len(Ranges(b)) \in Nat /\ \A i \in 1..Len(Ranges(b)) : one[i] = ins
      BY <3>1, <3>2 DEF rs
    <3>4. Simultaneous(b, ins) = SumOf(b.text, Ranges(b), one)
      BY <3>3, SumOfOne
    <3> QED BY <3>4 DEF one, rs
  <2> HIDE DEF rs
  <2> QED BY <2>1, <2>2, <2>3
<1> QED BY <1>2, <1>3

\* The property of a valid buffer: a write replaces all selections at once.
LEMMA BufferWritesAtOnce ==
  ASSUME Valid(buffer)
  PROVE  WritesAtOnce
<1> DEFINE b == buffer
<1> HIDE DEF b
<1>1. ASSUME NEW ins \in {<<>>, <<NL>>} \cup {<<ch>> : ch \in Characters}
      PROVE  Adrift(b) \/ (LET new == Write(b, ins, TRUE) sum == Simultaneous(b, ins)
                           IN new.full \/ (/\ new.text = sum.text
                                           /\ {r[2] : r \in ToSet(Ranges(new))} = sum.carets))
  <2>1. ins \in Documents
    <3>1. CASE ins = <<>>
      BY <3>1 DEF Documents
    <3>2. CASE \E ch \in Chars : ins = <<ch>>
      BY <3>2 DEF Documents
    <3>3. NL \in Chars /\ Characters \subseteq Chars
      BY DEF Chars
    <3> QED BY <3>1, <3>2, <3>3
  <2>2. Valid(b)
    BY DEF b
  <2>3. CASE Adrift(b)
    BY <2>3
  <2>4. CASE ~Adrift(b)
    <3>1. Same(Write(b, ins, TRUE), Simultaneous(b, ins))
      BY <2>1, <2>2, <2>4, WriteIsSimultaneous
    <3> QED BY <3>1, Zenon DEF Same
  <2> QED BY <2>3, <2>4
<1> QED BY <1>1, Zenon DEF WritesAtOnce, b

\* The property of a valid buffer: its selections are in order and disjoint.
LEMMA BufferCaretsAreSound ==
  ASSUME Valid(buffer)
  PROVE  CaretsAreSound
<1> DEFINE b == buffer rs == Ranges(b)
<1>1. Spread(b.text, rs) /\ rs[Len(rs)] = Primary(b) /\ b.text \in Documents
  <2> HIDE DEF b
  <2>1. Valid(b)
    BY DEF b
  <2> QED BY <2>1, RangesIs, ShapedType DEF Valid
<1> HIDE DEF rs
<1>2. /\ Len(rs) \in Nat
      /\ \A i \in 1..Len(rs) : 0 <= Low(rs[i]) /\ High(rs[i]) <= Len(b.text)
  BY <1>1, SpreadRanges
<1>3. ASSUME NEW i \in 1..Len(rs), i > 1 PROVE Parted(rs[i - 1], rs[i])
  <2>1. i - 1 \in 1..Len(rs) /\ i - 1 < i
    BY <1>2, <1>3
  <2> QED BY <2>1, <1>1 DEF Spread
<1>4. \A i \in 1..Len(rs) :
        /\ 0 <= Low(rs[i]) /\ High(rs[i]) <= Len(b.text)
        /\ i > 1 => Parted(rs[i - 1], rs[i])
  BY <1>2, <1>3
<1> HIDE DEF b
<1> QED BY <1>1, <1>4, Zenon DEF CaretsAreSound, Parted, rs, b

-----------------------------------------------------------------------------
(***************************************************************************)
(* The other commands                                                      *)
(***************************************************************************)
\* The members of a set below one of them.
Below(S, m) == {n \in S : n < m}

\* Adding one number to those below another.
LEMMA BelowIs ==
  ASSUME NEW S, IsFiniteSet(S), NEW m
  PROVE  /\ IsFiniteSet(Below(S, m)) /\ Cardinality(Below(S, m)) \in Nat
         /\ IsFiniteSet(Below(S, m) \cup {m})
         /\ Cardinality(Below(S, m) \cup {m})
              = IF m \in Below(S, m) THEN Cardinality(Below(S, m)) ELSE Cardinality(Below(S, m)) + 1
<1>1. Below(S, m) \subseteq S
  BY DEF Below
<1>2. IsFiniteSet(Below(S, m))
  BY <1>1, FS_Subset
<1>3. Cardinality(Below(S, m)) \in Nat
  BY <1>2, FS_CardinalityType
<1> QED BY <1>2, <1>3, FS_AddElement

\* A set of numbers has a member of every rank.
LEMMA RankExists ==
  ASSUME NEW S \in SUBSET Nat, IsFiniteSet(S), NEW k \in Nat, k < Cardinality(S)
  PROVE  \E m \in S : Cardinality(Below(S, m)) = k
<1> DEFINE n == Cardinality(S) - 1
           R == {i \in Nat : \E m \in S : Cardinality(Below(S, m)) = i}
<1>0. /\ Cardinality(S) \in Nat /\ n \in Nat /\ k \in 0..n
      /\ \A j \in S : j \in Nat
  BY FS_CardinalityType
<1>1. 0 \in R
  <2>1. S # {}
    BY <1>0, FS_EmptySet
  <2>2. PICK m \in S : \A j \in S : m <= j
    BY <2>1, LeastExists
  <2>3. Below(S, m) = {}
    <3>1. ASSUME NEW i \in S, i < m PROVE FALSE
      <4>1. i \in Nat /\ m \in Nat /\ m <= i
        BY <1>0, <2>2
      <4> QED BY <4>1, <3>1
    <3> QED BY <3>1 DEF Below
  <2>4. Cardinality(Below(S, m)) = 0
    BY <2>3, FS_EmptySet
  <2> QED BY <2>4
<1>2. ASSUME NEW i \in 1..n, i - 1 \in R PROVE i \in R
  <2>0. i \in Nat /\ i < Cardinality(S)
    BY <1>0
  <2>1. PICK m \in S : Cardinality(Below(S, m)) = i - 1
    BY <1>2
  <2> DEFINE A == {j \in S : m < j} B == Below(S, m) \cup {m}
  <2>2. IsFiniteSet(B) /\ Cardinality(B) = i
    <3>1. m \notin Below(S, m)
      BY DEF Below
    <3> QED BY <3>1, <2>0, <2>1, BelowIs
  <2>3. A # {}
    <3>1. CASE A = {}
      <4>1. S = B
        <5>1. ASSUME NEW j \in S PROVE j \in B
          <6>1. j \in Nat /\ m \in Nat /\ ~(m < j)
            BY <1>0, <3>1
          <6>2. j < m \/ j = m
            BY <6>1
          <6> QED BY <6>2 DEF Below
        <5>2. ASSUME NEW j \in B PROVE j \in S
          BY DEF Below
        <5> HIDE DEF B
        <5> QED BY <5>1, <5>2
      <4> QED BY <4>1, <2>0, <2>2
    <3> QED BY <3>1
  <2>4. PICK q \in A : \A j \in A : q <= j
    BY <2>3, LeastExists
  <2>5. Below(S, q) = B
    <3>1. q \in S /\ m < q /\ \A j \in S : m < j => q <= j
      BY <2>4
    <3>2. ASSUME NEW j \in S PROVE j < q <=> j < m \/ j = m
      <4>1. j \in Nat /\ m \in Nat /\ q \in Nat
        BY <1>0, <3>1
      <4> QED BY <4>1, <3>1
    <3>3. ASSUME NEW j \in B PROVE j \in Below(S, q)
      <4>1. j \in S /\ (j < m \/ j = m)
        BY DEF Below
      <4> QED BY <4>1, <3>2 DEF Below
    <3>4. ASSUME NEW j \in Below(S, q) PROVE j \in B
      <4>1. j \in S /\ j < q
        BY DEF Below
      <4> QED BY <4>1, <3>2 DEF Below
    <3> HIDE DEF B
    <3> QED BY <3>3, <3>4
  <2>6. q \in S /\ Cardinality(Below(S, q)) = i
    BY <2>2, <2>4, <2>5
  <2> QED BY <2>0, <2>6
<1>3. k \in R
  <2> HIDE DEF R, n
  <2>1. \A i \in 0..n : i \in R
    BY <1>0, <1>1, <1>2, Induction
  <2> QED BY <2>1, <1>0
<1> QED BY <1>3

\* Ascending lists members of the set, each greater than those before.
LEMMA AscendingIs ==
  ASSUME NEW S \in SUBSET Nat, IsFiniteSet(S)
  PROVE  LET a == Ascending(S)
         IN /\ a \in Seq(S) /\ Len(a) = Cardinality(S)
            /\ \A i \in 1..Len(a), j \in 1..Len(a) : i < j => a[i] < a[j]
<1> DEFINE a == Ascending(S) n == Cardinality(S)
<1>0. n \in Nat /\ \A j \in S : j \in Nat
  BY FS_CardinalityType
<1>1. ASSUME NEW k \in 1..n
      PROVE  a[k] \in S /\ Cardinality(Below(S, a[k])) = k - 1
  <2>1. a[k] = CHOOSE m \in S : Cardinality({i \in S : i < m}) = k - 1
    BY DEF Ascending
  <2>2. \E m \in S : Cardinality({i \in S : i < m}) = k - 1
    <3>1. k - 1 \in Nat /\ k - 1 < Cardinality(S)
      BY <1>0
    <3>2. \E m \in S : Cardinality(Below(S, m)) = k - 1
      BY <3>1, RankExists
    <3> QED BY <3>2 DEF Below
  <2>3. a[k] \in S /\ Cardinality({i \in S : i < a[k]}) = k - 1
    BY <2>1, <2>2
  <2> QED BY <2>3 DEF Below
<1>2. a = [k \in 1..n |-> a[k]]
  BY DEF Ascending
<1> HIDE DEF a
<1>3. a \in Seq(S) /\ Len(a) = n
  BY <1>0, <1>1, <1>2
<1>4. ASSUME NEW i \in 1..n, NEW j \in 1..n, i < j
      PROVE  a[i] < a[j]
  <2>1. a[i] \in Nat /\ a[j] \in Nat
    BY <1>1
  <2>2. CASE a[j] <= a[i]
    <3>1. Below(S, a[j]) \subseteq Below(S, a[i])
      <4>1. ASSUME NEW n1 \in S, n1 < a[j] PROVE n1 < a[i]
        <5>1. n1 \in Nat
          BY <1>0
        <5> QED BY <5>1, <4>1, <2>1, <2>2
      <4> QED BY <4>1 DEF Below
    <3>2. IsFiniteSet(Below(S, a[i]))
      BY BelowIs
    <3>3. Cardinality(Below(S, a[j])) <= Cardinality(Below(S, a[i]))
      BY <3>1, <3>2, FS_Subset
    <3>4. j - 1 <= i - 1
      BY <3>3, <1>1
    <3> QED BY <3>4, <1>0, <1>4
  <2> QED BY <2>1, <2>2
<1> QED BY <1>3, <1>4 DEF a

\* Edits in order that do not overlap, and how far those from i on leave the text alone.
Edits == [from : Nat, to : Nat, ins : Documents]
Reach(t, edits, i) == IF i > Len(edits) THEN Len(t) ELSE edits[i].from
InTurn(t, edits) ==
  /\ edits \in Seq(Edits)
  /\ \A i \in 1..Len(edits) : edits[i].from <= edits[i].to /\ edits[i].to <= Reach(t, edits, i + 1)

\* The fields of one edit of several.
LEMMA EditIs ==
  ASSUME NEW t \in Documents, NEW edits, InTurn(t, edits), NEW i \in 1..Len(edits)
  PROVE  /\ edits[i].from \in Nat /\ edits[i].to \in Nat /\ edits[i].ins \in Documents
         /\ edits[i].from <= edits[i].to /\ edits[i].to <= Reach(t, edits, i + 1)
         /\ Reach(t, edits, i) = edits[i].from /\ Reach(t, edits, i + 1) \in Nat
         /\ Len(edits) \in Nat /\ Len(edits[i].ins) \in Nat
<1> DEFINE n == Len(edits)
<1>1. edits \in Seq(Edits) /\ n \in Nat /\ edits[i] \in Edits
  BY DEF InTurn
<1>2. edits[i].from \in Nat /\ edits[i].to \in Nat /\ edits[i].ins \in Documents
  BY <1>1 DEF Edits
<1>3. Reach(t, edits, i) = edits[i].from
  BY <1>1 DEF Reach
<1>4. Reach(t, edits, i + 1) \in Nat
  <2>1. CASE i + 1 > n
    BY <2>1 DEF Reach, Documents
  <2>2. CASE ~(i + 1 > n)
    <3>1. i + 1 \in 1..n
      BY <2>2, <1>1
    <3>2. edits[i + 1] \in Edits
      BY <3>1, <1>1
    <3> QED BY <2>2, <3>2 DEF Reach, Edits
  <2> QED BY <2>1, <2>2
<1>5. Len(edits[i].ins) \in Nat
  BY <1>2 DEF Documents
<1> QED BY <1>1, <1>2, <1>3, <1>4, <1>5 DEF InTurn

\* One edit.
LEMMA ApplyEditIs ==
  ASSUME NEW s, Shaped(s), NEW e \in Edits, e.from <= e.to, e.to <= Len(s.text)
  PROVE  Shaped(ApplyEdit(s, e)) /\ e.from <= Len(ApplyEdit(s, e).text)
<1> DEFINE gone == e.to - e.from u == Splice(s.text, e.from, gone, e.ins) l == Len(e.ins)
           new == [s EXCEPT !.text = u, !.cursor = e.from + l]
<1>0. /\ e.from \in Nat /\ e.to \in Nat /\ e.ins \in Documents /\ l \in Nat
      /\ s.text \in Documents /\ Len(s.text) \in Nat
      /\ gone \in Nat /\ e.from + gone <= Len(s.text)
  <2>1. e.from \in Nat /\ e.to \in Nat /\ e.ins \in Documents
    BY DEF Edits
  <2>2. s.text \in Documents /\ Len(s.text) \in Nat
    BY ShapedType
  <2>3. l \in Nat
    BY <2>1 DEF Documents
  <2> QED BY <2>1, <2>2, <2>3
<1>1. CASE e.from = e.to /\ e.ins = <<>>
  BY <1>0, <1>1 DEF ApplyEdit
<1>2. CASE ~(e.from = e.to /\ e.ins = <<>>)
  <2>1. ApplyEdit(s, e) = new
    BY <1>2 DEF ApplyEdit
  <2>2. u \in Documents /\ e.from + l <= Len(u) /\ Len(u) \in Nat
    <3> HIDE DEF gone
    <3> QED BY <1>0, SpliceBegins
  <2>3. e.from + l \in Nat /\ e.from <= Len(u)
    BY <1>0, <2>2
  <2>4. /\ new.text = u /\ new.cursor = e.from + l /\ new.selection = s.selection
        /\ new \in Buffers
    BY <1>0, <2>2, <2>3 DEF Shaped, Buffers
  <2> HIDE DEF new
  <2> QED BY <2>1, <2>2, <2>3, <2>4 DEF Shaped
<1> QED BY <1>1, <1>2

\* All edits, from the last to the first.
LEMMA ApplyEditsValid ==
  ASSUME NEW b, Shaped(b), NEW edits, InTurn(b.text, edits)
  PROVE  Valid(ApplyEdits(b, edits))
<1> DEFINE n == Len(edits) t == b.text
           P == {p \in Buffers \X (1..n + 1) :
                   Shaped(p[1]) /\ Reach(t, edits, p[2]) <= Len(p[1].text)}
           F == [p \in Buffers \X (1..n) |-> ApplyEdit(p[1], edits[p[2]])]
<1>0. n \in Nat /\ t \in Documents /\ Len(t) \in Nat /\ edits \in Seq(Edits)
  BY ShapedType DEF InTurn
<1>1. <<b, n + 1>> \in P
  <2>1. b \in Buffers /\ n + 1 \in 1..n + 1 /\ Reach(t, edits, n + 1) = Len(t)
    BY <1>0 DEF Reach, Shaped
  <2> QED BY <1>0, <2>1
<1>2. ASSUME NEW i \in 1..n, NEW s, <<s, i + 1>> \in P
      PROVE  <<ApplyEdit(s, edits[i]), i>> \in P /\ s \in Buffers
  <2>1. s \in Buffers /\ Shaped(s) /\ Reach(t, edits, i + 1) <= Len(s.text)
    BY <1>2
  <2> DEFINE e == edits[i] q == ApplyEdit(s, e)
  <2>2. /\ e.from \in Nat /\ e.to \in Nat /\ e.from <= e.to /\ e.to <= Reach(t, edits, i + 1)
        /\ Reach(t, edits, i) = e.from /\ Reach(t, edits, i + 1) \in Nat /\ e \in Edits
    <3>1. e \in Edits
      BY <1>0
    <3> QED BY <3>1, <1>0, EditIs
  <2> HIDE DEF e
  <2>3. e.to <= Len(s.text)
    <3>1. Len(s.text) \in Nat
      BY <2>1, ShapedType
    <3> QED BY <3>1, <2>1, <2>2
  <2>4. Shaped(q) /\ e.from <= Len(q.text)
    BY <2>1, <2>2, <2>3, ApplyEditIs
  <2> HIDE DEF q
  <2>5. q \in Buffers /\ i \in 1..n + 1 /\ Reach(t, edits, i) <= Len(q.text)
    BY <1>0, <2>2, <2>4 DEF Shaped
  <2> QED BY <2>1, <2>4, <2>5 DEF q, e
<1>3. P \subseteq Buffers \X (1..n + 1)
  OBVIOUS
<1> HIDE DEF P
<1>4. ASSUME NEW i \in 1..n, NEW s, <<s, i + 1>> \in P PROVE <<F[<<s, i>>], i>> \in P
  <2>1. F[<<s, i>>] = ApplyEdit(s, edits[i])
    BY <1>4, <1>2
  <2> QED BY <2>1, <1>4, <1>2
<1>5. PICK g : RecursiveDown(g, n, Buffers, P, b, F)
  <2> HIDE DEF n, F
  <2>1. \A i \in 1..n : \A s : <<s, i + 1>> \in P => <<F[<<s, i>>], i>> \in P
    BY <1>4
  <2> QED BY <1>0, <1>1, <1>3, <2>1, RecursionDown
<1>6. g = [i \in 1..n + 1 |-> IF i > n THEN b ELSE ApplyEdit(g[i + 1], edits[i])]
  <2>1. ASSUME NEW i \in 1..n PROVE g[i] = ApplyEdit(g[i + 1], edits[i])
    <3>1. <<g[i + 1], i + 1>> \in P
      BY <1>0, <1>5 DEF RecursiveDown
    <3> QED BY <3>1, <1>5, <1>2 DEF RecursiveDown
  <2>2. \A i \in 1..n + 1 : g[i] = IF i > n THEN b ELSE ApplyEdit(g[i + 1], edits[i])
    <3> TAKE i \in 1..n + 1
    <3>1. i > n => i = n + 1
      BY <1>0
    <3>2. ~(i > n) => i \in 1..n
      BY <1>0
    <3>3. g[n + 1] = b
      BY <1>5 DEF RecursiveDown
    <3> QED BY <2>1, <3>1, <3>2, <3>3
  <2> QED BY <2>2, <1>5 DEF RecursiveDown
<1>7. \E f : /\ f = [i \in 1..n + 1 |-> IF i > n THEN b ELSE ApplyEdit(f[i + 1], edits[i])]
             /\ ApplyEdits(b, edits) = ClearSelection(f[1])
  BY <1>6 DEF ApplyEdits
<1>8. PICK f : /\ f = [i \in 1..n + 1 |-> IF i > n THEN b ELSE ApplyEdit(f[i + 1], edits[i])]
               /\ ApplyEdits(b, edits) = ClearSelection(f[1])
  BY <1>7
<1> DEFINE S == {i \in 1..n + 1 : <<f[i], i>> \in P}
<1>9. n + 1 \in S
  <2>1. f[n + 1] = b
    <3>1. n + 1 \in 1..n + 1 /\ n + 1 > n
      BY <1>0
    <3> HIDE DEF n
    <3> QED BY <1>8, <3>1
  <2>2. n + 1 \in 1..n + 1
    BY <1>0
  <2>3. <<f[n + 1], n + 1>> \in P
    BY <1>1, <2>1
  <2> HIDE DEF P, n
  <2> QED BY <2>2, <2>3
<1>10. ASSUME NEW i \in 1..n PROVE f[i] = ApplyEdit(f[i + 1], edits[i])
  <2>1. i \in 1..n + 1 /\ ~(i > n)
    BY <1>0
  <2> HIDE DEF n
  <2> QED BY <1>8, <2>1
<1>11. ASSUME NEW i \in 1..n, i + 1 \in S PROVE i \in S
  <2>1. <<f[i + 1], i + 1>> \in P
    BY <1>11
  <2>2. <<ApplyEdit(f[i + 1], edits[i]), i>> \in P
    BY <2>1, <1>2
  <2>3. i \in 1..n + 1
    BY <1>0
  <2> QED BY <2>2, <2>3, <1>10
<1>12. Shaped(f[1])
  <2>1. \A i \in 1..n + 1 : i \in S
    <3> HIDE DEF S, n
    <3> QED BY <1>0, <1>9, <1>11, InductionDown
  <2>2. 1 \in S
    BY <2>1, <1>0
  <2> QED BY <2>2 DEF P
<1> HIDE DEF S, n, P, F
<1> QED BY <1>8, <1>12, ClearSelectionValid

Traced(e, o, m) ==
  CASE o >= e.to -> m + Grown(e)
    [] o < e.to /\ o > e.from -> e.from + Len(e.ins)
    [] OTHER -> m

\* An offset that follows the edits from i on stays at or behind itself, or where edit i begins.
LEMMA TracedIs ==
  ASSUME NEW t \in Documents, NEW edits, InTurn(t, edits), NEW i \in 1..Len(edits),
         NEW o \in Nat, NEW m \in Nat, Smaller(o, Reach(t, edits, i + 1)) <= m
  PROVE  /\ Traced(edits[i], o, m) \in Nat
         /\ Smaller(o, Reach(t, edits, i)) <= Traced(edits[i], o, m)
<1> DEFINE from == edits[i].from to == edits[i].to l == Len(edits[i].ins) r == Reach(t, edits, i + 1)
<1>1. /\ from \in Nat /\ to \in Nat /\ l \in Nat /\ r \in Nat /\ from <= to /\ to <= r
      /\ Reach(t, edits, i) = from
  BY EditIs
<1>2. Traced(edits[i], o, m) = CASE o >= to -> m + (l - (to - from))
                                 [] o < to /\ o > from -> from + l
                                 [] OTHER -> m
  BY DEF Traced, Grown
<1>3. IF o < r THEN o <= m ELSE r <= m
  BY <1>1 DEF Smaller
<1> HIDE DEF from, to, l, r
<1>4. CASE o >= to
  <2>1. to <= m
    BY <1>1, <1>3, <1>4
  <2>2. Traced(edits[i], o, m) = m + (l - (to - from))
    <3>1. o >= to /\ ~(o < to /\ o > from)
      BY <1>1, <1>4
    <3> QED BY <1>2, <3>1
  <2> QED BY <1>1, <2>1, <2>2 DEF Smaller
<1>5. CASE o < to /\ o > from
  <2>1. ~(o >= to)
    BY <1>1, <1>5
  <2>2. Traced(edits[i], o, m) = from + l
    BY <1>2, <1>5, <2>1
  <2> QED BY <1>1, <2>2 DEF Smaller
<1>6. CASE ~(o >= to) /\ ~(o < to /\ o > from)
  <2>1. Traced(edits[i], o, m) = m /\ o <= from /\ o <= m
    BY <1>1, <1>2, <1>3, <1>6
  <2> QED BY <1>1, <2>1 DEF Smaller
<1> QED BY <1>4, <1>5, <1>6

\* Following all edits.
LEMMA FollowedType ==
  ASSUME NEW t \in Documents, NEW edits, InTurn(t, edits), NEW o \in Nat
  PROVE  Followed(edits, o) \in Nat
<1> DEFINE n == Len(edits)
           P == {p \in Nat \X (1..n + 1) : Smaller(o, Reach(t, edits, p[2])) <= p[1]}
           F == [p \in Nat \X (1..n) |-> Traced(edits[p[2]], o, p[1])]
<1>0. n \in Nat
  BY DEF InTurn
<1>1. <<o, n + 1>> \in P
  <2>1. Reach(t, edits, n + 1) = Len(t) /\ Len(t) \in Nat /\ n + 1 \in 1..n + 1
    BY <1>0 DEF Reach, Documents
  <2>2. Smaller(o, Len(t)) <= o
    BY <2>1 DEF Smaller
  <2> QED BY <2>1, <2>2
<1>2. ASSUME NEW i \in 1..n, NEW m, <<m, i + 1>> \in P
      PROVE  <<Traced(edits[i], o, m), i>> \in P /\ m \in Nat
  <2>1. m \in Nat /\ Smaller(o, Reach(t, edits, i + 1)) <= m /\ i \in 1..n + 1
    BY <1>0, <1>2
  <2>2. /\ Traced(edits[i], o, m) \in Nat
        /\ Smaller(o, Reach(t, edits, i)) <= Traced(edits[i], o, m)
    BY <2>1, TracedIs
  <2> QED BY <2>1, <2>2
<1>3. P \subseteq Nat \X (1..n + 1)
  OBVIOUS
<1> HIDE DEF P
<1>4. ASSUME NEW i \in 1..n, NEW m, <<m, i + 1>> \in P PROVE <<F[<<m, i>>], i>> \in P
  <2>1. F[<<m, i>>] = Traced(edits[i], o, m)
    BY <1>4, <1>2
  <2> QED BY <2>1, <1>4, <1>2
<1>5. PICK g : RecursiveDown(g, n, Nat, P, o, F)
  <2> HIDE DEF n, F
  <2>1. \A i \in 1..n : \A m : <<m, i + 1>> \in P => <<F[<<m, i>>], i>> \in P
    BY <1>4
  <2> QED BY <1>0, <1>1, <1>3, <2>1, RecursionDown
<1>6. g = [i \in 1..n + 1 |-> IF i > n THEN o ELSE Traced(edits[i], o, g[i + 1])]
  <2>1. ASSUME NEW i \in 1..n PROVE g[i] = Traced(edits[i], o, g[i + 1])
    <3>1. <<g[i + 1], i + 1>> \in P
      BY <1>0, <1>5 DEF RecursiveDown
    <3> QED BY <3>1, <1>5, <1>2 DEF RecursiveDown
  <2>2. \A i \in 1..n + 1 : g[i] = IF i > n THEN o ELSE Traced(edits[i], o, g[i + 1])
    <3> TAKE i \in 1..n + 1
    <3>1. i > n => i = n + 1
      BY <1>0
    <3>2. ~(i > n) => i \in 1..n
      BY <1>0
    <3>3. g[n + 1] = o
      BY <1>5 DEF RecursiveDown
    <3> QED BY <2>1, <3>1, <3>2, <3>3
  <2> QED BY <2>2, <1>5 DEF RecursiveDown
<1>7. \E f : /\ f = [i \in 1..n + 1 |-> IF i > n THEN o ELSE Traced(edits[i], o, f[i + 1])]
             /\ Followed(edits, o) = f[1]
  BY <1>6 DEF Followed, Traced
<1>8. PICK f : /\ f = [i \in 1..n + 1 |-> IF i > n THEN o ELSE Traced(edits[i], o, f[i + 1])]
               /\ Followed(edits, o) = f[1]
  BY <1>7
<1> DEFINE S == {i \in 1..n + 1 : <<f[i], i>> \in P}
<1>9. n + 1 \in S
  <2>1. f[n + 1] = o
    <3>1. n + 1 \in 1..n + 1 /\ n + 1 > n
      BY <1>0
    <3> HIDE DEF n
    <3> QED BY <1>8, <3>1
  <2>2. n + 1 \in 1..n + 1
    BY <1>0
  <2>3. <<f[n + 1], n + 1>> \in P
    BY <1>1, <2>1
  <2> HIDE DEF P, n
  <2> QED BY <2>2, <2>3
<1>10. ASSUME NEW i \in 1..n PROVE f[i] = Traced(edits[i], o, f[i + 1])
  <2>1. i \in 1..n + 1 /\ ~(i > n)
    BY <1>0
  <2> HIDE DEF n
  <2> QED BY <1>8, <2>1
<1>11. ASSUME NEW i \in 1..n, i + 1 \in S PROVE i \in S
  <2>1. <<f[i + 1], i + 1>> \in P
    BY <1>11
  <2>2. <<Traced(edits[i], o, f[i + 1]), i>> \in P
    BY <2>1, <1>2
  <2>3. i \in 1..n + 1
    BY <1>0
  <2> QED BY <2>2, <2>3, <1>10
<1>12. f[1] \in Nat
  <2>1. \A i \in 1..n + 1 : i \in S
    <3> HIDE DEF S, n
    <3> QED BY <1>0, <1>9, <1>11, InductionDown
  <2>2. 1 \in S
    BY <2>1, <1>0
  <2> QED BY <2>2 DEF P
<1> HIDE DEF S, n, P, F
<1> QED BY <1>8, <1>12

\* The edit that indents a line stays in that line.
LEMMA IndentEditIs ==
  ASSUME NEW t \in Documents, NEW start \in 0..Len(t), NEW direction \in Int
  PROVE  LET e == IndentEdit(t, start, direction)
         IN /\ e \in Edits /\ start <= e.from /\ e.from <= e.to /\ e.to <= Len(t)
            /\ RowAt(t, e.to) = RowAt(t, start) /\ Grown(e) \in Int
<1> DEFINE width == Indentation(t, start, Far)
           back == Indentation(t, start, PreviousTabStop(width))
           from == start + IF direction < 0 THEN back ELSE width
           ins == [i \in 1..IF direction < 0 THEN 0 ELSE ToTabStop(width) |-> SP]
           e == IndentEdit(t, start, direction)
<1>0. Len(t) \in Nat /\ start \in Nat
  BY DEF Documents
<1>1. /\ width \in Nat /\ start + width <= Len(t)
      /\ RowAt(t, start + width) = RowAt(t, start)
  <2>1. PICK most \in Int : most = Far
    BY DEF Far
  <2>2. LET k == Indentation(t, start, most)
        IN k \in Nat /\ start + k <= Len(t) /\ RowAt(t, start + k) = RowAt(t, start)
    BY IndentationType, IndentationInRow
  <2> QED BY <2>1, <2>2
<1> HIDE DEF width
<1>2. /\ ToTabStop(width) \in Nat /\ PreviousTabStop(width) \in Nat /\ PreviousTabStop(width) <= width
  BY <1>1, TabStops
<1>3. back \in Nat /\ back <= width
  <2> DEFINE stop == PreviousTabStop(width)
  <2>1. stop \in Int /\ stop \in Nat /\ stop <= width
    BY <1>2
  <2> HIDE DEF stop
  <2>2. Indentation(t, start, stop) \in Nat /\ Indentation(t, start, stop) <= Larger(stop, 0)
    BY <2>1, IndentationType
  <2>3. Larger(stop, 0) = stop
    BY <2>1 DEF Larger
  <2> QED BY <2>1, <2>2, <2>3, <1>1 DEF stop
<1> HIDE DEF back
<1>4. from \in Nat /\ start <= from /\ from <= start + width
  BY <1>0, <1>1, <1>3
<1>5. ins \in Documents
  <2>1. (IF direction < 0 THEN 0 ELSE ToTabStop(width)) \in Nat
    BY <1>2
  <2> DEFINE n == IF direction < 0 THEN 0 ELSE ToTabStop(width)
  <2> HIDE DEF n
  <2>2. [i \in 1..n |-> SP] \in Documents
    BY <2>1, SpacesType DEF n
  <2> QED BY <2>2 DEF n
<1>6. e = [from |-> from, to |-> start + width, ins |-> ins]
  BY DEF IndentEdit, width, back
<1> HIDE DEF from, ins, e
<1>7. /\ e \in Edits /\ e.from = from /\ e.to = start + width /\ e.ins = ins
  BY <1>0, <1>1, <1>4, <1>5, <1>6 DEF Edits
<1>8. Grown(e) \in Int
  <2>1. Len(e.ins) \in Nat /\ e.to \in Nat /\ e.from \in Nat
    BY <1>0, <1>1, <1>4, <1>5, <1>7 DEF Documents
  <2> QED BY <2>1 DEF Grown
<1>9. /\ e \in Edits /\ start <= e.from /\ e.from <= e.to /\ e.to <= Len(t)
      /\ RowAt(t, e.to) = RowAt(t, start) /\ Grown(e) \in Int
  BY <1>0, <1>1, <1>4, <1>7, <1>8
<1> QED BY <1>9 DEF e

\* The edits that indent several lines, from the first to the last of them.
RowEdits(t, ys, direction) ==
  [i \in 1..Cardinality(ys) |-> IndentEdit(t, LineStart(t, Ascending(ys)[i]), direction)]

\* The edits that indent several rows are in order and do not overlap.
LEMMA RowEditsOrdered ==
  ASSUME NEW t \in Documents, NEW ys \in SUBSET (0..Rows(t) - 1), NEW direction \in Int
  PROVE  InTurn(t, RowEdits(t, ys, direction))
<1> DEFINE n == Cardinality(ys) a == Ascending(ys) start(i) == LineStart(t, a[i])
           es == RowEdits(t, ys, direction)
<1>0. Rows(t) \in Nat /\ Len(t) \in Nat
  BY RowType DEF Documents
<1>1. IsFiniteSet(ys) /\ n \in Nat /\ ys \in SUBSET Nat
  <2>1. IsFiniteSet(0..Rows(t) - 1)
    BY <1>0, FS_Interval
  <2>2. IsFiniteSet(ys)
    BY <2>1, FS_Subset
  <2>3. n \in Nat
    BY <2>2, FS_CardinalityType
  <2> QED BY <1>0, <2>2, <2>3
<1>2. /\ a \in Seq(ys) /\ Len(a) = n
      /\ \A i \in 1..n, j \in 1..n : i < j => a[i] < a[j]
  BY <1>1, AscendingIs
<1> HIDE DEF a
<1>3. ASSUME NEW i \in 1..n
      PROVE  a[i] \in Nat /\ a[i] < Rows(t) /\ start(i) \in 0..Len(t) /\ RowAt(t, start(i)) = a[i]
  <2>1. a[i] \in ys
    BY <1>2
  <2>2. a[i] \in Nat /\ a[i] < Rows(t)
    <3>1. a[i] \in 0..Rows(t) - 1
      BY <2>1
    <3> QED BY <3>1, <1>0
  <2> QED BY <2>2, LineStartIs
<1>4. es = [i \in 1..n |-> IndentEdit(t, start(i), direction)]
  BY DEF RowEdits, a
<1>5. ASSUME NEW i \in 1..n
      PROVE  /\ es[i] \in Edits /\ start(i) <= es[i].from /\ es[i].from <= es[i].to
             /\ es[i].to <= Len(t) /\ RowAt(t, es[i].to) = a[i]
  <2>1. es[i] = IndentEdit(t, start(i), direction)
    BY <1>4
  <2> DEFINE o == start(i)
  <2>2. o \in 0..Len(t) /\ RowAt(t, o) = a[i]
    BY <1>3
  <2> HIDE DEF o, es
  <2>3. LET e == IndentEdit(t, o, direction)
        IN /\ e \in Edits /\ o <= e.from /\ e.from <= e.to /\ e.to <= Len(t)
           /\ RowAt(t, e.to) = RowAt(t, o)
    BY <2>2, IndentEditIs
  <2> QED BY <2>1, <2>2, <2>3 DEF o
<1> HIDE DEF es
<1>6. es \in Seq(Edits) /\ Len(es) = n
  BY <1>1, <1>4, <1>5
<1>7. ASSUME NEW i \in 1..n PROVE es[i].to <= Reach(t, es, i + 1)
  <2>1. CASE i = n
    <3>1. i + 1 > Len(es)
      BY <2>1, <1>1, <1>6
    <3> QED BY <3>1, <1>5 DEF Reach
  <2>2. CASE i # n
    <3>1. i + 1 \in 1..n /\ i < i + 1 /\ ~(i + 1 > Len(es))
      BY <2>2, <1>1, <1>6
    <3> DEFINE k == i + 1
    <3>2. k \in 1..n /\ a[i] < a[k] /\ Reach(t, es, k) = es[k].from
      BY <3>1, <1>2 DEF Reach
    <3>3. /\ es[i].to \in Nat /\ es[k].from \in Nat /\ start(k) \in Nat /\ start(k) <= es[k].from
          /\ a[i] \in Nat /\ a[k] \in Nat
      <4>1. es[i] \in Edits /\ es[k] \in Edits
        BY <3>2, <1>5
      <4>2. start(k) \in 0..Len(t)
        BY <3>2, <1>3
      <4> HIDE DEF start, k
      <4> QED BY <4>1, <4>2, <3>2, <1>0, <1>3, <1>5 DEF Edits
    <3>4. CASE start(k) <= es[i].to
      <4>1. RowAt(t, start(k)) <= RowAt(t, es[i].to)
        <5> DEFINE o == start(k) p == es[i].to
        <5>1. o \in Int /\ p \in Int /\ o <= p
          BY <3>3, <3>4
        <5> HIDE DEF o, p
        <5>2. RowAt(t, o) <= RowAt(t, p)
          BY <5>1, RowsRise
        <5> QED BY <5>2 DEF o, p
      <4>2. RowAt(t, start(k)) = a[k] /\ RowAt(t, es[i].to) = a[i]
        BY <3>2, <1>3, <1>5
      <4> QED BY <4>1, <4>2, <3>2, <3>3
    <3>5. CASE ~(start(k) <= es[i].to)
      <4> HIDE DEF start
      <4> QED BY <3>2, <3>3, <3>5
    <3> QED BY <3>4, <3>5
  <2> QED BY <2>1, <2>2
<1>8. InTurn(t, es)
  BY <1>5, <1>6, <1>7 DEF InTurn
<1> QED BY <1>8 DEF es

\* Indenting with several carets.
LEMMA IndentEachValid ==
  ASSUME NEW b, Valid(b), NEW direction \in Int
  PROVE  Valid(IndentEach(b, direction))
<1> DEFINE t == b.text rs == Ranges(b)
           rowsOf(r) ==
             LET to(p) == IF p.x = 0 /\ Wide(r) THEN p.y - 1 ELSE p.y
             IN RowAt(t, Low(r))..to(PointAt(t, High(r)))
           ys == {y \in 0..Rows(t) - 1 : /\ \E i \in 1..Len(rs) : y \in rowsOf(rs[i])
                                         /\ \/ direction > 0
                                            \/ Indentation(t, LineStart(t, y), Far) > 0}
           es == RowEdits(t, ys, direction)
           to == [i \in 1..Len(rs) |-> <<Followed(es, rs[i][1]), Followed(es, rs[i][2])>>]
           new == IndentEach(b, direction)
<1>0. Shaped(b) /\ t \in Documents
  BY ShapedType DEF Valid
<1>1. \/ new = b \/ new = Refused(b) \/ new = SetRanges(ApplyEdits(b, es), to)
  BY DEF IndentEach, RowEdits, Refused
<1>2. InTurn(t, es)
  <2>1. ys \in SUBSET (0..Rows(t) - 1)
    OBVIOUS
  <2> HIDE DEF ys
  <2> QED BY <2>1, <1>0, RowEditsOrdered
<1> HIDE DEF es, new
<1>3. Valid(SetRanges(ApplyEdits(b, es), to))
  <2>1. Shaped(ApplyEdits(b, es))
    BY <1>0, <1>2, ApplyEditsValid DEF Valid
  <2>2. rs \in Seq(Spans) /\ Len(rs) \in Nat /\ Len(rs) > 0
    <3>1. rs \in Seq(Spans) /\ rs # <<>>
      BY RangesIs
    <3> HIDE DEF rs
    <3> QED BY <3>1
  <2> HIDE DEF rs
  <2>3. ASSUME NEW i \in 1..Len(rs) PROVE to[i] \in Spans
    <3>1. rs[i] \in Spans
      BY <2>2
    <3>2. rs[i][1] \in Nat /\ rs[i][2] \in Nat
      BY <3>1, SpanType
    <3>3. Followed(es, rs[i][1]) \in Nat /\ Followed(es, rs[i][2]) \in Nat
      BY <3>2, <1>0, <1>2, FollowedType
    <3> QED BY <3>3 DEF Spans
  <2>4. to \in Seq(Spans) /\ to # <<>>
    <3>1. to = [i \in 1..Len(rs) |-> to[i]] /\ Len(to) = Len(rs)
      BY <2>2
    <3> HIDE DEF to
    <3> QED BY <3>1, <2>2, <2>3
  <2> HIDE DEF to
  <2> QED BY <2>1, <2>4, SetRangesIs
<1>4. Valid(new)
  BY <1>1, <1>3, RefusedValid
<1> QED BY <1>4 DEF new

\* A buffer with one selection, and the points of that selection, while lines are indented.
Indents ==
  {s \in [b : Buffers, beg : Point, end : Point] : Shaped(s.b) /\ s.b.others = <<>>}

\* indent_change, one line: the buffer keeps one caret.
LEMMA IndentLineType ==
  ASSUME NEW s \in Indents, NEW y \in Int, NEW direction \in Int
  PROVE  IndentLine(s, y, direction) \in Indents
<1> DEFINE t == s.b.text start == OffsetAt(t, [x |-> 0, y |-> y])
           e == IndentEdit(t, start, direction)
           p0 == [x |-> e.to - start, y |-> RowAt(t, start)] at == SetCursor(s.b, OffsetAt(t, p0))
           shift(p, delta) == IF p.y = y THEN [p EXCEPT !.x = @ + delta] ELSE p
           b == IF direction < 0 THEN DeleteBetween(at, e.from, e.to)
                ELSE WriteAt(at, <<TAB>>, at.cursor, FALSE)
           new == [b |-> b, beg |-> shift(s.beg, Grown(e)), end |-> shift(s.end, Grown(e))]
           still == [s EXCEPT !.b = at]
<1>0. /\ Shaped(s.b) /\ s.b.others = <<>> /\ s.beg \in Point /\ s.end \in Point
      /\ t \in Documents /\ s \in [b : Buffers, beg : Point, end : Point]
  <2>1. Shaped(s.b) /\ s.b.others = <<>> /\ s \in [b : Buffers, beg : Point, end : Point]
    BY DEF Indents
  <2> QED BY <2>1, ShapedType
<1>1. start \in 0..Len(t)
  <2> DEFINE p == [x |-> 0, y |-> y]
  <2>1. p \in Point
    BY DEF Point
  <2>2. OffsetAt(t, p) \in 0..Len(t)
    <3> HIDE DEF p
    <3> QED BY <2>1, <1>0, OffsetType
  <2> QED BY <2>2
<1> HIDE DEF start
<1>2. /\ e \in Edits /\ e.from <= e.to /\ e.to <= Len(t) /\ Grown(e) \in Int
  BY <1>0, <1>1, IndentEditIs
<1> HIDE DEF e
<1>3. e.from \in Nat /\ e.to \in Nat /\ Len(t) \in Nat /\ e.to \in 0..Len(t)
  <2>1. e.from \in Nat /\ e.to \in Nat
    BY <1>2 DEF Edits
  <2>2. Len(t) \in Nat
    BY <1>0, ShapedType
  <2> QED BY <2>1, <2>2, <1>2
<1>4. Shaped(at) /\ at.others = <<>> /\ at.text = t /\ at.cursor \in 0..Len(t)
  <2>1. start \in Int /\ RowAt(t, start) \in Int
    <3>1. start \in Int
      BY <1>1, <1>3
    <3> QED BY <3>1, <1>0, RowType
  <2>2. p0 \in Point
    BY <2>1, <1>3 DEF Point
  <2> HIDE DEF p0
  <2>3. OffsetAt(t, p0) \in 0..Len(t)
    BY <2>2, <1>0, OffsetType
  <2> QED BY <1>0, <2>3, SetCursorIs DEF Valid
<1> HIDE DEF at, p0
<1>5. Shaped(b) /\ b.others = <<>>
  <2>1. Shaped(DeleteBetween(at, e.from, e.to)) /\ DeleteBetween(at, e.from, e.to).others = <<>>
    BY <1>2, <1>3, <1>4, DeleteBetweenIs
  <2>2. /\ Shaped(WriteAt(at, <<TAB>>, at.cursor, FALSE))
        /\ WriteAt(at, <<TAB>>, at.cursor, FALSE).others = <<>>
    <3>1. PICK raw : raw = FALSE
      OBVIOUS
    <3> DEFINE ins == <<TAB>>
    <3>2. ins \in Seq(Typeable) /\ (raw => ins \in Documents)
      BY <3>1 DEF Typeable
    <3>3. at.cursor \in 0..Len(at.text)
      BY <1>3, <1>4
    <3> HIDE DEF ins
    <3>4. Shaped(WriteAt(at, ins, at.cursor, raw)) /\ WriteAt(at, ins, at.cursor, raw).others = at.others
      BY <3>2, <3>3, <1>4, WriteAtIs
    <3> QED BY <3>1, <3>4, <1>4 DEF ins
  <2> QED BY <2>1, <2>2
<1>6. IndentLine(s, y, direction) = still \/ IndentLine(s, y, direction) = new
  BY DEF IndentLine, start, e, at, p0
<1>7. still \in Indents
  <2>1. at \in Buffers
    BY <1>4 DEF Shaped
  <2>2. still.b = at /\ still \in [b : Buffers, beg : Point, end : Point]
    BY <2>1, <1>0
  <2> HIDE DEF still
  <2> QED BY <2>2, <1>4 DEF Indents
<1>8. new \in Indents
  <2>1. ASSUME NEW p \in Point PROVE shift(p, Grown(e)) \in Point
    <3> DEFINE d == Grown(e)
    <3>1. d \in Int
      BY <1>2
    <3> HIDE DEF d
    <3>2. [p EXCEPT !.x = @ + d] \in Point
      BY <3>1 DEF Point
    <3> QED BY <3>2 DEF d
  <2>2. shift(s.beg, Grown(e)) \in Point /\ shift(s.end, Grown(e)) \in Point
    BY <2>1, <1>0
  <2> HIDE DEF shift
  <2>3. b \in Buffers
    BY <1>5 DEF Shaped
  <2> HIDE DEF b
  <2>4. new.b = b /\ new \in [b : Buffers, beg : Point, end : Point]
    BY <2>2, <2>3
  <2> HIDE DEF new
  <2> QED BY <2>4, <1>5 DEF Indents, b
<1> QED BY <1>6, <1>7, <1>8

\* indent_change, line after line.
LEMMA IndentLinesType ==
  ASSUME NEW s \in Indents, NEW ys \in Seq(Int), NEW direction \in Int
  PROVE  IndentLines(s, ys, direction) \in Indents
<1> DEFINE n == Len(ys)
           P == Indents \X (0..n)
           F == [p \in Indents \X (1..n) |-> IndentLine(p[1], ys[p[2]], direction)]
<1>0. n \in Nat
  OBVIOUS
<1>1. <<s, 0>> \in P
  BY <1>0
<1>2. ASSUME NEW i \in 1..n, NEW q \in Indents
      PROVE  IndentLine(q, ys[i], direction) \in Indents
  <2>1. ys[i] \in Int
    OBVIOUS
  <2> QED BY <2>1, IndentLineType
<1>3. P \subseteq Indents \X (0..n)
  OBVIOUS
<1>4. ASSUME NEW i \in 1..n, NEW q, <<q, i - 1>> \in P PROVE <<F[<<q, i>>], i>> \in P
  <2>1. q \in Indents /\ i \in 0..n
    BY <1>0, <1>4
  <2>2. F[<<q, i>>] = IndentLine(q, ys[i], direction)
    BY <2>1
  <2> QED BY <2>1, <2>2, <1>2
<1>5. PICK g : Recursive(g, n, Indents, P, s, F)
  <2> HIDE DEF n, F, P
  <2>1. \A i \in 1..n : \A q : <<q, i - 1>> \in P => <<F[<<q, i>>], i>> \in P
    BY <1>4
  <2> QED BY <1>0, <1>1, <1>3, <2>1, Recursion
<1>6. g = [i \in 0..n |-> IF i = 0 THEN s ELSE IndentLine(g[i - 1], ys[i], direction)]
  <2>1. ASSUME NEW i \in 1..n PROVE g[i] = IndentLine(g[i - 1], ys[i], direction)
    <3>1. g[i - 1] \in Indents
      BY <1>0, <1>5 DEF Recursive
    <3> HIDE DEF P
    <3> QED BY <3>1, <1>5 DEF Recursive
  <2>2. \A i \in 0..n : g[i] = IF i = 0 THEN s ELSE IndentLine(g[i - 1], ys[i], direction)
    BY <1>5, <2>1 DEF Recursive
  <2> QED BY <2>2, <1>5 DEF Recursive
<1>7. \E f : /\ f = [i \in 0..n |-> IF i = 0 THEN s ELSE IndentLine(f[i - 1], ys[i], direction)]
             /\ IndentLines(s, ys, direction) = f[n]
  BY <1>6 DEF IndentLines
<1>8. PICK f : /\ f = [i \in 0..n |-> IF i = 0 THEN s ELSE IndentLine(f[i - 1], ys[i], direction)]
               /\ IndentLines(s, ys, direction) = f[n]
  BY <1>7
<1> DEFINE S == {i \in 0..n : f[i] \in Indents}
<1>9. 0 \in S
  <2>1. 0 \in 0..n
    BY <1>0
  <2> HIDE DEF n
  <2>2. f[0] = s
    BY <1>8, <2>1
  <2> QED BY <2>1, <2>2
<1>10. ASSUME NEW i \in 1..n, i - 1 \in S PROVE i \in S
  <2>1. i \in 0..n /\ i # 0
    BY <1>0
  <2>2. f[i] = IndentLine(f[i - 1], ys[i], direction)
    <3> HIDE DEF n
    <3> QED BY <1>8, <2>1
  <2>3. f[i - 1] \in Indents
    BY <1>10
  <2> QED BY <2>1, <2>2, <2>3, <1>2
<1>11. f[n] \in Indents
  <2>1. \A i \in 0..n : i \in S
    <3> HIDE DEF S, n
    <3> QED BY <1>0, <1>9, <1>10, Induction
  <2> QED BY <2>1, <1>0
<1> HIDE DEF S, n, P, F
<1> QED BY <1>8, <1>11

\* What is left when all lines are indented.
LEMMA IndentSettled ==
  ASSUME NEW s \in Indents, NEW selection \in {Chosen(<<s.beg, s.end>>), <<>>}
  PROVE  Valid([s.b EXCEPT !.cursor = OffsetAt(s.b.text, s.end), !.selection = selection])
<1> DEFINE o == OffsetAt(s.b.text, s.end)
           new == [s.b EXCEPT !.cursor = o, !.selection = selection]
<1>0. /\ Shaped(s.b) /\ s.b.others = <<>> /\ s.beg \in Point /\ s.end \in Point
      /\ s.b \in Buffers /\ s.b.text \in Documents /\ Len(s.b.text) \in Nat
  <2>1. Shaped(s.b) /\ s.b.others = <<>> /\ s \in [b : Buffers, beg : Point, end : Point]
    BY DEF Indents
  <2> QED BY <2>1, ShapedType DEF Shaped
<1>1. o \in 0..Len(s.b.text)
  BY <1>0, OffsetType
<1>2. selection \in Selections /\ (selection # <<>> => selection[1] # selection[2])
  <2>1. <<s.beg, s.end>> \in Point \X Point
    BY <1>0
  <2>2. <<>> \in Selections
    BY DEF Selections
  <2> QED BY <2>1, <2>2, ChosenType
<1> HIDE DEF o
<1> DEFINE old == s.b
<1>3. /\ new \in Buffers /\ new.cursor = o /\ new.text = s.b.text /\ new.others = <<>>
      /\ new.selection = selection
  <2>1. o \in Nat
    BY <1>0, <1>1
  <2>2. old \in Buffers /\ old.others = <<>>
    BY <1>0
  <2> DEFINE next == [old EXCEPT !.cursor = o, !.selection = selection]
  <2>3. /\ next \in Buffers /\ next.cursor = o /\ next.text = old.text /\ next.others = <<>>
        /\ next.selection = selection
    <3> HIDE DEF old
    <3> QED BY <2>1, <2>2, <1>2 DEF Buffers
  <2> QED BY <2>3
<1> HIDE DEF new
<1>4. Shaped(new)
  BY <1>0, <1>1, <1>2, <1>3 DEF Shaped
<1>5. Valid(new)
  BY <1>3, <1>4, AloneIsValid
<1> QED BY <1>5 DEF new, o

\* indent_change.
LEMMA IndentValid ==
  ASSUME NEW b, Valid(b), NEW direction \in Int
  PROVE  Valid(Indent(b, direction))
<1> DEFINE rows(beg, end) ==
             [i \in 1..end.y - beg.y + (IF end.x = 0 /\ end.y > beg.y THEN 0 ELSE 1) |-> beg.y + i - 1]
           lines(ends) == IF Before(ends[2], ends[1]) THEN rows(ends[2], ends[1])
                          ELSE rows(ends[1], ends[2])
           ends == Ends(b) first == [b |-> b, beg |-> ends[1], end |-> ends[2]]
           s == IndentLines(first, lines(ends), direction)
           selection == IF HasSelection(b) THEN Chosen(<<s.beg, s.end>>) ELSE <<>>
           alone == [s.b EXCEPT !.cursor = OffsetAt(s.b.text, s.end), !.selection = selection]
<1>0. Shaped(b) /\ b.text \in Documents /\ b \in Buffers /\ b.cursor \in 0..Len(b.text)
  BY ShapedType DEF Valid, Shaped
<1>1. \/ Indent(b, direction) = Write(b, <<TAB>>, FALSE)
      \/ Indent(b, direction) = IndentEach(b, direction)
      \/ b.others = <<>> /\ Indent(b, direction) = alone
  BY DEF Indent
<1>2. Valid(Write(b, <<TAB>>, FALSE))
  <2>1. PICK raw : raw = FALSE
    OBVIOUS
  <2> DEFINE ins == <<TAB>>
  <2>2. ins \in Seq(Typeable) /\ (raw => ins \in Documents)
    BY <2>1 DEF Typeable
  <2> HIDE DEF ins
  <2>3. Valid(Write(b, ins, raw))
    BY <2>2, WriteValid
  <2> QED BY <2>1, <2>3 DEF ins
<1>3. ends \in Point \X Point
  <2>1. CASE HasSelection(b)
    BY <2>1, <1>0, ShapedType DEF Ends, HasSelection
  <2>2. CASE ~HasSelection(b)
    <3>1. PointAt(b.text, b.cursor) \in Point
      BY <1>0, PointType
    <3> QED BY <2>2, <3>1 DEF Ends, Points
  <2> QED BY <2>1, <2>2
<1> HIDE DEF ends
<1>4. lines(ends) \in Seq(Int)
  <2>1. /\ ends[1].x \in Int /\ ends[1].y \in Int /\ ends[2].x \in Int /\ ends[2].y \in Int
    BY <1>3 DEF Point
  <2>2. ASSUME NEW p, NEW q, p.y \in Int, q.y \in Int, p.y <= q.y PROVE rows(p, q) \in Seq(Int)
    <3> DEFINE k == q.y - p.y + (IF q.x = 0 /\ q.y > p.y THEN 0 ELSE 1)
    <3>1. k \in Nat
      BY <2>2
    <3> HIDE DEF k
    <3>2. [i \in 1..k |-> p.y + i - 1] \in Seq(Int)
      BY <3>1, <2>2
    <3> QED BY <3>2 DEF k
  <2> HIDE DEF rows
  <2>3. CASE Before(ends[2], ends[1])
    <3>1. ends[2].y <= ends[1].y
      BY <2>1, <2>3 DEF Before
    <3> QED BY <2>1, <2>2, <2>3, <3>1
  <2>4. CASE ~Before(ends[2], ends[1])
    <3>1. ends[1].y <= ends[2].y
      BY <2>1, <2>4 DEF Before
    <3> QED BY <2>1, <2>2, <2>4, <3>1
  <2> QED BY <2>3, <2>4
<1> HIDE DEF lines
<1>5. ASSUME b.others = <<>> PROVE Valid(alone)
  <2>1. first \in Indents
    <3>1. first.b = b /\ first \in [b : Buffers, beg : Point, end : Point]
      BY <1>0, <1>3
    <3> HIDE DEF first
    <3> QED BY <3>1, <1>0, <1>5 DEF Indents
  <2> HIDE DEF first
  <2>2. s \in Indents
    BY <2>1, <1>4, IndentLinesType
  <2> HIDE DEF s
  <2>3. selection \in {Chosen(<<s.beg, s.end>>), <<>>}
    OBVIOUS
  <2> HIDE DEF selection
  <2> QED BY <2>2, <2>3, IndentSettled
<1> HIDE DEF alone
<1> QED BY <1>1, <1>2, <1>5, IndentEachValid

\* The end of the indentation is a point.
LEMMA IndentEndType ==
  ASSUME NEW b, Shaped(b)
  PROVE  IndentEnd(b) \in Point
<1>1. b.text \in Documents /\ b.cursor \in 0..Len(b.text) /\ Len(b.text) \in Nat
  BY ShapedType
<1> DEFINE start == RowStart(b.text, b.cursor)
<1>2. start \in 0..Len(b.text)
  BY <1>1, RowBounds
<1> HIDE DEF start
<1>3. Indentation(b.text, start, Far) \in Nat
  <2>1. PICK most \in Int : most = Far
    BY DEF Far
  <2>2. Indentation(b.text, start, most) \in Nat
    BY <1>1, <1>2, IndentationType
  <2> QED BY <2>1, <2>2
<1>4. RowAt(b.text, b.cursor) \in Nat
  BY <1>1, RowType
<1> QED BY <1>3, <1>4 DEF IndentEnd, Point, start

-----------------------------------------------------------------------------
(***************************************************************************)
(* Duplicating, cutting, pasting and moving lines                          *)
(***************************************************************************)

\* The row around an offset, from its start to its end.
LEMMA LineOrSelectionType ==
  ASSUME NEW b, Shaped(b)
  PROVE  LineOrSelection(b) \in Spans /\ Inside(b.text, LineOrSelection(b))
<1> DEFINE y == RowAt(b.text, b.cursor)
<1>1. b.text \in Documents /\ b.cursor \in 0..Len(b.text)
  BY ShapedType
<1>2. b.cursor \in Int
  BY <1>1
<1>3. y \in Nat /\ y < Rows(b.text)
  BY <1>1, <1>2, RowType
<1> HIDE DEF y
<1>4. LineRange(b.text, y) \in Spans /\ Inside(b.text, LineRange(b.text, y))
  BY <1>1, <1>3, LineRangeType
<1> QED BY <1>4, PrimaryType DEF LineOrSelection, y

\* extract_selection: what is left has its shape, and what is taken is text.
LEMMA ExtractedIs ==
  ASSUME NEW b, Shaped(b), NEW cut
  PROVE  LET e == Extracted(b, cut)
         IN Shaped(e.b) /\ e.b.others = b.others /\ e.out \in Documents
<1> DEFINE r == LineOrSelection(b) out == Covered(b.text, r)
           ended == IF HasSelection(b) \/ Last(out) = NL THEN out ELSE Append(out, NL)
           left == IF cut THEN DeleteSelected(b, r) ELSE b
           e == IF ~Wide(r) THEN [b |-> b, out |-> <<>>] ELSE [b |-> left, out |-> ended]
<1>0. Extracted(b, cut) = e
  BY DEF Extracted, DeleteSelected
<1>1. r \in Spans /\ Inside(b.text, r) /\ b.text \in Documents
  BY LineOrSelectionType, ShapedType
<1> HIDE DEF r
<1>2. out \in Documents
  BY <1>1, CoveredIs
<1> HIDE DEF out
<1>3. ended \in Documents
  BY <1>2 DEF Documents, Chars
<1> HIDE DEF ended
<1>4. Shaped(left) /\ left.others = b.others
  BY <1>1, DeleteSelectedIs
<1> HIDE DEF left
<1>5. <<>> \in Documents
  BY DEF Documents
<1>6. Shaped(e.b) /\ e.b.others = b.others /\ e.out \in Documents
  <2>1. CASE Wide(r)
    BY <2>1, <1>3, <1>4
  <2>2. CASE ~Wide(r)
    BY <2>2, <1>5
  <2> QED BY <2>1, <2>2
<1> HIDE DEF e
<1> QED BY <1>0, <1>6

\* cut_copy with several carets: the buffer with whole lines selected.
LEMMA FragmentsValid ==
  ASSUME NEW b, Valid(b)
  PROVE  Valid(Fragments(b).b)
<1> DEFINE t == b.text rs == Ranges(b)
           line(o) == <<RowStart(t, o), NextLineStart(t, o)>>
           to == [i \in 1..Len(rs) |-> line(rs[i][1])]
           wide == SetRanges(b, to)
<1>1. Fragments(b).b = b \/ Fragments(b).b = wide
  BY DEF Fragments
<1>2. Shaped(b) /\ t \in Documents /\ Len(t) \in Nat
  BY ShapedType DEF Valid
<1>3. ASSUME NEW i \in 1..Len(rs) PROVE line(rs[i][1]) \in Spans
  <2> DEFINE o == rs[i][1]
  <2>1. o \in 0..Len(t)
    BY <1>3, RangeAt
  <2> HIDE DEF o, rs
  <2>2. RowStart(t, o) \in 0..o /\ NextLineStart(t, o) \in 0..Len(t)
    BY <2>1, <1>2, RowBounds, NextLineStartType
  <2>3. RowStart(t, o) \in Nat /\ NextLineStart(t, o) \in Nat
    BY <2>1, <2>2, <1>2
  <2>4. line(o) \in Spans
    BY <2>3 DEF Spans
  <2> QED BY <2>4 DEF o
<1>4. Valid(wide)
  <2>1. \A i \in 1..Len(Ranges(b)) : to[i] \in Spans
    BY <1>3
  <2>2. to = [i \in 1..Len(Ranges(b)) |-> to[i]]
    OBVIOUS
  <2> HIDE DEF to
  <2>3. Valid(SetRanges(b, [i \in 1..Len(Ranges(b)) |-> to[i]]))
    BY <2>1, ChangeRanges
  <2> QED BY <2>2, <2>3
<1> HIDE DEF wide
<1> QED BY <1>1, <1>4

\* What a cut with several carets leaves of the ranges w: nothing written over each.
Emptied(w) == WriteMultiple(w, SameEverywhere(w, <<>>), TRUE)

LEMMA EmptiedValid ==
  ASSUME NEW w, Valid(w)
  PROVE  Valid(Emptied(w))
<1> DEFINE ins == <<>> none == SameEverywhere(w, ins)
<1>0. ins \in Seq(Typeable) /\ ins \in Documents
  BY DEF Documents
<1> HIDE DEF ins
<1>1. PICK raw : raw = TRUE
  OBVIOUS
<1>2. \A i \in 1..Len(Ranges(w)) : none[i] \in Seq(Typeable) /\ (raw => none[i] \in Documents)
  <2>1. \A i \in 1..Len(Ranges(w)) : none[i] = ins
    BY SameTexts
  <2> HIDE DEF none
  <2> QED BY <1>0, <2>1
<1> HIDE DEF none
<1>3. Valid(WriteMultiple(w, none, raw))
  BY <1>2, WriteMultipleValid
<1> QED BY <1>1, <1>3 DEF Emptied, none, ins

\* cut_copy.
LEMMA CutCopyValid ==
  ASSUME NEW b, Valid(b), NEW cut
  PROVE  Valid(CutCopy(b, cut).b)
<1> DEFINE written == Emptied(Fragments(b).b) same == SetRanges(b, Ranges(b))
           e == Extracted(b, cut)
<1>1. \/ CutCopy(b, cut).b = written
      \/ CutCopy(b, cut).b = same
      \/ b.others = <<>> /\ CutCopy(b, cut).b = e.b
  BY DEF CutCopy, Emptied
<1>2. Valid(written)
  BY FragmentsValid, EmptiedValid
<1> HIDE DEF written
<1>3. Valid(same)
  <2>1. Shaped(b) /\ Ranges(b) \in Seq(Spans) /\ Ranges(b) # <<>>
    BY RangesIs DEF Valid
  <2> QED BY <2>1, SetRangesIs
<1> HIDE DEF same
<1>4. ASSUME b.others = <<>> PROVE Valid(e.b)
  <2>1. Shaped(b)
    BY DEF Valid
  <2>2. Shaped(e.b) /\ e.b.others = b.others
    BY <2>1, ExtractedIs
  <2> HIDE DEF e
  <2> QED BY <2>2, <1>4, AloneIsValid
<1> HIDE DEF e
<1> QED BY <1>1, <1>2, <1>3, <1>4

\* One insertion is a list of edits in order.
LEMMA OneEdit ==
  ASSUME NEW t \in Documents, NEW at \in 0..Len(t), NEW ins \in Documents
  PROVE  InTurn(t, <<[from |-> at, to |-> at, ins |-> ins]>>)
<1> DEFINE e == [from |-> at, to |-> at, ins |-> ins]
<1>1. e \in Edits /\ e.from = at /\ e.to = at /\ at <= Len(t)
  BY DEF Edits, Documents
<1> HIDE DEF e
<1>2. <<e>> \in Seq(Edits) /\ Len(<<e>>) = 1 /\ <<e>>[1] = e
  BY <1>1
<1>3. Reach(t, <<e>>, 2) = Len(t)
  BY <1>2 DEF Reach
<1>4. ASSUME NEW i \in 1..Len(<<e>>)
      PROVE  <<e>>[i].from <= <<e>>[i].to /\ <<e>>[i].to <= Reach(t, <<e>>, i + 1)
  <2>1. i = 1
    BY <1>2
  <2> QED BY <2>1, <1>1, <1>2, <1>3 DEF Documents
<1> QED BY <1>2, <1>4 DEF InTurn, e

\* duplicate_line_or_selection: what it inserts, and where the caret goes.
DuplicateInsert(b, at, ins, begin) ==
  LET edit == <<[from |-> at, to |-> at, ins |-> ins]>>
  IN IF ~EditsFit(b, edit) THEN Refused(b)
     ELSE SetRanges(ApplyEdits(b, edit), <<<<begin, at + Len(ins)>>>>)
DuplicateLines(b, from, at) == DuplicateInsert(b, at, <<NL>> \o Covered(b.text, <<from, at>>), at + 1)
DuplicateRows(b, first, last) ==
  DuplicateLines(b, LineStart(b.text, first), RowEnd(b.text, LineStart(b.text, last)))

\* Inserting the copy keeps the buffer valid.
LEMMA DuplicateInsertValid ==
  ASSUME NEW b, Valid(b), NEW at \in 0..Len(b.text), NEW ins \in Documents, NEW begin \in Nat
  PROVE  Valid(DuplicateInsert(b, at, ins, begin))
<1> DEFINE edit == <<[from |-> at, to |-> at, ins |-> ins]>> l == Len(ins)
           applied == ApplyEdits(b, edit) to == <<<<begin, at + l>>>>
<1>1. Shaped(b) /\ b.text \in Documents /\ Len(b.text) \in Nat /\ l \in Nat
  BY ShapedType DEF Valid, Documents
<1>2. InTurn(b.text, edit)
  BY <1>1, OneEdit
<1> HIDE DEF edit
<1>3. Shaped(applied)
  BY <1>1, <1>2, ApplyEditsValid DEF Valid
<1> HIDE DEF applied
<1>4. to \in Seq(Spans) /\ to # <<>>
  <2> HIDE DEF l
  <2>1. <<begin, at + l>> \in Spans
    BY <1>1 DEF Spans
  <2> QED BY <2>1
<1> HIDE DEF to
<1>5. Valid(SetRanges(applied, to))
  BY <1>3, <1>4, SetRangesIs
<1> QED BY <1>5, RefusedValid DEF DuplicateInsert, applied, edit, to, l

\* Duplicating from one offset to another keeps the buffer valid.
LEMMA DuplicateLinesValid ==
  ASSUME NEW b, Valid(b), NEW from \in 0..Len(b.text), NEW at \in 0..Len(b.text)
  PROVE  Valid(DuplicateLines(b, from, at))
<1> DEFINE r == <<from, at>> out == Covered(b.text, r) ins == <<NL>> \o out
<1>1. b.text \in Documents /\ Len(b.text) \in Nat
  BY ShapedType DEF Valid
<1>2. r \in Spans /\ Inside(b.text, r)
  BY <1>1 DEF Spans, Inside
<1>3. out \in Documents
  <2> HIDE DEF r
  <2> QED BY <1>1, <1>2, CoveredIs
<1> HIDE DEF out
<1>4. ins \in Documents
  <2>1. <<NL>> \in Documents
    BY DEF Documents, Chars
  <2> QED BY <2>1, <1>3, Joining
<1> HIDE DEF ins
<1>5. at + 1 \in Nat
  BY <1>1
<1> QED BY <1>4, <1>5, DuplicateInsertValid DEF DuplicateLines, ins, out, r

\* Duplicating rows keeps the buffer valid.
LEMMA DuplicateRowsValid ==
  ASSUME NEW b, Valid(b), NEW first \in Nat, NEW last \in Nat,
         first < Rows(b.text), last < Rows(b.text)
  PROVE  Valid(DuplicateRows(b, first, last))
<1> DEFINE t == b.text from == LineStart(t, first) start == LineStart(t, last) at == RowEnd(t, start)
<1>1. t \in Documents /\ Len(t) \in Nat
  BY ShapedType DEF Valid
<1>2. from \in 0..Len(t) /\ start \in 0..Len(t)
  BY <1>1, LineStartIs
<1> HIDE DEF from, start
<1>3. at \in start..Len(t)
  BY <1>1, <1>2, RowBounds
<1>4. at \in 0..Len(t)
  <2> HIDE DEF at
  <2> QED BY <1>1, <1>2, <1>3
<1> HIDE DEF at
<1>5. Valid(DuplicateLines(b, from, at))
  BY <1>2, <1>4, DuplicateLinesValid
<1> QED BY <1>5 DEF DuplicateRows, from, at, start

\* duplicate_line_or_selection keeps the buffer valid.
LEMMA DuplicateValid ==
  ASSUME NEW b, Valid(b)
  PROVE  Valid(Duplicate(b))
<1> DEFINE t == b.text r == Primary(b) beg == PointAt(t, Low(r)) end == PointAt(t, High(r))
           last == IF end.x = 0 /\ end.y > beg.y THEN end.y - 1 ELSE end.y
           beside == DuplicateInsert(b, High(r), Covered(t, r), High(r))
           around == DuplicateLines(b, RowStart(t, b.cursor), RowEnd(t, b.cursor))
           rows == DuplicateRows(b, beg.y, last)
<1>1. Duplicate(b) = beside \/ Duplicate(b) = around \/ Duplicate(b) = rows
  BY DEF Duplicate, DuplicateInsert, DuplicateLines, DuplicateRows, Refused
<1>2. /\ Shaped(b) /\ t \in Documents /\ Len(t) \in Nat /\ b.cursor \in 0..Len(t)
      /\ r \in Spans /\ Inside(t, r) /\ Low(r) \in Nat /\ High(r) \in Nat
      /\ Low(r) <= High(r) /\ High(r) <= Len(t)
  <2>1. Shaped(b)
    BY DEF Valid
  <2> QED BY <2>1, ShapedType, PrimaryType
<1> HIDE DEF r
<1>3. Low(r) \in 0..Len(t) /\ High(r) \in 0..Len(t)
  BY <1>2
<1>4. Valid(beside)
  <2>1. Covered(t, r) \in Documents
    BY <1>2, CoveredIs
  <2> QED BY <2>1, <1>2, <1>3, DuplicateInsertValid
<1>5. Valid(around)
  <2> DEFINE start == RowStart(t, b.cursor) stop == RowEnd(t, b.cursor)
  <2>1. start \in 0..b.cursor /\ stop \in b.cursor..Len(t)
    BY <1>2, RowBounds
  <2> HIDE DEF start, stop
  <2>2. start \in 0..Len(t) /\ stop \in 0..Len(t)
    BY <2>1, <1>2
  <2>3. Valid(DuplicateLines(b, start, stop))
    BY <2>2, DuplicateLinesValid
  <2> QED BY <2>3 DEF start, stop
<1>6. Valid(rows)
  <2>1. beg.y \in Nat /\ beg.y < Rows(t) /\ end.y \in Nat /\ end.y < Rows(t) /\ Rows(t) \in Nat
    <3>1. beg.y = RowAt(t, Low(r)) /\ end.y = RowAt(t, High(r))
      BY DEF PointAt
    <3>2. Low(r) \in Int /\ High(r) \in Int
      BY <1>2
    <3> HIDE DEF beg, end
    <3> QED BY <3>1, <3>2, <1>2, RowType
  <2> HIDE DEF beg, end
  <2>2. last \in Nat /\ last < Rows(t)
    BY <2>1
  <2> HIDE DEF last
  <2> DEFINE first == beg.y
  <2>3. first \in Nat /\ first < Rows(t)
    BY <2>1
  <2> HIDE DEF first
  <2>4. Valid(DuplicateRows(b, first, last))
    BY <2>2, <2>3, DuplicateRowsValid
  <2> QED BY <2>4 DEF first
<1> HIDE DEF beside, around, rows
<1> QED BY <1>1, <1>4, <1>5, <1>6

\* The lines of a clipboard: one more character.
Lines == {rows \in Seq(Documents) : rows # <<>>}
Continued(rows, ch) == IF ch = NL THEN Append(rows, <<>>)
                       ELSE [rows EXCEPT ![Len(rows)] = Append(@, ch)]

\* A character goes to the last line, and a newline begins another.
LEMMA ContinuedType ==
  ASSUME NEW rows \in Lines, NEW ch \in Chars
  PROVE  Continued(rows, ch) \in Lines
<1>1. rows \in Seq(Documents) /\ rows # <<>> /\ Len(rows) \in 1..Len(rows)
  BY DEF Lines
<1>2. CASE ch = NL
  <2>1. <<>> \in Documents
    BY DEF Documents
  <2>2. Append(rows, <<>>) \in Seq(Documents) /\ Append(rows, <<>>) # <<>>
    BY <2>1, <1>1
  <2> QED BY <1>2, <2>2 DEF Continued, Lines
<1>3. CASE ch # NL
  <2> DEFINE k == Len(rows) last == Append(rows[k], ch)
  <2>1. rows[k] \in Documents
    BY <1>1
  <2>2. last \in Documents
    <3> HIDE DEF k
    <3> QED BY <2>1 DEF Documents
  <2> HIDE DEF last
  <2>3. [rows EXCEPT ![k] = last] \in Seq(Documents) /\ [rows EXCEPT ![k] = last] # <<>>
    BY <2>2, <1>1
  <2>4. Continued(rows, ch) = [rows EXCEPT ![k] = last]
    BY <1>3 DEF Continued, last
  <2> QED BY <2>3, <2>4 DEF Lines
<1> QED BY <1>2, <1>3

\* The lines of what is pasted are texts.
LEMMA RowsOfType ==
  ASSUME NEW data \in Documents
  PROVE  RowsOf(data) \in Lines
<1> DEFINE n == Len(data) s == <<<<>>>>
           P == Lines \X (0..n)
           F == [p \in Lines \X (1..n) |-> Continued(p[1], data[p[2]])]
<1>0. n \in Nat /\ data \in Seq(Chars)
  BY DEF Documents
<1>1. s \in Lines /\ <<s, 0>> \in P
  <2>1. <<>> \in Documents
    BY DEF Documents
  <2>2. s \in Lines
    BY <2>1 DEF Lines
  <2> QED BY <1>0, <2>2
<1> HIDE DEF s
<1>2. ASSUME NEW i \in 1..n, NEW q \in Lines
      PROVE  Continued(q, data[i]) \in Lines
  <2>1. data[i] \in Chars
    BY <1>0
  <2> QED BY <2>1, ContinuedType
<1>3. P \subseteq Lines \X (0..n)
  OBVIOUS
<1>4. ASSUME NEW i \in 1..n, NEW q, <<q, i - 1>> \in P PROVE <<F[<<q, i>>], i>> \in P
  <2>1. q \in Lines /\ i \in 0..n
    BY <1>0, <1>4
  <2>2. F[<<q, i>>] = Continued(q, data[i])
    BY <2>1
  <2> QED BY <2>1, <2>2, <1>2
<1>5. PICK g : Recursive(g, n, Lines, P, s, F)
  <2> HIDE DEF n, F, P
  <2>1. \A i \in 1..n : \A q : <<q, i - 1>> \in P => <<F[<<q, i>>], i>> \in P
    BY <1>4
  <2> QED BY <1>0, <1>1, <1>3, <2>1, Recursion
<1>6. g = [i \in 0..n |-> IF i = 0 THEN s ELSE Continued(g[i - 1], data[i])]
  <2>1. ASSUME NEW i \in 1..n PROVE g[i] = Continued(g[i - 1], data[i])
    <3>1. g[i - 1] \in Lines
      BY <1>0, <1>5 DEF Recursive
    <3> HIDE DEF P
    <3> QED BY <3>1, <1>5 DEF Recursive
  <2>2. \A i \in 0..n : g[i] = IF i = 0 THEN s ELSE Continued(g[i - 1], data[i])
    BY <1>5, <2>1 DEF Recursive
  <2> QED BY <2>2, <1>5 DEF Recursive
<1>7. \E f : /\ f = [i \in 0..n |-> IF i = 0 THEN s ELSE Continued(f[i - 1], data[i])]
             /\ RowsOf(data) = f[n]
  BY <1>6 DEF RowsOf, Continued, s
<1>8. PICK f : /\ f = [i \in 0..n |-> IF i = 0 THEN s ELSE Continued(f[i - 1], data[i])]
               /\ RowsOf(data) = f[n]
  BY <1>7
<1> DEFINE S == {i \in 0..n : f[i] \in Lines}
<1>9. 0 \in S
  <2>1. 0 \in 0..n
    BY <1>0
  <2> HIDE DEF n
  <2>2. f[0] = s
    BY <1>8, <2>1
  <2> QED BY <2>1, <2>2, <1>1
<1>10. ASSUME NEW i \in 1..n, i - 1 \in S PROVE i \in S
  <2>1. i \in 0..n /\ i # 0
    BY <1>0
  <2>2. f[i] = Continued(f[i - 1], data[i])
    <3> HIDE DEF n
    <3> QED BY <1>8, <2>1
  <2>3. f[i - 1] \in Lines
    BY <1>10
  <2> QED BY <2>1, <2>2, <2>3, <1>2
<1>11. f[n] \in Lines
  <2>1. \A i \in 0..n : i \in S
    <3> HIDE DEF S, n
    <3> QED BY <1>0, <1>9, <1>10, Induction
  <2> QED BY <2>1, <1>0
<1> HIDE DEF S, n, P, F
<1> QED BY <1>8, <1>11

\* A raw write at an offset leaves the further carets alone.
LEMMA WriteAtRawValid ==
  ASSUME NEW b, Shaped(b), b.others = <<>>, NEW at \in 0..Len(b.text), NEW ins \in Documents
  PROVE  LET new == WriteAt(b, ins, at, TRUE)
         IN Shaped(new) /\ new.others = <<>> /\ Valid(new)
<1>1. PICK raw : raw = TRUE
  OBVIOUS
<1>2. ins \in Seq(Typeable) /\ (raw => ins \in Documents)
  BY DEF Documents, Typeable
<1> DEFINE new == WriteAt(b, ins, at, raw)
<1>3. Shaped(new) /\ new.others = b.others
  BY <1>2, WriteAtIs
<1> HIDE DEF new
<1>4. Valid(new) /\ new.others = <<>>
  BY <1>3, AloneIsValid
<1> QED BY <1>1, <1>3, <1>4 DEF new

\* What the clipboard gives every caret.
LEMMA PasteMultiple ==
  ASSUME NEW b, Valid(b), NEW texts, \A i \in 1..Len(b.others) + 1 : texts[i] \in Documents
  PROVE  Valid(WriteMultiple(b, texts, TRUE))
<1>1. PICK raw : raw = TRUE
  OBVIOUS
<1>2. Len(Ranges(b)) = Len(b.others) + 1
  BY RangesIs
<1>3. ASSUME NEW i \in 1..Len(Ranges(b))
      PROVE  texts[i] \in Seq(Typeable) /\ (raw => texts[i] \in Documents)
  <2>1. texts[i] \in Documents
    BY <1>2
  <2> QED BY <2>1 DEF Documents, Typeable
<1>4. Valid(WriteMultiple(b, texts, raw))
  BY <1>3, WriteMultipleValid
<1> QED BY <1>1, <1>4

\* paste.
LEMMA PasteValid ==
  ASSUME NEW b, Valid(b), NEW clip, clip.data \in Documents, clip.fragments \in Seq(Documents)
  PROVE  Valid(Paste(b, clip))
<1> DEFINE carets == Len(b.others) + 1
           rows == RowsOf(clip.data)
           same == SameEverywhere(b, clip.data)
           at == IF clip.line THEN RowStart(b.text, b.cursor) ELSE b.cursor
           here == PointAt(b.text, b.cursor) under == [here EXCEPT !.y = @ + 1]
           new == WriteAt(b, clip.data, at, TRUE)
           below == SetCursor(new, OffsetAt(new.text, under))
<1>1. \/ Paste(b, clip) = b
      \/ Len(clip.fragments) = carets /\ Paste(b, clip) = WriteMultiple(b, clip.fragments, TRUE)
      \/ Len(rows) = carets /\ Paste(b, clip) = WriteMultiple(b, rows, TRUE)
      \/ Paste(b, clip) = WriteMultiple(b, same, TRUE)
      \/ b.others = <<>> /\ Paste(b, clip) = new
      \/ b.others = <<>> /\ Paste(b, clip) = below
  BY DEF Paste
<1>2. /\ Shaped(b) /\ b.text \in Documents /\ b.cursor \in 0..Len(b.text) /\ Len(b.text) \in Nat
      /\ b.others \in Seq(Spans)
  BY ShapedType DEF Valid
<1>3. ASSUME Len(clip.fragments) = carets PROVE Valid(WriteMultiple(b, clip.fragments, TRUE))
  <2>1. \A i \in 1..Len(b.others) + 1 : clip.fragments[i] \in Documents
    BY <1>3
  <2> QED BY <2>1, PasteMultiple
<1>4. ASSUME Len(rows) = carets PROVE Valid(WriteMultiple(b, rows, TRUE))
  <2>1. rows \in Seq(Documents)
    BY RowsOfType DEF Lines
  <2> HIDE DEF rows
  <2>2. \A i \in 1..Len(b.others) + 1 : rows[i] \in Documents
    BY <1>4, <2>1
  <2> QED BY <2>2, PasteMultiple
<1>5. Valid(WriteMultiple(b, same, TRUE))
  <2>1. \A i \in 1..Len(b.others) + 1 : same[i] \in Documents
    BY DEF SameEverywhere
  <2> HIDE DEF same
  <2> QED BY <2>1, PasteMultiple
<1>6. ASSUME b.others = <<>> PROVE Valid(new) /\ Valid(below)
  <2>1. at \in 0..Len(b.text)
    <3>1. RowStart(b.text, b.cursor) \in 0..b.cursor
      BY <1>2, RowBounds
    <3> QED BY <3>1, <1>2
  <2> HIDE DEF at
  <2>2. Shaped(new) /\ Valid(new)
    BY <2>1, <1>2, <1>6, WriteAtRawValid
  <2> HIDE DEF new
  <2>3. under \in Point
    <3>1. here \in Point
      BY <1>2, PointType
    <3> HIDE DEF here
    <3> QED BY <3>1 DEF Point
  <2> HIDE DEF under
  <2>4. OffsetAt(new.text, under) \in 0..Len(new.text)
    BY <2>2, <2>3, ShapedType, OffsetType
  <2>5. Valid(below)
    BY <2>2, <2>4, SetCursorIs
  <2> QED BY <2>2, <2>5
<1> HIDE DEF new, below, same, rows, carets
<1> QED BY <1>1, <1>3, <1>4, <1>5, <1>6

-----------------------------------------------------------------------------
\* The cursor at the start of a row.
AtRow(b, y) == SetCursor(b, OffsetAt(b.text, [x |-> 0, y |-> y]))
\* A buffer with one caret and no selection.
Plain(b) == Shaped(b) /\ b.others = <<>>

\* The cursor at the start of a row, with no selection.
LEMMA AtRowIs ==
  ASSUME NEW b, Shaped(b), NEW y \in Int
  PROVE  Plain(AtRow(b, y))
<1> DEFINE p == [x |-> 0, y |-> y]
<1>1. p \in Point /\ b.text \in Documents
  BY ShapedType DEF Point
<1> HIDE DEF p
<1>2. OffsetAt(b.text, p) \in 0..Len(b.text)
  BY <1>1, OffsetType
<1>3. Plain(SetCursor(b, OffsetAt(b.text, p)))
  BY <1>2, SetCursorIs DEF Valid, Plain
<1> QED BY <1>3 DEF AtRow, p

\* A missing newline is typed, and the neighbouring line is pasted.
Broken(at, out, row) ==
  IF out = <<>> \/ RowAt(at.text, at.cursor) # row THEN WriteAt(at, <<NL>>, at.cursor, FALSE) ELSE at
Pasted(at, out) == IF out = <<>> THEN at ELSE WriteAt(at, out, at.cursor, TRUE)

\* The typed newline leaves one caret.
LEMMA BrokenIs ==
  ASSUME NEW at, Plain(at), NEW out, NEW row
  PROVE  Plain(Broken(at, out, row))
<1>1. PICK raw : raw = FALSE
  OBVIOUS
<1> DEFINE ins == <<NL>> new == WriteAt(at, ins, at.cursor, raw)
<1>2. ins \in Seq(Typeable) /\ (raw => ins \in Documents)
  BY <1>1 DEF Typeable, Chars
<1> HIDE DEF ins
<1>3. at.cursor \in 0..Len(at.text) /\ Shaped(at)
  BY ShapedType DEF Plain
<1>4. Shaped(new) /\ new.others = at.others
  BY <1>2, <1>3, WriteAtIs
<1> HIDE DEF new
<1>5. Plain(new)
  BY <1>4 DEF Plain
<1>6. Broken(at, out, row) = new \/ Broken(at, out, row) = at
  BY <1>1 DEF Broken, new, ins
<1> QED BY <1>5, <1>6

\* The pasted line leaves one caret.
LEMMA PastedIs ==
  ASSUME NEW at, Plain(at), NEW out \in Documents
  PROVE  Plain(Pasted(at, out))
<1>1. at.cursor \in 0..Len(at.text) /\ Shaped(at) /\ at.others = <<>>
  BY ShapedType DEF Plain
<1> QED BY <1>1, WriteAtRawValid DEF Pasted, Plain

\* The selection goes along.
Along(b, new, delta) ==
  LET shift(p) == [p EXCEPT !.y = @ + delta]
  IN [SetCursor(new, OffsetAt(new.text, shift(PointAt(b.text, b.cursor)))) EXCEPT
        !.selection = IF HasSelection(b) THEN <<shift(b.selection[1]), shift(b.selection[2])>>
                      ELSE <<>>]

\* The selection that went along keeps the buffer valid.
LEMMA AlongValid ==
  ASSUME NEW b, Shaped(b), NEW new, Shaped(new), NEW delta \in Int
  PROVE  Valid(Along(b, new, delta))
<1> DEFINE shift(p) == [p EXCEPT !.y = @ + delta]
           here == shift(PointAt(b.text, b.cursor)) o == OffsetAt(new.text, here)
           at == SetCursor(new, o)
           ends == IF HasSelection(b) THEN <<shift(b.selection[1]), shift(b.selection[2])>> ELSE <<>>
<1>1. ASSUME NEW p \in Point
      PROVE  /\ shift(p) \in Point
             /\ \A q \in Point : p # q => shift(p) # shift(q)
  BY DEF Point
<1>2. /\ b.text \in Documents /\ b.cursor \in 0..Len(b.text)
      /\ HasSelection(b) => b.selection \in Point \X Point /\ b.selection[1] # b.selection[2]
  BY ShapedType DEF HasSelection
<1>3. here \in Point
  BY <1>1, <1>2, PointType
<1>4. ends \in Selections /\ (ends # <<>> => ends[1] # ends[2])
  <2>1. CASE HasSelection(b)
    <3> DEFINE p == b.selection[1] q == b.selection[2]
    <3>1. p \in Point /\ q \in Point /\ p # q
      BY <1>2, <2>1
    <3>2. shift(p) \in Point /\ shift(q) \in Point /\ shift(p) # shift(q)
      <4> HIDE DEF p, q, shift
      <4> QED BY <3>1, <1>1
    <3>3. ends = <<shift(p), shift(q)>>
      BY <2>1
    <3> HIDE DEF shift, p, q, ends
    <3> QED BY <3>2, <3>3 DEF Selections
  <2>2. CASE ~HasSelection(b)
    BY <2>2 DEF Selections
  <2> QED BY <2>1, <2>2
<1> HIDE DEF here, ends
<1>5. o \in 0..Len(new.text)
  BY <1>3, ShapedType, OffsetType
<1> HIDE DEF o
<1>6. Shaped(at) /\ at.others = <<>>
  BY <1>5, SetCursorIs DEF Valid
<1> HIDE DEF at
<1> DEFINE next == [at EXCEPT !.selection = ends]
<1>7. /\ next \in Buffers /\ next.selection = ends /\ next.text = at.text /\ next.cursor = at.cursor
      /\ next.others = <<>> /\ at.cursor <= Len(at.text)
  BY <1>4, <1>6 DEF Shaped, Buffers
<1> HIDE DEF next
<1>8. Valid(next)
  <2>1. Shaped(next)
    BY <1>4, <1>7 DEF Shaped
  <2> QED BY <2>1, <1>7, AloneIsValid
<1> QED BY <1>8 DEF Along, next, at, o, here, ends

\* move_selected_lines.
LEMMA MoveLinesValid ==
  ASSUME NEW b, Valid(b), NEW delta \in Int
  PROVE  Valid(MoveLines(b, delta))
<1> DEFINE ends == Ends(b)
           beg == Smaller(ends[1].y, ends[2].y) end == Larger(ends[1].y, ends[2].y)
           cut == Extracted(AtRow(b, IF delta < 0 THEN beg - 1 ELSE end + 1), TRUE)
           row == IF delta < 0 THEN end ELSE beg
           at == AtRow(cut.b, row)
           put == Pasted(Broken(at, cut.out, row), cut.out)
<1>1. MoveLines(b, delta) = WithoutOthers(b) \/ MoveLines(b, delta) = Along(b, put, delta)
  BY DEF MoveLines, Along, Pasted, Broken, AtRow, WithoutOthers
<1>2. Shaped(b) /\ b.text \in Documents /\ b.cursor \in 0..Len(b.text)
  BY ShapedType DEF Valid
<1>3. ends \in Point \X Point
  <2>1. CASE HasSelection(b)
    BY <2>1, <1>2, ShapedType DEF Ends, HasSelection
  <2>2. CASE ~HasSelection(b)
    <3>1. PointAt(b.text, b.cursor) \in Point
      BY <1>2, PointType
    <3> QED BY <2>2, <3>1 DEF Ends, Points
  <2> QED BY <2>1, <2>2
<1> HIDE DEF ends
<1>4. beg \in Int /\ end \in Int
  <2>1. ends[1].y \in Int /\ ends[2].y \in Int
    BY <1>3 DEF Point
  <2> QED BY <2>1 DEF Smaller, Larger
<1> HIDE DEF beg, end
<1>5. Shaped(cut.b) /\ cut.b.others = <<>> /\ cut.out \in Documents
  <2> DEFINE y == IF delta < 0 THEN beg - 1 ELSE end + 1 from == AtRow(b, y)
  <2>1. y \in Int
    BY <1>4
  <2> HIDE DEF y
  <2>2. Shaped(from) /\ from.others = <<>>
    BY <1>2, <2>1, AtRowIs DEF Plain
  <2> HIDE DEF from
  <2>3. PICK yes : yes = TRUE
    OBVIOUS
  <2> DEFINE e == Extracted(from, yes)
  <2>4. Shaped(e.b) /\ e.b.others = from.others /\ e.out \in Documents
    BY <2>2, ExtractedIs
  <2>5. cut = e
    BY <2>3 DEF from, y
  <2> HIDE DEF e, cut
  <2> QED BY <2>2, <2>4, <2>5
<1> HIDE DEF cut
<1>6. row \in Int
  BY <1>4
<1> HIDE DEF row
<1>7. Plain(at)
  BY <1>5, <1>6, AtRowIs
<1> HIDE DEF at
<1>8. Plain(put)
  BY <1>5, <1>7, BrokenIs, PastedIs
<1> HIDE DEF put
<1>9. Valid(Along(b, put, delta))
  BY <1>2, <1>8, AlongValid DEF Plain
<1> QED BY <1>1, <1>2, <1>9, AloneIs

-----------------------------------------------------------------------------
(***************************************************************************)
(* Keys                                                                    *)
(***************************************************************************)

\* What a key finds and leaves: a valid buffer, and a column to aim for.
Editors == {e \in [buf : Buffers, column : Nat] : Valid(e.buf)}

\* A valid buffer and a column make an editor.
LEMMA EditorIs ==
  ASSUME NEW b, Valid(b), NEW c \in Nat
  PROVE  [buf |-> b, column |-> c] \in Editors
<1> DEFINE e == [buf |-> b, column |-> c]
<1>1. b \in Buffers
  BY DEF Valid, Shaped
<1>2. e \in [buf : Buffers, column : Nat] /\ e.buf = b
  BY <1>1
<1> HIDE DEF e
<1> QED BY <1>2 DEF Editors

\* The cursor is at a point.
LEMMA HereType ==
  ASSUME NEW b, Shaped(b)
  PROVE  Here(b) \in Point /\ Here(b).x \in Nat /\ Here(b).y \in Nat
<1>1. LET p == PointAt(b.text, b.cursor) IN p \in Point /\ p.x \in Nat /\ p.y \in Nat
  BY ShapedType, PointType
<1> QED BY <1>1 DEF Here

\* A key that settles the column leaves an editor.
LEMMA SettledType ==
  ASSUME NEW b, Valid(b)
  PROVE  Settled(b) \in Editors
BY HereType, EditorIs DEF Settled, Valid

\* The parts of an editor.
LEMMA EditorType ==
  ASSUME NEW e \in Editors
  PROVE  Valid(e.buf) /\ Shaped(e.buf) /\ e.column \in Nat /\ e \in [buf : Buffers, column : Nat]
BY DEF Editors, Valid

\* A key that keeps the column leaves an editor.
LEMMA KeepingType ==
  ASSUME NEW e \in Editors, NEW b, Valid(b)
  PROVE  Keeping(e, b) \in Editors
<1>1. Keeping(e, b) = [buf |-> b, column |-> e.column]
  BY EditorType DEF Keeping
<1> QED BY <1>1, EditorType, EditorIs

\* Moving or selecting to an offset keeps the buffer valid.
LEMMA GoToValid ==
  ASSUME NEW b, Shaped(b), NEW o \in 0..Len(b.text), NEW extend
  PROVE  Valid(GoTo(b, o, extend))
BY SelectToValid, SetCursorIs DEF GoTo

\* Moving or selecting to a point keeps the buffer valid.
LEMMA GoToPointValid ==
  ASSUME NEW b, Shaped(b), NEW p \in Point, NEW extend
  PROVE  Valid(GoToPoint(b, p, extend))
<1>1. OffsetAt(b.text, p) \in 0..Len(b.text)
  BY ShapedType, OffsetType
<1> QED BY <1>1, GoToValid DEF GoToPoint

\* Left and Right.
LEMMA SideKeyType ==
  ASSUME NEW e \in Editors, NEW word, NEW delta \in Int, NEW extend, NEW alt
  PROVE  SideKey(e, word, delta, extend, alt) \in Editors
<1> DEFINE b == e.buf r == Primary(b) there == Moved(b.text, b.cursor, word, delta)
           to == CASE extend \/ ~Wide(r) -> there
                   [] ~extend /\ Wide(r) /\ delta < 0 -> Low(r)
                   [] OTHER -> High(r)
           new == IF Carets(b) > 1 /\ ~alt THEN MoveCursors(b, word, delta, extend)
                  ELSE GoTo(b, to, extend)
<1>1. SideKey(e, word, delta, extend, alt) = Settled(new)
  BY DEF SideKey
<1>2. Valid(b) /\ Shaped(b)
  BY EditorType
<1>3. there \in 0..Len(b.text) /\ Low(r) \in 0..Len(b.text) /\ High(r) \in 0..Len(b.text)
  <2>1. b.text \in Documents /\ b.cursor \in 0..Len(b.text) /\ Len(b.text) \in Nat
    BY <1>2, ShapedType
  <2>2. there \in 0..Len(b.text)
    BY <2>1, MovedType
  <2>3. Low(r) \in Nat /\ High(r) \in Nat /\ Low(r) <= High(r) /\ High(r) <= Len(b.text)
    BY <1>2, PrimaryType
  <2> QED BY <2>1, <2>2, <2>3
<1>4. to \in {there, Low(r), High(r)}
  OBVIOUS
<1> HIDE DEF to
<1>5. Valid(GoTo(b, to, extend))
  <2>1. to \in 0..Len(b.text)
    BY <1>3, <1>4
  <2> QED BY <2>1, <1>2, GoToValid
<1>6. Valid(MoveCursors(b, word, delta, extend))
  BY <1>2, MoveCursorsValid
<1>7. Valid(new)
  BY <1>5, <1>6
<1> HIDE DEF new
<1> QED BY <1>1, <1>7, SettledType

\* Home and End.
LEMMA BoundaryKeyType ==
  ASSUME NEW e \in Editors, NEW end, NEW document, NEW extend, NEW alt
  PROVE  BoundaryKey(e, end, document, extend, alt) \in Editors
<1> DEFINE b == e.buf
           aim == CASE document /\ end -> At(Far, Far) [] document /\ ~end -> At(0, 0)
                    [] OTHER -> At(IF end THEN Far ELSE 0, Here(b).y)
           there == GoToPoint(b, aim, extend)
           again == GoToPoint(there, IndentEnd(there), extend)
           boundary == MoveCursorsBoundary(b, end, extend)
<1>1. \E new \in {there, again, boundary} : BoundaryKey(e, end, document, extend, alt) = Settled(new)
  BY DEF BoundaryKey
<1>2. Valid(b) /\ Shaped(b)
  BY EditorType
<1>3. aim \in Point
  <2>1. Here(b).y \in Int
    BY <1>2, HereType
  <2>2. At(Far, Far) \in Point /\ At(0, 0) \in Point /\ At(Far, Here(b).y) \in Point
        /\ At(0, Here(b).y) \in Point
    BY <2>1 DEF At, Point, Far
  <2>3. aim \in {At(Far, Far), At(0, 0), At(Far, Here(b).y), At(0, Here(b).y)}
    OBVIOUS
  <2> QED BY <2>2, <2>3
<1> HIDE DEF aim
<1>4. Valid(there) /\ Shaped(there)
  BY <1>2, <1>3, GoToPointValid DEF Valid
<1> HIDE DEF there
<1>5. Valid(again)
  BY <1>4, IndentEndType, GoToPointValid
<1> HIDE DEF again
<1>6. Valid(boundary)
  BY <1>2, MoveCursorsBoundaryValid
<1> HIDE DEF boundary
<1> QED BY <1>1, <1>4, <1>5, <1>6, SettledType

\* The end of the selection, and a landing on another row.
LEMMA EdgeType ==
  ASSUME NEW b, Shaped(b), NEW delta
  PROVE  Edge(b, delta) \in Point /\ Edge(b, delta).x \in Nat
<1> DEFINE r == Primary(b) o == IF delta < 0 THEN Low(r) ELSE High(r)
<1>1. o \in 0..Len(b.text) /\ b.text \in Documents
  <2>1. /\ Low(r) \in Nat /\ High(r) \in Nat /\ Low(r) <= High(r) /\ High(r) <= Len(b.text)
        /\ Len(b.text) \in Nat /\ b.text \in Documents
    BY PrimaryType, ShapedType
  <2> QED BY <2>1
<1> HIDE DEF o
<1>2. PointAt(b.text, o) \in Point /\ PointAt(b.text, o).x \in Nat
  BY <1>1, PointType
<1> QED BY <1>2 DEF Edge, o

Landed(b, past, delta, x, y, extend) ==
  LET there == GoToPoint(b, At(IF past THEN (IF delta < 0 THEN 0 ELSE Far) ELSE x, y), extend)
  IN [buf |-> there, column |-> IF past THEN Here(there).x ELSE x]

\* A vertical movement leaves an editor, wherever it lands.
LEMMA LandedType ==
  ASSUME NEW b, Shaped(b), NEW past, NEW delta, NEW x \in Nat, NEW y \in Int, NEW extend
  PROVE  Landed(b, past, delta, x, y, extend) \in Editors
<1> DEFINE aim == At(IF past THEN (IF delta < 0 THEN 0 ELSE Far) ELSE x, y)
           there == GoToPoint(b, aim, extend)
           column == IF past THEN Here(there).x ELSE x
<1>1. aim \in Point
  <2>1. At(0, y) \in Point /\ At(Far, y) \in Point /\ At(x, y) \in Point
    BY DEF At, Point, Far
  <2> QED BY <2>1
<1> HIDE DEF aim
<1>2. Valid(there) /\ Shaped(there)
  BY <1>1, GoToPointValid DEF Valid
<1> HIDE DEF there
<1>3. column \in Nat
  BY <1>2, HereType
<1> HIDE DEF column
<1>4. [buf |-> there, column |-> column] \in Editors
  BY <1>2, <1>3, EditorIs
<1> QED BY <1>4 DEF Landed, column, there, aim

\* Up and Down.
LEMMA UpDownKeyType ==
  ASSUME NEW e \in Editors, NEW delta \in Int, NEW extend
  PROVE  UpDownKey(e, delta, extend) \in Editors
<1> DEFINE b == e.buf p == Edge(b, delta) q == Here(b)
           from(x, y) == Landed(b, y + delta \notin 0..Rows(b.text) - 1, delta, x, y + delta, extend)
           vertical == Settled(MoveCursorsVertical(b, delta, extend))
<1>1. \/ UpDownKey(e, delta, extend) = vertical
      \/ UpDownKey(e, delta, extend) = from(p.x, p.y)
      \/ UpDownKey(e, delta, extend) = from(e.column, q.y)
  BY DEF UpDownKey, Landed
<1>2. Valid(b) /\ Shaped(b) /\ e.column \in Nat
  BY EditorType
<1>3. vertical \in Editors
  BY <1>2, MoveCursorsVerticalValid, SettledType
<1>4. ASSUME NEW x \in Nat, NEW y \in Int PROVE from(x, y) \in Editors
  <2> DEFINE past == y + delta \notin 0..Rows(b.text) - 1 to == y + delta
  <2>1. to \in Int
    OBVIOUS
  <2> HIDE DEF past, to
  <2>2. Landed(b, past, delta, x, to, extend) \in Editors
    BY <1>2, <2>1, LandedType
  <2> QED BY <2>2 DEF past, to
<1>5. p.x \in Nat /\ p.y \in Int
  <2>1. p \in Point /\ p.x \in Nat
    BY <1>2, EdgeType
  <2> QED BY <2>1 DEF Point
<1>6. q.y \in Int
  BY <1>2, HereType
<1> HIDE DEF from, vertical, p, q
<1> QED BY <1>1, <1>2, <1>3, <1>4, <1>5, <1>6

\* PageUp and PageDown.
LEMMA PageKeyType ==
  ASSUME NEW e \in Editors, NEW delta \in {-1, 1}, NEW extend
  PROVE  PageKey(e, delta, extend) \in Editors
<1> DEFINE b == e.buf y == Here(b).y + delta * PageRows
           past == IF delta < 0 THEN Here(b).y = 0 ELSE Here(b).y >= Rows(b.text) - 1
           aim == At(IF past THEN (IF delta < 0 THEN 0 ELSE Far) ELSE e.column, y)
           there == GoToPoint(b, aim, extend)
           column == IF ~past THEN e.column ELSE IF delta < 0 THEN 0 ELSE Here(there).x
<1>1. PageKey(e, delta, extend) = [buf |-> there, column |-> column]
  BY DEF PageKey
<1>2. Valid(b) /\ Shaped(b) /\ e.column \in Nat
  BY EditorType
<1>3. y \in Int
  <2>1. Here(b).y \in Int
    BY <1>2, HereType
  <2>2. delta * PageRows \in Int
    BY TextareaAssumption
  <2> QED BY <2>1, <2>2
<1> HIDE DEF y, past
<1>4. aim \in Point
  <2>1. At(0, y) \in Point /\ At(Far, y) \in Point /\ At(e.column, y) \in Point
    BY <1>2, <1>3 DEF At, Point, Far
  <2> QED BY <2>1
<1> HIDE DEF aim
<1>5. Valid(there) /\ Shaped(there)
  BY <1>2, <1>4, GoToPointValid DEF Valid
<1> HIDE DEF there
<1>6. column \in Nat
  BY <1>2, <1>5, HereType
<1> HIDE DEF column
<1> QED BY <1>1, <1>5, <1>6, EditorIs

\* The keys whose action ends by settling the column.
Settling == {"Back", "Delete", "Tab", "Return", "Escape", "Insert", "L", "D"}

\* Every key means one action.
LEMMA KeyIs ==
  ASSUME NEW k \in EditKeys
  PROVE  /\ k.key \in {"Left", "Right", "Home", "End", "Up", "Down", "PageUp", "PageDown"} \cup Settling
         /\ k.mods = {"alt", "shift"} => k.key \in {"Left", "Right", "Up", "Down"}
         /\ k.key \in {"Up", "Down"} =>
              \/ k.mods = {"alt", "shift"}
              \/ k.mods = {"alt"} /\ Alone(k)
              \/ k.mods = {"ctrl", "alt"} /\ Alone(k)
              \/ ~Alone(k)
BY DEF EditKeys, Keyed, Settling, Alone

\* The directions of a key.
LEMMA DeltaType ==
  ASSUME NEW k
  PROVE  /\ Delta(k) \in {-1, 1} /\ Delta(k) \in Int
         /\ Slope(k)[1] \in Int /\ Slope(k)[2] \in Int
BY DEF Delta, Slope

SettledBy(b, k) ==
  CASE k.key = "Back" -> Backspace(b, ByWord(k))
    [] k.key = "Delete" -> Delete(b, ByWord(k), 1)
    [] k.key = "Tab" -> Indent(b, IF Extends(k) THEN -1 ELSE 1)
    [] k.key = "Return" -> Write(b, <<NL>>, FALSE)
    [] k.key = "Escape" -> ClearSelection(b)
    [] k.key = "Insert" -> [b EXCEPT !.overtype = ~@]
    [] k.key = "L" -> SelectLine(b)
    [] k.key = "D" -> AddNext(b)

\* Typing one character or newline at every caret.
LEMMA WriteOne ==
  ASSUME NEW b, Valid(b), NEW ch \in Chars
  PROVE  Valid(Write(b, <<ch>>, FALSE))
<1>1. PICK raw : raw = FALSE
  OBVIOUS
<1> DEFINE ins == <<ch>>
<1>2. ins \in Seq(Typeable) /\ (raw => ins \in Documents)
  BY <1>1 DEF Typeable
<1> HIDE DEF ins
<1>3. Valid(Write(b, ins, raw))
  BY <1>2, WriteValid
<1> QED BY <1>1, <1>3 DEF ins

\* Insert keeps the buffer valid.
LEMMA OvertypeValid ==
  ASSUME NEW b, Valid(b)
  PROVE  Valid([b EXCEPT !.overtype = ~@])
<1> DEFINE overtype == ~b.overtype
<1>1. overtype \in BOOLEAN
  OBVIOUS
<1> HIDE DEF overtype
<1>2. Valid([b EXCEPT !.overtype = overtype])
  BY <1>1, OvertypeField
<1> QED BY <1>2 DEF overtype

\* The keys that settle the column keep the buffer valid.
LEMMA SettledByValid ==
  ASSUME NEW b, Valid(b), NEW k, k.key \in Settling
  PROVE  Valid(SettledBy(b, k))
<1> DEFINE key == k.key back == Backspace(b, ByWord(k)) delete == Delete(b, ByWord(k), 1)
           indent == Indent(b, IF Extends(k) THEN -1 ELSE 1) return == Write(b, <<NL>>, FALSE)
           clear == ClearSelection(b) insert == [b EXCEPT !.overtype = ~@] line == SelectLine(b)
           next == AddNext(b)
<1>1. SettledBy(b, k) \in {back, delete, indent, return, clear, insert, line, next}
  <2>1. SettledBy(b, k) = CASE key = "Back" -> back [] key = "Delete" -> delete
                            [] key = "Tab" -> indent [] key = "Return" -> return
                            [] key = "Escape" -> clear [] key = "Insert" -> insert
                            [] key = "L" -> line [] key = "D" -> next
    BY DEF SettledBy
  <2>2. key \in Settling
    OBVIOUS
  <2> HIDE DEF key, back, delete, indent, return, clear, insert, line, next
  <2> QED BY <2>1, <2>2 DEF Settling
<1>2. Shaped(b)
  BY DEF Valid
<1>3. Valid(back)
  BY BackspaceValid
<1>4. Valid(delete)
  <2>1. PICK d \in Int : d = 1
    OBVIOUS
  <2> QED BY <2>1, DeleteValid
<1>5. Valid(indent)
  <2> DEFINE d == IF Extends(k) THEN -1 ELSE 1
  <2>1. d \in Int
    OBVIOUS
  <2> HIDE DEF d
  <2>2. Valid(Indent(b, d))
    BY <2>1, IndentValid
  <2> QED BY <2>2 DEF d
<1>6. Valid(return)
  BY WriteOne DEF Chars
<1>7. Valid(clear) /\ Valid(line)
  BY <1>2, ClearSelectionValid, SelectLineValid
<1>8. Valid(insert)
  BY OvertypeValid
<1>9. Valid(next)
  BY AddNextValid
<1> HIDE DEF back, delete, indent, return, clear, insert, line, next
<1> QED BY <1>1, <1>3, <1>4, <1>5, <1>6, <1>7, <1>8, <1>9

\* textarea_handle_input, for every key that is not a character.
LEMMA KeyPressedType ==
  ASSUME NEW e \in Editors, NEW k \in EditKeys
  PROVE  KeyPressed(e, k) \in Editors
<1> DEFINE b == e.buf
           stretch == Keeping(e, ExtendRectangle(b, Slope(k)[1], Slope(k)[2]))
           side == SideKey(e, ByWord(k), Delta(k), Extends(k), Alone(k))
           boundary == BoundaryKey(e, k.key = "End", ByWord(k), Extends(k), Alone(k))
           vertical == UpDownKey(e, Delta(k), Extends(k))
           lines == Keeping(e, MoveLines(b, Delta(k)))
           caret == Keeping(e, AddCursor(b, Delta(k)))
           page == PageKey(e, Delta(k), Extends(k))
           settled == Settled(SettledBy(b, k))
           others == {stretch, side, boundary, vertical, lines, caret, page}
<1>0. Valid(b)
  BY EditorType
<1>1. KeyPressed(e, k) \in others \/ (k.key \in Settling /\ KeyPressed(e, k) = settled)
  <2>1. KeyPressed(e, k) =
          CASE k.mods = {"alt", "shift"} -> stretch
            [] k.key \in {"Left", "Right"} /\ k.mods # {"alt", "shift"} -> side
            [] k.key \in {"Home", "End"} -> boundary
            [] k.key \in {"Up", "Down"} /\ ~Alone(k) -> vertical
            [] k.key \in {"Up", "Down"} /\ k.mods = {"alt"} -> lines
            [] k.key \in {"Up", "Down"} /\ k.mods = {"ctrl", "alt"} -> caret
            [] k.key \in {"PageUp", "PageDown"} -> page
            [] OTHER -> settled
    BY DEF KeyPressed, SettledBy
  <2> HIDE DEF stretch, side, boundary, vertical, lines, caret, page, settled
  <2>2. KeyPressed(e, k) \in others \/ KeyPressed(e, k) = settled
    BY <2>1
  <2>3. CASE k.key \in Settling
    BY <2>2, <2>3
  <2>4. CASE k.key \notin Settling
    <3>1. \/ k.mods = {"alt", "shift"}
          \/ k.key \in {"Left", "Right"} /\ k.mods # {"alt", "shift"}
          \/ k.key \in {"Home", "End"}
          \/ k.key \in {"Up", "Down"} /\ ~Alone(k)
          \/ k.key \in {"Up", "Down"} /\ k.mods = {"alt"}
          \/ k.key \in {"Up", "Down"} /\ k.mods = {"ctrl", "alt"}
          \/ k.key \in {"PageUp", "PageDown"}
      BY <2>4, KeyIs
    <3> QED BY <2>1, <3>1
  <2> QED BY <2>3, <2>4
<1>2. stretch \in Editors
  <2> DEFINE dx == Slope(k)[1] dy == Slope(k)[2]
  <2>1. dx \in Int /\ dy \in Int
    BY DeltaType
  <2> HIDE DEF dx, dy
  <2>2. Valid(ExtendRectangle(b, dx, dy))
    BY <1>0, <2>1, ExtendRectangleValid
  <2>3. Keeping(e, ExtendRectangle(b, dx, dy)) \in Editors
    BY <2>2, KeepingType
  <2> QED BY <2>3 DEF dx, dy
<1>3. side \in Editors
  BY DeltaType, SideKeyType
<1>4. boundary \in Editors
  <2>1. PICK end : end = (k.key = "End")
    OBVIOUS
  <2> QED BY <2>1, BoundaryKeyType
<1>5. vertical \in Editors
  BY DeltaType, UpDownKeyType
<1>6. lines \in Editors /\ caret \in Editors
  BY <1>0, DeltaType, MoveLinesValid, AddCursorValid, KeepingType
<1>7. page \in Editors
  BY DeltaType, PageKeyType
<1>8. k.key \in Settling => settled \in Editors
  BY <1>0, SettledByValid, SettledType
<1> HIDE DEF stretch, side, boundary, vertical, lines, caret, page, settled
<1> QED BY <1>1, <1>2, <1>3, <1>4, <1>5, <1>6, <1>7, <1>8

\* A typed character leaves an editor.
LEMMA CharacterTypedType ==
  ASSUME NEW e \in Editors, NEW ch \in Characters
  PROVE  CharacterTyped(e, ch) \in Editors
<1>1. ch \in Chars /\ Valid(e.buf)
  BY EditorType DEF Chars
<1> QED BY <1>1, WriteOne, SettledType DEF CharacterTyped

\* handle_shortcuts.
LEMMA AppKeyPressedType ==
  ASSUME NEW e \in Editors, NEW k \in AppKeys, NEW clip \in Clips
  PROVE  AppKeyPressed(e, k, clip) \in Editors
<1> DEFINE b == e.buf key == k.key cut == CutCopy(b, TRUE).b copy == CutCopy(b, FALSE).b
           paste == Paste(b, clip) all == SelectAll(b) twice == Duplicate(b)
<1>0. Valid(b) /\ Shaped(b)
  BY EditorType
<1>1. \E new \in {cut, copy, paste, all, twice} : AppKeyPressed(e, k, clip) = Keeping(e, new)
  <2>1. AppKeyPressed(e, k, clip) =
          Keeping(e, CASE key = "Cut" -> cut [] key = "Copy" -> copy [] key = "Paste" -> paste
                       [] key = "SelectAll" -> all [] key = "Duplicate" -> twice)
    BY DEF AppKeyPressed
  <2>2. key \in {"Cut", "Copy", "Paste", "SelectAll", "Duplicate"}
    BY DEF AppKeys, Keyed
  <2> HIDE DEF key, cut, copy, paste, all, twice
  <2> QED BY <2>1, <2>2
<1>2. Valid(cut) /\ Valid(copy)
  <2>1. \A yes : Valid(CutCopy(b, yes).b)
    BY <1>0, CutCopyValid
  <2> QED BY <2>1
<1>3. Valid(paste)
  <2>1. clip.data \in Documents /\ clip.fragments \in Seq(Documents)
    BY ClipsAssumption DEF Documents
  <2> QED BY <1>0, <2>1, PasteValid
<1>4. Valid(all) /\ Valid(twice)
  BY <1>0, SelectAllValid, DuplicateValid
<1> HIDE DEF cut, copy, paste, all, twice
<1>5. \A new \in {cut, copy, paste, all, twice} : Keeping(e, new) \in Editors
  BY <1>2, <1>3, <1>4, KeepingType
<1> QED BY <1>1, <1>5

-----------------------------------------------------------------------------
(***************************************************************************)
(* The mouse                                                               *)
(***************************************************************************)
\* A click in the text keeps the buffer valid.
LEMMA ClickTextValid ==
  ASSUME NEW b, Valid(b), NEW p \in Point, NEW clicks, NEW mods
  PROVE  Valid(ClickText(b, p, clicks, mods))
<1>1. Shaped(b)
  BY DEF Valid
<1>2. ClickText(b, p, clicks, mods) \in
        {AddCursorAt(b, p), SelectAll(b), SelectLine(b), SelectWord(b), GoToPoint(b, p, "shift" \in mods)}
  BY DEF ClickText
<1>3. Valid(GoToPoint(b, p, "shift" \in mods))
  <2>1. \A extend : Valid(GoToPoint(b, p, extend))
    BY <1>1, GoToPointValid
  <2> QED BY <2>1
<1> QED BY <1>1, <1>2, <1>3, AddCursorAtValid, SelectAllValid, SelectLineValid, SelectWordValid

\* A click leaves an editor.
LEMMA ClickColumnType ==
  ASSUME NEW e \in Editors, NEW b, Valid(b), NEW clicks, NEW mods
  PROVE  ClickColumn(e, b, clicks, mods) \in Editors
<1> DEFINE column == IF clicks = 1 \/ "alt" \in mods THEN Here(b).x ELSE e.column
<1>1. column \in Nat
  BY EditorType, HereType DEF Valid
<1> HIDE DEF column
<1>2. [buf |-> b, column |-> column] \in Editors
  BY <1>1, EditorIs
<1> QED BY <1>2 DEF ClickColumn, column

\* Where the button went down.
Anchors == {<<>>} \cup ({"line"} \X Int) \cup ({"corner"} \X Point)

\* A drag over the text keeps the buffer valid.
LEMMA DragTextValid ==
  ASSUME NEW b, Valid(b), NEW p \in Point, NEW anc \in Anchors, ~OnLine(anc)
  PROVE  Valid(DragText(b, p, anc))
<1>1. CASE anc = <<>>
  <2>1. \A extend : Valid(GoToPoint(b, p, extend))
    BY GoToPointValid DEF Valid
  <2> QED BY <1>1, <2>1 DEF DragText
<1>2. CASE anc # <<>>
  <2>1. anc[2] \in Point
    BY <1>2 DEF Anchors, OnLine
  <2> QED BY <1>2, <2>1, SelectRectangleValid DEF DragText
<1> QED BY <1>1, <1>2

\* The line under a row of the screen is a number.
LEMMA LineAtType ==
  ASSUME NEW b, Shaped(b), NEW row \in Int
  PROVE  LineAt(b, row) \in Int
<1>1. Rows(b.text) \in Nat
  <2>1. b.text \in Documents /\ b.cursor \in Int
    BY ShapedType
  <2> QED BY <2>1, RowType
<1> QED BY <1>1 DEF LineAt, Smaller, Larger

\* The line a gutter click starts from is a number.
LEMMA GutterAnchorType ==
  ASSUME NEW b, Shaped(b), NEW row \in Int, NEW extend, NEW anc \in Anchors
  PROVE  GutterAnchor(b, row, extend, anc) \in Int
<1>1. GutterAnchor(b, row, extend, anc) \in {LineAt(b, row), AnchorLine(b)}
      \/ (OnLine(anc) /\ GutterAnchor(b, row, extend, anc) = anc[2])
  BY DEF GutterAnchor
<1>2. OnLine(anc) => anc[2] \in Int
  BY DEF Anchors, OnLine
<1> QED BY <1>1, <1>2, LineAtType, AnchorLineType

-----------------------------------------------------------------------------
(***************************************************************************)
(* What a replay does                                                      *)
(***************************************************************************)
\* Ranges that are in order and apart are selected as they are.
LEMMA SetSpread ==
  ASSUME NEW b, Shaped(b), NEW rs, rs # <<>>, Spread(b.text, rs)
  PROVE  SetRanges(b, rs) =
           [b EXCEPT !.cursor = rs[Len(rs)][2], !.others = Front(rs),
                     !.selection = Chosen(Points(b.text, rs[Len(rs)]))]
<1>1. b.text \in Documents /\ rs \in Seq(Spans) /\ \A i \in 1..Len(rs) : Inside(b.text, rs[i])
  BY ShapedType, SpreadRanges
<1>2. Clamped(b.text, rs) = rs
  BY <1>1, ClampedIs
<1>3. InOrder(rs) = rs /\ Sorted(rs)
  BY <1>1, SpreadRises, InOrderIs
<1>4. Joined(rs) = rs
  BY <1>1, <1>3, JoinedIs
<1>5. Last(rs) = rs[Len(rs)]
  BY DEF Last
<1> QED BY <1>2, <1>3, <1>4, <1>5 DEF SetRanges

\* Selecting what is selected changes nothing.
LEMMA SetOwnRanges ==
  ASSUME NEW b, Valid(b), ~Adrift(b)
  PROVE  SetRanges(b, Ranges(b)) = b
<1> DEFINE rs == Ranges(b) p == Primary(b)
<1>1. Shaped(b) /\ b \in Buffers /\ b.others \in Seq(Spans) /\ p \in Spans
  BY ShapedType, PrimaryType DEF Valid, Shaped
<1>2. rs = Append(b.others, p) /\ Spread(b.text, rs) /\ rs # <<>>
  BY RangesIs
<1>3. p[2] = b.cursor /\ AtRange(b, p) = b
  BY <1>1, Aligned
<1>4. Len(rs) = Len(b.others) + 1 /\ rs[Len(rs)] = p /\ Front(rs) = b.others
  <2> HIDE DEF p
  <2>1. Len(Append(b.others, p)) = Len(b.others) + 1 /\ Append(b.others, p)[Len(b.others) + 1] = p
    BY <1>1
  <2>2. Front(Append(b.others, p)) = b.others
    BY <1>1 DEF Front
  <2> QED BY <1>2, <2>1, <2>2
<1>5. SetRanges(b, rs) = [b EXCEPT !.cursor = p[2], !.others = b.others,
                                   !.selection = Chosen(Points(b.text, p))]
  <2> HIDE DEF rs, p
  <2>1. SetRanges(b, rs) =
           [b EXCEPT !.cursor = rs[Len(rs)][2], !.others = Front(rs),
                     !.selection = Chosen(Points(b.text, rs[Len(rs)]))]
    BY <1>1, <1>2, SetSpread
  <2> QED BY <2>1, <1>4
<1>6. AtRange(b, p) = [b EXCEPT !.cursor = p[2], !.selection = Chosen(Points(b.text, p))]
  BY DEF AtRange
<1> HIDE DEF rs, p
<1>7. [b EXCEPT !.cursor = p[2], !.others = b.others, !.selection = Chosen(Points(b.text, p))]
        = [b EXCEPT !.cursor = p[2], !.selection = Chosen(Points(b.text, p))]
  BY <1>1 DEF Buffers
<1> QED BY <1>3, <1>5, <1>6, <1>7 DEF rs

\* One caret goes where the cursor would.
LEMMA OneCaretMoves ==
  ASSUME NEW b, Valid(b), b.others = <<>>, ~Adrift(b), NEW o \in 0..Len(b.text),
         NEW to, to[Primary(b)] = o, NEW extend \in BOOLEAN
  PROVE  MoveEach(b, to, extend) = GoTo(b, o, extend)
<1> DEFINE p == Primary(b) r == <<IF extend THEN p[1] ELSE o, o>>
           there == PointAt(b.text, o) from == IF extend THEN PointAt(b.text, p[1]) ELSE there
           new(sel) == [text |-> b.text, cursor |-> o, selection |-> sel, others |-> <<>>,
                        rectangle |-> <<>>, overtype |-> b.overtype, full |-> b.full]
<1>1. Shaped(b) /\ b \in Buffers /\ b.text \in Documents /\ p \in Spans /\ Inside(b.text, p)
      /\ Len(b.text) \in Nat
  BY ShapedType, PrimaryType DEF Valid, Shaped
<1>2. Ranges(b) = <<p>>
  BY <1>1, AloneIsValid
<1>3. r \in Spans /\ Inside(b.text, r)
  <2>1. p[1] \in 0..Len(b.text)
    BY <1>1 DEF Spans, Inside
  <2> HIDE DEF p
  <2> QED BY <1>1, <2>1 DEF Spans, Inside
<1>4. MoveEach(b, to, extend) = [SetRanges(b, <<r>>) EXCEPT !.rectangle = <<>>]
  <2> DEFINE moved == [i \in 1..Len(<<p>>) |-> <<IF extend THEN (<<p>>[i])[1] ELSE to[<<p>>[i]], to[<<p>>[i]]>>]
  <2>1. moved = <<r>>
    <3>0. to[p] = o
      OBVIOUS
    <3> HIDE DEF p
    <3>1. Len(<<p>>) = 1 /\ <<p>>[1] = p
      OBVIOUS
    <3>2. moved = [i \in 1..1 |-> r]
      BY <3>0, <3>1
    <3> HIDE DEF r, moved
    <3>3. [i \in 1..1 |-> r] = <<r>>
      OBVIOUS
    <3> QED BY <3>2, <3>3
  <2>2. MoveEach(b, to, extend) = [SetRanges(b, moved) EXCEPT !.rectangle = <<>>]
    BY <1>2 DEF MoveEach
  <2> QED BY <2>1, <2>2
<1>5. SetRanges(b, <<r>>) = [b EXCEPT !.cursor = o, !.others = <<>>,
                                      !.selection = Chosen(Points(b.text, r))]
  <2> HIDE DEF r
  <2>1. r[2] = o
    BY DEF r
  <2>2. <<r>> # <<>> /\ Len(<<r>>) = 1 /\ <<r>>[1] = r
    OBVIOUS
  <2>3. Front(<<r>>) = <<>>
    BY DEF Front
  <2>4. Spread(b.text, <<r>>)
    <3> DEFINE rs == <<r>>
    <3>1. rs \in Seq(Spans) /\ Len(rs) = 1 /\ \A i \in 1..1 : rs[i] = r
      BY <1>3
    <3> HIDE DEF rs
    <3>2. Spread(b.text, rs)
      BY <1>3, <3>1 DEF Spread
    <3> QED BY <3>2 DEF rs
  <2> DEFINE rs == <<r>>
  <2> HIDE DEF rs
  <2>5. SetRanges(b, rs) =
           [b EXCEPT !.cursor = rs[Len(rs)][2], !.others = Front(rs),
                     !.selection = Chosen(Points(b.text, rs[Len(rs)]))]
    BY <1>1, <2>2, <2>4, SetSpread DEF rs
  <2>6. rs[Len(rs)] = r /\ Front(rs) = <<>>
    BY <2>2, <2>3 DEF rs
  <2>7. SetRanges(b, rs) = [b EXCEPT !.cursor = o, !.others = <<>>, !.selection = Chosen(Points(b.text, r))]
    BY <2>1, <2>5, <2>6
  <2> QED BY <2>7 DEF rs
<1>6. Points(b.text, r) = <<from, there>>
  BY DEF Points
<1>7. MoveEach(b, to, extend) = new(Chosen(<<from, there>>))
  <2> HIDE DEF from, there, r
  <2>1. b = [text |-> b.text, cursor |-> b.cursor, selection |-> b.selection,
             others |-> b.others, rectangle |-> b.rectangle, overtype |-> b.overtype,
             full |-> b.full]
    BY <1>1 DEF Buffers
  <2>2. MoveEach(b, to, extend) =
          [[b EXCEPT !.cursor = o, !.others = <<>>, !.selection = Chosen(<<from, there>>)]
             EXCEPT !.rectangle = <<>>]
    BY <1>4, <1>5, <1>6
  <2> QED BY <2>1, <2>2
<1>8. SetCursor(b, o) = new(<<>>)
  <2>1. b = [text |-> b.text, cursor |-> b.cursor, selection |-> b.selection,
             others |-> b.others, rectangle |-> b.rectangle, overtype |-> b.overtype,
             full |-> b.full]
    BY <1>1 DEF Buffers
  <2>2. SetCursor(b, o) = [b EXCEPT !.cursor = o, !.selection = <<>>, !.others = <<>>,
                                    !.rectangle = <<>>]
    BY DEF SetCursor
  <2> HIDE DEF p, r, there, from
  <2> QED BY <2>1, <2>2
<1>9. CASE ~extend
  <2>1. Chosen(<<from, there>>) = <<>>
    BY <1>9 DEF Chosen
  <2> QED BY <1>7, <1>8, <1>9, <2>1 DEF GoTo
<1>10. CASE extend
  <2>1. (IF HasSelection(b) THEN b.selection[1] ELSE PointAt(b.text, b.cursor)) = from
    <3>1. CASE HasSelection(b)
      BY <1>10, <3>1 DEF Adrift
    <3>2. CASE ~HasSelection(b)
      BY <1>10, <3>2 DEF HasSelection, Primary
    <3> QED BY <3>1, <3>2
  <2>2. SelectTo(b, o) = [SetCursor(b, o) EXCEPT !.selection = Chosen(<<from, there>>)]
    BY <2>1 DEF SelectTo
  <2>3. SelectTo(b, o) = new(Chosen(<<from, there>>))
    <3> HIDE DEF from, there
    <3> QED BY <2>2, <1>8
  <2> QED BY <1>7, <1>10, <2>3 DEF GoTo
<1> QED BY <1>9, <1>10

\* Left and Right do what their command does.
LEMMA SideFollows ==
  ASSUME NEW e \in Editors, NEW word, NEW delta \in {-1, 1}, NEW extend \in BOOLEAN, NEW alt,
         ~Adrift(e.buf), alt => Carets(e.buf) = 1
  PROVE  SideKey(e, word, delta, extend, alt).buf = MoveCursors(e.buf, word, delta, extend)
<1> DEFINE b == e.buf p == Primary(b)
           step(r) == IF ~extend /\ Wide(r) THEN (IF delta < 0 THEN Low(r) ELSE High(r))
                      ELSE Moved(b.text, r[2], word, delta)
           to == [r \in ToSet(Ranges(b)) |-> step(r)]
           o == CASE extend \/ ~Wide(p) -> Moved(b.text, b.cursor, word, delta)
                  [] ~extend /\ Wide(p) /\ delta < 0 -> Low(p)
                  [] OTHER -> High(p)
<1>1. Valid(b) /\ Shaped(b)
  BY EditorType
<1>2. MoveCursors(b, word, delta, extend) = MoveEach(b, to, extend)
  BY DEF MoveCursors
<1>3. SideKey(e, word, delta, extend, alt).buf
        = IF Carets(b) > 1 /\ ~alt THEN MoveCursors(b, word, delta, extend) ELSE GoTo(b, o, extend)
  BY DEF SideKey, Settled
<1>4. CASE Carets(b) > 1
  BY <1>3, <1>4
<1>5. CASE ~(Carets(b) > 1)
  <2>1. b.others = <<>> /\ b.others \in Seq(Spans)
    BY <1>1, <1>5, ShapedType DEF Carets
  <2>2. Ranges(b) = <<p>>
    BY <1>1, <2>1, AloneIsValid
  <2>3. p[2] = b.cursor
    BY <1>1, Aligned
  <2>4. p \in ToSet(Ranges(b))
    <3> HIDE DEF p
    <3>1. p \in ToSet(<<p>>)
      BY DEF ToSet
    <3> QED BY <2>2, <3>1
  <2>5. to[p] = step(p)
    BY <2>4
  <2>6. step(p) = o
    BY <2>3
  <2>7. o \in 0..Len(b.text)
    <3>1. b.text \in Documents /\ b.cursor \in 0..Len(b.text) /\ Len(b.text) \in Nat
      BY <1>1, ShapedType
    <3>2. Moved(b.text, b.cursor, word, delta) \in 0..Len(b.text)
      BY <3>1, MovedType
    <3>3. Low(p) \in 0..Len(b.text) /\ High(p) \in 0..Len(b.text)
      <4>1. Low(p) \in Nat /\ High(p) \in Nat /\ Low(p) <= High(p) /\ High(p) <= Len(b.text)
        BY <1>1, PrimaryType
      <4> QED BY <4>1, <3>1
    <3> QED BY <3>2, <3>3
  <2> HIDE DEF to, o
  <2>8. MoveEach(b, to, extend) = GoTo(b, o, extend)
    BY <1>1, <2>1, <2>5, <2>6, <2>7, OneCaretMoves
  <2> QED BY <1>2, <1>3, <1>5, <2>8
<1> QED BY <1>4, <1>5

\* Home and End do.
LEMMA BoundaryFollows ==
  ASSUME NEW e, NEW end, NEW document, NEW extend, NEW alt, alt => Carets(e.buf) = 1
  PROVE  BoundaryKey(e, end, document, extend, alt).buf = Boundary(e.buf, end, document, extend)
<1> DEFINE b == e.buf other == Settled(b)
<1>1. other.buf = b
  BY DEF Settled
<1>2. Carets(b) > 1 /\ ~alt /\ ~document <=> Carets(b) > 1 /\ ~FALSE /\ ~document
  OBVIOUS
<1>3. BoundaryKey(e, end, document, extend, alt) = BoundaryKey(other, end, document, extend, FALSE)
  <2> HIDE DEF other
  <2> QED BY <1>1, <1>2 DEF BoundaryKey
<1> QED BY <1>3 DEF Boundary

\* The first position.
LEMMA TopIs ==
  ASSUME NEW t \in Documents
  PROVE  LineStart(t, 0) = 0 /\ PointAt(t, 0).x = 0 /\ RowEnd(t, 0) \in Nat
<1>1. Len(t) \in Nat /\ 0 < Rows(t) /\ Rows(t) \in Nat /\ RowAt(t, 0) \in Nat
  BY RowType DEF Documents
<1> DEFINE s == LineStart(t, 0)
<1>2. s \in 0..Len(t) /\ RowAt(t, s) = 0 /\ \A o \in 0..Len(t) : RowAt(t, o) = 0 => s <= o
  BY <1>1, LineStartIs
<1> HIDE DEF s
<1>3. RowAt(t, 0) = 0
  <2>1. RowAt(t, 0) <= RowAt(t, s)
    BY <1>1, <1>2, RowsRise
  <2> QED BY <1>1, <1>2, <2>1
<1>4. s = 0
  <2>1. 0 \in 0..Len(t)
    BY <1>1
  <2>2. s <= 0
    BY <1>2, <1>3, <2>1
  <2> QED BY <1>2, <2>2
<1>5. RowStart(t, 0) = 0 /\ RowEnd(t, 0) \in Nat
  <2>1. 0 \in 0..Len(t)
    BY <1>1
  <2>2. RowStart(t, 0) \in 0..0 /\ RowEnd(t, 0) \in 0..Len(t)
    BY <2>1, RowBounds
  <2> QED BY <2>2
<1>6. PointAt(t, 0).x = 0
  BY <1>5 DEF PointAt
<1> QED BY <1>4, <1>5, <1>6 DEF s

\* Above the first row is the first position.
LEMMA AboveIs ==
  ASSUME NEW b, Shaped(b), NEW y \in Int, y < 0, NEW extend
  PROVE  Here(GoToPoint(b, At(0, y), extend)).x = 0
<1> DEFINE t == b.text p == At(0, y) there == GoToPoint(b, p, extend)
<1>1. t \in Documents /\ Rows(t) \in Nat /\ b \in Buffers
  BY ShapedType, RowType DEF Shaped
<1>2. OffsetAt(t, p) = 0
  <2>1. p.x = 0 /\ p.y = y
    BY DEF At
  <2> HIDE DEF p
  <2>2. OffsetAt(t, p) = Smaller(LineStart(t, 0) + 0, RowEnd(t, LineStart(t, 0)))
    BY <1>1, <2>1 DEF OffsetAt, Larger
  <2>3. LineStart(t, 0) = 0 /\ RowEnd(t, 0) \in Nat
    BY <1>1, TopIs
  <2> QED BY <2>2, <2>3 DEF Smaller
<1>3. there.cursor = 0 /\ there.text = t
  <2> HIDE DEF p
  <2>1. there = GoTo(b, 0, extend)
    BY <1>2 DEF GoToPoint
  <2>2. SetCursor(b, 0).cursor = 0 /\ SetCursor(b, 0).text = t
    BY <1>1 DEF SetCursor, Buffers
  <2>3. SelectTo(b, 0).cursor = SetCursor(b, 0).cursor /\ SelectTo(b, 0).text = SetCursor(b, 0).text
    BY <1>1 DEF SelectTo, SetCursor, Buffers
  <2> QED BY <2>1, <2>2, <2>3 DEF GoTo
<1> HIDE DEF there
<1> QED BY <1>1, <1>3, TopIs DEF Here, there

\* Where a replayed vertical command arrives.
Arrived(b, x, y, extend) ==
  LET there == GoToPoint(b, At(IF y < 0 THEN 0 ELSE IF y >= Rows(b.text) THEN Far ELSE x, y), extend)
  IN [buf |-> there,
      column |-> CASE y < 0 -> 0 [] y >= Rows(b.text) -> Here(there).x [] OTHER -> x]

\* The buffer of a vertical move is where its command arrives.
LEMMA ArrivedIs ==
  ASSUME NEW b, Shaped(b), NEW delta \in {-1, 1}, NEW x, NEW y \in 0..Rows(b.text) - 1, NEW extend
  PROVE  Arrived(b, x, y + delta, extend)
           = Landed(b, y + delta \notin 0..Rows(b.text) - 1, delta, x, y + delta, extend)
<1> DEFINE to == y + delta n == Rows(b.text)
<1>1. n \in Nat /\ 0 < n /\ to \in Int /\ y \in Nat
  BY ShapedType, RowType
<1>2. /\ to < 0 <=> (to \notin 0..n - 1 /\ delta < 0)
      /\ to >= n <=> (to \notin 0..n - 1 /\ ~(delta < 0))
      /\ ~(to < 0 /\ to >= n)
  BY <1>1
<1>3. to < 0 => Here(GoToPoint(b, At(0, to), extend)).x = 0
  BY <1>1, AboveIs
<1> HIDE DEF to, n
<1>4. CASE to < 0
  <2>1. /\ Arrived(b, x, to, extend) = [buf |-> GoToPoint(b, At(0, to), extend), column |-> 0]
        /\ Landed(b, to \notin 0..n - 1, delta, x, to, extend)
             = [buf |-> GoToPoint(b, At(0, to), extend),
                column |-> Here(GoToPoint(b, At(0, to), extend)).x]
    BY <1>2, <1>4 DEF Arrived, Landed, n
  <2> QED BY <1>3, <1>4, <2>1 DEF to, n
<1>5. CASE to >= n
  <2>1. /\ Arrived(b, x, to, extend) = [buf |-> GoToPoint(b, At(Far, to), extend),
                                        column |-> Here(GoToPoint(b, At(Far, to), extend)).x]
        /\ Landed(b, to \notin 0..n - 1, delta, x, to, extend)
             = [buf |-> GoToPoint(b, At(Far, to), extend),
                column |-> Here(GoToPoint(b, At(Far, to), extend)).x]
    BY <1>2, <1>5 DEF Arrived, Landed, n
  <2> QED BY <2>1 DEF to, n
<1>6. CASE ~(to < 0) /\ ~(to >= n)
  <2>1. /\ Arrived(b, x, to, extend) = [buf |-> GoToPoint(b, At(x, to), extend), column |-> x]
        /\ Landed(b, to \notin 0..n - 1, delta, x, to, extend)
             = [buf |-> GoToPoint(b, At(x, to), extend), column |-> x]
    BY <1>2, <1>6 DEF Arrived, Landed, n
  <2> QED BY <2>1 DEF to, n
<1> QED BY <1>4, <1>5, <1>6

\* Rows of points in the text.
LEMMA RowsOfPoints ==
  ASSUME NEW b, Shaped(b), NEW delta
  PROVE  Edge(b, delta).y \in 0..Rows(b.text) - 1 /\ Here(b).y \in 0..Rows(b.text) - 1
<1>1. \A o \in Int : PointAt(b.text, o).y \in 0..Rows(b.text) - 1
  <2>1. b.text \in Documents
    BY ShapedType
  <2>2. \A o \in Int : RowAt(b.text, o) \in Nat /\ RowAt(b.text, o) < Rows(b.text) /\ Rows(b.text) \in Nat
    BY <2>1, RowType
  <2> QED BY <2>2 DEF PointAt
<1>2. b.cursor \in Int /\ Low(Primary(b)) \in Int /\ High(Primary(b)) \in Int
  BY ShapedType, PrimaryType
<1> QED BY <1>1, <1>2 DEF Edge, Here

\* Up and Down do what their command does, from a column that is in step.
LEMMA VerticalFollows ==
  ASSUME NEW e \in Editors, NEW delta \in {-1, 1}, NEW extend \in BOOLEAN, NEW column,
         \/ Carets(e.buf) = 1 /\ column = e.column
         \/ column = Unset /\ (Carets(e.buf) > 1 \/ e.column = Here(e.buf).x)
  PROVE  LET r == Vertical(e.buf, column, delta, extend) new == UpDownKey(e, delta, extend)
         IN r.buf = new.buf /\ r.column \in {Unset, new.column}
<1> DEFINE b == e.buf p == Edge(b, delta) q == Here(b)
           land(x, y) == Landed(b, y + delta \notin 0..Rows(b.text) - 1, delta, x, y + delta, extend)
           r == Vertical(b, column, delta, extend) new == UpDownKey(e, delta, extend)
           start == IF column = Unset THEN q ELSE At(column, q.y)
<1>1. Valid(b) /\ Shaped(b) /\ e.column \in Nat /\ p.y \in 0..Rows(b.text) - 1 /\ q.y \in 0..Rows(b.text) - 1
  BY EditorType, RowsOfPoints
<1>2. new = CASE Carets(b) > 1 -> Settled(MoveCursorsVertical(b, delta, extend))
              [] Carets(b) = 1 /\ ~extend /\ Selected(b) -> land(p.x, p.y)
              [] OTHER -> land(e.column, q.y)
  BY DEF UpDownKey, Landed
<1>3. r = CASE Carets(b) > 1 -> [buf |-> MoveCursorsVertical(b, delta, extend), column |-> column]
            [] Carets(b) = 1 /\ ~extend /\ Selected(b) -> Arrived(b, p.x, p.y + delta, extend)
            [] OTHER -> Arrived(b, start.x, start.y + delta, extend)
  BY DEF Vertical, Arrived
<1>4. CASE Carets(b) > 1
  BY <1>2, <1>3, <1>4 DEF Settled
<1>5. CASE ~(Carets(b) > 1)
  <2>1. start.x = e.column /\ start.y = q.y
    <3>1. e.column # Unset
      BY <1>1 DEF Unset
    <3>2. column = e.column \/ (column = Unset /\ e.column = q.x)
      BY <1>5
    <3> HIDE DEF q
    <3> QED BY <3>1, <3>2 DEF At
  <2>2. Arrived(b, p.x, p.y + delta, extend) = land(p.x, p.y)
    <3> HIDE DEF p, b
    <3> QED BY <1>1, ArrivedIs
  <2>3. Arrived(b, e.column, q.y + delta, extend) = land(e.column, q.y)
    <3> HIDE DEF q
    <3> QED BY <1>1, ArrivedIs
  <2> HIDE DEF land, start, p, q, r, new
  <2>4. r = new
    BY <1>2, <1>3, <1>5, <2>1, <2>2, <2>3
  <2> QED BY <2>4 DEF r, new
<1> QED BY <1>4, <1>5

\* A command that does not depend on a column follows when it does the same.
LEMMA FollowsPlain ==
  ASSUME NEW c, c.command # "Vertical", NEW new, Apply(c, buffer) = new.buf
  PROVE  Follows(c, new)
BY DEF Follows, ReplayStep

\* Alt+Shift and an arrow.
LEMMA RectangleFollows ==
  ASSUME NEW k \in EditKeys, k.mods = {"alt", "shift"}
  PROVE  Follows(CommandOf(k), KeyPressed(editor, k))
<1> DEFINE dx == Slope(k)[1] dy == Slope(k)[2]
           c == [command |-> "Rectangle", dx |-> dx, dy |-> dy]
           new == Keeping(editor, ExtendRectangle(buffer, dx, dy))
<1>1. /\ k.key \in {"Left", "Right", "Up", "Down"} /\ k.key \notin {"Home", "End"} /\ Alone(k)
      /\ k.mods # {"alt"} /\ k.mods # {"ctrl", "alt"}
  BY KeyIs DEF Alone
<1>2. CommandOf(k) = c
  BY <1>1 DEF CommandOf
<1>3. KeyPressed(editor, k) = new
  BY <1>1 DEF KeyPressed, buffer
<1>4. Apply(c, buffer) = new.buf
  <2> HIDE DEF dx, dy
  <2> QED BY DEF Apply, Keeping, buffer
<1> QED BY <1>2, <1>3, <1>4, FollowsPlain

\* Left and Right.
LEMMA SideKeyFollows ==
  ASSUME editor \in Editors, NEW k \in EditKeys, k.mods # {"alt", "shift"},
         k.key \in {"Left", "Right"}, ~Apart(k, KeyPressed(editor, k))
  PROVE  Follows(CommandOf(k), KeyPressed(editor, k))
<1> DEFINE word == ByWord(k) delta == Delta(k) extend == Extends(k) alt == Alone(k)
           c == [command |-> "Move", word |-> word, delta |-> delta, extend |-> extend]
           new == SideKey(editor, word, delta, extend, alt)
<1>1. k.key \notin {"Home", "End"} /\ k.key \notin {"Up", "Down"} /\ k.mods # {"alt", "shift"}
  OBVIOUS
<1>2. CommandOf(k) = c
  BY <1>1 DEF CommandOf
<1>3. KeyPressed(editor, k) = new
  BY <1>1 DEF KeyPressed
<1>4. new.buf = MoveCursors(buffer, word, delta, extend)
  <2>1. alt => Carets(editor.buf) = 1
    <3>1. Valid(buffer) /\ Carets(buffer) \in Nat /\ Carets(buffer) > 0
      <4>1. Valid(buffer)
        BY EditorType DEF buffer
      <4>2. buffer.others \in Seq(Spans)
        BY <4>1, ShapedType DEF Valid
      <4> QED BY <4>1, <4>2 DEF Carets
    <3>2. ~(Carets(buffer) > 1 /\ alt)
      BY DEF Apart
    <3> QED BY <3>1, <3>2 DEF buffer
  <2>2. ~Adrift(editor.buf)
    BY DEF Apart, buffer
  <2>3. delta \in {-1, 1} /\ extend \in BOOLEAN
    BY DeltaType DEF Extends
  <2> HIDE DEF word, delta, extend, alt, new
  <2>4. SideKey(editor, word, delta, extend, alt).buf = MoveCursors(editor.buf, word, delta, extend)
    BY <2>1, <2>2, <2>3, SideFollows
  <2> QED BY <2>4 DEF new, buffer
<1>5. Apply(c, buffer) = new.buf
  <2> HIDE DEF word, delta, extend, alt, new
  <2> QED BY <1>4 DEF Apply
<1> QED BY <1>2, <1>3, <1>5, FollowsPlain

\* Home and End.
LEMMA BoundaryKeyFollows ==
  ASSUME editor \in Editors, NEW k \in EditKeys,
         k.key \in {"Home", "End"}, ~Apart(k, KeyPressed(editor, k))
  PROVE  Follows(CommandOf(k), KeyPressed(editor, k))
<1> DEFINE end == k.key = "End" document == ByWord(k) extend == Extends(k) alt == Alone(k)
           c == [command |-> "Boundary", end |-> end, document |-> document, extend |-> extend]
           new == BoundaryKey(editor, end, document, extend, alt)
<1>1. k.mods # {"alt", "shift"} /\ k.key \notin {"Left", "Right"} /\ k.key \notin {"Up", "Down"}
  BY KeyIs
<1>2. CommandOf(k) = c
  BY <1>1 DEF CommandOf
<1>3. KeyPressed(editor, k) = new
  BY <1>1 DEF KeyPressed
<1>4. new.buf = Boundary(buffer, end, document, extend)
  <2>1. alt => Carets(editor.buf) = 1
    <3>1. Valid(buffer) /\ Carets(buffer) \in Nat /\ Carets(buffer) > 0
      <4>1. Valid(buffer)
        BY EditorType DEF buffer
      <4>2. buffer.others \in Seq(Spans)
        BY <4>1, ShapedType DEF Valid
      <4> QED BY <4>1, <4>2 DEF Carets
    <3>2. ~(Carets(buffer) > 1 /\ alt)
      BY DEF Apart
    <3> QED BY <3>1, <3>2 DEF buffer
  <2>2. PICK last : last = end
    OBVIOUS
  <2> HIDE DEF document, extend, alt, end
  <2>3. BoundaryKey(editor, last, document, extend, alt).buf
          = Boundary(editor.buf, last, document, extend)
    BY <2>1, BoundaryFollows
  <2> QED BY <2>2, <2>3 DEF buffer
<1>5. Apply(c, buffer) = new.buf
  <2>1. PICK last : last = end
    OBVIOUS
  <2> HIDE DEF document, extend, alt, new, end
  <2>2. c.end = end /\ c.document = document /\ c.extend = extend /\ c.command = "Boundary"
    OBVIOUS
  <2> HIDE DEF c
  <2> QED BY <1>4, <2>2 DEF Apply
<1> QED BY <1>2, <1>3, <1>5, FollowsPlain

\* Up and Down, and with Ctrl+Alt the caret they add.
LEMMA VerticalKeyFollows ==
  ASSUME editor \in Editors, NEW k \in EditKeys, k.mods # {"alt", "shift"}, k.key \in {"Up", "Down"},
         CommandOf(k) # NoCommand
  PROVE  Follows(CommandOf(k), KeyPressed(editor, k))
<1> DEFINE delta == Delta(k) extend == Extends(k)
           c == [command |-> "Vertical", delta |-> delta, extend |-> extend]
           a == [command |-> "AddCursor", delta |-> delta]
           new == UpDownKey(editor, delta, extend)
<1>1. k.key \notin {"Left", "Right"} /\ k.key \notin {"Home", "End"}
      /\ k.key \notin {"Back", "Delete"} /\ k.key \notin {"Tab", "Return", "Escape", "Insert", "L", "D"}
  OBVIOUS
<1>2. CASE k.mods = {"ctrl", "alt"}
  <2>1. Alone(k) /\ k.mods # {"alt"}
    BY <1>2 DEF Alone
  <2>2. CommandOf(k) = a
    <3>1. k.mods = {"ctrl", "alt"} /\ k.mods # {"alt", "shift"} /\ k.key \in {"Up", "Down"}
      BY <1>2
    <3> HIDE DEF delta
    <3> QED BY <1>1, <2>1, <3>1 DEF CommandOf, delta
  <2>3. KeyPressed(editor, k) = Keeping(editor, AddCursor(buffer, delta))
    BY <1>1, <1>2, <2>1 DEF KeyPressed, buffer
  <2>4. Apply(a, buffer) = Keeping(editor, AddCursor(buffer, delta)).buf
    <3> HIDE DEF delta
    <3> QED BY EditorType DEF Apply, Keeping, buffer
  <2> QED BY <2>2, <2>3, <2>4, FollowsPlain
<1>3. CASE ~Alone(k)
  <2>1. k.mods # {"ctrl", "alt"} /\ k.mods # {"alt"}
    BY <1>3 DEF Alone
  <2>2. CommandOf(k) = c
    BY <1>1, <1>3, <2>1 DEF CommandOf
  <2>3. KeyPressed(editor, k) = new
    BY <1>1, <1>3, <2>1 DEF KeyPressed
  <2>4. delta \in {-1, 1} /\ extend \in BOOLEAN
    BY DeltaType DEF Extends
  <2>5. ASSUME NEW column \in ReplayColumns
        PROVE  LET r == ReplayStep(c, [buf |-> buffer, column |-> column])
               IN r.buf = new.buf /\ r.column \in {Unset, new.column}
    <3>1. \/ Carets(editor.buf) = 1 /\ column = editor.column
          \/ column = Unset /\ (Carets(editor.buf) > 1 \/ editor.column = Here(editor.buf).x)
      BY <2>5 DEF ReplayColumns, buffer
    <3> HIDE DEF delta, extend, new
    <3>2. ReplayStep(c, [buf |-> buffer, column |-> column]) = Vertical(buffer, column, delta, extend)
      BY DEF ReplayStep
    <3>3. LET r == Vertical(editor.buf, column, delta, extend) there == UpDownKey(editor, delta, extend)
          IN r.buf = there.buf /\ r.column \in {Unset, there.column}
      BY <2>4, <3>1, VerticalFollows
    <3> QED BY <3>2, <3>3 DEF new, buffer
  <2> HIDE DEF delta, extend, new
  <2>6. Follows(c, new)
    BY <2>5 DEF Follows
  <2> QED BY <2>2, <2>3, <2>6
<1>4. CASE Alone(k) /\ k.mods # {"ctrl", "alt"}
  <2>1. CommandOf(k) = NoCommand
    BY <1>1, <1>4 DEF CommandOf
  <2> QED BY <2>1
<1> QED BY <1>2, <1>3, <1>4

\* The keys that settle the column.
LEMMA SettlingKeyFollows ==
  ASSUME NEW k \in EditKeys, k.key \in Settling
  PROVE  Follows(CommandOf(k), KeyPressed(editor, k))
<1> DEFINE new == Settled(SettledBy(buffer, k)) b == buffer key == k.key
           delete == [command |-> "Delete", word |-> ByWord(k), delta |-> Delta(k)]
           indent == [command |-> "Indent", direction |-> IF Extends(k) THEN -1 ELSE 1]
           c == CASE key \in {"Back", "Delete"} -> delete
                  [] key = "Tab" -> indent
                  [] key = "Return" -> Insertion(NL)
                  [] key = "Escape" -> [command |-> "ClearSelection"]
                  [] key = "Insert" -> [command |-> "ToggleOvertype"]
                  [] key = "L" -> [command |-> "SelectLine"]
                  [] key = "D" -> [command |-> "AddNext"]
<1>1. /\ k.mods # {"alt", "shift"} /\ key \notin {"Left", "Right"} /\ key \notin {"Home", "End"}
      /\ key \notin {"Up", "Down"} /\ key \notin {"PageUp", "PageDown"}
      /\ key \in {"Back", "Delete", "Tab", "Return", "Escape", "Insert", "L", "D"}
  BY KeyIs DEF Settling
<1>2. KeyPressed(editor, k) = new
  BY <1>1 DEF KeyPressed, SettledBy, buffer
<1>3. CommandOf(k) = c
  BY <1>1 DEF CommandOf
<1>4. c.command # "Vertical" /\ Apply(c, b) = SettledBy(b, k)
  <2>1. CASE key = "Back"
    <3>1. c = delete /\ Delta(k) = -1 /\ SettledBy(b, k) = Backspace(b, ByWord(k))
      BY <2>1 DEF Delta, Backwards, SettledBy
    <3> HIDE DEF c
    <3> QED BY <3>1 DEF Apply
  <2>2. CASE key = "Delete"
    <3>1. c = delete /\ Delta(k) = 1 /\ SettledBy(b, k) = Delete(b, ByWord(k), 1)
      BY <2>2 DEF Delta, Backwards, SettledBy
    <3> HIDE DEF c
    <3> QED BY <3>1 DEF Apply
  <2>3. CASE key = "Tab"
    <3> DEFINE d == IF Extends(k) THEN -1 ELSE 1
    <3>1. c = [command |-> "Indent", direction |-> d] /\ SettledBy(b, k) = Indent(b, d)
      BY <2>3 DEF SettledBy
    <3> HIDE DEF d, c
    <3> QED BY <3>1 DEF Apply
  <2>4. CASE key = "Return"
    <3>1. c = Insertion(NL) /\ SettledBy(b, k) = Write(b, <<NL>>, FALSE)
      BY <2>4 DEF SettledBy
    <3> HIDE DEF c
    <3> QED BY <3>1 DEF Apply, Insertion
  <2>5. CASE key = "Escape"
    <3>1. c = [command |-> "ClearSelection"] /\ SettledBy(b, k) = ClearSelection(b)
      BY <2>5 DEF SettledBy
    <3> HIDE DEF c
    <3> QED BY <3>1 DEF Apply
  <2>6. CASE key = "Insert"
    <3>1. c = [command |-> "ToggleOvertype"] /\ SettledBy(b, k) = [b EXCEPT !.overtype = ~@]
      BY <2>6 DEF SettledBy
    <3> HIDE DEF c
    <3> QED BY <3>1 DEF Apply
  <2>7. CASE key = "L"
    <3>1. c = [command |-> "SelectLine"] /\ SettledBy(b, k) = SelectLine(b)
      BY <2>7 DEF SettledBy
    <3> HIDE DEF c
    <3> QED BY <3>1 DEF Apply
  <2>8. CASE key = "D"
    <3>1. c = [command |-> "AddNext"] /\ SettledBy(b, k) = AddNext(b)
      BY <2>8 DEF SettledBy
    <3> HIDE DEF c
    <3> QED BY <3>1 DEF Apply
  <2> HIDE DEF c, delete, indent
  <2> QED BY <1>1, <2>1, <2>2, <2>3, <2>4, <2>5, <2>6, <2>7, <2>8
<1>5. new.buf = SettledBy(b, k)
  BY DEF Settled
<1> QED BY <1>2, <1>3, <1>4, <1>5, FollowsPlain

\* Every key that has a command.
LEMMA KeyFollows ==
  ASSUME editor \in Editors, NEW k \in EditKeys, CommandOf(k) # NoCommand,
         ~Apart(k, KeyPressed(editor, k))
  PROVE  Follows(CommandOf(k), KeyPressed(editor, k))
<1>1. k.key \in {"PageUp", "PageDown"} /\ k.mods # {"alt", "shift"} => CommandOf(k) = NoCommand
  BY DEF CommandOf
<1>2. k.key \in {"Left", "Right", "Home", "End", "Up", "Down", "PageUp", "PageDown"} \cup Settling
  BY KeyIs
<1>3. CASE k.mods = {"alt", "shift"}
  BY <1>3, RectangleFollows
<1>4. CASE k.mods # {"alt", "shift"} /\ k.key \in {"Left", "Right"}
  BY <1>4, SideKeyFollows
<1>5. CASE k.key \in {"Home", "End"}
  BY <1>5, BoundaryKeyFollows
<1>6. CASE k.mods # {"alt", "shift"} /\ k.key \in {"Up", "Down"}
  BY <1>6, VerticalKeyFollows
<1>7. CASE k.key \in Settling
  BY <1>7, SettlingKeyFollows
<1> QED BY <1>1, <1>2, <1>3, <1>4, <1>5, <1>6, <1>7

\* Copying leaves the buffer as it is, and writes the selections back to it.
LEMMA CopyKeeps ==
  ASSUME NEW b, Valid(b), ~Adrift(b)
  PROVE  CutCopy(b, FALSE).b = b
<1>1. SetRanges(b, Ranges(b)) = b
  BY SetOwnRanges
<1>2. CASE b.others # <<>>
  BY <1>1, <1>2 DEF CutCopy
<1>3. CASE ~(b.others # <<>>)
  <2>1. Extracted(b, FALSE).b = b
    BY DEF Extracted
  <2> QED BY <1>3, <2>1 DEF CutCopy
<1> QED BY <1>2, <1>3

\* The commands of the application.
LEMMA AppKeyFollows ==
  ASSUME editor \in Editors, NEW k \in AppKeys, NEW clip, ~Adrift(buffer)
  PROVE  Follows(AppCommandOf(k, clip), AppKeyPressed(editor, k, clip))
<1> DEFINE b == buffer c == AppCommandOf(k, clip) new == AppKeyPressed(editor, k, clip)
<1>1. Valid(b) /\ editor \in [buf : Buffers, column : Nat]
  BY EditorType DEF buffer, Editors
<1>2. k.key \in {"Cut", "Copy", "Paste", "SelectAll", "Duplicate"}
  BY DEF AppKeys, Keyed
<1>3. \A there : Keeping(editor, there).buf = there
  BY <1>1 DEF Keeping
<1>4. CASE k.key = "Cut"
  <2>1. c = [command |-> "Cut"] /\ new = Keeping(editor, CutCopy(b, TRUE).b)
    BY <1>4 DEF AppCommandOf, AppKeyPressed, buffer
  <2>2. new.buf = CutCopy(b, TRUE).b
    BY <1>3, <2>1
  <2> HIDE DEF c, new, b
  <2>3. c.command = "Cut"
    BY <2>1
  <2>4. Apply(c, b) = CutCopy(b, TRUE).b
    BY <2>3 DEF Apply
  <2> QED BY <2>2, <2>3, <2>4, FollowsPlain DEF b, c, new
<1>5. CASE k.key = "Copy"
  <2>1. c = [command |-> "Copy"] /\ new = Keeping(editor, CutCopy(b, FALSE).b)
    BY <1>5 DEF AppCommandOf, AppKeyPressed, buffer
  <2>2. new.buf = b
    BY <1>1, <1>3, <2>1, CopyKeeps
  <2> HIDE DEF c, new, b
  <2>3. c.command = "Copy"
    BY <2>1
  <2>4. Apply(c, b) = b
    BY <2>3 DEF Apply
  <2> QED BY <2>2, <2>3, <2>4, FollowsPlain DEF b, c, new
<1>6. CASE k.key = "Paste"
  <2>1. c = [command |-> "Paste", clip |-> clip] /\ new = Keeping(editor, Paste(b, clip))
    BY <1>6 DEF AppCommandOf, AppKeyPressed, buffer
  <2>2. new.buf = Paste(b, clip)
    BY <1>3, <2>1
  <2> HIDE DEF c, new, b
  <2>3. c.command = "Paste" /\ c.clip = clip
    BY <2>1
  <2>4. Apply(c, b) = Paste(b, clip)
    BY <2>3 DEF Apply
  <2> QED BY <2>2, <2>3, <2>4, FollowsPlain DEF b, c, new
<1>7. CASE k.key = "SelectAll"
  <2>1. c = [command |-> "SelectAll"] /\ new = Keeping(editor, SelectAll(b))
    BY <1>7 DEF AppCommandOf, AppKeyPressed, buffer
  <2>2. new.buf = SelectAll(b)
    BY <1>3, <2>1
  <2> HIDE DEF c, new, b
  <2>3. c.command = "SelectAll"
    BY <2>1
  <2>4. Apply(c, b) = SelectAll(b)
    BY <2>3 DEF Apply
  <2> QED BY <2>2, <2>3, <2>4, FollowsPlain DEF b, c, new
<1>8. CASE k.key = "Duplicate"
  <2>1. c = [command |-> "Duplicate"] /\ new = Keeping(editor, Duplicate(b))
    BY <1>8 DEF AppCommandOf, AppKeyPressed, buffer
  <2>2. new.buf = Duplicate(b)
    BY <1>3, <2>1
  <2> HIDE DEF c, new, b
  <2>3. c.command = "Duplicate"
    BY <2>1
  <2>4. Apply(c, b) = Duplicate(b)
    BY <2>3 DEF Apply
  <2> QED BY <2>2, <2>3, <2>4, FollowsPlain DEF b, c, new
<1> QED BY <1>2, <1>4, <1>5, <1>6, <1>7, <1>8

\* A typed character.
LEMMA CharacterFollows ==
  ASSUME NEW ch
  PROVE  Follows(Insertion(ch), CharacterTyped(editor, ch))
<1> DEFINE c == Insertion(ch) new == CharacterTyped(editor, ch)
<1>1. c.command = "Insert" /\ c.text = <<ch>> /\ c.raw = FALSE
  BY DEF Insertion
<1>2. new.buf = Write(buffer, <<ch>>, FALSE)
  BY DEF CharacterTyped, Settled, buffer
<1> HIDE DEF c, new
<1>3. Apply(c, buffer) = Write(buffer, <<ch>>, FALSE)
  BY <1>1 DEF Apply
<1> QED BY <1>1, <1>2, <1>3, FollowsPlain DEF c, new

\* Replay follows the keys from every valid buffer.
LEMMA EditorIsFollowed ==
  ASSUME editor \in Editors
  PROVE  CommandsFollow
<1> DEFINE key(k, new) == [command |-> CommandOf(k), new |-> new, apart |-> Apart(k, new)]
           app(k, clip) == [command |-> AppCommandOf(k, clip), new |-> AppKeyPressed(editor, k, clip),
                            apart |-> Adrift(buffer)]
           character(ch) == [command |-> Insertion(ch), new |-> CharacterTyped(editor, ch),
                             apart |-> FALSE]
<1> SUFFICES ASSUME NEW i \in Inputs PROVE i.apart \/ Follows(i.command, i.new)
  BY DEF CommandsFollow
<1>1. \/ \E k \in EditKeys : CommandOf(k) # NoCommand /\ i = key(k, KeyPressed(editor, k))
      \/ \E k \in AppKeys, clip \in Clips : i = app(k, clip)
      \/ \E ch \in Characters : i = character(ch)
  BY DEF Inputs
<1>2. CASE \E k \in EditKeys : CommandOf(k) # NoCommand /\ i = key(k, KeyPressed(editor, k))
  <2>1. PICK k \in EditKeys : CommandOf(k) # NoCommand /\ i = key(k, KeyPressed(editor, k))
    BY <1>2
  <2> DEFINE new == KeyPressed(editor, k)
  <2>2. i.command = CommandOf(k) /\ i.new = new /\ i.apart = Apart(k, new)
    <3>1. i = [command |-> CommandOf(k), new |-> new, apart |-> Apart(k, new)]
      BY <2>1
    <3> HIDE DEF new
    <3> QED BY <3>1
  <2>3. Apart(k, new) \/ Follows(CommandOf(k), new)
    BY <2>1, KeyFollows
  <2> HIDE DEF new
  <2> QED BY <2>2, <2>3
<1>3. CASE \E k \in AppKeys, clip \in Clips : i = app(k, clip)
  <2>1. PICK k \in AppKeys, clip \in Clips : i = app(k, clip)
    BY <1>3
  <2>2. i.command = AppCommandOf(k, clip) /\ i.new = AppKeyPressed(editor, k, clip)
        /\ i.apart = Adrift(buffer)
    BY <2>1
  <2>3. Adrift(buffer) \/ Follows(AppCommandOf(k, clip), AppKeyPressed(editor, k, clip))
    BY AppKeyFollows
  <2> QED BY <2>2, <2>3
<1>4. CASE \E ch \in Characters : i = character(ch)
  BY <1>4, CharacterFollows
<1> QED BY <1>1, <1>2, <1>3, <1>4

-----------------------------------------------------------------------------
(***************************************************************************)
(* Cut and paste                                                           *)
(***************************************************************************)
\* A row starts at its own start, which a newline is in front of.
LEMMA LineStartBreaks ==
  ASSUME NEW t \in Documents, NEW y \in Nat, y < Rows(t)
  PROVE  LET s == LineStart(t, y)
         IN s \in 0..Len(t) /\ (s = 0 \/ s \in Breaks(t)) /\ (y > 0 => s # 0)
<1> DEFINE s == LineStart(t, y)
<1>1. s \in 0..Len(t) /\ RowAt(t, s) = y /\ \A o \in 0..Len(t) : RowAt(t, o) = y => s <= o
  BY LineStartIs
<1> HIDE DEF s
<1>0. Len(t) \in Nat
  BY DEF Documents
<1>2. /\ RowStart(t, s) \in 0..s /\ RowAt(t, RowStart(t, s)) = y
      /\ RowStart(t, s) = 0 \/ RowStart(t, s) \in Breaks(t)
  BY <1>1, RowBounds, RowStartIs
<1>3. RowStart(t, s) = s
  <2> DEFINE a == RowStart(t, s)
  <2>1. a \in 0..Len(t) /\ a <= s /\ RowAt(t, a) = y
    BY <1>0, <1>1, <1>2
  <2> HIDE DEF a
  <2>2. s <= a /\ a \in Int /\ s \in Int
    BY <1>1, <2>1
  <2> QED BY <2>1, <2>2 DEF a
<1>4. y > 0 => s # 0
  <2>1. ASSUME s = 0 PROVE y = 0
    <3>1. {i \in Breaks(t) : i <= 0} = {}
      BY <1>0 DEF Breaks
    <3>2. RowAt(t, 0) = 0
      BY <3>1, FS_EmptySet DEF RowAt
    <3> QED BY <1>1, <2>1, <3>2
  <2> QED BY <2>1
<1> QED BY <1>1, <1>2, <1>3, <1>4 DEF s

\* A row that is not the last ends behind its newline.
LEMMA LineRangeEnds ==
  ASSUME NEW t \in Documents, NEW y \in Nat, y < Rows(t) - 1
  PROVE  LET r == LineRange(t, y)
         IN /\ r[1] = LineStart(t, y) /\ r[1] \in Nat /\ r[2] \in Nat /\ r[1] < r[2]
            /\ r[2] <= Len(t) /\ t[r[2]] = NL
<1> DEFINE s == LineStart(t, y) e == LineStart(t, y + 1) p == [x |-> 0, y |-> y + 1]
<1>0. Len(t) \in Nat /\ Rows(t) \in Nat /\ y + 1 \in Nat /\ y + 1 < Rows(t) /\ y < Rows(t)
  <2>1. Len(t) \in Nat
    BY DEF Documents
  <2>2. Rows(t) \in Nat
    BY RowType
  <2> QED BY <2>1, <2>2
<1>1. s \in 0..Len(t) /\ RowAt(t, s) = y /\ e \in 0..Len(t) /\ RowAt(t, e) = y + 1
  BY <1>0, LineStartIs
<1>2. e \in Breaks(t)
  BY <1>0, LineStartBreaks
<1>3. RowEnd(t, e) \in e..Len(t)
  BY <1>1, RowBounds
<1> HIDE DEF s, e
<1>4. OffsetAt(t, p) = e
  <2>1. p.x = 0 /\ p.y = y + 1
    OBVIOUS
  <2> HIDE DEF p
  <2>2. OffsetAt(t, p) = Smaller(LineStart(t, y + 1) + 0, RowEnd(t, LineStart(t, y + 1)))
    BY <1>0, <2>1 DEF OffsetAt, Larger
  <2> QED BY <1>1, <1>3, <2>2 DEF e, Smaller
<1>5. s < e
  <2>1. ASSUME e <= s PROVE FALSE
    <3>1. RowAt(t, e) <= RowAt(t, s)
      BY <1>1, <2>1, RowsRise
    <3> QED BY <1>1, <3>1
  <2> QED BY <1>1, <2>1
<1>6. t[e] = NL
  BY <1>2 DEF Breaks
<1>7. LineRange(t, y) = <<s, e>>
  BY <1>4 DEF LineRange, s, p
<1>8. <<s, e>>[1] = s /\ <<s, e>>[2] = e
  OBVIOUS
<1> QED BY <1>1, <1>5, <1>6, <1>7, <1>8 DEF s

\* What is cut with one caret.
Cutting(b, r, new, out) ==
  /\ r \in Spans /\ Inside(b.text, r) /\ Low(r) < High(r)
  /\ new = [DeleteBetween(b, Low(r), High(r)) EXCEPT !.selection = <<>>]
  /\ out = Covered(b.text, r)
  /\ HasSelection(b) \/ (Low(r) = 0 \/ Low(r) \in Breaks(b.text))

\* With a selection, or in a row that ends with a newline, exactly what is cut goes to the clipboard.
LEMMA CutAloneIs ==
  ASSUME NEW b, Shaped(b), HasSelection(b) \/ RowAt(b.text, b.cursor) < Rows(b.text) - 1
  PROVE  LET cut == Extracted(b, TRUE)
         IN \/ cut.out = <<>> /\ cut.b = b
            \/ \E r : Cutting(b, r, cut.b, cut.out)
<1> DEFINE t == b.text r == LineOrSelection(b) y == RowAt(t, b.cursor) out == Covered(t, r)
           new == [DeleteBetween(b, Low(r), High(r)) EXCEPT !.selection = <<>>]
           cut == Extracted(b, TRUE)
<1>0. t \in Documents /\ Len(t) \in Nat /\ y \in Nat /\ y < Rows(t) /\ Rows(t) \in Nat
  <2>1. t \in Documents /\ b.cursor \in Int /\ Len(t) \in Nat
    BY ShapedType
  <2> QED BY <2>1, RowType
<1>1. CASE HasSelection(b)
  <2>1. r = Primary(b) /\ r \in Spans /\ Inside(t, r)
    BY <1>1, PrimaryType DEF LineOrSelection
  <2> HIDE DEF r, t
  <2>2. CASE ~Wide(r)
    BY <2>2 DEF Extracted, r
  <2>3. CASE Wide(r)
    <3>1. cut.b = new /\ cut.out = out
      BY <1>1, <2>3 DEF Extracted, r, t
    <3>2. Low(r) < High(r)
      BY <2>1, <2>3, SpanType
    <3>3. Cutting(b, r, cut.b, cut.out)
      BY <1>1, <2>1, <3>1, <3>2 DEF Cutting, t
    <3> HIDE DEF cut
    <3>4. \E q : Cutting(b, q, cut.b, cut.out)
      BY <3>3
    <3> QED BY <3>4 DEF cut
  <2> QED BY <2>2, <2>3
<1>2. CASE ~HasSelection(b)
  <2>1. r = LineRange(t, y)
    BY <1>2 DEF LineOrSelection
  <2>2. y < Rows(t) - 1
    BY <1>2
  <2>3. /\ r[1] = LineStart(t, y) /\ r[1] \in Nat /\ r[2] \in Nat /\ r[1] < r[2]
        /\ r[2] <= Len(t) /\ t[r[2]] = NL
    BY <1>0, <2>1, <2>2, LineRangeEnds
  <2>4. r \in Spans
    BY <1>0, <2>1, LineRangeType
  <2>5. r[1] = 0 \/ r[1] \in Breaks(t)
    BY <1>0, <2>3, LineStartBreaks
  <2> HIDE DEF r, t, y
  <2>6. Low(r) = r[1] /\ High(r) = r[2] /\ Wide(r) /\ Inside(t, r)
    BY <1>0, <2>3 DEF Low, High, Smaller, Larger, Wide, Inside
  <2>7. Last(out) = NL
    <3> DEFINE n == High(r) - Low(r)
    <3>1. n \in Nat /\ n > 0 /\ Low(r) \in Nat /\ Low(r) + n = r[2] /\ Low(r) + n <= Len(t)
      BY <1>0, <2>3, <2>6
    <3> HIDE DEF n
    <3>2. /\ Len(Extract(t, Low(r), n)) = n
          /\ \A i \in 1..n : Extract(t, Low(r), n)[i] = t[Low(r) + i]
      BY <1>0, <3>1, ExtractProperties DEF Documents
    <3>3. out = Extract(t, Low(r), n)
      BY DEF Covered, n
    <3>4. out[n] = t[r[2]] /\ Len(out) = n
      BY <3>1, <3>2, <3>3
    <3> HIDE DEF out
    <3> QED BY <2>3, <3>4 DEF Last
  <2>8. cut.b = new /\ cut.out = out
    <3>1. LineOrSelection(b) = r /\ b.text = t
      BY DEF r, t
    <3> QED BY <2>6, <2>7, <3>1 DEF Extracted
  <2>9. Cutting(b, r, cut.b, cut.out)
    BY <2>3, <2>4, <2>5, <2>6, <2>8 DEF Cutting, t
  <2> HIDE DEF cut
  <2>10. \E q : Cutting(b, q, cut.b, cut.out)
    BY <2>9
  <2> QED BY <2>10 DEF cut
<1> QED BY <1>1, <1>2

\* The buffer that is left by a cut with one caret.
LEMMA CutLeaves ==
  ASSUME NEW b, Shaped(b), b.others = <<>>, NEW r, NEW new, NEW out, Cutting(b, r, new, out)
  PROVE  /\ Shaped(new) /\ new.others = <<>> /\ new.selection = <<>> /\ new.cursor = Low(r)
         /\ new.text = Splice(b.text, Low(r), High(r) - Low(r), <<>>)
         /\ HasSelection(b) \/ RowStart(new.text, new.cursor) = new.cursor
<1> DEFINE t == b.text a == Low(r) n == High(r) - Low(r) u == Splice(t, a, n, <<>>)
           was == DeleteBetween(b, Low(r), High(r))
<1>0. /\ t \in Documents /\ Len(t) \in Nat /\ a \in Nat /\ High(r) \in Nat /\ n \in Nat /\ n > 0
      /\ a <= High(r) /\ High(r) <= Len(t) /\ a + n <= Len(t) /\ new = [was EXCEPT !.selection = <<>>]
  <2>1. t \in Documents /\ Len(t) \in Nat /\ r \in Spans /\ Inside(t, r) /\ Low(r) < High(r)
        /\ new = [was EXCEPT !.selection = <<>>]
    BY ShapedType DEF Cutting
  <2>2. Low(r) \in Nat /\ High(r) \in Nat /\ High(r) <= Len(t)
    BY <2>1, SpanType, InsideIs
  <2> QED BY <2>1, <2>2
<1>1. /\ Shaped(was) /\ was.others = <<>> /\ was.text = u /\ was.cursor = a
  BY <1>0, DeleteBetweenIs
<1> HIDE DEF was
<1>2. /\ Shaped(new) /\ new.others = <<>> /\ new.text = u /\ new.cursor = a /\ new.selection = <<>>
  <2>1. was \in Buffers /\ was.cursor <= Len(was.text)
    BY <1>1 DEF Shaped
  <2>2. /\ new \in Buffers /\ new.others = was.others /\ new.text = was.text
        /\ new.cursor = was.cursor /\ new.selection = <<>>
    BY <1>0, <2>1 DEF Buffers, Selections
  <2> QED BY <1>1, <2>1, <2>2 DEF Shaped
<1>3. /\ u \in Documents /\ Len(u) \in Nat /\ a <= Len(u) /\ Begins(u, t, a)
  <2>1. <<>> \in Documents /\ Len(<<>>) = 0
    BY DEF Documents
  <2>2. /\ u \in Documents /\ Len(u) \in Nat /\ a + Len(<<>>) <= Len(u) /\ Begins(u, t, a)
    BY <1>0, <2>1, SpliceBegins
  <2> HIDE DEF u
  <2> QED BY <1>0, <2>1, <2>2
<1> HIDE DEF u
<1>4. HasSelection(b) \/ RowStart(u, a) = a
  <2>1. CASE HasSelection(b)
    BY <2>1
  <2>2. CASE a = 0
    <3>1. RowStart(u, a) \in 0..a
      BY <1>0, <1>3, RowBounds
    <3> QED BY <2>2, <3>1
  <2>3. CASE a # 0 /\ a \in Breaks(t)
    <3>1. a \in 1..Len(u) /\ u[a] = t[a] /\ t[a] = NL
      BY <1>0, <1>3, <2>3 DEF Begins, Breaks
    <3>2. a \in Breaks(u)
      BY <3>1 DEF Breaks
    <3>3. /\ RowStart(u, a) \in 0..a /\ RowEnd(u, a) \in a..Len(u)
          /\ a <= RowStart(u, a) \/ a > RowEnd(u, a)
      BY <1>0, <1>3, <3>2, RowBounds
    <3> QED BY <1>0, <1>3, <3>3
  <2> QED BY <2>1, <2>2, <2>3 DEF Cutting
<1> QED BY <1>2, <1>4 DEF u, a, n, t

\* What is cut with one caret is put back by a paste.
LEMMA AloneIsPasted ==
  ASSUME NEW b, Shaped(b), b.others = <<>>,
         HasSelection(b) \/ RowAt(b.text, b.cursor) < Rows(b.text) - 1
  PROVE  LET cut == CutCopy(b, TRUE) back == Paste(cut.b, cut.clip)
         IN back.full \/ back.text = b.text
<1> DEFINE e == Extracted(b, TRUE) new == e.b out == e.out
           clip == [data |-> out, fragments |-> <<>>, line |-> ~HasSelection(b)]
           back == Paste(new, clip) t == b.text
<1>1. CutCopy(b, TRUE).b = new /\ CutCopy(b, TRUE).clip = clip
  BY DEF CutCopy
<1> HIDE DEF new, out, e
<1>2. ASSUME out = <<>>, new = b PROVE back.full \/ back.text = t
  <2>1. back = b
    BY <1>2 DEF Paste
  <2> QED BY <2>1
<1>3. ASSUME \E r : Cutting(b, r, new, out) PROVE back.full \/ back.text = t
  <2>1. PICK r : Cutting(b, r, new, out)
    BY <1>3
  <2> DEFINE a == Low(r) n == High(r) - Low(r) here == PointAt(new.text, new.cursor)
             at == IF clip.line THEN RowStart(new.text, new.cursor) ELSE new.cursor
             wrote == WriteAt(new, out, at, TRUE)
  <2>0. /\ t \in Documents /\ a \in Nat /\ n \in Nat /\ n > 0 /\ a + n <= Len(t) /\ Len(t) \in Nat
        /\ out = Extract(t, a, n)
    <3>1. t \in Documents /\ Len(t) \in Nat /\ r \in Spans /\ Inside(t, r) /\ Low(r) < High(r)
      BY <2>1, ShapedType DEF Cutting
    <3>2. Low(r) \in Nat /\ High(r) \in Nat /\ High(r) <= Len(t)
      BY <3>1, SpanType, InsideIs
    <3> QED BY <2>1, <3>1, <3>2 DEF Cutting, Covered
  <2>2. /\ Shaped(new) /\ new.others = <<>> /\ new.selection = <<>> /\ new.cursor = a
        /\ new.text = Splice(t, a, n, <<>>)
        /\ HasSelection(b) \/ RowStart(new.text, new.cursor) = new.cursor
    BY <2>1, CutLeaves
  <2>3. out \in Documents /\ Len(out) = n /\ out # <<>>
    <3>1. Extract(t, a, n) \in Seq(Chars) /\ Len(Extract(t, a, n)) = n
      BY <2>0, ExtractProperties DEF Documents
    <3> QED BY <2>0, <3>1 DEF Documents
  <2>4. at = a /\ a \in 0..Len(new.text)
    <3>1. clip.line = ~HasSelection(b)
      OBVIOUS
    <3>2. new.cursor \in 0..Len(new.text)
      BY <2>2, ShapedType
    <3> HIDE DEF clip
    <3> QED BY <2>2, <3>1, <3>2
  <2>5. back = IF clip.line THEN SetCursor(wrote, OffsetAt(wrote.text, [here EXCEPT !.y = @ + 1]))
               ELSE wrote
    <3>1. clip.data = out
      OBVIOUS
    <3> HIDE DEF clip
    <3> QED BY <2>2, <2>3, <3>1 DEF Paste
  <2>6. wrote.full \/ wrote.text = t
    <3>1. WriteStart(new, a) = a /\ WriteGone(new) = 0
      <4>1. Primary(new) = <<a, a>>
        BY <2>2 DEF Primary
      <4> QED BY <2>0, <4>1 DEF WriteStart, WriteGone, Wide, Low, High, Smaller, Larger
    <3>2. WriteAt(new, out, a, TRUE).full
            \/ WriteAt(new, out, a, TRUE).text = Splice(new.text, a, 0, out)
      BY <2>2, <2>3, <2>4, <3>1, WriteAtRaw
    <3>3. Splice(new.text, a, 0, out) = t
      <4>1. Splice(Splice(t, a, n, <<>>), a, Len(<<>>), Extract(t, a, n)) = t
        <5>1. t \in Seq(Chars) /\ <<>> \in Seq(Chars)
          BY <2>0 DEF Documents
        <5> HIDE DEF t, a, n
        <5> QED BY <2>0, <5>1, SpliceInverse
      <4>2. Len(<<>>) = 0
        OBVIOUS
      <4> QED BY <2>0, <2>2, <4>1, <4>2
    <3> QED BY <2>4, <3>2, <3>3, Zenon
  <2>7. Shaped(wrote)
    <3>1. PICK raw : raw = TRUE
      OBVIOUS
    <3>2. out \in Seq(Typeable)
      BY <2>3 DEF Documents, Typeable
    <3>3. Shaped(WriteAt(new, out, at, raw))
      BY <2>2, <2>3, <2>4, <3>2, WriteAtIs
    <3> QED BY <3>1, <3>3
  <2> HIDE DEF wrote, back, clip
  <2>8. ASSUME NEW o PROVE SetCursor(wrote, o).text = wrote.text /\ SetCursor(wrote, o).full = wrote.full
    BY <2>7 DEF SetCursor, Shaped, Buffers
  <2>9. back.text = wrote.text /\ back.full = wrote.full
    BY <2>5, <2>8
  <2>10. back.full \/ back.text = t
    <3>1. wrote.full => back.full
      BY <2>9, Zenon
    <3> QED BY <2>6, <2>9, <3>1, Zenon
  <2> QED BY <2>10 DEF back, clip
<1>4. (out = <<>> /\ new = b) \/ \E r : Cutting(b, r, new, out)
  BY CutAloneIs DEF new, out, e
<1> HIDE DEF back, clip
<1>5. back.full \/ back.text = t
  BY <1>2, <1>3, <1>4
<1> QED BY <1>1, <1>5, Zenon DEF back

\* The numbers a climb, the numbers c do not fall, and every a is a c.
Climbing(a, n) ==
  /\ \A i \in 1..n : a[i] \in Nat
  /\ \A i \in 1..n, j \in 1..n : i < j => a[i] < a[j]
Unfalling(c, m) ==
  /\ \A i \in 1..m : c[i] \in Nat
  /\ \A i \in 1..m, j \in 1..m : i <= j => c[i] <= c[j]
Occurring(a, n, c, m) == \A i \in 1..n : \E k \in 1..m : a[i] = c[k]

\* Then, if there are as many a as there are c, they are the same.
LEMMA InStep ==
  ASSUME NEW n \in Nat, NEW m \in Nat, m <= n, NEW a, NEW c,
         Climbing(a, n), Unfalling(c, m), Occurring(a, n, c, m)
  PROVE  m = n /\ \A i \in 1..n : a[i] = c[i]
<1>0. /\ \A i \in 1..n : a[i] \in Nat
      /\ \A i \in 1..m : c[i] \in Nat
      /\ \A i \in 1..n, j \in 1..n : i < j => a[i] < a[j]
      /\ \A i \in 1..m, j \in 1..m : i <= j => c[i] <= c[j]
      /\ \A i \in 1..n : \E k \in 1..m : a[i] = c[k]
  BY DEF Climbing, Unfalling, Occurring
<1> DEFINE K == [i \in 1..n |-> CHOOSE k \in 1..m : a[i] = c[k]]
<1>1. \A i \in 1..n : K[i] \in 1..m /\ a[i] = c[K[i]]
  BY <1>0
<1> HIDE DEF K
<1>2. \A i \in 1..n, j \in 1..n : i < j => K[i] < K[j]
  <2>1. ASSUME NEW i \in 1..n, NEW j \in 1..n, i < j, ~(K[i] < K[j]) PROVE FALSE
    <3>1. K[j] <= K[i] /\ K[j] \in 1..m /\ K[i] \in 1..m
      BY <1>1, <2>1
    <3>2. c[K[j]] <= c[K[i]]
      BY <1>0, <3>1
    <3>3. a[j] <= a[i] /\ a[i] < a[j] /\ a[i] \in Nat /\ a[j] \in Nat
      BY <1>0, <1>1, <2>1, <3>2
    <3> QED BY <3>3
  <2> QED BY <2>1
<1>3. \A i \in 1..n : i <= K[i]
  <2> DEFINE S == {i \in 0..n : i = 0 \/ i <= K[i]}
  <2>1. 0 \in S
    OBVIOUS
  <2>2. ASSUME NEW i \in 1..n, i - 1 \in S PROVE i \in S
    <3>1. CASE i = 1
      BY <1>1, <3>1
    <3>2. CASE i # 1
      <4>1. i - 1 \in 1..n /\ i - 1 < i /\ i - 1 <= K[i - 1]
        BY <2>2, <3>2
      <4>2. K[i - 1] < K[i] /\ K[i] \in Nat /\ K[i - 1] \in Nat
        BY <1>1, <1>2, <4>1
      <4> QED BY <4>1, <4>2
    <3> QED BY <3>1, <3>2
  <2>3. \A i \in 0..n : i \in S
    <3> HIDE DEF S
    <3> QED BY <2>1, <2>2, Induction
  <2> QED BY <2>3
<1>4. m = n
  <2>1. CASE n = 0
    BY <2>1
  <2>2. CASE n # 0
    BY <1>1, <1>3, <2>2
  <2> QED BY <2>1, <2>2
<1>5. \A i \in 1..n : K[i] <= i
  <2> DEFINE S == {i \in 1..n + 1 : i = n + 1 \/ K[i] <= i}
  <2>1. n + 1 \in S
    OBVIOUS
  <2>2. ASSUME NEW i \in 1..n, i + 1 \in S PROVE i \in S
    <3>1. CASE i = n
      BY <1>1, <1>4, <3>1
    <3>2. CASE i # n
      <4>1. i + 1 \in 1..n /\ i < i + 1 /\ K[i + 1] <= i + 1
        BY <2>2, <3>2
      <4>2. K[i] < K[i + 1] /\ K[i] \in Nat /\ K[i + 1] \in Nat
        BY <1>1, <1>2, <4>1
      <4> QED BY <4>1, <4>2
    <3> QED BY <3>1, <3>2
  <2>3. \A i \in 1..n + 1 : i \in S
    <3> HIDE DEF S
    <3> QED BY <2>1, <2>2, InductionDown
  <2> QED BY <2>3
<1>6. ASSUME NEW i \in 1..n PROVE K[i] = i
  BY <1>1, <1>3, <1>5
<1> QED BY <1>1, <1>4, <1>6

\* A part of a text.
LEMMA PartIs ==
  ASSUME NEW t \in Documents, NEW a \in Nat, NEW b \in Nat, a <= b, b <= Len(t)
  PROVE  /\ Extract(t, a, b - a) \in Documents /\ Len(Extract(t, a, b - a)) = b - a
         /\ \A i \in 1..b - a : Extract(t, a, b - a)[i] = t[a + i]
<1> DEFINE n == b - a
<1>1. n \in Nat /\ a + n <= Len(t)
  BY DEF Documents
<1> HIDE DEF n
<1>2. /\ Extract(t, a, n) \in Documents /\ Len(Extract(t, a, n)) = n
      /\ \A i \in 1..n : Extract(t, a, n)[i] = t[a + i]
  BY <1>1, ExtractProperties DEF Documents
<1> QED BY <1>2 DEF n

\* Adjacent parts of a text, joined.
LEMMA ExtractsJoin ==
  ASSUME NEW t \in Documents, NEW a \in Nat, NEW b \in Nat, NEW c \in Nat, a <= b, b <= c, c <= Len(t)
  PROVE  Extract(t, a, b - a) \o Extract(t, b, c - b) = Extract(t, a, c - a)
<1> DEFINE x == Extract(t, a, b - a) y == Extract(t, b, c - b) z == Extract(t, a, c - a)
<1>1. /\ x \in Documents /\ Len(x) = b - a /\ \A i \in 1..b - a : x[i] = t[a + i]
      /\ y \in Documents /\ Len(y) = c - b /\ \A i \in 1..c - b : y[i] = t[b + i]
      /\ z \in Documents /\ Len(z) = c - a /\ \A i \in 1..c - a : z[i] = t[a + i]
  <2>1. a <= c /\ b <= Len(t)
    BY DEF Documents
  <2> QED BY <2>1, PartIs
<1> HIDE DEF x, y, z
<1> DEFINE w == x \o y
<1>2. /\ w \in Documents /\ Len(w) = Len(x) + Len(y)
      /\ \A i \in 1..Len(x) + Len(y) : w[i] = IF i <= Len(x) THEN x[i] ELSE y[i - Len(x)]
  BY <1>1, JoinedAt
<1> HIDE DEF w
<1>3. Len(w) = c - a
  BY <1>1, <1>2
<1>4. ASSUME NEW i \in 1..c - a PROVE w[i] = z[i]
  <2>1. CASE i <= b - a
    BY <1>1, <1>2, <2>1
  <2>2. CASE ~(i <= b - a)
    <3>1. i - (b - a) \in 1..c - b /\ b + (i - (b - a)) = a + i
      BY <2>2
    <3>2. w[i] = y[i - (b - a)]
      BY <1>1, <1>2, <2>2
    <3> QED BY <1>1, <3>1, <3>2
  <2> QED BY <2>1, <2>2
<1>5. w = z
  <2>1. w \in Documents /\ z \in Documents /\ Len(w) = c - a /\ Len(z) = c - a
    BY <1>1, <1>2, <1>3
  <2> QED BY <1>4, <2>1 DEF Documents
<1> QED BY <1>5 DEF w, x, y, z

\* What a text that begins with u \o v has behind u.
LEMMA BehindIs ==
  ASSUME NEW u \in Documents, NEW v \in Documents, NEW w \in Documents, Begins(w, u \o v, Len(u) + Len(v))
  PROVE  Extract(w, Len(u), Len(v)) = v
<1> DEFINE a == Len(u) k == Len(v) x == Extract(w, a, k) uv == u \o v
<1>1. a \in Nat /\ k \in Nat /\ a + k <= Len(w)
  BY DEF Begins, Documents
<1>2. /\ uv \in Documents /\ Len(uv) = a + k
      /\ \A i \in 1..a + k : uv[i] = IF i <= a THEN u[i] ELSE v[i - a]
  BY JoinedAt
<1>3. \A i \in 1..a + k : w[i] = uv[i]
  BY DEF Begins
<1> HIDE DEF uv, a, k, x
<1>4. x \in Documents /\ Len(x) = k /\ \A i \in 1..k : x[i] = w[a + i]
  BY <1>1, ExtractProperties DEF x, Documents
<1>5. ASSUME NEW i \in 1..k PROVE x[i] = v[i]
  <2>1. a + i \in 1..a + k /\ ~(a + i <= a) /\ (a + i) - a = i
    BY <1>1
  <2> QED BY <1>2, <1>3, <1>4, <2>1
<1>6. x = v
  BY <1>4, <1>5 DEF k, Documents
<1> QED BY <1>6 DEF x, a, k

\* Joining nothing changes nothing.
LEMMA NothingAdded ==
  ASSUME NEW u \in Documents
  PROVE  u \o <<>> = u
BY DEF Documents

\* A step of the sum in which nothing takes the place of a range.
LEMMA RemovedIs ==
  ASSUME NEW t \in Documents, NEW rs, Spread(t, rs), NEW texts, \A i \in 1..Len(rs) : texts[i] = <<>>,
         NEW f, Adding(f, t, rs, texts), NEW i \in 1..Len(rs)
  PROVE  LET gap == Extract(t, From(rs, i - 1), Low(rs[i]) - From(rs, i - 1))
         IN /\ f[i - 1].text \in Documents /\ gap \in Documents
            /\ f[i].text = f[i - 1].text \o gap
<1> DEFINE s == f[i - 1] r == rs[i] x == Extract(t, s.from, Low(r) - s.from)
<1>0. /\ s \in Sums /\ s.from = From(rs, i - 1) /\ f[i] = Added(t, s, r, <<>>)
      /\ r \in Spans /\ Inside(t, r) /\ Low(r) \in Nat /\ Low(r) <= Len(t)
      /\ s.from \in Nat /\ s.from <= Low(r) /\ s.text \in Documents
  <2>1. Len(rs) \in Nat /\ r \in Spans /\ Inside(t, r) /\ Low(r) <= High(r) /\ High(r) <= Len(t)
        /\ Low(r) \in Nat /\ High(r) \in Nat /\ Len(t) \in Nat
    BY SpreadRanges
  <2>2. i - 1 \in 0..Len(rs)
    BY <2>1
  <2>3. s \in Sums /\ s.from = From(rs, i - 1) /\ f[i] = Added(t, s, r, <<>>)
    BY <2>2 DEF Adding
  <2>4. From(rs, i - 1) \in Nat /\ From(rs, i - 1) <= Low(r)
    BY FromIs
  <2> HIDE DEF s, r
  <2> QED BY <2>1, <2>3, <2>4 DEF Sums
<1> HIDE DEF s, r
<1>1. x \in Documents
  BY <1>0, PartIs
<1>2. f[i].text = (s.text \o x) \o <<>>
  <2>1. <<>> \in Documents
    BY DEF Documents
  <2>2. Grows(t, s, r, <<>>, f[i])
    BY <1>0, <2>1, AddedIs
  <2> QED BY <2>2 DEF Grows
<1>3. f[i].text = s.text \o x
  <2> HIDE DEF x
  <2>1. s.text \o x \in Documents
    BY <1>0, <1>1, JoinedAt
  <2> QED BY <1>2, <2>1, NothingAdded
<1> QED BY <1>0, <1>1, <1>3 DEF s, r

\* What is left when all ranges are removed: between the places they leave, the gaps between them.
Gapped(u, t, rs, f) ==
  /\ u \in Documents
  /\ \A i \in 0..Len(rs) : f[i].text \in Documents /\ Len(f[i].text) \in Nat /\ Len(f[i].text) <= Len(u)
  /\ \A i \in 1..Len(rs) :
       /\ Len(f[i - 1].text) <= Len(f[i].text)
       /\ Extract(u, Len(f[i - 1].text), Len(f[i].text) - Len(f[i - 1].text))
            = Extract(t, From(rs, i - 1), Low(rs[i]) - From(rs, i - 1))
  /\ Extract(u, Len(f[Len(rs)].text), Len(u) - Len(f[Len(rs)].text))
       = Extract(t, From(rs, Len(rs)), Len(t) - From(rs, Len(rs)))

\* A text that begins with one that begins with u \o v.
LEMMA BeginsLonger ==
  ASSUME NEW u \in Documents, NEW v \in Documents, NEW w \in Documents, Begins(w, u \o v, Len(u \o v))
  PROVE  /\ Len(u \o v) = Len(u) + Len(v) /\ Len(u) + Len(v) <= Len(w) /\ Begins(w, u, Len(u))
         /\ Extract(w, Len(u), Len(v)) = v
<1> DEFINE uv == u \o v
<1>1. /\ uv \in Documents /\ Len(uv) = Len(u) + Len(v) /\ Len(u) \in Nat /\ Len(v) \in Nat
      /\ Len(w) \in Nat
      /\ \A i \in 1..Len(u) + Len(v) : uv[i] = IF i <= Len(u) THEN u[i] ELSE v[i - Len(u)]
  BY JoinedAt DEF Documents
<1>2. Begins(w, uv, Len(u) + Len(v))
  BY <1>1
<1>3. Extract(w, Len(u), Len(v)) = v
  BY <1>2, BehindIs
<1> HIDE DEF uv
<1>4. Begins(w, u, Len(u)) /\ Len(u) + Len(v) <= Len(w)
  BY <1>1, <1>2 DEF Begins
<1> QED BY <1>1, <1>3, <1>4 DEF uv

\* So it is after the sum in which nothing takes the place of any range.
LEMMA GappedIs ==
  ASSUME NEW t \in Documents, NEW rs, Spread(t, rs), NEW texts, \A i \in 1..Len(rs) : texts[i] = <<>>,
         NEW f, Adding(f, t, rs, texts)
  PROVE  Gapped(Closed(t, f[Len(rs)]).text, t, rs, f)
<1> DEFINE n == Len(rs) e == From(rs, n) last == Extract(t, e, Len(t) - e) u == f[n].text \o last
<1>0. n \in Nat /\ Len(t) \in Nat /\ e \in Nat /\ e <= Len(t) /\ f[n] \in Sums /\ f[n].from = e
  <2>1. n \in Nat /\ Len(t) \in Nat /\ \A i \in 1..n : High(rs[i]) \in Nat /\ High(rs[i]) <= Len(t)
    BY SpreadRanges
  <2>2. f[n] \in Sums /\ f[n].from = e
    BY <2>1 DEF Adding
  <2>3. e \in Nat /\ e <= Len(t)
    <3>1. n = 0 \/ n \in 1..n
      BY <2>1
    <3> HIDE DEF n
    <3> QED BY <2>1, <3>1 DEF From
  <2> HIDE DEF n, e
  <2> QED BY <2>1, <2>2, <2>3
<1>1. \A i \in 0..n : f[i].text \in Documents /\ Len(f[i].text) \in Nat
  BY DEF Adding, Sums, Documents
<1>2. last \in Documents /\ u = Closed(t, f[n]).text
  <2>1. last \in Documents
    BY <1>0, PartIs
  <2> QED BY <1>0, <2>1 DEF Closed
<1> HIDE DEF last
<1>3. f[n].text \in Documents
  BY <1>0, <1>1
<1>4. u \in Documents /\ Begins(u, u, Len(u))
  <2>1. u \in Documents
    BY <1>2, <1>3, JoinedAt
  <2> HIDE DEF u
  <2> QED BY <2>1 DEF Begins, Documents
<1>5. /\ Begins(u, f[n].text, Len(f[n].text)) /\ Extract(u, Len(f[n].text), Len(last)) = last
      /\ Len(u) = Len(f[n].text) + Len(last)
  BY <1>2, <1>3, <1>4, BeginsLonger
<1>6. Len(last) = Len(u) - Len(f[n].text)
  <2>1. Len(last) \in Nat /\ Len(f[n].text) \in Nat
    BY <1>2, <1>3 DEF Documents
  <2> HIDE DEF u
  <2> QED BY <1>5, <2>1
<1> HIDE DEF u
<1> DEFINE gap(i) == Extract(t, From(rs, i - 1), Low(rs[i]) - From(rs, i - 1))
<1>7. \A i \in 1..n : /\ f[i - 1].text \in Documents /\ gap(i) \in Documents
                      /\ f[i].text = f[i - 1].text \o gap(i)
  BY RemovedIs
<1> HIDE DEF gap
<1> DEFINE S == {i \in 1..n + 1 : Begins(u, f[i - 1].text, Len(f[i - 1].text))}
<1>8. n + 1 \in S
  <2>1. (n + 1) - 1 = n
    BY <1>0
  <2> HIDE DEF n
  <2> QED BY <1>0, <1>5, <2>1
<1>9. ASSUME NEW i \in 1..n, i + 1 \in S PROVE i \in S
  <2>1. (i + 1) - 1 = i /\ i \in 1..n + 1
    BY <1>0
  <2>2. Begins(u, f[i].text, Len(f[i].text))
    BY <1>9, <2>1
  <2>3. Begins(u, f[i - 1].text, Len(f[i - 1].text))
    <3> DEFINE v == f[i - 1].text g == gap(i)
    <3>1. v \in Documents /\ g \in Documents /\ f[i].text = v \o g
      BY <1>7
    <3> HIDE DEF v, g
    <3>2. Begins(u, v, Len(v))
      BY <1>4, <2>2, <3>1, BeginsLonger
    <3> QED BY <3>2 DEF v
  <2> QED BY <2>1, <2>3
<1>10. \A i \in 1..n + 1 : i \in S
  <2> HIDE DEF S, n
  <2> QED BY <1>0, <1>8, <1>9, InductionDown
<1>11. \A i \in 0..n : Begins(u, f[i].text, Len(f[i].text))
  <2> TAKE i \in 0..n
  <2>1. i + 1 \in 1..n + 1 /\ (i + 1) - 1 = i
    BY <1>0
  <2>2. i + 1 \in S
    BY <1>10, <2>1
  <2> QED BY <2>1, <2>2
<1> HIDE DEF S
<1>12. \A i \in 0..n : Len(f[i].text) <= Len(u)
  BY <1>11 DEF Begins
<1>13. ASSUME NEW i \in 1..n
       PROVE  /\ Len(f[i - 1].text) <= Len(f[i].text)
              /\ Extract(u, Len(f[i - 1].text), Len(f[i].text) - Len(f[i - 1].text)) = gap(i)
  <2> DEFINE v == f[i - 1].text g == gap(i)
  <2>1. v \in Documents /\ g \in Documents /\ f[i].text = v \o g /\ i \in 0..n
    BY <1>0, <1>7
  <2> HIDE DEF v, g
  <2>2. Begins(u, v \o g, Len(v \o g))
    BY <1>11, <2>1
  <2>3. Len(v \o g) = Len(v) + Len(g) /\ Extract(u, Len(v), Len(g)) = g
    BY <1>4, <2>1, <2>2, BeginsLonger
  <2>4. Len(v) \in Nat /\ Len(g) \in Nat
    BY <2>1 DEF Documents
  <2>5. Len(f[i].text) = Len(v) + Len(g) /\ Len(f[i].text) - Len(v) = Len(g) /\ Len(v) <= Len(f[i].text)
    BY <2>1, <2>3, <2>4
  <2> QED BY <2>3, <2>5 DEF v, g
<1>14. Gapped(u, t, rs, f)
  BY <1>1, <1>4, <1>5, <1>6, <1>12, <1>13 DEF Gapped, gap, last
<1> HIDE DEF n
<1> QED BY <1>2, <1>14 DEF n

\* Where the sum over the places has come to.
LEMMA FromPlaces ==
  ASSUME NEW n \in Nat, NEW qs, Len(qs) = n, NEW C,
         \A i \in 0..n : C[i] \in Nat, C[0] = 0,
         \A i \in 1..n : qs[i] = <<C[i], C[i]>>
  PROVE  /\ \A i \in 0..n : From(qs, i) = C[i]
         /\ \A i \in 1..n : Low(qs[i]) = C[i]
<1>1. ASSUME NEW i \in 1..n PROVE Low(qs[i]) = C[i] /\ High(qs[i]) = C[i]
  <2>1. qs[i] = <<C[i], C[i]>>
    OBVIOUS
  <2> QED BY <2>1 DEF Low, High, Smaller, Larger
<1>2. ASSUME NEW i \in 0..n PROVE From(qs, i) = C[i]
  <2>1. CASE i = 0
    BY <2>1 DEF From
  <2>2. CASE i # 0
    <3>1. i \in 1..n
      BY <2>2
    <3> QED BY <3>1, <2>2, <1>1 DEF From
  <2> QED BY <2>1, <2>2
<1> QED BY <1>1, <1>2

\* Putting every removed range back at the place it left gives the text again.
LEMMA SumRestores ==
  ASSUME NEW t \in Documents, NEW rs, Spread(t, rs), NEW f, f[0].text = <<>>,
         NEW u, Gapped(u, t, rs, f),
         NEW qs, Spread(u, qs), Len(qs) = Len(rs),
         \A i \in 1..Len(rs) : qs[i] = <<Len(f[i].text), Len(f[i].text)>>,
         NEW pieces, \A i \in 1..Len(rs) : pieces[i] = Covered(t, rs[i])
  PROVE  SumOf(u, qs, pieces).text = t
<1> DEFINE n == Len(rs) C == [i \in 0..n |-> Len(f[i].text)]
<1>0. /\ n \in Nat /\ Len(t) \in Nat
      /\ \A i \in 1..n : /\ rs[i] \in Spans /\ Inside(t, rs[i]) /\ Low(rs[i]) \in Nat
                         /\ High(rs[i]) \in Nat /\ High(rs[i]) <= Len(t) /\ Low(rs[i]) <= High(rs[i])
      /\ \A i \in 1..n : From(rs, i - 1) \in Nat /\ From(rs, i - 1) <= Low(rs[i]) /\ From(rs, i) = High(rs[i])
  <2>1. /\ n \in Nat /\ Len(t) \in Nat
        /\ \A i \in 1..n : /\ rs[i] \in Spans /\ Inside(t, rs[i]) /\ Low(rs[i]) \in Nat
                           /\ High(rs[i]) \in Nat /\ High(rs[i]) <= Len(t) /\ Low(rs[i]) <= High(rs[i])
    BY SpreadRanges
  <2>2. \A i \in 1..n : From(rs, i - 1) \in Nat /\ From(rs, i - 1) <= Low(rs[i])
    BY FromIs
  <2>3. ASSUME NEW i \in 1..n PROVE From(rs, i) = High(rs[i])
    BY <2>1 DEF From
  <2> QED BY <2>1, <2>2, <2>3
<1>1. /\ u \in Documents /\ Len(u) \in Nat
      /\ \A i \in 0..n : C[i] \in Nat /\ C[i] <= Len(u)
      /\ C[0] = 0 /\ \A i \in 1..n : qs[i] = <<C[i], C[i]>>
  <2>1. u \in Documents /\ \A i \in 0..n : Len(f[i].text) \in Nat /\ Len(f[i].text) <= Len(u)
    BY DEF Gapped
  <2>2. 0 \in 0..n /\ Len(<<>>) = 0
    BY <1>0
  <2> QED BY <2>1, <2>2 DEF Documents
<1>2. /\ \A i \in 1..n : C[i - 1] <= C[i]
                         /\ Extract(u, C[i - 1], C[i] - C[i - 1]) = Extract(t, From(rs, i - 1), Low(rs[i]) - From(rs, i - 1))
      /\ Extract(u, C[n], Len(u) - C[n]) = Extract(t, From(rs, n), Len(t) - From(rs, n))
  <2>1. n \in 0..n /\ \A i \in 1..n : i \in 0..n /\ i - 1 \in 0..n
    BY <1>0
  <2>2. C[n] = Len(f[n].text) /\ \A i \in 1..n : C[i] = Len(f[i].text) /\ C[i - 1] = Len(f[i - 1].text)
    BY <2>1
  <2> HIDE DEF C
  <2> QED BY <2>2 DEF Gapped
<1> HIDE DEF C
<1>3. /\ \A i \in 0..n : From(qs, i) = C[i]
      /\ \A i \in 1..n : Low(qs[i]) = C[i]
  <2>1. /\ Len(qs) = n /\ n \in Nat /\ \A i \in 0..n : C[i] \in Nat
        /\ C[0] = 0 /\ \A i \in 1..n : qs[i] = <<C[i], C[i]>>
    BY <1>0, <1>1
  <2> HIDE DEF n
  <2> QED BY <2>1, FromPlaces
<1>4. \A i \in 1..n : pieces[i] \in Documents /\ pieces[i] = Extract(t, Low(rs[i]), High(rs[i]) - Low(rs[i]))
  BY <1>0, PartIs DEF Covered
<1>5. PICK h : Adding(h, u, qs, pieces) /\ SumOf(u, qs, pieces) = Closed(u, h[n])
  BY <1>1, <1>4, SumOfIs
<1> DEFINE S == {i \in 0..n : h[i].text = Extract(t, 0, From(rs, i))}
<1>6. 0 \in S
  <2>1. h[0].text = <<>>
    BY <1>5 DEF Adding, Nothing
  <2>2. From(rs, 0) = 0
    BY DEF From
  <2>3. Extract(t, 0, 0) = <<>>
    BY DEF Extract, Documents
    <2> QED BY <1>0, <2>1, <2>2, <2>3
<1>7. ASSUME NEW i \in 1..n, i - 1 \in S PROVE i \in S
  <2> DEFINE s == h[i - 1] q == qs[i] r == rs[i] x == Extract(u, s.from, Low(q) - s.from) ins == pieces[i]
  <2>1. /\ s \in Sums /\ s.from = C[i - 1] /\ h[i] = Added(u, s, q, ins) /\ Low(q) = C[i]
        /\ s.text = Extract(t, 0, From(rs, i - 1))
    <3>1. i - 1 \in 0..n
      BY <1>0
    <3>2. h[i - 1] \in Sums /\ h[i - 1].from = From(qs, i - 1) /\ h[i] = Added(u, h[i - 1], qs[i], pieces[i])
      BY <1>5, <3>1 DEF Adding
    <3>3. h[i - 1].text = Extract(t, 0, From(rs, i - 1))
      BY <1>7
    <3> QED BY <1>3, <3>1, <3>2, <3>3
  <2>2. q \in Spans /\ Inside(u, q)
    BY <1>1, SpreadRanges
  <2>3. s.from <= Low(q)
    BY <1>2, <2>1
  <2>4. ins \in Documents /\ ins = Extract(t, Low(r), High(r) - Low(r))
    BY <1>4
  <2> HIDE DEF s, q, ins
  <2>5. h[i].text = (s.text \o x) \o ins
    <3>1. Grows(u, s, q, ins, h[i])
      BY <1>1, <2>1, <2>2, <2>3, <2>4, AddedIs
    <3> QED BY <3>1 DEF Grows
  <2>6. x = Extract(t, From(rs, i - 1), Low(r) - From(rs, i - 1))
    BY <1>2, <2>1
  <2> DEFINE al == From(rs, i - 1) l == Low(r) g == High(r)
  <2>7. /\ al \in Nat /\ l \in Nat /\ g \in Nat /\ al <= l /\ l <= g /\ g <= Len(t) /\ From(rs, i) = g
    BY <1>0
  <2> HIDE DEF al, l, g, x
  <2>8. Extract(t, 0, al) \o Extract(t, al, l - al) = Extract(t, 0, l)
    <3>1. Extract(t, 0, al - 0) \o Extract(t, al, l - al) = Extract(t, 0, l - 0)
      <4>1. 0 \in Nat /\ 0 <= al /\ l <= Len(t)
        BY <1>0, <2>7
      <4> QED BY <2>7, <4>1, ExtractsJoin
    <3>2. al - 0 = al /\ l - 0 = l
      BY <2>7
    <3> QED BY <3>1, <3>2
  <2>9. Extract(t, 0, l) \o Extract(t, l, g - l) = Extract(t, 0, g)
    <3>1. Extract(t, 0, l - 0) \o Extract(t, l, g - l) = Extract(t, 0, g - 0)
      <4>1. 0 \in Nat /\ 0 <= l
        BY <1>0, <2>7
      <4> QED BY <2>7, <4>1, ExtractsJoin
    <3>2. g - 0 = g /\ l - 0 = l
      BY <2>7
    <3> QED BY <3>1, <3>2
  <2>10. s.text = Extract(t, 0, al) /\ x = Extract(t, al, l - al) /\ ins = Extract(t, l, g - l)
    BY <2>1, <2>4, <2>6 DEF al, l, g
  <2>11. h[i].text = Extract(t, 0, From(rs, i))
    BY <2>5, <2>7, <2>8, <2>9, <2>10
  <2>12. i \in 0..n
    BY <1>0
  <2> QED BY <2>11, <2>12
<1>8. \A i \in 0..n : i \in S
  <2> HIDE DEF S, n
  <2> QED BY <1>0, <1>6, <1>7, Induction
<1>9. h[n].text = Extract(t, 0, From(rs, n)) /\ h[n].from = C[n] /\ n \in 0..n
  <2>1. n \in 0..n
    BY <1>0
  <2>2. h[n].from = From(qs, n)
    BY <1>5, <2>1 DEF Adding
  <2>3. n \in S
    BY <1>8, <2>1
  <2> QED BY <1>3, <2>1, <2>2, <2>3
<1> HIDE DEF S
<1>10. From(rs, n) \in Nat /\ From(rs, n) <= Len(t)
  <2>1. CASE n = 0
    BY <1>0, <2>1 DEF From
  <2>2. CASE n # 0
    <3>1. n \in 1..n
      BY <1>0, <2>2
    <3>2. From(rs, n) = High(rs[n]) /\ High(rs[n]) \in Nat /\ High(rs[n]) <= Len(t)
      BY <1>0, <3>1
    <3> QED BY <3>2
  <2> QED BY <2>1, <2>2
<1> DEFINE z == From(rs, n)
<1>11. SumOf(u, qs, pieces).text = Extract(t, 0, z) \o Extract(t, z, Len(t) - z)
  <2> DEFINE v == h[n]
  <2>1. /\ SumOf(u, qs, pieces) = Closed(u, v) /\ v.text = Extract(t, 0, z) /\ v.from = C[n]
        /\ Extract(u, C[n], Len(u) - C[n]) = Extract(t, z, Len(t) - z)
    BY <1>2, <1>5, <1>9
  <2> HIDE DEF v, z
  <2>2. Closed(u, v).text = v.text \o Extract(u, v.from, Len(u) - v.from)
    BY DEF Closed
  <2> QED BY <2>1, <2>2
<1>12. Extract(t, 0, z) \o Extract(t, z, Len(t) - z) = Extract(t, 0, Len(t))
    <2>1. z \in Nat /\ z <= Len(t) /\ 0 \in Nat /\ 0 <= z /\ Len(t) <= Len(t)
    BY <1>0, <1>10
  <2> HIDE DEF z
  <2>2. Extract(t, 0, z - 0) \o Extract(t, z, Len(t) - z) = Extract(t, 0, Len(t) - 0)
    BY <1>0, <2>1, ExtractsJoin
  <2>3. z - 0 = z /\ Len(t) - 0 = Len(t)
    BY <1>0, <2>1
  <2> QED BY <2>2, <2>3
<1>13. Extract(t, 0, Len(t)) = t
  BY <1>0 DEF Extract, Documents
<1> HIDE DEF z
<1> QED BY <1>11, <1>12, <1>13

\* What never falls from one number to the next never falls.
LEMMA NeverFalls ==
  ASSUME NEW n \in Nat, NEW c, \A i \in 1..n : c[i] \in Nat,
         \A i \in 2..n : c[i - 1] <= c[i]
  PROVE  \A i \in 1..n, j \in 1..n : i <= j => c[i] <= c[j]
<1> DEFINE S == {j \in 0..n : \A i \in 1..j : c[i] <= c[j]}
<1>1. 0 \in S
  OBVIOUS
<1>2. ASSUME NEW j \in 1..n, j - 1 \in S PROVE j \in S
  <2>1. ASSUME NEW i \in 1..j PROVE c[i] <= c[j]
    <3>1. CASE i = j
      BY <3>1
    <3>2. CASE i # j
      <4>1. i \in 1..j - 1 /\ j \in 2..n /\ i \in 1..n /\ j - 1 \in 1..n
        BY <3>2
      <4>2. c[i] <= c[j - 1] /\ c[j - 1] <= c[j]
        BY <1>2, <4>1
      <4> QED BY <4>1, <4>2
    <3> QED BY <3>1, <3>2
  <2> QED BY <2>1
<1>3. \A j \in 0..n : j \in S
  <2> HIDE DEF S
  <2> QED BY <1>1, <1>2, Induction
<1> QED BY <1>3

\* Pieces, a newline between each two, are not nothing.
LEMMA JoinedPiecesHold ==
  ASSUME NEW pieces, Len(pieces) \in Nat, Len(pieces) > 1,
         \A i \in 1..Len(pieces) : pieces[i] \in Documents
  PROVE  JoinedPieces(pieces) # <<>>
<1> DEFINE n == Len(pieces) add(s, i) == s \o <<NL>> \o pieces[i]
           P == Documents \X (0..n - 1)
           F == [p \in Documents \X (1..n - 1) |-> add(p[1], p[2] + 1)]
<1>0. n \in Nat /\ n - 1 \in Nat /\ n - 1 \in 1..n /\ n \in 1..n /\ n # 1 /\ 1 \in 1..n
  OBVIOUS
<1>1. ASSUME NEW i \in 1..n, NEW s \in Documents PROVE add(s, i) \in Documents /\ add(s, i) # <<>>
  <2>1. <<NL>> \in Documents /\ Len(<<NL>>) = 1
    BY DEF Documents, Chars
  <2> DEFINE nl == <<NL>> sn == s \o nl
  <2>2. sn \in Documents /\ Len(sn) = Len(s) + Len(nl) /\ Len(s) \in Nat
    BY <2>1, Joining
  <2>3. Len(sn) > 0 /\ Len(nl) = 1
    BY <2>1, <2>2
  <2> HIDE DEF sn, nl
  <2>4. sn \o pieces[i] \in Documents /\ Len(sn \o pieces[i]) = Len(sn) + Len(pieces[i])
        /\ Len(pieces[i]) \in Nat /\ Len(sn) \in Nat
    BY <1>1, <2>2, Joining
  <2>5. Len(sn \o pieces[i]) # 0
    BY <2>3, <2>4
  <2>6. sn \o pieces[i] # <<>>
    BY <2>5
  <2> QED BY <2>4, <2>6 DEF sn, nl
<1> HIDE DEF add
<1>2. \E g : g = [i \in 1..n |-> IF i = 1 THEN pieces[1] ELSE add(g[i - 1], i)]
  <2>1. ASSUME NEW i \in 1..n - 1, NEW s, <<s, i - 1>> \in P PROVE <<F[<<s, i>>], i>> \in P
    <3>1. s \in Documents /\ i + 1 \in 1..n /\ i \in 0..n - 1
      BY <1>0, <2>1
    <3>2. F[<<s, i>>] = add(s, i + 1)
      BY <3>1
    <3> QED BY <1>1, <3>1, <3>2
  <2>2. <<pieces[1], 0>> \in P
    BY <1>0
  <2>3. P \subseteq Documents \X (0..n - 1)
    OBVIOUS
  <2>4. PICK h : Recursive(h, n - 1, Documents, P, pieces[1], F)
    <3> HIDE DEF P, F, n
    <3>1. \A i \in 1..n - 1 : \A s : <<s, i - 1>> \in P => <<F[<<s, i>>], i>> \in P
      BY <2>1
    <3> QED BY <1>0, <2>2, <2>3, <3>1, Recursion
  <2> DEFINE g == [i \in 1..n |-> h[i - 1]]
  <2>5. ASSUME NEW i \in 1..n PROVE g[i] = IF i = 1 THEN pieces[1] ELSE add(g[i - 1], i)
    <3>1. CASE i = 1
      BY <2>4, <3>1 DEF Recursive
    <3>2. CASE i # 1
      <4>1. i - 1 \in 1..n - 1 /\ i - 1 \in 1..n /\ (i - 1) + 1 = i /\ (i - 1) - 1 \in 0..n - 1
        BY <1>0, <3>2
      <4>2. h[i - 1] = F[<<h[(i - 1) - 1], i - 1>>] /\ h[(i - 1) - 1] \in Documents
        BY <2>4, <4>1 DEF Recursive
      <4>3. h[i - 1] = add(h[(i - 1) - 1], i)
        BY <4>1, <4>2
      <4> QED BY <3>2, <4>1, <4>3
    <3> QED BY <3>1, <3>2
  <2>6. g = [i \in 1..n |-> IF i = 1 THEN pieces[1] ELSE add(g[i - 1], i)]
    BY <2>5
  <2> HIDE DEF g
  <2> QED BY <2>6
<1>3. \E g : /\ g = [i \in 1..n |-> IF i = 1 THEN pieces[1] ELSE add(g[i - 1], i)]
             /\ JoinedPieces(pieces) = g[n]
  BY <1>2 DEF JoinedPieces, add
<1>4. PICK g : /\ g = [i \in 1..n |-> IF i = 1 THEN pieces[1] ELSE add(g[i - 1], i)]
               /\ JoinedPieces(pieces) = g[n]
  BY <1>3
<1>5. g[1] = pieces[1] /\ \A i \in 2..n : g[i] = add(g[i - 1], i)
  <2>1. \A i \in 1..n : g[i] = IF i = 1 THEN pieces[1] ELSE add(g[i - 1], i)
    BY <1>4
  <2>2. \A i \in 2..n : i \in 1..n /\ i # 1
    BY <1>0
  <2> HIDE DEF n
  <2> QED BY <1>0, <2>1, <2>2
<1> DEFINE S == {i \in 0..n : i = 0 \/ g[i] \in Documents}
<1>6. 0 \in S
  BY <1>0
<1>7. ASSUME NEW i \in 1..n, i - 1 \in S PROVE i \in S
  <2>1. CASE i = 1
    BY <1>0, <1>5, <2>1
  <2>2. CASE i # 1
    <3>1. i \in 2..n /\ i - 1 # 0 /\ i \in 0..n
      BY <1>0, <2>2
    <3>2. g[i] = add(g[i - 1], i) /\ g[i - 1] \in Documents
      BY <1>5, <1>7, <3>1
    <3> QED BY <1>1, <3>1, <3>2
  <2> QED BY <2>1, <2>2
<1>8. \A i \in 0..n : i \in S
  <2> HIDE DEF S, n
  <2> QED BY <1>0, <1>6, <1>7, Induction
<1>9. g[n - 1] \in Documents /\ g[n] = add(g[n - 1], n)
  <2>1. n - 1 \in 0..n /\ n - 1 # 0 /\ n \in 2..n
    BY <1>0
  <2> HIDE DEF n
  <2> QED BY <1>5, <1>8, <2>1
<1> QED BY <1>0, <1>1, <1>4, <1>9

\* The fragments are what the selections cover, no more than there were carets.
LEMMA FragmentsIs ==
  ASSUME NEW b, Valid(b)
  PROVE  LET w == Fragments(b).b pieces == Fragments(b).pieces
         IN /\ Valid(w) /\ w.text = b.text /\ Len(Ranges(w)) <= Len(Ranges(b))
            /\ Len(pieces) = Len(Ranges(w))
            /\ \A i \in 1..Len(Ranges(w)) : pieces[i] = Covered(b.text, Ranges(w)[i])
<1> DEFINE t == b.text rs == Ranges(b)
           line(o) == <<RowStart(t, o), NextLineStart(t, o)>>
           to == [i \in 1..Len(rs) |-> line(rs[i][1])]
           wide == SetRanges(b, to) w == Fragments(b).b
<1>1. Fragments(b).b = b \/ Fragments(b).b = wide
  BY DEF Fragments
<1>2. Fragments(b).pieces = [i \in 1..Len(Ranges(w)) |-> Covered(b.text, Ranges(w)[i])]
  BY DEF Fragments
<1>3. Valid(w)
  BY FragmentsValid
<1>4. Len(Ranges(w)) \in Nat
  <2> HIDE DEF w
  <2>1. Ranges(w) \in Seq(Spans)
    BY <1>3, RangesIs
  <2> QED BY <2>1
<1>5. wide.text = t /\ Len(Ranges(wide)) <= Len(rs)
  <2>1. Shaped(b) /\ t \in Documents /\ Len(t) \in Nat
    BY ShapedType DEF Valid
  <2>2. ASSUME NEW i \in 1..Len(rs) PROVE to[i] \in Spans
    <3> DEFINE o == rs[i][1]
    <3>1. o \in 0..Len(t)
      BY <2>2, RangeAt
    <3> HIDE DEF o, rs
    <3>2. RowStart(t, o) \in 0..o /\ NextLineStart(t, o) \in 0..Len(t)
      BY <2>1, <3>1, RowBounds, NextLineStartType
    <3>3. RowStart(t, o) \in Nat /\ NextLineStart(t, o) \in Nat
      BY <2>1, <3>1, <3>2
    <3>4. line(o) \in Spans
      BY <3>3 DEF Spans
    <3> QED BY <2>2, <3>4 DEF o
  <2>3. rs \in Seq(Spans) /\ rs # <<>> /\ Len(rs) \in Nat /\ Len(rs) > 0
    <3>1. rs \in Seq(Spans) /\ rs # <<>>
      BY RangesIs
    <3> HIDE DEF rs
    <3> QED BY <3>1
  <2>4. to \in Seq(Spans) /\ to # <<>> /\ Len(to) = Len(rs)
    <3>1. to = [i \in 1..Len(rs) |-> to[i]]
      OBVIOUS
    <3> HIDE DEF to, rs
    <3>2. to \in Seq(Spans) /\ Len(to) = Len(rs)
      BY <2>2, <2>3, <3>1
    <3> QED BY <2>3, <3>2
  <2> HIDE DEF to, rs
  <2> QED BY <2>1, <2>4, SetRangesIs
<1>6. w.text = t /\ Len(Ranges(w)) <= Len(rs)
  <2>1. Len(rs) \in Nat
    <3>1. rs \in Seq(Spans)
      BY RangesIs
    <3> HIDE DEF rs
    <3> QED BY <3>1
  <2>2. CASE w = b
    <3>1. Len(Ranges(w)) = Len(rs) /\ w.text = t
      BY <2>2
    <3> HIDE DEF rs, w, t
    <3> QED BY <2>1, <3>1
  <2>3. CASE w = wide
    <3> HIDE DEF rs, w, t, wide
    <3> QED BY <1>5, <2>3
  <2> QED BY <1>1, <2>2, <2>3
<1> HIDE DEF w
<1>7. Len(Fragments(b).pieces) = Len(Ranges(w))
  BY <1>2, <1>4
<1> QED BY <1>2, <1>3, <1>6, <1>7 DEF w

\* All places that the removed ranges left have a caret of their own.
PlacesAre(qs, f, n) == Len(qs) = n /\ \A i \in 1..n : qs[i] = <<Len(f[i].text), Len(f[i].text)>>

\* Where as many carets are left as there were, every removed range left one.
LEMMA PlacesMatch ==
  ASSUME NEW t \in Documents, NEW rs, Spread(t, rs), NEW f, NEW u, Gapped(u, t, rs, f),
         NEW qs, Spread(u, qs), Empty(qs), Len(rs) <= Len(qs),
         {r[2] : r \in ToSet(qs)} \subseteq {Len(f[m].text) : m \in 1..Len(rs)}
  PROVE  PlacesAre(qs, f, Len(rs))
<1> DEFINE n == Len(qs) m == Len(rs) a == [i \in 1..n |-> qs[i][1]] c == [i \in 1..m |-> Len(f[i].text)]
<1>0. /\ n \in Nat /\ m \in Nat /\ u \in Documents /\ qs \in Seq(Spans)
      /\ \A i \in 1..n : /\ qs[i] \in Spans /\ qs[i] = <<qs[i][1], qs[i][2]>> /\ qs[i][1] \in Nat
                         /\ qs[i][2] = qs[i][1] /\ Low(qs[i]) = qs[i][1] /\ High(qs[i]) = qs[i][1]
  <2>1. u \in Documents
    BY DEF Gapped
  <2>2. n \in Nat /\ m \in Nat /\ qs \in Seq(Spans) /\ \A i \in 1..n : qs[i] \in Spans
    BY <2>1, SpreadRanges
  <2>3. \A i \in 1..n : ~Wide(qs[i])
    BY DEF Empty
  <2> QED BY <2>1, <2>2, <2>3, SpanType
<1>1. \A i \in 1..n : a[i] \in Nat
  BY <1>0
<1>2. \A i \in 1..m : c[i] \in Nat
  BY <1>0 DEF Gapped
<1>3. \A i \in 1..n, j \in 1..n : i < j => a[i] < a[j]
  <2>1. ASSUME NEW i \in 1..n, NEW j \in 1..n, i < j PROVE qs[i][1] < qs[j][1]
    <3>1. Parted(qs[i], qs[j]) /\ ~Wide(qs[i])
      BY <2>1 DEF Spread, Empty
    <3> QED BY <1>0, <3>1 DEF Parted
  <2> QED BY <2>1
<1>4. \A i \in 1..m, j \in 1..m : i <= j => c[i] <= c[j]
  <2>1. \A i \in 2..m : c[i - 1] <= c[i]
    <3>1. \A i \in 2..m : i \in 1..m /\ i - 1 \in 1..m
      BY <1>0
    <3> QED BY <3>1 DEF Gapped
  <2> HIDE DEF m, c
  <2> QED BY <1>0, <1>2, <2>1, NeverFalls
<1>5. \A i \in 1..n : \E k \in 1..m : a[i] = c[k]
  <2> TAKE i \in 1..n
  <2>1. qs[i] \in ToSet(qs)
    BY <1>0 DEF ToSet
  <2>2. qs[i][2] \in {Len(f[k].text) : k \in 1..m}
    BY <2>1
  <2> QED BY <1>0, <2>2
<1>6. m = n /\ \A i \in 1..n : a[i] = c[i]
  <2>1. m <= n /\ n \in Nat /\ m \in Nat
    BY <1>0
  <2> HIDE DEF n, m, a, c
  <2>2. Climbing(a, n) /\ Unfalling(c, m) /\ Occurring(a, n, c, m)
    BY <1>1, <1>2, <1>3, <1>4, <1>5 DEF Climbing, Unfalling, Occurring
  <2> QED BY <2>1, <2>2, InStep
<1>7. \A i \in 1..m : qs[i] = <<Len(f[i].text), Len(f[i].text)>>
  BY <1>0, <1>6
<1> QED BY <1>6, <1>7 DEF PlacesAre

\* What a cut with several carets leaves.
Leaves(w, new, f, texts) ==
  /\ \A i \in 1..Len(Ranges(w)) : texts[i] = <<>>
  /\ Adding(f, w.text, Ranges(w), texts)
  /\ new.text = Closed(w.text, f[Len(Ranges(w))]).text
  /\ {r[2] : r \in ToSet(Ranges(new))} = {Len(f[m].text) : m \in 1..Len(Ranges(w))}

\* Writing nothing over several selections removes them all and leaves an empty caret at each place.
LEMMA CutManyLeaves ==
  ASSUME NEW w, Valid(w), NEW new, new = Emptied(w), ~new.full
  PROVE  Valid(new) /\ Empty(Ranges(new)) /\ \E f, texts : Leaves(w, new, f, texts)
<1> DEFINE none == SameEverywhere(w, <<>>) rs == Ranges(w)
<1>0. <<>> \in Documents /\ <<>> \in Seq(Typeable)
  BY DEF Documents
<1>1. new = WriteMultiple(w, none, TRUE)
  BY DEF Emptied
<1>2. \A i \in 1..Len(Ranges(w)) : none[i] = <<>>
  BY SameTexts
<1>3. \A i \in 1..Len(Ranges(w)) : none[i] \in Documents /\ none[i] \in Seq(Typeable)
  BY <1>0, <1>2
<1> HIDE DEF none
<1>4. Valid(new) /\ Empty(Ranges(new))
  <2>1. new # Refused(w)
    <3>1. w.full \in BOOLEAN /\ w \in Buffers
      BY ShapedType DEF Valid, Shaped
    <3>2. Refused(w).full = TRUE
      BY <3>1 DEF Refused, Buffers
    <3> QED BY <3>2, Zenon
  <2> DEFINE s == Replaced(WithoutOthers(w), Ranges(w), none, TRUE)
  <2>2. new = Settle(s)
    <3>1. \/ WriteMultiple(w, none, TRUE) = Refused(w)
          \/ WriteMultiple(w, none, TRUE) = Settle(Replaced(WithoutOthers(w), Ranges(w), none, TRUE))
      BY WriteMultipleIs
    <3> QED BY <1>1, <2>1, <3>1
  <2>3. s \in Trials /\ Len(s.carets) > 0
    <3>1. PICK raw : raw = TRUE
      OBVIOUS
    <3>2. LET q == Replaced(WithoutOthers(w), Ranges(w), none, raw)
          IN q \in Trials /\ Len(q.carets) = Len(Ranges(w)) /\ Len(q.carets) > 0
      BY <1>3, ReplacedFits
    <3> QED BY <3>1, <3>2
  <2> HIDE DEF s
  <2> QED BY <2>2, <2>3, SettleIs
<1>5. Same(new, SumOf(w.text, rs, none))
  BY <1>1, <1>3, MultipleIsSum
<1>6. new.text = SumOf(w.text, rs, none).text
      /\ {r[2] : r \in ToSet(Ranges(new))} = SumOf(w.text, rs, none).carets
  BY <1>5, Zenon DEF Same
<1>7. PICK f : Adding(f, w.text, rs, none) /\ SumOf(w.text, rs, none) = Closed(w.text, f[Len(rs)])
  <2>1. w.text \in Documents /\ Spread(w.text, rs)
    BY RangesIs, ShapedType DEF Valid
  <2> QED BY <1>3, <2>1, SumOfIs
<1>8. Closed(w.text, f[Len(rs)]).carets = {Len(f[m].text) : m \in 1..Len(rs)}
  <2>1. Len(rs) \in Nat
    <3>1. rs \in Seq(Spans)
      BY RangesIs
    <3> HIDE DEF rs
    <3> QED BY <3>1
  <2> HIDE DEF rs
  <2>2. f[Len(rs)].carets = {Len(f[m].text) : m \in 1..Len(rs)}
    <3>1. Len(rs) \in 0..Len(rs)
      BY <2>1
    <3> QED BY <1>7, <3>1 DEF Adding
  <2> QED BY <2>2 DEF Closed
<1>9. Leaves(w, new, f, none)
  BY <1>2, <1>6, <1>7, <1>8 DEF Leaves
<1> QED BY <1>4, <1>9

\* What is cut with several carets is put back by a paste, as long as none of them have met.
LEMMA ManyArePasted ==
  ASSUME NEW b, Valid(b), b.others # <<>>
  PROVE  LET cut == CutCopy(b, TRUE) back == Paste(cut.b, cut.clip)
         IN Carets(cut.b) = Carets(b) /\ ~cut.b.full => back.full \/ back.text = b.text
<1> DEFINE t == b.text w == Fragments(b).b pieces == Fragments(b).pieces new == Emptied(w)
           clip == [data |-> JoinedPieces(pieces), fragments |-> pieces, line |-> FALSE]
           back == Paste(new, clip) rs == Ranges(w) qs == Ranges(new)
<1>1. CutCopy(b, TRUE).b = new /\ CutCopy(b, TRUE).clip = clip
  BY DEF CutCopy, Emptied
<1>2. ASSUME Carets(new) = Carets(b), ~new.full PROVE back.full \/ back.text = t
  <2>1. /\ Valid(w) /\ w.text = t /\ Len(rs) <= Len(Ranges(b)) /\ Len(pieces) = Len(rs)
        /\ \A i \in 1..Len(rs) : pieces[i] = Covered(t, rs[i])
    BY FragmentsIs
  <2>2. t \in Documents /\ Shaped(b) /\ Len(Ranges(b)) = Len(b.others) + 1
        /\ Len(b.others) \in Nat /\ Len(b.others) # 0
    <3>1. t \in Documents /\ Shaped(b) /\ b.others \in Seq(Spans)
      BY ShapedType DEF Valid
    <3>2. Len(Ranges(b)) = Len(b.others) + 1
      BY RangesIs
    <3> QED BY <3>1, <3>2
  <2> HIDE DEF w, pieces
  <2>3. Valid(new)
    BY <2>1, EmptiedValid
  <2>5. Empty(qs) /\ \E f, texts : Leaves(w, new, f, texts)
    BY <1>2, <2>1, CutManyLeaves
  <2>6. PICK f, texts : Leaves(w, new, f, texts)
    BY <2>5
  <2> HIDE DEF new
  <2> DEFINE u == new.text n == Len(rs)
  <2>7. /\ Spread(t, rs) /\ Spread(u, qs) /\ Len(qs) = Len(new.others) + 1 /\ Len(rs) \in Nat
        /\ new.others \in Seq(Spans) /\ Len(new.others) = Len(b.others)
    <3>1. Spread(t, rs) /\ Len(rs) = Len(w.others) + 1 /\ Spread(u, qs) /\ Len(qs) = Len(new.others) + 1
      BY <2>1, <2>3, RangesIs
    <3>2. w.others \in Seq(Spans) /\ new.others \in Seq(Spans)
      BY <2>1, <2>3, ShapedType DEF Valid
    <3>3. Len(new.others) = Len(b.others)
      BY <1>2, <2>2, <3>2 DEF Carets
    <3> QED BY <3>1, <3>2, <3>3
  <2>8. /\ Gapped(u, t, rs, f) /\ f[0].text = <<>>
    <3>1. Adding(f, t, rs, texts) /\ \A i \in 1..Len(rs) : texts[i] = <<>>
      BY <2>1, <2>6 DEF Leaves
    <3>2. u = Closed(t, f[Len(rs)]).text
      BY <2>1, <2>6 DEF Leaves
    <3>3. Gapped(Closed(t, f[Len(rs)]).text, t, rs, f)
      BY <2>2, <2>7, <3>1, GappedIs
    <3>4. f[0].text = <<>>
      BY <3>1 DEF Adding, Nothing
    <3> QED BY <3>2, <3>3, <3>4
  <2>9. Len(rs) <= Len(qs)
    BY <1>2, <2>1, <2>2, <2>7 DEF Carets
  <2>10. PlacesAre(qs, f, Len(rs))
    <3>1. {r[2] : r \in ToSet(qs)} \subseteq {Len(f[m].text) : m \in 1..Len(rs)}
      BY <2>6 DEF Leaves
    <3> HIDE DEF u, qs, rs
    <3> QED BY <2>2, <2>5, <2>7, <2>8, <2>9, <3>1, PlacesMatch
  <2>11. Len(qs) = Len(rs) /\ \A i \in 1..Len(rs) : qs[i] = <<Len(f[i].text), Len(f[i].text)>>
    BY <2>10 DEF PlacesAre
  <2>12. SumOf(u, qs, pieces).text = t
    <3> HIDE DEF u, qs, rs
    <3>1. t \in Documents /\ Spread(t, rs) /\ Spread(u, qs) /\ Gapped(u, t, rs, f) /\ f[0].text = <<>>
      BY <2>1, <2>2, <2>7, <2>8
    <3>2. \A i \in 1..Len(rs) : pieces[i] = Covered(t, rs[i])
      BY <2>1, <2>2
    <3> QED BY <3>1, <3>2, <2>11, SumRestores
  <2>13. \A i \in 1..Len(rs) : pieces[i] \in Documents
    <3>1. \A i \in 1..Len(rs) : rs[i] \in Spans /\ Inside(t, rs[i])
      BY <2>2, <2>7, SpreadRanges
    <3> QED BY <2>1, <2>2, <3>1, CoveredIs
  <2>14. back = WriteMultiple(new, pieces, TRUE)
    <3>1. JoinedPieces(pieces) # <<>>
      <4>1. Len(pieces) \in Nat /\ Len(pieces) > 1 /\ \A i \in 1..Len(pieces) : pieces[i] \in Documents
        BY <2>1, <2>2, <2>7, <2>11, <2>13
      <4> QED BY <4>1, JoinedPiecesHold
    <3>2. new.others # <<>> /\ Len(pieces) = Len(new.others) + 1
      <4>1. Len(pieces) = Len(new.others) + 1 /\ Len(new.others) \in Nat /\ Len(new.others) # 0
        BY <2>1, <2>2, <2>7, <2>11
      <4> QED BY <2>7, <4>1
    <3>3. clip.data = JoinedPieces(pieces) /\ clip.fragments = pieces
      OBVIOUS
    <3> HIDE DEF clip
    <3> QED BY <3>1, <3>2, <3>3 DEF Paste
  <2>15. Same(back, SumOf(u, qs, pieces))
    <3>1. \A i \in 1..Len(Ranges(new)) : pieces[i] \in Documents
      BY <2>11, <2>13
    <3> QED BY <2>3, <2>14, <3>1, MultipleIsSum
  <2> HIDE DEF back, u, qs
  <2> QED BY <2>12, <2>15, Zenon DEF Same
<1> HIDE DEF new, back, clip
<1>3. Carets(new) = Carets(b) /\ ~new.full => back.full \/ back.text = t
  BY <1>2, Zenon
<1> QED BY <1>1, <1>3, Zenon DEF back

\* In a valid buffer, what is cut is pasted.
LEMMA BufferCutIsPasted ==
  ASSUME Valid(buffer)
  PROVE  CutIsPasted
<1> DEFINE b == buffer cut == CutCopy(b, TRUE) back == Paste(cut.b, cut.clip)
           terminated == HasSelection(b) \/ RowAt(b.text, b.cursor) < Rows(b.text) - 1
<1>0. Shaped(b) /\ Len(b.others) \in Nat /\ (b.others = <<>> <=> Len(b.others) = 0)
  <2>1. Shaped(b) /\ b.others \in Seq(Spans)
    BY ShapedType DEF Valid
  <2> QED BY <2>1
<1> HIDE DEF b
<1>1. ASSUME Carets(b) > 1, Carets(cut.b) = Carets(b), ~cut.b.full
      PROVE  back.full \/ back.text = b.text
  <2>1. b.others # <<>>
    BY <1>0, <1>1 DEF Carets
  <2>2. Valid(b)
    BY DEF b
  <2> QED BY <1>1, <2>1, <2>2, ManyArePasted
<1>2. ASSUME ~(Carets(b) > 1), terminated
      PROVE  back.full \/ back.text = b.text
  <2>1. b.others = <<>>
    BY <1>0, <1>2 DEF Carets
  <2> QED BY <1>0, <1>2, <2>1, AloneIsPasted
<1> HIDE DEF cut, back
<1>3. CutIsPasted <=> ((IF Carets(b) > 1 THEN Carets(cut.b) = Carets(b) ELSE terminated) /\ ~cut.b.full
                         => (back.full \/ back.text = b.text))
  BY DEF CutIsPasted, cut, back, b
<1> HIDE DEF terminated
<1> QED BY <1>1, <1>2, <1>3, Zenon

-----------------------------------------------------------------------------
(***************************************************************************)
(* The inductive invariant                                                 *)
(***************************************************************************)
EditorInv == editor \in Editors /\ anchor \in Anchors

\* The empty buffer is valid.
LEMMA EmptyIsValid == Valid(EmptyBuffer)
<1>1. EmptyBuffer \in Buffers /\ EmptyBuffer.cursor = 0 /\ EmptyBuffer.text = <<>>
      /\ EmptyBuffer.selection = <<>> /\ EmptyBuffer.others = <<>>
  BY DEF EmptyBuffer, Buffers, Selections, Documents
<1>2. Shaped(EmptyBuffer)
  BY <1>1 DEF Shaped
<1> QED BY <1>1, <1>2, AloneIsValid

\* The invariant holds of the empty editor.
LEMMA EditorStarts == EditorInit => EditorInv
BY EmptyIsValid, SettledType DEF EditorInit, EditorInv, Anchors

\* The mouse is at a point.
LEMMA PlacesType ==
  ASSUME NEW p \in Places, MaxColumn \in Nat
  PROVE  p \in Point
<1>1. PICK x \in 0..MaxColumn, y \in 0..Rows(buffer.text) : p = At(x, y)
  BY DEF Places
<1>2. x \in Int /\ y \in Int
  OBVIOUS
<1> QED BY <1>1, <1>2 DEF At, Point

\* Every step keeps the invariant.
LEMMA EditorSteps == EditorInv /\ [EditorNext]_editorVars => EditorInv'
<1> SUFFICES ASSUME EditorInv, [EditorNext]_editorVars
             PROVE  editor' \in Editors /\ anchor' \in Anchors
  BY DEF EditorInv
<1>0. editor \in Editors /\ anchor \in Anchors /\ <<>> \in Anchors /\ Valid(buffer) /\ Shaped(buffer)
  BY EditorType DEF EditorInv, Anchors, buffer
<1>1. CASE Type
  <2>1. PICK ch \in Characters : ByKey(CharacterTyped(editor, ch))
    BY <1>1 DEF Type
  <2>2. editor' = CharacterTyped(editor, ch) /\ anchor' = <<>>
    BY <2>1 DEF ByKey, Become
  <2> QED BY <2>2, <1>0, CharacterTypedType
<1>2. CASE Press
  <2>1. PICK k \in EditKeys : ByKey(KeyPressed(editor, k))
    BY <1>2 DEF Press
  <2>2. editor' = KeyPressed(editor, k) /\ anchor' = <<>>
    BY <2>1 DEF ByKey, Become
  <2> QED BY <2>2, <1>0, KeyPressedType
<1>3. CASE PressAppKey
  <2>1. PICK k \in AppKeys, clip \in Clips : ByKey(AppKeyPressed(editor, k, clip))
    BY <1>3 DEF PressAppKey
  <2>2. editor' = AppKeyPressed(editor, k, clip) /\ anchor' = <<>>
    BY <2>1 DEF ByKey, Become
  <2> QED BY <2>2, <1>0, AppKeyPressedType
<1>4. CASE MouseDown
  <2>1. PICK p \in Places, clicks \in 1..4, mods \in {{}, {"shift"}, {"alt"}} :
           Become(ClickColumn(editor, ClickText(buffer, p, clicks, mods), clicks, mods),
                  IF "alt" \in mods THEN <<"corner", p>> ELSE <<>>)
    BY <1>4 DEF MouseDown
  <2>2. p \in Point
    BY PlacesType, MacroReplayAssumption
  <2> DEFINE new == ClickText(buffer, p, clicks, mods)
  <2>3. Valid(new)
    BY <1>0, <2>2, ClickTextValid
  <2>4. /\ editor' = ClickColumn(editor, new, clicks, mods)
        /\ anchor' = IF "alt" \in mods THEN <<"corner", p>> ELSE <<>>
    BY <2>1 DEF Become
  <2> HIDE DEF new
  <2>5. editor' \in Editors
    BY <1>0, <2>3, <2>4, ClickColumnType
  <2>6. anchor' \in Anchors
    BY <2>2, <2>4 DEF Anchors
  <2> QED BY <2>5, <2>6
<1>5. CASE MouseDrag
  <2>1. PICK p \in Places : ~OnLine(anchor) /\ Become(Settled(DragText(buffer, p, anchor)), anchor)
    BY <1>5 DEF MouseDrag
  <2>2. p \in Point
    BY PlacesType, MacroReplayAssumption
  <2>3. Valid(DragText(buffer, p, anchor))
    BY <1>0, <2>1, <2>2, DragTextValid
  <2>4. editor' = Settled(DragText(buffer, p, anchor)) /\ anchor' = anchor
    BY <2>1 DEF Become
  <2> QED BY <1>0, <2>3, <2>4, SettledType
<1>6. CASE GutterDown
  <2>1. PICK y \in 0..Rows(buffer.text), shift \in BOOLEAN :
           LET line == GutterAnchor(buffer, y, shift, anchor)
           IN Become(Settled(SelectLines(buffer, line, LineAt(buffer, y))), <<"line", line>>)
    BY <1>6 DEF GutterDown
  <2> DEFINE line == GutterAnchor(buffer, y, shift, anchor) head == LineAt(buffer, y)
  <2>2. y \in Int
    OBVIOUS
  <2>3. line \in Int /\ head \in Int
    BY <1>0, <2>2, GutterAnchorType, LineAtType
  <2>4. editor' = Settled(SelectLines(buffer, line, head)) /\ anchor' = <<"line", line>>
    BY <2>1 DEF Become
  <2> HIDE DEF line, head
  <2>5. Valid(SelectLines(buffer, line, head))
    BY <1>0, <2>3, SelectLinesValid
  <2>6. anchor' \in Anchors
    BY <2>3, <2>4 DEF Anchors
  <2> QED BY <2>4, <2>5, <2>6, SettledType
<1>7. CASE GutterDrag
  <2>1. PICK y \in 0..Rows(buffer.text) :
           OnLine(anchor) /\ Become(Settled(SelectLines(buffer, anchor[2], LineAt(buffer, y))), anchor)
    BY <1>7 DEF GutterDrag
  <2> DEFINE line == anchor[2] head == LineAt(buffer, y)
  <2>2. y \in Int
    OBVIOUS
  <2>3. line \in Int /\ head \in Int
    BY <1>0, <2>1, <2>2, LineAtType DEF Anchors, OnLine
  <2>4. editor' = Settled(SelectLines(buffer, line, head)) /\ anchor' = anchor
    BY <2>1 DEF Become
  <2> HIDE DEF line, head
  <2>5. Valid(SelectLines(buffer, line, head))
    BY <1>0, <2>3, SelectLinesValid
  <2> QED BY <1>0, <2>4, <2>5, SettledType
<1>8. CASE MouseUp
  BY <1>0, <1>8 DEF MouseUp, Become
<1>9. CASE Report
  <2>1. editor' = Keeping(editor, [buffer EXCEPT !.full = FALSE]) /\ anchor' = anchor
    <3>1. editor' = [editor EXCEPT !.buf.full = FALSE] /\ anchor' = anchor
      BY <1>9 DEF Report
    <3> QED BY <3>1 DEF Keeping, buffer
  <2>2. Valid([buffer EXCEPT !.full = FALSE])
    <3>1. \A full \in BOOLEAN : Valid([buffer EXCEPT !.full = full])
      BY <1>0, FullField
    <3> QED BY <3>1
  <2> QED BY <1>0, <2>1, <2>2, KeepingType
<1>10. CASE UNCHANGED editorVars
  BY <1>0, <1>10 DEF editorVars
<1> QED BY <1>1, <1>2, <1>3, <1>4, <1>5, <1>6, <1>7, <1>8, <1>9, <1>10 DEF EditorNext

\* The invariant gives the property.
LEMMA InvGivesCarets == EditorInv => CaretsWriteAtOnce
<1> SUFFICES ASSUME EditorInv PROVE CaretsWriteAtOnce
  OBVIOUS
<1>1. Valid(buffer) /\ Shaped(buffer) /\ anchor \in Anchors
  BY EditorType DEF EditorInv, buffer
<1>2. /\ buffer.text \in Seq(Chars) /\ buffer.cursor \in 0..Len(buffer.text)
      /\ buffer.overtype \in BOOLEAN /\ buffer.full \in BOOLEAN
  BY <1>1, ShapedType DEF Documents
<1>3. anchor = <<>> \/ anchor[1] \in {"line", "corner"}
  BY <1>1 DEF Anchors
<1>4. CaretsAreSound
  BY <1>1, BufferCaretsAreSound
<1>5. WritesAtOnce
  BY <1>1, BufferWritesAtOnce
<1> QED BY <1>2, <1>3, <1>4, <1>5 DEF CaretsWriteAtOnce

\* The editor stays valid under every key, click, drag, paste and clipboard: its
\* cursor and selections lie in the text, the selections in order and apart, the
\* primary one last.
THEOREM EditorStaysValid == EditorSpec => []EditorInv
BY EditorStarts, EditorSteps, PTL DEF EditorSpec

\* In every state that keys and mouse reach, the selections are in order and
\* disjoint, and writing with all of them (done from the last caret to the first,
\* shifting the carets already placed) replaces all of them at once and leaves
\* each caret behind its own text; for any characters, limits and clipboards.
THEOREM CaretsWriteAtOnceAlways == EditorSpec => []CaretsWriteAtOnce
BY EditorStaysValid, InvGivesCarets, PTL

\* From every state that keys and mouse reach, replaying the command recorded for a
\* key, a character or an application command gives the text, cursor, selections and
\* overtype mode that the input itself gave, apart from the three cases Apart names;
\* for any characters, limits and clipboards.
THEOREM CommandsAlwaysFollow == EditorSpec => []CommandsFollow
<1>1. EditorInv => editor \in Editors
  BY DEF EditorInv
<1>2. EditorInv => CommandsFollow
  BY <1>1, EditorIsFollowed
<1> QED BY <1>2, EditorStaysValid, PTL

\* From every such state, what is cut is put back by a paste: with several carets as
\* long as no two of them have met, with one caret what is selected or a row that ends
\* with a newline.
THEOREM CutIsAlwaysPasted == EditorSpec => []CutIsPasted
<1>1. EditorInv => CutIsPasted
  <2> SUFFICES ASSUME EditorInv PROVE CutIsPasted
    OBVIOUS
  <2>1. Valid(buffer)
    BY DEF EditorInv, Editors, buffer
  <2> QED BY <2>1, BufferCutIsPasted
<1>2. EditorSpec => []EditorInv
  BY EditorStaysValid
<1> QED BY <1>1, <1>2, PTL

\* The two together, in every state in which a key can be pressed.
THEOREM ReplayAlwaysFollows == EditorSpec => []ReplayFollows
<1>1. CommandsFollow /\ CutIsPasted => ReplayFollows
  BY DEF ReplayFollows
<1> QED BY <1>1, CommandsAlwaysFollow, CutIsAlwaysPasted, PTL
=============================================================================
