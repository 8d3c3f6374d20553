------------------------------ MODULE GapBuffer ------------------------------
(***************************************************************************)
(* The memory behind a document: a text with a gap of spare bytes in it    *)
(* (src/src/buffer/gap_buffer.rs).  The heap buffer of an edit line and    *)
(* the virtual memory of a document differ in their constants only.        *)
(*                                                                         *)
(* Memory is a function from addresses below `commit' to bytes.  Memory    *)
(* that was committed and never written holds Fill, and so does what a     *)
(* debug build overwrites when it moves text away.  A caller that is lent  *)
(* the gap fills it and commits what it filled before anything else runs.  *)
(***************************************************************************)
EXTENDS Integers, Sequences, Splicing

CONSTANTS
  Byte,            \* what a text consists of
  Fill,            \* zeroed memory, or 0xCD
  GapChunk,        \* LARGE_GAP_CHUNK, SMALL_GAP_CHUNK
  AllocChunk,      \* LARGE_ALLOC_CHUNK, SMALL_ALLOC_CHUNK
  Capacity,        \* LARGE_CAPACITY, SMALL_CAPACITY
  Headroom,        \* what reserve_empty adds to a large file's size
  Virtual,         \* the backing is virtual memory
  DebugAssertions, \* a debug build
  Revisions,       \* number of generations: 2^32
  MaxRewind,       \* how many edits back an undo reaches
  Requests,        \* bound of a run: lengths asked for
  Sources          \* bound of a run: texts written

ASSUME ConstantsAssumption ==
  /\ Fill \notin Byte
  /\ GapChunk \in Nat \ {0}
  /\ AllocChunk \in Nat \ {0}
  /\ Capacity \in Nat
  /\ Headroom \in Nat
  /\ Virtual \in BOOLEAN
  /\ DebugAssertions \in BOOLEAN
  /\ Revisions \in Nat
  /\ MaxRewind \in Nat
  /\ MaxRewind + 2 < Revisions
  /\ Requests \subseteq Nat
  /\ Sources \subseteq Seq(Byte)

VARIABLES
  buf,    \* the GapBuffer's fields
  oracle  \* auxiliary: the text its callers expect

vars == <<buf, oracle>>

Least(m, n) == IF m <= n THEN m ELSE n
Monus(m, n) == IF m <= n THEN 0 ELSE m - n

\* n & !(chunk - 1)
RoundDown(n, chunk) == n - (n % chunk)

New == [mem |-> <<>>, reserve |-> Capacity, commit |-> 0, textLength |-> 0,
        gapOff |-> 0, gapLen |-> 0, generation |-> 0, counter |-> 0]

Init ==
  /\ buf = [New EXCEPT !.mem = [i \in {} |-> Fill]]
  /\ oracle = <<>>

-----------------------------------------------------------------------------
(***************************************************************************)
(* Memory                                                                  *)
(***************************************************************************)

\* ptr::copy: n bytes from src to dst, which may overlap.
Copy(mem, src, dst, n) ==
  [i \in DOMAIN mem |-> IF i \in dst..dst + n - 1 THEN mem[i - dst + src]
                        ELSE mem[i]]

\* write_bytes(0xCD), under cfg!(debug_assertions).
Scribble(mem, off, n) ==
  [i \in DOMAIN mem |-> IF DebugAssertions /\ i \in off..off + n - 1 THEN Fill
                        ELSE mem[i]]

\* slice_copy_safe, or a caller that fills the gap it was lent.
Put(mem, off, src) ==
  [i \in DOMAIN mem |-> IF i \in off..off + Len(src) - 1 THEN src[i - off + 1]
                        ELSE mem[i]]

\* virtual_commit, Vec::resize
Commit(mem, commit) ==
  [i \in 0..commit - 1 |-> IF i \in DOMAIN mem THEN mem[i] ELSE Fill]

\* The address of the byte at offset i of the text.
Address(b, i) == IF i < b.gapOff THEN i ELSE i + b.gapLen

Contents(b) == [i \in 1..b.textLength |-> b.mem[Address(b, i - 1)]]

-----------------------------------------------------------------------------
(***************************************************************************)
(* The private steps                                                       *)
(***************************************************************************)

\* Mutant of Bump: the next stamp follows the current one, not the newest.
BumpCurrent(b) ==
  LET next == IF b.generation + 1 = Revisions THEN 0 ELSE b.generation + 1
  IN  [b EXCEPT !.counter = next, !.generation = next]

\* bump_generation: wrapping_add on a u32.
Bump(b) ==
  LET next == IF b.counter + 1 = Revisions THEN 0 ELSE b.counter + 1
  IN  [b EXCEPT !.counter = next, !.generation = next]

\* Mutants of MoveGap: the bytes right of the gap are taken from its start, or
\* the new gap is scribbled over before the bytes have left it.
MoveGapFromGap(b, off) ==
  LET left == off < b.gapOff
      src == IF left THEN off ELSE b.gapOff
      dst == IF left THEN off + b.gapLen ELSE b.gapOff
      n == IF left THEN b.gapOff - off ELSE off - b.gapOff
  IN  [b EXCEPT !.mem = IF b.gapLen > 0
                          THEN Scribble(Copy(@, src, dst, n), off, b.gapLen)
                          ELSE @,
                !.gapOff = off]

MoveGapScribblingFirst(b, off) ==
  LET left == off < b.gapOff
      src == IF left THEN off ELSE b.gapOff + b.gapLen
      dst == IF left THEN off + b.gapLen ELSE b.gapOff
      n == IF left THEN b.gapOff - off ELSE off - b.gapOff
  IN  [b EXCEPT !.mem = IF b.gapLen > 0
                          THEN Copy(Scribble(@, off, b.gapLen), src, dst, n)
                          ELSE @,
                !.gapOff = off]

MoveGap(b, off) ==
  LET left == off < b.gapOff
      src == IF left THEN off ELSE b.gapOff + b.gapLen
      dst == IF left THEN off + b.gapLen ELSE b.gapOff
      n == IF left THEN b.gapOff - off ELSE off - b.gapOff
  IN  [b EXCEPT !.mem = IF b.gapLen > 0
                          THEN Scribble(Copy(@, src, dst, n), off, b.gapLen)
                          ELSE @,
                !.gapOff = off]

DeleteText(b, n) ==
  [b EXCEPT !.mem = Scribble(@, b.gapOff + b.gapLen, n),
            !.gapLen = @ + n,
            !.textLength = @ - n]

\* enlarge_gap; `grants' says whether the system commits the memory.
EnlargeGap(b, len, grants) ==
  LET gapLen == Least(RoundDown(len + GapChunk + GapChunk - 1, GapChunk),
                      b.reserve - b.textLength)
      bytes == b.textLength + gapLen
      commit == IF bytes > b.commit
                  THEN RoundDown(bytes + AllocChunk - 1, AllocChunk)
                  ELSE b.commit
  IN  IF bytes > b.commit /\ (commit > b.reserve \/ ~grants)
        THEN b
        ELSE [b EXCEPT
               !.commit = commit,
               !.gapLen = gapLen,
               !.mem = Scribble(Copy(Commit(@, commit), b.gapOff + b.gapLen,
                                     b.gapOff + gapLen, b.textLength - b.gapOff),
                                b.gapOff + b.gapLen, gapLen - b.gapLen)]

ReserveInsert(b, len, grants) ==
  IF len <= b.gapLen \/ len > b.reserve - b.textLength THEN b
  ELSE EnlargeGap(b, len, grants)

AllocateGap(b, off, len, delete, grants) ==
  LET beg == Least(off, b.textLength)
      n == Least(delete, b.textLength - beg)
      moved == IF beg # b.gapOff THEN MoveGap(b, beg) ELSE b
      deleted == IF n > 0 THEN DeleteText(moved, n) ELSE moved
  IN  Bump(IF len > deleted.gapLen THEN EnlargeGap(deleted, len, grants)
           ELSE deleted)

\* The caller wrote src to the gap; commit_gap.
CommitGap(b, src) ==
  [b EXCEPT !.mem = Put(@, b.gapOff, src),
            !.textLength = @ + Len(src),
            !.gapOff = @ + Len(src),
            !.gapLen = @ - Len(src)]

\* What replace deletes of the range beg..end.
Deleted(b, beg, end) ==
  Monus(Least(end, b.textLength), Least(beg, b.textLength))

\* Mutant of Fits: room for the insertion is not required up front.
FitsAlways(b, beg, end, src, grants) == TRUE

\* replace found room for src in place of the range.
Fits(b, beg, end, src, grants) ==
  LET needed == Monus(Len(src), Deleted(b, beg, end))
  IN  needed <= ReserveInsert(b, needed, grants).gapLen

Replace(b, beg, end, src, grants) ==
  LET needed == Monus(Len(src), Deleted(b, beg, end))
      reserved == ReserveInsert(b, needed, grants)
      gap == AllocateGap(reserved, beg, Len(src), Monus(end, beg), grants)
  IN  IF Fits(b, beg, end, src, grants)
        THEN CommitGap(gap, SubSeq(src, 1, Least(Len(src), gap.gapLen)))
        ELSE reserved

-----------------------------------------------------------------------------
(***************************************************************************)
(* Reading                                                                 *)
(***************************************************************************)

\* The n bytes of memory at addr, which a caller is shown.
Slice(b, addr, n) == [i \in 1..n |-> b.mem[addr + i - 1]]

ReadForward(b, offset) ==
  LET off == Least(offset, b.textLength)
  IN  IF off < b.gapOff THEN Slice(b, off, b.gapOff - off)
      ELSE Slice(b, off + b.gapLen, b.textLength - off)

\* Mutant of ReadBackward: text after the gap is shown with the whole prefix.
ReadBackwardAcross(b, offset) ==
  LET off == Least(offset, b.textLength)
  IN  IF off <= b.gapOff THEN Slice(b, 0, off)
      ELSE Slice(b, b.gapLen, off)

ReadBackward(b, offset) ==
  LET off == Least(offset, b.textLength)
  IN  IF off <= b.gapOff THEN Slice(b, 0, off)
      ELSE Slice(b, b.gapOff + b.gapLen, off - b.gapOff)

\* copy_from compares its own next chunk with the source's at off.
Agreed(b, src, off) ==
  LET n == Least(Len(ReadForward(b, off)), Len(src) - off)
  IN  IF SubSeq(ReadForward(b, off), 1, n) = SubSeq(src, off + 1, off + n)
        THEN off + n ELSE off

-----------------------------------------------------------------------------
(***************************************************************************)
(* The operations                                                          *)
(***************************************************************************)

\* TextBuffer::edit_write, undo_redo, load
ReplaceRange(beg, end, src, grants) ==
  /\ buf' = Replace(buf, beg, end, src, grants)
  /\ oracle' = IF Fits(buf, beg, end, src, grants)
                 THEN Splice(oracle, Least(beg, Len(oracle)),
                             Deleted(buf, beg, end), src)
                 ELSE oracle

\* TextBuffer::edit_delete and undo_redo delete, and the loaders read from
\* the file into the gap: the caller commits the src it put there, which may
\* be short of what it asked for.
FillGap(off, delete, len, src, grants) ==
  LET gap == AllocateGap(buf, off, len, delete, grants)
      beg == Least(off, Len(oracle))
  IN  /\ Len(src) <= Least(len, gap.gapLen)
      /\ buf' = CommitGap(gap, src)
      /\ oracle' = Splice(oracle, beg, Least(delete, Len(oracle) - beg), src)

\* TextBuffer::write and apply_byte_edits ask for room before they begin.
Preflight(len, grants) ==
  /\ buf' = ReserveInsert(buf, len, grants)
  /\ UNCHANGED oracle

Clear ==
  /\ buf' = [Bump(buf) EXCEPT !.gapOff = 0, !.gapLen = @ + buf.textLength,
                              !.textLength = 0]
  /\ oracle' = <<>>

\* Mutant of ReserveEmpty: the fresh memory keeps the old gap.
ReserveEmptyKeepingGap(bytes) ==
  /\ bytes > buf.reserve
  /\ buf.textLength = 0
  /\ Virtual
  /\ buf' = [buf EXCEPT
              !.mem = [i \in {} |-> Fill],
              !.reserve = RoundDown(bytes + Headroom + AllocChunk - 1, AllocChunk),
              !.commit = 0]
  /\ UNCHANGED oracle

\* reserve_empty: nothing changes unless the buffer is empty.
ReserveEmpty(bytes) ==
  /\ bytes > buf.reserve
  /\ buf.textLength = 0
  /\ Virtual
  /\ buf' = [buf EXCEPT
              !.mem = [i \in {} |-> Fill],
              !.reserve = RoundDown(bytes + Headroom + AllocChunk - 1, AllocChunk),
              !.commit = 0, !.gapOff = 0, !.gapLen = 0]
  /\ UNCHANGED oracle

\* TextBuffer::undo_redo: set_generation of a version k edits back.
Rewind(k) ==
  /\ buf' = [buf EXCEPT !.generation = IF k <= buf.counter THEN buf.counter - k
                                       ELSE buf.counter + Revisions - k]
  /\ UNCHANGED oracle

\* copy_from: the bytes from the first chunk that differs are replaced, then
\* the end of the source is.
CopyFrom(src, grants, again) ==
  LET off == Agreed(buf, src, Agreed(buf, src, 0))
      rest == SubSeq(src, off + 1, Len(src))
      end == off + Len(src) + buf.textLength
      first == Replace(buf, off, end, rest, grants)
  IN  /\ \/ off < Len(src)
         \/ off < buf.textLength
      /\ buf' = IF rest = <<>> THEN first
                ELSE Replace(first, Len(src), end, <<>>, again)
      /\ oracle' = IF Fits(buf, off, end, rest, grants) THEN src ELSE oracle

Next ==
  \E grants \in BOOLEAN :
    \/ \E beg, end \in 0..buf.textLength + 1, src \in Sources :
         ReplaceRange(beg, end, src, grants)
    \/ \E off, delete \in 0..buf.textLength + 1, len \in Requests, src \in Sources :
         FillGap(off, delete, len, src, grants)
    \/ \E len \in Requests : Preflight(len, grants)
    \/ Clear
    \/ \E bytes \in Requests : ReserveEmpty(bytes)
    \/ \E k \in 0..MaxRewind : Rewind(k)
    \/ \E src \in Sources, again \in BOOLEAN : CopyFrom(src, grants, again)

Spec == Init /\ [][Next]_vars

-----------------------------------------------------------------------------
(***************************************************************************)
(* Properties                                                              *)
(***************************************************************************)

\* The fields have their types and lie where the unsafe code needs them.
Sound(b) ==
  /\ b \in [mem : {b.mem}, reserve : Nat, commit : Nat, textLength : Nat,
            gapOff : Nat, gapLen : Nat, generation : 0..Revisions - 1,
            counter : 0..Revisions - 1]
  /\ b.mem \in [0..b.commit - 1 -> Byte \cup {Fill}]
  /\ b.gapOff <= b.textLength
  /\ b.textLength + b.gapLen <= b.commit
  /\ b.commit <= b.reserve

\* The type invariant, with the bounds the unsafe code rests on: every address
\* it forms lies in committed memory (GapBuffer's slices and copies).
TypeOK == Sound(buf) /\ oracle \in Seq(Byte)

\* The buffer holds exactly the text its callers put there: what is replaced,
\* deleted or copied in is exact to the byte, a refused edit changes nothing,
\* moving and enlarging the gap changes nothing, and no byte of the gap ever
\* shows (GapBuffer::replace, allocate_gap, enlarge_gap, copy_from).
ContentsExact == Contents(buf) = oracle

\* Whoever reads in chunks sees the text, and gets on: a chunk is empty only
\* at the end it reads towards (read_forward, read_backward and every loop
\* over them).
ReadsExact ==
  \A off \in 0..Len(oracle) + 1 :
    LET at == Least(off, Len(oracle))
        after == ReadForward(buf, off)
        before == ReadBackward(buf, off)
    IN  /\ after = SubSeq(oracle, at + 1, at + Len(after))
        /\ at < Len(oracle) => after # <<>>
        /\ before = SubSeq(oracle, at - Len(before) + 1, at)
        /\ at > 0 => before # <<>>

\* A step that changes the contents changes the generation as well, to one
\* that no undo in reach can produce again (bump_generation).
ChangesAreStamped ==
  [][oracle' # oracle =>
       /\ buf'.generation # buf.generation
       /\ buf'.generation = buf'.counter
       /\ buf'.counter # buf.counter]_vars
=============================================================================
