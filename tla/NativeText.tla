------------------------------- MODULE NativeText -------------------------------
(***************************************************************************)
(* The text as ICU sees it: a UText over the gap buffer, which hands out   *)
(* pieces of it in UTF-16.  Two pieces are kept; a piece is good as long   *)
(* as the generation of the buffer is the one it was made at, and ICU goes *)
(* on reading the piece it has without asking.                             *)
(*                                                                         *)
(* Offsets count bytes from 0, as in the code.                             *)
(***************************************************************************)
EXTENDS Utf8, FiniteSets

CONSTANT CacheSize      \* CACHE_SIZE

Utf16LenLimit == CacheSize - 4

\* A buffer is its bytes, where the gap is, and the generation.
ReadForward(b, off) ==
  SubSeq(b.text, off + 1, IF off < b.gap THEN b.gap ELSE Len(b.text))
ReadBackward(b, off) ==
  SubSeq(b.text, (IF off > b.gap THEN b.gap ELSE 0) + 1, off)

NoPiece == [start |-> 0, limit |-> 0, units |-> <<>>, toNative |-> <<0>>, toUtf16 |-> <<0>>,
            ascii |-> 0]
NewText == [a |-> {}, cache |-> <<NoPiece, NoPiece>>, mru |-> 1, chunk |-> NoPiece]

Utf16(cp) ==
  IF cp < 65536 THEN <<cp>>
  ELSE <<55296 + ((cp - 65536) \div 1024), 56320 + ((cp - 65536) % 1024)>>

\* One more character of n bytes on a piece: both offset tables grow with it.
Add(p, cp, n) ==
  LET units == Utf16(cp)
  IN [p EXCEPT !.limit = @ + n,
               !.units = @ \o units,
               !.toNative = @ \o [i \in 1 .. Len(units) - 1 |-> p.limit - p.start]
                              \o <<p.limit - p.start + n>>,
               !.toUtf16 = @ \o [i \in 1 .. n - 1 |-> Len(p.units)]
                             \o <<Len(p.units) + Len(units)>>]

\* Translating from a piece on: ASCII up to limit bytes, then character by character until
\* limit bytes or all the units are used.
Translate(b, beg, limit) ==
  LET AllAscii(p) == p.ascii = Len(p.units)
      Fast(p, chunk) == AllAscii(p) /\ p.limit - beg < limit /\ chunk[1] < 128
      Ascii(q) == [piece |-> q, done |-> q.ascii >= Utf16LenLimit]
      Other(q) == [piece |-> q, done |-> Len(q.units) >= Utf16LenLimit \/ q.limit - beg >= limit]
      Char(p, c) == Other(Add(p, c.cp, c.next - 1))
      Step(s, chunk) ==
        CASE s.done \/ chunk = <<>> -> [s EXCEPT !.done = TRUE]
          [] ~s.done /\ chunk # <<>> /\ Fast(s.piece, chunk) ->
               Ascii([Add(s.piece, chunk[1], 1) EXCEPT !.ascii = @ + 1])
          [] OTHER -> Char(s.piece, Decode(chunk, 1))
      Next(s) == Step(s, ReadForward(b, s.piece.limit))
      f[n \in 0 .. Len(b.text) - beg] ==
        \* The piece after n steps, and whether it is done.
        IF n = 0 THEN [piece |-> [NoPiece EXCEPT !.start = beg, !.limit = beg], done |-> FALSE]
        ELSE Next(f[n - 1])
  IN f[Len(b.text) - beg].piece

\* Where to start reading backward: not inside a well-formed character.
Aligned(b, beg) ==
  LET Leads(before) ==
        {d \in 1 .. Len(before) : d <= 3 /\ before[Len(before) + 1 - d] \notin Tails}
      Within(d, n, candidate) ==
        /\ candidate[1] \in 194 .. 244 /\ n > d /\ Len(candidate) >= n
        /\ Decode(candidate, 1).next = n + 1
      Behind(d, n, candidate) == IF Within(d, n, candidate) THEN beg + n - d ELSE beg
      Lead(d, candidate) == Behind(d, Announced(candidate[1]), candidate)
      Nearest(d) == Lead(d, ReadForward(b, beg - d))
      From(leads) == IF leads = {} THEN beg ELSE Nearest(CHOOSE i \in leads : \A j \in leads : i <= j)
  IN From(Leads(ReadBackward(b, beg)))

Least(m, n) == IF m < n THEN m ELSE n

\* utext_access_impl for an index inside the text: the UText with the piece at hand.
Access(ut, b, index, forward) ==
  LET contained == IF forward THEN index ELSE index - 1
      Hits(cache) == {i \in 1 .. 2 : contained \in cache[i].start .. cache[i].limit - 1}
      Make(limit) == Translate(b, IF forward THEN index ELSE Aligned(b, index - limit), limit)
      Hit(cache, i) == [ut EXCEPT !.a = {b.generation}, !.cache = cache, !.mru = i, !.chunk = cache[i]]
      Miss(cache, next, piece) ==
        [ut EXCEPT !.a = {b.generation}, !.cache = [cache EXCEPT ![next] = piece],
                   !.mru = next, !.chunk = piece]
      In(cache) ==
        IF Hits(cache) # {} THEN Hit(cache, CHOOSE i \in Hits(cache) : \A j \in Hits(cache) : i <= j)
        ELSE Miss(cache, 3 - ut.mru,
                  Make(Least(IF forward THEN Len(b.text) - index ELSE index, Utf16LenLimit)))
  IN In(IF ut.a # {b.generation} THEN <<NoPiece, NoPiece>> ELSE ut.cache)

InText(b, index, forward) ==
  IF forward THEN index < Len(b.text) ELSE index > 0 /\ index <= Len(b.text)

\* utext_access: outside the text it answers no and leaves the chunk.
Accessed(ut, b, index, forward) ==
  IF InText(b, index, forward) THEN Access(ut, b, index, forward) ELSE ut

\* Mutant: the pieces that are there are taken for those of the text.
SetTextKeeping(ut, b, offset) == Accessed(ut, b, offset, TRUE)

\* Regex::set_text: the chunk is dropped and the generation forgotten before ICU gets the text.
SetText(ut, b, offset) ==
  Accessed([ut EXCEPT !.a = {}, !.chunk = NoPiece], b, offset, TRUE)

\* utext_map_offset_to_native and utext_map_native_index_to_utf16.
ToNative(ut, unit) == ut.cache[ut.mru].start + ut.cache[ut.mru].toNative[unit + 1]
ToUtf16(ut, index) == ut.cache[ut.mru].toUtf16[index - ut.chunk.start + 1]

\* External: ICU reads on in the chunk it has, and asks for another where that ends.
Reached(ut, b, index) ==
  IF index \in ut.chunk.start .. ut.chunk.limit - 1 THEN ut ELSE Accessed(ut, b, index, TRUE)

-----------------------------------------------------------------------------
(***************************************************************************)
(* What a piece must be.                                                   *)
(***************************************************************************)
BoundariesOf(chars, s) == {chars[i].at - 1 : i \in 1 .. Len(chars)} \cup {Len(s)}
Boundaries(s) == BoundariesOf(Chars(s), s)

UnitsBetween(chars, from, to) ==
  LET f[i \in 0 .. Len(chars)] ==
        IF i = 0 THEN <<>>
        ELSE IF chars[i].at - 1 \in from .. to - 1 THEN f[i - 1] \o Utf16(chars[i].cp)
        ELSE f[i - 1]
  IN f[Len(chars)]

\* A piece holds the characters between its ends, and both tables lead from every character
\* to its place on the other side.
PieceIsRight(p, s) ==
  LET Right(chars, boundaries) ==
        /\ {p.start, p.limit} \subseteq boundaries
        /\ p.units = UnitsBetween(chars, p.start, p.limit)
        /\ \A k \in boundaries \cap p.start .. p.limit :
             \E unit \in {Len(UnitsBetween(chars, p.start, k))} :
               p.toUtf16[k - p.start + 1] = unit /\ p.start + p.toNative[unit + 1] = k
      With(chars) == Right(chars, BoundariesOf(chars, s))
  IN /\ With(Chars(s))
     /\ Len(p.units) <= CacheSize - 1 /\ p.limit - p.start <= CacheSize - 1

\* An answered access has the index in its piece, and can map both ways.
AccessIsRight(ut, b, index, forward) ==
  LET contained == IF forward THEN index ELSE index - 1
      Right(u) ==
        /\ contained \in u.chunk.start .. u.chunk.limit - 1
        /\ PieceIsRight(u.chunk, b.text)
        /\ ToNative(u, ToUtf16(u, index)) = index
  IN InText(b, index, forward) => Right(Access(ut, b, index, forward))
=================================================================================
