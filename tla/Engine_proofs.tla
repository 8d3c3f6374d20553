---------------------------- MODULE Engine_proofs ----------------------------
(***************************************************************************)
(* What the editor is built on: the gap buffer and the scratch arenas, the *)
(* two users of raw memory, and the search through the text.               *)
(*                                                                         *)
(* The gap buffer holds the text its callers expect, for every size of     *)
(* memory, chunk and text.                                                 *)
(*                                                                         *)
(* Each step is described twice: what it does to the fields, and what it   *)
(* does to the text the fields show.  Only the three lemmas on MoveGap,    *)
(* DeleteText and EnlargeGap reason about single addresses.                *)
(***************************************************************************)
EXTENDS GapBuffer, ArenaState, SearchState, Splicing_proofs, TLAPS

Memory(n) == [0..n - 1 -> Byte \cup {Fill}]

\* The bytes outside the gap are the text t.
Shows(b, t) ==
  /\ t \in Seq(Byte)
  /\ Len(t) = b.textLength
  /\ \A i \in 1..Len(t) : b.mem[Address(b, i - 1)] = t[i]

-----------------------------------------------------------------------------
(***************************************************************************)
(* Memory                                                                  *)
(***************************************************************************)

IsCopy(r, mem, c, src, dst, n) ==
  /\ r \in Memory(c)
  /\ \A i \in 0..c - 1 :
       r[i] = IF i >= dst /\ i < dst + n THEN mem[i - dst + src] ELSE mem[i]

IsScribble(r, mem, c, off, n) ==
  /\ r \in Memory(c)
  /\ \A i \in 0..c - 1 : i < off \/ i >= off + n => r[i] = mem[i]

IsPut(r, mem, c, off, src) ==
  /\ r \in Memory(c)
  /\ \A i \in 0..c - 1 :
       r[i] = IF i >= off /\ i < off + Len(src) THEN src[i - off + 1] ELSE mem[i]

IsCommit(r, mem, c, d) ==
  /\ r \in Memory(d)
  /\ \A i \in 0..c - 1 : r[i] = mem[i]

LEMMA CopyMemory ==
  ASSUME NEW n \in Nat, NEW mem \in Memory(n), NEW src \in Nat, NEW dst \in Nat,
         NEW len \in Nat, src + len <= n
  PROVE  IsCopy(Copy(mem, src, dst, len), mem, n, src, dst, len)
<1>1. DOMAIN mem = 0..n - 1
  BY DEF Memory
<1>2. \A i \in 0..n - 1 : i \in dst..dst + len - 1 <=> i >= dst /\ i < dst + len
  OBVIOUS
<1>3. \A i \in 0..n - 1 : i >= dst /\ i < dst + len => i - dst + src \in 0..n - 1
  OBVIOUS
<1>4. \A i \in 0..n - 1 : Copy(mem, src, dst, len)[i] =
                IF i >= dst /\ i < dst + len THEN mem[i - dst + src] ELSE mem[i]
  BY <1>1, <1>2 DEF Copy
<1>5. \A i \in 0..n - 1 : mem[i] \in Byte \cup {Fill}
  BY DEF Memory
<1>6. \A i \in 0..n - 1 : Copy(mem, src, dst, len)[i] \in Byte \cup {Fill}
  BY <1>3, <1>4, <1>5
<1>7. Copy(mem, src, dst, len) \in Memory(n)
  BY <1>1, <1>4, <1>6 DEF Copy, Memory
<1> QED BY <1>4, <1>7 DEF IsCopy

LEMMA ScribbleMemory ==
  ASSUME NEW n \in Nat, NEW mem \in Memory(n), NEW off \in Nat, NEW len \in Nat
  PROVE  IsScribble(Scribble(mem, off, len), mem, n, off, len)
<1>1. DOMAIN mem = 0..n - 1
  BY DEF Memory
<1>2. \A i \in 0..n - 1 : i \in off..off + len - 1 <=> i >= off /\ i < off + len
  OBVIOUS
<1> QED BY <1>1, <1>2 DEF Scribble, Memory, IsScribble

LEMMA PutMemory ==
  ASSUME NEW n \in Nat, NEW mem \in Memory(n), NEW off \in Nat,
         NEW src \in Seq(Byte), off + Len(src) <= n
  PROVE  IsPut(Put(mem, off, src), mem, n, off, src)
<1>1. DOMAIN mem = 0..n - 1
  BY DEF Memory
<1>2. \A i \in 0..n - 1 :
        i \in off..off + Len(src) - 1 <=> i >= off /\ i < off + Len(src)
  OBVIOUS
<1>3. \A i \in 0..n - 1 : i >= off /\ i < off + Len(src) =>
        i - off + 1 \in 1..Len(src)
  OBVIOUS
<1>4. \A i \in 0..n - 1 : mem[i] \in Byte \cup {Fill}
  BY DEF Memory
<1>5. \A i \in 0..n - 1 : Put(mem, off, src)[i] =
                IF i >= off /\ i < off + Len(src) THEN src[i - off + 1] ELSE mem[i]
  BY <1>1, <1>2 DEF Put
<1>6. \A i \in 0..n - 1 : Put(mem, off, src)[i] \in Byte \cup {Fill}
  <2>1. \A j \in 1..Len(src) : src[j] \in Byte
    OBVIOUS
  <2> QED BY ONLY <1>3, <1>4, <1>5, <2>1
<1>7. Put(mem, off, src) \in Memory(n)
  BY <1>1, <1>5, <1>6 DEF Put, Memory
<1> QED BY <1>5, <1>7 DEF IsPut

LEMMA CommitMemory ==
  ASSUME NEW n \in Nat, NEW mem \in Memory(n), NEW m \in Nat, n <= m
  PROVE  IsCommit(Commit(mem, m), mem, n, m)
<1>1. DOMAIN mem = 0..n - 1
  BY DEF Memory
<1> QED BY <1>1 DEF Commit, Memory, IsCommit

\* The fields of a sound buffer.
LEMMA SoundFields ==
  ASSUME NEW b, Sound(b)
  PROVE  /\ b.reserve \in Nat /\ b.commit \in Nat /\ b.textLength \in Nat
         /\ b.gapOff \in Nat /\ b.gapLen \in Nat
         /\ b.generation \in 0..Revisions - 1 /\ b.counter \in 0..Revisions - 1
         /\ b.mem \in Memory(b.commit)
         /\ b.gapOff <= b.textLength
         /\ b.textLength + b.gapLen <= b.commit
         /\ b.commit <= b.reserve
  BY DEF Sound, Memory

-----------------------------------------------------------------------------
(***************************************************************************)
(* The steps that move bytes                                               *)
(***************************************************************************)

LEMMA MoveGapShows ==
  ASSUME NEW b, Sound(b), NEW t, Shows(b, t), NEW off \in 0..b.textLength
  PROVE  /\ Sound(MoveGap(b, off))
         /\ Shows(MoveGap(b, off), t)
         /\ MoveGap(b, off).gapOff = off
         /\ MoveGap(b, off).gapLen = b.gapLen
         /\ MoveGap(b, off).textLength = b.textLength
         /\ MoveGap(b, off).reserve = b.reserve
<1> DEFINE left == off < b.gapOff
           src == IF left THEN off ELSE b.gapOff + b.gapLen
           dst == IF left THEN off + b.gapLen ELSE b.gapOff
           n == IF left THEN b.gapOff - off ELSE off - b.gapOff
           copied == Copy(b.mem, src, dst, n)
           mem == IF b.gapLen > 0 THEN Scribble(copied, off, b.gapLen) ELSE b.mem
           r == [b EXCEPT !.mem = mem, !.gapOff = off]
<1>1. MoveGap(b, off) = r
  BY DEF MoveGap
<1>2. /\ b.textLength \in Nat /\ b.commit \in Nat /\ b.gapOff \in Nat
      /\ b.gapLen \in Nat /\ b.mem \in Memory(b.commit)
      /\ b.gapOff <= b.textLength
      /\ b.textLength + b.gapLen <= b.commit
  BY SoundFields
<1>3. src \in Nat /\ dst \in Nat /\ n \in Nat /\ src + n <= b.commit
  BY <1>2
<1>4. IsCopy(copied, b.mem, b.commit, src, dst, n)
  <2> HIDE DEF src, dst, n
  <2> QED BY <1>2, <1>3, CopyMemory
<1>5. /\ mem \in Memory(b.commit)
      /\ b.gapLen > 0 => IsScribble(mem, copied, b.commit, off, b.gapLen)
  <2>1. copied \in Memory(b.commit)
    BY <1>4 DEF IsCopy
  <2>2. off \in Nat
    BY <1>2
  <2> HIDE DEF copied
  <2>3. IsScribble(Scribble(copied, off, b.gapLen), copied, b.commit, off, b.gapLen)
    BY <1>2, <2>1, <2>2, ScribbleMemory
  <2> QED BY <1>2, <2>3 DEF IsScribble
<1>6. /\ r.mem = mem /\ r.gapOff = off /\ r.gapLen = b.gapLen
      /\ r.textLength = b.textLength /\ r.reserve = b.reserve
      /\ r.commit = b.commit
  BY DEF Sound
<1>7. Sound(r)
  <2> HIDE DEF mem
  <2>1. r \in [mem : {mem}, reserve : Nat, commit : Nat, textLength : Nat,
              gapOff : {off}, gapLen : Nat, generation : 0..Revisions - 1,
              counter : 0..Revisions - 1]
    BY DEF Sound
  <2> HIDE DEF r
  <2> QED BY <1>2, <1>5, <1>6, <2>1, SoundFields DEF Sound, Memory
<1>8. ASSUME NEW i \in 0..b.textLength - 1
      PROVE  r.mem[Address(r, i)] = b.mem[Address(b, i)]
  <2>1. CASE b.gapLen = 0
    BY <1>2, <1>6, <2>1 DEF Address
  <2>2. CASE b.gapLen > 0
    <3> DEFINE a == Address(r, i)
    <3>1. a = IF i < off THEN i ELSE i + b.gapLen
      BY <1>6 DEF Address
    <3>2. a \in 0..b.commit - 1 /\ (a < off \/ a >= off + b.gapLen)
      BY <1>2, <3>1
    <3>3. r.mem[a] = copied[a]
      <4> HIDE DEF mem, copied, a, r
      <4> QED BY <1>5, <1>6, <2>2, <3>2 DEF IsScribble
    <3>4. copied[a] = IF a >= dst /\ a < dst + n THEN b.mem[a - dst + src]
                      ELSE b.mem[a]
      <4> HIDE DEF copied, a, src, dst, n
      <4> QED BY <1>4, <3>2 DEF IsCopy
    <3>5. (IF a >= dst /\ a < dst + n THEN a - dst + src ELSE a) = Address(b, i)
      <4> HIDE DEF a, r
      <4> QED BY <1>2, <3>1 DEF Address
    <3> HIDE DEF a, copied, r, src, dst, n
    <3> QED BY <3>3, <3>4, <3>5 DEF a
  <2> QED BY <1>2, <2>1, <2>2
<1>9. Shows(r, t)
  <2> HIDE DEF r
  <2>1. t \in Seq(Byte) /\ Len(t) = r.textLength
    BY <1>6 DEF Shows
  <2>2. ASSUME NEW i \in 1..Len(t)
        PROVE  r.mem[Address(r, i - 1)] = t[i]
    <3>1. i - 1 \in 0..b.textLength - 1
      BY <1>2, <1>6, <2>1
    <3>2. b.mem[Address(b, i - 1)] = t[i]
      BY DEF Shows
    <3> QED BY <1>8, <3>1, <3>2
  <2> QED BY <2>1, <2>2 DEF Shows
<1> HIDE DEF r
<1> QED BY <1>1, <1>6, <1>7, <1>9

LEMMA DeleteTextShows ==
  ASSUME NEW b, Sound(b), NEW t, Shows(b, t),
         NEW n \in 0..b.textLength - b.gapOff
  PROVE  /\ Sound(DeleteText(b, n))
         /\ Shows(DeleteText(b, n), Splice(t, b.gapOff, n, <<>>))
         /\ DeleteText(b, n).gapOff = b.gapOff
         /\ DeleteText(b, n).gapLen = b.gapLen + n
         /\ DeleteText(b, n).textLength = b.textLength - n
         /\ DeleteText(b, n).reserve = b.reserve
<1> DEFINE mem == Scribble(b.mem, b.gapOff + b.gapLen, n)
           r == [b EXCEPT !.mem = mem, !.gapLen = b.gapLen + n,
                          !.textLength = b.textLength - n]
           u == Splice(t, b.gapOff, n, <<>>)
<1>1. DeleteText(b, n) = r
  BY DEF DeleteText
<1>2. /\ b.textLength \in Nat /\ b.commit \in Nat /\ b.gapOff \in Nat
      /\ b.gapLen \in Nat /\ b.mem \in Memory(b.commit)
      /\ b.gapOff <= b.textLength
      /\ b.textLength + b.gapLen <= b.commit
  BY SoundFields
<1>3. n \in Nat /\ b.gapOff + b.gapLen \in Nat /\ b.gapOff + n <= b.textLength
  BY <1>2
<1>4. IsScribble(mem, b.mem, b.commit, b.gapOff + b.gapLen, n)
  BY <1>2, <1>3, ScribbleMemory
<1>5. /\ r.mem = mem /\ r.gapOff = b.gapOff /\ r.gapLen = b.gapLen + n
      /\ r.textLength = b.textLength - n /\ r.reserve = b.reserve
      /\ r.commit = b.commit
  BY DEF Sound
<1>6. Sound(r)
  <2> HIDE DEF mem
  <2>1. r \in [mem : {mem}, reserve : Nat, commit : Nat,
              textLength : {b.textLength - n}, gapOff : Nat,
              gapLen : {b.gapLen + n}, generation : 0..Revisions - 1,
              counter : 0..Revisions - 1]
    BY DEF Sound
  <2> HIDE DEF r
  <2> QED BY <1>2, <1>3, <1>4, <1>5, <2>1, SoundFields
          DEF Sound, Memory, IsScribble
<1>7. IsSplice(u, Byte, t, b.gapOff, n, <<>>)
  <2>1. /\ t \in Seq(Byte) /\ <<>> \in Seq(Byte)
        /\ b.gapOff + n <= Len(t)
    BY <1>3 DEF Shows
  <2> QED BY <1>2, <1>3, <2>1, SpliceProperties
<1>8. Shows(r, u)
  <2> HIDE DEF r, u, mem
  <2>1. u \in Seq(Byte) /\ Len(u) = r.textLength /\ Len(t) = b.textLength
    BY <1>5, <1>7 DEF IsSplice, Shows
  <2>2. ASSUME NEW i \in 1..Len(u)
        PROVE  r.mem[Address(r, i - 1)] = u[i]
    <3>1. i \in 1..Len(t) - n + Len(<<>>)
      BY <1>2, <1>3, <1>5, <2>1
    <3>2. CASE i <= b.gapOff
      <4>1. u[i] = t[i]
        BY <1>7, <3>1, <3>2 DEF IsSplice
      <4>2. Address(r, i - 1) = i - 1 /\ Address(b, i - 1) = i - 1
        BY <1>2, <1>5, <3>2 DEF Address
      <4>3. i - 1 \in 0..b.commit - 1 /\ i - 1 < b.gapOff + b.gapLen
        BY <1>2, <3>2
      <4>4. mem[i - 1] = b.mem[i - 1]
        BY <1>4, <4>3 DEF IsScribble
      <4>5. b.mem[i - 1] = t[i]
        <5>1. i \in 1..Len(t)
          BY <1>2, <1>3, <2>1, <3>1
        <5> QED BY <4>2, <5>1 DEF Shows
      <4> QED BY <1>5, <4>1, <4>2, <4>4, <4>5
    <3>3. CASE i > b.gapOff
      <4>1. u[i] = t[i + n]
        <5>1. u[i] = t[i - 0 + n]
          BY <1>2, <1>7, <3>1, <3>3 DEF IsSplice
        <5> QED BY <5>1
      <4>2. /\ Address(r, i - 1) = i - 1 + (b.gapLen + n)
            /\ Address(b, i + n - 1) = i - 1 + (b.gapLen + n)
        BY <1>2, <1>3, <1>5, <3>3 DEF Address
      <4>3. /\ i - 1 + (b.gapLen + n) \in 0..b.commit - 1
            /\ i - 1 + (b.gapLen + n) >= b.gapOff + b.gapLen + n
        <5>1. i \in Nat /\ i <= b.textLength - n
          BY <1>2, <1>3, <1>5, <2>1
        <5>2. i - 1 + (b.gapLen + n) \in Nat
          BY <1>2, <1>3, <3>3, <5>1
        <5>3. i - 1 + (b.gapLen + n) <= b.commit - 1
          BY <1>2, <1>3, <5>1
        <5>4. i - 1 + (b.gapLen + n) >= b.gapOff + b.gapLen + n
          BY <1>2, <1>3, <3>3, <5>1
        <5> QED BY <1>2, <5>2, <5>3, <5>4
      <4>4. mem[i - 1 + (b.gapLen + n)] = b.mem[i - 1 + (b.gapLen + n)]
        BY <1>4, <4>3 DEF IsScribble
      <4>5. b.mem[i - 1 + (b.gapLen + n)] = t[i + n]
        <5>1. i + n \in 1..Len(t)
          BY <1>2, <1>3, <2>1, <3>1
        <5> QED BY <4>2, <5>1 DEF Shows
      <4> QED BY <1>5, <4>1, <4>2, <4>4, <4>5
    <3> QED BY <1>2, <3>2, <3>3
  <2> QED BY <2>1, <2>2 DEF Shows
<1> HIDE DEF r, u
<1> QED BY <1>1, <1>5, <1>6, <1>8 DEF u

\* Rounding down to a multiple of the chunk loses less than the chunk.
LEMMA RoundDownBounds ==
  ASSUME NEW n \in Nat, NEW chunk \in Nat \ {0}
  PROVE  /\ RoundDown(n, chunk) \in Nat
         /\ RoundDown(n, chunk) <= n
         /\ n < RoundDown(n, chunk) + chunk
<1>1. n % chunk \in 0..chunk - 1
  OBVIOUS
<1>2. n % chunk <= n
  OBVIOUS
<1> QED BY <1>1, <1>2 DEF RoundDown

LEMMA EnlargeGapShows ==
  ASSUME NEW b, Sound(b), NEW t, Shows(b, t), NEW len \in Nat, len > b.gapLen,
         NEW grants
  PROVE  /\ Sound(EnlargeGap(b, len, grants))
         /\ Shows(EnlargeGap(b, len, grants), t)
         /\ EnlargeGap(b, len, grants).gapOff = b.gapOff
         /\ EnlargeGap(b, len, grants).gapLen >= b.gapLen
         /\ EnlargeGap(b, len, grants).textLength = b.textLength
         /\ EnlargeGap(b, len, grants).reserve = b.reserve
<1> DEFINE gapLen == Least(RoundDown(len + GapChunk + GapChunk - 1, GapChunk),
                           b.reserve - b.textLength)
           bytes == b.textLength + gapLen
           commit == IF bytes > b.commit
                       THEN RoundDown(bytes + AllocChunk - 1, AllocChunk)
                       ELSE b.commit
           grown == Commit(b.mem, commit)
           src == b.gapOff + b.gapLen
           dst == b.gapOff + gapLen
           n == b.textLength - b.gapOff
           copied == Copy(grown, src, dst, n)
           mem == Scribble(copied, src, gapLen - b.gapLen)
           r == [b EXCEPT !.commit = commit, !.gapLen = gapLen, !.mem = mem]
<1>1. /\ b.textLength \in Nat /\ b.commit \in Nat /\ b.gapOff \in Nat
      /\ b.gapLen \in Nat /\ b.mem \in Memory(b.commit) /\ b.reserve \in Nat
      /\ b.gapOff <= b.textLength
      /\ b.textLength + b.gapLen <= b.commit
      /\ b.commit <= b.reserve
  BY SoundFields
<1>2. CASE bytes > b.commit /\ (commit > b.reserve \/ ~grants)
  <2>1. EnlargeGap(b, len, grants) = b
    BY <1>2 DEF EnlargeGap
  <2> QED BY <1>1, <2>1
<1>3. CASE ~(bytes > b.commit /\ (commit > b.reserve \/ ~grants))
  <2>1. EnlargeGap(b, len, grants) = r
    BY <1>3 DEF EnlargeGap
  <2>2. gapLen \in Nat /\ gapLen >= b.gapLen /\ gapLen <= b.reserve - b.textLength
    <3>1. GapChunk \in Nat \ {0} /\ len + GapChunk + GapChunk - 1 \in Nat
      BY ConstantsAssumption
    <3>2. DEFINE g == RoundDown(len + GapChunk + GapChunk - 1, GapChunk)
    <3>3. g \in Nat /\ len + GapChunk + GapChunk - 1 < g + GapChunk
      BY <3>1, RoundDownBounds
    <3> HIDE DEF g
    <3> QED BY <1>1, <3>1, <3>3 DEF g, Least
  <2>3. bytes \in Nat /\ bytes <= b.reserve
    <3> HIDE DEF gapLen
    <3> QED BY <1>1, <2>2
  <2>4. /\ commit \in Nat /\ bytes <= commit /\ b.commit <= commit
        /\ commit <= b.reserve
    <3> HIDE DEF bytes
    <3>1. CASE bytes > b.commit
      <4>1. AllocChunk \in Nat \ {0} /\ bytes + AllocChunk - 1 \in Nat
        BY <2>3, ConstantsAssumption
      <4>2. DEFINE c == RoundDown(bytes + AllocChunk - 1, AllocChunk)
      <4>3. c \in Nat /\ bytes + AllocChunk - 1 < c + AllocChunk
        BY <4>1, RoundDownBounds
      <4>4. commit = c
        BY <3>1
      <4>5. c <= b.reserve
        BY <1>1, <1>3, <3>1, <4>3, <4>4
      <4> HIDE DEF c
      <4> QED BY <1>1, <2>3, <3>1, <4>1, <4>3, <4>4, <4>5
    <3>2. CASE ~(bytes > b.commit)
      BY <1>1, <2>3, <3>2
    <3> QED BY <3>1, <3>2
  <2>5. src \in Nat /\ dst \in Nat /\ n \in Nat /\ gapLen - b.gapLen \in Nat
        /\ src + n <= commit
    <3> HIDE DEF gapLen, commit
    <3> QED BY <1>1, <2>2, <2>4
  <2>6. IsCommit(grown, b.mem, b.commit, commit)
    <3> HIDE DEF commit
    <3> QED BY <1>1, <2>4, CommitMemory
  <2>7. IsCopy(copied, grown, commit, src, dst, n)
    <3>1. grown \in Memory(commit)
      BY <2>6 DEF IsCommit
    <3> HIDE DEF commit, grown, src, dst, n
    <3> QED BY <2>4, <2>5, <3>1, CopyMemory
  <2>8. IsScribble(mem, copied, commit, src, gapLen - b.gapLen)
    <3>1. copied \in Memory(commit)
      BY <2>7 DEF IsCopy
    <3> HIDE DEF commit, copied, src, gapLen
    <3> QED BY <2>4, <2>5, <3>1, ScribbleMemory
  <2> HIDE DEF gapLen, commit, grown, copied
  <2>9. /\ r.mem = mem /\ r.gapOff = b.gapOff /\ r.gapLen = gapLen
        /\ r.textLength = b.textLength /\ r.reserve = b.reserve
        /\ r.commit = commit
    BY DEF Sound
  <2>10. Sound(r)
    <3> HIDE DEF mem
    <3>1. r \in [mem : {mem}, reserve : Nat, commit : {commit}, textLength : Nat,
                 gapOff : Nat, gapLen : {gapLen}, generation : 0..Revisions - 1,
                 counter : 0..Revisions - 1]
      BY DEF Sound
    <3> HIDE DEF r
    <3> QED BY <1>1, <2>2, <2>3, <2>4, <2>8, <2>9, <3>1, SoundFields
            DEF Sound, Memory, IsScribble
  <2>11. ASSUME NEW i \in 0..b.textLength - 1
         PROVE  r.mem[Address(r, i)] = b.mem[Address(b, i)]
    <3> DEFINE a == Address(r, i)
    <3> HIDE DEF mem, r
    <3>1. a = IF i < b.gapOff THEN i ELSE i + gapLen
      BY <2>9 DEF Address
    <3>2. /\ a \in 0..commit - 1
          /\ a < src \/ a >= src + (gapLen - b.gapLen)
      BY <1>1, <2>2, <2>3, <2>4, <3>1
    <3>3. r.mem[a] = copied[a]
      <4> HIDE DEF a
      <4> QED BY <2>8, <2>9, <3>2 DEF IsScribble
    <3>4. copied[a] = IF a >= dst /\ a < dst + n THEN grown[a - dst + src]
                      ELSE grown[a]
      <4> HIDE DEF a, src, dst, n
      <4> QED BY <2>7, <3>2 DEF IsCopy
    <3>5. (IF a >= dst /\ a < dst + n THEN a - dst + src ELSE a) = Address(b, i)
      <4> HIDE DEF a
      <4> QED BY <1>1, <2>2, <3>1 DEF Address
    <3>6. grown[Address(b, i)] = b.mem[Address(b, i)]
      <4>1. Address(b, i) \in 0..b.commit - 1
        BY <1>1 DEF Address
      <4> QED BY <2>6, <4>1 DEF IsCommit
    <3> HIDE DEF a, src, dst, n
    <3> QED BY <3>3, <3>4, <3>5, <3>6 DEF a
  <2>12. Shows(r, t)
    <3> HIDE DEF r
    <3>1. t \in Seq(Byte) /\ Len(t) = r.textLength
      BY <2>9 DEF Shows
    <3>2. ASSUME NEW i \in 1..Len(t)
          PROVE  r.mem[Address(r, i - 1)] = t[i]
      <4>1. i - 1 \in 0..b.textLength - 1
        BY <1>1, <2>9, <3>1
      <4>2. b.mem[Address(b, i - 1)] = t[i]
        BY DEF Shows
      <4> QED BY <2>11, <4>1, <4>2
    <3> QED BY <3>1, <3>2 DEF Shows
  <2> HIDE DEF r
  <2> QED BY <1>1, <2>1, <2>2, <2>9, <2>10, <2>12
<1> QED BY <1>2, <1>3

LEMMA CommitGapShows ==
  ASSUME NEW b, Sound(b), NEW t, Shows(b, t), NEW src \in Seq(Byte),
         Len(src) <= b.gapLen
  PROVE  /\ Sound(CommitGap(b, src))
         /\ Shows(CommitGap(b, src), Splice(t, b.gapOff, 0, src))
<1> DEFINE n == 0 + Len(src)
           mem == Put(b.mem, b.gapOff, src)
           r == [b EXCEPT !.mem = mem, !.textLength = b.textLength + Len(src),
                          !.gapOff = b.gapOff + Len(src),
                          !.gapLen = b.gapLen - Len(src)]
           u == Splice(t, b.gapOff, 0, src)
<1>1. CommitGap(b, src) = r
  BY DEF CommitGap
<1>2. /\ b.textLength \in Nat /\ b.commit \in Nat /\ b.gapOff \in Nat
      /\ b.gapLen \in Nat /\ b.mem \in Memory(b.commit)
      /\ b.gapOff <= b.textLength
      /\ b.textLength + b.gapLen <= b.commit
  BY SoundFields
<1>3. n \in Nat /\ n = Len(src) /\ b.gapOff + n <= b.commit
  BY <1>2
<1>4. IsPut(mem, b.mem, b.commit, b.gapOff, src)
  BY <1>2, <1>3, PutMemory
<1>5. /\ r.mem = mem /\ r.gapOff = b.gapOff + n /\ r.gapLen = b.gapLen - n
      /\ r.textLength = b.textLength + n /\ r.reserve = b.reserve
      /\ r.commit = b.commit
  BY DEF Sound
<1>6. Sound(r)
  <2> HIDE DEF mem
  <2>1. r \in [mem : {mem}, reserve : Nat, commit : Nat,
              textLength : {b.textLength + Len(src)},
              gapOff : {b.gapOff + Len(src)}, gapLen : {b.gapLen - Len(src)},
              generation : 0..Revisions - 1, counter : 0..Revisions - 1]
    BY DEF Sound
  <2> HIDE DEF r
  <2> QED BY <1>2, <1>3, <1>4, <1>5, <2>1, SoundFields DEF Sound, Memory, IsPut
<1>7. IsSplice(u, Byte, t, b.gapOff, 0, src)
  <2>1. t \in Seq(Byte) /\ 0 \in Nat /\ b.gapOff + 0 <= Len(t)
    BY <1>2 DEF Shows
  <2> QED BY <1>2, <2>1, SpliceProperties
<1>8. Shows(r, u)
  <2> HIDE DEF r, u, mem
  <2>1. u \in Seq(Byte) /\ Len(u) = r.textLength /\ Len(t) = b.textLength
    BY <1>2, <1>5, <1>7 DEF IsSplice, Shows
  <2>2. ASSUME NEW i \in 1..Len(u)
        PROVE  r.mem[Address(r, i - 1)] = u[i]
    <3>1. i \in 1..Len(t) - 0 + Len(src)
      BY <1>2, <1>5, <2>1
    <3>2. u[i] = IF i <= b.gapOff THEN t[i]
                 ELSE IF i <= b.gapOff + n THEN src[i - b.gapOff]
                 ELSE t[i - n + 0]
      BY <1>7, <3>1 DEF IsSplice
    <3>3. Address(r, i - 1) = IF i <= b.gapOff + n THEN i - 1
                              ELSE i - 1 + b.gapLen - n
      BY <1>2, <1>3, <1>5 DEF Address
    <3>4. CASE i <= b.gapOff
      <4>1. Address(r, i - 1) = i - 1 /\ Address(b, i - 1) = i - 1
        BY <1>2, <1>3, <3>3, <3>4 DEF Address
      <4>2. i - 1 \in 0..b.commit - 1 /\ i \in 1..Len(t)
        BY <1>2, <2>1, <3>4
      <4>3. mem[i - 1] = b.mem[i - 1]
        BY <1>2, <1>4, <3>4, <4>2 DEF IsPut
      <4>4. b.mem[i - 1] = t[i]
        BY <4>1, <4>2 DEF Shows
      <4> QED BY <1>5, <3>2, <3>4, <4>1, <4>3, <4>4
    <3>5. CASE i > b.gapOff /\ i <= b.gapOff + n
      <4>1. Address(r, i - 1) = i - 1
        BY <3>3, <3>5
      <4>2. i - 1 \in 0..b.commit - 1
        BY <1>2, <1>3, <3>5
      <4>3. mem[i - 1] = src[i - 1 - b.gapOff + 1]
        <5>1. i - 1 >= b.gapOff /\ i - 1 < b.gapOff + Len(src)
          BY <1>2, <1>3, <3>5
        <5> HIDE DEF n
        <5> QED BY <1>4, <4>2, <5>1 DEF IsPut
      <4>4. i - 1 - b.gapOff + 1 = i - b.gapOff
        BY <1>2
      <4>5. u[i] = src[i - b.gapOff]
        BY <1>2, <3>2, <3>5
      <4> QED BY <1>5, <4>1, <4>3, <4>4, <4>5
    <3>6. CASE i > b.gapOff + n
      <4>1. Address(r, i - 1) = i - 1 + b.gapLen - n
        BY <1>2, <1>3, <3>3, <3>6
      <4>2. Address(b, i - n - 1) = i - 1 + b.gapLen - n
        BY <1>2, <1>3, <3>6 DEF Address
      <4>3. /\ i - 1 + b.gapLen - n \in 0..b.commit - 1
            /\ i - 1 + b.gapLen - n >= b.gapOff + n
            /\ i - n \in 1..Len(t)
        <5>1. i \in Nat /\ i <= b.textLength + n
          BY <1>2, <1>3, <1>5, <2>1
        <5> HIDE DEF n
        <5>2. i - 1 + b.gapLen - n \in Nat
          BY <1>2, <1>3, <3>6, <5>1
        <5>3. i - 1 + b.gapLen - n <= b.commit - 1
          BY <1>2, <1>3, <5>1
        <5>4. i - 1 + b.gapLen - n >= b.gapOff + n
          BY <1>2, <1>3, <3>6, <5>1
        <5> QED BY <1>2, <1>3, <2>1, <3>6, <5>1, <5>2, <5>3, <5>4
      <4>4. mem[i - 1 + b.gapLen - n] = b.mem[i - 1 + b.gapLen - n]
        <5> DEFINE a == i - 1 + b.gapLen - n
        <5>1. a \in 0..b.commit - 1 /\ ~(a < b.gapOff + Len(src))
          BY <1>2, <1>3, <4>3
        <5> HIDE DEF a, n
        <5>2. mem[a] = b.mem[a]
          BY <1>4, <5>1 DEF IsPut
        <5> QED BY <5>2 DEF a
      <4>5. b.mem[i - 1 + b.gapLen - n] = t[i - n]
        BY <4>2, <4>3 DEF Shows
      <4>6. u[i] = t[i - n]
        <5>1. i - n + 0 = i - n /\ ~(i <= b.gapOff) /\ ~(i <= b.gapOff + n)
          BY <1>2, <1>3, <3>6
        <5> QED BY <3>2, <5>1
      <4> QED BY <1>5, <4>1, <4>4, <4>5, <4>6
    <3> QED BY <1>2, <1>3, <3>4, <3>5, <3>6
  <2> QED BY <2>1, <2>2 DEF Shows
<1> HIDE DEF r, u
<1> QED BY <1>1, <1>6, <1>8 DEF u

-----------------------------------------------------------------------------
(***************************************************************************)
(* Stamps                                                                  *)
(***************************************************************************)

NextStamp(g) == IF g + 1 = Revisions THEN 0 ELSE g + 1

\* The stamp k before g.
Back(g, k) == IF k <= g THEN g - k ELSE g + Revisions - k

\* The current stamp is at most an undo's reach behind the newest.
Behind(b) == \E k \in 0..MaxRewind : b.generation = Back(b.counter, k)

\* What one or two bumps of b's counter leave.
Stamped(b, r) ==
  /\ r.counter = r.generation
  /\ r.counter = NextStamp(b.counter) \/ r.counter = NextStamp(NextStamp(b.counter))

LEMMA StampedMoves ==
  ASSUME NEW b, Sound(b), Behind(b), NEW r, Stamped(b, r)
  PROVE  /\ r.generation # b.generation
         /\ r.counter # b.counter
         /\ Behind(r)
<1>1. /\ b.counter \in 0..Revisions - 1
      /\ b.generation \in 0..Revisions - 1
  BY SoundFields
<1>2. /\ Revisions \in Nat /\ MaxRewind \in Nat /\ MaxRewind + 2 < Revisions
  BY ConstantsAssumption
<1>3. PICK k \in 0..MaxRewind : b.generation = Back(b.counter, k)
  BY DEF Behind
<1>4. PICK c \in 0..Revisions - 1 : c = b.counter
  BY <1>1
<1>5. /\ NextStamp(c) # c /\ NextStamp(NextStamp(c)) # c
      /\ NextStamp(c) # Back(c, k) /\ NextStamp(NextStamp(c)) # Back(c, k)
      /\ NextStamp(c) \in 0..Revisions - 1 /\ NextStamp(NextStamp(c)) \in 0..Revisions - 1
  BY <1>2 DEF NextStamp, Back
<1>6. Behind(r)
  <2>1. r.counter \in 0..Revisions - 1
    BY <1>4, <1>5 DEF Stamped
  <2>2. Back(r.counter, 0) = r.counter
    BY <2>1 DEF Back
  <2>3. 0 \in 0..MaxRewind
    BY <1>2
  <2> QED BY <2>2, <2>3 DEF Behind, Stamped
<1> QED BY <1>3, <1>4, <1>5, <1>6 DEF Stamped

LEMMA BumpShows ==
  ASSUME NEW b, Sound(b), NEW t, Shows(b, t)
  PROVE  /\ Sound(Bump(b))
         /\ Shows(Bump(b), t)
         /\ Bump(b).gapOff = b.gapOff
         /\ Bump(b).gapLen = b.gapLen
         /\ Bump(b).textLength = b.textLength
         /\ Bump(b).reserve = b.reserve
         /\ Bump(b).counter = NextStamp(b.counter)
         /\ Bump(b).generation = NextStamp(b.counter)
<1> DEFINE g == NextStamp(b.counter)
           r == [b EXCEPT !.counter = g, !.generation = g]
<1>1. Bump(b) = r
  BY DEF Bump, NextStamp
<1>2. g \in 0..Revisions - 1
  BY SoundFields, ConstantsAssumption DEF NextStamp
<1> HIDE DEF g
<1>3. /\ r.mem = b.mem /\ r.gapOff = b.gapOff /\ r.gapLen = b.gapLen
      /\ r.textLength = b.textLength /\ r.reserve = b.reserve
      /\ r.commit = b.commit /\ r.counter = g /\ r.generation = g
  BY DEF Sound
<1>4. r \in [mem : {b.mem}, reserve : Nat, commit : Nat, textLength : Nat,
             gapOff : Nat, gapLen : Nat, generation : {g}, counter : {g}]
  BY DEF Sound
<1> HIDE DEF r
<1>5. Sound(r)
  BY <1>2, <1>3, <1>4, SoundFields DEF Sound, Memory
<1>6. Shows(r, t)
  <2>1. \A i : Address(r, i) = Address(b, i)
    BY <1>3 DEF Address
  <2> QED BY <1>3, <2>1 DEF Shows
<1> QED BY <1>1, <1>3, <1>5, <1>6 DEF g

-----------------------------------------------------------------------------
(***************************************************************************)
(* The composed steps                                                      *)
(***************************************************************************)

LEMMA ReserveInsertShows ==
  ASSUME NEW b, Sound(b), NEW t, Shows(b, t), NEW len \in Nat, NEW grants
  PROVE  /\ Sound(ReserveInsert(b, len, grants))
         /\ Shows(ReserveInsert(b, len, grants), t)
         /\ ReserveInsert(b, len, grants).gapLen >= b.gapLen
         /\ ReserveInsert(b, len, grants).textLength = b.textLength
         /\ ReserveInsert(b, len, grants).counter = b.counter
         /\ ReserveInsert(b, len, grants).generation = b.generation
<1>1. b.gapLen \in Nat
  BY SoundFields
<1>2. CASE len <= b.gapLen \/ len > b.reserve - b.textLength
  <2>1. ReserveInsert(b, len, grants) = b
    BY <1>2 DEF ReserveInsert
  <2> QED BY <1>1, <2>1
<1>3. CASE ~(len <= b.gapLen \/ len > b.reserve - b.textLength)
  <2>1. ReserveInsert(b, len, grants) = EnlargeGap(b, len, grants)
    BY <1>3 DEF ReserveInsert
  <2>2. len > b.gapLen
    BY <1>1, <1>3
  <2>3. /\ EnlargeGap(b, len, grants).counter = b.counter
        /\ EnlargeGap(b, len, grants).generation = b.generation
    BY DEF EnlargeGap, Sound
  <2> QED BY <2>1, <2>2, <2>3, EnlargeGapShows
<1> QED BY <1>2, <1>3

LEMMA AllocateGapShows ==
  ASSUME NEW b, Sound(b), NEW t, Shows(b, t), NEW off \in Nat,
         NEW len \in Nat, NEW delete \in Nat, NEW grants
  PROVE  LET beg == Least(off, b.textLength)
             n == Least(delete, b.textLength - beg)
             r == AllocateGap(b, off, len, delete, grants)
         IN  /\ beg \in Nat /\ n \in Nat /\ beg + n <= b.textLength
             /\ Sound(r)
             /\ Shows(r, Splice(t, beg, n, <<>>))
             /\ r.gapOff = beg
             /\ r.gapLen >= b.gapLen + n
             /\ r.counter = NextStamp(b.counter)
             /\ r.generation = NextStamp(b.counter)
<1> DEFINE beg == Least(off, b.textLength)
           n == Least(delete, b.textLength - beg)
           moved == IF beg # b.gapOff THEN MoveGap(b, beg) ELSE b
           deleted == IF n > 0 THEN DeleteText(moved, n) ELSE moved
           enlarged == IF len > deleted.gapLen
                         THEN EnlargeGap(deleted, len, grants) ELSE deleted
           u == Splice(t, beg, n, <<>>)
<1>1. AllocateGap(b, off, len, delete, grants) = Bump(enlarged)
  BY DEF AllocateGap
<1>2. /\ b.textLength \in Nat /\ b.gapOff \in Nat /\ b.gapLen \in Nat
      /\ b.gapOff <= b.textLength
      /\ b.counter \in 0..Revisions - 1
  BY SoundFields
<1>3. beg \in 0..b.textLength /\ n \in 0..b.textLength - beg
  BY <1>2 DEF Least
<1> HIDE DEF beg, n
<1>4. /\ Sound(moved) /\ Shows(moved, t) /\ moved.gapOff = beg
      /\ moved.gapLen = b.gapLen /\ moved.textLength = b.textLength
      /\ moved.counter = b.counter
  <2>1. MoveGap(b, beg).counter = b.counter
    BY DEF MoveGap, Sound
  <2> QED BY <1>3, <2>1, MoveGapShows
<1> HIDE DEF moved
<1>5. /\ Sound(deleted) /\ Shows(deleted, u) /\ deleted.gapOff = beg
      /\ deleted.gapLen = b.gapLen + n /\ deleted.counter = b.counter
  <2>1. CASE n > 0
    <3>1. n \in 0..moved.textLength - moved.gapOff
      BY <1>3, <1>4
    <3>2. DeleteText(moved, n).counter = moved.counter
      BY <1>4 DEF DeleteText, Sound
    <3> QED BY <1>4, <2>1, <3>1, <3>2, DeleteTextShows
  <2>2. CASE ~(n > 0)
    <3>1. n = 0
      BY <1>2, <1>3, <2>2
    <3>2. u = t
      BY <1>2, <1>3, <3>1, SpliceNothing DEF Shows
    <3> QED BY <1>2, <1>4, <3>1, <3>2
  <2> QED BY <2>1, <2>2
<1> HIDE DEF deleted
<1>6. /\ Sound(enlarged) /\ Shows(enlarged, u) /\ enlarged.gapOff = beg
      /\ enlarged.gapLen >= b.gapLen + n /\ enlarged.counter = b.counter
  <2>1. CASE len > deleted.gapLen
    <3>1. EnlargeGap(deleted, len, grants).counter = deleted.counter
      BY <1>5 DEF EnlargeGap, Sound
    <3> QED BY <1>5, <2>1, <3>1, EnlargeGapShows
  <2>2. CASE ~(len > deleted.gapLen)
    BY <1>2, <1>3, <1>5, <2>2
  <2> QED BY <2>1, <2>2
<1> HIDE DEF enlarged
<1>7. beg \in Nat /\ n \in Nat /\ beg + n <= b.textLength
  BY <1>2, <1>3
<1> QED BY <1>1, <1>6, <1>7, BumpShows DEF beg, n

\* A caller that fills the gap it was lent has replaced what it deleted.
LEMMA FilledShows ==
  ASSUME NEW b, Sound(b), NEW t, Shows(b, t), NEW off \in Nat,
         NEW len \in Nat, NEW delete \in Nat, NEW grants, NEW src \in Seq(Byte),
         Len(src) <= AllocateGap(b, off, len, delete, grants).gapLen
  PROVE  LET beg == Least(off, b.textLength)
             n == Least(delete, b.textLength - beg)
             r == CommitGap(AllocateGap(b, off, len, delete, grants), src)
         IN  /\ Sound(r)
             /\ Shows(r, Splice(t, beg, n, src))
             /\ r.counter = NextStamp(b.counter)
             /\ r.generation = NextStamp(b.counter)
<1> DEFINE beg == Least(off, b.textLength)
           n == Least(delete, b.textLength - beg)
           gap == AllocateGap(b, off, len, delete, grants)
           r == CommitGap(gap, src)
           u == Splice(t, beg, n, <<>>)
<1>1. /\ beg \in Nat /\ n \in Nat /\ beg + n <= b.textLength
      /\ Sound(gap) /\ Shows(gap, u) /\ gap.gapOff = beg
      /\ gap.counter = NextStamp(b.counter)
      /\ gap.generation = NextStamp(b.counter)
  BY AllocateGapShows
<1>2. Len(src) <= gap.gapLen
  OBVIOUS
<1> HIDE DEF gap, beg, n
<1>3. Sound(r) /\ Shows(r, Splice(u, beg, 0, src))
  BY <1>1, <1>2, CommitGapShows
<1>4. r.counter = gap.counter /\ r.generation = gap.generation
  BY <1>1 DEF CommitGap, Sound
<1>5. t \in Seq(Byte) /\ beg + n <= Len(t)
  BY <1>1 DEF Shows
<1>6. Splice(u, beg, 0, src) = Splice(t, beg, n, src)
  BY <1>1, <1>5, SpliceInTwo
<1> HIDE DEF r
<1> QED BY <1>1, <1>3, <1>4, <1>6 DEF r, gap, beg, n

\* r is b, which shows t, with src in the place of what is from beg to end, if that fits.
Replaces(r, b, t, beg, end, src, grants) ==
  LET at == Least(beg, b.textLength)
      n == Deleted(b, beg, end)
  IN  /\ at \in Nat /\ n \in Nat /\ at + n <= b.textLength
      /\ Sound(r)
      /\ Fits(b, beg, end, src, grants) =>
           /\ Shows(r, Splice(t, at, n, src))
           /\ r.counter = NextStamp(b.counter)
           /\ r.generation = NextStamp(b.counter)
      /\ ~Fits(b, beg, end, src, grants) =>
           /\ Shows(r, t)
           /\ r.counter = b.counter
           /\ r.generation = b.generation

LEMMA ReplaceShows ==
  ASSUME NEW b, Sound(b), NEW t, Shows(b, t), NEW beg \in Nat, NEW end \in Nat,
         NEW src \in Seq(Byte), NEW grants
  PROVE  Replaces(Replace(b, beg, end, src, grants), b, t, beg, end, src, grants)
<1> DEFINE r == Replace(b, beg, end, src, grants)
           at == Least(beg, b.textLength)
           n == Deleted(b, beg, end)
           needed == Monus(Len(src), n)
           reserved == ReserveInsert(b, needed, grants)
           gap == AllocateGap(reserved, beg, Len(src), Monus(end, beg), grants)
           put == SubSeq(src, 1, Least(Len(src), gap.gapLen))
<1>1. b.textLength \in Nat
  BY SoundFields
<1>2. at \in Nat /\ n \in Nat /\ at + n <= b.textLength
  BY <1>1 DEF Least, Deleted, Monus
<1>3. Monus(end, beg) \in Nat /\ n = Least(Monus(end, beg), b.textLength - at)
  BY <1>1 DEF Least, Deleted, Monus
<1> HIDE DEF n
<1>4. needed \in Nat /\ needed + n >= Len(src)
  BY <1>2 DEF Monus
<1> HIDE DEF needed
<1>5. /\ Sound(reserved) /\ Shows(reserved, t)
      /\ reserved.textLength = b.textLength
      /\ reserved.counter = b.counter /\ reserved.generation = b.generation
  BY <1>4, ReserveInsertShows
<1>6. Fits(b, beg, end, src, grants) <=> needed <= reserved.gapLen
  BY DEF Fits, needed, n
<1>7. r = IF Fits(b, beg, end, src, grants) THEN CommitGap(gap, put) ELSE reserved
  BY DEF Replace, needed, n
<1> HIDE DEF reserved, r
<1>8. CASE Fits(b, beg, end, src, grants)
  <2>1. Sound(gap) /\ gap.gapLen >= reserved.gapLen + n
    <3>1. Len(src) \in Nat
      OBVIOUS
    <3> HIDE DEF at
    <3> QED BY <1>3, <1>5, <3>1, AllocateGapShows DEF at
  <2>2. reserved.gapLen \in Nat /\ gap.gapLen \in Nat
    BY <1>5, <2>1, SoundFields
  <2>3. Len(src) <= gap.gapLen
    <3> HIDE DEF gap
    <3> QED BY <1>2, <1>4, <1>6, <1>8, <2>1, <2>2
  <2>4. put = src
    <3>1. Least(Len(src), gap.gapLen) = Len(src)
      BY <2>3 DEF Least
    <3>2. SubSeq(src, 1, Len(src)) = src
      OBVIOUS
    <3> QED BY <3>1, <3>2
  <2> HIDE DEF put
  <2>5. LET q == CommitGap(gap, src)
        IN  /\ Sound(q) /\ Shows(q, Splice(t, at, n, src))
            /\ q.counter = NextStamp(b.counter)
            /\ q.generation = NextStamp(b.counter)
    <3>1. Len(src) \in Nat
      OBVIOUS
    <3> HIDE DEF at
    <3> QED BY <1>3, <1>5, <2>3, <3>1, FilledShows DEF at
  <2> HIDE DEF gap, at
  <2> QED BY <1>2, <1>7, <1>8, <2>4, <2>5 DEF r, at, n, Replaces
<1>9. CASE ~Fits(b, beg, end, src, grants)
  BY <1>2, <1>5, <1>7, <1>9 DEF r, n, Replaces
<1> QED BY <1>8, <1>9

-----------------------------------------------------------------------------
(***************************************************************************)
(* Reading                                                                 *)
(***************************************************************************)

\* c is the part of t after offset at.
IsPart(c, t, at) ==
  /\ c \in Seq(Byte)
  /\ at \in Nat
  /\ at + Len(c) <= Len(t)
  /\ \A i \in 1..Len(c) : c[i] = t[at + i]

\* The n bytes after offset at lie in one piece at addr.
InOnePiece(b, at, n, addr) ==
  /\ at \in Nat /\ n \in Nat /\ addr \in Nat
  /\ at + n <= b.textLength
  /\ \A i \in at..at + n - 1 : Address(b, i) = addr + (i - at)

LEMMA SliceShows ==
  ASSUME NEW b, NEW t, Shows(b, t), NEW at, NEW n, NEW addr,
         InOnePiece(b, at, n, addr)
  PROVE  IsPart(Slice(b, addr, n), t, at) /\ Len(Slice(b, addr, n)) = n
<1> DEFINE c == Slice(b, addr, n)
<1>1. t \in Seq(Byte) /\ Len(t) = b.textLength
  BY DEF Shows
<1> USE DEF InOnePiece
<1>2. ASSUME NEW i \in 1..n
      PROVE  b.mem[addr + i - 1] = t[at + i]
  <2>1. at + i - 1 \in at..at + n - 1 /\ addr + (at + i - 1 - at) = addr + i - 1
    OBVIOUS
  <2>2. at + i \in 1..Len(t)
    BY <1>1
  <2>3. b.mem[Address(b, at + i - 1)] = t[at + i]
    BY <2>2 DEF Shows
  <2> QED BY <2>1, <2>3
<1>3. c = [i \in 1..n |-> t[at + i]]
  BY <1>2 DEF Slice
<1>4. \A i \in 1..n : t[at + i] \in Byte
  <2>1. \A i \in 1..n : at + i \in 1..Len(t)
    BY <1>1
  <2> QED BY <1>1, <2>1
<1> HIDE DEF c
<1>5. c \in Seq(Byte) /\ Len(c) = n
  BY <1>3, <1>4
<1> QED BY <1>1, <1>3, <1>5 DEF IsPart, c

LEMMA ReadForwardShows ==
  ASSUME NEW b, Sound(b), NEW t, Shows(b, t), NEW offset \in Nat
  PROVE  LET at == Least(offset, b.textLength)
             c == ReadForward(b, offset)
         IN  /\ IsPart(c, t, at)
             /\ at < b.textLength => Len(c) > 0
<1> DEFINE at == Least(offset, b.textLength)
           c == ReadForward(b, offset)
<1>1. /\ b.textLength \in Nat /\ b.gapOff \in Nat /\ b.gapLen \in Nat
      /\ b.gapOff <= b.textLength
  BY SoundFields
<1>2. at \in Nat /\ at <= b.textLength
  BY <1>1 DEF Least
<1>3. CASE at < b.gapOff
  <2>1. c = Slice(b, at, b.gapOff - at)
    BY <1>3 DEF ReadForward
  <2>2. \A i \in at..at + (b.gapOff - at) - 1 : Address(b, i) = at + (i - at)
    BY <1>1, <1>2 DEF Address
  <2>3. b.gapOff - at \in Nat /\ at + (b.gapOff - at) <= b.textLength
        /\ b.gapOff - at > 0
    BY <1>1, <1>2, <1>3
  <2> HIDE DEF at
  <2> DEFINE n == b.gapOff - at
  <2>4. InOnePiece(b, at, n, at)
    BY <1>2, <2>2, <2>3 DEF InOnePiece
  <2>5. n \in Nat /\ at + n <= b.textLength /\ n > 0
    BY <2>3
  <2> HIDE DEF n
  <2>6. IsPart(Slice(b, at, n), t, at) /\ Len(Slice(b, at, n)) = n
    BY <2>4, SliceShows
  <2>7. c = Slice(b, at, n)
    BY <2>1 DEF n
  <2> HIDE DEF c
  <2> QED BY <2>5, <2>6, <2>7 DEF at, c
<1>4. CASE ~(at < b.gapOff)
  <2>1. c = Slice(b, at + b.gapLen, b.textLength - at)
    BY <1>4 DEF ReadForward
  <2>2. \A i \in at..at + (b.textLength - at) - 1 :
          Address(b, i) = at + b.gapLen + (i - at)
    BY <1>1, <1>2, <1>4 DEF Address
  <2>3. /\ b.textLength - at \in Nat /\ at + (b.textLength - at) <= b.textLength
        /\ at + b.gapLen \in Nat
        /\ at < b.textLength => b.textLength - at > 0
    BY <1>1, <1>2
  <2> HIDE DEF at
  <2> DEFINE n == b.textLength - at
             addr == at + b.gapLen
  <2>4. InOnePiece(b, at, n, addr)
    BY <1>2, <2>2, <2>3 DEF InOnePiece
  <2>5. /\ n \in Nat /\ at + n <= b.textLength /\ addr \in Nat
        /\ at < b.textLength => n > 0
    BY <2>3
  <2>6. c = Slice(b, addr, n)
    BY <2>1
  <2> HIDE DEF n, addr
  <2>7. IsPart(Slice(b, addr, n), t, at) /\ Len(Slice(b, addr, n)) = n
    BY <2>4, SliceShows
  <2> HIDE DEF c
  <2> QED BY <2>5, <2>6, <2>7 DEF at, c
<1> QED BY <1>3, <1>4

LEMMA ReadBackwardShows ==
  ASSUME NEW b, Sound(b), NEW t, Shows(b, t), NEW offset \in Nat
  PROVE  LET at == Least(offset, b.textLength)
             c == ReadBackward(b, offset)
         IN  /\ IsPart(c, t, at - Len(c))
             /\ at > 0 => Len(c) > 0
<1> DEFINE at == Least(offset, b.textLength)
           c == ReadBackward(b, offset)
<1>1. /\ b.textLength \in Nat /\ b.gapOff \in Nat /\ b.gapLen \in Nat
      /\ b.gapOff <= b.textLength
  BY SoundFields
<1>2. at \in Nat /\ at <= b.textLength
  BY <1>1 DEF Least
<1>3. CASE at <= b.gapOff
  <2>1. c = Slice(b, 0, at)
    BY <1>3 DEF ReadBackward
  <2>2. \A i \in 0..0 + at - 1 : Address(b, i) = 0 + (i - 0)
    BY <1>1, <1>2, <1>3 DEF Address
  <2>3. 0 \in Nat /\ 0 + at <= b.textLength
    BY <1>2
  <2> HIDE DEF at
  <2>4. IsPart(c, t, 0) /\ Len(c) = at
    <3>1. InOnePiece(b, 0, at, 0)
      BY <1>2, <2>2, <2>3 DEF InOnePiece
    <3> QED BY <2>1, <3>1, SliceShows
  <2> HIDE DEF c
  <2>5. at - Len(c) = 0
    BY <1>2, <2>4
  <2> QED BY <2>4, <2>5 DEF at, c
<1>4. CASE ~(at <= b.gapOff)
  <2>1. c = Slice(b, b.gapOff + b.gapLen, at - b.gapOff)
    BY <1>4 DEF ReadBackward
  <2>2. \A i \in b.gapOff..b.gapOff + (at - b.gapOff) - 1 :
          Address(b, i) = b.gapOff + b.gapLen + (i - b.gapOff)
    BY <1>1, <1>2, <1>4 DEF Address
  <2>3. at - b.gapOff \in Nat /\ b.gapOff + (at - b.gapOff) <= b.textLength
        /\ b.gapOff + b.gapLen \in Nat
    BY <1>1, <1>2, <1>4
  <2> HIDE DEF at
  <2> DEFINE beg == b.gapOff
             n == at - beg
             addr == beg + b.gapLen
  <2>4. InOnePiece(b, beg, n, addr)
    BY <1>1, <2>2, <2>3 DEF InOnePiece
  <2>5. beg \in Nat /\ n \in Nat /\ beg + n <= b.textLength /\ addr \in Nat
    BY <1>1, <2>3
  <2>6. c = Slice(b, addr, n)
    BY <2>1
  <2> HIDE DEF beg, n, addr
  <2>7. IsPart(Slice(b, addr, n), t, beg) /\ Len(Slice(b, addr, n)) = n
    BY <2>4, SliceShows
  <2>8. IsPart(c, t, b.gapOff) /\ Len(c) = at - b.gapOff
    BY <2>6, <2>7 DEF n, beg
  <2> HIDE DEF c
  <2>9. at - Len(c) = b.gapOff /\ Len(c) > 0
    BY <1>1, <1>2, <1>4, <2>8
  <2> QED BY <2>8, <2>9 DEF at, c
<1> QED BY <1>3, <1>4

\* A part is a sub-sequence.
LEMMA PartIsSubSeq ==
  ASSUME NEW c, NEW t \in Seq(Byte), NEW at, IsPart(c, t, at)
  PROVE  c = SubSeq(t, at + 1, at + Len(c))
<1> DEFINE s == SubSeq(t, at + 1, at + Len(c))
<1>1. c \in Seq(Byte) /\ at \in Nat /\ at + Len(c) <= Len(t)
      /\ \A i \in 1..Len(c) : c[i] = t[at + i]
  BY DEF IsPart
<1>2. s \in Seq(Byte) /\ Len(s) = Len(c) /\ \A i \in 1..Len(c) : s[i] = t[at + i]
  BY <1>1
<1> HIDE DEF s
<1> QED BY <1>1, <1>2 DEF s

-----------------------------------------------------------------------------
(***************************************************************************)
(* The operations                                                          *)
(***************************************************************************)

IInv ==
  /\ TypeOK
  /\ Shows(buf, oracle)
  /\ Behind(buf)

\* A step keeps the invariant, and stamps the contents it changes.
Good ==
  /\ IInv'
  /\ oracle' # oracle => Stamped(buf, buf')

LEMMA GoodStep ==
  ASSUME IInv, Sound(buf'), Shows(buf', oracle'), Stamped(buf, buf')
  PROVE  Good
<1>1. Sound(buf) /\ Behind(buf)
  BY DEF IInv, TypeOK
<1>2. Behind(buf')
  BY <1>1, StampedMoves
<1> QED BY <1>2 DEF Good, IInv, TypeOK, Shows, Behind, Sound, Address

LEMMA QuietStep ==
  ASSUME IInv, Sound(buf'), Shows(buf', oracle'), oracle' = oracle, Behind(buf')
  PROVE  Good
  BY DEF Good, IInv, TypeOK, Shows, Behind, Sound, Address

\* A step that leaves both stamps alone leaves the invariant on them alone.
LEMMA SameStamps ==
  ASSUME NEW b, Behind(b), NEW r, r.counter = b.counter,
         r.generation = b.generation
  PROVE  Behind(r)
  BY DEF Behind

LEMMA InitIInv == Init => IInv
<1> SUFFICES ASSUME Init PROVE IInv
  OBVIOUS
<1>1. /\ buf.mem = [i \in {} |-> Fill] /\ buf.reserve = Capacity
      /\ buf.commit = 0 /\ buf.textLength = 0 /\ buf.gapOff = 0 /\ buf.gapLen = 0
      /\ buf.generation = 0 /\ buf.counter = 0
  BY DEF Init, New
<1>2. buf \in [mem : {buf.mem}, reserve : Nat, commit : Nat, textLength : Nat,
               gapOff : Nat, gapLen : Nat, generation : 0..Revisions - 1,
               counter : 0..Revisions - 1]
  BY ConstantsAssumption DEF Init, New
<1>3. buf.mem \in [0..buf.commit - 1 -> Byte \cup {Fill}]
  <2>1. 0..buf.commit - 1 = {}
    BY <1>1
  <2> QED BY <1>1, <2>1
<1>4. Sound(buf)
  BY <1>1, <1>2, <1>3, ConstantsAssumption DEF Sound
<1>5. oracle = <<>>
  BY DEF Init
<1>6. Shows(buf, oracle)
  <2>1. <<>> \in Seq(Byte) /\ Len(<<>>) = 0
    OBVIOUS
  <2> QED BY <1>1, <1>5, <2>1 DEF Shows
<1>7. Behind(buf)
  <2>1. 0 \in 0..MaxRewind /\ Back(0, 0) = 0
    BY ConstantsAssumption DEF Back
  <2> QED BY <1>1, <2>1 DEF Behind
<1> QED BY <1>4, <1>5, <1>6, <1>7 DEF IInv, TypeOK

LEMMA ReplaceRangeGood ==
  ASSUME IInv, NEW beg \in Nat, NEW end \in Nat, NEW src \in Seq(Byte),
         NEW grants, ReplaceRange(beg, end, src, grants)
  PROVE  Good
<1>1. Sound(buf) /\ Shows(buf, oracle) /\ Behind(buf)
  BY DEF IInv, TypeOK
<1>2. buf' = Replace(buf, beg, end, src, grants)
  BY DEF ReplaceRange
<1>3. Len(oracle) = buf.textLength
  BY <1>1 DEF Shows
<1>4. /\ Sound(buf')
      /\ Fits(buf, beg, end, src, grants) =>
           /\ Shows(buf', Splice(oracle, Least(beg, buf.textLength),
                                 Deleted(buf, beg, end), src))
           /\ buf'.counter = NextStamp(buf.counter)
           /\ buf'.generation = NextStamp(buf.counter)
      /\ ~Fits(buf, beg, end, src, grants) =>
           /\ Shows(buf', oracle)
           /\ buf'.counter = buf.counter
           /\ buf'.generation = buf.generation
  <2>1. Replaces(buf', buf, oracle, beg, end, src, grants)
    BY <1>1, <1>2, ReplaceShows
  <2> QED BY ONLY <2>1 DEF Replaces
<1>5. CASE Fits(buf, beg, end, src, grants)
  <2>1. Shows(buf', oracle')
    BY <1>3, <1>4, <1>5 DEF ReplaceRange
  <2>2. Stamped(buf, buf')
    BY <1>4, <1>5 DEF Stamped
  <2> QED BY <1>4, <2>1, <2>2, GoodStep
<1>6. CASE ~Fits(buf, beg, end, src, grants)
  <2>1. oracle' = oracle
    BY <1>6 DEF ReplaceRange
  <2>2. Behind(buf')
    BY <1>1, <1>4, <1>6, SameStamps
  <2> QED BY <1>4, <1>6, <2>1, <2>2, QuietStep
<1> QED BY <1>5, <1>6

LEMMA FillGapGood ==
  ASSUME IInv, NEW off \in Nat, NEW delete \in Nat, NEW len \in Nat,
         NEW src \in Seq(Byte), NEW grants, FillGap(off, delete, len, src, grants)
  PROVE  Good
<1> DEFINE gap == AllocateGap(buf, off, len, delete, grants)
<1>1. Sound(buf) /\ Shows(buf, oracle)
  BY DEF IInv, TypeOK
<1>2. Len(oracle) = buf.textLength
  BY <1>1 DEF Shows
<1>3. Sound(gap)
  BY <1>1, AllocateGapShows
<1>4. Len(src) <= gap.gapLen
  <2>1. gap.gapLen \in Nat
    BY <1>3, SoundFields
  <2>2. Len(src) <= Least(len, gap.gapLen) /\ Len(src) \in Nat
    BY DEF FillGap
  <2> HIDE DEF gap
  <2> QED BY <2>1, <2>2 DEF Least
<1>5. buf' = CommitGap(gap, src)
  BY DEF FillGap
<1>6. /\ Sound(buf')
      /\ Shows(buf', Splice(oracle, Least(off, buf.textLength),
                            Least(delete, buf.textLength - Least(off, buf.textLength)),
                            src))
      /\ buf'.counter = NextStamp(buf.counter)
      /\ buf'.generation = NextStamp(buf.counter)
  BY <1>1, <1>4, <1>5, FilledShows
<1>7. Shows(buf', oracle')
  BY <1>2, <1>6 DEF FillGap
<1>8. Stamped(buf, buf')
  BY <1>6 DEF Stamped
<1> QED BY <1>6, <1>7, <1>8, GoodStep

LEMMA PreflightGood ==
  ASSUME IInv, NEW len \in Nat, NEW grants, Preflight(len, grants)
  PROVE  Good
<1>1. Sound(buf) /\ Shows(buf, oracle) /\ Behind(buf)
  BY DEF IInv, TypeOK
<1>2. /\ Sound(buf') /\ Shows(buf', oracle)
      /\ buf'.counter = buf.counter /\ buf'.generation = buf.generation
  BY <1>1, ReserveInsertShows DEF Preflight
<1>3. Behind(buf') /\ oracle' = oracle
  BY <1>1, <1>2, SameStamps DEF Preflight
<1> QED BY <1>2, <1>3, QuietStep

LEMMA ClearGood ==
  ASSUME IInv, Clear
  PROVE  Good
<1> DEFINE b == Bump(buf)
           r == [b EXCEPT !.gapOff = 0, !.gapLen = @ + buf.textLength,
                          !.textLength = 0]
<1>1. Sound(buf) /\ Shows(buf, oracle)
  BY DEF IInv, TypeOK
<1>2. /\ Sound(b) /\ b.textLength = buf.textLength
      /\ b.counter = NextStamp(buf.counter)
      /\ b.generation = NextStamp(buf.counter)
  BY <1>1, BumpShows
<1>3. buf' = r /\ oracle' = <<>>
  BY DEF Clear
<1> HIDE DEF b
<1>4. /\ b.commit \in Nat /\ b.textLength \in Nat /\ b.gapLen \in Nat
      /\ b.mem \in Memory(b.commit) /\ b.textLength + b.gapLen <= b.commit
      /\ b.commit <= b.reserve
  BY <1>2, SoundFields
<1>5. /\ r.mem = b.mem /\ r.gapOff = 0 /\ r.gapLen = b.gapLen + buf.textLength
      /\ r.textLength = 0 /\ r.reserve = b.reserve /\ r.commit = b.commit
      /\ r.counter = b.counter /\ r.generation = b.generation
  BY <1>2 DEF Sound
<1>6. r \in [mem : {b.mem}, reserve : Nat, commit : Nat, textLength : {0},
             gapOff : {0}, gapLen : {b.gapLen + buf.textLength},
             generation : 0..Revisions - 1, counter : 0..Revisions - 1]
  BY <1>2 DEF Sound
<1> HIDE DEF r
<1>7. Sound(r)
  BY <1>2, <1>4, <1>5, <1>6 DEF Sound, Memory
<1>8. Shows(r, <<>>)
  <2>1. <<>> \in Seq(Byte) /\ Len(<<>>) = 0
    OBVIOUS
  <2> QED BY <1>5, <2>1 DEF Shows
<1>9. Stamped(buf, r)
  BY <1>2, <1>5 DEF Stamped
<1> QED BY <1>3, <1>7, <1>8, <1>9, GoodStep

LEMMA ReserveEmptyGood ==
  ASSUME IInv, NEW bytes \in Nat, ReserveEmpty(bytes)
  PROVE  Good
<1> DEFINE reserve == RoundDown(bytes + Headroom + AllocChunk - 1, AllocChunk)
           none == [i \in {} |-> Fill]
           r == [buf EXCEPT !.mem = none, !.reserve = reserve, !.commit = 0,
                            !.gapOff = 0, !.gapLen = 0]
<1>1. Sound(buf) /\ Shows(buf, oracle) /\ Behind(buf)
  BY DEF IInv, TypeOK
<1>2. buf' = r /\ oracle' = oracle /\ buf.textLength = 0
  BY DEF ReserveEmpty
<1>3. reserve \in Nat
  <2>1. bytes + Headroom + AllocChunk - 1 \in Nat /\ AllocChunk \in Nat \ {0}
    BY ConstantsAssumption
  <2> QED BY <2>1, RoundDownBounds
<1> HIDE DEF reserve
<1>4. none \in [0..0 - 1 -> Byte \cup {Fill}]
  <2>1. 0..0 - 1 = {}
    OBVIOUS
  <2> QED BY <2>1
<1> HIDE DEF none
<1>5. /\ r.mem = none /\ r.gapOff = 0 /\ r.gapLen = 0 /\ r.textLength = 0
      /\ r.reserve = reserve /\ r.commit = 0
      /\ r.counter = buf.counter /\ r.generation = buf.generation
  BY <1>1, <1>2 DEF Sound
<1>6. r \in [mem : {none}, reserve : {reserve}, commit : {0}, textLength : Nat,
             gapOff : {0}, gapLen : {0},
             generation : 0..Revisions - 1, counter : 0..Revisions - 1]
  BY <1>1 DEF Sound
<1> HIDE DEF r
<1>7. Sound(r)
  BY <1>3, <1>4, <1>5, <1>6 DEF Sound
<1>8. Shows(r, oracle)
  BY <1>1, <1>2, <1>5 DEF Shows
<1>9. Behind(r)
  BY <1>1, <1>5, SameStamps
<1> QED BY <1>2, <1>7, <1>8, <1>9, QuietStep

LEMMA RewindGood ==
  ASSUME IInv, NEW k \in 0..MaxRewind, Rewind(k)
  PROVE  Good
<1> DEFINE g == Back(buf.counter, k)
           r == [buf EXCEPT !.generation = g]
<1>1. Sound(buf) /\ Shows(buf, oracle)
  BY DEF IInv, TypeOK
<1>2. buf' = r /\ oracle' = oracle
  BY DEF Rewind, Back
<1>3. g \in 0..Revisions - 1
  BY <1>1, SoundFields, ConstantsAssumption DEF Back
<1> HIDE DEF g
<1>4. /\ r.mem = buf.mem /\ r.gapOff = buf.gapOff /\ r.gapLen = buf.gapLen
      /\ r.textLength = buf.textLength /\ r.reserve = buf.reserve
      /\ r.commit = buf.commit /\ r.counter = buf.counter /\ r.generation = g
  BY <1>1 DEF Sound
<1>5. r \in [mem : {buf.mem}, reserve : Nat, commit : Nat, textLength : Nat,
             gapOff : Nat, gapLen : Nat, generation : {g},
             counter : 0..Revisions - 1]
  BY <1>1 DEF Sound
<1> HIDE DEF r
<1>6. Sound(r)
  BY <1>1, <1>3, <1>4, <1>5, SoundFields DEF Sound, Memory
<1>7. Shows(r, oracle)
  <2>1. \A i : Address(r, i) = Address(buf, i)
    BY <1>4 DEF Address
  <2> QED BY <1>1, <1>4, <2>1 DEF Shows
<1>8. Behind(r)
  BY <1>4 DEF Behind, g
<1> QED BY <1>2, <1>6, <1>7, <1>8, QuietStep

\* src and t agree up to off.
AgreeTo(src, t, off) ==
  /\ off \in Nat
  /\ off <= Len(src)
  /\ off <= Len(t)
  /\ \A i \in 1..off : src[i] = t[i]

LEMMA AgreedShows ==
  ASSUME NEW b, Sound(b), NEW t, Shows(b, t), NEW src \in Seq(Byte),
         NEW off, AgreeTo(src, t, off)
  PROVE  AgreeTo(src, t, Agreed(b, src, off))
<1> DEFINE c == ReadForward(b, off)
           n == Least(Len(c), Len(src) - off)
<1>1. t \in Seq(Byte) /\ Len(t) = b.textLength
  BY DEF Shows
<1>2. /\ off \in Nat /\ off <= Len(src) /\ off <= Len(t)
      /\ \A i \in 1..off : src[i] = t[i]
  BY DEF AgreeTo
<1>3. b.textLength \in Nat /\ Len(src) \in Nat
  BY SoundFields
<1>4. Least(off, b.textLength) = off
  BY <1>1, <1>2 DEF Least
<1>5. IsPart(c, t, off)
  BY <1>2, <1>4, ReadForwardShows
<1> HIDE DEF c
<1>6. /\ c \in Seq(Byte) /\ off + Len(c) <= Len(t)
      /\ \A i \in 1..Len(c) : c[i] = t[off + i]
  BY <1>5 DEF IsPart
<1>7. n \in Nat /\ n <= Len(c) /\ off + n <= Len(src)
  BY <1>2, <1>3, <1>6 DEF Least
<1> HIDE DEF n
<1>8. CASE SubSeq(c, 1, n) = SubSeq(src, off + 1, off + n)
  <2>1. Agreed(b, src, off) = off + n
    BY <1>8 DEF Agreed, c, n
  <2>2. ASSUME NEW i \in 1..off + n
        PROVE  src[i] = t[i]
    <3>1. CASE i <= off
      BY <1>2, <3>1
    <3>2. CASE i > off
      <4> DEFINE j == i - off
      <4>1. j \in 1..n /\ off + j = i
        BY <1>2, <1>7, <3>2
      <4> HIDE DEF j
      <4>2. SubSeq(c, 1, n)[j] = c[j]
        BY <1>6, <1>7, <4>1
      <4>3. SubSeq(src, off + 1, off + n)[j] = src[off + j]
        BY <1>2, <1>7, <4>1
      <4>4. c[j] = t[off + j]
        BY <1>6, <1>7, <4>1
      <4> QED BY <1>8, <4>1, <4>2, <4>3, <4>4
    <3> QED BY <1>2, <1>7, <3>1, <3>2
  <2>3. off + n \in Nat /\ off + n <= Len(t)
    BY <1>1, <1>2, <1>6, <1>7
  <2> QED BY <1>7, <2>1, <2>2, <2>3 DEF AgreeTo
<1>9. CASE SubSeq(c, 1, n) # SubSeq(src, off + 1, off + n)
  <2>1. Agreed(b, src, off) = off
    BY <1>9 DEF Agreed, c, n
  <2> QED BY <2>1
<1> QED BY <1>8, <1>9

\* Replacing everything after a common prefix makes the texts equal.
LEMMA SpliceRest ==
  ASSUME NEW src \in Seq(Byte), NEW t \in Seq(Byte), NEW off,
         AgreeTo(src, t, off)
  PROVE  Splice(t, off, Len(t) - off, SubSeq(src, off + 1, Len(src))) = src
<1> DEFINE rest == SubSeq(src, off + 1, Len(src))
           n == Len(t) - off
           u == Splice(t, off, n, rest)
<1>1. /\ off \in Nat /\ off <= Len(src) /\ off <= Len(t)
      /\ \A i \in 1..off : src[i] = t[i]
  BY DEF AgreeTo
<1>2. /\ rest \in Seq(Byte) /\ Len(rest) = Len(src) - off
      /\ \A i \in 1..Len(src) - off : rest[i] = src[off + i]
  BY <1>1
<1>3. n \in Nat /\ off + n = Len(t) /\ off + n <= Len(t)
  BY <1>1
<1> HIDE DEF rest
<1>4. IsSplice(u, Byte, t, off, n, rest)
  <2> HIDE DEF n
  <2> QED BY <1>1, <1>2, <1>3, SpliceProperties
<1> HIDE DEF u
<1>5. u \in Seq(Byte) /\ Len(u) = Len(src)
  BY <1>1, <1>2, <1>3, <1>4 DEF IsSplice
<1>6. ASSUME NEW i \in 1..Len(src)
      PROVE  u[i] = src[i]
  <2>1. i \in 1..Len(t) - n + Len(rest)
    BY <1>1, <1>2
  <2>2. u[i] = IF i <= off THEN t[i]
               ELSE IF i <= off + Len(rest) THEN rest[i - off]
               ELSE t[i - Len(rest) + n]
    <3> HIDE DEF n
    <3> QED BY <1>4, <2>1 DEF IsSplice
  <2>3. CASE i <= off
    <3>1. i \in 1..off
      BY <1>1, <2>3
    <3> QED BY <1>1, <2>2, <2>3, <3>1
  <2>4. CASE i > off
    <3>1. i - off \in 1..Len(src) - off /\ off + (i - off) = i
          /\ i <= off + Len(rest) /\ ~(i <= off)
      BY <1>1, <1>2, <2>4
    <3> QED BY <1>2, <2>2, <3>1
  <2> QED BY <1>1, <2>3, <2>4
<1> QED BY <1>5, <1>6 DEF u, rest

LEMMA CopyFromGood ==
  ASSUME IInv, NEW src \in Seq(Byte), NEW grants, NEW again,
         CopyFrom(src, grants, again)
  PROVE  Good
<1> DEFINE off == Agreed(buf, src, Agreed(buf, src, 0))
           rest == SubSeq(src, off + 1, Len(src))
           end == off + Len(src) + buf.textLength
           first == Replace(buf, off, end, rest, grants)
           t == oracle'
<1>1. Sound(buf) /\ Shows(buf, oracle) /\ Behind(buf)
  BY DEF IInv, TypeOK
<1>2. /\ oracle \in Seq(Byte) /\ Len(oracle) = buf.textLength
      /\ buf.textLength \in Nat
  BY <1>1, SoundFields DEF Shows
<1>3. AgreeTo(src, oracle, off)
  <2>1. AgreeTo(src, oracle, 0)
    BY <1>2 DEF AgreeTo
  <2> QED BY <1>1, <2>1, AgreedShows
<1>4. /\ buf' = IF rest = <<>> THEN first
                ELSE Replace(first, Len(src), end, <<>>, again)
      /\ t = IF Fits(buf, off, end, rest, grants) THEN src ELSE oracle
  BY DEF CopyFrom
<1> HIDE DEF off
<1>5. off \in Nat /\ off <= Len(src) /\ off <= Len(oracle)
  BY <1>3 DEF AgreeTo
<1>6. /\ rest \in Seq(Byte) /\ Len(rest) = Len(src) - off /\ end \in Nat
      /\ Len(src) \in Nat
  BY <1>2, <1>5
<1>7. /\ Least(off, buf.textLength) = off
      /\ Deleted(buf, off, end) = Len(oracle) - off
  BY <1>2, <1>5 DEF Least, Monus, Deleted
<1>8. Splice(oracle, off, Len(oracle) - off, rest) = src
  BY <1>2, <1>3, SpliceRest
<1> HIDE DEF rest, end
<1>9. /\ Sound(first) /\ Shows(first, t)
      /\ Fits(buf, off, end, rest, grants) =>
           /\ first.counter = NextStamp(buf.counter)
           /\ first.generation = NextStamp(buf.counter)
      /\ ~Fits(buf, off, end, rest, grants) =>
           /\ first.counter = buf.counter
           /\ first.generation = buf.generation
  <2>1. Replaces(first, buf, oracle, off, end, rest, grants)
    BY <1>1, <1>5, <1>6, ReplaceShows
  <2> HIDE DEF first
  <2> QED BY <1>4, <1>7, <1>8, <2>1 DEF Replaces
<1> HIDE DEF first, t
<1>10. CASE rest = <<>>
  <2>1. Fits(buf, off, end, rest, grants)
    <3>1. Len(rest) = 0 /\ buf.gapLen \in Nat
      BY <1>1, <1>10, SoundFields
    <3>2. Monus(Len(rest), Deleted(buf, off, end)) = 0
      BY <1>5, <1>2, <1>7, <3>1 DEF Monus
    <3> QED BY <3>1, <3>2 DEF Fits, ReserveInsert
  <2>2. Stamped(buf, buf')
    BY <1>4, <1>9, <1>10, <2>1 DEF Stamped
  <2> QED BY <1>4, <1>9, <1>10, <2>2, GoodStep DEF t
<1>11. CASE rest # <<>>
  <2>1. buf' = Replace(first, Len(src), end, <<>>, again)
    BY <1>4, <1>11
  <2>2. /\ t \in Seq(Byte) /\ Len(t) = first.textLength
        /\ first.textLength \in Nat /\ first.gapLen \in Nat
    BY <1>9, SoundFields DEF Shows
  <2>3. Len(src) >= Len(t)
    <3>1. CASE Fits(buf, off, end, rest, grants)
      BY <1>4, <1>6, <3>1
    <3>2. CASE ~Fits(buf, off, end, rest, grants)
      <4>1. t = oracle
        BY <1>4, <3>2
      <4> DEFINE needed == Monus(Len(rest), Deleted(buf, off, end))
      <4>2. needed \in Nat
        BY <1>2, <1>5, <1>6, <1>7 DEF Monus
      <4>3. needed # 0
        <5>1. SUFFICES ASSUME needed = 0 PROVE FALSE
          OBVIOUS
        <5>2. buf.gapLen \in Nat
          BY <1>1, SoundFields
        <5> QED BY <3>2, <5>1, <5>2 DEF Fits, ReserveInsert
      <4>4. Len(rest) > Len(oracle) - off
        BY <1>2, <1>5, <1>6, <1>7, <4>3 DEF Monus
      <4> QED BY <1>2, <1>5, <1>6, <4>1, <4>4
    <3> QED BY <3>1, <3>2
  <2>4. /\ Least(Len(src), first.textLength) = Len(t)
        /\ Deleted(first, Len(src), end) = 0
    BY <1>2, <1>5, <1>6, <2>2, <2>3 DEF Least, Monus, Deleted
  <2>5. Splice(t, Len(t), 0, <<>>) = t
    BY <2>2, SpliceNothing
  <2>6. Fits(first, Len(src), end, <<>>, again)
    <3>1. Monus(Len(<<>>), Deleted(first, Len(src), end)) = 0
      BY <2>4 DEF Monus
    <3> QED BY <2>2, <3>1 DEF Fits, ReserveInsert
  <2>7. <<>> \in Seq(Byte)
    OBVIOUS
  <2>8. /\ Sound(buf') /\ Shows(buf', t)
        /\ buf'.counter = NextStamp(first.counter)
        /\ buf'.generation = NextStamp(first.counter)
    <3> DEFINE beg == Len(src)
               nothing == <<>>
               second == Replace(first, beg, end, nothing, again)
    <3>1. beg \in Nat
      BY <1>6
    <3>2. Fits(first, beg, end, nothing, again)
      BY <2>6
    <3>3. Least(beg, first.textLength) = Len(t) /\ Deleted(first, beg, end) = 0
      BY <2>4
    <3>4. buf' = second
      BY <2>1
    <3>5. nothing \in Seq(Byte)
      BY <2>7
    <3>6. Splice(t, Len(t), 0, nothing) = t
      BY <2>5
    <3> HIDE DEF beg, nothing
    <3>7. /\ Sound(second)
          /\ Fits(first, beg, end, nothing, again) =>
               /\ Shows(second, Splice(t, Least(beg, first.textLength),
                                       Deleted(first, beg, end), nothing))
               /\ second.counter = NextStamp(first.counter)
               /\ second.generation = NextStamp(first.counter)
      <4>1. Replaces(second, first, t, beg, end, nothing, again)
        BY <1>6, <1>9, <3>1, <3>5, ReplaceShows
      <4> HIDE DEF second
      <4> QED BY <4>1 DEF Replaces
    <3> HIDE DEF second
    <3> QED BY <3>2, <3>3, <3>4, <3>7, <3>6
  <2>9. Stamped(buf, buf')
    BY <1>9, <2>8 DEF Stamped
  <2> QED BY <2>8, <2>9, GoodStep DEF t
<1> QED BY <1>10, <1>11

LEMMA NextGood ==
  ASSUME IInv, Next
  PROVE  Good
<1>1. buf.textLength \in Nat
  BY SoundFields DEF IInv, TypeOK
<1>2. Requests \subseteq Nat /\ Sources \subseteq Seq(Byte)
  BY ConstantsAssumption
<1>3. PICK grants \in BOOLEAN :
        \/ \E beg, end \in 0..buf.textLength + 1, src \in Sources :
             ReplaceRange(beg, end, src, grants)
        \/ \E off, delete \in 0..buf.textLength + 1, len \in Requests,
              src \in Sources : FillGap(off, delete, len, src, grants)
        \/ \E len \in Requests : Preflight(len, grants)
        \/ Clear
        \/ \E bytes \in Requests : ReserveEmpty(bytes)
        \/ \E k \in 0..MaxRewind : Rewind(k)
        \/ \E src \in Sources, again \in BOOLEAN : CopyFrom(src, grants, again)
  BY DEF Next
<1>4. ASSUME NEW beg \in 0..buf.textLength + 1, NEW end \in 0..buf.textLength + 1,
             NEW src \in Sources, ReplaceRange(beg, end, src, grants)
      PROVE  Good
  <2>1. beg \in Nat /\ end \in Nat /\ src \in Seq(Byte)
    BY <1>1, <1>2
  <2> QED BY <1>4, <2>1, ReplaceRangeGood
<1>5. ASSUME NEW off \in 0..buf.textLength + 1,
             NEW delete \in 0..buf.textLength + 1, NEW len \in Requests,
             NEW src \in Sources, FillGap(off, delete, len, src, grants)
      PROVE  Good
  <2>1. off \in Nat /\ delete \in Nat /\ len \in Nat /\ src \in Seq(Byte)
    BY <1>1, <1>2
  <2> QED BY <1>5, <2>1, FillGapGood
<1>6. ASSUME NEW len \in Requests, Preflight(len, grants)
      PROVE  Good
  BY <1>2, <1>6, PreflightGood
<1>7. CASE Clear
  BY <1>7, ClearGood
<1>8. ASSUME NEW bytes \in Requests, ReserveEmpty(bytes)
      PROVE  Good
  BY <1>2, <1>8, ReserveEmptyGood
<1>9. ASSUME NEW k \in 0..MaxRewind, Rewind(k)
      PROVE  Good
  BY <1>9, RewindGood
<1>10. ASSUME NEW src \in Sources, NEW again \in BOOLEAN,
              CopyFrom(src, grants, again)
       PROVE  Good
  BY <1>2, <1>10, CopyFromGood
<1> QED BY <1>3, <1>4, <1>5, <1>6, <1>7, <1>8, <1>9, <1>10

-----------------------------------------------------------------------------
(***************************************************************************)
(* The theorems                                                            *)
(***************************************************************************)

\* The bytes outside the gap are the text, in every reachable state.
THEOREM BufferInductive == Spec => []IInv
<1>1. Init => IInv
  BY InitIInv
<1>2. IInv /\ [Next]_vars => IInv'
  <2>1. IInv /\ Next => IInv'
    BY NextGood DEF Good
  <2>2. IInv /\ UNCHANGED vars => IInv'
    BY DEF vars, IInv, TypeOK, Sound, Shows, Behind, Address
  <2> QED BY <2>1, <2>2
<1> QED BY <1>1, <1>2, PTL DEF Spec

\* Every address the unsafe code forms lies in committed memory, whatever is
\* asked of the buffer and whether or not the system grants memory.
THEOREM BufferSound == Spec => []TypeOK
<1>1. IInv => TypeOK
  BY DEF IInv
<1> QED BY <1>1, BufferInductive, PTL

\* The buffer holds exactly what its callers put there; a replacement happens
\* as a whole or not at all.
THEOREM BufferExact == Spec => []ContentsExact
<1>1. IInv => ContentsExact
  <2> SUFFICES ASSUME IInv PROVE Contents(buf) = oracle
    BY DEF ContentsExact
  <2>1. Shows(buf, oracle) /\ buf.textLength \in Nat
    BY SoundFields DEF IInv, TypeOK
  <2>2. \A i \in 1..buf.textLength : buf.mem[Address(buf, i - 1)] = oracle[i]
    BY <2>1 DEF Shows
  <2>3. oracle \in Seq(Byte) /\ Len(oracle) = buf.textLength
    BY <2>1 DEF Shows
  <2>4. Contents(buf) = [i \in 1..buf.textLength |-> oracle[i]]
    BY <2>2 DEF Contents
  <2>5. oracle = [i \in 1..buf.textLength |-> oracle[i]]
    BY <2>3
  <2> QED BY <2>4, <2>5
<1> QED BY <1>1, BufferInductive, PTL

\* Reading in chunks, forwards or backwards, shows the text and never stalls.
THEOREM ReadingExact == Spec => []ReadsExact
<1>1. IInv => ReadsExact
  <2> SUFFICES ASSUME IInv, NEW off \in 0..Len(oracle) + 1
               PROVE  LET at == Least(off, Len(oracle))
                          after == ReadForward(buf, off)
                          before == ReadBackward(buf, off)
                      IN  /\ after = SubSeq(oracle, at + 1, at + Len(after))
                          /\ at < Len(oracle) => after # <<>>
                          /\ before = SubSeq(oracle, at - Len(before) + 1, at)
                          /\ at > 0 => before # <<>>
    BY DEF ReadsExact
  <2> DEFINE at == Least(off, Len(oracle))
             after == ReadForward(buf, off)
             before == ReadBackward(buf, off)
  <2>1. Sound(buf) /\ Shows(buf, oracle)
    BY DEF IInv, TypeOK
  <2>2. /\ oracle \in Seq(Byte) /\ Len(oracle) = buf.textLength /\ off \in Nat
        /\ at \in Nat
    BY <2>1 DEF Shows, Least
  <2>3. /\ IsPart(after, oracle, at)
        /\ at < Len(oracle) => Len(after) > 0
    BY <2>1, <2>2, ReadForwardShows
  <2>4. /\ IsPart(before, oracle, at - Len(before))
        /\ at > 0 => Len(before) > 0
    BY <2>1, <2>2, ReadBackwardShows
  <2> HIDE DEF at, after, before
  <2>5. after = SubSeq(oracle, at + 1, at + Len(after))
    BY <2>2, <2>3, PartIsSubSeq
  <2>6. before = SubSeq(oracle, at - Len(before) + 1, at)
    <3>1. before = SubSeq(oracle, at - Len(before) + 1,
                          at - Len(before) + Len(before))
      BY <2>2, <2>4, PartIsSubSeq
    <3>2. Len(before) \in Nat
      BY <2>4 DEF IsPart
    <3>3. at - Len(before) + Len(before) = at
      BY <2>2, <3>2
    <3> QED BY <3>1, <3>3
  <2>7. /\ at < Len(oracle) => after # <<>>
        /\ at > 0 => before # <<>>
    BY <2>3, <2>4
  <2> QED BY <2>5, <2>6, <2>7 DEF at, after, before
<1> QED BY <1>1, BufferInductive, PTL

\* A change of the contents shows in the generation, even after an undo.
THEOREM ChangesStamped == Spec => ChangesAreStamped
<1>1. ASSUME IInv, [Next]_vars, oracle' # oracle
      PROVE  /\ buf'.generation # buf.generation
             /\ buf'.generation = buf'.counter
             /\ buf'.counter # buf.counter
  <2>1. Next
    BY <1>1 DEF vars
  <2>2. Stamped(buf, buf')
    BY <1>1, <2>1, NextGood DEF Good
  <2>3. Sound(buf) /\ Behind(buf)
    BY <1>1 DEF IInv, TypeOK
  <2>4. buf'.generation # buf.generation /\ buf'.counter # buf.counter
    BY <2>2, <2>3, StampedMoves
  <2>5. buf'.generation = buf'.counter
    BY <2>2 DEF Stamped
  <2> QED BY <2>4, <2>5
<1>2. IInv /\ [Next]_vars =>
        [oracle' # oracle =>
           /\ buf'.generation # buf.generation
           /\ buf'.generation = buf'.counter
           /\ buf'.counter # buf.counter]_vars
  BY <1>1
<1> QED BY <1>2, BufferInductive, PTL DEF Spec, ChangesAreStamped
-----------------------------------------------------------------------------
(***************************************************************************)
(* The scratch arenas: no allocation that is in use is ever written over,  *)
(* whatever the sizes of arena and chunk, the alignments and the address   *)
(* of the arena.                                                           *)
(***************************************************************************)
Scratch == INSTANCE Arena

Cell == Values \cup {Junk}
Cells(n) == [0 .. n - 1 -> Cell]
AnyCells == UNION {Cells(n) : n \in Nat}

\* The bookkeeping of an arena, and scopes that opened one above the other.
ArenaSound(a) ==
  /\ a \in [offset : Nat, commit : Nat, memory : AnyCells, scopes : Seq(Nat)]
  /\ a.memory \in Cells(a.commit)
  /\ a.offset <= a.commit /\ a.commit <= ArenaCapacity
  /\ \A i \in 1 .. Len(a.scopes) : a.scopes[i] <= a.offset
  /\ \A i, j \in 1 .. Len(a.scopes) : i <= j => a.scopes[i] <= a.scopes[j]

\* An allocation lies within its scope, below every newer one, and is as its owner left it.
Placed(a, r) ==
  /\ r.scope \in 1 .. Len(a.scopes)
  /\ a.scopes[r.scope] <= r.beg
  /\ r.beg < r.end /\ r.end <= a.offset
  /\ \A k \in 1 .. Len(a.scopes) : k > r.scope => r.end <= a.scopes[k]
  /\ (Base + r.beg) % r.alignment = 0
  /\ \A x \in r.beg .. r.end - 1 : a.memory[x] = r.value

Allocation ==
  [arena : Scratch!Pool, scope : Nat, beg : Nat, end : Nat, alignment : Nat \ {0}, value : Values]

ArenaInv ==
  /\ arenas \in [Scratch!Pool -> [offset : Nat, commit : Nat, memory : AnyCells, scopes : Seq(Nat)]]
  /\ \A a \in Scratch!Pool : ArenaSound(arenas[a])
  /\ live \subseteq Allocation
  /\ \A r \in live : Placed(arenas[r.arena], r)
  /\ \A r, s \in live : r.value = s.value => r = s

-----------------------------------------------------------------------------
(***************************************************************************)
(* Rounding                                                                *)
(***************************************************************************)

LEMMA MultipleIsZero ==
  ASSUME NEW q \in Int, NEW m \in Nat \ {0}
  PROVE  (q * m) % m = 0
  OBVIOUS

LEMMA SumOfMultiples ==
  ASSUME NEW x \in Nat, NEW m \in Nat \ {0}
  PROVE  /\ x % m \in 0..m-1 /\ x \div m \in Nat
         /\ x = (x \div m) * m + (x % m)
  OBVIOUS

LEMMA Ordered ==
  ASSUME NEW p \in Int, NEW q \in Int, NEW m \in Nat \ {0}, p * m < (q + 1) * m
  PROVE  p * m <= q * m
<1>1. p < q + 1
  <2>1. SUFFICES ASSUME p >= q + 1 PROVE FALSE
    OBVIOUS
  <2>2. p = q + 1 + (p - q - 1) /\ p - q - 1 \in Nat
    BY <2>1
  <2>3. (p - q - 1) * m >= 0
    BY <2>2
  <2>4. p * m = (q + 1) * m + (p - q - 1) * m
    OBVIOUS
  <2> QED BY <2>3, <2>4
<1>2. q - p \in Nat
  BY <1>1
<1>3. (q - p) * m >= 0
  BY <1>2
<1>4. q * m = p * m + (q - p) * m
  OBVIOUS
<1> QED BY <1>3, <1>4

LEMMA ArenaRoundDown ==
  ASSUME NEW n \in Nat, NEW m \in Nat \ {0}
  PROVE  /\ Scratch!RoundDown(n, m) \in Nat /\ n \div m \in Nat
         /\ Scratch!RoundDown(n, m) = (n \div m) * m
         /\ Scratch!RoundDown(n, m) <= n /\ n < Scratch!RoundDown(n, m) + m
         /\ Scratch!RoundDown(n, m) % m = 0
<1>1. n % m \in 0 .. m - 1 /\ n \div m \in Nat /\ n = (n \div m) * m + (n % m)
  BY SumOfMultiples
<1>2. Scratch!RoundDown(n, m) = n - (n % m)
  BY DEF Scratch!RoundDown
<1>3. Scratch!RoundDown(n, m) = (n \div m) * m
  BY <1>1, <1>2
<1>4. n % m <= n
  OBVIOUS
<1>5. ((n \div m) * m) % m = 0
  BY <1>1, MultipleIsZero
<1> QED BY <1>1, <1>2, <1>3, <1>4, <1>5

LEMMA ArenaRoundUp ==
  ASSUME NEW n \in Nat, NEW m \in Nat \ {0}
  PROVE  /\ Scratch!RoundUp(n, m) \in Nat
         /\ n <= Scratch!RoundUp(n, m)
         /\ Scratch!RoundUp(n, m) <= n + m - 1
         /\ Scratch!RoundUp(n, m) % m = 0
<1>1. n + m - 1 \in Nat
  OBVIOUS
<1> QED BY <1>1, ArenaRoundDown DEF Scratch!RoundUp

\* Rounding up what is not past a multiple does not go past it.
LEMMA ArenaRoundUpWithin ==
  ASSUME NEW n \in Nat, NEW c \in Nat, NEW m \in Nat \ {0}, n <= c, c % m = 0
  PROVE  Scratch!RoundUp(n, m) <= c
<1>1. PICK x \in Nat : x = n + m - 1
  OBVIOUS
<1>2. x < c + m
  BY <1>1
<1>3. Scratch!RoundDown(x, m) <= x /\ Scratch!RoundDown(x, m) = (x \div m) * m /\ x \div m \in Nat
  BY ArenaRoundDown
<1>4. c \div m \in Nat /\ c = (c \div m) * m
  BY SumOfMultiples
<1>5. (c \div m + 1) * m = c + m
  BY <1>4
<1>6. (x \div m) * m < (c \div m + 1) * m
  BY <1>2, <1>3, <1>5
<1>7. (x \div m) * m <= (c \div m) * m
  BY <1>3, <1>4, <1>6, Ordered
<1> QED BY <1>1, <1>3, <1>4, <1>7 DEF Scratch!RoundUp

-----------------------------------------------------------------------------
(***************************************************************************)
(* Cells                                                                  *)
(***************************************************************************)
LEMMA PutCells ==
  ASSUME NEW n \in Nat, NEW m \in Cells(n), NEW beg \in Int, NEW end \in Int, NEW v \in Cell
  PROVE  /\ Scratch!Put(m, beg, end, v) \in Cells(n)
         /\ \A x \in 0 .. n - 1 :
              Scratch!Put(m, beg, end, v)[x] = IF beg <= x /\ x < end THEN v ELSE m[x]
<1>1. DOMAIN m = 0 .. n - 1
  BY DEF Cells
<1> QED BY <1>1 DEF Scratch!Put, Cells

\* Scribbling changes nothing below where it begins.
LEMMA ScribbleCells ==
  ASSUME NEW n \in Nat, NEW m \in Cells(n), NEW beg \in Int, NEW end \in Int
  PROVE  /\ Scratch!Scribble(m, beg, end) \in Cells(n)
         /\ \A x \in 0 .. n - 1 : x < beg => Scratch!Scribble(m, beg, end)[x] = m[x]
<1>1. Junk \in Cell /\ end + Slack \in Int
  BY ArenaAssumption DEF Cell
<1>2. CASE Scribbles
  BY <1>1, <1>2, PutCells DEF Scratch!Scribble, Scratch!Junk, Junk
<1>3. CASE ~Scribbles
  BY <1>3 DEF Scratch!Scribble
<1> QED BY <1>2, <1>3

LEMMA CopyCells ==
  ASSUME NEW n \in Nat, NEW m \in Cells(n), NEW r \in Allocation, NEW beg \in Nat,
         NEW len \in Nat, r.beg + len <= n
  PROVE  /\ Scratch!Copied(m, r, beg, len) \in Cells(n)
         /\ \A x \in 0 .. n - 1 :
              Scratch!Copied(m, r, beg, len)[x] =
                IF beg <= x /\ x < beg + len THEN m[r.beg + (x - beg)] ELSE m[x]
<1>1. DOMAIN m = 0 .. n - 1 /\ \A x \in 0 .. n - 1 : m[x] \in Cell
  BY DEF Cells
<1>2. r.beg \in Nat
  BY DEF Allocation
<1>3. \A x \in 0 .. n - 1 : beg <= x /\ x < beg + len => r.beg + (x - beg) \in 0 .. n - 1
  BY <1>2
<1>4. \A x \in 0 .. n - 1 :
        Scratch!Copied(m, r, beg, len)[x] =
          IF beg <= x /\ x < beg + len THEN m[r.beg + (x - beg)] ELSE m[x]
  BY <1>1 DEF Scratch!Copied
<1>5. \A x \in 0 .. n - 1 : Scratch!Copied(m, r, beg, len)[x] \in Cell
  BY <1>1, <1>3, <1>4
<1> QED BY <1>1, <1>4, <1>5 DEF Scratch!Copied, Cells

\* The fields of a sound arena.
LEMMA ArenaSoundFields ==
  ASSUME NEW a, ArenaSound(a)
  PROVE  /\ a.offset \in Nat /\ a.commit \in Nat /\ a.scopes \in Seq(Nat)
         /\ a.memory \in Cells(a.commit)
         /\ a.offset <= a.commit /\ a.commit <= ArenaCapacity
         /\ Len(a.scopes) \in Nat
         /\ \A i \in 1 .. Len(a.scopes) : a.scopes[i] \in Nat
         /\ \A i \in 1 .. Len(a.scopes) : a.scopes[i] <= a.offset
         /\ \A i, j \in 1 .. Len(a.scopes) : i <= j => a.scopes[i] <= a.scopes[j]
  BY DEF ArenaSound

Refitted(a, offset, commit, m) == [a EXCEPT !.offset = offset, !.commit = commit, !.memory = m]

\* What a sound arena with another offset, size and memory needs.
LEMMA ArenaSoundAgain ==
  ASSUME NEW a, ArenaSound(a), NEW offset \in Nat, NEW commit \in Nat, NEW m \in Cells(commit),
         offset <= commit, commit <= ArenaCapacity,
         \A i \in 1 .. Len(a.scopes) : a.scopes[i] <= offset
  PROVE  LET b == Refitted(a, offset, commit, m)
         IN /\ ArenaSound(b) /\ b.offset = offset /\ b.commit = commit /\ b.memory = m
            /\ b.scopes = a.scopes
<1>1. m \in AnyCells
  BY DEF AnyCells
<1> DEFINE b == Refitted(a, offset, commit, m)
<1>2. /\ b \in [offset : Nat, commit : Nat, memory : AnyCells, scopes : Seq(Nat)]
      /\ b.offset = offset /\ b.commit = commit /\ b.memory = m /\ b.scopes = a.scopes
  BY <1>1 DEF ArenaSound, Refitted
<1> HIDE DEF b
<1>3. ArenaSound(b)
  BY <1>2, ArenaSoundFields DEF ArenaSound
<1> QED BY <1>2, <1>3 DEF b

-----------------------------------------------------------------------------
(***************************************************************************)
(* Allocating                                                              *)
(***************************************************************************)
\* The bytes of t.arena from t.beg on are new, and what was there before is as it was.
Gives(a, t, bytes, alignment) ==
  /\ ArenaSound(t.arena) /\ t.arena.scopes = a.scopes
  /\ t.beg \in Nat /\ a.offset <= t.beg
  /\ t.arena.offset = t.beg + bytes
  /\ a.commit <= t.arena.commit
  /\ bytes > 0 => (Base + t.beg) % alignment = 0
  /\ alignment = 1 => t.beg = a.offset
  /\ \A x \in 0 .. a.offset - 1 : t.arena.memory[x] = a.memory[x]

LEMMA AllocRawGives ==
  ASSUME NEW a, ArenaSound(a), NEW bytes \in Nat, NEW alignment \in Nat \ {0},
         NEW granted \in BOOLEAN, NEW t \in Scratch!AllocRaw(a, bytes, alignment, granted)
  PROVE  Gives(a, t, bytes, alignment)
<1> DEFINE beg == Scratch!RoundUp(Base + a.offset, alignment) - Base
           end == beg + bytes
           commit == Scratch!RoundUp(end, ArenaChunk)
           committed == [x \in 0 .. commit - 1 |-> IF x < a.commit THEN a.memory[x] ELSE Junk]
           Taken(size, m) ==
             [arena |-> [a EXCEPT !.offset = end, !.commit = size,
                                  !.memory = Scratch!Scribble(m, a.offset, end)],
              beg |-> beg]
<1>0. Base \in Nat /\ ArenaChunk \in Nat \ {0} /\ ArenaCapacity \in Nat
  BY ArenaAssumption
<1>1. /\ a.offset \in Nat /\ a.commit \in Nat
      /\ a.memory \in Cells(a.commit)
      /\ a.offset <= a.commit /\ a.commit <= ArenaCapacity
  BY ArenaSoundFields
<1>2. /\ Len(a.scopes) \in Nat
      /\ \A i \in 1 .. Len(a.scopes) : a.scopes[i] \in Nat /\ a.scopes[i] <= a.offset
  BY ArenaSoundFields
<1>3. bytes # 0 => \/ t = Taken(a.commit, a.memory) /\ end <= a.commit
                   \/ t = Taken(commit, committed) /\ ~(end <= a.commit) /\ end <= ArenaCapacity
  <2> DEFINE ok == end <= a.commit
             over == end > ArenaCapacity
  <2>1. bytes # 0 => \/ ~over /\ ok /\ t = Taken(a.commit, a.memory)
                     \/ ~over /\ ~ok /\ t = Taken(commit, committed)
    BY Zenon DEF Scratch!AllocRaw, Scratch!Junk, Junk
  <2>2. end \in Int
    <3>1. Base + a.offset \in Nat
      BY <1>0, <1>1
    <3>2. Scratch!RoundUp(Base + a.offset, alignment) \in Nat
      BY <3>1, ArenaRoundUp
    <3> QED BY <1>0, <3>2
  <2> HIDE DEF end
  <2> QED BY <1>0, <2>1, <2>2
<1>4. CASE bytes = 0
  <2>1. t = [arena |-> a, beg |-> a.offset]
    BY <1>4 DEF Scratch!AllocRaw
  <2> QED BY <1>1, <1>4, <2>1 DEF Gives
<1>5. CASE bytes # 0
  <2>1. /\ beg \in Nat /\ a.offset <= beg
        /\ (Base + beg) % alignment = 0 /\ (alignment = 1 => beg = a.offset)
    <3> DEFINE u == Scratch!RoundUp(Base + a.offset, alignment)
    <3>1. Base + a.offset \in Nat
      BY <1>0, <1>1
    <3>2. u \in Nat /\ Base + a.offset <= u /\ u % alignment = 0
          /\ u <= Base + a.offset + alignment - 1
      BY <3>1, ArenaRoundUp
    <3>3. beg = u - Base
      OBVIOUS
    <3> HIDE DEF beg, u
    <3>4. beg \in Nat /\ a.offset <= beg /\ Base + beg = u
      BY <1>0, <1>1, <3>2, <3>3
    <3>5. alignment = 1 => beg = a.offset
      BY <1>0, <1>1, <3>2, <3>3
    <3> QED BY <3>2, <3>4, <3>5
  <2> HIDE DEF beg
  <2>2. end \in Nat /\ a.offset <= end
    BY <1>1, <2>1
  <2>3. ASSUME NEW size \in Nat, NEW m \in Cells(size), t = Taken(size, m),
               a.commit <= size, end <= size, size <= ArenaCapacity,
               \A x \in 0 .. a.offset - 1 : m[x] = a.memory[x]
        PROVE  Gives(a, t, bytes, alignment)
    <3> DEFINE n == Scratch!Scribble(m, a.offset, end)
               b == Refitted(a, end, size, n)
    <3>1. t.arena = b /\ t.beg = beg
      BY <2>3 DEF Refitted
    <3>2. end = beg + bytes
      OBVIOUS
    <3> HIDE DEF end
    <3>3. a.offset \in Int /\ end \in Int
      BY <1>1, <2>2
    <3>4. n \in Cells(size) /\ \A x \in 0 .. size - 1 : x < a.offset => n[x] = m[x]
      BY <3>3, ScribbleCells
    <3> HIDE DEF n
    <3>5. \A x \in 0 .. a.offset - 1 : n[x] = a.memory[x]
      BY <1>1, <2>3, <3>4
    <3>6. \A i \in 1 .. Len(a.scopes) : a.scopes[i] <= end
      BY <1>1, <1>2, <2>2
    <3>7. /\ ArenaSound(b) /\ b.offset = end /\ b.commit = size /\ b.memory = n
          /\ b.scopes = a.scopes
      BY <2>2, <2>3, <3>4, <3>6, ArenaSoundAgain
    <3> HIDE DEF b
    <3> QED BY <2>1, <2>3, <3>1, <3>2, <3>5, <3>7 DEF Gives
  <2>4. CASE t = Taken(a.commit, a.memory) /\ end <= a.commit
    <3> HIDE DEF Taken, end
    <3> QED BY <1>1, <2>3, <2>4
  <2>5. CASE t = Taken(commit, committed) /\ ~(end <= a.commit) /\ end <= ArenaCapacity
    <3> HIDE DEF Taken, end
    <3>1. ArenaCapacity % ArenaChunk = 0
      BY ArenaAssumption
    <3>2. commit \in Nat /\ end <= commit /\ commit <= ArenaCapacity
      BY <1>0, <2>2, <2>5, <3>1, ArenaRoundUp, ArenaRoundUpWithin
    <3> HIDE DEF commit
    <3>3. a.commit <= commit
      BY <1>1, <2>2, <2>5, <3>2
    <3>4. committed \in Cells(commit)
      <4>1. \A x \in 0 .. a.commit - 1 : a.memory[x] \in Cell
        BY <1>1 DEF Cells
      <4>2. \A x \in 0 .. commit - 1 : x < a.commit => x \in 0 .. a.commit - 1
        BY <1>1, <3>2
      <4> QED BY <4>1, <4>2 DEF Cells, Cell
    <3>5. \A x \in 0 .. a.offset - 1 : committed[x] = a.memory[x]
      BY <1>1, <3>2, <3>3
    <3> HIDE DEF committed
    <3> QED BY <2>3, <2>5, <3>2, <3>3, <3>4, <3>5
  <2> QED BY <1>3, <1>5, <2>4, <2>5
<1> QED BY <1>4, <1>5

-----------------------------------------------------------------------------
(***************************************************************************)
(* The steps                                                               *)
(***************************************************************************)
\* An allocation stays placed while its bytes, its scopes and the space below the offset do.
LEMMA StaysPlaced ==
  ASSUME NEW a, NEW b, NEW r \in Allocation, Placed(a, r),
         b.scopes = a.scopes, r.end <= b.offset,
         \A x \in r.beg .. r.end - 1 : b.memory[x] = a.memory[x]
  PROVE  Placed(b, r)
  BY DEF Placed

\* Nothing overlaps the last allocation.
LEMMA BelowTheLast ==
  ASSUME NEW a, NEW r \in Allocation, NEW s \in Allocation, Placed(a, r), Placed(a, s),
         r.value # s.value, r.end = a.offset
  PROVE  s.end <= r.beg
<1>1. /\ r.beg \in Nat /\ r.end \in Nat /\ s.beg \in Nat /\ s.end \in Nat
      /\ s.beg < s.end /\ s.end <= r.end
  BY DEF Allocation, Placed
<1>2. SUFFICES ASSUME s.end > r.beg PROVE FALSE
  BY <1>1
<1>3. s.end - 1 \in s.beg .. s.end - 1 /\ s.end - 1 \in r.beg .. r.end - 1
  BY <1>1, <1>2
<1> QED BY <1>3 DEF Placed

\* A step that makes one arena b.
LEMMA ArenaStep ==
  ASSUME ArenaInv, NEW a \in Scratch!Pool, NEW b, ArenaSound(b),
         arenas' = [arenas EXCEPT ![a] = b],
         live' \subseteq Allocation,
         \A r \in live' : IF r.arena = a THEN Placed(b, r) ELSE r \in live,
         \A r, s \in live' : r.value = s.value => r = s
  PROVE  ArenaInv'
<1>1. /\ arenas' \in [Scratch!Pool -> [offset : Nat, commit : Nat, memory : AnyCells,
                                      scopes : Seq(Nat)]]
      /\ arenas'[a] = b
      /\ \A c \in Scratch!Pool : c # a => arenas'[c] = arenas[c]
  BY DEF ArenaInv, ArenaSound
<1>2. \A c \in Scratch!Pool : ArenaSound(arenas'[c])
  BY <1>1 DEF ArenaInv
<1>3. ASSUME NEW r \in live' PROVE Placed(arenas'[r.arena], r)
  <2>1. r.arena \in Scratch!Pool
    BY <1>3 DEF Allocation
  <2>2. CASE r.arena # a
    BY <1>1, <2>1, <2>2 DEF ArenaInv
  <2> QED BY <1>1, <2>2
<1>4. /\ (\A c \in Scratch!Pool : ArenaSound(arenas[c]))'
      /\ (\A r \in live : Placed(arenas[r.arena], r))'
  <2>1. \A c \in Scratch!Pool : ArenaSound(arenas[c])' <=> ArenaSound(arenas'[c])
    BY DEF ArenaSound
  <2>2. \A r : Placed(arenas[r.arena], r)' <=> Placed(arenas'[r.arena], r)
    BY DEF Placed
  <2> QED BY <1>2, <1>3, <2>1, <2>2
<1> QED BY <1>1, <1>4 DEF ArenaInv

LEMMA OpenKeeps ==
  ASSUME ArenaInv, NEW conflict \in {0} \cup Scratch!Pool, Scratch!Open(conflict)
  PROVE  ArenaInv'
<1> DEFINE a == IF conflict = 1 THEN 2 ELSE 1
           old == arenas[a]
           b == [old EXCEPT !.scopes = Append(@, old.offset)]
<1>1. a \in Scratch!Pool
  BY DEF Scratch!Pool
<1>2. arenas' = [arenas EXCEPT ![a] = b] /\ live' = live
  BY <1>1 DEF Scratch!Open, ArenaInv
<1> HIDE DEF a
<1>3. ArenaSound(old)
  BY <1>1 DEF ArenaInv
<1> HIDE DEF old
<1> DEFINE grown == Append(old.scopes, old.offset)
<1>0. grown \in Seq(Nat) /\ b = [old EXCEPT !.scopes = grown]
  BY <1>3 DEF ArenaSound
<1>a. old \in [offset : Nat, commit : Nat, memory : AnyCells, scopes : Seq(Nat)]
  BY <1>3 DEF ArenaSound
<1> HIDE DEF b, grown
<1>b. /\ b.offset = old.offset /\ b.commit = old.commit /\ b.memory = old.memory
      /\ b.scopes = grown
      /\ b \in [offset : Nat, commit : Nat, memory : AnyCells, scopes : Seq(Nat)]
  BY <1>0, <1>a
<1>4. /\ b.offset = old.offset /\ b.commit = old.commit /\ b.memory = old.memory
      /\ b.scopes = Append(old.scopes, old.offset)
      /\ b \in [offset : Nat, commit : Nat, memory : AnyCells, scopes : Seq(Nat)]
  BY <1>b DEF grown
<1> HIDE DEF b
<1>5. /\ Len(b.scopes) = Len(old.scopes) + 1 /\ Len(old.scopes) \in Nat
      /\ \A i \in 1 .. Len(old.scopes) : b.scopes[i] = old.scopes[i]
      /\ b.scopes[Len(old.scopes) + 1] = old.offset
  BY <1>3, <1>4, ArenaSoundFields
<1>6. \A i \in 1 .. Len(b.scopes) : i \in 1 .. Len(old.scopes) \/ i = Len(old.scopes) + 1
  BY <1>5
<1>7. ArenaSound(b)
  <2>1. \A i \in 1 .. Len(b.scopes) : b.scopes[i] <= b.offset
    BY <1>3, <1>4, <1>5, <1>6, ArenaSoundFields
  <2>2. \A i, j \in 1 .. Len(b.scopes) : i <= j => b.scopes[i] <= b.scopes[j]
    BY <1>3, <1>4, <1>5, <1>6, ArenaSoundFields
  <2> QED BY <1>3, <1>4, <2>1, <2>2, ArenaSoundFields DEF ArenaSound
<1>8. ASSUME NEW r \in live, r.arena = a PROVE Placed(b, r)
  <2>1. Placed(old, r) /\ r \in Allocation
    BY <1>8 DEF ArenaInv, old
  <2>2. r.end <= old.offset /\ r.scope \in 1 .. Len(old.scopes)
    BY <2>1 DEF Placed
  <2>3. r.scope \in 1 .. Len(b.scopes) /\ b.scopes[r.scope] = old.scopes[r.scope]
    BY <1>5, <2>2
  <2>4. \A k \in 1 .. Len(b.scopes) : k > r.scope => r.end <= b.scopes[k]
    BY <1>5, <1>6, <2>1, <2>2 DEF Placed
  <2> QED BY <1>4, <2>1, <2>3, <2>4 DEF Placed
<1>9. /\ live' \subseteq Allocation
      /\ \A r, s \in live' : r.value = s.value => r = s
  BY <1>2 DEF ArenaInv
<1>10. \A r \in live' : IF r.arena = a THEN Placed(b, r) ELSE r \in live
  BY <1>2, <1>8
<1> QED BY <1>1, <1>2, <1>7, <1>9, <1>10, ArenaStep

LEMMA DropKeeps ==
  ASSUME ArenaInv, NEW a \in Scratch!Pool, Scratch!Drop(a)
  PROVE  ArenaInv'
<1> DEFINE old == arenas[a]
           n == Len(old.scopes)
           to == old.scopes[n]
           m == IF old.offset > to THEN Scratch!Scribble(old.memory, to, old.offset) ELSE old.memory
           b == [[old EXCEPT !.offset = to, !.memory = m] EXCEPT !.scopes = SubSeq(@, 1, n - 1)]
           keep == {r \in live : ~(r.arena = a /\ r.scope = n)}
<1>1. n > 0 /\ arenas' = [arenas EXCEPT ![a] = b] /\ live' = keep
  BY DEF Scratch!Drop, Scratch!Reset
<1>2. ArenaSound(old)
  BY DEF ArenaInv
<1> HIDE DEF old
<1>3. n \in Nat /\ n \in 1 .. n /\ to \in Nat /\ to <= old.offset
  BY <1>1, <1>2, ArenaSoundFields
<1>4. m \in Cells(old.commit) /\ \A x \in 0 .. to - 1 : m[x] = old.memory[x]
  <2>1. old.offset \in Nat /\ old.commit \in Nat /\ old.memory \in Cells(old.commit)
        /\ old.offset <= old.commit
    BY <1>2, ArenaSoundFields
  <2> HIDE DEF to, n
  <2> QED BY <1>3, <2>1, ScribbleCells
<1>5. m \in AnyCells
  BY <1>2, <1>4, ArenaSoundFields DEF AnyCells
<1>6. old \in [offset : Nat, commit : Nat, memory : AnyCells, scopes : Seq(Nat)]
  BY <1>2 DEF ArenaSound
<1> DEFINE rest == SubSeq(old.scopes, 1, n - 1)
<1>7. /\ rest \in Seq(Nat) /\ Len(rest) = n - 1
      /\ \A i \in 1 .. n - 1 : rest[i] = old.scopes[i] /\ i \in 1 .. Len(old.scopes) /\ i <= n
  <2>1. old.scopes \in Seq(Nat)
    BY <1>6
  <2> QED BY <1>1, <1>3, <2>1
<1>8. b = [old EXCEPT !.offset = to, !.memory = m, !.scopes = rest]
  BY <1>6
<1> HIDE DEF b, rest, m, to, n
<1>9. /\ b \in [offset : Nat, commit : Nat, memory : AnyCells, scopes : Seq(Nat)]
      /\ b.offset = to /\ b.commit = old.commit /\ b.memory = m /\ b.scopes = rest
  BY <1>3, <1>5, <1>6, <1>7, <1>8
<1>10. ArenaSound(b)
  <2>1. \A i \in 1 .. n - 1 : rest[i] <= to
    BY <1>2, <1>3, <1>7, ArenaSoundFields DEF n, to
  <2>2. \A i, j \in 1 .. n - 1 : i <= j => rest[i] <= rest[j]
    BY <1>2, <1>7, ArenaSoundFields
  <2>3. to <= old.commit /\ old.commit <= ArenaCapacity
    BY <1>2, <1>3, ArenaSoundFields, ArenaAssumption
  <2> QED BY <1>4, <1>7, <1>9, <2>1, <2>2, <2>3 DEF ArenaSound
<1>11. ASSUME NEW r \in keep, r.arena = a PROVE Placed(b, r)
  <2>1. Placed(old, r) /\ r \in Allocation /\ r.scope # n
    BY <1>11 DEF ArenaInv, old
  <2>2. r.scope \in 1 .. n - 1 /\ r.scope \in Nat /\ r.beg \in Nat /\ r.end \in Nat
    BY <1>3, <2>1 DEF Placed, Allocation, n
  <2>3. r.end <= to
    BY <1>3, <2>1, <2>2 DEF Placed, n, to
  <2>4. /\ b.scopes[r.scope] = old.scopes[r.scope]
        /\ \A k \in 1 .. Len(b.scopes) : k > r.scope => r.end <= b.scopes[k]
    BY <1>3, <1>7, <1>9, <2>1, <2>2 DEF Placed, n
  <2>5. \A x \in r.beg .. r.end - 1 : x \in 0 .. to - 1
    BY <1>3, <2>2, <2>3
  <2>6. \A x \in r.beg .. r.end - 1 : b.memory[x] = r.value
    BY <1>4, <1>9, <2>1, <2>5 DEF Placed
  <2>7. r.scope \in 1 .. Len(b.scopes)
    BY <1>7, <1>9, <2>2
  <2>8. old.scopes[r.scope] <= r.beg /\ r.beg < r.end /\ (Base + r.beg) % r.alignment = 0
    BY <2>1 DEF Placed
  <2> QED BY <1>9, <2>3, <2>4, <2>6, <2>7, <2>8 DEF Placed
<1>12. /\ live' \subseteq Allocation
       /\ \A r, s \in live' : r.value = s.value => r = s
  BY <1>1 DEF ArenaInv
<1>13. \A r \in live' : IF r.arena = a THEN Placed(b, r) ELSE r \in live
  BY <1>1, <1>11
<1> HIDE DEF keep
<1> QED BY <1>1, <1>10, <1>12, <1>13, ArenaStep

\* Writing above what was allocated leaves what an allocation gave.
Rewritten(t, m) == [arena |-> [t.arena EXCEPT !.memory = m], beg |-> t.beg]

Agree(m, k, n) == \A x \in 0 .. n - 1 : m[x] = k[x]

LEMMA RewrittenGives ==
  ASSUME NEW a, ArenaSound(a), NEW t, NEW bytes \in Nat, NEW alignment \in Nat \ {0},
         Gives(a, t, bytes, alignment),
         NEW m \in Cells(t.arena.commit),
         Agree(m, t.arena.memory, a.offset)
  PROVE  /\ Gives(a, Rewritten(t, m), bytes, alignment)
         /\ Rewritten(t, m).beg = t.beg
         /\ Rewritten(t, m).arena.commit = t.arena.commit
         /\ Rewritten(t, m).arena.offset = t.arena.offset
         /\ Rewritten(t, m).arena.memory = m
<1> DEFINE b == [t.arena EXCEPT !.memory = m]
<1>1. ArenaSound(t.arena)
  BY DEF Gives
<1>2. m \in AnyCells
  BY <1>1, ArenaSoundFields DEF AnyCells
<1>3. t.arena \in [offset : Nat, commit : Nat, memory : AnyCells, scopes : Seq(Nat)]
  BY <1>1 DEF ArenaSound
<1>4. /\ b \in [offset : Nat, commit : Nat, memory : AnyCells, scopes : Seq(Nat)]
      /\ b.offset = t.arena.offset /\ b.commit = t.arena.commit /\ b.memory = m
      /\ b.scopes = t.arena.scopes
  BY <1>2, <1>3
<1>5. Rewritten(t, m).arena = b /\ Rewritten(t, m).beg = t.beg
  BY DEF Rewritten
<1> HIDE DEF b
<1>6. ArenaSound(b)
  BY <1>1, <1>4 DEF ArenaSound
<1>7. \A x \in 0 .. a.offset - 1 : m[x] = a.memory[x]
  BY DEF Gives, Agree
<1> QED BY <1>4, <1>5, <1>6, <1>7 DEF Gives

\* What was placed before stays where it is.
LEMMA GivesKeeps ==
  ASSUME NEW a, ArenaSound(a), NEW t, NEW bytes \in Nat, NEW alignment,
         Gives(a, t, bytes, alignment), NEW r \in Allocation, Placed(a, r)
  PROVE  Placed(t.arena, r)
<1>1. /\ a.offset \in Nat /\ r.beg \in Nat /\ r.end \in Nat /\ r.end <= a.offset
      /\ t.beg \in Nat /\ a.offset <= t.beg /\ t.arena.offset = t.beg + bytes
      /\ t.arena.scopes = a.scopes
      /\ \A x \in 0 .. a.offset - 1 : t.arena.memory[x] = a.memory[x]
  BY ArenaSoundFields DEF Gives, Placed, Allocation
<1>2. r.end <= t.arena.offset
  BY <1>1
<1>3. \A x \in r.beg .. r.end - 1 : x \in 0 .. a.offset - 1
  BY <1>1
<1> QED BY <1>1, <1>2, <1>3, StaysPlaced

LEMMA AllocateKeeps ==
  ASSUME ArenaInv, NEW a \in Scratch!Pool, NEW scope \in DOMAIN arenas[a].scopes,
         NEW bytes \in Sizes, NEW alignment \in Alignments, NEW granted \in BOOLEAN,
         Scratch!Allocate(a, scope, bytes, alignment, granted)
  PROVE  ArenaInv'
<1>1. bytes \in Nat /\ bytes > 0 /\ alignment \in Nat \ {0}
  BY ArenaAssumption
<1> DEFINE old == arenas[a]
<1>2. ArenaSound(old)
  BY DEF ArenaInv
<1>3. PICK t \in Scratch!AllocRaw(old, bytes, alignment, granted) :
        LET value == CHOOSE v \in Values : \A r \in live : r.value # v
        IN /\ arenas' = [arenas EXCEPT ![a] =
                [t.arena EXCEPT !.memory = Scratch!Put(@, t.beg, t.beg + bytes, value)]]
           /\ live' = live \cup
                {[arena |-> a, scope |-> scope, beg |-> t.beg, end |-> t.beg + bytes,
                  alignment |-> alignment, value |-> value]}
  BY DEF Scratch!Allocate
<1> DEFINE value == CHOOSE v \in Values : \A r \in live : r.value # v
           m == Scratch!Put(t.arena.memory, t.beg, t.beg + bytes, value)
           b == Rewritten(t, m).arena
           new == [arena |-> a, scope |-> scope, beg |-> t.beg, end |-> t.beg + bytes,
                   alignment |-> alignment, value |-> value]
<1>4. arenas' = [arenas EXCEPT ![a] = b] /\ live' = live \cup {new}
  BY <1>3 DEF Rewritten
<1>5. value \in Values /\ \A r \in live : r.value # value
  <2>1. \E v \in Values : \A r \in live : r.value # v
    BY DEF Scratch!Allocate
  <2> QED BY <2>1
<1>6. scope = Len(old.scopes) /\ scope \in 1 .. Len(old.scopes) /\ scope \in Nat
  <2>1. scope \in 1 .. Len(old.scopes) /\ Len(old.scopes) \in Nat
    BY <1>2, ArenaSoundFields
  <2> QED BY <2>1 DEF Scratch!Allocate, Scratch!MayUse
<1> HIDE DEF old, value
<1>7. Gives(old, t, bytes, alignment)
  BY <1>1, <1>2, AllocRawGives
<1>8. /\ t.beg \in Nat /\ old.offset <= t.beg /\ old.offset \in Nat
      /\ t.arena.commit \in Nat /\ t.arena.memory \in Cells(t.arena.commit)
      /\ t.arena.offset = t.beg + bytes /\ t.arena.offset <= t.arena.commit
  BY <1>2, <1>7, ArenaSoundFields DEF Gives
<1>9. /\ m \in Cells(t.arena.commit)
      /\ \A x \in 0 .. t.arena.commit - 1 :
           m[x] = IF t.beg <= x /\ x < t.beg + bytes THEN value ELSE t.arena.memory[x]
  <2>1. value \in Cell /\ t.beg \in Int /\ t.beg + bytes \in Int
    BY <1>1, <1>5, <1>8 DEF Cell
  <2> QED BY <1>8, <2>1, PutCells
<1> HIDE DEF m
<1>10. Agree(m, t.arena.memory, old.offset)
  BY <1>1, <1>8, <1>9 DEF Agree
<1> DEFINE w == Rewritten(t, m)
<1>11. Gives(old, w, bytes, alignment) /\ w.beg = t.beg /\ w.arena.memory = m
  <2>1. m \in Cells(t.arena.commit)
    BY <1>9
  <2>2. bytes \in Nat /\ alignment \in Nat \ {0}
    BY <1>1
  <2> HIDE DEF w
  <2> QED BY ONLY <1>2, <1>7, <1>10, <2>1, <2>2, RewrittenGives DEF w
<1>12. ArenaSound(b) /\ b.scopes = old.scopes /\ b.offset = t.beg + bytes /\ b.memory = m
       /\ (Base + t.beg) % alignment = 0
  BY <1>1, <1>11 DEF Gives
<1> HIDE DEF b
<1>13. new \in Allocation
  BY <1>1, <1>5, <1>6, <1>8 DEF Allocation
<1>15. /\ new.arena = a /\ new.scope = scope /\ new.beg = t.beg /\ new.end = t.beg + bytes
       /\ new.alignment = alignment /\ new.value = value
  OBVIOUS
<1> HIDE DEF new
<1>14. Placed(b, new)
  <2>1. old.scopes[scope] <= t.beg
    BY <1>2, <1>6, <1>8, ArenaSoundFields
  <2>2. \A x \in t.beg .. t.beg + bytes - 1 : b.memory[x] = value
    BY <1>1, <1>8, <1>9, <1>12
  <2>3. \A k \in 1 .. Len(b.scopes) : ~(k > scope)
    BY <1>6, <1>12
  <2>4. t.beg < t.beg + bytes /\ t.beg + bytes <= b.offset
    BY <1>1, <1>8, <1>12
  <2>5. /\ new.scope \in 1 .. Len(b.scopes) /\ b.scopes[new.scope] <= new.beg
        /\ \A k \in 1 .. Len(b.scopes) : ~(k > new.scope)
    BY <1>6, <1>12, <1>15, <2>1, <2>3
  <2>6. new.beg < new.end /\ new.end <= b.offset /\ (Base + new.beg) % new.alignment = 0
    BY <1>12, <1>15, <2>4
  <2>7. ASSUME NEW x \in new.beg .. new.end - 1 PROVE b.memory[x] = new.value
    <3>1. x \in t.beg .. t.beg + bytes - 1
      BY <1>1, <1>8, <1>15
    <3> QED BY <1>15, <2>2, <3>1
  <2> QED BY ONLY <2>5, <2>6, <2>7 DEF Placed
<1>16. ASSUME NEW r \in live, r.arena = a PROVE Placed(b, r)
  <2>1. r \in Allocation /\ Placed(old, r)
    BY <1>16 DEF ArenaInv, old
  <2>2. Placed(w.arena, r)
    BY <1>1, <1>2, <1>11, <2>1, GivesKeeps
  <2> QED BY <2>2 DEF b
<1>17. /\ live' \subseteq Allocation
       /\ \A r \in live' : IF r.arena = a THEN Placed(b, r) ELSE r \in live
       /\ \A r, s \in live' : r.value = s.value => r = s
  BY <1>4, <1>5, <1>13, <1>14, <1>15, <1>16 DEF ArenaInv
<1> QED BY <1>4, <1>12, <1>17, ArenaStep

\* One allocation becomes another, in an arena that keeps all others.
LEMMA Replaced ==
  ASSUME ArenaInv, NEW r \in live, NEW b, ArenaSound(b), NEW new \in Allocation,
         new.arena = r.arena, new.value = r.value, Placed(b, new),
         \A s \in live : s.arena = r.arena /\ s # r => Placed(b, s),
         arenas' = [arenas EXCEPT ![r.arena] = b],
         live' = (live \ {r}) \cup {new}
  PROVE  ArenaInv'
<1>1. r.arena \in Scratch!Pool
  BY DEF ArenaInv, Allocation
<1>2. live' \subseteq Allocation
  BY DEF ArenaInv
<1>3. \A s \in live' : IF s.arena = r.arena THEN Placed(b, s) ELSE s \in live
  OBVIOUS
<1>4. \A p, q \in live' : p.value = q.value => p = q
  BY DEF ArenaInv
<1> QED BY <1>1, <1>2, <1>3, <1>4, ArenaStep

LEMMA ResizedFields ==
  ASSUME NEW r \in Allocation, NEW beg \in Nat, NEW bytes \in Nat, NEW alignment \in Nat \ {0}
  PROVE  LET new == Scratch!Resized(r, beg, bytes, alignment)
         IN /\ new \in Allocation /\ new.arena = r.arena /\ new.scope = r.scope
            /\ new.beg = beg /\ new.end = beg + bytes /\ new.alignment = alignment
            /\ new.value = r.value
<1>1. beg + bytes \in Nat
  OBVIOUS
<1> DEFINE end == beg + bytes
<1> HIDE DEF end
<1>2. LET new == [r EXCEPT !.beg = beg, !.end = end, !.alignment = alignment]
      IN /\ new \in Allocation /\ new.arena = r.arena /\ new.scope = r.scope
         /\ new.beg = beg /\ new.end = end /\ new.alignment = alignment
         /\ new.value = r.value
  BY <1>1 DEF Allocation, end
<1> QED BY <1>2 DEF Scratch!Resized, end

LEMMA ResizedInPlace ==
  ASSUME NEW r \in Allocation, NEW bytes \in Nat, NEW alignment \in Nat \ {0}
  PROVE  LET new == Scratch!Resized(r, r.beg, bytes, alignment)
         IN /\ new \in Allocation /\ new.arena = r.arena /\ new.scope = r.scope
            /\ new.beg = r.beg /\ new.end = r.beg + bytes /\ new.alignment = alignment
            /\ new.value = r.value
<1> DEFINE beg == r.beg
<1>1. beg \in Nat
  BY DEF Allocation
<1> HIDE DEF beg
<1>2. LET new == Scratch!Resized(r, beg, bytes, alignment)
      IN /\ new \in Allocation /\ new.arena = r.arena /\ new.scope = r.scope
         /\ new.beg = beg /\ new.end = beg + bytes /\ new.alignment = alignment
         /\ new.value = r.value
  BY ONLY <1>1, ResizedFields
<1> QED BY <1>2 DEF beg

\* One allocation goes on in what the arena gave.
LEMMA TakesOver ==
  ASSUME ArenaInv, NEW r \in live, r.scope = Len(arenas[r.arena].scopes),
         NEW need \in Nat, NEW fit \in Nat \ {0}, NEW t,
         Gives(arenas[r.arena], t, need, fit),
         NEW m \in Cells(t.arena.commit), Agree(m, t.arena.memory, arenas[r.arena].offset),
         NEW beg \in Nat, NEW bytes \in Nat, NEW alignment \in Nat \ {0}, bytes > 0,
         beg + bytes = t.arena.offset, arenas[r.arena].scopes[r.scope] <= beg,
         (Base + beg) % alignment = 0,
         \A x \in beg .. beg + bytes - 1 : m[x] = r.value,
         arenas' = [arenas EXCEPT ![r.arena] = Rewritten(t, m).arena],
         live' = (live \ {r}) \cup {Scratch!Resized(r, beg, bytes, alignment)}
  PROVE  ArenaInv'
<1> DEFINE old == arenas[r.arena]
           w == Rewritten(t, m)
           new == Scratch!Resized(r, beg, bytes, alignment)
<1>1. r \in Allocation /\ r.arena \in Scratch!Pool /\ ArenaSound(old) /\ Placed(old, r)
  BY DEF ArenaInv, Allocation
<1>2. /\ new \in Allocation /\ new.arena = r.arena /\ new.scope = r.scope
      /\ new.beg = beg /\ new.end = beg + bytes /\ new.alignment = alignment
      /\ new.value = r.value
  BY <1>1, ResizedFields
<1> HIDE DEF old, new, w
<1>3. Gives(old, w, need, fit) /\ w.arena.memory = m /\ w.arena.offset = t.arena.offset
  <2>1. Gives(old, t, need, fit) /\ Agree(m, t.arena.memory, old.offset)
    BY DEF old
  <2>2. need \in Nat /\ fit \in Nat \ {0} /\ m \in Cells(t.arena.commit)
    OBVIOUS
  <2> QED BY ONLY <1>1, <2>1, <2>2, RewrittenGives DEF w
<1> DEFINE b == w.arena
<1>4. ArenaSound(b) /\ b.scopes = old.scopes
  BY <1>3 DEF Gives
<1>5. b.offset = t.arena.offset
  BY <1>3
<1> HIDE DEF b
<1>6. Placed(b, new)
  <2>1. r.scope \in 1 .. Len(old.scopes) /\ r.scope = Len(old.scopes) /\ old.scopes[r.scope] <= beg
    BY <1>1 DEF Placed, old
  <2>2. /\ new.scope \in 1 .. Len(b.scopes) /\ b.scopes[new.scope] <= new.beg
        /\ \A k \in 1 .. Len(b.scopes) : ~(k > new.scope)
    BY <1>2, <1>4, <2>1
  <2>3. new.beg < new.end /\ new.end <= b.offset /\ (Base + new.beg) % new.alignment = 0
    BY <1>2, <1>5
  <2>4. b.memory = m
    BY <1>3 DEF b
  <2>5. ASSUME NEW x \in new.beg .. new.end - 1 PROVE b.memory[x] = new.value
    <3>1. x \in beg .. beg + bytes - 1
      BY <1>2
    <3> QED BY <1>2, <2>4, <3>1
  <2> QED BY ONLY <2>2, <2>3, <2>5 DEF Placed
<1>7. ASSUME NEW s \in live, s.arena = r.arena PROVE Placed(b, s)
  <2>1. s \in Allocation /\ Placed(old, s)
    BY <1>7 DEF ArenaInv, old
  <2> QED BY <1>1, <1>3, <2>1, GivesKeeps DEF b
<1>8. arenas' = [arenas EXCEPT ![r.arena] = b] /\ live' = (live \ {r}) \cup {new}
  BY DEF b, w, new
<1> QED BY <1>2, <1>4, <1>6, <1>7, <1>8, Replaced

\* What an allocation and its arena give a proof about its resizing.
LEMMA Owner ==
  ASSUME ArenaInv, NEW r \in live
  PROVE  /\ r \in Allocation /\ r.arena \in Scratch!Pool
         /\ r.beg \in Nat /\ r.end \in Nat /\ r.end - r.beg \in Nat /\ r.beg < r.end
         /\ r.value \in Values /\ r.value \in Cell
         /\ ArenaSound(arenas[r.arena]) /\ Placed(arenas[r.arena], r)
         /\ arenas[r.arena].offset \in Nat /\ r.end <= arenas[r.arena].offset
         /\ r.scope \in 1 .. Len(arenas[r.arena].scopes)
         /\ arenas[r.arena].scopes[r.scope] \in Nat
         /\ arenas[r.arena].scopes[r.scope] <= r.beg
         /\ \A x \in r.beg .. r.end - 1 : arenas[r.arena].memory[x] = r.value
<1>1. /\ r \in Allocation /\ r.arena \in Scratch!Pool
      /\ ArenaSound(arenas[r.arena]) /\ Placed(arenas[r.arena], r)
  BY DEF ArenaInv, Allocation
<1>2. r.beg \in Nat /\ r.end \in Nat /\ r.value \in Values /\ r.value \in Cell
  BY <1>1 DEF Allocation, Cell
<1>3. /\ r.beg < r.end /\ r.end <= arenas[r.arena].offset
      /\ r.scope \in 1 .. Len(arenas[r.arena].scopes)
      /\ arenas[r.arena].scopes[r.scope] <= r.beg
      /\ \A x \in r.beg .. r.end - 1 : arenas[r.arena].memory[x] = r.value
  BY <1>1 DEF Placed
<1>4. arenas[r.arena].offset \in Nat /\ arenas[r.arena].scopes[r.scope] \in Nat
  BY <1>1, <1>3, ArenaSoundFields
<1>5. r.end - r.beg \in Nat
  BY <1>2, <1>3
<1> QED BY <1>1, <1>2, <1>3, <1>4, <1>5

\* The fields of what the arena gave.
LEMMA GivesFields ==
  ASSUME NEW a, ArenaSound(a), NEW t, NEW need \in Nat, NEW fit \in Nat \ {0},
         Gives(a, t, need, fit)
  PROVE  /\ t.beg \in Nat /\ a.offset <= t.beg /\ t.arena.offset = t.beg + need
         /\ t.arena.commit \in Nat /\ t.arena.memory \in Cells(t.arena.commit)
         /\ t.arena.offset <= t.arena.commit
         /\ need > 0 => (Base + t.beg) % fit = 0
         /\ fit = 1 => t.beg = a.offset
         /\ \A x \in 0 .. a.offset - 1 : t.arena.memory[x] = a.memory[x]
<1>1. ArenaSound(t.arena)
  BY DEF Gives
<1> QED BY <1>1, ArenaSoundFields DEF Gives

\* Arena::grow, in place and elsewhere.
LEMMA GrowKeeps ==
  ASSUME ArenaInv, NEW r \in live, NEW bytes \in Sizes, NEW alignment \in Alignments,
         NEW granted \in BOOLEAN, Scratch!Grow(r, bytes, alignment, granted)
  PROVE  ArenaInv'
<1> DEFINE a == arenas[r.arena]
           old == r.end - r.beg
           Filled(m, beg) == Scratch!Put(m, beg + old, beg + bytes, r.value)
           Becomes(t, m, beg) ==
             /\ arenas' = [arenas EXCEPT ![r.arena] = Rewritten(t, Filled(m, beg)).arena]
             /\ live' = (live \ {r}) \cup {Scratch!Resized(r, beg, bytes, alignment)}
<1>1. /\ bytes \in Nat /\ bytes > 0 /\ alignment \in Nat \ {0}
      /\ r.scope = Len(a.scopes) /\ bytes >= old
  BY ArenaAssumption DEF Scratch!Grow, Scratch!MayUse
<1>2. \/ /\ Scratch!AtEnd(r, alignment)
         /\ \E t \in Scratch!AllocRaw(a, bytes - old, 1, granted) :
              Becomes(t, t.arena.memory, r.beg)
      \/ \E t \in Scratch!AllocRaw(a, bytes, alignment, granted) :
           Becomes(t, Scratch!Copied(t.arena.memory, r, t.beg, old), t.beg)
  BY DEF Scratch!Grow, Rewritten
<1>3. /\ r \in Allocation /\ r.beg \in Nat /\ r.end \in Nat /\ old \in Nat /\ r.beg < r.end
      /\ r.value \in Cell /\ ArenaSound(a) /\ a.offset \in Nat /\ r.end <= a.offset
      /\ a.scopes[r.scope] \in Nat /\ a.scopes[r.scope] <= r.beg
      /\ \A x \in r.beg .. r.end - 1 : a.memory[x] = r.value
  BY Owner
<1>6. r.beg + old = r.end
  BY <1>3
<1> HIDE DEF a, old
<1>4. ASSUME Scratch!AtEnd(r, alignment), NEW t \in Scratch!AllocRaw(a, bytes - old, 1, granted),
             Becomes(t, t.arena.memory, r.beg)
      PROVE  ArenaInv'
  <2> DEFINE m == Filled(t.arena.memory, r.beg)
  <2>1. bytes - old \in Nat /\ 1 \in Nat \ {0}
    BY <1>1, <1>3
  <2>2. Gives(a, t, bytes - old, 1)
    BY <1>3, <1>4, <2>1, AllocRawGives
  <2>3. (Base + r.beg) % alignment = 0 /\ r.end = a.offset
    BY <1>4 DEF Scratch!AtEnd, a
  <2>4. /\ t.arena.commit \in Nat /\ t.arena.memory \in Cells(t.arena.commit)
        /\ r.beg + bytes = t.arena.offset /\ t.arena.offset <= t.arena.commit
        /\ \A x \in 0 .. a.offset - 1 : t.arena.memory[x] = a.memory[x]
    <3>1. /\ t.arena.commit \in Nat /\ t.arena.memory \in Cells(t.arena.commit)
          /\ t.beg = a.offset /\ t.arena.offset = t.beg + (bytes - old)
          /\ t.arena.offset <= t.arena.commit
          /\ \A x \in 0 .. a.offset - 1 : t.arena.memory[x] = a.memory[x]
      <4> DEFINE need == bytes - old
      <4>1. need \in Nat /\ Gives(a, t, need, 1)
        BY <2>1, <2>2
      <4> HIDE DEF need
      <4>2. /\ t.beg = a.offset /\ t.arena.offset = t.beg + need
            /\ t.arena.commit \in Nat /\ t.arena.memory \in Cells(t.arena.commit)
            /\ t.arena.offset <= t.arena.commit
            /\ \A x \in 0 .. a.offset - 1 : t.arena.memory[x] = a.memory[x]
        BY ONLY <1>3, <4>1, GivesFields, 1 \in Nat \ {0}
      <4> QED BY <4>2 DEF need
    <3> QED BY <1>1, <1>3, <1>6, <2>3, <3>1
  <2>5. /\ m \in Cells(t.arena.commit)
        /\ \A x \in 0 .. t.arena.commit - 1 :
             m[x] = IF r.end <= x /\ x < r.beg + bytes THEN r.value ELSE t.arena.memory[x]
    <3>1. r.beg + old \in Int /\ r.beg + bytes \in Int /\ r.beg + old = r.end
      BY <1>1, <1>3, <1>6
    <3> QED BY <1>3, <2>4, <3>1, PutCells
  <2>6. arenas' = [arenas EXCEPT ![r.arena] = Rewritten(t, m).arena]
        /\ live' = (live \ {r}) \cup {Scratch!Resized(r, r.beg, bytes, alignment)}
    BY <1>4
  <2> HIDE DEF m
  <2>7. Agree(m, t.arena.memory, a.offset)
    <3>1. SUFFICES ASSUME NEW x \in 0 .. a.offset - 1 PROVE m[x] = t.arena.memory[x]
      BY DEF Agree
    <3>2. x \in 0 .. t.arena.commit - 1 /\ ~(r.end <= x)
      BY <1>1, <1>3, <1>6, <2>3, <2>4
    <3> QED BY <2>5, <3>2
  <2>8. ASSUME NEW x \in r.beg .. r.beg + bytes - 1 PROVE m[x] = r.value
    <3>1. x \in 0 .. t.arena.commit - 1 /\ x < r.beg + bytes
      BY <1>1, <1>3, <2>4
    <3>2. x < r.end => x \in r.beg .. r.end - 1 /\ x \in 0 .. a.offset - 1
      BY <1>3
    <3> QED BY <1>3, <2>4, <2>5, <3>1, <3>2
  <2>9. ArenaInv /\ r \in live
    OBVIOUS
  <2> DEFINE need == bytes - old
             fit == 1
  <2>10. need \in Nat /\ fit \in Nat \ {0} /\ Gives(a, t, need, fit)
    BY <2>1, <2>2
  <2> HIDE DEF need, fit
  <2> QED BY ONLY <1>1, <1>3, <2>10, <2>3, <2>4, <2>5, <2>6, <2>7, <2>8, <2>9, TakesOver
              DEF a
<1>5. ASSUME NEW t \in Scratch!AllocRaw(a, bytes, alignment, granted),
             Becomes(t, Scratch!Copied(t.arena.memory, r, t.beg, old), t.beg)
      PROVE  ArenaInv'
  <2> DEFINE k == Scratch!Copied(t.arena.memory, r, t.beg, old)
             m == Filled(k, t.beg)
  <2>1. Gives(a, t, bytes, alignment)
    BY <1>1, <1>3, <1>5, AllocRawGives
  <2>2. /\ t.arena.commit \in Nat /\ t.arena.memory \in Cells(t.arena.commit)
        /\ t.beg \in Nat /\ a.offset <= t.beg
        /\ t.beg + bytes = t.arena.offset /\ t.arena.offset <= t.arena.commit
        /\ (Base + t.beg) % alignment = 0
        /\ \A x \in 0 .. a.offset - 1 : t.arena.memory[x] = a.memory[x]
    BY <1>1, <1>3, <2>1, GivesFields
  <2>3. /\ k \in Cells(t.arena.commit)
        /\ \A x \in 0 .. t.arena.commit - 1 :
             k[x] = IF t.beg <= x /\ x < t.beg + old
                      THEN t.arena.memory[r.beg + (x - t.beg)] ELSE t.arena.memory[x]
    <3>1. r.beg + old <= t.arena.commit
      BY <1>1, <1>3, <1>6, <2>2
    <3> QED BY ONLY <1>3, <2>2, <3>1, CopyCells DEF k
  <2> HIDE DEF k
  <2>4. /\ m \in Cells(t.arena.commit)
        /\ \A x \in 0 .. t.arena.commit - 1 :
             m[x] = IF t.beg + old <= x /\ x < t.beg + bytes THEN r.value ELSE k[x]
    <3>1. t.beg + old \in Int /\ t.beg + bytes \in Int
      BY <1>1, <1>3, <2>2
    <3> QED BY <1>3, <2>2, <2>3, <3>1, PutCells
  <2>5. arenas' = [arenas EXCEPT ![r.arena] = Rewritten(t, m).arena]
        /\ live' = (live \ {r}) \cup {Scratch!Resized(r, t.beg, bytes, alignment)}
    BY <1>5 DEF k
  <2> HIDE DEF m
  <2>6. Agree(m, t.arena.memory, a.offset)
    <3>1. SUFFICES ASSUME NEW x \in 0 .. a.offset - 1 PROVE m[x] = t.arena.memory[x]
      BY DEF Agree
    <3>2. x \in 0 .. t.arena.commit - 1 /\ x < t.beg
      BY <1>1, <1>3, <2>2
    <3> QED BY <1>3, <2>2, <2>3, <2>4, <3>2
  <2>7. ASSUME NEW x \in t.beg .. t.beg + bytes - 1 PROVE m[x] = r.value
    <3>1. x \in 0 .. t.arena.commit - 1 /\ x < t.beg + bytes /\ t.beg <= x
      BY <1>1, <1>3, <2>2
    <3>2. x < t.beg + old =>
            /\ r.beg + (x - t.beg) \in r.beg .. r.end - 1
            /\ r.beg + (x - t.beg) \in 0 .. a.offset - 1
      BY <1>3, <1>6, <2>2, <3>1
    <3> QED BY <1>3, <2>2, <2>3, <2>4, <3>1, <3>2
  <2>8. a.scopes[r.scope] <= t.beg
    BY <1>3, <2>2
  <2>9. ArenaInv /\ r \in live
    OBVIOUS
  <2> QED BY ONLY <1>1, <1>3, <2>1, <2>2, <2>4, <2>5, <2>6, <2>7, <2>8, <2>9, TakesOver DEF a
<1> HIDE DEF Becomes
<1> QED BY <1>2, <1>4, <1>5

\* What is left of an allocation that gives its rest back where it is.
LEMMA Shortened ==
  ASSUME NEW a, NEW b, NEW r \in Allocation, Placed(a, r),
         r.scope = Len(a.scopes), Len(a.scopes) \in Nat, b.scopes = a.scopes, b.memory = a.memory,
         NEW bytes \in Nat, bytes > 0, bytes <= r.end - r.beg,
         NEW alignment \in Nat \ {0}, (Base + r.beg) % alignment = 0,
         r.beg + bytes <= b.offset
  PROVE  Placed(b, Scratch!Resized(r, r.beg, bytes, alignment))
<1> DEFINE new == Scratch!Resized(r, r.beg, bytes, alignment)
<1>1. r.beg \in Nat /\ r.end \in Nat
  BY DEF Allocation
<1>2. /\ new.scope = r.scope /\ new.beg = r.beg /\ new.end = r.beg + bytes
      /\ new.alignment = alignment /\ new.value = r.value
  BY ResizedInPlace
<1> HIDE DEF new
<1>3. /\ r.scope \in 1 .. Len(a.scopes) /\ a.scopes[r.scope] <= r.beg
      /\ \A x \in r.beg .. r.end - 1 : a.memory[x] = r.value
  BY DEF Placed
<1>4. \A k \in 1 .. Len(b.scopes) : ~(k > new.scope)
  BY <1>2
<1>5. new.beg < new.end /\ new.end <= b.offset /\ (Base + new.beg) % new.alignment = 0
  BY <1>1, <1>2
<1>6. \A x \in new.beg .. new.end - 1 : x \in r.beg .. r.end - 1
  BY <1>1, <1>2
<1> QED BY <1>2, <1>3, <1>4, <1>5, <1>6 DEF Placed, new

\* Arena::shrink, moved, at the end and elsewhere.
LEMMA ShrinkKeeps ==
  ASSUME ArenaInv, NEW r \in live, NEW bytes \in Sizes, NEW alignment \in Alignments,
         NEW granted \in BOOLEAN, Scratch!Shrink(r, bytes, alignment, granted)
  PROVE  ArenaInv'
<1> DEFINE a == arenas[r.arena]
           old == r.end - r.beg
           Becomes(arena, beg) ==
             /\ arenas' = [arenas EXCEPT ![r.arena] = arena]
             /\ live' = (live \ {r}) \cup {Scratch!Resized(r, beg, bytes, alignment)}
<1>1. /\ bytes \in Nat /\ bytes > 0 /\ alignment \in Nat \ {0}
      /\ r.scope = Len(a.scopes) /\ bytes <= old
  BY ArenaAssumption DEF Scratch!Shrink, Scratch!MayUse
<1>2. \/ \E t \in Scratch!AllocRaw(a, bytes, alignment, granted) :
           Becomes(Rewritten(t, Scratch!Copied(t.arena.memory, r, t.beg, bytes)).arena, t.beg)
      \/ Scratch!AtEnd(r, alignment) /\ Becomes([a EXCEPT !.offset = r.beg + bytes], r.beg)
      \/ (Base + r.beg) % alignment = 0 /\ Becomes(a, r.beg)
  BY DEF Scratch!Shrink, Rewritten
<1>3. /\ r \in Allocation /\ r.beg \in Nat /\ r.end \in Nat /\ old \in Nat /\ r.beg < r.end
      /\ r.value \in Cell /\ ArenaSound(a) /\ Placed(a, r) /\ a.offset \in Nat /\ r.end <= a.offset
      /\ r.scope \in 1 .. Len(a.scopes)
      /\ a.scopes[r.scope] \in Nat /\ a.scopes[r.scope] <= r.beg
      /\ \A x \in r.beg .. r.end - 1 : a.memory[x] = r.value
  BY Owner
<1>4. r.beg + old = r.end
  BY <1>3
<1>5. r.beg + bytes \in Nat /\ r.beg + bytes <= r.end /\ r.beg + bytes <= a.offset
  BY <1>1, <1>3
<1>6. /\ Scratch!Resized(r, r.beg, bytes, alignment) \in Allocation
      /\ Scratch!Resized(r, r.beg, bytes, alignment).arena = r.arena
      /\ Scratch!Resized(r, r.beg, bytes, alignment).value = r.value
  BY <1>1, <1>3, ResizedInPlace
<1>7. \A s \in live : s.arena = r.arena => s \in Allocation /\ Placed(a, s)
  BY DEF ArenaInv
<1>8. \A s \in live : s # r => s.value # r.value
  BY DEF ArenaInv
<1>9. /\ a.commit \in Nat /\ a.memory \in Cells(a.commit) /\ a.offset <= a.commit
      /\ a.commit <= ArenaCapacity /\ Len(a.scopes) \in Nat
      /\ \A i \in 1 .. Len(a.scopes) : a.scopes[i] \in Nat
      /\ \A i, j \in 1 .. Len(a.scopes) : i <= j => a.scopes[i] <= a.scopes[j]
  BY <1>3, ArenaSoundFields
<1> HIDE DEF a, old
<1>10. ASSUME NEW t \in Scratch!AllocRaw(a, bytes, alignment, granted),
              Becomes(Rewritten(t, Scratch!Copied(t.arena.memory, r, t.beg, bytes)).arena, t.beg)
       PROVE  ArenaInv'
  <2> DEFINE m == Scratch!Copied(t.arena.memory, r, t.beg, bytes)
  <2>1. Gives(a, t, bytes, alignment)
    BY <1>1, <1>3, AllocRawGives
  <2>2. /\ t.arena.commit \in Nat /\ t.arena.memory \in Cells(t.arena.commit)
        /\ t.beg \in Nat /\ a.offset <= t.beg
        /\ t.beg + bytes = t.arena.offset /\ t.arena.offset <= t.arena.commit
        /\ (Base + t.beg) % alignment = 0
        /\ \A x \in 0 .. a.offset - 1 : t.arena.memory[x] = a.memory[x]
    BY <1>1, <1>3, <2>1, GivesFields
  <2>3. /\ m \in Cells(t.arena.commit)
        /\ \A x \in 0 .. t.arena.commit - 1 :
             m[x] = IF t.beg <= x /\ x < t.beg + bytes
                      THEN t.arena.memory[r.beg + (x - t.beg)] ELSE t.arena.memory[x]
    <3>1. r.beg + bytes <= t.arena.commit
      BY <1>1, <1>3, <1>5, <2>2
    <3>2. bytes \in Nat /\ r \in Allocation /\ t.beg \in Nat
      BY <1>1, <1>3, <2>2
    <3> QED BY ONLY <2>2, <3>1, <3>2, CopyCells
  <2>4. arenas' = [arenas EXCEPT ![r.arena] = Rewritten(t, m).arena]
        /\ live' = (live \ {r}) \cup {Scratch!Resized(r, t.beg, bytes, alignment)}
    BY <1>10
  <2> HIDE DEF m
  <2>5. Agree(m, t.arena.memory, a.offset)
    <3>1. SUFFICES ASSUME NEW x \in 0 .. a.offset - 1 PROVE m[x] = t.arena.memory[x]
      BY DEF Agree
    <3>2. x \in 0 .. t.arena.commit - 1 /\ ~(t.beg <= x)
      BY <1>1, <1>3, <2>2
    <3> QED BY <2>3, <3>2
  <2>6. ASSUME NEW x \in t.beg .. t.beg + bytes - 1 PROVE m[x] = r.value
    <3>1. x \in 0 .. t.arena.commit - 1 /\ x < t.beg + bytes /\ t.beg <= x
      BY <1>1, <1>3, <2>2
    <3>2. /\ r.beg + (x - t.beg) \in r.beg .. r.end - 1
          /\ r.beg + (x - t.beg) \in 0 .. a.offset - 1
      <4>1. /\ x \in Int /\ t.beg \in Nat /\ bytes \in Nat /\ r.beg \in Nat /\ r.end \in Nat
            /\ a.offset \in Nat /\ t.beg <= x /\ x < t.beg + bytes
            /\ r.beg + bytes <= r.end /\ r.end <= a.offset
        BY <1>1, <1>3, <1>5, <2>2, <3>1
      <4> QED BY ONLY <4>1
    <3> QED BY <1>3, <2>2, <2>3, <3>1, <3>2
  <2>7. a.scopes[r.scope] <= t.beg
    BY <1>3, <2>2
  <2>8. ArenaInv /\ r \in live
    OBVIOUS
  <2> QED BY ONLY <1>1, <1>3, <2>1, <2>2, <2>3, <2>4, <2>5, <2>6, <2>7, <2>8, TakesOver DEF a
<1>11. ASSUME Scratch!AtEnd(r, alignment), Becomes([a EXCEPT !.offset = r.beg + bytes], r.beg)
       PROVE  ArenaInv'
  <2> DEFINE offset == r.beg + bytes
             b == Refitted(a, offset, a.commit, a.memory)
  <2>1. (Base + r.beg) % alignment = 0 /\ r.end = a.offset
    BY <1>11 DEF Scratch!AtEnd, a
  <2>2. b = [a EXCEPT !.offset = offset]
    BY <1>3 DEF ArenaSound, Refitted
  <2>3. arenas' = [arenas EXCEPT ![r.arena] = b]
        /\ live' = (live \ {r}) \cup {Scratch!Resized(r, r.beg, bytes, alignment)}
    BY <1>11, <2>2
  <2>4. /\ ArenaSound(b) /\ b.offset = r.beg + bytes /\ b.memory = a.memory /\ b.scopes = a.scopes
    <3>1. \A i \in 1 .. Len(a.scopes) : a.scopes[i] <= r.beg + bytes
      BY <1>1, <1>3, <1>9
    <3>2. r.beg + bytes <= a.commit
      BY <1>3, <1>5, <1>9
    <3> QED BY ONLY <1>3, <1>5, <1>9, <3>1, <3>2, ArenaSoundAgain
  <2> HIDE DEF b
  <2>5. Placed(b, Scratch!Resized(r, r.beg, bytes, alignment))
    <3>1. r.beg + bytes <= b.offset /\ bytes <= r.end - r.beg
      BY <1>1, <1>5, <2>4 DEF old
    <3> QED BY ONLY <1>1, <1>3, <1>9, <2>1, <2>4, <3>1, Shortened
  <2>6. ASSUME NEW s \in live, s.arena = r.arena, s # r PROVE Placed(b, s)
    <3>1. s \in Allocation /\ Placed(a, s) /\ r.value # s.value
      BY <1>7, <1>8, <2>6
    <3>2. s.end <= r.beg
      BY ONLY <1>3, <2>1, <3>1, BelowTheLast
    <3>3. s.end \in Nat
      BY <3>1 DEF Allocation
    <3>4. s.end <= b.offset
      BY <1>1, <1>3, <2>4, <3>2, <3>3
    <3> QED BY ONLY <2>4, <3>1, <3>4, StaysPlaced
  <2> QED BY <1>6, <2>3, <2>4, <2>5, <2>6, Replaced
<1>12. ASSUME (Base + r.beg) % alignment = 0, Becomes(a, r.beg)
       PROVE  ArenaInv'
  <2>1. Placed(a, Scratch!Resized(r, r.beg, bytes, alignment))
    <3>1. bytes <= r.end - r.beg
      BY <1>1 DEF old
    <3>2. (Base + r.beg) % alignment = 0
      BY <1>12
    <3> QED BY ONLY <1>1, <1>3, <1>5, <1>9, <3>1, <3>2, Shortened
  <2> QED BY <1>3, <1>6, <1>7, <1>12, <2>1, Replaced
<1> HIDE DEF Becomes
<1> QED BY <1>2, <1>10, <1>11, <1>12

LEMMA DeallocateKeeps ==
  ASSUME ArenaInv, NEW r \in live, Scratch!Deallocate(r)
  PROVE  ArenaInv'
<1>1. live' \subseteq live /\ UNCHANGED arenas
  BY DEF Scratch!Deallocate
<1> QED BY <1>1 DEF ArenaInv

LEMMA NewArenaIsSound ==
  /\ ArenaSound(Scratch!NewArena)
  /\ Scratch!NewArena \in [offset : Nat, commit : Nat, memory : AnyCells, scopes : Seq(Nat)]
<1>1. Scratch!NewArena.memory \in Cells(0) /\ Scratch!NewArena.memory \in AnyCells
  <2>1. 0 .. 0 - 1 = {}
    OBVIOUS
  <2>2. Scratch!NewArena.memory \in Cells(0)
    BY <2>1 DEF Scratch!NewArena, Cells
  <2> QED BY <2>2 DEF AnyCells
<1>2. /\ Scratch!NewArena.offset = 0 /\ Scratch!NewArena.commit = 0
      /\ Scratch!NewArena.scopes = <<>>
      /\ Scratch!NewArena = [offset |-> 0, commit |-> 0, memory |-> Scratch!NewArena.memory,
                             scopes |-> <<>>]
  BY DEF Scratch!NewArena
<1>3. Scratch!NewArena \in [offset : Nat, commit : Nat, memory : AnyCells, scopes : Seq(Nat)]
  <2> DEFINE k == Scratch!NewArena.memory
             q == <<>>
  <2>1. q \in Seq(Nat) /\ k \in AnyCells
    BY <1>1
  <2>2. Scratch!NewArena = [offset |-> 0, commit |-> 0, memory |-> k, scopes |-> q]
    BY <1>2
  <2> HIDE DEF k, q
  <2> QED BY <2>1, <2>2
<1>4. ArenaCapacity \in Nat /\ Len(Scratch!NewArena.scopes) = 0
  BY <1>2, ArenaAssumption
<1>5. 0 <= ArenaCapacity
  BY <1>4
<1> QED BY <1>1, <1>2, <1>3, <1>4, <1>5 DEF ArenaSound

\* While no scope is open, nothing is allocated.
LEMMA ReinitializeKeeps ==
  ASSUME ArenaInv, Scratch!Reinitialize
  PROVE  ArenaInv'
<1>1. arenas' = [a \in Scratch!Pool |-> Scratch!NewArena] /\ live' = live
  BY DEF Scratch!Reinitialize
<1>2. live = {}
  <2>1. SUFFICES ASSUME NEW r \in live PROVE FALSE
    OBVIOUS
  <2>2. r.arena \in Scratch!Pool /\ r.scope \in 1 .. Len(arenas[r.arena].scopes)
    BY DEF ArenaInv, Allocation, Placed
  <2>3. Len(arenas[r.arena].scopes) = 0
    BY <2>2 DEF Scratch!Reinitialize
  <2> QED BY <2>2, <2>3
<1> QED BY <1>1, <1>2, NewArenaIsSound DEF ArenaInv

LEMMA ArenaInitHolds == Scratch!Init => ArenaInv
  BY NewArenaIsSound DEF Scratch!Init, ArenaInv

LEMMA ArenaNextKeeps == ArenaInv /\ [Scratch!Next]_Scratch!vars => ArenaInv'
<1> SUFFICES ASSUME ArenaInv, [Scratch!Next]_Scratch!vars PROVE ArenaInv'
  OBVIOUS
<1>1. ASSUME NEW conflict \in {0} \cup Scratch!Pool, Scratch!Open(conflict) PROVE ArenaInv'
  BY <1>1, OpenKeeps
<1>2. ASSUME NEW a \in Scratch!Pool, Scratch!Drop(a) PROVE ArenaInv'
  BY <1>2, DropKeeps
<1>3. ASSUME NEW a \in Scratch!Pool, NEW scope \in DOMAIN arenas[a].scopes, NEW bytes \in Sizes,
             NEW alignment \in Alignments, NEW granted \in BOOLEAN,
             Scratch!Allocate(a, scope, bytes, alignment, granted)
      PROVE  ArenaInv'
  BY <1>3, AllocateKeeps
<1>4. ASSUME NEW r \in live, NEW bytes \in Sizes, NEW alignment \in Alignments,
             NEW granted \in BOOLEAN,
             \/ Scratch!Grow(r, bytes, alignment, granted)
             \/ Scratch!Shrink(r, bytes, alignment, granted)
      PROVE  ArenaInv'
  BY <1>4, GrowKeeps, ShrinkKeeps
<1>5. ASSUME NEW r \in live, Scratch!Deallocate(r) PROVE ArenaInv'
  BY <1>5, DeallocateKeeps
<1>6. ASSUME Scratch!Reinitialize PROVE ArenaInv'
  BY <1>6, ReinitializeKeeps
<1>7. ASSUME UNCHANGED Scratch!vars PROVE ArenaInv'
  BY <1>7 DEF Scratch!vars, ArenaInv
<1> QED BY <1>1, <1>2, <1>3, <1>4, <1>5, <1>6, <1>7 DEF Scratch!Next

LEMMA ArenaInvSuffices == ArenaInv => AllocationsHold
<1> SUFFICES ASSUME ArenaInv, NEW r \in live
             PROVE  /\ (Base + r.beg) % r.alignment = 0
                    /\ r.end <= arenas[r.arena].commit
                    /\ \A x \in r.beg .. r.end - 1 : arenas[r.arena].memory[x] = r.value
  BY DEF AllocationsHold
<1>1. /\ ArenaSound(arenas[r.arena]) /\ Placed(arenas[r.arena], r)
      /\ arenas[r.arena].offset \in Nat /\ r.end \in Nat /\ r.end <= arenas[r.arena].offset
  BY Owner
<1>2. arenas[r.arena].commit \in Nat /\ arenas[r.arena].offset <= arenas[r.arena].commit
  BY <1>1, ArenaSoundFields
<1>3. r.end <= arenas[r.arena].commit
  BY <1>1, <1>2
<1> QED BY <1>1, <1>3 DEF Placed

\* Nothing in use is ever written over, in either arena, however scopes nest and whatever is
\* allocated, grown and shrunk between them.
THEOREM AllocationsAlwaysHold == Scratch!Spec => []AllocationsHold
<1>1. Scratch!Init => ArenaInv
  BY ArenaInitHolds
<1>2. ArenaInv /\ [Scratch!Next]_Scratch!vars => ArenaInv'
  BY ArenaNextKeeps
<1>3. ArenaInv => AllocationsHold
  BY ArenaInvSuffices
<1> QED BY <1>1, <1>2, <1>3, PTL DEF Scratch!Spec

-----------------------------------------------------------------------------
(***************************************************************************)
(* Search.  Of what a search has kept, only two things matter as long as   *)
(* the text has not changed: ICU's view is the text as it is, and a search *)
(* for a literal goes on where it looked last, or is known to be in vain.  *)
(***************************************************************************)
CONSTANTS Letters, Patterns, Replacements, MaxLength

Search == INSTANCE Searching

Strings == Seq(Letters)
Regular == {"a", "aa", "a*", "$"}
Hits == [beg : Nat, end : Nat]
Searches == [pattern : Regular, fresh : BOOLEAN, ours : BOOLEAN, next : Nat, noMatches : BOOLEAN,
             regex : [seen : Strings, at : Nat, empty : BOOLEAN]]

First(S) == {i \in S : \A j \in S : i <= j}
After(S, from) == {i \in S : i >= from}
Due(S, from) == First(IF After(S, from) = {} THEN S ELSE After(S, from))
Begins(hits) == {h.beg : h \in hits}

Occurs(p, t, h) ==
  h \in Hits /\ h.beg <= h.end /\ h.end <= Len(t) /\ h.end - h.beg \in Search!Lengths(p, t, h.beg)

\* What is found in t is there, and of a literal what is due.
Right(f, t) ==
  /\ \A h \in f.hits : h.end - h.beg \in Search!Lengths(f.pattern, t, h.beg)
  /\ Search!Literal(f.pattern) => Begins(f.hits) = Due(Search!MatchesAt(f.pattern, t), f.from)

Knows(s, t) ==
  s.fresh =>
    /\ s.regex.seen = t
    /\ Search!Literal(s.pattern) =>
         IF s.noMatches THEN Search!MatchesAt(s.pattern, t) = {}
         ELSE s.regex.at = s.next /\ s.next <= Len(t) /\ ~s.regex.empty

\* A literal's hit stays selected as long as the selection is its hit.
Kept(s, sel) ==
  Search!Literal(s.pattern) /\ s.fresh /\ s.ours /\ ~s.noMatches => sel # {}

Chosen(sel, t) == \A r \in sel : r \in Hits /\ r.beg < r.end /\ r.end <= Len(t)

SearchInv ==
  /\ text \in Strings /\ cursor \in 0 .. Len(text) /\ Chosen(selection, text)
  /\ \A e \in earlier : e.text \in Strings /\ e.cursor \in 0 .. Len(e.text) /\ Chosen(e.selection, e.text)
  /\ \A s \in search : s \in Searches /\ Knows(s, text) /\ Kept(s, selection)
  /\ \A f \in found : Right(f, text)

\* A pattern matches inside the text, and a literal is never empty.
LEMMA LengthsAre ==
  ASSUME NEW p \in Regular, NEW t \in Strings, NEW at \in 0..Len(t)
  PROVE  /\ Search!Lengths(p, t, at) \subseteq 0..Len(t) - at
         /\ Search!Literal(p) => \A n \in Search!Lengths(p, t, at) : 0 < n
<1>1. Len(t) \in Nat
  BY DEF Strings
<1>2. CASE p = "a"
  BY <1>1, <1>2 DEF Search!Lengths, Search!Literal
<1>3. CASE p = "aa"
  BY <1>1, <1>3 DEF Search!Lengths, Search!Literal
<1>4. CASE p = "a*"
  BY <1>1, <1>4 DEF Search!Lengths, Search!Literal
<1>5. CASE p = "$"
  BY <1>1, <1>5 DEF Search!Lengths, Search!Literal
<1> QED BY <1>2, <1>3, <1>4, <1>5 DEF Regular

\* The first hit from an offset is the first occurrence there, if there is one.
LEMMA FirstHitIs ==
  ASSUME NEW p \in Regular, NEW t \in Strings, NEW from \in Nat
  PROVE  LET hits == Search!FirstHit(p, t, from)
             ahead == After(Search!MatchesAt(p, t), from)
         IN /\ \A h \in hits : Occurs(p, t, h)
            /\ Begins(hits) = First(ahead)
            /\ hits = {} => ahead = {}
<1> DEFINE All == UNION {{[beg |-> at, end |-> at + n] : n \in Search!Lengths(p, t, at)} :
                           at \in from .. Len(t)}
           hits == {h \in All : \A g \in All : h.beg <= g.beg}
           ahead == After(Search!MatchesAt(p, t), from)
<1>0. Len(t) \in Nat
  BY DEF Strings
<1>1. Search!FirstHit(p, t, from) = hits
  BY DEF Search!FirstHit
<1>2. ASSUME NEW h \in All PROVE Occurs(p, t, h) /\ h.beg \in ahead
  <2>0. PICK at \in from .. Len(t) : h \in {[beg |-> at, end |-> at + n] : n \in Search!Lengths(p, t, at)}
    BY <1>2
  <2>1. PICK n \in Search!Lengths(p, t, at) : h = [beg |-> at, end |-> at + n]
    BY <2>0
  <2>2. at \in 0 .. Len(t) /\ at >= from
    BY <1>0
  <2>3. n \in 0 .. Len(t) - at
    BY <2>2, LengthsAre
  <2>4. h.beg = at /\ h.end = at + n /\ h.end - h.beg = n /\ h \in Hits
    BY <2>1, <2>2, <2>3, <1>0 DEF Hits
  <2>5. Occurs(p, t, h)
    BY <2>2, <2>3, <2>4, <1>0 DEF Occurs
  <2>6. at \in ahead
    BY <2>2 DEF After, Search!MatchesAt
  <2> QED BY <2>4, <2>5, <2>6
<1>3. ASSUME NEW i \in ahead PROVE \E h \in All : h.beg = i
  <2>1. i \in 0 .. Len(t) /\ i >= from /\ Search!Lengths(p, t, i) # {}
    BY DEF After, Search!MatchesAt
  <2>2. PICK n : n \in Search!Lengths(p, t, i)
    BY <2>1
  <2>3. i \in from .. Len(t)
    BY <2>1, <1>0
  <2>4. [beg |-> i, end |-> i + n] \in All
    BY <2>2, <2>3
  <2> QED BY <2>4
<1>4. ahead \subseteq Nat
  BY <1>0 DEF After, Search!MatchesAt
<1> HIDE DEF All, ahead
<1>5. Begins(hits) = First(ahead)
  <2>1. ASSUME NEW i \in Begins(hits) PROVE i \in First(ahead)
    <3>1. PICK h \in hits : i = h.beg
      BY DEF Begins
    <3>2. i \in ahead
      BY <3>1, <1>2
    <3>3. ASSUME NEW j \in ahead PROVE i <= j
      BY <3>1, <1>3
    <3> QED BY <3>2, <3>3 DEF First
  <2>2. ASSUME NEW i \in First(ahead) PROVE i \in Begins(hits)
    <3>1. i \in ahead /\ \A j \in ahead : i <= j
      BY DEF First
    <3>2. PICK h \in All : h.beg = i
      BY <3>1, <1>3
    <3>3. \A g \in All : h.beg <= g.beg
      BY <3>1, <3>2, <1>2
    <3>4. h \in hits
      BY <3>3
    <3> QED BY <3>2, <3>4 DEF Begins
  <2> QED BY <2>1, <2>2
<1>6. ASSUME ahead # {} PROVE hits # {}
  <2>1. PICK i \in ahead : \A j \in ahead : i <= j
    BY <1>4, <1>6, LeastExists
  <2>2. i \in First(ahead)
    BY <2>1 DEF First
  <2> HIDE DEF hits
  <2>3. i \in Begins(hits)
    BY <2>2, <1>5
  <2> QED BY <2>3 DEF Begins
<1>7. \A h \in hits : Occurs(p, t, h)
  BY <1>2
<1> HIDE DEF hits
<1> QED BY <1>1, <1>5, <1>6, <1>7 DEF ahead

\* What a search is like that looks at t from offset.
Ready(s, t, offset) ==
  /\ s \in Searches /\ s.fresh /\ ~s.noMatches /\ s.next = offset /\ s.regex.seen = t
  /\ Search!Literal(s.pattern) =>
       ~s.regex.empty /\ s.regex.at = IF offset <= Len(t) THEN offset ELSE 0

\* ICU is put where the search looks on, in the text as it is.
LEMMA PositionedIs ==
  ASSUME NEW s \in Searches, NEW t \in Strings, NEW offset \in Nat, Knows(s, t),
         ~(s.noMatches /\ s.fresh), s.fresh /\ Search!Literal(s.pattern) => offset <= Len(t)
  PROVE  /\ Ready(Search!Positioned(s, t, offset), t, offset)
         /\ Search!Positioned(s, t, offset).pattern = s.pattern
<1>0. Len(t) \in Nat
  BY DEF Strings
<1>1. CASE ~s.fresh
  <2> DEFINE regex == Search!SetText(t, offset)
  <2>1. /\ regex = [seen |-> t, at |-> IF offset <= Len(t) THEN offset ELSE 0, empty |-> FALSE]
    BY DEF Search!SetText, Search!ResetTo
  <2>2. Search!Positioned(s, t, offset) =
          [s EXCEPT !.regex = regex, !.fresh = TRUE, !.noMatches = FALSE, !.next = offset]
    BY <1>1 DEF Search!Positioned
  <2>3. regex \in [seen : Strings, at : Nat, empty : BOOLEAN]
    BY <2>1, <1>0
  <2> HIDE DEF regex
  <2> DEFINE q == [s EXCEPT !.regex = regex, !.fresh = TRUE, !.noMatches = FALSE, !.next = offset]
  <2>4. /\ q \in Searches /\ q.fresh /\ ~q.noMatches /\ q.next = offset /\ q.regex = regex
        /\ q.pattern = s.pattern
    BY <2>3 DEF Searches
  <2> HIDE DEF q
  <2>5. Ready(q, t, offset)
    BY <2>1, <2>4 DEF Ready
  <2> QED BY <2>2, <2>4, <2>5 DEF q
<1>2. CASE s.fresh /\ s.next # offset
  <2> DEFINE regex == Search!ResetTo(s.regex, offset)
  <2>1. s.regex.seen = t /\ (Search!Literal(s.pattern) => offset <= Len(t))
    BY <1>2 DEF Knows
  <2>2. s.regex \in [seen : Strings, at : Nat, empty : BOOLEAN]
    BY DEF Searches
  <2>3. /\ regex \in [seen : Strings, at : Nat, empty : BOOLEAN]
        /\ regex.seen = t /\ (offset <= Len(t) => regex.at = offset /\ ~regex.empty)
    BY <2>1, <2>2, <1>0 DEF Search!ResetTo
  <2>4. Search!Positioned(s, t, offset) = [s EXCEPT !.next = offset, !.regex = regex]
    BY <1>2 DEF Search!Positioned
  <2> HIDE DEF regex
  <2>5. ~s.noMatches
    BY <1>2 DEF Searches
  <2> QED BY <1>2, <2>1, <2>3, <2>4, <2>5 DEF Ready, Searches
<1>3. CASE s.fresh /\ s.next = offset
  <2>1. Search!Positioned(s, t, offset) = s
    BY <1>3 DEF Search!Positioned
  <2>2. ~s.noMatches
    BY <1>3 DEF Searches
  <2> QED BY <1>3, <2>1, <2>2 DEF Ready, Knows
<1> QED BY <1>1, <1>2, <1>3

\* What comes of hits, found by a search that looks at t.
Selected(at, hits) ==
  [hits |-> hits,
   search |-> IF hits = {} THEN [at EXCEPT !.ours = TRUE, !.noMatches = TRUE]
              ELSE [at EXCEPT !.ours = TRUE, !.regex = Search!Matched(@, CHOOSE h \in hits : TRUE),
                              !.next = (CHOOSE h \in hits : TRUE).end]]

\* What a search selects is a hit that is not empty.
LEMMA SelectedIs ==
  ASSUME NEW t \in Strings, NEW offset \in Nat, NEW at, Ready(at, t, offset), NEW hits,
         \A h \in hits : Occurs(at.pattern, t, h)
  PROVE  LET s == Selected(at, hits).search
         IN /\ s \in Searches /\ s.pattern = at.pattern /\ s.fresh /\ s.ours
            /\ s.noMatches <=> hits = {}
            /\ hits # {} \/ Search!MatchesAt(at.pattern, t) = {} => Knows(s, t)
            /\ s.regex.seen = t
<1> DEFINE s == Selected(at, hits).search
<1>0. /\ at \in Searches /\ at.fresh /\ ~at.noMatches /\ at.regex.seen = t
      /\ at.regex \in [seen : Strings, at : Nat, empty : BOOLEAN] /\ Len(t) \in Nat
  BY DEF Ready, Searches, Strings
<1>1. CASE hits = {}
  <2>1. s = [at EXCEPT !.ours = TRUE, !.noMatches = TRUE]
    BY <1>1 DEF Selected
  <2> HIDE DEF s
  <2>2. s \in Searches /\ s.pattern = at.pattern /\ s.fresh /\ s.ours /\ s.noMatches /\ s.regex = at.regex
    BY <2>1, <1>0 DEF Searches
  <2> QED BY <1>0, <1>1, <2>2 DEF Knows, s
<1>2. CASE hits # {}
  <2> DEFINE h == CHOOSE g \in hits : TRUE
             regex == Search!Matched(at.regex, h)
  <2>1. h \in hits
    BY <1>2
  <2>2. Occurs(at.pattern, t, h)
    BY <2>1
  <2> HIDE DEF h
  <2>3. s = [at EXCEPT !.ours = TRUE, !.regex = regex, !.next = h.end]
    BY <1>2 DEF Selected, h
  <2>4. h.beg \in 0 .. Len(t) /\ h.end \in Nat /\ h.end <= Len(t) /\ h.beg <= h.end
    BY <2>2, <1>0 DEF Occurs, Hits
  <2>5. /\ regex \in [seen : Strings, at : Nat, empty : BOOLEAN]
        /\ regex.seen = t /\ regex.at = h.end /\ regex.empty = (h.beg = h.end)
    BY <2>4, <1>0 DEF Search!Matched
  <2>6. Search!Literal(at.pattern) => h.beg # h.end
    <3>1. at.pattern \in Regular /\ h.end - h.beg \in Search!Lengths(at.pattern, t, h.beg)
      BY <2>2, <1>0 DEF Occurs, Searches
    <3> QED BY <3>1, <2>4, LengthsAre
  <2> HIDE DEF s, regex
  <2>7. /\ s \in Searches /\ s.pattern = at.pattern /\ s.fresh /\ s.ours /\ ~s.noMatches
        /\ s.regex = regex /\ s.next = h.end
    BY <2>3, <2>4, <2>5, <1>0 DEF Searches
  <2> QED BY <1>2, <2>4, <2>5, <2>6, <2>7 DEF Knows, s
<1> QED BY <1>1, <1>2

\* The search goes on right: what it finds is there, and of a literal it is the one due.
LEMMA SelectNextIs ==
  ASSUME NEW s \in Searches, NEW t \in Strings, NEW offset \in Nat, Knows(s, t),
         ~(s.noMatches /\ s.fresh), s.fresh /\ Search!Literal(s.pattern) => offset <= Len(t),
         NEW wrap \in BOOLEAN
  PROVE  LET r == Search!SelectNext(s, t, offset, wrap)
         IN /\ \A h \in r.hits : Occurs(s.pattern, t, h)
            /\ r.search \in Searches /\ r.search.pattern = s.pattern /\ r.search.ours
            /\ r.search.noMatches <=> r.hits = {}
            /\ r.search.regex.seen = t
            /\ wrap => Knows(r.search, t)
            /\ wrap /\ Search!Literal(s.pattern) =>
                 Begins(r.hits) = Due(Search!MatchesAt(s.pattern, t), offset)
<1> DEFINE at == Search!Positioned(s, t, offset)
           hits == Search!RegexNext(s.pattern, at.regex)
           back == [at EXCEPT !.next = 0, !.regex = Search!ResetTo(@, 0)]
           again == Search!RegexNext(s.pattern, back.regex)
           occ == Search!MatchesAt(s.pattern, t)
           r == Search!SelectNext(s, t, offset, wrap)
           Wanted == /\ \A h \in r.hits : Occurs(s.pattern, t, h)
                     /\ r.search \in Searches /\ r.search.pattern = s.pattern /\ r.search.ours
                     /\ r.search.noMatches <=> r.hits = {}
                     /\ r.search.regex.seen = t
                     /\ wrap => Knows(r.search, t)
                     /\ wrap /\ Search!Literal(s.pattern) => Begins(r.hits) = Due(occ, offset)
<1>0. s.pattern \in Regular /\ Len(t) \in Nat
  BY DEF Searches, Strings
<1>1. Ready(at, t, offset) /\ at.pattern = s.pattern
  BY PositionedIs
<1>2. r = IF wrap /\ at.next # 0 /\ hits = {} THEN Selected(back, again) ELSE Selected(at, hits)
  BY DEF Search!SelectNext, Selected
<1> HIDE DEF at, r
<1>3. /\ at \in Searches /\ at.next = offset
      /\ at.regex \in [seen : Strings, at : Nat, empty : BOOLEAN] /\ at.regex.seen = t
      /\ Search!Literal(s.pattern) =>
           ~at.regex.empty /\ at.regex.at = IF offset <= Len(t) THEN offset ELSE 0
  BY <1>1 DEF Ready, Searches
<1>4. /\ back.regex = [at.regex EXCEPT !.at = 0, !.empty = FALSE] /\ back.pattern = s.pattern
      /\ Ready(back, t, 0)
  <2>1. 0 <= Len(at.regex.seen)
    BY <1>3, <1>0
  <2>2. back = [at EXCEPT !.next = 0, !.regex = [at.regex EXCEPT !.at = 0, !.empty = FALSE]]
    BY <2>1 DEF Search!ResetTo
  <2> HIDE DEF back
  <2>3. back.regex = [at.regex EXCEPT !.at = 0, !.empty = FALSE] /\ back.next = 0
        /\ back.pattern = s.pattern /\ back.fresh /\ ~back.noMatches /\ back \in Searches
    BY <2>2, <1>1, <1>3 DEF Searches, Ready
  <2> QED BY <2>3, <1>0, <1>3 DEF Ready
<1>5. /\ \A h \in hits : Occurs(s.pattern, t, h)
      /\ Search!Literal(s.pattern) =>
           LET from == IF offset <= Len(t) THEN offset ELSE 0
           IN Begins(hits) = First(After(occ, from)) /\ (hits = {} => After(occ, from) = {})
  <2> DEFINE from == IF at.regex.empty THEN at.regex.at + 1 ELSE at.regex.at
  <2>1. from \in Nat /\ hits = Search!FirstHit(s.pattern, t, from)
    BY <1>3 DEF Search!RegexNext
  <2>2. Search!Literal(s.pattern) => from = IF offset <= Len(t) THEN offset ELSE 0
    BY <1>3
  <2> HIDE DEF from, hits
  <2> QED BY <2>1, <2>2, <1>0, FirstHitIs
<1>6. /\ \A h \in again : Occurs(s.pattern, t, h)
      /\ Begins(again) = First(After(occ, 0)) /\ (again = {} => After(occ, 0) = {})
  <2>1. again = Search!FirstHit(s.pattern, t, 0)
    BY <1>3, <1>4 DEF Search!RegexNext
  <2> HIDE DEF again
  <2> QED BY <2>1, <1>0, FirstHitIs
<1>7. After(occ, 0) = occ /\ (\A i \in occ : i <= Len(t) /\ i \in Nat) /\ First({}) = {}
  BY <1>0 DEF After, Search!MatchesAt, First
<1> HIDE DEF hits, again, occ, back
<1>8. ASSUME wrap /\ at.next # 0 /\ hits = {} PROVE Wanted
  <2>1. r = Selected(back, again)
    BY <1>2, <1>8
  <2>2. r.hits = again
    BY <2>1 DEF Selected
  <2>3. again # {} \/ occ = {}
    BY <1>6, <1>7
  <2>4. After(occ, offset) = {} \/ ~Search!Literal(s.pattern)
    <3>1. CASE offset <= Len(t)
      BY <3>1, <1>5, <1>8
    <3>2. CASE ~(offset <= Len(t))
      BY <3>2, <1>7, <1>0 DEF After
    <3> QED BY <3>1, <3>2
  <2>5. Search!Literal(s.pattern) => Begins(again) = Due(occ, offset)
    BY <2>4, <1>6, <1>7 DEF Due
  <2>6. LET q == r.search IN
        /\ q \in Searches /\ q.pattern = back.pattern /\ q.fresh /\ q.ours
        /\ q.noMatches <=> again = {}
        /\ again # {} \/ Search!MatchesAt(back.pattern, t) = {} => Knows(q, t)
        /\ q.regex.seen = t
    <3>1. \A h \in again : Occurs(back.pattern, t, h)
      BY <1>4, <1>6
    <3>2. Ready(back, t, 0) /\ 0 \in Nat
      BY <1>4
    <3>3. LET q == Selected(back, again).search IN
          /\ q \in Searches /\ q.pattern = back.pattern /\ q.fresh /\ q.ours
          /\ q.noMatches <=> again = {}
          /\ again # {} \/ Search!MatchesAt(back.pattern, t) = {} => Knows(q, t)
          /\ q.regex.seen = t
      BY <3>1, <3>2, SelectedIs
    <3> QED BY <2>1, <3>3
  <2> QED BY <2>2, <2>3, <2>5, <2>6, <1>4, <1>6 DEF occ
<1>9. ASSUME ~(wrap /\ at.next # 0 /\ hits = {}) PROVE Wanted
  <2>1. r = Selected(at, hits)
    BY <1>2, <1>9
  <2>2. r.hits = hits
    BY <2>1 DEF Selected
  <2>3. LET q == r.search IN
        /\ q \in Searches /\ q.pattern = at.pattern /\ q.fresh /\ q.ours
        /\ q.noMatches <=> hits = {}
        /\ hits # {} \/ Search!MatchesAt(at.pattern, t) = {} => Knows(q, t)
        /\ q.regex.seen = t
    <3>1. \A h \in hits : Occurs(at.pattern, t, h)
      BY <1>1, <1>5
    <3>2. LET q == Selected(at, hits).search IN
          /\ q \in Searches /\ q.pattern = at.pattern /\ q.fresh /\ q.ours
          /\ q.noMatches <=> hits = {}
          /\ hits # {} \/ Search!MatchesAt(at.pattern, t) = {} => Knows(q, t)
          /\ q.regex.seen = t
      BY <3>1, <1>1, SelectedIs
    <3> QED BY <2>1, <3>2
  <2>4. wrap /\ Search!Literal(s.pattern) => /\ Begins(hits) = Due(occ, offset)
                                             /\ hits # {} \/ occ = {}
    <3> SUFFICES ASSUME wrap, Search!Literal(s.pattern)
                 PROVE  Begins(hits) = Due(occ, offset) /\ (hits # {} \/ occ = {})
      OBVIOUS
    <3>1. CASE offset <= Len(t)
      <4>1. Begins(hits) = First(After(occ, offset)) /\ (hits = {} => After(occ, offset) = {})
        BY <3>1, <1>5
      <4>2. CASE hits = {}
        <5>1. offset = 0
          BY <4>2, <1>9, <1>3
        <5>2. occ = {}
          BY <4>1, <4>2, <5>1, <1>7
        <5>3. Begins(hits) = {} /\ Due(occ, offset) = {}
          BY <4>2, <5>2 DEF Begins, Due, First, After
        <5> QED BY <5>2, <5>3
      <4>3. CASE hits # {}
        <5>1. After(occ, offset) # {}
          <6>1. Begins(hits) # {}
            BY <4>3 DEF Begins
          <6> QED BY <6>1, <4>1 DEF First
        <5> QED BY <4>1, <4>3, <5>1 DEF Due
      <4> QED BY <4>2, <4>3
    <3>2. CASE ~(offset <= Len(t))
      <4>1. Begins(hits) = First(occ) /\ (hits = {} => occ = {})
        BY <3>2, <1>5, <1>7
      <4>2. After(occ, offset) = {}
        BY <3>2, <1>7, <1>0 DEF After
      <4> QED BY <4>1, <4>2 DEF Due
    <3> QED BY <3>1, <3>2
  <2>5. wrap => Knows(r.search, t)
    <3>1. CASE hits # {} \/ occ = {}
      BY <3>1, <2>3, <1>1 DEF occ
    <3>2. CASE ~Search!Literal(s.pattern)
      BY <3>2, <2>3, <1>1 DEF Knows
    <3> QED BY <3>1, <3>2, <2>4
  <2> QED BY <2>2, <2>3, <2>4, <2>5, <1>1, <1>5 DEF occ
<1>10. Wanted
  <2> HIDE DEF Wanted
  <2> QED BY <1>8, <1>9
<1> QED BY <1>10 DEF r, occ

\* The end of find_and_select, in the text that is there then.
LEMMA FindInKeeps ==
  ASSUME NEW s \in Searches, NEW t \in Strings, Knows(s, t), NEW sel, Chosen(sel, t),
         NEW cur \in 0..Len(t), Search!FindIn(s, t, sel, cur)
  PROVE  /\ cursor' \in 0 .. Len(t) /\ Chosen(selection', t)
         /\ \A x \in search' : x \in Searches /\ Knows(x, t) /\ Kept(x, selection')
         /\ \A f \in found' : Right(f, t)
<1> DEFINE from == IF s.ours THEN s.next
                   ELSE IF sel # {} THEN (CHOOSE r \in sel : TRUE).beg ELSE cur
           known == s.noMatches /\ s.fresh
           done == IF known THEN [hits |-> {}, search |-> s] ELSE Search!SelectNext(s, t, from, TRUE)
           p == s.pattern
           occ == Search!MatchesAt(p, t)
<1>0. Len(t) \in Nat /\ p \in Regular
  BY DEF Strings, Searches
<1>1. /\ search' = {done.search}
      /\ selection' = IF known THEN sel ELSE {h \in done.hits : h.beg < h.end}
      /\ cursor' = IF done.hits = {} THEN cur ELSE (CHOOSE h \in done.hits : TRUE).end
      /\ found' = {[pattern |-> p, hits |-> done.hits, from |-> from]}
  BY DEF Search!FindIn
<1>2. from \in Nat /\ (s.fresh /\ Search!Literal(p) /\ ~s.noMatches => from <= Len(t))
  <2>1. CASE s.ours
    BY <2>1 DEF Searches, Knows
  <2>2. CASE ~s.ours /\ sel # {}
    <3>1. PICK r \in sel : r = (CHOOSE g \in sel : TRUE)
      BY <2>2
    <3>2. from = r.beg
      BY <2>2, <3>1
    <3> QED BY <3>2, <1>0 DEF Chosen, Hits
  <2>3. CASE ~s.ours /\ sel = {}
    BY <2>3, <1>0
  <2> QED BY <2>1, <2>2, <2>3
<1> HIDE DEF from, done, occ
<1>3. CASE known
  <2>1. done = [hits |-> {}, search |-> s]
    BY <1>3 DEF done
  <2>2. done.hits = {} /\ done.search = s
    BY <2>1
  <2>3. search' = {s} /\ selection' = sel /\ cursor' = cur /\ found' = {[pattern |-> p, hits |-> {}, from |-> from]}
    BY <1>1, <1>3, <2>2
  <2>4. Kept(s, sel)
    BY <1>3 DEF Kept
  <2>5. Search!Literal(p) => Search!MatchesAt(p, t) = {}
    BY <1>3 DEF Knows
  <2>6. Search!Literal(p) => Begins({}) = Due(Search!MatchesAt(p, t), from)
    BY <2>5 DEF Begins, Due, First, After
  <2>7. Right([pattern |-> p, hits |-> {}, from |-> from], t)
    BY <2>6 DEF Right
  <2> QED BY <2>3, <2>4, <2>7
<1>4. CASE ~known
  <2>1. done = Search!SelectNext(s, t, from, TRUE)
    BY <1>4 DEF done
  <2>2. /\ \A h \in done.hits : Occurs(p, t, h)
        /\ done.search \in Searches /\ done.search.pattern = p /\ done.search.ours
        /\ done.search.noMatches <=> done.hits = {}
        /\ Knows(done.search, t)
        /\ Search!Literal(p) => Begins(done.hits) = Due(Search!MatchesAt(p, t), from)
    <3>1. s.fresh /\ Search!Literal(p) => from <= Len(t)
      BY <1>2, <1>4
    <3>2. ~(s.noMatches /\ s.fresh) /\ TRUE \in BOOLEAN
      BY <1>4
    <3>3. PICK wrap \in BOOLEAN : wrap = TRUE
      OBVIOUS
    <3>4. done = Search!SelectNext(s, t, from, wrap) /\ wrap
      BY <2>1, <3>3
    <3> HIDE DEF known
    <3>5. LET r == Search!SelectNext(s, t, from, wrap)
          IN /\ \A h \in r.hits : Occurs(s.pattern, t, h)
             /\ r.search \in Searches /\ r.search.pattern = s.pattern /\ r.search.ours
             /\ r.search.noMatches <=> r.hits = {}
             /\ r.search.regex.seen = t
             /\ wrap => Knows(r.search, t)
             /\ wrap /\ Search!Literal(s.pattern) =>
                  Begins(r.hits) = Due(Search!MatchesAt(s.pattern, t), from)
      BY <3>1, <3>2, <1>2, SelectNextIs
    <3> QED BY <3>4, <3>5
  <2>3. selection' = {h \in done.hits : h.beg < h.end}
    BY <1>1, <1>4
  <2>4. Chosen(selection', t)
    BY <2>2, <2>3 DEF Chosen, Occurs
  <2>5. cursor' \in 0 .. Len(t)
    <3>1. CASE done.hits = {}
      BY <3>1, <1>1
    <3>2. CASE done.hits # {}
      <4>1. PICK h \in done.hits : cursor' = h.end
        BY <3>2, <1>1
      <4> QED BY <4>1, <2>2, <1>0 DEF Occurs, Hits
    <3> QED BY <3>1, <3>2
  <2>6. Kept(done.search, selection')
    <3> SUFFICES ASSUME Search!Literal(p), done.hits # {} PROVE selection' # {}
      BY <2>2 DEF Kept
    <3>1. PICK h \in done.hits : TRUE
      OBVIOUS
    <3>2. Occurs(p, t, h)
      BY <2>2
    <3>3. h.beg \in 0 .. Len(t) /\ h.end \in Nat /\ h.end - h.beg \in Search!Lengths(p, t, h.beg)
      BY <3>2, <1>0 DEF Occurs, Hits
    <3>4. h.beg < h.end
      BY <3>3, <1>0, LengthsAre
    <3> QED BY <3>1, <3>4, <2>3
  <2> DEFINE f == [pattern |-> p, hits |-> done.hits, from |-> from]
  <2>7. f.pattern = p /\ f.hits = done.hits /\ f.from = from
    OBVIOUS
  <2>8. found' = {f}
    BY <1>1
  <2> HIDE DEF f
  <2>9. Right(f, t)
    BY <2>2, <2>7 DEF Right, Occurs
  <2> QED BY <2>2, <2>4, <2>5, <2>6, <2>8, <2>9, <1>1
<1> QED BY <1>3, <1>4

\* A splice of strings is a string.
LEMMA SplicedIs ==
  ASSUME NEW t \in Strings, NEW r \in Hits, r.beg <= r.end, r.end <= Len(t), NEW new \in Strings
  PROVE  /\ Search!Splice(t, r, new) \in Strings
         /\ Len(Search!Splice(t, r, new)) = Len(t) - (r.end - r.beg) + Len(new)
         /\ r.beg = r.end /\ new = <<>> => Search!Splice(t, r, new) = t
<1> DEFINE x == SubSeq(t, 1, r.beg) y == SubSeq(t, r.end + 1, Len(t))
<1>0. Len(t) \in Nat /\ r.beg \in Nat /\ r.end \in Nat /\ Len(new) \in Nat /\ t \in Seq(Letters)
  BY DEF Strings, Hits
<1>1. x \in Seq(Letters) /\ Len(x) = r.beg /\ \A i \in 1..r.beg : x[i] = t[i]
  BY <1>0
<1>2. y \in Seq(Letters) /\ Len(y) = Len(t) - r.end /\ \A i \in 1..Len(t) - r.end : y[i] = t[r.end + i]
  BY <1>0
<1>3. Search!Splice(t, r, new) = x \o new \o y
  BY DEF Search!Splice
<1> HIDE DEF x, y
<1> DEFINE u == x \o new
<1>4. u \in Seq(Letters) /\ Len(u) = r.beg + Len(new)
  BY <1>1, <1>0 DEF Strings
<1> HIDE DEF u
<1>5. u \o y \in Seq(Letters) /\ Len(u \o y) = r.beg + Len(new) + (Len(t) - r.end)
  <2>1. u \in Seq(Letters) /\ y \in Seq(Letters)
    BY <1>2, <1>4
  <2>2. u \o y \in Seq(Letters) /\ Len(u \o y) = Len(u) + Len(y)
    BY <2>1, ConcatProperties
  <2> QED BY <2>2, <1>2, <1>4
<1>6. ASSUME r.beg = r.end, new = <<>> PROVE u \o y = t
  <2>1. u = x
    BY <1>1, <1>6 DEF u
  <2> DEFINE z == x \o y
  <2>2. z \in Seq(Letters) /\ Len(z) = Len(x) + Len(y)
        /\ \A i \in 1..Len(x) + Len(y) : z[i] = IF i <= Len(x) THEN x[i] ELSE y[i - Len(x)]
    BY <1>1, <1>2, ConcatProperties
  <2> HIDE DEF z
  <2>3. Len(z) = Len(t)
    BY <2>2, <1>0, <1>1, <1>2, <1>6
  <2>4. ASSUME NEW i \in 1..Len(t) PROVE z[i] = t[i]
    <3>1. CASE i <= r.beg
      BY <3>1, <2>2, <1>0, <1>1, <1>2, <1>6
    <3>2. CASE ~(i <= r.beg)
      <4>1. i - r.beg \in 1..Len(t) - r.end /\ r.end + (i - r.beg) = i
        BY <3>2, <1>0, <1>6
      <4> QED BY <3>2, <4>1, <2>2, <2>3, <1>0, <1>1, <1>2
    <3> QED BY <3>1, <3>2
  <2>5. z = t
    BY <2>2, <2>3, <2>4, <1>0
  <2> QED BY <2>1, <2>5 DEF z
<1> QED BY <1>0, <1>3, <1>5, <1>6 DEF Strings, u

\* Where the loop of find_and_replace_all is.
Turns == [text : Strings, cursor : Nat, offset : Nat, search : Searches, done : BOOLEAN]

Turning(b) ==
  /\ b \in Turns /\ b.cursor <= Len(b.text)
  /\ Knows(b.search, b.text) /\ ~b.search.noMatches
  /\ b.search.fresh /\ Search!Literal(b.search.pattern) => b.offset <= Len(b.text)

\* A turn of Replace All keeps the text a string and where to go on in it.
LEMMA TurnKeeps ==
  ASSUME NEW b, Turning(b), NEW new \in Strings
  PROVE  Turning(Search!TurnOfAll(b, new))
<1> DEFINE look == Search!SelectNext(b.search, b.text, b.offset, FALSE)
           h == CHOOSE g \in look.hits : TRUE
           t == b.text
           p == b.search.pattern
           after == Search!Splice(t, h, new)
           end == h.beg + Len(new)
           kept == [look.search EXCEPT !.fresh = h.beg = h.end /\ new = <<>>]
           ended == h.beg = h.end /\ Search!Advanced(after, end) = {}
           next == IF h.beg < h.end THEN end ELSE end + 1
           c == [text |-> after, cursor |-> end, offset |-> next, search |-> kept, done |-> ended]
<1>0. /\ t \in Strings /\ b.cursor \in Nat /\ b.offset \in Nat /\ b.search \in Searches
      /\ b.done \in BOOLEAN /\ Len(t) \in Nat /\ Len(new) \in Nat /\ p \in Regular
  BY DEF Turning, Turns, Strings, Searches
<1>1. Search!TurnOfAll(b, new) = IF b.done \/ look.hits = {} THEN [b EXCEPT !.done = TRUE] ELSE c
  BY DEF Search!TurnOfAll
<1>2. Turning([b EXCEPT !.done = TRUE])
  <2> DEFINE d == [b EXCEPT !.done = TRUE]
  <2>1. d \in Turns /\ d.text = b.text /\ d.cursor = b.cursor /\ d.offset = b.offset /\ d.search = b.search
    BY DEF Turning, Turns
  <2> HIDE DEF d
  <2>2. Turning(d)
    BY <2>1 DEF Turning
  <2> QED BY <2>2 DEF d
<1>3. /\ \A g \in look.hits : Occurs(p, t, g)
      /\ look.search \in Searches /\ look.search.pattern = p
      /\ look.search.noMatches <=> look.hits = {}
      /\ look.search.regex.seen = t
  <2>1. Knows(b.search, t) /\ ~(b.search.noMatches /\ b.search.fresh)
        /\ (b.search.fresh /\ Search!Literal(b.search.pattern) => b.offset <= Len(t))
    BY DEF Turning
  <2>2. PICK wrap \in BOOLEAN : wrap = FALSE
    OBVIOUS
  <2> DEFINE r == Search!SelectNext(b.search, t, b.offset, wrap)
  <2>3. /\ \A g \in r.hits : Occurs(p, t, g)
        /\ r.search \in Searches /\ r.search.pattern = p
        /\ r.search.noMatches <=> r.hits = {}
        /\ r.search.regex.seen = t
    BY <1>0, <2>1, SelectNextIs
  <2> QED BY <2>2, <2>3
<1> HIDE DEF look
<1>4. ASSUME look.hits # {} PROVE Turning(c)
  <2>1. Occurs(p, t, h)
    BY <1>3, <1>4
  <2> HIDE DEF h
  <2>2. /\ h \in Hits /\ h.beg \in 0 .. Len(t) /\ h.end \in Nat /\ h.beg <= h.end /\ h.end <= Len(t)
        /\ h.end - h.beg \in Search!Lengths(p, t, h.beg)
    BY <2>1, <1>0 DEF Occurs, Hits
  <2>3. Search!Literal(p) => h.beg < h.end
    BY <2>2, <1>0, LengthsAre
  <2>4. /\ after \in Strings /\ Len(after) = Len(t) - (h.end - h.beg) + Len(new)
        /\ h.beg = h.end /\ new = <<>> => after = t
    BY <2>2, <1>0, SplicedIs
  <2> HIDE DEF after
  <2>5. /\ kept \in Searches /\ kept.pattern = p /\ ~kept.noMatches /\ kept.regex.seen = t
        /\ kept.fresh = (h.beg = h.end /\ new = <<>>)
    <3>1. (h.beg = h.end /\ new = <<>>) \in BOOLEAN
      OBVIOUS
    <3> QED BY <3>1, <1>3, <1>4 DEF Searches
  <2> HIDE DEF kept
  <2>6. Knows(kept, after) /\ ~(kept.fresh /\ Search!Literal(p))
    <3>1. kept.fresh => h.beg = h.end /\ new = <<>> /\ after = t
      BY <2>4, <2>5
    <3>2. ~(kept.fresh /\ Search!Literal(p))
      BY <3>1, <2>2, <2>3
    <3> QED BY <3>1, <3>2, <2>5 DEF Knows
  <2>7. end \in Nat /\ end <= Len(after) /\ next \in Nat /\ ended \in BOOLEAN
    BY <2>2, <2>4, <1>0
  <2> HIDE DEF end, next, ended
  <2>8. c \in Turns /\ c.text = after /\ c.cursor = end /\ c.search = kept
    BY <2>4, <2>5, <2>7 DEF Turns
  <2> HIDE DEF c
  <2> QED BY <2>5, <2>6, <2>7, <2>8 DEF Turning
<1> HIDE DEF c
<1> QED BY <1>1, <1>2, <1>4

\* What Replace All makes of a text is a string, and the cursor stays in it.
LEMMA ReplacedAllIs ==
  ASSUME NEW p \in Regular, NEW t \in Strings, cursor \in 0..Len(t), NEW new \in Strings
  PROVE  Turning(Search!ReplacedAll(p, t, new))
<1> DEFINE n == 2 * (Len(t) + 2)
           base == [text |-> t, cursor |-> cursor, offset |-> 0, search |-> Search!Construct(p, t),
                    done |-> FALSE]
           P == {q \in Turns \X (0..n) : Turning(q[1])}
           F == [q \in Turns \X (1..n) |-> Search!TurnOfAll(q[1], new)]
<1>0. n \in Nat /\ Len(t) \in Nat
  BY DEF Strings
<1>1. Turning(base)
  <2> DEFINE s == Search!Construct(p, t)
  <2>1. /\ s \in Searches /\ s.pattern = p /\ s.fresh /\ ~s.noMatches /\ s.regex.seen = t
        /\ s.regex.at = 0 /\ s.next = 0 /\ ~s.regex.empty
    BY DEF Search!Construct, Searches
  <2> HIDE DEF s
  <2>2. Knows(s, t)
    BY <2>1, <1>0 DEF Knows
  <2>3. base \in Turns /\ base.text = t /\ base.cursor = cursor /\ base.offset = 0 /\ base.search = s
    BY <2>1, <1>0 DEF Turns, s
  <2> HIDE DEF base
  <2> QED BY <2>1, <2>2, <2>3, <1>0 DEF Turning
<1> HIDE DEF base, n
<1>2. <<base, 0>> \in P
  <2>1. base \in Turns /\ 0 \in 0..n
    BY <1>0, <1>1 DEF Turning
  <2> QED BY <2>1, <1>1
<1>3. ASSUME NEW i \in 1..n, NEW s, <<s, i - 1>> \in P
      PROVE  F[<<s, i>>] = Search!TurnOfAll(s, new) /\ <<Search!TurnOfAll(s, new), i>> \in P
  <2>1. s \in Turns /\ Turning(s)
    BY <1>3
  <2> DEFINE u == Search!TurnOfAll(s, new)
  <2>2. Turning(u)
    BY <2>1, TurnKeeps
  <2> HIDE DEF u
  <2>3. u \in Turns /\ i \in 0..n
    BY <2>2, <1>0 DEF Turning
  <2>4. F[<<s, i>>] = u
    BY <2>1 DEF u
  <2> QED BY <2>2, <2>3, <2>4 DEF u
<1>4. P \subseteq Turns \X (0..n)
  OBVIOUS
<1>5. \A s : <<s, 0>> \in P => Turning(s)
  OBVIOUS
<1>6. \A i \in 0..n : \A s : <<s, i>> \in P => Turning(s)
  OBVIOUS
<1> HIDE DEF P, F
<1>7. PICK g : Recursive(g, n, Turns, P, base, F)
  <2>1. \A i \in 1..n : \A s : <<s, i - 1>> \in P => <<F[<<s, i>>], i>> \in P
    BY <1>3
  <2> QED BY <1>0, <1>2, <1>4, <2>1, Recursion
<1>8. ASSUME NEW i \in 1..n PROVE g[i] = Search!TurnOfAll(g[i - 1], new)
  <2>1. i - 1 \in 0..n
    BY <1>0
  <2>2. <<g[i - 1], i - 1>> \in P
    BY <2>1, <1>7 DEF Recursive
  <2>3. g[i] = F[<<g[i - 1], i>>]
    BY <1>7 DEF Recursive
  <2> QED BY <2>2, <2>3, <1>3
<1>9. g = [i \in 0..n |-> IF i = 0 THEN base ELSE Search!TurnOfAll(g[i - 1], new)]
  <2>1. \A i \in 0..n : g[i] = IF i = 0 THEN base ELSE Search!TurnOfAll(g[i - 1], new)
    BY <1>7, <1>8 DEF Recursive
  <2> QED BY <2>1, <1>7 DEF Recursive
<1>10. \E f : /\ f = [i \in 0..n |-> IF i = 0 THEN base ELSE Search!TurnOfAll(f[i - 1], new)]
              /\ Search!ReplacedAll(p, t, new) = f[n]
  BY <1>9 DEF Search!ReplacedAll, base, n
<1>11. PICK f : /\ f = [i \in 0..n |-> IF i = 0 THEN base ELSE Search!TurnOfAll(f[i - 1], new)]
                /\ Search!ReplacedAll(p, t, new) = f[n]
  BY <1>10
<1> DEFINE S == {i \in 0..n : <<f[i], i>> \in P}
<1>12. 0 \in S
  BY <1>2, <1>11, <1>0
<1>13. ASSUME NEW i \in 1..n, i - 1 \in S PROVE i \in S
  <2>1. f[i] = Search!TurnOfAll(f[i - 1], new)
    BY <1>11, <1>0
  <2>2. <<f[i - 1], i - 1>> \in P /\ i \in 0..n
    BY <1>13, <1>0
  <2> QED BY <2>1, <2>2, <1>3
<1>14. n \in S
  <2>1. \A i \in 0..n : i \in S
    <3> HIDE DEF S
    <3> QED BY <1>0, <1>12, <1>13, Induction
  <2> QED BY <2>1, <1>0
<1> QED BY <1>14, <1>11, <1>6

\* Every change makes what is kept stale; what is stale fits every text.
LEMMA StaleFits ==
  ASSUME NEW S, \A s \in S : s \in Searches, NEW t, NEW sel
  PROVE  \A x \in Search!AfterChange(S) : x \in Searches /\ Knows(x, t) /\ Kept(x, sel)
<1> SUFFICES ASSUME NEW x \in Search!AfterChange(S) PROVE x \in Searches /\ Knows(x, t) /\ Kept(x, sel)
  OBVIOUS
<1>1. PICK s \in S : x = [s EXCEPT !.fresh = FALSE]
  BY DEF Search!AfterChange
<1>2. s \in Searches
  OBVIOUS
<1>3. x \in Searches /\ ~x.fresh
  BY <1>1, <1>2 DEF Searches
<1> QED BY <1>3 DEF Knows, Kept

\* Selecting anew leaves every search with what it knows, and none with a hit.
LEMMA SelectingKeeps ==
  ASSUME NEW S, NEW t, \A s \in S : s \in Searches, NEW sel
  PROVE  /\ \A x \in Search!AfterSelecting(S) : x \in Searches /\ Kept(x, sel)
         /\ (\A s \in S : Knows(s, t)) => \A x \in Search!AfterSelecting(S) : Knows(x, t)
<1> SUFFICES ASSUME NEW x \in Search!AfterSelecting(S)
             PROVE  /\ x \in Searches /\ Kept(x, sel)
                    /\ (\A s \in S : Knows(s, t)) => Knows(x, t)
  OBVIOUS
<1>1. PICK s \in S : x = [s EXCEPT !.ours = FALSE]
  BY DEF Search!AfterSelecting
<1>2. s \in Searches
  OBVIOUS
<1>3. /\ x \in Searches /\ ~x.ours /\ x.fresh = s.fresh /\ x.pattern = s.pattern /\ x.next = s.next
      /\ x.noMatches = s.noMatches /\ x.regex = s.regex
  BY <1>1, <1>2 DEF Searches
<1>4. Knows(s, t) => Knows(x, t)
  BY <1>3 DEF Knows
<1> QED BY <1>3, <1>4 DEF Kept

\* Where a write goes.
LEMMA WriteRangeIs ==
  ASSUME SearchInv
  PROVE  LET r == Search!WriteRange
         IN /\ r \in Hits /\ r.beg <= r.end /\ r.end <= Len(text)
            /\ r.beg < r.end <=> selection # {}
<1>0. Len(text) \in Nat /\ cursor \in 0 .. Len(text)
  BY DEF SearchInv, Strings
<1>1. CASE selection = {}
  BY <1>0, <1>1 DEF Search!WriteRange, Hits
<1>2. CASE selection # {}
  <2>1. PICK r \in selection : r = Search!WriteRange
    BY <1>2 DEF Search!WriteRange
  <2>2. r \in Hits /\ r.beg < r.end /\ r.end <= Len(text)
    BY DEF SearchInv, Chosen
  <2> QED BY <2>1, <2>2, <1>0, <1>2 DEF Hits
<1> QED BY <1>1, <1>2

\* What undo can bring back is a state of before.
LEMMA RememberedIs ==
  ASSUME SearchInv, NEW e \in Search!Remembered
  PROVE  e.text \in Strings /\ e.cursor \in 0 .. Len(e.text) /\ Chosen(e.selection, e.text)
<1>1. e = [text |-> text, cursor |-> cursor, selection |-> selection]
  BY DEF Search!Remembered
<1> QED BY <1>1 DEF SearchInv

\* Find.
LEMMA FindKeeps ==
  ASSUME SearchInv, Search!SearchAssumption, NEW p \in Patterns, Search!Find(p)
  PROVE  SearchInv'
<1>0. text' = text /\ earlier' = earlier /\ text \in Strings /\ Len(text) \in Nat
      /\ cursor \in 0 .. Len(text)
  <2>1. text' = text /\ earlier' = earlier
    BY DEF Search!Find
  <2>2. text \in Strings /\ cursor \in 0 .. Len(text)
    BY DEF SearchInv
  <2> QED BY <2>1, <2>2 DEF Strings
<1> DEFINE kept == {s \in search : s.pattern = p}
<1>1. CASE p = ""
  <2>1. search' = kept /\ found' = {}
    BY <1>1 DEF Search!Find
  <2>2. kept = {}
    BY <1>1 DEF SearchInv, Searches, Regular
  <2>3. selection' = {} \/ selection' = selection
    BY <1>1 DEF Search!Find
  <2>4. cursor' \in 0 .. Len(text)
    <3>1. CASE search # {} /\ selection # {}
      <4>1. PICK r \in selection : cursor' = r.beg
        BY <3>1, <1>1 DEF Search!Find
      <4>2. r \in Hits /\ r.beg < r.end /\ r.end <= Len(text)
        BY DEF SearchInv, Chosen
      <4> QED BY <4>1, <4>2, <1>0 DEF Hits
    <3>2. CASE ~(search # {} /\ selection # {})
      BY <3>2, <1>1, <1>0 DEF Search!Find
    <3> QED BY <3>1, <3>2
  <2>5. Chosen(selection', text)
    BY <2>3 DEF SearchInv, Chosen
  <2> QED BY <1>0, <2>1, <2>2, <2>4, <2>5 DEF SearchInv
<1>2. CASE p = "bad"
  <2>1. search' = {} /\ found' = {} /\ cursor' = cursor /\ selection' = selection
    BY <1>2 DEF Search!Find
  <2> QED BY <1>0, <2>1 DEF SearchInv
<1>3. CASE p # "" /\ p # "bad"
  <2> DEFINE s == IF kept = {} THEN Search!Construct(p, text) ELSE CHOOSE k \in kept : TRUE
  <2>1. Search!FindIn(s, text, selection, cursor)
    BY <1>3 DEF Search!Find
  <2>2. p \in Regular
    BY <1>3 DEF Search!SearchAssumption, Regular
  <2>3. s \in Searches /\ Knows(s, text)
    <3>1. CASE kept = {}
      <4>1. s = Search!Construct(p, text)
        BY <3>1
      <4> HIDE DEF s
      <4>2. /\ s \in Searches /\ s.regex.seen = text /\ s.regex.at = 0 /\ s.next = 0 /\ ~s.regex.empty
            /\ ~s.noMatches
        BY <4>1, <2>2, <1>0 DEF Search!Construct, Searches
      <4> QED BY <4>2, <1>0 DEF Knows
    <3>2. CASE kept # {}
      <4>1. s \in kept
        BY <3>2
      <4> HIDE DEF s
      <4>2. s \in search
        BY <4>1
      <4> QED BY <4>2 DEF SearchInv
    <3> QED BY <3>1, <3>2
  <2> HIDE DEF s
  <2>4. Chosen(selection, text)
    BY DEF SearchInv
  <2>5. /\ cursor' \in 0 .. Len(text) /\ Chosen(selection', text)
        /\ \A x \in search' : x \in Searches /\ Knows(x, text) /\ Kept(x, selection')
        /\ \A f \in found' : Right(f, text)
    BY <2>1, <2>3, <2>4, <1>0, FindInKeeps
  <2> QED BY <2>5, <1>0 DEF SearchInv
<1> QED BY <1>1, <1>2, <1>3

\* Replace, which then finds the next one.
LEMMA ReplaceKeeps ==
  ASSUME SearchInv, Search!SearchAssumption, NEW p \in Patterns, NEW new \in Replacements,
         Search!Replace(p, new)
  PROVE  SearchInv'
<1> DEFINE range == Search!WriteRange
           changes == range.beg < range.end \/ new # <<>>
           after == Search!Splice(text, range, new)
           cur == range.beg + Len(new)
           past == Search!Advanced(after, cur)
           next(s) == IF selection # {} THEN s.next ELSE IF past = {} THEN 0 ELSE cur + 1
           left(s) == [s EXCEPT !.fresh = @ /\ ~changes, !.ours = selection = {}, !.next = next(s)]
<1>0. /\ text \in Strings /\ Len(text) \in Nat /\ new \in Strings /\ Len(new) \in Nat
  <2>1. text \in Strings
    BY DEF SearchInv
  <2>2. new \in Strings
    BY DEF Search!SearchAssumption, Strings
  <2> QED BY <2>1, <2>2 DEF Strings
<1>1. PICK s \in search : /\ s.ours /\ ~s.noMatches /\ text' = after
                          /\ earlier' = IF changes THEN Search!Remembered ELSE earlier
                          /\ Search!FindIn(left(s), after, {}, cur)
  BY DEF Search!Replace
<1>2. /\ range \in Hits /\ range.beg <= range.end /\ range.end <= Len(text)
      /\ range.beg < range.end <=> selection # {}
  BY WriteRangeIs
<1>3. /\ after \in Strings /\ Len(after) = Len(text) - (range.end - range.beg) + Len(new)
      /\ ~changes => after = text
  BY <1>0, <1>2, SplicedIs DEF Hits
<1> HIDE DEF range
<1>4. cur \in 0 .. Len(after)
  BY <1>0, <1>2, <1>3 DEF Hits
<1>5. s \in Searches /\ Knows(s, text) /\ Kept(s, selection)
  BY DEF SearchInv
<1>6. next(s) \in Nat /\ changes \in BOOLEAN
  BY <1>4, <1>5, <1>3 DEF Searches, Strings
<1>7. selection # {} => changes
  BY <1>2
<1> DEFINE l == left(s)
<1> HIDE DEF changes, next, after, cur
<1>8. /\ l \in Searches /\ l.fresh = (s.fresh /\ ~changes) /\ l.pattern = s.pattern
      /\ l.regex = s.regex /\ l.noMatches = s.noMatches
  <2>1. (s.fresh /\ ~changes) \in BOOLEAN /\ (selection = {}) \in BOOLEAN
    BY <1>5, <1>6 DEF Searches
  <2> QED BY <2>1, <1>5, <1>6 DEF Searches
<1>9. Knows(l, after)
  <2> SUFFICES ASSUME l.fresh PROVE l.regex.seen = after /\ ~Search!Literal(l.pattern)
    BY DEF Knows
  <2>1. s.fresh /\ ~changes /\ after = text /\ selection = {}
    BY <1>3, <1>7, <1>8
  <2> QED BY <2>1, <1>1, <1>5, <1>8 DEF Knows, Kept
<1>10. Chosen({}, after)
  BY DEF Chosen
<1>11. Search!FindIn(l, after, {}, cur)
  BY <1>1
<1> HIDE DEF l
<1>12. /\ cursor' \in 0 .. Len(after) /\ Chosen(selection', after)
       /\ \A x \in search' : x \in Searches /\ Knows(x, after) /\ Kept(x, selection')
       /\ \A f \in found' : Right(f, after)
  BY <1>3, <1>4, <1>8, <1>9, <1>10, <1>11, FindInKeeps
<1>13. \A e \in earlier' : e.text \in Strings /\ e.cursor \in 0 .. Len(e.text) /\ Chosen(e.selection, e.text)
  <2>1. earlier' = Search!Remembered \/ earlier' = earlier
    BY <1>1
  <2> QED BY <2>1, RememberedIs DEF SearchInv
<1> QED BY <1>1, <1>3, <1>12, <1>13 DEF SearchInv

\* Replace All.
LEMMA ReplaceAllKeeps ==
  ASSUME SearchInv, Search!SearchAssumption, NEW p \in Patterns, NEW new \in Replacements,
         Search!ReplaceAll(p, new)
  PROVE  SearchInv'
<1> DEFINE result == Search!ReplacedAll(p, text, new)
<1>1. /\ p \notin {"", "bad"} /\ text' = result.text /\ cursor' = result.cursor /\ selection' = {}
      /\ earlier' = IF result.text = text THEN earlier ELSE Search!Remembered
      /\ search' = Search!AfterSelecting(IF result.text = text THEN search ELSE Search!AfterChange(search))
      /\ found' = {}
  BY DEF Search!ReplaceAll
<1>2. p \in Regular /\ new \in Strings /\ text \in Strings /\ cursor \in 0 .. Len(text)
  BY <1>1 DEF Search!SearchAssumption, Regular, Strings, SearchInv
<1>3. Turning(result)
  BY <1>2, ReplacedAllIs
<1> HIDE DEF result
<1>4. text' \in Strings /\ cursor' \in 0 .. Len(text') /\ Chosen(selection', text')
  <2>1. result.text \in Strings /\ result.cursor \in Nat /\ result.cursor <= Len(result.text)
    BY <1>3 DEF Turning, Turns
  <2>2. Len(result.text) \in Nat
    BY <2>1 DEF Strings
  <2>3. result.cursor \in 0 .. Len(result.text)
    BY <2>1, <2>2
  <2> QED BY <2>1, <2>3, <1>1 DEF Chosen
<1>5. \A e \in earlier' : e.text \in Strings /\ e.cursor \in 0 .. Len(e.text) /\ Chosen(e.selection, e.text)
  <2>1. earlier' = Search!Remembered \/ earlier' = earlier
    BY <1>1
  <2> QED BY <2>1, RememberedIs DEF SearchInv
<1>6. \A x \in search' : x \in Searches /\ Knows(x, text') /\ Kept(x, selection')
  <2> DEFINE S == IF result.text = text THEN search ELSE Search!AfterChange(search)
  <2>1. \A s \in search : s \in Searches /\ Knows(s, text)
    BY DEF SearchInv
  <2>2. \A s \in S : s \in Searches /\ Knows(s, text')
    <3>1. CASE result.text = text
      BY <3>1, <2>1, <1>1
    <3>2. CASE result.text # text
      <4>1. \A x \in Search!AfterChange(search) : x \in Searches /\ Knows(x, text') /\ Kept(x, {})
        BY <2>1, StaleFits
      <4> QED BY <3>2, <4>1
    <3> QED BY <3>1, <3>2
  <2>3. search' = Search!AfterSelecting(S)
    BY <1>1
  <2> HIDE DEF S
  <2> QED BY <2>2, <2>3, SelectingKeeps
<1> QED BY <1>1, <1>4, <1>5, <1>6 DEF SearchInv

\* Typing.
LEMMA TypeKeeps ==
  ASSUME SearchInv, Search!SearchAssumption, NEW new \in Replacements, Search!Type(new)
  PROVE  SearchInv'
<1> DEFINE range == Search!WriteRange
           after == Search!Splice(text, range, new)
<1>0. /\ text \in Strings /\ Len(text) \in Nat /\ new \in Strings /\ Len(new) \in Nat
  <2>1. text \in Strings
    BY DEF SearchInv
  <2>2. new \in Strings
    BY DEF Search!SearchAssumption, Strings
  <2> QED BY <2>1, <2>2 DEF Strings
<1>1. /\ text' = after /\ cursor' = range.beg + Len(new) /\ selection' = {}
      /\ earlier' = Search!Remembered /\ found' = {}
      /\ search' = Search!AfterChange(IF selection = {} THEN search ELSE Search!AfterSelecting(search))
  BY DEF Search!Type
<1>2. range \in Hits /\ range.beg <= range.end /\ range.end <= Len(text)
  BY WriteRangeIs
<1>3. after \in Strings /\ Len(after) = Len(text) - (range.end - range.beg) + Len(new)
  BY <1>0, <1>2, SplicedIs
<1> HIDE DEF range, after
<1>4. cursor' \in 0 .. Len(after) /\ Chosen(selection', after)
  BY <1>0, <1>1, <1>2, <1>3 DEF Hits, Chosen
<1>5. \A e \in earlier' : e.text \in Strings /\ e.cursor \in 0 .. Len(e.text) /\ Chosen(e.selection, e.text)
  BY <1>1, RememberedIs
<1>6. \A x \in search' : x \in Searches /\ Knows(x, after) /\ Kept(x, selection')
  <2> DEFINE S == IF selection = {} THEN search ELSE Search!AfterSelecting(search)
  <2>1. \A s \in search : s \in Searches
    BY DEF SearchInv
  <2>2. \A s \in S : s \in Searches
    BY <2>1, SelectingKeeps
  <2>3. search' = Search!AfterChange(S)
    BY <1>1
  <2> HIDE DEF S
  <2> QED BY <2>2, <2>3, StaleFits
<1> QED BY <1>1, <1>3, <1>4, <1>5, <1>6 DEF SearchInv

\* A move of the cursor.
LEMMA MoveKeeps ==
  ASSUME SearchInv, NEW to \in 0 .. Len(text), NEW range, Chosen(range, text), Search!Move(to, range)
  PROVE  SearchInv'
<1>1. /\ text' = text /\ earlier' = earlier /\ cursor' = to /\ selection' = range /\ found' = {}
      /\ search' = Search!AfterSelecting(search)
  BY DEF Search!Move
<1>2. \A x \in search' : x \in Searches /\ Knows(x, text) /\ Kept(x, selection')
  <2>1. \A s \in search : s \in Searches /\ Knows(s, text)
    BY DEF SearchInv
  <2> QED BY <2>1, <1>1, SelectingKeeps
<1> QED BY <1>1, <1>2 DEF SearchInv

\* Undo and redo bring back a text that was there before.
LEMMA UndoKeeps ==
  ASSUME SearchInv, Search!Undo
  PROVE  SearchInv'
<1>1. PICK e \in earlier : text' = e.text /\ cursor' = e.cursor /\ selection' = e.selection
  BY DEF Search!Undo
<1>2. earlier' = Search!Remembered /\ search' = Search!AfterChange(search) /\ found' = {}
  BY DEF Search!Undo
<1>3. \A x \in search' : x \in Searches /\ Knows(x, text') /\ Kept(x, selection')
  <2>1. \A s \in search : s \in Searches
    BY DEF SearchInv
  <2> QED BY <2>1, <1>2, StaleFits
<1>4. \A x \in earlier' : x.text \in Strings /\ x.cursor \in 0 .. Len(x.text) /\ Chosen(x.selection, x.text)
  BY <1>2, RememberedIs
<1>5. text' \in Strings /\ cursor' \in 0 .. Len(text') /\ Chosen(selection', text')
  BY <1>1 DEF SearchInv
<1> QED BY <1>2, <1>3, <1>4, <1>5 DEF SearchInv

\* At first nothing is searched for.
LEMMA SearchInitHolds == Search!Init => SearchInv
<1> SUFFICES ASSUME Search!Init PROVE SearchInv
  OBVIOUS
<1>1. cursor = 0 /\ selection = {} /\ search = {} /\ earlier = {} /\ found = {}
  BY DEF Search!Init
<1>2. PICK n \in 0 .. MaxLength : text \in [1 .. n -> Letters]
  BY DEF Search!Init
<1>3. text \in Strings /\ Len(text) \in Nat
  <2>1. n \in Nat
    OBVIOUS
  <2>2. text \in Seq(Letters)
    BY <2>1, <1>2
  <2> QED BY <2>2 DEF Strings
<1> QED BY <1>1, <1>3 DEF SearchInv, Chosen

\* Every step.
LEMMA SearchNextKeeps ==
  ASSUME Search!SearchAssumption
  PROVE  SearchInv /\ [Search!Next]_Search!vars => SearchInv'
<1> SUFFICES ASSUME SearchInv, [Search!Next]_Search!vars PROVE SearchInv'
  OBVIOUS
<1>1. ASSUME NEW p \in Patterns, Search!Find(p) PROVE SearchInv'
  BY <1>1, FindKeeps
<1>2. ASSUME NEW p \in Patterns, NEW r \in Replacements, Search!Replace(p, r) PROVE SearchInv'
  BY <1>2, ReplaceKeeps
<1>3. ASSUME NEW p \in Patterns, NEW r \in Replacements, Search!ReplaceAll(p, r) PROVE SearchInv'
  BY <1>3, ReplaceAllKeeps
<1>4. ASSUME NEW r \in Replacements, Search!Type(r) PROVE SearchInv'
  BY <1>4, TypeKeeps
<1>5. ASSUME NEW to \in 0 .. Len(text), Search!Move(to, {}) PROVE SearchInv'
  <2>1. Chosen({}, text)
    BY DEF Chosen
  <2> QED BY <2>1, <1>5, MoveKeeps
<1>6. ASSUME NEW beg \in 0 .. Len(text), NEW end \in 0 .. Len(text), beg < end,
             Search!Move(end, {[beg |-> beg, end |-> end]})
      PROVE  SearchInv'
  <2>1. Chosen({[beg |-> beg, end |-> end]}, text)
    BY <1>6 DEF Chosen, Hits
  <2> QED BY <2>1, <1>6, MoveKeeps
<1>7. ASSUME Search!Undo PROVE SearchInv'
  BY <1>7, UndoKeeps
<1>8. ASSUME UNCHANGED Search!vars PROVE SearchInv'
  BY <1>8 DEF Search!vars, SearchInv
<1> QED BY <1>1, <1>2, <1>3, <1>4, <1>5, <1>6, <1>7, <1>8 DEF Search!Next

\* Whatever was typed, undone, replaced or selected since a search was made: what it finds occurs
\* in the text as it is then, and of a literal it is the next occurrence, or else the first.
THEOREM FoundIsAlwaysThere ==
  ASSUME Search!SearchAssumption
  PROVE  Search!Spec => []FoundIsThere
<1>1. Search!Init => SearchInv
  BY SearchInitHolds
<1>2. SearchInv /\ [Search!Next]_Search!vars => SearchInv'
  BY SearchNextKeeps
<1>3. SearchInv => FoundIsThere
  <2> SUFFICES ASSUME SearchInv PROVE FoundIsThere
    OBVIOUS
  <2>1. \A f \in found : Right(f, text)
    BY DEF SearchInv
  <2>2. \A p, t, at : Search!Lengths(p, t, at) = Lengths(p, t, at)
    BY DEF Search!Lengths, Lengths
  <2>3. \A p, t : Search!MatchesAt(p, t) = MatchesAt(p, t)
    BY <2>2 DEF Search!MatchesAt, MatchesAt
  <2>4. \A p : Search!Literal(p) = Literal(p)
    BY DEF Search!Literal, Literal
  <2> QED BY <2>1, <2>2, <2>3, <2>4 DEF FoundIsThere, Right, Begins, Due, First, After
<1> QED BY <1>1, <1>2, <1>3, PTL DEF Search!Spec
=============================================================================
