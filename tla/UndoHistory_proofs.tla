-------------------------- MODULE UndoHistory_proofs --------------------------
(***************************************************************************)
(* Proofs about UndoHistory, for every set of characters, every capacity   *)
(* and every history limit.  The safety theorems follow from the inductive *)
(* invariant IInv, the limit on the history's size from Limited with it,   *)
(* the refinement of VersionLine from both and LineInv.                    *)
(***************************************************************************)
EXTENDS UndoHistoryMC, Splicing_proofs, FiniteSetTheorems, WellFoundedInduction

-----------------------------------------------------------------------------
(***************************************************************************)
(* One entry                                                               *)
(***************************************************************************)

\* A new entry can be reversed.
LEMMA FreshUndoes ==
  ASSUME NEW t \in Seq(Chars), NEW beg \in Nat, NEW n \in Nat,
         beg + n <= Len(t), NEW add \in Seq(Chars), NEW g \in Nat,
         NEW nl \in BOOLEAN, NEW e,
         e = [off |-> beg, del |-> Extract(t, beg, n), add |-> add,
              gb |-> g, nb |-> nl, other |-> t]
  PROVE  /\ e \in Entry
         /\ Undoes(Splice(t, beg, n, add), e)
<1>1. Extract(t, beg, n) \in Seq(Chars)
  BY ExtractProperties
<1>2. /\ e \in Entry
      /\ e.off = beg /\ e.del = Extract(t, beg, n) /\ e.add = add
      /\ e.other = t
  BY <1>1 DEF Entry
<1>3. beg + Len(add) <= Len(Splice(t, beg, n, add))
  BY SpliceRange, Zenon
<1>4. Extract(Splice(t, beg, n, add), beg, Len(add)) = add
  BY ExtractOfSplice, Zenon
<1>5. Splice(Splice(t, beg, n, add), beg, Len(add), Extract(t, beg, n)) = t
  BY SpliceInverse, Zenon
<1>6. Undoes(Splice(t, beg, n, add), e)
  BY <1>2, <1>3, <1>4, <1>5, Zenon DEF Undoes, Reversed
<1> QED BY <1>2, <1>6

\* An entry that grew by an adjacent replacement can be reversed, and still
\* leads to the text it was made from.
LEMMA GrownUndoes ==
  ASSUME NEW t \in Seq(Chars), NEW e \in Entry, Undoes(t, e),
         NEW beg \in Nat, beg = e.off + Len(e.add),
         NEW n \in Nat, beg + n <= Len(t),
         NEW add \in Seq(Chars), NEW f,
         f = Grown(e, Extract(t, beg, n), add)
  PROVE  /\ f \in Entry
         /\ f.gb = e.gb /\ f.nb = e.nb /\ f.other = e.other
         /\ Undoes(Splice(t, beg, n, add), f)
<1>1. e.off \in Nat /\ e.del \in Seq(Chars) /\ e.add \in Seq(Chars)
  BY DEF Entry
<1>2. PICK off \in Nat, d \in Seq(Chars), a \in Seq(Chars) :
        off = e.off /\ d = e.del /\ a = e.add
  BY <1>1
<1>3. PICK m \in Nat : m = Len(a)
  OBVIOUS
<1>4. beg = off + m
  BY <1>2, <1>3
<1>5. /\ off + m <= Len(t)
      /\ Extract(t, off, m) = a
      /\ Splice(t, off, m, d) = e.other
  BY <1>2, <1>3, Zenon DEF Undoes, Reversed
<1>6. PICK x \in Seq(Chars) : x = Extract(t, beg, n)
  BY ExtractProperties
<1>7. d \o x \in Seq(Chars) /\ a \o add \in Seq(Chars)
  OBVIOUS
<1>8. /\ f.off = off /\ f.other = e.other /\ f.gb = e.gb /\ f.nb = e.nb
      /\ f.del = d \o x
      /\ f.add = a \o add
      /\ f \in Entry
  <2>1. f = [e EXCEPT !.del = d \o x, !.add = a \o add]
    BY <1>2, <1>6, Zenon DEF Grown
  <2> QED BY <1>2, <1>7, <2>1 DEF Entry
<1>9. Len(f.add) = m + Len(add)
  <2>1. Len(a \o add) = Len(a) + Len(add)
    BY ConcatProperties, Zenon
  <2> QED BY <1>3, <1>8, <2>1
<1>10. off + m + n <= Len(t)
  BY <1>4
<1>11. off + (m + Len(add)) <= Len(Splice(t, beg, n, add))
  BY <1>4, <1>10, SpliceAcrossRange, Zenon
<1>12. Extract(Splice(t, beg, n, add), off, m + Len(add)) = a \o add
  <2>1. Adjacent(Chars, t, off, m, n, add)
    BY <1>10 DEF Adjacent
  <2>2. Extract(Splice(t, off + m, n, add), off, m + Len(add))
          = Extract(t, off, m) \o add
    BY <2>1, ExtractAcrossSplice, SMTT(60)
  <2> QED BY <2>2, <1>4, <1>5, Zenon
<1>13. Splice(Splice(t, beg, n, add), off, m + Len(add), d \o x) = e.other
  <2>1. Splice(Splice(t, off + m, n, add), off, m + Len(add),
               d \o Extract(t, off + m, n))
          = Splice(t, off, m, d)
    BY <1>10, SpliceOfSplice
  <2> QED BY <2>1, <1>4, <1>5, <1>6, Zenon
<1>14. Undoes(Splice(t, beg, n, add), f)
  BY <1>8, <1>9, <1>11, <1>12, <1>13, Zenon DEF Undoes, Reversed
<1> QED BY <1>8, <1>14

\* Reversing an entry yields one that reverses it back.
LEMMA TurnedUndoes ==
  ASSUME NEW t \in Seq(Chars), NEW e \in Entry, Undoes(t, e),
         NEW g \in Nat, NEW nl \in BOOLEAN, NEW f, f = Turned(e, t, g, nl)
  PROVE  /\ f \in Entry
         /\ f.gb = g /\ f.nb = nl /\ f.other = t
         /\ Reversed(t, e) = e.other
         /\ e.other \in Seq(Chars)
         /\ Undoes(e.other, f)
<1>1. /\ e.off \in Nat /\ e.del \in Seq(Chars) /\ e.add \in Seq(Chars)
      /\ e.other \in Seq(Chars)
  BY DEF Entry
<1>2. PICK off \in Nat, d \in Seq(Chars), a \in Seq(Chars) :
        off = e.off /\ d = e.del /\ a = e.add
  BY <1>1
<1>3. PICK m \in Nat : m = Len(a)
  OBVIOUS
<1>4. off + m <= Len(t)
  BY <1>2, <1>3 DEF Undoes
<1>5. /\ Extract(t, off, m) = a
      /\ Splice(t, off, m, d) = e.other
      /\ Reversed(t, e) = e.other
  BY <1>2, <1>3, Zenon DEF Undoes, Reversed
<1>6. /\ f \in Entry /\ f.gb = g /\ f.nb = nl /\ f.other = t
      /\ f.off = off /\ f.del = a /\ f.add = d
  BY <1>2 DEF Turned, Entry
<1>7. off + Len(d) <= Len(e.other)
  BY <1>4, <1>5, SpliceRange, Zenon
<1>8. Extract(e.other, off, Len(d)) = d
  <2>1. Extract(Splice(t, off, m, d), off, Len(d)) = d
    BY <1>4, ExtractOfSplice
  <2> QED BY <2>1, <1>5
<1>9. Splice(e.other, off, Len(d), a) = t
  <2>1. Splice(Splice(t, off, m, d), off, Len(d), Extract(t, off, m)) = t
    BY <1>4, SpliceInverse
  <2> QED BY <2>1, <1>5
<1>10. Undoes(e.other, f)
  BY <1>6, <1>7, <1>8, <1>9, Zenon DEF Undoes, Reversed
<1> QED BY <1>1, <1>5, <1>6, <1>10

-----------------------------------------------------------------------------
(***************************************************************************)
(* Stacks: pushing, popping, and dropping the oldest entries               *)
(***************************************************************************)

\* The entries of a stack.
LEMMA EntryFacts ==
  ASSUME NEW s \in Seq(Entry), NEW i \in 1..Len(s)
  PROVE  /\ s[i] \in Entry
         /\ s[i].gb \in Nat
<1>1. s[i] \in Entry
  OBVIOUS
<1> QED BY <1>1 DEF Entry

\* Pushing an entry.
LEMMA PushFacts ==
  ASSUME NEW s \in Seq(Entry), NEW e \in Entry, NEW r, r = Append(s, e)
  PROVE  /\ r \in Seq(Entry)
         /\ r # <<>>
         /\ Len(r) = Len(s) + 1
         /\ Top(r) = e
         /\ \A i \in 1..Len(s) : r[i] = s[i]
  BY DEF Top

\* Popping an entry.
LEMMA PopFacts ==
  ASSUME NEW s \in Seq(Entry), s # <<>>, NEW r, r = Pop(s)
  PROVE  /\ r \in Seq(Entry)
         /\ Top(s) \in Entry
         /\ Top(s) = s[Len(s)]
         /\ Len(s) \in 1..Len(s)
         /\ Len(r) = Len(s) - 1
         /\ \A i \in 1..Len(r) : r[i] = s[i]
<1>1. Len(s) \in 1..Len(s)
  BY EmptySeq
<1>2. r = SubSeq(s, 1, Len(s) - 1)
  BY DEF Pop
<1>3. /\ r \in Seq(Entry)
      /\ Len(r) = Len(s) - 1
      /\ \A i \in 1..Len(r) : r[i] = s[i]
  <2>a. Len(s) - 1 \in 0..Len(s)
    BY <1>1
  <2>1. PICK m \in 0..Len(s) : m = Len(s) - 1
    BY <2>a
  <2>2. r = SubSeq(s, 1, m)
    BY <1>2, <2>1
  <2>3. /\ r \in Seq(Entry)
        /\ Len(r) = m
        /\ \A i \in 1..m : r[i] = s[i]
    BY <2>2
  <2> QED BY <2>1, <2>3
<1>4. Top(s) \in Entry
  BY <1>1, EntryFacts DEF Top
<1> QED BY <1>1, <1>3, <1>4 DEF Top

\* Dropping the k oldest entries.
LEMMA SuffixFacts ==
  ASSUME NEW s \in Seq(Entry), NEW k \in 0..Len(s) - 1, NEW r,
         r = SubSeq(s, k + 1, Len(s))
  PROVE  /\ r \in Seq(Entry)
         /\ Len(r) = Len(s) - k
         /\ \A i \in 1..Len(r) : r[i] = s[i + k]
  OBVIOUS

\* An empty stack has no stamps, and every requirement on entries holds.
LEMMA EmptyStack ==
  /\ <<>> \in Seq(Entry)
  /\ Stamps(<<>>) = {}
  /\ Ascending(<<>>)
  /\ Descending(<<>>)
  /\ \A t : Reversible(<<>>, t)
  /\ KnownVersions(<<>>)
<1>1. 1..Len(<<>>) = {}
  OBVIOUS
<1> QED BY <1>1 DEF Stamps, Ascending, Descending, Reversible, KnownVersions

\* The stamps of a stack are natural numbers, its top's among them.
LEMMA StampFacts ==
  ASSUME NEW s \in Seq(Entry)
  PROVE  /\ Stamps(s) \subseteq Nat
         /\ s # <<>> => Top(s).gb \in Stamps(s)
<1>1. s # <<>> => Len(s) \in 1..Len(s)
  BY EmptySeq
<1>2. \A i \in 1..Len(s) : s[i].gb \in Nat
  BY EntryFacts
<1> QED BY <1>1, <1>2 DEF Stamps, Top

\* The stamps after a push.
LEMMA PushStamps ==
  ASSUME NEW s \in Seq(Entry), NEW e \in Entry, NEW r, r = Append(s, e)
  PROVE  \A g \in Stamps(r) : g \in Stamps(s) \/ g = e.gb
<1>1. SUFFICES ASSUME NEW i \in 1..Len(r)
               PROVE  r[i].gb \in Stamps(s) \/ r[i].gb = e.gb
  BY DEF Stamps
<1>2. CASE i \in 1..Len(s)
  <2>1. r[i] = s[i]
    BY <1>2, PushFacts
  <2> QED BY <1>2, <2>1 DEF Stamps
<1>3. CASE i = Len(s) + 1
  BY <1>3
<1>4. i \in 1..Len(s) \/ i = Len(s) + 1
  BY <1>1
<1> QED BY <1>2, <1>3, <1>4

\* The stamps after a pop.
LEMMA PopStamps ==
  ASSUME NEW s \in Seq(Entry), s # <<>>, NEW r, r = Pop(s)
  PROVE  \A g \in Stamps(r) : g \in Stamps(s)
<1>1. \A i \in 1..Len(r) : i \in 1..Len(s) /\ r[i] = s[i]
  BY PopFacts
<1> QED BY <1>1 DEF Stamps

\* The stamps after dropping the oldest entries.
LEMMA SuffixStamps ==
  ASSUME NEW s \in Seq(Entry), NEW k \in 0..Len(s) - 1, NEW r,
         r = SubSeq(s, k + 1, Len(s))
  PROVE  \A g \in Stamps(r) : g \in Stamps(s)
<1>1. \A i \in 1..Len(r) : i + k \in 1..Len(s) /\ r[i] = s[i + k]
  BY SuffixFacts
<1> QED BY <1>1 DEF Stamps

\* In an ascending stack no stamp is newer than the top's.
LEMMA AscendingTop ==
  ASSUME NEW s \in Seq(Entry), s # <<>>, Ascending(s)
  PROVE  \A g \in Stamps(s) : g <= Top(s).gb
<1>1. Len(s) \in 1..Len(s)
  BY EmptySeq
<1>2. SUFFICES ASSUME NEW i \in 1..Len(s)
               PROVE  s[i].gb <= Top(s).gb
  BY DEF Stamps
<1>3. s[i].gb \in Nat
  BY EntryFacts
<1>4. CASE i = Len(s)
  BY <1>3, <1>4 DEF Top
<1>5. CASE i # Len(s)
  <2>1. i < Len(s)
    BY <1>5
  <2> QED BY <1>1, <2>1 DEF Ascending, Top
<1> QED BY <1>4, <1>5

\* In a descending stack no stamp is older than the top's.
LEMMA DescendingTop ==
  ASSUME NEW s \in Seq(Entry), s # <<>>, Descending(s)
  PROVE  \A g \in Stamps(s) : g >= Top(s).gb
<1>1. Len(s) \in 1..Len(s)
  BY EmptySeq
<1>2. SUFFICES ASSUME NEW i \in 1..Len(s)
               PROVE  s[i].gb >= Top(s).gb
  BY DEF Stamps
<1>3. s[i].gb \in Nat
  BY EntryFacts
<1>4. CASE i = Len(s)
  BY <1>3, <1>4 DEF Top
<1>5. CASE i # Len(s)
  <2>1. i < Len(s)
    BY <1>5
  <2> QED BY <1>1, <2>1 DEF Descending, Top
<1> QED BY <1>4, <1>5

\* Orders survive a push of a stamp no older, or no newer, than the others.
LEMMA PushOrder ==
  ASSUME NEW s \in Seq(Entry), NEW e \in Entry, NEW r, r = Append(s, e)
  PROVE  /\ Ascending(s) /\ (\A g \in Stamps(s) : g <= e.gb) => Ascending(r)
         /\ Descending(s) /\ (\A g \in Stamps(s) : g >= e.gb) => Descending(r)
<1>1. /\ Len(r) = Len(s) + 1
      /\ \A i \in 1..Len(s) : r[i] = s[i]
      /\ r[Len(r)] = e
  BY PushFacts DEF Top
<1>2. \A i, j \in 1..Len(r) :
        i < j => /\ i \in 1..Len(s)
                 /\ r[i] = s[i] /\ s[i].gb \in Stamps(s)
                 /\ \/ j \in 1..Len(s) /\ r[j] = s[j]
                    \/ j = Len(r)
  BY <1>1 DEF Stamps
<1>3. ASSUME Ascending(s), \A g \in Stamps(s) : g <= e.gb
      PROVE  Ascending(r)
  BY <1>1, <1>2, <1>3 DEF Ascending
<1>4. ASSUME Descending(s), \A g \in Stamps(s) : g >= e.gb
      PROVE  Descending(r)
  BY <1>1, <1>2, <1>4 DEF Descending
<1> QED BY <1>3, <1>4

\* Orders survive a pop.
LEMMA PopOrder ==
  ASSUME NEW s \in Seq(Entry), s # <<>>, NEW r, r = Pop(s)
  PROVE  /\ Ascending(s) => Ascending(r)
         /\ Descending(s) => Descending(r)
<1>1. \A i \in 1..Len(r) : i \in 1..Len(s) /\ r[i] = s[i]
  BY PopFacts
<1> QED BY <1>1 DEF Ascending, Descending

\* Orders survive the loss of the oldest entries.
LEMMA SuffixOrder ==
  ASSUME NEW s \in Seq(Entry), NEW k \in 0..Len(s) - 1, NEW r,
         r = SubSeq(s, k + 1, Len(s)), Ascending(s)
  PROVE  Ascending(r)
<1>1. \A i \in 1..Len(r) : i + k \in 1..Len(s) /\ r[i] = s[i + k]
  BY SuffixFacts
<1>2. \A i, j \in 1..Len(r) : i < j => i + k < j + k
  OBVIOUS
<1> QED BY <1>1, <1>2 DEF Ascending

\* A stack that applies to t, and an entry made from t that leads to u, make
\* a stack that applies to u.
LEMMA PushReversible ==
  ASSUME NEW s \in Seq(Entry), NEW e \in Entry, NEW r, r = Append(s, e),
         NEW t, NEW u, Reversible(s, t), e.other = t, Undoes(u, e)
  PROVE  Reversible(r, u)
<1>1. /\ Len(r) = Len(s) + 1
      /\ \A i \in 1..Len(s) : r[i] = s[i]
      /\ r[Len(r)] = e
  BY PushFacts DEF Top
<1>2. SUFFICES ASSUME NEW i \in 1..Len(r)
               PROVE  Undoes(After(r, i, u), r[i])
  BY DEF Reversible
<1>3. CASE i = Len(r)
  BY <1>1, <1>3, Zenon DEF After
<1>4. CASE i = Len(s)
  <2>1. i # Len(r) /\ i + 1 = Len(r) /\ i \in 1..Len(s)
    BY <1>1, <1>4
  <2>2. After(r, i, u) = t /\ After(s, i, t) = t
    BY <1>1, <1>4, <2>1, Zenon DEF After
  <2>3. Undoes(After(s, i, t), s[i])
    BY <2>1 DEF Reversible
  <2> QED BY <1>1, <2>1, <2>2, <2>3
<1>5. CASE i < Len(s)
  <2>1. /\ i # Len(r) /\ i # Len(s)
        /\ i \in 1..Len(s) /\ i + 1 \in 1..Len(s)
    BY <1>1, <1>5
  <2>2. After(r, i, u) = After(s, i, t)
    BY <1>1, <2>1, Zenon DEF After
  <2>3. Undoes(After(s, i, t), s[i])
    BY <2>1 DEF Reversible
  <2> QED BY <1>1, <2>1, <2>2, <2>3
<1> QED BY <1>1, <1>3, <1>4, <1>5

\* Popping a stack that applies to t: the top applies to t, the rest to the
\* text the top leads to.
LEMMA PopReversible ==
  ASSUME NEW s \in Seq(Entry), s # <<>>, NEW r, r = Pop(s), NEW t,
         Reversible(s, t)
  PROVE  /\ Undoes(t, Top(s))
         /\ Reversible(r, Top(s).other)
<1>1. /\ Len(s) \in 1..Len(s)
      /\ Top(s) = s[Len(s)]
      /\ Len(r) = Len(s) - 1
      /\ \A i \in 1..Len(r) : r[i] = s[i]
  BY PopFacts
<1>2. \A i \in 1..Len(s) : Undoes(After(s, i, t), s[i])
  BY DEF Reversible
<1>3. After(s, Len(s), t) = t
  BY DEF After
<1>4. Undoes(t, Top(s))
  BY <1>1, <1>2, <1>3
<1>5. ASSUME NEW i \in 1..Len(r)
      PROVE  Undoes(After(r, i, Top(s).other), r[i])
  <2>1. i \in 1..Len(s) /\ i # Len(s)
    BY <1>1
  <2>2. CASE i = Len(r)
    <3>1. i + 1 = Len(s)
      BY <1>1, <2>2
    <3>2. After(r, i, Top(s).other) = After(s, i, t)
      BY <1>1, <2>1, <2>2, <3>1, Zenon DEF After
    <3> QED BY <1>1, <1>2, <2>1, <3>2
  <2>3. CASE i # Len(r)
    <3>1. i + 1 \in 1..Len(r)
      BY <1>1, <2>3
    <3>2. After(r, i, Top(s).other) = After(s, i, t)
      BY <1>1, <2>1, <2>3, <3>1, Zenon DEF After
    <3> QED BY <1>1, <1>2, <2>1, <3>2
  <2> QED BY <2>2, <2>3
<1> QED BY <1>4, <1>5 DEF Reversible

\* r is what is left of s without its k oldest entries.
Newest(r, s, k) ==
  /\ Len(s) = Len(r) + k
  /\ \A i \in 1..Len(r) : r[i] = s[i + k]

\* The newer entries do not depend on the older ones.
LEMMA NewestReversible ==
  ASSUME NEW s \in Seq(Entry), NEW k \in Nat, NEW r \in Seq(Entry),
         Newest(r, s, k), NEW t, Reversible(s, t)
  PROVE  Reversible(r, t)
<1>m. PICK m \in Nat : m = Len(r)
  OBVIOUS
<1>n. Len(r) = m /\ Len(s) = m + k /\ \A i \in 1..m : r[i] = s[i + k]
  BY <1>m DEF Newest
<1>1. SUFFICES ASSUME NEW i \in 1..m
               PROVE  Undoes(After(r, i, t), r[i])
  BY <1>n DEF Reversible
<1>2. i + k \in 1..Len(s)
  BY <1>n
<1>3. Undoes(After(s, i + k, t), s[i + k])
  BY <1>2 DEF Reversible
<1>4. After(r, i, t) = After(s, i + k, t)
  <2>1. CASE i = m
    BY <1>n, <2>1 DEF After
  <2>2. CASE i # m
    <3>1. i + 1 \in 1..m /\ i + k # m + k /\ (i + 1) + k = (i + k) + 1
      BY <2>2
    <3>2. r[i + 1] = s[(i + k) + 1]
      BY <1>n, <3>1
    <3> QED BY <1>n, <2>2, <3>1, <3>2, Zenon DEF After
  <2> QED BY <2>1, <2>2
<1> QED BY <1>n, <1>3, <1>4

\* Dropping the oldest entries leaves a stack that applies to the same text.
LEMMA SuffixReversible ==
  ASSUME NEW s \in Seq(Entry), NEW k \in 0..Len(s) - 1, NEW r,
         r = SubSeq(s, k + 1, Len(s)), NEW t, Reversible(s, t)
  PROVE  Reversible(r, t)
<1>1. /\ r \in Seq(Entry)
      /\ Len(r) = Len(s) - k
      /\ \A i \in 1..Len(r) : r[i] = s[i + k]
  BY SuffixFacts
<1>2. Len(s) \in Nat /\ k \in Nat /\ k <= Len(s)
  OBVIOUS
<1>3. Newest(r, s, k)
  BY <1>1, <1>2 DEF Newest
<1> QED BY <1>1, <1>2, <1>3, NewestReversible

\* What is known of the saved version survives the push of an entry that
\* continues the top's group, or whose origin is known.
LEMMA PushKnown ==
  ASSUME NEW s \in Seq(Entry), NEW e \in Entry, NEW r, r = Append(s, e),
         KnownVersions(s),
         \/ s # <<>> /\ Top(s).gb = e.gb
         \/ Known(e.gb, e.other, e.nb)
  PROVE  KnownVersions(r)
<1>1. /\ Len(r) = Len(s) + 1
      /\ \A i \in 1..Len(s) : r[i] = s[i]
      /\ r[Len(r)] = e
  BY PushFacts DEF Top
<1>2. SUFFICES ASSUME NEW i \in 1..Len(r), Boundary(r, i)
               PROVE  Known(r[i].gb, r[i].other, r[i].nb)
  BY DEF KnownVersions
<1>3. CASE i = Len(r)
  <2>1. CASE s # <<>> /\ Top(s).gb = e.gb
    <3>1. Len(s) \in 1..Len(s)
      BY <2>1, EmptySeq
    <3>2. i # 1 /\ i - 1 = Len(s)
      BY <1>1, <1>3, <3>1
    <3>3. r[i - 1].gb = r[i].gb
      BY <1>1, <1>3, <2>1, <3>1, <3>2 DEF Top
    <3> QED BY <1>2, <3>2, <3>3 DEF Boundary
  <2>2. CASE Known(e.gb, e.other, e.nb)
    BY <1>1, <1>3, <2>2, Zenon
  <2> QED BY <2>1, <2>2
<1>4. CASE i # Len(r)
  <2>1. i \in 1..Len(s) /\ (i # 1 => i - 1 \in 1..Len(s))
    BY <1>1, <1>4
  <2>2. Boundary(s, i)
    BY <1>1, <1>2, <2>1 DEF Boundary
  <2> QED BY <1>1, <2>1, <2>2 DEF KnownVersions
<1> QED BY <1>3, <1>4

\* A pop keeps what is known; the top's own origin is known when the pop
\* leaves its group.
LEMMA PopKnown ==
  ASSUME NEW s \in Seq(Entry), s # <<>>, NEW r, r = Pop(s), KnownVersions(s)
  PROVE  /\ KnownVersions(r)
         /\ (r # <<>> => Top(r).gb # Top(s).gb)
              => Known(Top(s).gb, Top(s).other, Top(s).nb)
<1>1. /\ Len(s) \in 1..Len(s)
      /\ Top(s) = s[Len(s)]
      /\ Len(r) = Len(s) - 1
      /\ r \in Seq(Entry)
      /\ \A i \in 1..Len(r) : r[i] = s[i]
  BY PopFacts
<1>2. KnownVersions(r)
  <2>1. SUFFICES ASSUME NEW i \in 1..Len(r), Boundary(r, i)
                 PROVE  Known(r[i].gb, r[i].other, r[i].nb)
    BY DEF KnownVersions
  <2>2. i \in 1..Len(s) /\ (i # 1 => i - 1 \in 1..Len(r))
    BY <1>1
  <2>3. Boundary(s, i)
    BY <1>1, <2>1, <2>2 DEF Boundary
  <2> QED BY <1>1, <2>2, <2>3 DEF KnownVersions
<1>3. ASSUME r # <<>> => Top(r).gb # Top(s).gb
      PROVE  Known(Top(s).gb, Top(s).other, Top(s).nb)
  <2>1. Boundary(s, Len(s))
    <3>1. CASE Len(s) = 1
      BY <3>1 DEF Boundary
    <3>2. CASE Len(s) # 1
      <4>1. Len(r) \in 1..Len(r)
        BY <1>1, <3>2
      <4>2. r # <<>>
        BY <4>1, EmptySeq
      <4>3. Top(r) = s[Len(s) - 1]
        BY <1>1, <4>1 DEF Top
      <4> QED BY <1>1, <1>3, <4>2, <4>3 DEF Boundary
    <3> QED BY <3>1, <3>2
  <2> QED BY <1>1, <2>1 DEF KnownVersions
<1> QED BY <1>2, <1>3

\* Dropping whole groups keeps what is known.
LEMMA SuffixKnown ==
  ASSUME NEW s \in Seq(Entry), NEW k \in 0..Len(s) - 1, NEW r,
         r = SubSeq(s, k + 1, Len(s)), k = 0 \/ Boundary(s, k + 1),
         KnownVersions(s)
  PROVE  KnownVersions(r)
<1>1. /\ Len(r) = Len(s) - k
      /\ \A i \in 1..Len(r) : r[i] = s[i + k]
  BY SuffixFacts
<1>2. SUFFICES ASSUME NEW i \in 1..Len(r), Boundary(r, i)
               PROVE  Known(r[i].gb, r[i].other, r[i].nb)
  BY DEF KnownVersions
<1>3. i + k \in 1..Len(s)
  BY <1>1
<1>4. Boundary(s, i + k)
  <2>1. CASE i = 1
    <3>1. k = 0 => Boundary(s, i + k)
      BY <2>1 DEF Boundary
    <3>2. i + k = k + 1
      BY <2>1
    <3> QED BY <3>1, <3>2
  <2>2. CASE i # 1
    <3>1. i - 1 \in 1..Len(r) /\ (i - 1) + k = (i + k) - 1
      BY <2>2
    <3>2. r[i - 1] = s[(i + k) - 1]
      BY <1>1, <3>1
    <3>3. r[i - 1].gb # r[i].gb
      BY <1>2, <2>2 DEF Boundary
    <3> QED BY <1>1, <3>2, <3>3 DEF Boundary
  <2> QED BY <2>1, <2>2
<1> QED BY <1>1, <1>3, <1>4 DEF KnownVersions

\* A stack that no entry of which has the saved stamp says nothing about it.
LEMMA OtherKnown ==
  ASSUME NEW s \in Seq(Entry), saved \notin Stamps(s)
  PROVE  KnownVersions(s)
  BY DEF KnownVersions, Known, Stamps

\* The first entry of a group.
LEMMA PushFirst ==
  ASSUME NEW s \in Seq(Entry), NEW e \in Entry, NEW r, r = Append(s, e),
         NEW g, \A x \in Stamps(s) : x < g.gb,
         e.gb = g.gb, e.other = g.text, e.nb = g.nb
  PROVE  Holds(r, g)
<1>1. /\ Len(r) = Len(s) + 1
      /\ \A i \in 1..Len(s) : r[i] = s[i]
      /\ r[Len(r)] = e
  BY PushFacts DEF Top
<1>2. Boundary(r, Len(r))
  <2>1. CASE Len(r) = 1
    BY <2>1 DEF Boundary
  <2>2. CASE Len(r) # 1
    <3>1. Len(r) - 1 = Len(s) /\ Len(s) \in 1..Len(s)
      BY <1>1, <2>2
    <3>2. r[Len(r) - 1].gb \in Stamps(s)
      BY <1>1, <3>1 DEF Stamps
    <3>3. e.gb \in Nat
      BY DEF Entry
    <3> QED BY <1>1, <3>2, <3>3 DEF Boundary
  <2> QED BY <2>1, <2>2
<1>3. Len(r) \in 1..Len(r) /\ \A j \in Len(r)..Len(r) : j = Len(r)
  BY <1>1
<1> QED BY <1>1, <1>2, <1>3 DEF Holds

\* A further entry of a group.
LEMMA PushHolds ==
  ASSUME NEW s \in Seq(Entry), NEW e \in Entry, NEW r, r = Append(s, e),
         NEW g, Holds(s, g), e.gb = g.gb
  PROVE  Holds(r, g)
<1>1. /\ Len(r) = Len(s) + 1
      /\ \A i \in 1..Len(s) : r[i] = s[i]
      /\ r[Len(r)] = e
  BY PushFacts DEF Top
<1>2. PICK k \in 1..Len(s) :
        /\ Boundary(s, k)
        /\ s[k].other = g.text
        /\ s[k].nb = g.nb
        /\ \A j \in k..Len(s) : s[j].gb = g.gb
  BY DEF Holds
<1>3. k \in 1..Len(r) /\ r[k] = s[k]
  BY <1>1
<1>4. Boundary(r, k)
  <2>1. k # 1 => k - 1 \in 1..Len(s)
    OBVIOUS
  <2> QED BY <1>1, <1>2, <1>3, <2>1 DEF Boundary
<1>5. \A j \in k..Len(r) : r[j].gb = g.gb
  <2>1. \A j \in k..Len(r) : j \in k..Len(s) \/ j = Len(r)
    BY <1>1
  <2> QED BY <1>1, <1>2, <2>1
<1> QED BY <1>2, <1>3, <1>4, <1>5 DEF Holds

\* The newest entry of a group is one of it.
LEMMA HoldsTop ==
  ASSUME NEW s \in Seq(Entry), NEW g, Holds(s, g)
  PROVE  s # <<>> /\ Top(s).gb = g.gb
<1>1. PICK k \in 1..Len(s) : \A j \in k..Len(s) : s[j].gb = g.gb
  BY DEF Holds
<1>2. Len(s) \in k..Len(s)
  BY <1>1
<1> QED BY <1>1, <1>2, EmptySeq DEF Top

\* Popping the newest entry of a group leaves the rest of the group, or was
\* the group's first and leads back to its origin.
LEMMA PopHolds ==
  ASSUME NEW s \in Seq(Entry), s # <<>>, NEW r, r = Pop(s), NEW g, Holds(s, g)
  PROVE  \/ Holds(r, g)
         \/ /\ r # <<>> => Top(r).gb # g.gb
            /\ Top(s).other = g.text
            /\ Top(s).nb = g.nb
<1>1. /\ Len(s) \in 1..Len(s)
      /\ Top(s) = s[Len(s)]
      /\ Len(r) = Len(s) - 1
      /\ r \in Seq(Entry)
      /\ \A i \in 1..Len(r) : r[i] = s[i]
  BY PopFacts
<1>2. PICK k \in 1..Len(s) :
        /\ Boundary(s, k)
        /\ s[k].other = g.text
        /\ s[k].nb = g.nb
        /\ \A j \in k..Len(s) : s[j].gb = g.gb
  BY DEF Holds
<1>3. CASE k = Len(s)
  <2>1. ASSUME r # <<>>
        PROVE  Top(r).gb # g.gb
    <3>1. Len(r) \in 1..Len(r)
      BY <1>1, <2>1, EmptySeq
    <3>2. Top(r) = s[k - 1] /\ k # 1
      BY <1>1, <1>3, <3>1 DEF Top
    <3>3. s[k].gb = g.gb
      BY <1>2
    <3> QED BY <1>2, <3>2, <3>3 DEF Boundary
  <2> QED BY <1>1, <1>2, <1>3, <2>1
<1>4. CASE k # Len(s)
  <2>1. k \in 1..Len(r) /\ r[k] = s[k]
    BY <1>1, <1>4
  <2>2. Boundary(r, k)
    <3>1. k # 1 => k - 1 \in 1..Len(r)
      BY <2>1
    <3> QED BY <1>1, <1>2, <2>1, <3>1 DEF Boundary
  <2>3. \A j \in k..Len(r) : r[j].gb = g.gb
    BY <1>1, <1>2
  <2>4. Holds(r, g)
    BY <1>2, <2>1, <2>2, <2>3, Zenon DEF Holds
  <2> QED BY <2>4
<1> QED BY <1>3, <1>4

\* What trim_history leaves of a stack.
LEMMA TrimFacts ==
  ASSUME NEW STATE r, r \in Seq(Entry), NEW inGroup \in BOOLEAN,
         Trim(r, inGroup), Ascending(r), KnownVersions(r)
  PROVE  /\ undo' \in Seq(Entry)
         /\ Ascending(undo')
         /\ KnownVersions(undo')
         /\ \A g \in Stamps(undo') : g \in Stamps(r)
         /\ \A t : Reversible(r, t) => Reversible(undo', t)
         /\ inGroup => undo' = r
<1>1. CASE undo' = r
  BY <1>1
<1>2. CASE /\ ~inGroup
           /\ \E k \in TrimPoints(r) : undo' = SubSeq(r, k + 1, Len(r))
  <2>1. PICK k \in TrimPoints(r) : undo' = SubSeq(r, k + 1, Len(r))
    BY <1>2
  <2>2. /\ k \in 0..Len(r) - 1
        /\ k = 0 \/ Boundary(r, k + 1)
    BY DEF TrimPoints, TrimStops
  <2>3. undo' \in Seq(Entry)
    BY <2>1, <2>2, SuffixFacts
  <2>4. Ascending(undo')
    BY <2>1, <2>2, SuffixOrder
  <2>5. KnownVersions(undo')
    BY <2>1, <2>2, SuffixKnown
  <2>6. \A g \in Stamps(undo') : g \in Stamps(r)
    BY <2>1, <2>2, SuffixStamps
  <2>7. \A t : Reversible(r, t) => Reversible(undo', t)
    BY <2>1, <2>2, SuffixReversible
  <2> QED BY <1>2, <2>3, <2>4, <2>5, <2>6, <2>7
<1> QED BY <1>1, <1>2 DEF Trim

-----------------------------------------------------------------------------
(***************************************************************************)
(* What one edit records                                                   *)
(***************************************************************************)

\* The fields of an open group.
LEMMA GroupFacts ==
  ASSUME NEW g \in OpenGroup \cup {NoGroup}, g # NoGroup
  PROVE  /\ g \in OpenGroup
         /\ g.depth \in Nat \ {0}
         /\ g.gb \in Nat
         /\ g.nb \in BOOLEAN
         /\ g.redo \in Seq(Entry)
         /\ g.text \in Seq(Chars)
         /\ g.normalizes \in BOOLEAN
<1>1. g \in OpenGroup
  OBVIOUS
<1> QED BY <1>1 DEF OpenGroup

\* The stamp and the newline flag of a new entry: it belongs to the newest
\* group on the stack, or its origin, the current text, is known.
LEMMA OriginFacts ==
  ASSUME IInv, Ready, NEW type \in HistoryType, NEW o, o = Origin(type)
  PROVE  /\ o.gb \in Nat
         /\ o.nb \in BOOLEAN
         /\ \A g \in Stamps(undo) : g <= o.gb
         /\ o.gb <= counter
         /\ \/ undo # <<>> /\ Top(undo).gb = o.gb
            \/ Known(o.gb, text, o.nb)
         /\ group # NoGroup =>
              /\ o.gb = group.gb
              /\ \/ Holds(undo, group)
                 \/ /\ \A g \in Stamps(undo) : g < group.gb
                    /\ o.nb = group.nb
                    /\ text = group.text
<1>1. /\ undo \in Seq(Entry) /\ generation \in Nat /\ counter \in Nat
      /\ crlf \in BOOLEAN
      /\ group \in OpenGroup \cup {NoGroup}
  BY DEF IInv, TypeOK
<1>2. /\ mode = "ready"
      /\ generation <= counter
      /\ Ascending(undo)
      /\ \A g \in Stamps(undo) : g < generation
      /\ Known(generation, text, crlf)
  BY DEF IInv, Ready, HistoryOrdered, SavedKnown, StampsTaken
<1>3. Stamps(undo) \subseteq Nat
  BY <1>1, StampFacts
<1>4. CASE group # NoGroup
  <2>1. o.gb = group.gb /\ o.nb = group.nb
    BY <1>4 DEF Origin
  <2>2. group.gb \in Nat /\ group.nb \in BOOLEAN
    BY <1>1, <1>4, GroupFacts
  <2>3. CASE /\ generation = group.gb
             /\ text = group.text
             /\ crlf = group.nb
    <3>1. o.gb \in Nat /\ o.nb \in BOOLEAN /\ o.gb <= counter
      BY <1>1, <1>2, <2>1, <2>2, <2>3
    <3>2. \A g \in Stamps(undo) : g < group.gb /\ g <= o.gb
      BY <1>1, <1>2, <1>3, <2>1, <2>3
    <3>3. Known(o.gb, text, o.nb)
      BY <1>2, <2>1, <2>3
    <3> QED BY <2>1, <2>3, <3>1, <3>2, <3>3
  <2>4. CASE generation > group.gb /\ Holds(undo, group)
    <3>1. undo # <<>> /\ Top(undo).gb = o.gb
      BY <1>1, <2>1, <2>4, HoldsTop
    <3>2. \A g \in Stamps(undo) : g <= o.gb
      BY <1>1, <1>2, <3>1, AscendingTop
    <3>3. o.gb \in Nat /\ o.nb \in BOOLEAN /\ o.gb <= counter
      BY <1>1, <1>2, <2>1, <2>2, <2>4
    <3> QED BY <2>1, <2>4, <3>1, <3>2, <3>3
  <2> QED BY <1>4, <2>3, <2>4 DEF IInv, GroupProgress
<1>5. CASE group = NoGroup /\ SameRun(type)
  <2>1. undo # <<>>
    BY <1>5 DEF SameRun
  <2>2. o.gb = Top(undo).gb /\ o.nb = Top(undo).nb
    BY <1>5 DEF Origin
  <2>3. Top(undo).nb \in BOOLEAN
    <3>1. Top(undo) \in Entry
      BY <1>1, <2>1, PopFacts
    <3> QED BY <3>1 DEF Entry
  <2>4. Top(undo).gb \in Stamps(undo)
    BY <1>1, <2>1, StampFacts
  <2>5. \A g \in Stamps(undo) : g <= Top(undo).gb
    BY <1>1, <1>2, <2>1, AscendingTop
  <2>6. Top(undo).gb \in Nat /\ Top(undo).gb <= counter
    BY <1>1, <1>2, <1>3, <2>4
  <2> QED BY <1>5, <2>1, <2>2, <2>3, <2>5, <2>6
<1>6. CASE group = NoGroup /\ ~SameRun(type)
  <2>1. o.gb = generation /\ o.nb = crlf
    BY <1>6 DEF Origin
  <2>2. \A g \in Stamps(undo) : g <= o.gb
    BY <1>1, <1>2, <1>3, <2>1
  <2> QED BY <1>1, <1>2, <1>6, <2>1, <2>2
<1> QED BY <1>4, <1>5, <1>6

\* The stack an edit leaves: it leads from the new text, its stamps are older
\* than the new one, and it still holds the open group.
LEMMA RecordedFacts ==
  ASSUME IInv, Ready, NEW type \in HistoryType,
         NEW beg \in Nat, NEW n \in Nat, beg + n <= Len(text),
         NEW add \in Seq(Chars)
  PROVE  LET r == Recorded(type, beg, Extract(text, beg, n), add)
         IN  /\ r \in Seq(Entry)
             /\ r # <<>>
             /\ Reversible(r, Splice(text, beg, n, add))
             /\ Ascending(r)
             /\ \A g \in Stamps(r) : g <= counter
             /\ KnownVersions(r)
             /\ group # NoGroup => Holds(r, group)
<1> DEFINE r == Recorded(type, beg, Extract(text, beg, n), add)
           x == Extract(text, beg, n)
           u == Splice(text, beg, n, add)
<1>1. /\ undo \in Seq(Entry) /\ generation \in Nat /\ counter \in Nat
      /\ text \in Seq(Chars)
      /\ Reversible(undo, text)
      /\ Ascending(undo)
      /\ KnownVersions(undo)
  BY DEF IInv, TypeOK, HistoryReversible, HistoryOrdered, SavedKnown
<1>2. /\ generation <= counter
      /\ \A g \in Stamps(undo) : g < generation
  BY DEF IInv, Ready, HistoryOrdered, StampsTaken
<1>3. Stamps(undo) \subseteq Nat
  BY <1>1, StampFacts
<1>4. x \in Seq(Chars)
  BY <1>1, ExtractProperties
<1>5. CASE Coalesces(type, beg)
  <2> DEFINE e == Top(undo)
             q == Pop(undo)
             f == Grown(e, x, add)
  <2>1. undo # <<>> /\ lastType # "Other"
    BY <1>5 DEF Coalesces, SameRun
  <2>2. q \in Seq(Entry) /\ e \in Entry
    BY <1>1, <2>1, PopFacts
  <2>3. beg = e.off + Len(e.add)
    <3>1. e.off \in Nat
      BY <2>2 DEF Entry
    <3>2. e.add = <<>> => e.off + Len(e.add) = e.off
      BY <3>1
    <3> QED BY <1>5, <3>2 DEF Coalesces
  <2>4. Undoes(text, e) /\ Reversible(q, e.other)
    BY <1>1, <2>1, PopReversible
  <2>5. /\ f \in Entry
        /\ f.gb = e.gb /\ f.nb = e.nb /\ f.other = e.other
        /\ Undoes(u, f)
    BY <1>1, <2>2, <2>3, <2>4, GrownUndoes
  <2>6. r = Append(q, f)
    BY <1>5, Zenon DEF Recorded
  <2>7. e.gb \in Stamps(undo) /\ \A g \in Stamps(undo) : g <= e.gb
    BY <1>1, <2>1, StampFacts, AscendingTop
  <2>8. \A g \in Stamps(q) : g \in Stamps(undo)
    BY <1>1, <2>1, PopStamps
  <2>9. Ascending(q) /\ KnownVersions(q)
    BY <1>1, <2>1, PopOrder, PopKnown
  <2>10. \/ q # <<>> /\ Top(q).gb = f.gb
         \/ Known(f.gb, f.other, f.nb)
    BY <1>1, <2>1, <2>5, PopKnown
  <2> HIDE DEF f, q, u, r, e
  <2>11. r \in Seq(Entry) /\ r # <<>>
    BY <2>2, <2>5, <2>6, PushFacts
  <2>12. Reversible(r, u)
    BY <2>2, <2>4, <2>5, <2>6, PushReversible
  <2>13. Ascending(r)
    BY <2>2, <2>5, <2>6, <2>7, <2>8, <2>9, PushOrder
  <2>14. \A g \in Stamps(r) : g <= counter
    <3>1. \A g \in Stamps(r) : g \in Stamps(undo)
      BY <2>2, <2>5, <2>6, <2>7, <2>8, PushStamps
    <3> QED BY <1>1, <1>2, <1>3, <3>1
  <2>15. KnownVersions(r)
    BY <2>2, <2>5, <2>6, <2>9, <2>10, PushKnown
  <2>16. ASSUME group # NoGroup
         PROVE  Holds(r, group)
    <3>1. Holds(undo, group)
      BY <2>1, <2>16 DEF IInv, GroupProgress
    <3>2. e.gb = group.gb
      BY <1>1, <3>1, HoldsTop DEF e
    <3>3. CASE Holds(q, group)
      BY <2>2, <2>5, <2>6, <3>2, <3>3, PushHolds
    <3>4. CASE /\ q # <<>> => Top(q).gb # group.gb
               /\ e.other = group.text
               /\ e.nb = group.nb
      <4>1. \A g \in Stamps(q) : g < group.gb
        <5>1. CASE q = <<>>
          BY <5>1, EmptyStack
        <5>2. CASE q # <<>>
          <6>1. Top(q).gb \in Stamps(q) /\ \A g \in Stamps(q) : g <= Top(q).gb
            BY <2>2, <2>9, <5>2, StampFacts, AscendingTop
          <6>2. Top(q).gb \in Nat /\ e.gb \in Nat /\ Top(q).gb <= e.gb
            BY <1>3, <2>7, <2>8, <6>1
          <6>3. Top(q).gb < group.gb
            BY <3>2, <3>4, <5>2, <6>2
          <6>4. \A g \in Stamps(q) : g \in Nat
            BY <1>3, <2>8
          <6> QED BY <3>2, <6>1, <6>2, <6>3, <6>4
        <5> QED BY <5>1, <5>2
      <4> QED BY <2>2, <2>5, <2>6, <3>2, <3>4, <4>1, PushFirst
    <3>5. \/ Holds(q, group)
          \/ /\ q # <<>> => Top(q).gb # group.gb
             /\ e.other = group.text
             /\ e.nb = group.nb
      BY <1>1, <2>1, <3>1, PopHolds DEF q, e
    <3> QED BY <3>3, <3>4, <3>5
  <2> QED BY <2>11, <2>12, <2>13, <2>14, <2>15, <2>16 DEF r, u
<1>6. CASE ~Coalesces(type, beg)
  <2> DEFINE o == Origin(type)
             e == [off |-> beg, del |-> x, add |-> add, gb |-> o.gb,
                   nb |-> o.nb, other |-> text]
  <2>1. r = Append(undo, e)
    BY <1>6, Zenon DEF Recorded
  <2>2. /\ o.gb \in Nat /\ o.nb \in BOOLEAN
        /\ \A g \in Stamps(undo) : g <= o.gb
        /\ o.gb <= counter
        /\ \/ undo # <<>> /\ Top(undo).gb = o.gb
           \/ Known(o.gb, text, o.nb)
        /\ group # NoGroup =>
             /\ o.gb = group.gb
             /\ \/ Holds(undo, group)
                \/ /\ \A g \in Stamps(undo) : g < group.gb
                   /\ o.nb = group.nb
                   /\ text = group.text
    BY OriginFacts
  <2> HIDE DEF o
  <2>3. e \in Entry /\ Undoes(u, e)
    BY <1>1, <2>2, FreshUndoes
  <2>4. e.gb = o.gb /\ e.nb = o.nb /\ e.other = text
    OBVIOUS
  <2> HIDE DEF e, u, r
  <2>5. r \in Seq(Entry) /\ r # <<>>
    BY <1>1, <2>1, <2>3, PushFacts
  <2>6. Reversible(r, u)
    BY <1>1, <2>1, <2>3, <2>4, PushReversible
  <2>7. Ascending(r)
    BY <1>1, <2>1, <2>2, <2>3, <2>4, PushOrder
  <2>8. \A g \in Stamps(r) : g <= counter
    <3>1. \A g \in Stamps(r) : g \in Stamps(undo) \/ g = o.gb
      BY <1>1, <2>1, <2>3, <2>4, PushStamps
    <3> QED BY <1>1, <1>2, <1>3, <2>2, <3>1
  <2>9. KnownVersions(r)
    BY <1>1, <2>1, <2>2, <2>3, <2>4, PushKnown
  <2>10. ASSUME group # NoGroup
         PROVE  Holds(r, group)
    <3>1. CASE Holds(undo, group)
      BY <1>1, <2>1, <2>2, <2>3, <2>4, <2>10, <3>1, PushHolds
    <3>2. CASE /\ \A g \in Stamps(undo) : g < group.gb
               /\ o.nb = group.nb
               /\ text = group.text
      BY <1>1, <2>1, <2>2, <2>3, <2>4, <2>10, <3>2, PushFirst
    <3> QED BY <2>2, <2>10, <3>1, <3>2
  <2> QED BY <2>5, <2>6, <2>7, <2>8, <2>9, <2>10 DEF r, u
<1> QED BY <1>5, <1>6

-----------------------------------------------------------------------------
(***************************************************************************)
(* IInv is inductive                                                       *)
(***************************************************************************)

\* The state of a new buffer.
LEMMA InitIInv == Init => IInv
<1> SUFFICES ASSUME Init
             PROVE  IInv
  OBVIOUS
<1> USE DEF Init
<1>1. TypeOK
  <2>1. <<>> \in Seq(Chars) /\ <<>> \in Seq(Entry)
    OBVIOUS
  <2>2. disk \in [text : Seq(Chars), crlf : BOOLEAN]
    BY <2>1 DEF Loaded
  <2>3. walk \in [from : Nat, to : Nat]
    BY DEF NoWalk
  <2> QED BY <2>1, <2>2, <2>3 DEF TypeOK, HistoryType
<1>2. Transaction = NoGroup
  BY DEF Transaction
<1>3. HistoryReversible
  BY <1>2, EmptyStack, Zenon DEF HistoryReversible
<1>4. HistoryOrdered
  BY <1>2, EmptyStack DEF HistoryOrdered
<1>5. SavedKnown
  BY <1>2, EmptyStack DEF SavedKnown, Known
<1>6. StampsTaken
  BY <1>2, EmptyStack DEF StampsTaken, NoWalk
<1>7. GroupProgress /\ UndoProgress /\ RedoProgress /\ AbortProgress
  BY DEF GroupProgress, UndoProgress, RedoProgress, AbortProgress
<1> QED BY <1>1, <1>3, <1>4, <1>5, <1>6, <1>7 DEF IInv

\* Steps that leave the contents, the stacks and the stamps alone, and at most
\* break off a run of typing.
LEMMA NeutralIInv ==
  ASSUME IInv,
         UNCHANGED <<text, crlf, generation, counter, saved, undo, redo, group,
                     mode, walk, aborting, disk>>,
         lastType' \in {lastType, "Other"},
         cursor' \in Nat,
         capacityError' \in BOOLEAN
  PROVE  IInv'
<1>1. TypeOK'
  BY DEF IInv, TypeOK, HistoryType
<1>2. Transaction' = Transaction
  BY DEF Transaction
<1>3. HistoryReversible'
  BY <1>2 DEF IInv, HistoryReversible
<1>4. HistoryOrdered'
  BY <1>2 DEF IInv, HistoryOrdered
<1>5. SavedKnown'
  BY <1>2 DEF IInv, SavedKnown, KnownVersions, Known
<1>6. StampsTaken'
  BY <1>2 DEF IInv, StampsTaken
<1>7. GroupProgress'
  BY DEF IInv, GroupProgress
<1>8. UndoProgress' /\ RedoProgress' /\ AbortProgress'
  BY DEF IInv, UndoProgress, RedoProgress, AbortProgress, WalkContinues, Known
<1> QED BY <1>1, <1>3, <1>4, <1>5, <1>6, <1>7, <1>8 DEF IInv

\* Entering or leaving an inner group.
LEMMA DepthIInv ==
  ASSUME IInv, group # NoGroup, mode = "ready",
         NEW d \in Nat \ {0}, group' = [group EXCEPT !.depth = d],
         UNCHANGED <<text, crlf, generation, counter, saved, undo, redo,
                     lastType, cursor, mode, walk, aborting, capacityError,
                     disk>>
  PROVE  IInv'
<1>1. /\ group \in OpenGroup \cup {NoGroup}
      /\ aborting = NoGroup
  BY DEF IInv, TypeOK, GroupProgress
<1>2. /\ group' \in OpenGroup
      /\ group'.gb = group.gb /\ group'.nb = group.nb
      /\ group'.redo = group.redo /\ group'.text = group.text
      /\ group'.depth = d
  BY <1>1, GroupFacts DEF OpenGroup
<1>3. group' # NoGroup
  BY <1>2 DEF NoGroup
<1>4. TypeOK'
  BY <1>2 DEF IInv, TypeOK
<1>5. Transaction = group /\ Transaction' = group'
  BY <1>1 DEF Transaction
<1>6. HistoryReversible'
  BY <1>2, <1>5 DEF IInv, HistoryReversible
<1>7. HistoryOrdered'
  BY <1>2, <1>5 DEF IInv, HistoryOrdered
<1>8. SavedKnown'
  BY <1>2, <1>5 DEF IInv, SavedKnown, KnownVersions, Known
<1>9. StampsTaken'
  BY <1>2, <1>5 DEF IInv, StampsTaken
<1>10. GroupProgress'
  <2>1. Holds(undo, group) => Holds(undo', group')
    BY <1>2 DEF Holds
  <2> QED BY <1>1, <1>2, <2>1 DEF IInv, GroupProgress
<1>11. UndoProgress' /\ RedoProgress' /\ AbortProgress'
  BY <1>1 DEF UndoProgress, RedoProgress, AbortProgress
<1> QED
  BY <1>4, <1>6, <1>7, <1>8, <1>9, <1>10, <1>11 DEF IInv

\* An edit session.
LEMMA EditIInv ==
  ASSUME IInv, Ready, NEW type \in HistoryType,
         NEW beg \in Nat, NEW n \in Nat, beg + n <= Len(text),
         NEW add \in Seq(Chars), NEW at \in Nat,
         Edit(type, beg, n, add, at),
         UNCHANGED <<saved, group, mode, walk, aborting, disk>>,
         crlf' \in BOOLEAN, group # NoGroup => crlf' = crlf,
         capacityError' \in BOOLEAN
  PROVE  IInv'
<1> DEFINE r == Recorded(type, beg, Extract(text, beg, n), add)
<1>1. /\ text \in Seq(Chars)
      /\ generation \in Nat /\ counter \in Nat /\ saved \in Nat \cup {Unsaved}
      /\ group \in OpenGroup \cup {NoGroup}
      /\ generation <= counter /\ saved <= counter
      /\ mode = "ready" /\ aborting = NoGroup
  BY DEF IInv, TypeOK, StampsTaken, Ready, AbortProgress
<1>2. /\ r \in Seq(Entry)
      /\ r # <<>>
      /\ Reversible(r, Splice(text, beg, n, add))
      /\ Ascending(r)
      /\ \A g \in Stamps(r) : g <= counter
      /\ KnownVersions(r)
      /\ group # NoGroup => Holds(r, group)
  BY RecordedFacts
<1>3. /\ text' = Splice(text, beg, n, add)
      /\ Trim(r, group # NoGroup)
      /\ redo' = <<>>
      /\ generation' = counter + 1
      /\ counter' = counter + 1
      /\ lastType' = type
      /\ cursor' \in Nat
  BY DEF Edit
<1> HIDE DEF r
<1>4. /\ undo' \in Seq(Entry)
      /\ Ascending(undo')
      /\ KnownVersions(undo')
      /\ \A g \in Stamps(undo') : g \in Stamps(r)
      /\ Reversible(undo', text')
      /\ group # NoGroup => Holds(undo', group)
  BY <1>2, <1>3, TrimFacts
<1>5. text' \in Seq(Chars)
  BY <1>1, <1>3, SpliceLength
<1>6. TypeOK'
  BY <1>3, <1>4, <1>5, EmptyStack DEF IInv, TypeOK
<1>7. Transaction' = Transaction
  BY DEF Transaction
<1>8. HistoryReversible'
  BY <1>3, <1>4, <1>7, EmptyStack DEF IInv, HistoryReversible
<1>9. \A g \in Stamps(undo') : g \in Nat /\ g < generation'
  <2>1. Stamps(undo') \subseteq Nat
    BY <1>4, StampFacts
  <2> QED BY <1>1, <1>2, <1>3, <1>4, <2>1
<1>10. HistoryOrdered'
  BY <1>3, <1>4, <1>7, <1>9, EmptyStack DEF IInv, HistoryOrdered
<1>11. generation' # saved'
  BY <1>1, <1>3 DEF Unsaved
<1>12. SavedKnown'
  <2>1. KnownVersions(undo)'
    BY <1>4 DEF KnownVersions, Known
  <2>2. KnownVersions(redo)'
    BY <1>3, EmptyStack DEF KnownVersions, Known
  <2>3. Transaction # NoGroup => KnownVersions(Transaction.redo)'
    BY <1>7 DEF IInv, SavedKnown, KnownVersions, Known
  <2>4. Transaction # NoGroup =>
          Known(Transaction.gb, Transaction.text, Transaction.nb)'
    BY <1>7 DEF IInv, SavedKnown, Known
  <2>5. Known(generation, text, crlf)'
    BY <1>11 DEF Known
  <2> QED BY <1>7, <2>1, <2>2, <2>3, <2>4, <2>5 DEF SavedKnown
<1>13. StampsTaken'
  <2>1. ASSUME Transaction # NoGroup
        PROVE  \A g \in Stamps(Transaction.redo) : g <= counter'
    <3>1. Transaction \in OpenGroup \cup {NoGroup}
      BY <1>1 DEF Transaction
    <3>2. Stamps(Transaction.redo) \subseteq Nat
      BY <2>1, <3>1, GroupFacts, StampFacts
    <3> QED BY <1>1, <1>3, <2>1, <3>2 DEF IInv, StampsTaken
  <2>2. walk.from \in Nat /\ walk.from <= counter
    BY DEF IInv, TypeOK, StampsTaken
  <2>3. saved' <= counter'
    BY <1>1, <1>3 DEF Unsaved
  <2> QED BY <1>1, <1>3, <1>7, <2>1, <2>2, <2>3, EmptyStack DEF StampsTaken
<1>14. GroupProgress'
  <2>1. ASSUME group # NoGroup
        PROVE  generation' > group.gb /\ crlf' = group.nb
    <3>1. group.gb \in Nat
      BY <1>1, <2>1, GroupFacts
    <3>2. group.gb <= generation /\ crlf = group.nb
      BY <1>1, <2>1, <3>1 DEF IInv, GroupProgress
    <3> QED BY <1>1, <1>3, <2>1, <3>1, <3>2
  <2> QED BY <1>1, <1>4, <1>11, <2>1 DEF GroupProgress
<1>15. UndoProgress' /\ RedoProgress' /\ AbortProgress'
  BY <1>1 DEF UndoProgress, RedoProgress, AbortProgress
<1> QED
  BY <1>6, <1>8, <1>10, <1>12, <1>13, <1>14, <1>15 DEF IInv

\* Opening the outermost group.
LEMMA BeginGroupIInv ==
  ASSUME IInv, NEW normalizes \in BOOLEAN, BeginGroup(normalizes)
  PROVE  IInv'
<1> USE DEF BeginGroup
<1>1. /\ text \in Seq(Chars) /\ crlf \in BOOLEAN /\ generation \in Nat
      /\ redo \in Seq(Entry)
      /\ mode = "ready" /\ group = NoGroup /\ aborting = NoGroup
  BY DEF IInv, TypeOK, AbortProgress
<1>2. /\ group' \in OpenGroup
      /\ group'.gb = generation /\ group'.nb = crlf
      /\ group'.redo = redo /\ group'.text = text
  BY <1>1 DEF OpenGroup
<1>3. group' # NoGroup
  <2>1. group'.depth = 1
    OBVIOUS
  <2> QED BY <2>1 DEF NoGroup
<1>4. TypeOK'
  BY <1>2, EmptyStack DEF IInv, TypeOK, HistoryType
<1>5. Transaction' = group' /\ Transaction = NoGroup
  BY <1>1 DEF Transaction
<1>6. HistoryReversible'
  BY <1>2, <1>5, EmptyStack DEF IInv, HistoryReversible
<1>7. HistoryOrdered'
  BY <1>1, <1>2, <1>5, EmptyStack DEF IInv, HistoryOrdered
<1>8. SavedKnown'
  <2>1. KnownVersions(redo)'
    BY EmptyStack DEF KnownVersions, Known
  <2>2. KnownVersions(undo)' /\ KnownVersions(Transaction.redo)'
    BY <1>2, <1>5 DEF IInv, SavedKnown, KnownVersions, Known
  <2>3. /\ Known(generation, text, crlf)'
        /\ Known(Transaction.gb, Transaction.text, Transaction.nb)'
    BY <1>1, <1>2, <1>5 DEF IInv, SavedKnown, Known
  <2> QED BY <2>1, <2>2, <2>3 DEF SavedKnown
<1>9. StampsTaken'
  BY <1>2, <1>5, EmptyStack DEF IInv, StampsTaken
<1>10. GroupProgress'
  BY <1>1, <1>2 DEF GroupProgress
<1>11. UndoProgress' /\ RedoProgress' /\ AbortProgress'
  BY <1>1 DEF UndoProgress, RedoProgress, AbortProgress
<1> QED
  BY <1>4, <1>6, <1>7, <1>8, <1>9, <1>10, <1>11 DEF IInv

\* Closing the outermost group.
LEMMA EndGroupIInv ==
  ASSUME IInv, EndGroup
  PROVE  IInv'
<1>1. /\ group \in OpenGroup \cup {NoGroup} /\ group # NoGroup
      /\ generation \in Nat /\ counter \in Nat /\ text \in Seq(Chars)
      /\ undo \in Seq(Entry) /\ redo \in Seq(Entry) /\ crlf \in BOOLEAN
      /\ mode = "ready" /\ aborting = NoGroup /\ Transaction = group
      /\ Ascending(undo) /\ Descending(redo)
      /\ Reversible(undo, text) /\ Reversible(redo, text)
      /\ KnownVersions(undo) /\ KnownVersions(redo)
      /\ \A g \in Stamps(undo) : g < generation
  BY DEF IInv, TypeOK, EndGroup, GroupProgress, Transaction, HistoryOrdered,
         HistoryReversible, SavedKnown
<1>2. /\ group.gb \in Nat /\ group.redo \in Seq(Entry)
  BY <1>1, GroupFacts
<1>3. /\ undo' \in Seq(Entry)
      /\ Ascending(undo')
      /\ KnownVersions(undo')
      /\ \A g \in Stamps(undo') : g \in Stamps(undo)
      /\ Reversible(undo', text)
  <2>1. Trim(undo, FALSE)
    BY DEF EndGroup
  <2> QED BY <1>1, <2>1, TrimFacts
<1>4. generation = group.gb => text = group.text /\ crlf = group.nb
  BY <1>1, <1>2 DEF IInv, GroupProgress
<1>5. /\ redo' \in Seq(Entry)
      /\ Reversible(redo', text)
      /\ Descending(redo')
      /\ \A g \in Stamps(redo') : g > generation /\ g <= counter
      /\ KnownVersions(redo')
  <2>1. CASE generation = group.gb
    <3>1. redo' = group.redo
      BY <2>1 DEF EndGroup
    <3> QED BY <1>1, <1>2, <1>4, <2>1, <3>1
            DEF IInv, HistoryReversible, HistoryOrdered, SavedKnown, StampsTaken
  <2>2. CASE generation # group.gb
    <3>1. redo' = redo
      BY <2>2 DEF EndGroup
    <3> QED BY <1>1, <3>1 DEF IInv, HistoryOrdered, StampsTaken
  <2> QED BY <2>1, <2>2
<1>6. Known(generation, text, crlf')
  <2>1. CASE crlf' = crlf
    BY <1>1, <2>1 DEF IInv, SavedKnown
  <2>2. CASE generation # group.gb
    <3>1. generation # saved
      BY <1>1, <2>2 DEF IInv, GroupProgress
    <3> QED BY <3>1 DEF Known
  <2> QED BY <2>1, <2>2 DEF EndGroup
<1>7. /\ group' = NoGroup /\ mode' = "ready" /\ aborting' = NoGroup
      /\ lastType' = "Other" /\ cursor' = 0
      /\ UNCHANGED <<text, generation, counter, saved, walk, capacityError, disk>>
      /\ crlf' \in BOOLEAN
  BY <1>1 DEF EndGroup
<1>8. TypeOK'
  BY <1>3, <1>5, <1>7 DEF IInv, TypeOK, HistoryType
<1>9. Transaction' = NoGroup
  BY <1>7 DEF Transaction
<1>10. HistoryReversible'
  BY <1>3, <1>5, <1>7, <1>9 DEF HistoryReversible
<1>11. HistoryOrdered'
  BY <1>1, <1>3, <1>5, <1>7, <1>9 DEF HistoryOrdered
<1>12. SavedKnown'
  <2>1. KnownVersions(undo)' /\ KnownVersions(redo)'
    BY <1>3, <1>5, <1>7 DEF KnownVersions, Known
  <2>2. Known(generation, text, crlf)'
    BY <1>6, <1>7 DEF Known
  <2> QED BY <1>9, <2>1, <2>2 DEF SavedKnown
<1>13. StampsTaken'
  BY <1>5, <1>7, <1>9 DEF IInv, StampsTaken
<1>14. GroupProgress' /\ UndoProgress' /\ RedoProgress' /\ AbortProgress'
  BY <1>7 DEF GroupProgress, UndoProgress, RedoProgress, AbortProgress
<1> QED
  BY <1>8, <1>10, <1>11, <1>12, <1>13, <1>14 DEF IInv

\* Rolling back a group.
LEMMA AbortGroupIInv ==
  ASSUME IInv, AbortGroup
  PROVE  IInv'
<1>1. /\ group \in OpenGroup \cup {NoGroup} /\ group # NoGroup
      /\ generation \in Nat /\ counter \in Nat
      /\ undo \in Seq(Entry) /\ redo \in Seq(Entry)
      /\ mode = "ready" /\ aborting = NoGroup /\ Transaction = group
      /\ group' = NoGroup /\ lastType' = "Other" /\ cursor' = 0
      /\ capacityError' = FALSE
      /\ UNCHANGED <<text, crlf, generation, counter, saved, undo, disk>>
  BY DEF IInv, TypeOK, AbortGroup, GroupProgress, Transaction
<1>2. group.gb \in Nat /\ group.redo \in Seq(Entry)
  BY <1>1, GroupFacts
<1>4. CASE generation = group.gb
  <2>1. /\ redo' = group.redo /\ mode' = "ready" /\ walk' = walk
        /\ aborting' = NoGroup
    BY <1>1, <1>4 DEF AbortGroup
  <2>2. text = group.text /\ crlf = group.nb
    BY <1>1, <1>2, <1>4 DEF IInv, GroupProgress
  <2>3. TypeOK'
    BY <1>1, <1>2, <2>1 DEF IInv, TypeOK, HistoryType
  <2>4. Transaction' = NoGroup
    BY <1>1, <2>1 DEF Transaction
  <2>5. HistoryReversible'
    BY <1>1, <2>1, <2>2, <2>4 DEF IInv, HistoryReversible
  <2>6. HistoryOrdered'
    BY <1>1, <1>4, <2>1, <2>4 DEF IInv, HistoryOrdered
  <2>7. SavedKnown'
    BY <1>1, <2>1, <2>4 DEF IInv, SavedKnown, KnownVersions, Known
  <2>8. StampsTaken'
    BY <1>1, <2>1, <2>4 DEF IInv, StampsTaken
  <2>9. GroupProgress' /\ UndoProgress' /\ RedoProgress' /\ AbortProgress'
    BY <1>1, <2>1 DEF GroupProgress, UndoProgress, RedoProgress, AbortProgress
  <2> QED
    BY <2>3, <2>5, <2>6, <2>7, <2>8, <2>9 DEF IInv
<1>5. CASE generation # group.gb
  <2>1. /\ mode' = "undo" /\ aborting' = group /\ redo' = redo
        /\ walk' = [from |-> generation, to |-> Top(undo).gb]
    BY <1>1, <1>5 DEF AbortGroup
  <2>2. generation > group.gb /\ Holds(undo, group)
    BY <1>1, <1>5 DEF IInv, GroupProgress
  <2>3. undo # <<>> /\ Top(undo).gb = group.gb
    BY <1>1, <2>2, HoldsTop
  <2>4. walk'.from = generation /\ walk'.to = group.gb
        /\ walk' \in [from : Nat, to : Nat]
    BY <1>1, <1>2, <2>1, <2>3
  <2>5. TypeOK'
    BY <1>1, <2>1, <2>4 DEF IInv, TypeOK, HistoryType
  <2>6. Transaction' = Transaction
    BY <1>1, <2>1 DEF Transaction
  <2>7. HistoryReversible'
    BY <1>1, <2>1, <2>6 DEF IInv, HistoryReversible
  <2>8. HistoryOrdered'
    BY <1>1, <2>1, <2>6 DEF IInv, HistoryOrdered
  <2>9. SavedKnown'
    BY <1>1, <2>1, <2>6 DEF IInv, SavedKnown, KnownVersions, Known
  <2>10. StampsTaken'
    BY <1>1, <2>1, <2>4, <2>6 DEF IInv, StampsTaken
  <2>11. GroupProgress' /\ RedoProgress'
    BY <1>1, <2>1 DEF GroupProgress, RedoProgress
  <2>12. AbortProgress'
    BY <1>1, <2>1, <2>2, <2>4 DEF AbortProgress
  <2>13. UndoProgress'
    <3>1. \A g \in Stamps(undo) : g <= group.gb
      BY <1>1, <2>3, AscendingTop DEF IInv, HistoryOrdered
    <3>2. Stamps(redo) \subseteq Nat
      BY <1>1, StampFacts
    <3>3. \A g \in Stamps(redo) : g >= generation
      BY <1>1, <3>2 DEF IInv, HistoryOrdered
    <3>4. WalkContinues(undo)'
      BY <1>1, <2>3, <2>4 DEF WalkContinues
    <3>5. Known(walk.from, text, crlf)'
      BY <1>1, <2>4 DEF IInv, SavedKnown, Known
    <3> QED BY <1>1, <1>2, <2>1, <2>2, <2>4, <3>1, <3>3, <3>4, <3>5
            DEF UndoProgress
  <2> QED
    BY <2>5, <2>7, <2>8, <2>9, <2>10, <2>11, <2>12, <2>13 DEF IInv
<1> QED BY <1>4, <1>5

\* Starting to undo or redo a group.
LEMMA StartWalkIInv ==
  ASSUME IInv, Undo \/ Redo
  PROVE  IInv'
<1>1. /\ generation \in Nat /\ counter \in Nat
      /\ undo \in Seq(Entry) /\ redo \in Seq(Entry)
      /\ group = NoGroup /\ aborting = NoGroup /\ Transaction = NoGroup
      /\ mode = "ready" /\ lastType' = "Other" /\ cursor' = 0
      /\ UNCHANGED <<text, crlf, generation, counter, saved, undo, redo, group,
                     aborting, capacityError, disk>>
  BY DEF IInv, TypeOK, Undo, Redo, StartWalk, AbortProgress, Transaction
<1>2. CASE mode' = mode /\ walk' = walk
  <2>1. capacityError' \in BOOLEAN
    BY <1>1 DEF IInv, TypeOK
  <2> QED BY <1>1, <1>2, <2>1, NeutralIInv
<1>3. \/ mode' = mode /\ walk' = walk
      \/ /\ undo # <<>> /\ mode' = "undo"
         /\ walk' = [from |-> generation, to |-> Top(undo).gb]
      \/ /\ redo # <<>> /\ mode' = "redo"
         /\ walk' = [from |-> generation, to |-> Top(redo).gb]
  BY DEF Undo, Redo, StartWalk
<1>4. Transaction' = NoGroup
  BY <1>1 DEF Transaction
<1>5. HistoryReversible'
  BY <1>1, <1>4 DEF IInv, HistoryReversible
<1>6. ASSUME mode' # "ready"
      PROVE  HistoryOrdered'
  BY <1>1, <1>4, <1>6 DEF IInv, HistoryOrdered
<1>7. ASSUME mode' # "ready"
      PROVE  SavedKnown'
  BY <1>1, <1>4, <1>7 DEF IInv, SavedKnown, KnownVersions, Known
<1>8. GroupProgress' /\ AbortProgress'
  BY <1>1 DEF GroupProgress, AbortProgress
<1>9. Stamps(undo) \subseteq Nat /\ Stamps(redo) \subseteq Nat
  BY <1>1, StampFacts
<1>10. ASSUME undo # <<>>, mode' = "undo",
              walk' = [from |-> generation, to |-> Top(undo).gb]
       PROVE  IInv'
  <2>1. Top(undo).gb \in Stamps(undo) /\ \A g \in Stamps(undo) : g <= Top(undo).gb
    BY <1>1, <1>10, StampFacts, AscendingTop DEF IInv, HistoryOrdered
  <2>2. Top(undo).gb \in Nat /\ Top(undo).gb < generation
    BY <1>1, <1>9, <2>1 DEF IInv, HistoryOrdered
  <2>3. /\ walk' \in [from : Nat, to : Nat]
        /\ walk'.from = generation /\ walk'.to = Top(undo).gb
    BY <1>1, <1>10, <2>2
  <2>4. TypeOK'
    BY <1>1, <1>10, <2>3 DEF IInv, TypeOK, HistoryType
  <2>5. StampsTaken'
    BY <1>1, <1>4, <2>3 DEF IInv, StampsTaken
  <2>6. RedoProgress'
    BY <1>10 DEF RedoProgress
  <2>7. UndoProgress'
    <3>1. \A g \in Stamps(redo) : g >= generation
      BY <1>1, <1>9 DEF IInv, HistoryOrdered
    <3>2. WalkContinues(undo)'
      BY <1>1, <1>10, <2>3 DEF WalkContinues
    <3>3. Known(walk.from, text, crlf)'
      BY <1>1, <2>3 DEF IInv, SavedKnown, Known
    <3> QED BY <1>1, <2>1, <2>2, <2>3, <3>1, <3>2, <3>3 DEF UndoProgress
  <2> QED
    BY <1>5, <1>6, <1>7, <1>8, <1>10, <2>4, <2>5, <2>6, <2>7 DEF IInv
<1>11. ASSUME redo # <<>>, mode' = "redo",
              walk' = [from |-> generation, to |-> Top(redo).gb]
       PROVE  IInv'
  <2>1. Top(redo).gb \in Stamps(redo) /\ \A g \in Stamps(redo) : g >= Top(redo).gb
    BY <1>1, <1>11, StampFacts, DescendingTop DEF IInv, HistoryOrdered
  <2>2. /\ Top(redo).gb \in Nat /\ Top(redo).gb > generation
        /\ Top(redo).gb <= counter
    BY <1>1, <1>9, <2>1 DEF IInv, HistoryOrdered, StampsTaken
  <2>3. /\ walk' \in [from : Nat, to : Nat]
        /\ walk'.from = generation /\ walk'.to = Top(redo).gb
    BY <1>1, <1>11, <2>2
  <2>4. TypeOK'
    BY <1>1, <1>11, <2>3 DEF IInv, TypeOK, HistoryType
  <2>5. StampsTaken'
    BY <1>1, <1>4, <2>3 DEF IInv, StampsTaken
  <2>6. UndoProgress'
    BY <1>11 DEF UndoProgress
  <2>7. RedoProgress'
    <3>1. \A g \in Stamps(undo) : g <= generation
      BY <1>1, <1>9 DEF IInv, HistoryOrdered
    <3>2. WalkContinues(redo)'
      BY <1>1, <1>11, <2>3 DEF WalkContinues
    <3>3. Known(walk.from, text, crlf)'
      BY <1>1, <2>3 DEF IInv, SavedKnown, Known
    <3> QED BY <1>1, <2>1, <2>2, <2>3, <3>1, <3>2, <3>3 DEF RedoProgress
  <2> QED
    BY <1>5, <1>6, <1>7, <1>8, <1>11, <2>4, <2>5, <2>6, <2>7 DEF IInv
<1> QED BY <1>2, <1>3, <1>10, <1>11

\* One iteration of an undo.
LEMMA UndoEntryIInv ==
  ASSUME IInv, UndoEntry
  PROVE  IInv'
<1> DEFINE e == Top(undo)
           f == Turned(e, text, walk.from, crlf)
<1>1. /\ text \in Seq(Chars) /\ crlf \in BOOLEAN
      /\ generation \in Nat /\ counter \in Nat
      /\ undo \in Seq(Entry) /\ redo \in Seq(Entry)
      /\ walk.from \in Nat /\ walk.to \in Nat
      /\ mode = "undo" /\ group = NoGroup
      /\ undo # <<>> /\ e.gb = walk.to
  BY DEF IInv, TypeOK, UndoEntry, WalkContinues, GroupProgress
<1>2. /\ Reversible(undo, text) /\ Reversible(redo, text)
      /\ Ascending(undo) /\ Descending(redo)
      /\ KnownVersions(undo) /\ KnownVersions(redo)
      /\ walk.to < walk.from /\ walk.from <= counter
      /\ \A g \in Stamps(undo) : g <= walk.to
      /\ \A g \in Stamps(redo) : g >= walk.from
      /\ \A g \in Stamps(redo) : g <= counter
      /\ \/ redo # <<>> /\ Top(redo).gb = walk.from
         \/ Known(walk.from, text, crlf)
  BY <1>1 DEF IInv, HistoryReversible, HistoryOrdered, SavedKnown, StampsTaken,
              UndoProgress
<1>3. e \in Entry /\ Pop(undo) \in Seq(Entry)
  BY <1>1, PopFacts
<1>4. Undoes(text, e) /\ Reversible(Pop(undo), e.other)
  BY <1>1, <1>2, PopReversible
<1>5. /\ f \in Entry
      /\ f.gb = walk.from /\ f.nb = crlf /\ f.other = text
      /\ Reversed(text, e) = e.other
      /\ e.other \in Seq(Chars)
      /\ Undoes(e.other, f)
  BY <1>1, <1>3, <1>4, TurnedUndoes
<1>6. /\ text' = e.other /\ generation' = walk.to /\ crlf' = e.nb
      /\ undo' = Pop(undo) /\ redo' = Append(redo, f)
      /\ UNCHANGED <<counter, saved, lastType, cursor, group, mode, walk,
                     aborting, capacityError, disk>>
  BY <1>1, <1>5 DEF UndoEntry, WalkEntry
<1>7. e.nb \in BOOLEAN
  BY <1>3 DEF Entry
<1>8. /\ Ascending(undo') /\ KnownVersions(undo')
      /\ \A g \in Stamps(undo') : g <= walk.to
      /\ \/ undo' # <<>> /\ Top(undo').gb = walk.to
         \/ Known(walk.to, e.other, e.nb)
  BY <1>1, <1>2, <1>6, PopOrder, PopKnown, PopStamps
<1> HIDE DEF e, f
<1>9. redo' \in Seq(Entry) /\ redo' # <<>> /\ Top(redo') = f
  BY <1>1, <1>5, <1>6, PushFacts
<1>10. Reversible(redo', e.other)
  BY <1>1, <1>2, <1>5, <1>6, PushReversible
<1>11. Descending(redo') /\ KnownVersions(redo')
  BY <1>1, <1>2, <1>5, <1>6, PushOrder, PushKnown
<1>12. \A g \in Stamps(redo') : g >= walk.from /\ g <= counter
  <2>1. \A g \in Stamps(redo') : g \in Stamps(redo) \/ g = walk.from
    BY <1>1, <1>5, <1>6, PushStamps
  <2> QED BY <1>1, <1>2, <2>1
<1>13. TypeOK'
  BY <1>1, <1>3, <1>5, <1>6, <1>7, <1>9 DEF IInv, TypeOK
<1>14. Transaction' = Transaction
  BY <1>6 DEF Transaction
<1>15. HistoryReversible'
  BY <1>4, <1>6, <1>10, <1>14 DEF IInv, HistoryReversible
<1>16. HistoryOrdered'
  BY <1>1, <1>6, <1>8, <1>11, <1>14 DEF IInv, HistoryOrdered
<1>17. SavedKnown'
  <2>1. KnownVersions(undo)' /\ KnownVersions(redo)'
    BY <1>6, <1>8, <1>11 DEF KnownVersions, Known
  <2>2. Transaction # NoGroup =>
          /\ KnownVersions(Transaction.redo)'
          /\ Known(Transaction.gb, Transaction.text, Transaction.nb)'
    BY <1>6, <1>14 DEF IInv, SavedKnown, KnownVersions, Known
  <2> QED BY <1>1, <1>6, <1>14, <2>1, <2>2 DEF SavedKnown
<1>18. StampsTaken'
  BY <1>1, <1>2, <1>6, <1>12, <1>14 DEF IInv, StampsTaken
<1>19. GroupProgress' /\ RedoProgress'
  BY <1>1, <1>6 DEF GroupProgress, RedoProgress
<1>20. UndoProgress'
  <2>1. WalkContinues(undo)' \/ Known(walk.to, text, crlf)'
    BY <1>6, <1>8 DEF WalkContinues, Known
  <2> QED BY <1>2, <1>5, <1>6, <1>8, <1>9, <1>12, <2>1 DEF UndoProgress
<1>21. AbortProgress'
  <2>1. SUFFICES ASSUME aborting # NoGroup
                 PROVE  \/ Holds(undo', aborting)
                        \/ /\ ~WalkContinues(undo)'
                           /\ walk.to = aborting.gb
                           /\ e.other = aborting.text
                           /\ e.nb = aborting.nb
    BY <1>6 DEF IInv, AbortProgress
  <2>2. walk.to = aborting.gb /\ Holds(undo, aborting)
    BY <1>1, <2>1 DEF IInv, AbortProgress, WalkContinues, e
  <2>3. \/ Holds(undo', aborting)
        \/ /\ undo' # <<>> => Top(undo').gb # aborting.gb
           /\ e.other = aborting.text
           /\ e.nb = aborting.nb
    BY <1>1, <1>6, <2>2, PopHolds DEF e
  <2> QED BY <1>6, <2>2, <2>3 DEF WalkContinues
<1> QED
  BY <1>13, <1>15, <1>16, <1>17, <1>18, <1>19, <1>20, <1>21 DEF IInv

\* One iteration of a redo.
LEMMA RedoEntryIInv ==
  ASSUME IInv, RedoEntry
  PROVE  IInv'
<1> DEFINE e == Top(redo)
           f == Turned(e, text, walk.from, crlf)
<1>1. /\ text \in Seq(Chars) /\ crlf \in BOOLEAN
      /\ generation \in Nat /\ counter \in Nat
      /\ undo \in Seq(Entry) /\ redo \in Seq(Entry)
      /\ walk.from \in Nat /\ walk.to \in Nat
      /\ mode = "redo" /\ group = NoGroup /\ aborting = NoGroup
      /\ redo # <<>> /\ e.gb = walk.to
  BY DEF IInv, TypeOK, RedoEntry, WalkContinues, GroupProgress, AbortProgress
<1>2. /\ Reversible(undo, text) /\ Reversible(redo, text)
      /\ Ascending(undo) /\ Descending(redo)
      /\ KnownVersions(undo) /\ KnownVersions(redo)
      /\ walk.to > walk.from /\ walk.to <= counter
      /\ \A g \in Stamps(undo) : g <= walk.from
      /\ \A g \in Stamps(redo) : g >= walk.to
      /\ \A g \in Stamps(redo) : g <= counter
      /\ \/ undo # <<>> /\ Top(undo).gb = walk.from
         \/ Known(walk.from, text, crlf)
  BY <1>1 DEF IInv, HistoryReversible, HistoryOrdered, SavedKnown, StampsTaken,
              RedoProgress
<1>3. e \in Entry /\ Pop(redo) \in Seq(Entry)
  BY <1>1, PopFacts
<1>4. Undoes(text, e) /\ Reversible(Pop(redo), e.other)
  BY <1>1, <1>2, PopReversible
<1>5. /\ f \in Entry
      /\ f.gb = walk.from /\ f.nb = crlf /\ f.other = text
      /\ Reversed(text, e) = e.other
      /\ e.other \in Seq(Chars)
      /\ Undoes(e.other, f)
  BY <1>1, <1>3, <1>4, TurnedUndoes
<1>6. /\ text' = e.other /\ generation' = walk.to /\ crlf' = e.nb
      /\ redo' = Pop(redo) /\ undo' = Append(undo, f)
      /\ UNCHANGED <<counter, saved, lastType, cursor, group, mode, walk,
                     aborting, capacityError, disk>>
  BY <1>1, <1>5 DEF RedoEntry, WalkEntry
<1>7. e.nb \in BOOLEAN
  BY <1>3 DEF Entry
<1>8. /\ Descending(redo') /\ KnownVersions(redo')
      /\ \A g \in Stamps(redo') : g >= walk.to /\ g <= counter
      /\ \/ redo' # <<>> /\ Top(redo').gb = walk.to
         \/ Known(walk.to, e.other, e.nb)
  BY <1>1, <1>2, <1>6, PopOrder, PopKnown, PopStamps
<1> HIDE DEF e, f
<1>9. undo' \in Seq(Entry) /\ undo' # <<>> /\ Top(undo') = f
  BY <1>1, <1>5, <1>6, PushFacts
<1>10. Reversible(undo', e.other)
  BY <1>1, <1>2, <1>5, <1>6, PushReversible
<1>11. Ascending(undo') /\ KnownVersions(undo')
  BY <1>1, <1>2, <1>5, <1>6, PushOrder, PushKnown
<1>12. \A g \in Stamps(undo') : g <= walk.from
  <2>1. \A g \in Stamps(undo') : g \in Stamps(undo) \/ g = walk.from
    BY <1>1, <1>5, <1>6, PushStamps
  <2> QED BY <1>1, <1>2, <2>1
<1>13. TypeOK'
  BY <1>1, <1>3, <1>5, <1>6, <1>7, <1>9 DEF IInv, TypeOK
<1>14. Transaction' = NoGroup
  BY <1>1, <1>6 DEF Transaction
<1>15. HistoryReversible'
  BY <1>4, <1>6, <1>10, <1>14 DEF HistoryReversible
<1>16. HistoryOrdered'
  BY <1>1, <1>6, <1>8, <1>11, <1>14 DEF HistoryOrdered
<1>17. SavedKnown'
  <2>1. KnownVersions(undo)' /\ KnownVersions(redo)'
    BY <1>6, <1>8, <1>11 DEF KnownVersions, Known
  <2> QED BY <1>1, <1>6, <1>14, <2>1 DEF SavedKnown
<1>18. StampsTaken'
  BY <1>1, <1>2, <1>6, <1>8, <1>14 DEF IInv, StampsTaken
<1>19. GroupProgress' /\ UndoProgress' /\ AbortProgress'
  BY <1>1, <1>6 DEF GroupProgress, UndoProgress, AbortProgress
<1>20. RedoProgress'
  <2>1. WalkContinues(redo)' \/ Known(walk.to, text, crlf)'
    BY <1>6, <1>8 DEF WalkContinues, Known
  <2> QED BY <1>2, <1>5, <1>6, <1>8, <1>9, <1>12, <2>1 DEF RedoProgress
<1> QED
  BY <1>13, <1>15, <1>16, <1>17, <1>18, <1>19, <1>20 DEF IInv

\* The end of an undo, a redo or a rollback.
LEMMA EndWalkIInv ==
  ASSUME IInv, EndWalk
  PROVE  IInv'
<1>1. /\ text \in Seq(Chars) /\ crlf \in BOOLEAN
      /\ generation \in Nat /\ counter \in Nat
      /\ undo \in Seq(Entry) /\ redo \in Seq(Entry)
      /\ walk.from \in Nat /\ walk.to \in Nat
      /\ aborting \in OpenGroup \cup {NoGroup}
      /\ mode \in {"undo", "redo"} /\ group = NoGroup
      /\ Ascending(undo) /\ Descending(redo)
      /\ Reversible(undo, text) /\ Reversible(redo, text)
      /\ KnownVersions(undo) /\ KnownVersions(redo)
      /\ \A g \in Stamps(redo) : g <= counter
      /\ Stamps(undo) \subseteq Nat /\ Stamps(redo) \subseteq Nat
  BY StampFacts DEF IInv, TypeOK, EndWalk, GroupProgress, HistoryOrdered,
         HistoryReversible, SavedKnown, StampsTaken
<1>2. /\ mode' = "ready" /\ walk' = NoWalk /\ aborting' = NoGroup
      /\ redo' = IF aborting = NoGroup THEN redo ELSE aborting.redo
      /\ UNCHANGED <<text, crlf, generation, counter, saved, undo, lastType,
                     cursor, group, capacityError, disk>>
  BY DEF EndWalk
<1>3. /\ generation = walk.to /\ Known(generation, text, crlf)
      /\ \A g \in Stamps(undo) : g < generation
      /\ \A g \in Stamps(redo) : g > generation
  <2>1. CASE mode = "undo"
    <3>1. /\ ~WalkContinues(undo)
          /\ walk.to < walk.from
          /\ \A g \in Stamps(undo) : g <= walk.to
          /\ \A g \in Stamps(redo) : g >= walk.from
          /\ generation = walk.to /\ Known(walk.to, text, crlf)
      BY <2>1 DEF IInv, EndWalk, UndoProgress
    <3>2. ASSUME NEW g \in Stamps(undo)
          PROVE  g < generation
      <4>1. undo # <<>>
        BY <3>2, EmptyStack
      <4>2. g <= Top(undo).gb /\ Top(undo).gb \in Stamps(undo)
        BY <1>1, <4>1, AscendingTop, StampFacts
      <4>3. Top(undo).gb # walk.to
        BY <3>1, <4>1 DEF WalkContinues
      <4> QED BY <1>1, <3>1, <4>2, <4>3
    <3> QED BY <1>1, <3>1, <3>2
  <2>2. CASE mode = "redo"
    <3>1. /\ ~WalkContinues(redo)
          /\ walk.to > walk.from
          /\ \A g \in Stamps(undo) : g <= walk.from
          /\ \A g \in Stamps(redo) : g >= walk.to
          /\ generation = walk.to /\ Known(walk.to, text, crlf)
      BY <2>2 DEF IInv, EndWalk, RedoProgress
    <3>2. ASSUME NEW g \in Stamps(redo)
          PROVE  g > generation
      <4>1. redo # <<>>
        BY <3>2, EmptyStack
      <4>2. g >= Top(redo).gb /\ Top(redo).gb \in Stamps(redo)
        BY <1>1, <4>1, DescendingTop, StampFacts
      <4>3. Top(redo).gb # walk.to
        BY <3>1, <4>1 DEF WalkContinues
      <4> QED BY <1>1, <3>1, <4>2, <4>3
    <3> QED BY <1>1, <3>1, <3>2
  <2> QED BY <1>1, <2>1, <2>2
<1>4. /\ redo' \in Seq(Entry)
      /\ Reversible(redo', text)
      /\ Descending(redo')
      /\ \A g \in Stamps(redo') : g > generation /\ g <= counter
      /\ KnownVersions(redo')
  <2>1. CASE aborting = NoGroup
    BY <1>1, <1>2, <1>3, <2>1
  <2>2. CASE aborting # NoGroup
    <3>1. redo' = aborting.redo /\ aborting.redo \in Seq(Entry)
      BY <1>1, <1>2, <2>2, GroupFacts
    <3>2. Transaction = aborting
      BY <2>2 DEF Transaction
    <3>3. ~Holds(undo, aborting)
      <4>1. ~WalkContinues(undo) /\ walk.to = aborting.gb
        BY <2>2 DEF IInv, AbortProgress, EndWalk
      <4> QED BY <1>1, <4>1, HoldsTop DEF WalkContinues
    <3>4. generation = aborting.gb /\ text = aborting.text
      BY <2>2, <3>3 DEF IInv, AbortProgress
    <3> QED BY <2>2, <3>1, <3>2, <3>4
            DEF IInv, HistoryReversible, HistoryOrdered, SavedKnown, StampsTaken
  <2> QED BY <2>1, <2>2
<1>5. TypeOK'
  BY <1>1, <1>2, <1>4 DEF IInv, TypeOK, NoWalk
<1>6. Transaction' = NoGroup
  BY <1>1, <1>2 DEF Transaction
<1>7. HistoryReversible'
  BY <1>1, <1>2, <1>4, <1>6 DEF HistoryReversible
<1>8. HistoryOrdered'
  BY <1>1, <1>2, <1>3, <1>4, <1>6 DEF HistoryOrdered
<1>9. SavedKnown'
  <2>1. KnownVersions(undo)' /\ KnownVersions(redo)' /\ Known(generation, text, crlf)'
    BY <1>1, <1>2, <1>3, <1>4 DEF KnownVersions, Known
  <2> QED BY <1>6, <2>1 DEF SavedKnown
<1>10. StampsTaken'
  BY <1>1, <1>2, <1>4, <1>6 DEF IInv, StampsTaken, NoWalk
<1>11. GroupProgress' /\ UndoProgress' /\ RedoProgress' /\ AbortProgress'
  BY <1>1, <1>2 DEF GroupProgress, UndoProgress, RedoProgress, AbortProgress
<1> QED
  BY <1>5, <1>7, <1>8, <1>9, <1>10, <1>11 DEF IInv

\* Saving, and losing trust in what was saved.
LEMMA SaveIInv ==
  ASSUME IInv, Save \/ MarkDirty
  PROVE  IInv'
<1>1. /\ text \in Seq(Chars) /\ crlf \in BOOLEAN
      /\ generation \in Nat /\ generation <= counter
      /\ undo \in Seq(Entry) /\ redo \in Seq(Entry)
      /\ mode = "ready" /\ group = NoGroup /\ aborting = NoGroup
      /\ \A g \in Stamps(undo) : g < generation
      /\ \A g \in Stamps(redo) : g > generation
      /\ Stamps(undo) \subseteq Nat /\ Stamps(redo) \subseteq Nat
      /\ lastType' \in {lastType, "Other"} /\ cursor' \in Nat
      /\ UNCHANGED <<text, crlf, generation, counter, undo, redo, group, mode,
                     walk, aborting, capacityError>>
  BY StampFacts DEF IInv, TypeOK, Save, MarkDirty, Idle, AbortProgress,
         HistoryOrdered, StampsTaken
<1>2. \/ saved' = generation /\ disk' = Loaded(text, crlf)
      \/ saved' = Unsaved /\ disk' = disk
  BY DEF Save, MarkDirty
<1>3. Transaction = NoGroup /\ Transaction' = NoGroup
  BY <1>1 DEF Transaction
<1>4. saved' \in Nat \cup {Unsaved} /\ saved' <= counter
  <2>1. counter \in Nat
    BY DEF IInv, TypeOK
  <2> QED BY <1>1, <1>2, <2>1 DEF Unsaved
<1>5. disk' \in [text : Seq(Chars), crlf : BOOLEAN]
  BY <1>1, <1>2 DEF IInv, TypeOK, Loaded
<1>6. TypeOK'
  BY <1>1, <1>4, <1>5 DEF IInv, TypeOK, HistoryType
<1>7. HistoryReversible' /\ HistoryOrdered'
  BY <1>1, <1>3 DEF IInv, HistoryReversible, HistoryOrdered
<1>8. SavedKnown'
  <2>1. saved' \notin Stamps(undo) /\ saved' \notin Stamps(redo)
    BY <1>1, <1>2 DEF Unsaved
  <2>2. KnownVersions(undo)' /\ KnownVersions(redo)'
    BY <1>1, <2>1 DEF KnownVersions, Known, Stamps
  <2>3. Known(generation, text, crlf)'
    BY <1>1, <1>2 DEF Known, Loaded, Unsaved
  <2> QED BY <1>3, <2>2, <2>3 DEF SavedKnown
<1>9. StampsTaken'
  BY <1>1, <1>3, <1>4 DEF IInv, StampsTaken
<1>10. GroupProgress' /\ UndoProgress' /\ RedoProgress' /\ AbortProgress'
  BY <1>1 DEF GroupProgress, UndoProgress, RedoProgress, AbortProgress
<1> QED
  BY <1>6, <1>7, <1>8, <1>9, <1>10 DEF IInv

\* Reading the file again.
LEMMA ReloadIInv ==
  ASSUME IInv, NEW file \in Loads, Reload(file)
  PROVE  IInv'
<1>1. /\ counter \in Nat
      /\ mode = "ready" /\ group = NoGroup /\ aborting = NoGroup
      /\ walk.from \in Nat /\ walk.from <= counter
  BY DEF IInv, TypeOK, StampsTaken, Reload, Idle, AbortProgress
<1>2. file \in [text : Seq(Chars), crlf : BOOLEAN]
  BY ConstantsAssumption
<1>3. /\ text' = file.text /\ crlf' = file.crlf
      /\ file.text \in Seq(Chars) /\ file.crlf \in BOOLEAN
      /\ disk' = Loaded(file.text, file.crlf)
      /\ generation' = counter + 1 /\ counter' = counter + 1
      /\ saved' = counter + 1
      /\ undo' = <<>> /\ redo' = <<>>
      /\ lastType' = "Other" /\ cursor' = 0
      /\ UNCHANGED <<group, mode, walk, aborting, capacityError>>
  BY <1>2 DEF Reload, Loaded
<1>4. TypeOK'
  <2>1. disk' \in [text : Seq(Chars), crlf : BOOLEAN]
    BY <1>3 DEF Loaded
  <2> QED BY <1>1, <1>3, <2>1, EmptyStack DEF IInv, TypeOK, HistoryType
<1>5. Transaction' = NoGroup
  BY <1>1, <1>3 DEF Transaction
<1>6. HistoryReversible' /\ HistoryOrdered'
  BY <1>3, <1>5, EmptyStack DEF HistoryReversible, HistoryOrdered
<1>7. SavedKnown'
  <2>1. KnownVersions(undo)' /\ KnownVersions(redo)'
    BY <1>3, EmptyStack DEF KnownVersions
  <2>2. Known(generation, text, crlf)'
    BY <1>3 DEF Known
  <2> QED BY <1>5, <2>1, <2>2 DEF SavedKnown
<1>8. StampsTaken'
  BY <1>1, <1>3, <1>5, EmptyStack DEF StampsTaken
<1>9. GroupProgress' /\ UndoProgress' /\ RedoProgress' /\ AbortProgress'
  BY <1>1, <1>3 DEF GroupProgress, UndoProgress, RedoProgress, AbortProgress
<1> QED
  BY <1>4, <1>6, <1>7, <1>8, <1>9 DEF IInv

\* Typing and pasting.
LEMMA WriteIInv ==
  ASSUME IInv, NEW type, NEW beg \in Nat, NEW n \in Nat,
         NEW ins \in Insertion, Write(type, beg, n, ins)
  PROVE  IInv'
<1> DEFINE add == ins \o FinalNewline(beg, n, ins)
<1>1. ins \in Seq(Chars)
  <2>1. PICK k \in 1..MaxInsert : ins \in [1..k -> Chars]
    BY DEF Insertion
  <2> QED BY <2>1, ConstantsAssumption
<1>2. FinalNewline(beg, n, ins) \in Seq(Chars)
  BY ConstantsAssumption DEF FinalNewline
<1>3. add \in Seq(Chars) /\ beg + Len(ins) \in Nat
  BY <1>1, <1>2
<1>4. /\ Ready /\ type \in HistoryType /\ beg + n <= Len(text)
      /\ crlf \in BOOLEAN /\ cursor \in Nat
      /\ UNCHANGED <<crlf, saved, group, mode, walk, aborting, disk>>
  BY DEF IInv, TypeOK, Write, HistoryType
<1>5. \/ /\ Edit(type, beg, n, add, beg + Len(ins))
         /\ capacityError' = capacityError
      \/ /\ capacityError' = TRUE
         /\ UNCHANGED <<text, undo, redo, generation, counter, lastType, cursor>>
  BY DEF Write
<1> HIDE DEF add
<1>6. CASE /\ Edit(type, beg, n, add, beg + Len(ins))
           /\ capacityError' = capacityError
  <2>1. capacityError' \in BOOLEAN
    BY <1>6 DEF IInv, TypeOK
  <2> QED BY <1>3, <1>4, <1>6, <2>1, EditIInv
<1>7. CASE /\ capacityError' = TRUE
           /\ UNCHANGED <<text, undo, redo, generation, counter, lastType, cursor>>
  BY <1>4, <1>7, NeutralIInv
<1> QED BY <1>5, <1>6, <1>7

\* Deleting.
LEMMA DeleteIInv ==
  ASSUME IInv, NEW beg \in Nat, NEW n \in Nat, Delete(beg, n)
  PROVE  IInv'
<1>1. /\ Ready /\ "Delete" \in HistoryType /\ beg + n <= Len(text)
      /\ <<>> \in Seq(Chars)
      /\ crlf \in BOOLEAN /\ capacityError \in BOOLEAN
      /\ UNCHANGED <<crlf, saved, group, mode, walk, aborting, capacityError,
                     disk>>
      /\ Edit("Delete", beg, n, <<>>, beg)
  BY DEF IInv, TypeOK, Delete, HistoryType
<1> QED BY <1>1, EditIInv

\* Changing the kind of line endings of a text that has none.
LEMMA FlipNewlinesIInv ==
  ASSUME IInv, FlipNewlines
  PROVE  IInv'
<1>1. /\ Ready /\ "Other" \in HistoryType /\ 0 + 0 <= Len(text)
      /\ <<>> \in Seq(Chars)
      /\ group = NoGroup
      /\ crlf' \in BOOLEAN /\ capacityError \in BOOLEAN
      /\ UNCHANGED <<saved, group, mode, walk, aborting, capacityError, disk>>
      /\ Edit("Other", 0, 0, <<>>, 0)
  BY DEF IInv, TypeOK, FlipNewlines, HistoryType
<1> QED BY <1>1, EditIInv

\* IInv is inductive: one step per action.
LEMMA NextIInv == IInv /\ [Next]_vars => IInv'
<1> SUFFICES ASSUME IInv, [Next]_vars
             PROVE  IInv'
  OBVIOUS
<1>1. /\ text \in Seq(Chars) /\ cursor \in Nat /\ capacityError \in BOOLEAN
      /\ group \in OpenGroup \cup {NoGroup}
      /\ Len(text) \in Nat
  BY DEF IInv, TypeOK
<1>2. ASSUME NEW type \in {"Other", "Write"}, NEW beg \in 0..Len(text),
             NEW ins \in Insertion, NEW n \in 0..Len(text) - beg,
             Write(type, beg, n, ins)
      PROVE  IInv'
  <2>1. beg \in Nat /\ n \in Nat
    BY <1>1
  <2> QED BY <1>2, <2>1, WriteIInv
<1>3. ASSUME NEW beg \in 0..Len(text), NEW n \in 1..Len(text) - beg,
             Delete(beg, n)
      PROVE  IInv'
  <2>1. beg \in Nat /\ n \in Nat
    BY <1>1
  <2> QED BY <1>3, <2>1, DeleteIInv
<1>4. CASE MoveCursor
  BY <1>1, <1>4, NeutralIInv DEF MoveCursor
<1>5. CASE FlipNewlines
  BY <1>5, FlipNewlinesIInv
<1>6. CASE ReportCapacityError
  BY <1>1, <1>6, NeutralIInv DEF ReportCapacityError
<1>7. ASSUME NEW normalizes \in BOOLEAN, BeginGroup(normalizes)
      PROVE  IInv'
  BY <1>7, BeginGroupIInv
<1>8. CASE NestGroup
  <2>1. PICK d : d = group.depth + 1
    OBVIOUS
  <2>2. group # NoGroup /\ d \in Nat \ {0}
    BY <1>1, <1>8, <2>1, GroupFacts DEF NestGroup
  <2> QED BY <1>8, <2>1, <2>2, DepthIInv DEF NestGroup, Ready
<1>9. CASE UnnestGroup
  <2>1. PICK d : d = group.depth - 1
    OBVIOUS
  <2>2. group # NoGroup /\ d \in Nat \ {0}
    BY <1>1, <1>9, <2>1, GroupFacts DEF UnnestGroup
  <2> QED BY <1>9, <2>1, <2>2, DepthIInv DEF UnnestGroup
<1>10. CASE EndGroup
  BY <1>10, EndGroupIInv
<1>11. CASE AbortGroup
  BY <1>11, AbortGroupIInv
<1>12. CASE Undo \/ Redo
  BY <1>12, StartWalkIInv
<1>13. CASE UndoEntry
  BY <1>13, UndoEntryIInv
<1>14. CASE RedoEntry
  BY <1>14, RedoEntryIInv
<1>15. CASE EndWalk
  BY <1>15, EndWalkIInv
<1>16. CASE Save \/ MarkDirty
  BY <1>16, SaveIInv
<1>17. ASSUME NEW file \in Loads, Reload(file)
       PROVE  IInv'
  BY <1>17, ReloadIInv
<1>18. CASE UNCHANGED vars
  BY <1>1, <1>18, NeutralIInv DEF vars
<1> QED
  BY <1>2, <1>3, <1>4, <1>5, <1>6, <1>7, <1>8, <1>9, <1>10, <1>11, <1>12,
     <1>13, <1>14, <1>15, <1>16, <1>17, <1>18 DEF Next

-----------------------------------------------------------------------------
(***************************************************************************)
(* Limited is kept by every step                                           *)
(***************************************************************************)

\* What fits still does when the oldest entries are dropped.
LEMMA SuffixFits ==
  ASSUME NEW s \in Seq(Entry), NEW r \in Seq(Entry), NEW k \in 0..Len(s) - 1,
         NEW q, q = SubSeq(s, k + 1, Len(s)), Fits(s, Len(s), r)
  PROVE  Fits(q, Len(q), r)
<1>1. /\ Len(q) = Len(s) - k
      /\ \A i \in 1..Len(q) : i + k \in 1..Len(s) /\ q[i] = s[i + k]
  BY SuffixFacts
<1>2. Len(s) \in Nat /\ Len(r) \in Nat /\ MaxHistory \in Nat
  BY ConstantsAssumption
<1>3. CASE Len(s) + Len(r) <= MaxHistory
  <2>1. Len(q) + Len(r) <= MaxHistory
    BY <1>1, <1>2, <1>3
  <2> QED BY <2>1 DEF Fits
<1>4. CASE r = <<>> /\ \A i, j \in 1..Len(s) : s[i].gb = s[j].gb
  <2>1. \A i, j \in 1..Len(q) : q[i].gb = q[j].gb
    BY <1>1, <1>4
  <2> QED BY <1>4, <2>1 DEF Fits
<1>5. Len(s) # 0
  BY <1>2
<1> QED BY <1>3, <1>4, <1>5 DEF Fits

\* What trim_history leaves fits, and it takes nothing that fits beyond it.
LEMMA TrimFits ==
  ASSUME NEW STATE s, s \in Seq(Entry), Trim(s, FALSE), Ascending(s)
  PROVE  /\ Fits(undo', Len(undo'), <<>>)
         /\ \A r \in Seq(Entry) :
              Fits(s, Len(s), r) => Fits(undo', Len(undo'), r)
<1>1. CASE s = <<>> /\ undo' = s
  <2>1. Len(undo') + Len(<<>>) <= MaxHistory
    BY <1>1, ConstantsAssumption
  <2> QED BY <1>1, <2>1 DEF Fits
<1>2. CASE \E k \in TrimPoints(s) : undo' = SubSeq(s, k + 1, Len(s))
  <2>1. PICK k \in TrimPoints(s) : undo' = SubSeq(s, k + 1, Len(s))
    BY <1>2
  <2>2. /\ k \in 0..Len(s) - 1
        /\ Len(s) - k <= MaxHistory \/ s[k + 1].gb = Top(s).gb
    BY DEF TrimPoints, TrimStops
  <2>3. /\ undo' \in Seq(Entry)
        /\ Len(undo') = Len(s) - k
        /\ \A i \in 1..Len(undo') : undo'[i] = s[i + k]
    BY <2>1, <2>2, SuffixFacts
  <2>4. CASE Len(s) - k <= MaxHistory
    <3>1. Len(undo') + Len(<<>>) <= MaxHistory
      BY <2>3, <2>4
    <3>2. Fits(undo', Len(undo'), <<>>)
      BY <3>1 DEF Fits
    <3>3. \A r \in Seq(Entry) : Fits(s, Len(s), r) => Fits(undo', Len(undo'), r)
      BY <2>1, <2>2, SuffixFits
    <3> QED BY <3>2, <3>3
  <2>5. CASE s[k + 1].gb = Top(s).gb
    <3>1. ASSUME NEW i \in 1..Len(undo')
          PROVE  undo'[i].gb = Top(s).gb
      <4>1. i + k \in 1..Len(s) /\ k + 1 \in 1..Len(s) /\ undo'[i] = s[i + k]
        BY <2>2, <2>3
      <4>2. /\ s[i + k].gb \in Nat /\ Top(s).gb \in Nat
            /\ s[i + k].gb <= Top(s).gb
        <5>1. s # <<>>
          BY <2>2
        <5>2. s[i + k].gb \in Stamps(s)
          BY <4>1 DEF Stamps
        <5>3. Top(s).gb \in Stamps(s) /\ Stamps(s) \subseteq Nat
          BY <5>1, StampFacts
        <5>4. \A g \in Stamps(s) : g <= Top(s).gb
          BY <5>1, AscendingTop
        <5> QED BY <5>2, <5>3, <5>4
      <4>3. s[k + 1].gb <= s[i + k].gb
        <5>1. CASE i = 1
          <6>1. k + 1 = i + k
            BY <2>2, <5>1
          <6> QED BY <4>2, <6>1
        <5>2. CASE i # 1
          <6>1. k + 1 < i + k
            BY <2>2, <5>2
          <6> QED BY <4>1, <6>1 DEF Ascending
        <5> QED BY <5>1, <5>2
      <4> QED BY <2>5, <4>1, <4>2, <4>3
    <3>2. Fits(undo', Len(undo'), <<>>)
      BY <3>1 DEF Fits
    <3>3. \A r \in Seq(Entry) : Fits(s, Len(s), r) => Fits(undo', Len(undo'), r)
      BY <2>1, <2>2, SuffixFits
    <3> QED BY <3>2, <3>3
  <2> QED BY <2>2, <2>4, <2>5
<1> QED BY <1>1, <1>2 DEF Trim

\* In a group that has recorded nothing, all entries are below it.
LEMMA NothingRecorded ==
  ASSUME NEW s \in Seq(Entry), NEW g, g.gb \notin Stamps(s)
  PROVE  FitsBelow(s, g) <=> Fits(s, Len(s), g.redo)
<1>1. Len(s) \in 0..Len(s)
  OBVIOUS
<1>2. \A i \in 1..Len(s) : s[i].gb # g.gb
  BY DEF Stamps
<1>3. ASSUME NEW k \in 0..Len(s), \A i \in k + 1..Len(s) : s[i].gb = g.gb
      PROVE  k = Len(s)
  <2>1. ASSUME k < Len(s)
        PROVE  FALSE
    <3>1. Len(s) \in k + 1..Len(s) /\ Len(s) \in 1..Len(s)
      BY <2>1
    <3> QED BY <1>2, <1>3, <3>1
  <2> QED BY <2>1
<1>4. \A i \in Len(s) + 1..Len(s) : s[i].gb = g.gb
  OBVIOUS
<1> QED BY <1>1, <1>2, <1>3, <1>4 DEF FitsBelow

\* An entry pushed for the group leaves what is below.
LEMMA PushFitsBelow ==
  ASSUME NEW s \in Seq(Entry), NEW e \in Entry, NEW r, r = Append(s, e),
         NEW g, e.gb = g.gb, FitsBelow(s, g)
  PROVE  FitsBelow(r, g)
<1>1. /\ Len(r) = Len(s) + 1
      /\ \A i \in 1..Len(s) : r[i] = s[i]
      /\ r[Len(r)] = e
  BY PushFacts DEF Top
<1>2. PICK k \in 0..Len(s) :
        /\ \A i \in 1..k : s[i].gb # g.gb
        /\ \A i \in k + 1..Len(s) : s[i].gb = g.gb
        /\ Fits(s, k, g.redo)
  BY DEF FitsBelow
<1>3. k \in 0..Len(r) /\ \A i \in 1..k : r[i] = s[i]
  BY <1>1
<1>4. Fits(r, k, g.redo)
  BY <1>2, <1>3 DEF Fits
<1>5. \A i \in k + 1..Len(r) : (i \in k + 1..Len(s) /\ i \in 1..Len(s)) \/ i = Len(r)
  BY <1>1
<1>6. \A i \in k + 1..Len(r) : r[i].gb = g.gb
  BY <1>1, <1>2, <1>5
<1> QED BY <1>2, <1>3, <1>4, <1>6 DEF FitsBelow

\* So does popping one of the group.
LEMMA PopFitsBelow ==
  ASSUME NEW s \in Seq(Entry), s # <<>>, NEW r, r = Pop(s),
         NEW g, Top(s).gb = g.gb, FitsBelow(s, g)
  PROVE  FitsBelow(r, g)
<1>1. /\ Len(r) = Len(s) - 1 /\ Len(s) \in 1..Len(s)
      /\ \A i \in 1..Len(r) : r[i] = s[i]
      /\ Top(s) = s[Len(s)]
  BY PopFacts
<1>2. PICK k \in 0..Len(s) :
        /\ \A i \in 1..k : s[i].gb # g.gb
        /\ \A i \in k + 1..Len(s) : s[i].gb = g.gb
        /\ Fits(s, k, g.redo)
  BY DEF FitsBelow
<1>3. k # Len(s)
  BY <1>1, <1>2
<1>4. k \in 0..Len(r) /\ \A i \in 1..k : r[i] = s[i]
  BY <1>1, <1>3
<1>5. Fits(r, k, g.redo)
  BY <1>2, <1>4 DEF Fits
<1>6. \A i \in k + 1..Len(r) : i \in k + 1..Len(s) /\ r[i] = s[i]
  BY <1>1
<1> QED BY <1>2, <1>4, <1>5, <1>6 DEF FitsBelow

\* A walk that moves the newest entry, and turns it, moves no more than one
\* group or keeps the sum of the stacks.
LEMMA MoveFits ==
  ASSUME NEW s \in Seq(Entry), s # <<>>, NEW r \in Seq(Entry),
         NEW e \in Entry, e.gb = walk.from, FitsMoving(s, r)
  PROVE  FitsMoving(Pop(s), Append(r, e))
<1>1. /\ Len(Pop(s)) = Len(s) - 1
      /\ Len(Append(r, e)) = Len(r) + 1
      /\ Len(s) \in Nat /\ Len(r) \in Nat
  BY PopFacts
<1>2. CASE Len(s) + Len(r) <= MaxHistory
  <2>1. Len(Pop(s)) + Len(Append(r, e)) <= MaxHistory
    BY <1>1, <1>2, ConstantsAssumption
  <2> QED BY <2>1 DEF FitsMoving
<1>3. CASE /\ \A g \in Stamps(s) : g = walk.to
           /\ \A g \in Stamps(r) : g = walk.from
  <2>1. \A g \in Stamps(Pop(s)) : g = walk.to
    BY <1>3, PopStamps
  <2>2. \A g \in Stamps(Append(r, e)) : g = walk.from
    BY <1>3, PushStamps
  <2> QED BY <2>1, <2>2 DEF FitsMoving
<1> QED BY <1>2, <1>3 DEF FitsMoving

-----------------------------------------------------------------------------

\* An edit session: outside a group what is left fits and redo is empty, inside
\* it records for the group.
LEMMA EditLimited ==
  ASSUME IInv, Limited, Ready, NEW type \in HistoryType,
         NEW beg \in Nat, NEW n \in Nat, beg + n <= Len(text),
         NEW add \in Seq(Chars), NEW at \in Nat,
         Edit(type, beg, n, add, at),
         UNCHANGED <<group, mode, aborting>>
  PROVE  Limited'
<1> DEFINE x == Extract(text, beg, n)
           r == Recorded(type, beg, x, add)
<1>1. /\ undo \in Seq(Entry) /\ text \in Seq(Chars)
      /\ generation \in Nat /\ crlf \in BOOLEAN
      /\ group \in OpenGroup \cup {NoGroup}
      /\ mode = "ready" /\ aborting = NoGroup /\ Transaction = group
  BY DEF IInv, TypeOK, Ready, AbortProgress, Transaction
<1>2. /\ r \in Seq(Entry)
      /\ Ascending(r)
  BY RecordedFacts
<1>3. redo' = <<>> /\ Trim(r, group # NoGroup)
  BY DEF Edit
<1>4. mode' = "ready" /\ aborting' = NoGroup /\ group' = group /\ Transaction' = group'
  BY <1>1 DEF Transaction
<1>5. CASE group = NoGroup
  <2> HIDE DEF r
  <2>1. Fits(undo', Len(undo'), <<>>)
    BY <1>2, <1>3, <1>5, TrimFits
  <2> QED BY <1>3, <1>4, <1>5, <2>1 DEF Limited
<1>6. CASE group # NoGroup
  <2>1. FitsBelow(undo, group)
    BY <1>1, <1>6 DEF Limited
  <2>2. undo' = r
    BY <1>3, <1>6 DEF Trim
  <2>3. x \in Seq(Chars)
    BY <1>1, ExtractProperties
  <2> HIDE DEF x
  <2>4. CASE Coalesces(type, beg)
    <3> DEFINE e == Top(undo)
               f == Grown(e, x, add)
    <3>1. undo # <<>> /\ lastType # "Other"
      BY <2>4 DEF Coalesces, SameRun
    <3>2. e.gb = group.gb
      <4>1. Holds(undo, group)
        BY <1>6, <3>1 DEF IInv, GroupProgress
      <4> QED BY <1>1, <4>1, HoldsTop
    <3>3. Pop(undo) \in Seq(Entry) /\ e \in Entry
      BY <1>1, <3>1, PopFacts
    <3> HIDE DEF e
    <3>4. f \in Entry /\ f.gb = e.gb
      <4>1. e.del \in Seq(Chars) /\ e.add \in Seq(Chars)
        BY <3>3 DEF Entry
      <4>2. e.del \o x \in Seq(Chars) /\ e.add \o add \in Seq(Chars)
        BY <2>3, <4>1
      <4> QED BY <3>3, <4>2 DEF Grown, Entry
    <3>5. r = Append(Pop(undo), f)
      BY <2>4, Zenon DEF Recorded, e
    <3>6. FitsBelow(Pop(undo), group)
      BY <1>1, <2>1, <3>1, <3>2, PopFitsBelow DEF e
    <3> HIDE DEF f, r
    <3>7. FitsBelow(r, group)
      BY <3>2, <3>3, <3>4, <3>5, <3>6, PushFitsBelow
    <3> QED BY <1>3, <1>4, <1>6, <2>2, <3>7 DEF Limited, Idle
  <2>5. CASE ~Coalesces(type, beg)
    <3> DEFINE o == Origin(type)
               f == [off |-> beg, del |-> x, add |-> add, gb |-> o.gb,
                     nb |-> o.nb, other |-> text]
    <3>1. o.gb = group.gb /\ o.gb \in Nat /\ o.nb \in BOOLEAN
      BY <1>1, <1>6, GroupFacts DEF Origin
    <3>2. r = Append(undo, f)
      BY <2>5, Zenon DEF Recorded
    <3> HIDE DEF o
    <3>3. f \in Entry /\ f.gb = group.gb
      BY <1>1, <2>3, <3>1 DEF Entry
    <3> HIDE DEF f, r
    <3>4. FitsBelow(r, group)
      BY <1>1, <2>1, <3>2, <3>3, PushFitsBelow
    <3> QED BY <1>3, <1>4, <1>6, <2>2, <3>4 DEF Limited, Idle
  <2> QED BY <2>4, <2>5
<1> QED BY <1>5, <1>6

\* Opening the outermost group: everything on the stack is below it.
LEMMA BeginGroupLimited ==
  ASSUME IInv, Limited, NEW normalizes \in BOOLEAN, BeginGroup(normalizes)
  PROVE  Limited'
<1>1. /\ undo \in Seq(Entry) /\ mode = "ready" /\ group = NoGroup
      /\ aborting = NoGroup /\ generation \in Nat
      /\ \A g \in Stamps(undo) : g < generation
  BY DEF IInv, TypeOK, BeginGroup, AbortProgress, HistoryOrdered
<1>2. /\ group'.gb = generation /\ group'.redo = redo
      /\ group' # NoGroup /\ redo' = <<>> /\ undo' = undo
      /\ mode' = "ready" /\ aborting' = NoGroup
  BY <1>1 DEF BeginGroup, NoGroup
<1>3. generation \notin Stamps(undo)
  BY <1>1
<1>4. Fits(undo, Len(undo), redo)
  BY <1>1 DEF Limited, Idle
<1>5. FitsBelow(undo, group')
  BY <1>1, <1>2, <1>3, <1>4, NothingRecorded
<1>6. Transaction' = group'
  BY <1>2 DEF Transaction
<1> QED BY <1>2, <1>5, <1>6 DEF Limited, Idle

\* Closing the outermost group: one that recorded nothing brings redo back.
LEMMA EndGroupLimited ==
  ASSUME IInv, Limited, EndGroup
  PROVE  Limited'
<1>1. /\ undo \in Seq(Entry) /\ mode = "ready" /\ group # NoGroup
      /\ group \in OpenGroup \cup {NoGroup} /\ generation \in Nat
      /\ aborting = NoGroup /\ Transaction = group
      /\ Ascending(undo)
      /\ \A g \in Stamps(undo) : g < generation
      /\ redo = <<>>
      /\ FitsBelow(undo, group)
  BY DEF IInv, TypeOK, EndGroup, Ready, AbortProgress, HistoryOrdered, Transaction,
         Limited
<1>2. /\ group' = NoGroup /\ mode' = "ready" /\ aborting' = NoGroup
      /\ Trim(undo, FALSE)
  BY <1>1 DEF EndGroup
<1>3. Fits(undo', Len(undo'), redo')
  <2>1. CASE generation = group.gb
    <3>1. group.gb \notin Stamps(undo)
      BY <1>1, <2>1
    <3>2. Fits(undo, Len(undo), group.redo)
      BY <1>1, <3>1, NothingRecorded
    <3>3. group.redo \in Seq(Entry)
      BY <1>1, GroupFacts
    <3>4. redo' = group.redo
      BY <2>1 DEF EndGroup
    <3> QED BY <1>1, <1>2, <3>2, <3>3, <3>4, TrimFits
  <2>2. CASE generation # group.gb
    <3>1. redo' = <<>>
      BY <1>1, <2>2 DEF EndGroup
    <3> QED BY <1>1, <1>2, <3>1, TrimFits
  <2> QED BY <2>1, <2>2
<1>4. Transaction' = NoGroup
  BY <1>2 DEF Transaction
<1> QED BY <1>2, <1>3, <1>4 DEF Limited

\* Rolling back a group: at once if it recorded nothing, by a walk otherwise.
LEMMA AbortGroupLimited ==
  ASSUME IInv, Limited, AbortGroup
  PROVE  Limited'
<1>1. /\ undo \in Seq(Entry) /\ mode = "ready" /\ group # NoGroup
      /\ generation \in Nat
      /\ aborting = NoGroup /\ Transaction = group
      /\ \A g \in Stamps(undo) : g < generation
      /\ FitsBelow(undo, group)
  BY DEF IInv, TypeOK, AbortGroup, AbortProgress, HistoryOrdered, Transaction, Limited
<1>2. group' = NoGroup /\ undo' = undo
  BY DEF AbortGroup
<1>3. CASE /\ generation = group.gb
           /\ redo' = group.redo
           /\ UNCHANGED <<mode, walk, aborting>>
  <2>1. group.gb \notin Stamps(undo)
    BY <1>1, <1>3
  <2>2. Fits(undo, Len(undo), group.redo)
    BY <1>1, <2>1, NothingRecorded
  <2>3. Transaction' = NoGroup
    BY <1>1, <1>2, <1>3 DEF Transaction
  <2> QED BY <1>1, <1>2, <1>3, <2>2, <2>3 DEF Limited
<1>4. CASE mode' = "undo" /\ aborting' = group
  <2>1. Transaction' = group
    BY <1>1, <1>4 DEF Transaction
  <2> QED BY <1>1, <1>2, <1>4, <2>1 DEF Limited, Idle
<1> QED BY <1>3, <1>4 DEF AbortGroup

\* The start of a walk: the stacks are within the limit, or only one is filled
\* and with one group, the one that moves.
LEMMA StartWalkLimited ==
  ASSUME IInv, Limited, Undo \/ Redo
  PROVE  Limited'
<1>1. /\ undo \in Seq(Entry) /\ redo \in Seq(Entry)
      /\ mode = "ready" /\ group = NoGroup /\ aborting = NoGroup
      /\ UNCHANGED <<undo, redo, group, aborting>>
  BY DEF IInv, TypeOK, Undo, Redo, StartWalk, AbortProgress
<1>2. Fits(undo, Len(undo), redo)
  BY <1>1 DEF Limited, Idle
<1>3. Transaction' = NoGroup
  BY <1>1 DEF Transaction
<1>4. ASSUME NEW s \in Seq(Entry), NEW r \in Seq(Entry), s # <<>>,
             walk'.to = Top(s).gb,
             \/ Len(s) + Len(r) <= MaxHistory
             \/ r = <<>> /\ OneGroup(s)
      PROVE  FitsMoving(s, r)'
  <2>1. CASE Len(s) + Len(r) <= MaxHistory
    BY <2>1 DEF FitsMoving
  <2>2. CASE r = <<>> /\ OneGroup(s)
    <3>1. Len(s) \in 1..Len(s)
      BY <1>4, EmptySeq
    <3>2. \A g \in Stamps(s) : g = walk'.to
      BY <1>4, <2>2, <3>1 DEF OneGroup, Stamps, Top
    <3>3. Stamps(r) = {}
      BY <2>2, EmptyStack
    <3> QED BY <3>2, <3>3 DEF FitsMoving
  <2> QED BY <1>4, <2>1, <2>2
<1>5. CASE mode' = mode
  BY <1>1, <1>2, <1>3, <1>5 DEF Limited
<1>6. CASE undo # <<>> /\ mode' = "undo" /\ walk'.to = Top(undo).gb
  <2>1. Len(undo) # 0
    BY <1>1, <1>6, EmptySeq
  <2>2. \/ Len(undo) + Len(redo) <= MaxHistory
        \/ redo = <<>> /\ OneGroup(undo)
    BY <1>2, <2>1 DEF Fits, OneGroup
  <2>3. FitsMoving(undo, redo)'
    BY <1>1, <1>4, <1>6, <2>2
  <2> QED BY <1>1, <1>3, <1>6, <2>3 DEF Limited, Idle
<1>7. CASE redo # <<>> /\ mode' = "redo" /\ walk'.to = Top(redo).gb
  <2>1. Len(redo) # 0 /\ Len(redo) \in Nat /\ Len(undo) \in Nat
    BY <1>1, <1>7, EmptySeq
  <2>2. \/ Len(redo) + Len(undo) <= MaxHistory
        \/ undo = <<>> /\ OneGroup(redo)
    BY <1>1, <1>2, <1>7, <2>1, EmptySeq DEF Fits
  <2>3. FitsMoving(redo, undo)'
    BY <1>1, <1>4, <1>7, <2>2
  <2> QED BY <1>1, <1>3, <1>7, <2>3 DEF Limited, Idle
<1> QED BY <1>1, <1>5, <1>6, <1>7 DEF Undo, Redo, StartWalk

\* One iteration of undo_redo.
LEMMA UndoEntryLimited ==
  ASSUME IInv, Limited, UndoEntry
  PROVE  Limited'
<1> DEFINE f == Turned(Top(undo), text, walk.from, crlf)
<1>1. /\ undo \in Seq(Entry) /\ redo \in Seq(Entry)
      /\ text \in Seq(Chars) /\ crlf \in BOOLEAN /\ walk.from \in Nat
      /\ mode = "undo" /\ group = NoGroup
      /\ undo # <<>> /\ Top(undo).gb = walk.to
  BY DEF IInv, TypeOK, UndoEntry, WalkContinues, GroupProgress
<1>2. /\ undo' = Pop(undo) /\ redo' = Append(redo, f)
      /\ UNCHANGED <<mode, walk, group, aborting>>
  BY DEF UndoEntry, WalkEntry
<1>3. f \in Entry /\ f.gb = walk.from
  <2>1. Top(undo) \in Entry
    BY <1>1, PopFacts
  <2> QED BY <1>1, <2>1 DEF Turned, Entry
<1> HIDE DEF f
<1>4. ASSUME aborting = NoGroup
      PROVE  FitsMoving(undo, redo)'
  <2>1. FitsMoving(undo, redo)
    BY <1>1, <1>4 DEF Limited
  <2>2. FitsMoving(Pop(undo), Append(redo, f))
    BY <1>1, <1>3, <2>1, MoveFits
  <2> QED BY <1>2, <2>2 DEF FitsMoving
<1>5. ASSUME aborting # NoGroup
      PROVE  FitsBelow(undo', aborting)
  <2>1. FitsBelow(undo, aborting) /\ walk.to = aborting.gb
    BY <1>5 DEF Limited, IInv, AbortProgress, Transaction
  <2> QED BY <1>1, <1>2, <2>1, PopFitsBelow
<1> QED BY <1>1, <1>2, <1>4, <1>5 DEF Limited, Idle, Transaction

\* The same of redo.
LEMMA RedoEntryLimited ==
  ASSUME IInv, Limited, RedoEntry
  PROVE  Limited'
<1> DEFINE f == Turned(Top(redo), text, walk.from, crlf)
<1>1. /\ undo \in Seq(Entry) /\ redo \in Seq(Entry)
      /\ text \in Seq(Chars) /\ crlf \in BOOLEAN /\ walk.from \in Nat
      /\ mode = "redo" /\ group = NoGroup /\ aborting = NoGroup
      /\ redo # <<>>
  BY DEF IInv, TypeOK, RedoEntry, WalkContinues, GroupProgress, AbortProgress
<1>2. /\ redo' = Pop(redo) /\ undo' = Append(undo, f)
      /\ UNCHANGED <<mode, walk, group, aborting>>
  BY DEF RedoEntry, WalkEntry
<1>3. f \in Entry /\ f.gb = walk.from
  <2>1. Top(redo) \in Entry
    BY <1>1, PopFacts
  <2> QED BY <1>1, <2>1 DEF Turned, Entry
<1> HIDE DEF f
<1>4. FitsMoving(redo, undo)
  BY <1>1 DEF Limited
<1>5. FitsMoving(Pop(redo), Append(undo, f))
  BY <1>1, <1>3, <1>4, MoveFits
<1>6. FitsMoving(redo, undo)'
  BY <1>2, <1>5 DEF FitsMoving
<1> QED BY <1>1, <1>2, <1>6 DEF Limited, Idle, Transaction

\* A walk that has come to its end has emptied the stack it takes from, or what
\* it moved is within the limit.
LEMMA EndFits ==
  ASSUME NEW s \in Seq(Entry), NEW r \in Seq(Entry), ~WalkContinues(s),
         FitsMoving(s, r)
  PROVE  \/ Len(s) + Len(r) <= MaxHistory
         \/ s = <<>> /\ OneGroup(r)
<1>1. CASE /\ \A g \in Stamps(s) : g = walk.to
           /\ \A g \in Stamps(r) : g = walk.from
  <2>1. s = <<>>
    BY <1>1, StampFacts DEF WalkContinues
  <2>2. OneGroup(r)
    BY <1>1 DEF OneGroup, Stamps
  <2> QED BY <2>1, <2>2
<1> QED BY <1>1 DEF FitsMoving

\* The end of a walk: what was one group on the move is on one side.
LEMMA EndWalkLimited ==
  ASSUME IInv, Limited, EndWalk
  PROVE  Limited'
<1>1. /\ undo \in Seq(Entry) /\ redo \in Seq(Entry) /\ group = NoGroup
      /\ \/ mode = "undo" /\ ~WalkContinues(undo)
         \/ mode = "redo" /\ ~WalkContinues(redo)
      /\ mode = "redo" => aborting = NoGroup
  BY DEF IInv, TypeOK, EndWalk, GroupProgress, AbortProgress
<1>2. /\ mode' = "ready" /\ group' = NoGroup /\ aborting' = NoGroup /\ undo' = undo
      /\ redo' = IF aborting = NoGroup THEN redo ELSE aborting.redo
  BY <1>1 DEF EndWalk
<1>3. Fits(undo, Len(undo), redo')
  <2>1. CASE aborting = NoGroup /\ mode = "undo"
    <3>1. FitsMoving(undo, redo)
      BY <2>1 DEF Limited
    <3>2. ~WalkContinues(undo)
      BY <1>1, <2>1
    <3>3. Len(undo) + Len(redo) <= MaxHistory \/ (undo = <<>> /\ OneGroup(redo))
      BY <1>1, <3>1, <3>2, EndFits
    <3> QED BY <1>2, <2>1, <3>3 DEF Fits
  <2>2. CASE aborting = NoGroup /\ mode = "redo"
    <3>1. FitsMoving(redo, undo)
      BY <2>2 DEF Limited
    <3>2. ~WalkContinues(redo)
      BY <1>1, <2>2
    <3>3. Len(redo) + Len(undo) <= MaxHistory \/ (redo = <<>> /\ OneGroup(undo))
      BY <1>1, <3>1, <3>2, EndFits
    <3>4. Len(redo) \in Nat /\ Len(undo) \in Nat
      BY <1>1
    <3> QED BY <1>2, <2>2, <3>3, <3>4 DEF Fits, OneGroup
  <2>3. CASE aborting # NoGroup
    <3>1. FitsBelow(undo, aborting) /\ walk.to = aborting.gb /\ ~WalkContinues(undo)
      BY <1>1, <2>3 DEF Limited, IInv, AbortProgress, Transaction
    <3>2. PICK k \in 0..Len(undo) :
            /\ \A i \in k + 1..Len(undo) : undo[i].gb = aborting.gb
            /\ Fits(undo, k, aborting.redo)
      BY <3>1 DEF FitsBelow
    <3>3. ASSUME k < Len(undo)
          PROVE  FALSE
      <4>1. Len(undo) \in k + 1..Len(undo) /\ undo # <<>>
        BY <1>1, <3>3
      <4> QED BY <3>1, <3>2, <4>1 DEF WalkContinues, Top
    <3>4. k = Len(undo)
      BY <1>1, <3>3
    <3> QED BY <1>2, <2>3, <3>2, <3>4
  <2> QED BY <1>1, <2>1, <2>2, <2>3
<1>4. Transaction' = NoGroup
  BY <1>2 DEF Transaction
<1> QED BY <1>2, <1>3, <1>4 DEF Limited

\* Saving leaves the stacks alone, reloading empties them.
LEMMA ReloadLimited ==
  ASSUME IInv, Limited, NEW file, Reload(file)
  PROVE  Limited'
<1>1. /\ mode = "ready" /\ group = NoGroup /\ aborting = NoGroup
  BY DEF IInv, Reload, Idle, AbortProgress
<1>2. /\ undo' = <<>> /\ redo' = <<>>
      /\ UNCHANGED <<mode, group, aborting>>
  BY DEF Reload
<1>3. Len(undo') + Len(redo') <= MaxHistory
  BY <1>2, ConstantsAssumption
<1>4. Transaction' = NoGroup
  BY <1>1, <1>2 DEF Transaction
<1> QED BY <1>1, <1>2, <1>3, <1>4 DEF Limited, Fits

\* Steps that leave both stacks, the groups and the walk alone.
LEMMA NeutralLimited ==
  ASSUME Limited, UNCHANGED <<undo, redo, group, mode, walk, aborting>>
  PROVE  Limited'
<1>1. Transaction' = Transaction
  BY DEF Transaction
<1> QED BY <1>1 DEF Limited, Idle, FitsMoving

\* Entering or leaving an inner group.
LEMMA DepthLimited ==
  ASSUME IInv, Limited, group # NoGroup, mode = "ready",
         NEW d, group' = [group EXCEPT !.depth = d],
         UNCHANGED <<undo, redo, mode, walk, aborting>>
  PROVE  Limited'
<1>1. group \in OpenGroup /\ aborting = NoGroup
  BY DEF IInv, TypeOK, AbortProgress
<1>2. group'.gb = group.gb /\ group'.redo = group.redo
  BY <1>1 DEF OpenGroup
<1>3. group' # NoGroup
  <2>1. "gb" \in DOMAIN group'
    BY <1>1 DEF OpenGroup
  <2> QED BY <2>1 DEF NoGroup
<1>4. Transaction = group /\ Transaction' = group'
  BY <1>1 DEF Transaction
<1>5. FitsBelow(undo, group) => FitsBelow(undo', group')
  BY <1>2 DEF FitsBelow
<1> QED BY <1>1, <1>3, <1>4, <1>5 DEF Limited, Idle

\* Limited is kept by every step: one case per action.
LEMMA NextLimited == IInv /\ Limited /\ [Next]_vars => Limited'
<1> SUFFICES ASSUME IInv, Limited, [Next]_vars
             PROVE  Limited'
  OBVIOUS
<1>1. /\ text \in Seq(Chars) /\ Len(text) \in Nat
  BY DEF IInv, TypeOK
<1>2. ASSUME NEW type \in {"Other", "Write"}, NEW beg \in 0..Len(text),
             NEW ins \in Insertion, NEW n \in 0..Len(text) - beg,
             Write(type, beg, n, ins)
      PROVE  Limited'
  <2> DEFINE add == ins \o FinalNewline(beg, n, ins)
  <2>1. beg \in Nat /\ n \in Nat /\ type \in HistoryType
    BY <1>1 DEF HistoryType
  <2>2. ins \in Seq(Chars)
    <3>1. PICK k \in 1..MaxInsert : ins \in [1..k -> Chars]
      BY DEF Insertion
    <3> QED BY <3>1, ConstantsAssumption
  <2>3. add \in Seq(Chars) /\ beg + Len(ins) \in Nat
    BY <2>1, <2>2, ConstantsAssumption DEF FinalNewline
  <2>4. /\ Ready /\ beg + n <= Len(text)
        /\ UNCHANGED <<group, mode, walk, aborting>>
        /\ \/ Edit(type, beg, n, add, beg + Len(ins))
           \/ UNCHANGED <<undo, redo>>
    BY <1>2 DEF Write
  <2> HIDE DEF add
  <2> QED BY <2>1, <2>3, <2>4, EditLimited, NeutralLimited
<1>3. ASSUME NEW beg \in 0..Len(text), NEW n \in 1..Len(text) - beg,
             Delete(beg, n)
      PROVE  Limited'
  <2>1. beg \in Nat /\ n \in Nat /\ "Delete" \in HistoryType /\ <<>> \in Seq(Chars)
    BY <1>1 DEF HistoryType
  <2>2. /\ Ready /\ beg + n <= Len(text)
        /\ UNCHANGED <<group, mode, aborting>>
        /\ Edit("Delete", beg, n, <<>>, beg)
    BY <1>3 DEF Delete
  <2> QED BY <2>1, <2>2, EditLimited
<1>4. CASE FlipNewlines
  <2>1. /\ Ready /\ "Other" \in HistoryType /\ 0 + 0 <= Len(text)
        /\ <<>> \in Seq(Chars)
        /\ UNCHANGED <<group, mode, aborting>>
        /\ Edit("Other", 0, 0, <<>>, 0)
    BY <1>1, <1>4 DEF FlipNewlines, HistoryType
  <2> QED BY <2>1, EditLimited
<1>5. CASE MoveCursor \/ ReportCapacityError \/ Save \/ MarkDirty \/ UNCHANGED vars
  BY <1>5, NeutralLimited
     DEF MoveCursor, ReportCapacityError, Save, MarkDirty, vars
<1>6. ASSUME NEW normalizes \in BOOLEAN, BeginGroup(normalizes)
      PROVE  Limited'
  BY <1>6, BeginGroupLimited
<1>7. CASE NestGroup \/ UnnestGroup
  <2>1. group # NoGroup /\ mode = "ready"
        /\ UNCHANGED <<undo, redo, mode, walk, aborting>>
        /\ \E d : group' = [group EXCEPT !.depth = d]
    BY <1>7 DEF NestGroup, UnnestGroup, Ready
  <2> QED BY <2>1, DepthLimited
<1>8. CASE EndGroup
  BY <1>8, EndGroupLimited
<1>9. CASE AbortGroup
  BY <1>9, AbortGroupLimited
<1>10. CASE Undo \/ Redo
  BY <1>10, StartWalkLimited
<1>11. CASE UndoEntry
  BY <1>11, UndoEntryLimited
<1>12. CASE RedoEntry
  BY <1>12, RedoEntryLimited
<1>13. CASE EndWalk
  BY <1>13, EndWalkLimited
<1>14. ASSUME NEW file \in Loads, Reload(file)
       PROVE  Limited'
  BY <1>14, ReloadLimited
<1> QED
  BY <1>2, <1>3, <1>4, <1>5, <1>6, <1>7, <1>8, <1>9, <1>10, <1>11, <1>12, <1>13,
     <1>14 DEF Next

-----------------------------------------------------------------------------
(***************************************************************************)
(* The safety theorems                                                     *)
(***************************************************************************)

\* The inductive invariant holds in every reachable state of the history.
THEOREM Inductive == Spec => []IInv
<1>1. Init => IInv
  BY InitIInv
<1>2. IInv /\ [Next]_vars => IInv'
  BY NextIInv
<1> QED BY <1>1, <1>2, PTL DEF Spec

\* The history's state keeps its type (TextBuffer's fields).
THEOREM TypeCorrect == Spec => []TypeOK
<1>1. IInv => TypeOK
  BY DEF IInv
<1> QED BY <1>1, Inductive, PTL

\* is_dirty never calls a document clean whose contents differ from the file
\* that was last saved or loaded.
THEOREM CleanIsSaved == Spec => []CleanMeansSaved
<1>1. IInv => CleanMeansSaved
  BY DEF IInv, SavedKnown, Known, CleanMeansSaved, Idle, Clean
<1> QED BY <1>1, Inductive, PTL

\* undo_redo and abort_undo_group always find the bytes they are to replace,
\* and every entry leads back to the text it was made from.
THEOREM AlwaysReversible == Spec => []HistoryReversible
<1>1. IInv => HistoryReversible
  BY DEF IInv
<1> QED BY <1>1, Inductive, PTL

\* No stamp is ever reused, so that groups never run into each other.
THEOREM AlwaysOrdered == Spec => []HistoryOrdered
<1>1. IInv => HistoryOrdered
  BY DEF IInv
<1> QED BY <1>1, Inductive, PTL

\* Limited holds at the beginning.
LEMMA InitLimited == Init => Limited
<1>1. 0 + Len(<<>>) <= MaxHistory
  BY ConstantsAssumption
<1> QED BY <1>1 DEF Init, Limited, Fits, Idle, Transaction

\* The history keeps MaxHistory entries at most between commands, or one group
\* (trim_history): undo and redo share the limit, a rolled-back macro brings
\* back what it found, and a redo never fills the stack beyond what an edit left.
THEOREM AlwaysBounded == Spec => []HistoryBounded
<1>1. Init => IInv /\ Limited
  BY InitIInv, InitLimited
<1>2. (IInv /\ Limited) /\ [Next]_vars => (IInv /\ Limited)'
  BY NextIInv, NextLimited
<1>3. IInv /\ Limited => HistoryBounded
  <2> SUFFICES ASSUME IInv, Limited, Idle
               PROVE  \/ Len(undo) <= MaxHistory
                      \/ \A g \in Stamps(undo) : g = undo[1].gb
    BY DEF HistoryBounded
  <2>1. /\ undo \in Seq(Entry) /\ redo \in Seq(Entry)
        /\ Fits(undo, Len(undo), redo)
    BY DEF IInv, TypeOK, Limited
  <2>2. Len(undo) \in Nat /\ Len(redo) \in Nat /\ MaxHistory \in Nat
    BY <2>1, ConstantsAssumption
  <2>3. CASE \A i, j \in 1..Len(undo) : undo[i].gb = undo[j].gb
    BY <2>1, <2>2, <2>3 DEF Stamps
  <2> QED BY <2>1, <2>2, <2>3 DEF Fits
<1> QED BY <1>1, <1>2, <1>3, PTL DEF Spec

\* A rolled-back macro leaves the text, the newline style, the stamp and the
\* redo stack it found (abort_undo_group): only the end of the walk closes a
\* roll-back, and the walk ends where the group began.
THEOREM RollbackIsExact == Spec => RollbackExact
<1>1. ASSUME IInv, [Next]_vars, aborting # NoGroup, aborting' = NoGroup
      PROVE  /\ Loaded(text', crlf') = Loaded(aborting.text, aborting.nb)
             /\ generation' = aborting.gb
             /\ redo' = aborting.redo
  <2>1. mode = "undo" /\ AbortProgress
    BY <1>1 DEF IInv, AbortProgress
  <2>2. EndWalk
    <3>1. CASE AbortGroup
      BY <2>1, <3>1 DEF AbortGroup
    <3>2. ASSUME NEW type, NEW beg, NEW n, NEW ins, Write(type, beg, n, ins)
          PROVE  FALSE
      BY <2>1, <3>2 DEF Write, Ready
    <3>3. ASSUME NEW beg, NEW n, Delete(beg, n)
          PROVE  FALSE
      BY <2>1, <3>3 DEF Delete, Ready
    <3>4. ASSUME NEW normalizes, BeginGroup(normalizes)
          PROVE  FALSE
      BY <2>1, <3>4 DEF BeginGroup
    <3>5. ASSUME NEW file, Reload(file)
          PROVE  FALSE
      BY <2>1, <3>5 DEF Reload, Idle
    <3>6. UNCHANGED vars => FALSE
      BY <1>1 DEF vars
    <3>7. ~MoveCursor /\ ~FlipNewlines /\ ~ReportCapacityError /\ ~NestGroup
          /\ ~UnnestGroup /\ ~EndGroup /\ ~Save /\ ~MarkDirty
      BY <2>1 DEF MoveCursor, FlipNewlines, ReportCapacityError, NestGroup,
         UnnestGroup, EndGroup, Save, MarkDirty, Ready, Idle
    <3>8. ~Undo /\ ~Redo
      BY <2>1 DEF Undo, Redo, StartWalk
    <3>9. ~UndoEntry /\ ~RedoEntry
      BY <1>1 DEF UndoEntry, RedoEntry, WalkEntry
    <3> QED
      BY <1>1, <3>1, <3>2, <3>3, <3>4, <3>5, <3>6, <3>7, <3>8, <3>9 DEF Next
  <2>3. UNCHANGED <<text, crlf, generation>> /\ redo' = aborting.redo
    BY <1>1, <2>2 DEF EndWalk
  <2>4. ~WalkContinues(undo)
    BY <2>1, <2>2 DEF EndWalk
  <2>5. walk.to = aborting.gb
    BY <1>1, <2>1 DEF AbortProgress
  <2>6. ~Holds(undo, aborting)
    <3>1. undo \in Seq(Entry)
      BY <1>1 DEF IInv, TypeOK
    <3> QED
      BY <2>4, <2>5, <3>1, HoldsTop DEF WalkContinues
  <2> QED
    BY <1>1, <2>1, <2>3, <2>6 DEF AbortProgress
<1>2. IInv /\ [Next]_vars =>
        [aborting # NoGroup /\ aborting' = NoGroup =>
           /\ Loaded(text', crlf') = Loaded(aborting.text, aborting.nb)
           /\ generation' = aborting.gb
           /\ redo' = aborting.redo]_vars
  BY <1>1
<1> QED BY <1>2, Inductive, PTL DEF Spec, RollbackExact
-----------------------------------------------------------------------------
(***************************************************************************)
(* The versions on a stack: the first entries of its groups, in order      *)
(***************************************************************************)

\* How many groups begin at or below the i-th entry, and where the k-th one does.
Rank(s, i) == Cardinality(Firsts(s) \cap 1..i)
First(s, k) == Nth(Firsts(s), k)

\* Ranks count.
LEMMA RankFacts ==
  ASSUME NEW s \in Seq(Entry)
  PROVE  /\ IsFiniteSet(Firsts(s)) /\ Cardinality(Firsts(s)) \in Nat
         /\ \A i \in 0..Len(s) : Rank(s, i) \in Nat
         /\ Rank(s, 0) = 0
         /\ Rank(s, Len(s)) = Cardinality(Firsts(s))
         /\ \A i \in Firsts(s) : i \in 1..Len(s) /\ Rank(s, i) = Rank(s, i - 1) + 1
         /\ \A i \in 1..Len(s) : i \notin Firsts(s) => Rank(s, i) = Rank(s, i - 1)
         /\ \A i, j \in 0..Len(s) : i <= j => Rank(s, i) <= Rank(s, j)
<1> DEFINE U(i) == Firsts(s) \cap 1..i
<1>1. Firsts(s) \subseteq 1..Len(s) /\ Len(s) \in Nat
  BY DEF Firsts
<1>2. IsFiniteSet(1..Len(s))
  BY <1>1, FS_Interval
<1>3. IsFiniteSet(Firsts(s))
  BY <1>1, <1>2, FS_Subset
<1>4. \A i : U(i) \subseteq Firsts(s) /\ IsFiniteSet(U(i))
  BY <1>3, FS_Subset
<1>5. \A i : Rank(s, i) = Cardinality(U(i))
  BY DEF Rank
<1>6. \A i : Cardinality(U(i)) \in Nat
  BY <1>4, FS_CardinalityType
<1>7. U(0) = {} /\ U(Len(s)) = Firsts(s)
  BY <1>1
<1>8. ASSUME NEW i \in 1..Len(s)
      PROVE  /\ i \in Firsts(s) => U(i) = U(i - 1) \cup {i} /\ i \notin U(i - 1)
             /\ i \notin Firsts(s) => U(i) = U(i - 1)
  BY <1>1
<1>9. \A i, j \in 0..Len(s) : i <= j => U(i) \subseteq U(j)
  BY <1>1
<1> HIDE DEF U
<1>10. ASSUME NEW i \in 1..Len(s)
       PROVE  /\ i \in Firsts(s) => Rank(s, i) = Rank(s, i - 1) + 1
              /\ i \notin Firsts(s) => Rank(s, i) = Rank(s, i - 1)
  BY <1>4, <1>5, <1>8, FS_AddElement
<1>11. Rank(s, 0) = 0
  BY <1>5, <1>7, FS_EmptySet
<1>12. ASSUME NEW i \in 0..Len(s), NEW j \in 0..Len(s), i <= j
       PROVE  Rank(s, i) <= Rank(s, j)
  BY <1>4, <1>5, <1>9, <1>12, FS_Subset
<1>13. Cardinality(Firsts(s)) \in Nat
  BY <1>3, FS_CardinalityType
<1> QED BY <1>1, <1>3, <1>5, <1>6, <1>7, <1>10, <1>11, <1>12, <1>13

\* An entry is the first of one group.
LEMMA FirstIs ==
  ASSUME NEW s \in Seq(Entry), NEW i \in Firsts(s)
  PROVE  First(s, Rank(s, i)) = i
<1>1. ASSUME NEW a \in Firsts(s), NEW b \in Firsts(s), a < b
      PROVE  Rank(s, a) # Rank(s, b)
  <2>1. /\ a \in 0..Len(s) /\ b - 1 \in 0..Len(s) /\ a <= b - 1
        /\ Rank(s, b) = Rank(s, b - 1) + 1
    BY <1>1, RankFacts
  <2>2. /\ Rank(s, a) <= Rank(s, b - 1)
        /\ Rank(s, a) \in Nat /\ Rank(s, b - 1) \in Nat
    BY <2>1, RankFacts
  <2> QED BY <2>1, <2>2
<1>2. \A a \in Firsts(s) : a \in Nat
  BY RankFacts
<1>3. ASSUME NEW a \in Firsts(s), Rank(s, a) = Rank(s, i) PROVE a = i
  BY <1>1, <1>2, <1>3
<1> QED BY <1>3 DEF First, Nth, Rank

\* Every rank up to the number of groups is one entry's.
LEMMA FirstExists ==
  ASSUME NEW s \in Seq(Entry), NEW k \in 1..Cardinality(Firsts(s))
  PROVE  /\ First(s, k) \in Firsts(s)
         /\ First(s, k) \in 1..Len(s)
         /\ Rank(s, First(s, k)) = k
<1> DEFINE S == {i \in 1..Len(s) : Rank(s, i) >= k}
<1>1. Len(s) \in Nat /\ k \in Nat \ {0}
  BY RankFacts
<1>2. Len(s) # 0
  BY <1>1, RankFacts
<1>3. Len(s) \in S
  BY <1>1, <1>2, RankFacts
<1>4. PICK i \in S : \A j \in S : i <= j
  <2>1. S \in SUBSET Nat /\ S # {}
    BY <1>1, <1>3
  <2> HIDE DEF S
  <2> QED BY <2>1, LeastExists
<1>5. i \in 1..Len(s) /\ Rank(s, i) \in Nat /\ Rank(s, i) >= k /\ i - 1 \in 0..Len(s)
  BY <1>1, RankFacts
<1>6. Rank(s, i - 1) \in Nat /\ Rank(s, i - 1) < k
  <2>1. Rank(s, i - 1) \in Nat
    BY <1>5, RankFacts
  <2>2. CASE i = 1
    BY <1>1, <2>2, RankFacts
  <2>3. CASE i # 1
    <3>1. i - 1 \in 1..Len(s) /\ ~(i <= i - 1)
      BY <1>5, <2>3
    <3>2. i - 1 \notin S
      BY <1>4, <3>1
    <3> QED BY <1>1, <2>1, <3>1, <3>2
  <2> QED BY <2>1, <2>2, <2>3
<1> HIDE DEF S
<1>7. i \in Firsts(s) /\ Rank(s, i) = k
  BY <1>1, <1>5, <1>6, RankFacts
<1>8. First(s, k) = i
  BY <1>7, FirstIs
<1> QED BY <1>5, <1>7, <1>8

\* The k-th version is that of the k-th group.
LEMMA VersionsAre ==
  ASSUME NEW s \in Seq(Entry), NEW mark
  PROVE  Versions(s, mark)
           = [k \in 1..Cardinality(Firsts(s)) |-> VersionOf(s[First(s, k)], mark)]
<1>1. \A k \in 1..Cardinality(Firsts(s)) :
        [i \in Firsts(s) |-> VersionOf(s[i], mark)][Nth(Firsts(s), k)]
          = VersionOf(s[First(s, k)], mark)
  BY FirstExists DEF First
<1> QED BY <1>1 DEF Versions

\* Two stacks whose groups begin at the same places with the same versions.
LEMMA SameVersions ==
  ASSUME NEW s \in Seq(Entry), NEW r \in Seq(Entry), Firsts(s) = Firsts(r), NEW mark,
         \A i \in Firsts(s) : VersionOf(s[i], mark) = VersionOf(r[i], mark)
  PROVE  Versions(r, mark) = Versions(s, mark)
<1>1. \A k : First(s, k) = First(r, k)
  BY DEF First
<1>2. \A k \in 1..Cardinality(Firsts(s)) :
        VersionOf(s[First(s, k)], mark) = VersionOf(r[First(r, k)], mark)
  BY <1>1, FirstExists
<1>3. /\ Versions(s, mark)
           = [k \in 1..Cardinality(Firsts(s)) |-> VersionOf(s[First(s, k)], mark)]
      /\ Versions(r, mark)
           = [k \in 1..Cardinality(Firsts(s)) |-> VersionOf(r[First(r, k)], mark)]
  BY VersionsAre
<1> QED BY <1>2, <1>3

\* No entries, no versions.
LEMMA NoVersions ==
  ASSUME NEW s \in Seq(Entry), NEW mark
  PROVE  /\ Versions(<<>>, mark) = <<>>
         /\ s # <<>> => Cardinality(Firsts(s)) > 0
<1>1. Firsts(<<>>) = {}
  BY DEF Firsts
<1>2. Cardinality(Firsts(<<>>)) = 0
  BY <1>1, FS_EmptySet
<1>3. Versions(<<>>, mark) = <<>>
  BY <1>2 DEF Versions
<1>4. ASSUME s # <<>> PROVE Cardinality(Firsts(s)) > 0
  <2>1. 1 \in Firsts(s)
    BY <1>4 DEF Firsts, Boundary
  <2>2. Cardinality(Firsts(s)) # 0
    BY <2>1, RankFacts, FS_EmptySet
  <2> QED BY <2>2, RankFacts
<1> QED BY <1>3, <1>4

\* A push begins a group or joins the newest.
LEMMA PushFirsts ==
  ASSUME NEW s \in Seq(Entry), NEW e \in Entry, NEW r, r = Append(s, e)
  PROVE  /\ s # <<>> /\ Top(s).gb = e.gb => Firsts(r) = Firsts(s)
         /\ s = <<>> \/ Top(s).gb # e.gb => Firsts(r) = Firsts(s) \cup {Len(s) + 1}
<1>1. /\ Len(r) = Len(s) + 1 /\ Len(s) \in Nat
      /\ r[Len(s) + 1] = e /\ \A i \in 1..Len(s) : r[i] = s[i]
      /\ s # <<>> <=> Len(s) # 0
  OBVIOUS
<1>2. \A i \in 1..Len(s) : i - 1 \in 1..Len(s) \/ i = 1
  BY <1>1
<1>3. \A i \in 1..Len(s) : Boundary(r, i) <=> Boundary(s, i)
  BY <1>1, <1>2 DEF Boundary
<1>4. Boundary(r, Len(s) + 1) <=> s = <<>> \/ Top(s).gb # e.gb
  BY <1>1 DEF Boundary, Top
<1>5. \A i : i \in 1..Len(r) <=> i \in 1..Len(s) \/ i = Len(s) + 1
  BY <1>1
<1> QED BY <1>3, <1>4, <1>5 DEF Firsts

\* A group that began is a version more.
LEMMA PushVersion ==
  ASSUME NEW s \in Seq(Entry), NEW e \in Entry, s = <<>> \/ Top(s).gb # e.gb, NEW mark
  PROVE  Versions(Append(s, e), mark) = Append(Versions(s, mark), VersionOf(e, mark))
<1>0. Append(s, e) \in Seq(Entry)
  OBVIOUS
<1>1. PICK r \in Seq(Entry) : r = Append(s, e)
  BY <1>0
<1> DEFINE n == Cardinality(Firsts(s))
           last == Len(s) + 1
<1>2. Firsts(r) = Firsts(s) \cup {last}
  BY <1>1, PushFirsts
<1>3. /\ n \in Nat /\ IsFiniteSet(Firsts(s)) /\ Firsts(s) \subseteq 1..Len(s)
      /\ last \notin Firsts(s) /\ Len(s) \in Nat /\ Len(r) = last
  BY <1>1, RankFacts DEF Firsts
<1>4. Cardinality(Firsts(r)) = n + 1
  BY <1>2, <1>3, FS_AddElement
<1>5. \A i \in 1..Len(s) : Rank(r, i) = Rank(s, i)
  <2>1. ASSUME NEW i \in 1..Len(s)
        PROVE  Firsts(r) \cap 1..i = Firsts(s) \cap 1..i
    BY <1>2, <1>3
  <2> QED BY <2>1 DEF Rank
<1>6. \A k \in 1..n : First(r, k) = First(s, k) /\ r[First(s, k)] = s[First(s, k)]
  <2>1. ASSUME NEW k \in 1..n
        PROVE  First(r, k) = First(s, k) /\ First(s, k) \in 1..Len(s)
    <3>1. PICK i \in Firsts(s) : i = First(s, k) /\ i \in 1..Len(s) /\ Rank(s, i) = k
      BY FirstExists
    <3>2. i \in Firsts(r) /\ Rank(r, i) = k
      BY <1>2, <1>5, <3>1
    <3> QED BY <3>1, <3>2, FirstIs
  <2> QED BY <1>1, <2>1
<1>7. First(r, n + 1) = last /\ r[last] = e
  <2>1. last \in Firsts(r)
    BY <1>2
  <2>2. Rank(r, Len(r)) = Cardinality(Firsts(r))
    BY RankFacts
  <2>3. Rank(r, last) = n + 1
    BY <1>3, <1>4, <2>2
  <2>4. First(r, n + 1) = last
    BY <2>1, <2>3, FirstIs
  <2> QED BY <1>1, <2>4
<1>8. Versions(r, mark) = [k \in 1..n + 1 |-> VersionOf(r[First(r, k)], mark)]
  BY <1>1, <1>4, VersionsAre
<1>9. Versions(s, mark) = [k \in 1..n |-> VersionOf(s[First(s, k)], mark)]
  BY VersionsAre
<1> HIDE DEF n, last
<1>10. Versions(r, mark)
         = [k \in 1..n + 1 |-> IF k = n + 1 THEN VersionOf(e, mark)
                               ELSE VersionOf(s[First(s, k)], mark)]
  BY <1>3, <1>6, <1>7, <1>8
<1> QED BY <1>1, <1>3, <1>9, <1>10

\* An entry of the newest group is no version more.
LEMMA JoinVersion ==
  ASSUME NEW s \in Seq(Entry), NEW e \in Entry, s # <<>>, Top(s).gb = e.gb, NEW mark
  PROVE  Versions(Append(s, e), mark) = Versions(s, mark)
<1>0. Append(s, e) \in Seq(Entry)
  OBVIOUS
<1>1. PICK r \in Seq(Entry) : r = Append(s, e)
  BY <1>0
<1>2. Firsts(r) = Firsts(s)
  BY <1>1, PushFirsts
<1>3. \A i \in Firsts(s) : r[i] = s[i]
  BY <1>1 DEF Firsts
<1> QED BY <1>1, <1>2, <1>3, SameVersions

\* Without its newest entry a stack has the same versions, or that entry was the last one.
LEMMA PopVersions ==
  ASSUME NEW s \in Seq(Entry), s # <<>>, NEW mark
  PROVE  Versions(s, mark) =
           IF Pop(s) # <<>> /\ Top(Pop(s)).gb = Top(s).gb THEN Versions(Pop(s), mark)
           ELSE Append(Versions(Pop(s), mark), VersionOf(Top(s), mark))
<1>1. PICK p \in Seq(Entry), e \in Entry : p = Pop(s) /\ e = Top(s)
  BY PopFacts
<1>2. s = Append(p, e)
  <2>1. /\ Len(p) = Len(s) - 1 /\ e = s[Len(s)] /\ \A i \in 1..Len(p) : p[i] = s[i]
        /\ Len(s) \in 1..Len(s)
    BY <1>1, PopFacts
  <2> QED BY <2>1
<1> QED BY <1>1, <1>2, PushVersion, JoinVersion

\* The newest entry grew.
LEMMA GrownVersions ==
  ASSUME NEW s \in Seq(Entry), s # <<>>, NEW f \in Entry, NEW mark,
         f.gb = Top(s).gb, f.nb = Top(s).nb, f.other = Top(s).other
  PROVE  Versions(Append(Pop(s), f), mark) = Versions(s, mark)
<1>1. PICK p \in Seq(Entry) : p = Pop(s)
  BY PopFacts
<1>2. VersionOf(f, mark) = VersionOf(Top(s), mark)
  BY DEF VersionOf
<1>3. CASE p # <<>> /\ Top(p).gb = Top(s).gb
  BY <1>1, <1>3, PopVersions, JoinVersion
<1>4. CASE ~(p # <<>> /\ Top(p).gb = Top(s).gb)
  <2>1. Versions(Append(p, f), mark) = Append(Versions(p, mark), VersionOf(f, mark))
    BY <1>4, PushVersion
  <2> QED BY <1>1, <1>2, <1>4, <2>1, PopVersions
<1> QED BY <1>3, <1>4

\* Versions are versions of the line.
LEMMA VersionsType ==
  ASSUME NEW s \in Seq(Entry), NEW mark
  PROVE  /\ Versions(s, mark) \in Seq(Line!Version)
         /\ Len(Versions(s, mark)) = Cardinality(Firsts(s))
         /\ \A k \in 1..Cardinality(Firsts(s)) :
              Versions(s, mark)[k] = VersionOf(s[First(s, k)], mark)
<1>1. Cardinality(Firsts(s)) \in Nat
  BY RankFacts
<1>2. ASSUME NEW e \in Entry PROVE VersionOf(e, mark) \in Line!Version
  BY DEF Entry, VersionOf, Loaded, Line!Version
<1>3. \A k \in 1..Cardinality(Firsts(s)) : s[First(s, k)] \in Entry
  BY FirstExists
<1>4. \A k \in 1..Cardinality(Firsts(s)) : VersionOf(s[First(s, k)], mark) \in Line!Version
  BY <1>2, <1>3
<1>5. Versions(s, mark) \in [1..Cardinality(Firsts(s)) -> Line!Version]
  BY <1>4, VersionsAre
<1>6. Versions(s, mark) \in Seq(Line!Version)
  BY <1>1, <1>5
<1>7. Len(Versions(s, mark)) = Cardinality(Firsts(s))
  BY <1>1, <1>5, <1>6
<1> QED BY <1>6, <1>7, VersionsAre

\* A mark that is no entry's unmarks the versions.
LEMMA UnmarkedVersions ==
  ASSUME NEW s \in Seq(Entry), NEW mark, NEW other, other \notin Stamps(s)
  PROVE  Versions(s, other) = Line!Unmarked(Versions(s, mark))
<1>1. ASSUME NEW k \in 1..Cardinality(Firsts(s))
      PROVE  VersionOf(s[First(s, k)], other)
               = Line!Fresh(VersionOf(s[First(s, k)], mark).content)
  <2>1. s[First(s, k)].gb # other
    BY FirstExists DEF Stamps
  <2> QED BY <2>1 DEF VersionOf, Line!Fresh
<1>2. /\ DOMAIN Versions(s, mark) = 1..Cardinality(Firsts(s))
      /\ \A k \in 1..Cardinality(Firsts(s)) :
           Versions(s, mark)[k] = VersionOf(s[First(s, k)], mark)
  BY VersionsAre
<1>3. Versions(s, other) = [k \in 1..Cardinality(Firsts(s)) |-> VersionOf(s[First(s, k)], other)]
  BY VersionsAre
<1> QED BY <1>1, <1>2, <1>3 DEF Line!Unmarked

\* Dropping the oldest groups.
LEMMA SuffixVersions ==
  ASSUME NEW s \in Seq(Entry), NEW k \in 0..Len(s) - 1, k = 0 \/ Boundary(s, k + 1), NEW mark
  PROVE  \E m \in 0..Len(Versions(s, mark)) - 1 :
           Versions(SubSeq(s, k + 1, Len(s)), mark) = Line!Forget(Versions(s, mark), m)
<1>0. PICK r : r = SubSeq(s, k + 1, Len(s))
  OBVIOUS
<1>1. /\ r \in Seq(Entry) /\ Len(r) = Len(s) - k
      /\ \A i \in 1..Len(r) : r[i] = s[i + k]
  BY <1>0, SuffixFacts
<1>2. k \in Nat /\ Len(s) \in Nat /\ Len(r) \in Nat \ {0} /\ r # <<>>
  <2>1. Len(s) \in Nat
    OBVIOUS
  <2> QED BY <1>1, <2>1
<1>3. ASSUME NEW i \in 1..Len(r) PROVE i \in Firsts(r) <=> i + k \in Firsts(s)
  <2>1. i + k \in 1..Len(s)
    BY <1>1, <1>2
  <2>2. CASE i = 1
    <3>1. Boundary(s, 1 + k) /\ Boundary(r, 1)
      BY <1>2, <2>2 DEF Boundary
    <3> QED BY <2>1, <2>2, <3>1 DEF Firsts
  <2>3. CASE i # 1
    <3>1. i - 1 \in 1..Len(r) /\ (i - 1) + k = (i + k) - 1 /\ i + k # 1
      BY <1>2, <2>3
    <3>2. r[i - 1] = s[(i + k) - 1] /\ r[i] = s[i + k]
      BY <1>1, <3>1
    <3> QED BY <2>1, <2>3, <3>1, <3>2 DEF Firsts, Boundary
  <2> QED BY <2>2, <2>3
<1> DEFINE m == Rank(s, k)
<1>4. m \in Nat /\ \A i \in 0..Len(r) : Rank(s, i + k) \in Nat /\ Rank(r, i) \in Nat
  <2>1. k \in 0..Len(s) /\ \A i \in 0..Len(r) : i + k \in 0..Len(s)
    BY <1>1, <1>2
  <2> QED BY <1>1, <2>1, RankFacts
<1>5. \A i \in 0..Len(r) : Rank(s, i + k) = m + Rank(r, i)
  <2> DEFINE S == {i \in 0..Len(r) : Rank(s, i + k) # m + Rank(r, i)}
  <2>1. SUFFICES ASSUME S # {} PROVE FALSE
    OBVIOUS
  <2>2. S \in SUBSET Nat
    BY <1>2
  <2>3. PICK i \in S : \A j \in S : i <= j
    <3> HIDE DEF S
    <3> QED BY <2>1, <2>2, LeastExists
  <2>4. i # 0
    <3>1. Rank(r, 0) = 0
      BY <1>1, RankFacts
    <3>2. Rank(s, 0 + k) = m + 0
      BY <1>2, <1>4
    <3> QED BY <3>1, <3>2
  <2>5. /\ i \in 1..Len(r) /\ i - 1 \in 0..Len(r) /\ i + k \in 1..Len(s)
        /\ (i - 1) + k = (i + k) - 1
    BY <1>1, <1>2, <2>4
  <2>6. Rank(s, (i - 1) + k) = m + Rank(r, i - 1)
    BY <2>3, <2>5
  <2> DEFINE a == Rank(r, i)
             b == Rank(r, i - 1)
             c == Rank(s, i + k)
             d == Rank(s, (i - 1) + k)
  <2>7. a \in Nat /\ b \in Nat /\ c \in Nat /\ d \in Nat
    BY <1>4, <2>5
  <2>8. \/ a = b + 1 /\ c = d + 1
        \/ a = b /\ c = d
    BY <1>1, <1>3, <2>5, RankFacts
  <2>9. d = m + b
    BY <2>6
  <2>10. c # m + a
    OBVIOUS
  <2> HIDE DEF a, b, c, d, m
  <2> QED BY <1>4, <2>7, <2>8, <2>9, <2>10
<1> DEFINE n == Cardinality(Firsts(r))
           t == Cardinality(Firsts(s))
<1>6. n \in Nat /\ n > 0 /\ t \in Nat
  BY <1>1, <1>2, RankFacts, NoVersions
<1>7. t = m + n
  <2>1. Rank(s, Len(s)) = t /\ Rank(r, Len(r)) = n
    BY <1>1, RankFacts
  <2>2. Len(r) \in 0..Len(r) /\ Len(r) + k = Len(s)
    BY <1>1, <1>2
  <2>3. Rank(s, Len(r) + k) = m + Rank(r, Len(r))
    BY <1>5, <2>2
  <2> QED BY <2>1, <2>2, <2>3
<1>8. ASSUME NEW j \in 1..n
      PROVE  Versions(r, mark)[j] = Versions(s, mark)[m + j]
  <2>1. PICK i \in Firsts(r) : i = First(r, j) /\ i \in 1..Len(r) /\ Rank(r, i) = j
    BY <1>1, FirstExists
  <2>2. i + k \in Firsts(s) /\ Rank(s, i + k) = m + j
    BY <1>3, <1>5, <2>1
  <2>3. First(s, m + j) = i + k
    BY <2>2, FirstIs
  <2>4. m + j \in 1..t
    BY <1>4, <1>6, <1>7
  <2>5. Versions(s, mark)[m + j] = VersionOf(s[i + k], mark)
    BY <2>3, <2>4, VersionsType
  <2>6. Versions(r, mark)[j] = VersionOf(r[i], mark)
    BY <1>1, <2>1, VersionsType
  <2> QED BY <1>1, <2>1, <2>5, <2>6
<1>9. PICK v \in Seq(Line!Version), w \in Seq(Line!Version) :
        /\ v = Versions(s, mark) /\ Len(v) = t
        /\ w = Versions(r, mark) /\ Len(w) = n
  BY <1>1, VersionsType
<1>10. \A j \in 1..n : w[j] = v[m + j]
  BY <1>8, <1>9
<1> HIDE DEF m, n, t
<1>11. w = SubSeq(v, m + 1, Len(v))
  BY <1>4, <1>6, <1>7, <1>9, <1>10
<1>12. m \in 0..Len(v) - 1
  BY <1>4, <1>6, <1>7, <1>9
<1> QED BY <1>0, <1>9, <1>11, <1>12 DEF Line!Forget

\* What trim_history drops are the oldest versions.
LEMMA TrimForgets ==
  ASSUME NEW STATE r, r \in Seq(Entry), r # <<>>, Trim(r, FALSE), NEW mark
  PROVE  Versions(undo', mark) \in Line!Remembered(Versions(r, mark))
<1>1. PICK k \in TrimPoints(r) : undo' = SubSeq(r, k + 1, Len(r))
  BY DEF Trim
<1>2. k \in 0..Len(r) - 1 /\ (k = 0 \/ Boundary(r, k + 1))
  BY DEF TrimPoints, TrimStops
<1> QED BY <1>1, <1>2, SuffixVersions DEF Line!Remembered

\* What fits is not trimmed.
LEMMA FittingStays ==
  ASSUME NEW STATE r, r \in Seq(Entry), Trim(r, FALSE), NEW kept \in Seq(Entry),
         Fits(r, Len(r), kept)
  PROVE  undo' = r
<1>1. CASE r = <<>>
  <2>1. Len(r) = 0
    BY <1>1
  <2>2. TrimPoints(r) = {}
    BY <2>1 DEF TrimPoints
  <2> QED BY <1>1, <2>2 DEF Trim
<1>2. CASE r # <<>>
  <2>1. Len(r) \in Nat \ {0} /\ Len(kept) \in Nat /\ MaxHistory \in Nat
    BY <1>2, ConstantsAssumption
  <2>2. TrimStops(r, 0)
    BY <2>1 DEF TrimStops, Fits, Top
  <2>3. PICK k \in TrimPoints(r) : undo' = SubSeq(r, k + 1, Len(r))
    BY <1>2 DEF Trim
  <2>4. k = 0
    BY <2>1, <2>2 DEF TrimPoints
  <2> QED BY <2>1, <2>3, <2>4
<1> QED BY <1>1, <1>2

-----------------------------------------------------------------------------
(***************************************************************************)
(* The entries below the newest group                                      *)
(***************************************************************************)
\* Without keeps a prefix.
LEMMA WithoutFacts ==
  ASSUME NEW s \in Seq(Entry), NEW g, NEW k \in 0..Len(s),
         \A i \in 1..Len(s) : s[i].gb # g <=> i <= k
  PROVE  Without(s, g) = SubSeq(s, 1, k)
<1>1. {i \in 1..Len(s) : s[i].gb # g} = 1..k
  OBVIOUS
<1>2. Cardinality(1..k) = k
  BY FS_Interval
<1> QED BY <1>1, <1>2 DEF Without

\* No entry is of the group.
LEMMA WithoutNone ==
  ASSUME NEW s \in Seq(Entry), NEW g, g \notin Stamps(s)
  PROVE  Without(s, g) = s
<1>1. \A i \in 1..Len(s) : s[i].gb # g <=> i <= Len(s)
  BY DEF Stamps
<1>2. Without(s, g) = SubSeq(s, 1, Len(s))
  BY <1>1, WithoutFacts
<1> QED BY <1>2

\* It is a stack.
LEMMA WithoutType ==
  ASSUME NEW s \in Seq(Entry), NEW g
  PROVE  Without(s, g) \in Seq(Entry)
<1> DEFINE T == {i \in 1..Len(s) : s[i].gb # g}
<1>1. Cardinality(T) \in 0..Len(s)
  <2>1. T \subseteq 1..Len(s) /\ Len(s) \in Nat
    OBVIOUS
  <2>2. IsFiniteSet(1..Len(s)) /\ Cardinality(1..Len(s)) = Len(s)
    <3>1. PICK n \in Nat : n = Len(s)
      BY <2>1
    <3>2. IsFiniteSet(1..n) /\ Cardinality(1..n) = n
      BY FS_Interval
    <3> QED BY <3>1, <3>2
  <2> HIDE DEF T
  <2>3. IsFiniteSet(T) /\ Cardinality(T) <= Len(s)
    BY <2>1, <2>2, FS_Subset
  <2>4. Cardinality(T) \in Nat
    BY <2>3, FS_CardinalityType
  <2> QED BY <2>1, <2>3, <2>4
<1> HIDE DEF T
<1>2. PICK c \in 0..Len(s) : c = Cardinality(T)
  BY <1>1
<1>3. SubSeq(s, 1, c) \in Seq(Entry)
  OBVIOUS
<1> QED BY <1>2, <1>3 DEF Without, T

\* Another entry of the group.
LEMMA WithoutPush ==
  ASSUME NEW s \in Seq(Entry), NEW e \in Entry
  PROVE  Without(Append(s, e), e.gb) = Without(s, e.gb)
<1>0. PICK r : r = Append(s, e)
  OBVIOUS
<1>1. /\ r \in Seq(Entry) /\ Len(r) = Len(s) + 1 /\ Len(s) \in Nat
      /\ r[Len(r)] = e /\ \A i \in 1..Len(s) : r[i] = s[i]
  BY <1>0
<1> DEFINE T == {i \in 1..Len(s) : s[i].gb # e.gb}
<1>2. {i \in 1..Len(r) : r[i].gb # e.gb} = T
  BY <1>1
<1>3. Cardinality(T) \in 0..Len(s)
  <2>1. T \subseteq 1..Len(s) /\ Len(s) \in Nat
    BY <1>1
  <2>a. IsFiniteSet(1..Len(s)) /\ Cardinality(1..Len(s)) = Len(s)
    BY <2>1, FS_Interval
  <2> HIDE DEF T
  <2>2. IsFiniteSet(T) /\ Cardinality(T) <= Len(s)
    BY <2>1, <2>a, FS_Subset
  <2>3. Cardinality(T) \in Nat
    BY <2>2, FS_CardinalityType
  <2> QED BY <1>1, <2>2, <2>3
<1> HIDE DEF T
<1>4. PICK c \in 0..Len(s) : c = Cardinality(T)
  BY <1>3
<1>5. SubSeq(r, 1, c) = SubSeq(s, 1, c)
  BY <1>1
<1> QED BY <1>0, <1>2, <1>4, <1>5 DEF Without, T

\* An entry of the group less.
LEMMA WithoutPop ==
  ASSUME NEW s \in Seq(Entry), s # <<>>
  PROVE  Without(Pop(s), Top(s).gb) = Without(s, Top(s).gb)
<1>1. PICK p \in Seq(Entry), e \in Entry : p = Pop(s) /\ e = Top(s)
  BY PopFacts
<1>2. s = Append(p, e)
  <2>1. /\ Len(p) = Len(s) - 1 /\ e = s[Len(s)] /\ \A i \in 1..Len(p) : p[i] = s[i]
        /\ Len(s) \in 1..Len(s)
    BY <1>1, PopFacts
  <2> QED BY <2>1
<1> QED BY <1>1, <1>2, WithoutPush

\* The newest group is one version, the one it began from.
LEMMA GroupVersion ==
  ASSUME NEW s \in Seq(Entry), Ascending(s), NEW g \in OpenGroup, Holds(s, g), NEW mark
  PROVE  Versions(s, mark) =
           Append(Versions(Without(s, g.gb), mark),
                  [content |-> Loaded(g.text, g.nb), saved |-> g.gb = mark])
<1>1. PICK k \in 1..Len(s) :
        /\ Boundary(s, k) /\ s[k].other = g.text /\ s[k].nb = g.nb
        /\ \A j \in k..Len(s) : s[j].gb = g.gb
  BY DEF Holds
<1>2. Len(s) \in Nat /\ k \in Nat /\ g.gb \in Nat /\ s[k].gb = g.gb
  BY <1>1 DEF OpenGroup
<1>3. ASSUME NEW i \in 1..Len(s) PROVE s[i].gb # g.gb <=> i <= k - 1
  <2>1. CASE i >= k
    BY <1>1, <1>2, <2>1
  <2>2. CASE i < k
    <3>1. k - 1 \in 1..Len(s) /\ i <= k - 1 /\ k # 1
      BY <1>2, <2>2
    <3>2. s[k - 1].gb # s[k].gb /\ s[k - 1].gb <= s[k].gb
      BY <1>1, <1>2, <3>1 DEF Boundary, Ascending
    <3>3. s[i].gb <= s[k - 1].gb
      <4>1. CASE i = k - 1
        BY <3>1, <4>1, EntryFacts
      <4>2. CASE i # k - 1
        BY <3>1, <4>2 DEF Ascending
      <4> QED BY <4>1, <4>2
    <3>4. s[i].gb \in Nat /\ s[k - 1].gb \in Nat
      BY <3>1, EntryFacts
    <3> QED BY <1>2, <3>1, <3>2, <3>3, <3>4
  <2> QED BY <1>2, <2>1, <2>2
<1>4. PICK p \in Seq(Entry) : /\ p = Without(s, g.gb) /\ Len(p) = k - 1
                              /\ \A i \in 1..k - 1 : p[i] = s[i]
  <2>1. Without(s, g.gb) = SubSeq(s, 1, k - 1)
    <3>1. k - 1 \in 0..Len(s)
      BY <1>2
    <3> QED BY <1>3, <3>1, WithoutFacts
  <2>2. PICK c \in 0..Len(s) : c = k - 1
    BY <1>2
  <2>3. /\ SubSeq(s, 1, c) \in Seq(Entry) /\ Len(SubSeq(s, 1, c)) = c
        /\ \A i \in 1..c : SubSeq(s, 1, c)[i] = s[i]
    OBVIOUS
  <2> QED BY <2>1, <2>2, <2>3
<1>5. PICK e \in Entry : e = s[k] /\ e.gb = g.gb /\ e.nb = g.nb /\ e.other = g.text
  BY <1>1, <1>2, EntryFacts
<1>6. p = <<>> \/ Top(p).gb # e.gb
  <2>1. CASE k = 1
    BY <1>4, <2>1
  <2>2. CASE k # 1
    <3>1. Top(p) = s[k - 1]
      BY <1>2, <1>4, <2>2 DEF Top
    <3>2. k - 1 \in 1..Len(s)
      BY <1>2, <2>2
    <3> QED BY <1>2, <1>3, <1>5, <3>1, <3>2
  <2> QED BY <2>1, <2>2
<1>0. PICK r : r = Append(p, e)
  OBVIOUS
<1>7. r \in Seq(Entry) /\ Len(r) = k /\ \A i \in 1..k : r[i] = s[i]
  <2>1. r \in Seq(Entry) /\ Len(r) = Len(p) + 1 /\ r[Len(p) + 1] = e
        /\ \A i \in 1..Len(p) : r[i] = p[i]
    BY <1>0
  <2>2. Len(p) + 1 = k /\ \A i \in 1..k : i = k \/ i \in 1..Len(p)
    BY <1>2, <1>4
  <2> QED BY <1>4, <1>5, <2>1, <2>2
<1>8. Versions(r, mark) = Append(Versions(p, mark), VersionOf(e, mark))
  BY <1>0, <1>6, PushVersion
<1>9. Firsts(r) = Firsts(s)
  <2>1. ASSUME NEW i \in 1..Len(s), i > k PROVE ~Boundary(s, i)
    <3>1. i - 1 \in k..Len(s) /\ i \in k..Len(s) /\ i # 1
      BY <1>2, <2>1
    <3> QED BY <1>1, <3>1 DEF Boundary
  <2>2. ASSUME NEW i \in 1..k PROVE Boundary(r, i) <=> Boundary(s, i)
    <3>1. i = 1 \/ i - 1 \in 1..k
      BY <1>2
    <3> QED BY <1>7, <3>1 DEF Boundary
  <2>3. \A i \in 1..Len(s) : i \in 1..k \/ i > k
    BY <1>2
  <2>4. \A i \in 1..k : i \in 1..Len(s)
    BY <1>2
  <2> QED BY <1>7, <2>1, <2>2, <2>3, <2>4 DEF Firsts
<1>10. \A i \in Firsts(s) : s[i] = r[i]
  BY <1>7, <1>9 DEF Firsts
<1>11. Versions(s, mark) = Versions(r, mark)
  BY <1>7, <1>9, <1>10, SameVersions
<1>12. VersionOf(e, mark) = [content |-> Loaded(g.text, g.nb), saved |-> g.gb = mark]
  BY <1>5 DEF VersionOf
<1> QED BY <1>4, <1>8, <1>11, <1>12

-----------------------------------------------------------------------------
(***************************************************************************)
(* Every step of the history is one of the line of versions, or none.      *)
(* Beyond IInv this needs that a run of typing never extends the saved     *)
(* version, and how far a walk has brought the line.                       *)
(***************************************************************************)
RunUnsaved == lastType # "Other" => mode = "ready" /\ generation # saved

MovesFrom(from, into) ==
  IF generation = walk.from
  THEN WalkContinues(from) /\ walk.from \notin Stamps(into)
  ELSE generation = walk.to /\ into # <<>> /\ Top(into).gb = walk.from

WalkLine ==
  /\ mode = "undo" /\ aborting = NoGroup => MovesFrom(undo, redo)
  /\ mode = "redo" => MovesFrom(redo, undo)

LineInv == RunUnsaved /\ WalkLine

LineStep == [Line!Next]_(Line!line)

LineStays == past' = past /\ present' = present /\ future' = future /\ disk' = disk

\* A stutter of the line is a step of it.
LEMMA StaysIsStep == LineStays => LineStep
BY DEF LineStays, LineStep, Line!line

\* The line at rest.
LEMMA AtRest ==
  ASSUME Transaction = NoGroup, mode = "ready" \/ generation = walk.from
  PROVE  /\ past = Versions(undo, saved) /\ present = Current
         /\ future = Versions(redo, saved)
BY DEF past, present, future, Moved

\* The same of the next state.
LEMMA AtRestNext ==
  ASSUME Transaction' = NoGroup, mode' = "ready" \/ generation' = walk'.from
  PROVE  /\ past' = Versions(undo', saved') /\ present' = Current'
         /\ future' = Versions(redo', saved')
BY DEF past, present, future, Moved

Beginning(g, mark) == [content |-> Loaded(g.text, g.nb), saved |-> g.gb = mark]

\* While a group is open or rolled back, the line is where the group found it.
LEMMA InGroup ==
  ASSUME Transaction # NoGroup
  PROVE  /\ past = Versions(Without(undo, Transaction.gb), saved)
         /\ present = Beginning(Transaction, saved)
         /\ future = Versions(Transaction.redo, saved)
BY DEF past, present, future, Beginning

\* The same of the next state.
LEMMA InGroupNext ==
  ASSUME Transaction' # NoGroup
  PROVE  /\ past' = Versions(Without(undo', Transaction'.gb), saved')
         /\ present' = Beginning(Transaction', saved')
         /\ future' = Versions(Transaction'.redo, saved')
BY DEF past, present, future, Beginning

\* Steps that leave what the line is made of alone.
LEMMA NeutralLine ==
  ASSUME UNCHANGED <<text, crlf, generation, saved, undo, redo, mode, walk, aborting,
                     group, disk>>,
         lastType' \in {lastType, "Other"}, LineInv
  PROVE  LineStays /\ LineInv'
<1>1. Transaction' = Transaction /\ Moved' = Moved /\ Current' = Current
  BY DEF Transaction, Moved, Current
<1>2. past' = past /\ future' = future /\ present' = present
  BY <1>1 DEF past, present, future, AfterWalk, WalkContinues
<1>3. LineInv'
  BY DEF LineInv, RunUnsaved, WalkLine, MovesFrom, WalkContinues
<1> QED BY <1>2, <1>3 DEF LineStays

\* Entering or leaving an inner group.
LEMMA DepthLine ==
  ASSUME IInv, LineInv, group # NoGroup, mode = "ready",
         NEW d \in Nat \ {0}, group' = [group EXCEPT !.depth = d],
         UNCHANGED <<text, crlf, generation, saved, undo, redo, lastType, mode, walk,
                     aborting, disk>>
  PROVE  LineStays /\ LineInv'
<1>1. group \in OpenGroup /\ aborting = NoGroup
  BY GroupFacts DEF IInv, TypeOK, GroupProgress
<1>2. /\ group'.gb = group.gb /\ group'.nb = group.nb
      /\ group'.redo = group.redo /\ group'.text = group.text
      /\ group' # NoGroup
  BY <1>1 DEF OpenGroup, NoGroup
<1>3. Transaction = group /\ Transaction' = group'
  BY <1>1 DEF Transaction
<1>4. LineStays
  <2>1. Beginning(group', saved') = Beginning(group, saved)
    BY <1>2 DEF Beginning
  <2>2. Transaction # NoGroup /\ Transaction' # NoGroup
    BY <1>2, <1>3
  <2> QED BY <1>2, <1>3, <2>1, <2>2, InGroup, InGroupNext DEF LineStays
<1>5. LineInv'
  BY DEF LineInv, RunUnsaved, WalkLine
<1> QED BY <1>4, <1>5

\* What one edit session records is the newest version grown, one version more, or part of the
\* open group.
LEMMA RecordedVersions ==
  ASSUME IInv, LineInv, Ready, NEW type \in HistoryType,
         NEW beg \in Nat, NEW n \in Nat, beg + n <= Len(text),
         NEW add \in Seq(Chars), NEW r, r = Recorded(type, beg, Extract(text, beg, n), add)
  PROVE  /\ r \in Seq(Entry) /\ r # <<>>
         /\ group = NoGroup /\ SameRun(type) =>
              /\ undo # <<>> /\ generation # saved
              /\ Versions(r, saved) = Versions(undo, saved)
         /\ group = NoGroup /\ ~SameRun(type) =>
              Versions(r, saved) = Append(Versions(undo, saved), Current)
         /\ group # NoGroup => Without(r, group.gb) = Without(undo, group.gb)
<1>1. r \in Seq(Entry) /\ r # <<>> /\ Len(r) \in 1..Len(r) /\ undo \in Seq(Entry)
  <2>1. r \in Seq(Entry) /\ r # <<>>
    BY RecordedFacts
  <2>2. undo \in Seq(Entry)
    BY DEF IInv, TypeOK
  <2> QED BY <2>1, <2>2, EmptySeq
<1>2. CASE Coalesces(type, beg)
  <2>1. undo # <<>> /\ lastType # "Other" /\ SameRun(type)
    BY <1>2 DEF Coalesces, SameRun
  <2>2. PICK p \in Seq(Entry), e \in Entry : p = Pop(undo) /\ e = Top(undo)
    BY <1>1, <2>1, PopFacts
  <2>3. PICK f : f = Grown(e, Extract(text, beg, n), add)
    OBVIOUS
  <2>4. r = Append(p, f)
    BY <1>2, <2>2, <2>3 DEF Recorded
  <2>5. f \in Entry
    <3>1. r[Len(r)] = f
      BY <2>2, <2>4
    <3> QED BY <1>1, <3>1, EntryFacts
  <2>6. f.gb = e.gb /\ f.nb = e.nb /\ f.other = e.other
    BY <2>2, <2>3 DEF Grown, Entry
  <2>7. Versions(r, saved) = Versions(undo, saved)
    BY <1>1, <2>1, <2>2, <2>4, <2>5, <2>6, GrownVersions
  <2>8. ASSUME group # NoGroup PROVE Without(r, group.gb) = Without(undo, group.gb)
    <3>1. Holds(undo, group)
      BY <2>1, <2>8 DEF IInv, GroupProgress
    <3>2. e.gb = group.gb
      BY <1>1, <2>2, <3>1, HoldsTop
    <3>3. Without(p, group.gb) = Without(undo, group.gb)
      BY <1>1, <2>1, <2>2, <3>2, WithoutPop
    <3> QED BY <2>2, <2>4, <2>5, <2>6, <3>2, <3>3, WithoutPush
  <2> QED BY <1>1, <2>1, <2>7, <2>8 DEF LineInv, RunUnsaved
<1>3. CASE ~Coalesces(type, beg)
  <2>1. PICK e : e = [off |-> beg, del |-> Extract(text, beg, n), add |-> add,
                      gb |-> Origin(type).gb, nb |-> Origin(type).nb, other |-> text]
    OBVIOUS
  <2>2. r = Append(undo, e)
    BY <1>3, <2>1 DEF Recorded
  <2>3. e \in Entry
    <3>1. r[Len(r)] = e
      BY <1>1, <2>2
    <3> QED BY <1>1, <3>1, EntryFacts
  <2>4. ASSUME group = NoGroup, SameRun(type)
        PROVE  /\ undo # <<>> /\ generation # saved
               /\ Versions(r, saved) = Versions(undo, saved)
    <3>1. undo # <<>> /\ lastType # "Other" /\ e.gb = Top(undo).gb
      BY <2>1, <2>4 DEF SameRun, Origin
    <3>2. Versions(r, saved) = Versions(undo, saved)
      BY <1>1, <2>2, <2>3, <3>1, JoinVersion
    <3> QED BY <3>1, <3>2 DEF LineInv, RunUnsaved
  <2>5. ASSUME group = NoGroup, ~SameRun(type)
        PROVE  Versions(r, saved) = Append(Versions(undo, saved), Current)
    <3>1. e.gb = generation /\ e.nb = crlf /\ e.other = text
      BY <2>1, <2>5 DEF Origin
    <3>2. \A g \in Stamps(undo) : g < generation
      BY DEF IInv, HistoryOrdered, Ready
    <3>3. undo = <<>> \/ Top(undo).gb # e.gb
      <4>1. generation \in Nat
        BY DEF IInv, TypeOK
      <4> QED BY <1>1, <3>1, <3>2, <4>1, StampFacts
    <3>4. VersionOf(e, saved) = Current
      BY <3>1 DEF VersionOf, Current
    <3> QED BY <1>1, <2>2, <2>3, <3>3, <3>4, PushVersion
  <2>6. ASSUME group # NoGroup PROVE Without(r, group.gb) = Without(undo, group.gb)
    <3>1. e.gb = group.gb
      BY <2>1, <2>6 DEF Origin
    <3> QED BY <1>1, <2>2, <2>3, <3>1, WithoutPush
  <2> QED BY <1>1, <2>4, <2>5, <2>6
<1> QED BY <1>2, <1>3

\* An edit session is a version recorded or amended; inside a group the line waits.
LEMMA EditLine ==
  ASSUME IInv, LineInv, Ready, NEW type \in HistoryType,
         NEW beg \in Nat, NEW n \in Nat, beg + n <= Len(text),
         NEW add \in Seq(Chars), NEW at \in Nat,
         Edit(type, beg, n, add, at), crlf' \in BOOLEAN,
         UNCHANGED <<saved, group, mode, walk, aborting, disk>>
  PROVE  LineStep /\ LineInv'
<1>1. /\ text \in Seq(Chars) /\ generation \in Nat /\ counter \in Nat
      /\ saved \in Nat \cup {Unsaved} /\ saved <= counter
      /\ undo \in Seq(Entry) /\ mode = "ready" /\ aborting = NoGroup
      /\ group \in OpenGroup \cup {NoGroup}
  BY DEF IInv, TypeOK, StampsTaken, Ready, AbortProgress
<1>2. PICK r : r = Recorded(type, beg, Extract(text, beg, n), add)
  OBVIOUS
<1>3. /\ text' = Splice(text, beg, n, add) /\ redo' = <<>>
      /\ generation' = counter + 1
      /\ Trim(r, group # NoGroup)
  BY <1>2 DEF Edit
<1>4. /\ r \in Seq(Entry) /\ r # <<>>
      /\ group = NoGroup /\ SameRun(type) =>
           /\ undo # <<>> /\ generation # saved
           /\ Versions(r, saved) = Versions(undo, saved)
      /\ group = NoGroup /\ ~SameRun(type) =>
           Versions(r, saved) = Append(Versions(undo, saved), Current)
      /\ group # NoGroup => Without(r, group.gb) = Without(undo, group.gb)
  BY <1>2, RecordedVersions
<1>5. generation' # saved'
  BY <1>1, <1>3 DEF Unsaved
<1>6. LineInv'
  BY <1>1, <1>5 DEF LineInv, RunUnsaved, WalkLine
<1>7. Transaction = group /\ Transaction' = group
  BY <1>1 DEF Transaction
<1>8. CASE group # NoGroup
  <2>1. undo' = r
    BY <1>3, <1>8 DEF Trim
  <2>2. Transaction # NoGroup /\ Transaction' # NoGroup
    BY <1>7, <1>8
  <2>3. LineStays
    BY <1>4, <1>7, <1>8, <2>1, <2>2, InGroup, InGroupNext DEF LineStays
  <2> QED BY <1>6, <2>3, StaysIsStep
<1>9. CASE group = NoGroup
  <2>1. /\ past = Versions(undo, saved) /\ present = Current
    BY <1>1, <1>7, <1>9, AtRest
  <2>2. /\ past' = Versions(undo', saved) /\ present' = Current'
        /\ future' = <<>>
    BY <1>1, <1>3, <1>7, <1>9, AtRestNext, NoVersions, EmptyStack
  <2>3. Versions(undo', saved) \in Line!Remembered(Versions(r, saved))
    BY <1>3, <1>4, <1>9, TrimForgets
  <2>4. present' \in Line!Edited
    <3>1. text' \in Seq(Chars)
      BY <1>1, <1>3, SpliceLength
    <3>2. Current' = [content |-> Loaded(text', crlf'), saved |-> FALSE]
      BY <1>5 DEF Current
    <3>3. Loaded(text', crlf') \in [text : Seq(Chars), crlf : BOOLEAN]
      BY <3>1 DEF Loaded
    <3> QED BY <2>2, <3>2, <3>3 DEF Line!Edited
  <2>5. CASE SameRun(type)
    <3>1. ~present.saved
      BY <1>4, <1>9, <2>1, <2>5 DEF Current
    <3>2. past' \in Line!Remembered(past)
      BY <1>4, <1>9, <2>1, <2>2, <2>3, <2>5
    <3>3. Line!Amend
      BY <2>2, <2>4, <3>1, <3>2 DEF Line!Amend
    <3> QED BY <1>6, <3>3 DEF LineStep, Line!Next
  <2>6. CASE ~SameRun(type)
    <3>1. past' \in Line!Remembered(Append(past, present))
      BY <1>4, <1>9, <2>1, <2>2, <2>3, <2>6
    <3>2. Line!Record
      BY <2>2, <2>4, <3>1 DEF Line!Record
    <3> QED BY <1>6, <3>2 DEF LineStep, Line!Next
  <2> QED BY <2>5, <2>6
<1> QED BY <1>8, <1>9

-----------------------------------------------------------------------------
(***************************************************************************)
(* One lemma per action                                                    *)
(***************************************************************************)

\* No group is open or rolled back while nothing runs.
LEMMA ReadyFacts ==
  ASSUME IInv, mode = "ready"
  PROVE  /\ aborting = NoGroup /\ Transaction = group
         /\ undo \in Seq(Entry) /\ redo \in Seq(Entry)
         /\ generation \in Nat /\ saved \in Nat \cup {Unsaved}
         /\ generation \notin Stamps(undo) /\ generation \notin Stamps(redo)
<1>1. /\ undo \in Seq(Entry) /\ redo \in Seq(Entry)
      /\ generation \in Nat /\ saved \in Nat \cup {Unsaved}
  BY DEF IInv, TypeOK
<1>2. aborting = NoGroup
  BY DEF IInv, AbortProgress
<1>3. /\ \A g \in Stamps(undo) : g < generation
      /\ \A g \in Stamps(redo) : g > generation
  BY DEF IInv, HistoryOrdered
<1>4. generation \notin Stamps(undo) /\ generation \notin Stamps(redo)
  BY <1>1, <1>3
<1> QED BY <1>1, <1>2, <1>4 DEF Transaction

\* Opening a group puts nothing on the line.
LEMMA BeginGroupLine ==
  ASSUME IInv, LineInv, NEW normalizes \in BOOLEAN, BeginGroup(normalizes)
  PROVE  LineStep /\ LineInv'
<1>1. /\ mode = "ready" /\ group = NoGroup /\ mode' = "ready" /\ lastType' = "Other"
      /\ group'.depth = 1 /\ group'.gb = generation /\ group'.nb = crlf
      /\ group'.redo = redo /\ group'.text = text
      /\ UNCHANGED <<text, crlf, generation, saved, undo, aborting, disk>>
  BY DEF BeginGroup
<1>2. group' # NoGroup
  BY <1>1 DEF NoGroup
<1>3. Transaction = NoGroup /\ Transaction' = group' /\ Transaction' # NoGroup
  BY <1>1, <1>2, ReadyFacts DEF Transaction
<1>4. /\ past = Versions(undo, saved) /\ present = Current /\ future = Versions(redo, saved)
  BY <1>1, <1>3, AtRest
<1>5. /\ past' = Versions(Without(undo, generation), saved)
      /\ present' = Beginning(group', saved) /\ future' = Versions(redo, saved)
  BY <1>1, <1>3, InGroupNext
<1>6. Without(undo, generation) = undo
  BY <1>1, ReadyFacts, WithoutNone
<1>7. Beginning(group', saved) = Current
  BY <1>1 DEF Beginning, Current
<1>8. LineStays
  BY <1>1, <1>4, <1>5, <1>6, <1>7 DEF LineStays
<1>9. LineInv'
  BY <1>1 DEF LineInv, RunUnsaved, WalkLine
<1> QED BY <1>8, <1>9, StaysIsStep

\* A group that edited becomes one version; one that did not, none.
LEMMA EndGroupLine ==
  ASSUME IInv, Limited, LineInv, EndGroup
  PROVE  LineStep /\ LineInv'
<1>1. /\ mode = "ready" /\ group # NoGroup /\ mode' = "ready" /\ lastType' = "Other"
      /\ group' = NoGroup /\ Trim(undo, FALSE)
      /\ redo' = (IF generation = group.gb THEN group.redo ELSE redo)
      /\ crlf' = (IF group.normalizes /\ generation # group.gb THEN ~crlf ELSE crlf)
      /\ UNCHANGED <<text, generation, saved, aborting, disk>>
  BY DEF EndGroup, Ready
<1>2. /\ Transaction = group /\ Transaction # NoGroup /\ Transaction' = NoGroup
  BY <1>1, ReadyFacts DEF Transaction
<1>3. /\ past = Versions(Without(undo, group.gb), saved)
      /\ present = Beginning(group, saved) /\ future = Versions(group.redo, saved)
  BY <1>2, InGroup
<1>4. /\ past' = Versions(undo', saved) /\ present' = Current' /\ future' = Versions(redo', saved)
  BY <1>1, <1>2, AtRestNext
<1>5. LineInv'
  BY <1>1 DEF LineInv, RunUnsaved, WalkLine
<1>6. group \in OpenGroup /\ group.redo \in Seq(Entry) /\ crlf \in BOOLEAN /\ text \in Seq(Chars)
  BY <1>1, GroupFacts DEF IInv, TypeOK
<1>7. CASE generation = group.gb
  <2>1. text = group.text /\ crlf = group.nb
    BY <1>1, <1>6, <1>7 DEF IInv, GroupProgress, OpenGroup
  <2>2. Without(undo, group.gb) = undo
    BY <1>1, <1>7, ReadyFacts, WithoutNone
  <2>3. Fits(undo, Len(undo), group.redo)
    BY <1>1, <1>2, <1>7, ReadyFacts, NothingRecorded DEF Limited
  <2>4. undo' = undo
    BY <1>1, <1>6, <2>3, ReadyFacts, FittingStays
  <2>5. crlf' = crlf /\ redo' = group.redo
    BY <1>1, <1>7
  <2>6. Beginning(group, saved) = Current'
    BY <1>1, <1>7, <2>1, <2>5 DEF Beginning, Current
  <2>7. LineStays
    BY <1>1, <1>3, <1>4, <2>2, <2>4, <2>5, <2>6 DEF LineStays
  <2> QED BY <1>5, <2>7, StaysIsStep
<1>8. CASE generation # group.gb
  <2>1. generation # saved /\ Holds(undo, group)
    BY <1>1, <1>8 DEF IInv, GroupProgress
  <2>2. undo \in Seq(Entry) /\ Ascending(undo) /\ undo # <<>>
    BY <2>1, HoldsTop DEF IInv, TypeOK, HistoryOrdered
  <2>3. Versions(undo, saved) = Append(past, present)
    BY <1>3, <1>6, <2>1, <2>2, GroupVersion DEF Beginning
  <2>4. past' \in Line!Remembered(Append(past, present))
    BY <1>1, <1>4, <2>2, <2>3, TrimForgets
  <2>5. future' = <<>>
    <3>1. redo' = <<>>
      BY <1>1, <1>8 DEF Limited
    <3> QED BY <1>4, <3>1, NoVersions, EmptyStack
  <2>6. present' \in Line!Edited
    <3>1. crlf' \in BOOLEAN
      BY <1>1, <1>6
    <3>2. Current' = [content |-> Loaded(text, crlf'), saved |-> FALSE]
      BY <1>1, <2>1 DEF Current
    <3>3. Loaded(text, crlf') \in [text : Seq(Chars), crlf : BOOLEAN]
      BY <1>6, <3>1 DEF Loaded
    <3> QED BY <1>4, <3>2, <3>3 DEF Line!Edited
  <2>7. Line!Record
    BY <1>1, <2>4, <2>5, <2>6 DEF Line!Record
  <2> QED BY <1>5, <2>7 DEF LineStep, Line!Next
<1> QED BY <1>7, <1>8

\* An abort leaves the line where the group found it.
LEMMA AbortGroupLine ==
  ASSUME IInv, LineInv, AbortGroup
  PROVE  LineStep /\ LineInv'
<1>1. /\ mode = "ready" /\ group # NoGroup /\ lastType' = "Other" /\ group' = NoGroup
      /\ UNCHANGED <<text, crlf, generation, saved, undo, disk>>
  BY DEF AbortGroup
<1>2. /\ Transaction = group /\ Transaction # NoGroup /\ aborting = NoGroup
  BY <1>1, ReadyFacts DEF Transaction
<1>3. /\ past = Versions(Without(undo, group.gb), saved)
      /\ present = Beginning(group, saved) /\ future = Versions(group.redo, saved)
  BY <1>2, InGroup
<1>4. CASE generation = group.gb /\ redo' = group.redo /\ UNCHANGED <<mode, walk, aborting>>
  <2>1. Transaction' = NoGroup
    BY <1>1, <1>2, <1>4 DEF Transaction
  <2>2. /\ past' = Versions(undo, saved) /\ present' = Current' /\ future' = Versions(redo', saved)
    BY <1>1, <1>4, <2>1, AtRestNext
  <2>3. group \in OpenGroup
    BY <1>1 DEF IInv, TypeOK
  <2>4. text = group.text /\ crlf = group.nb
    BY <1>1, <1>4, <2>3 DEF IInv, GroupProgress, OpenGroup
  <2>5. Without(undo, group.gb) = undo
    BY <1>1, <1>4, ReadyFacts, WithoutNone
  <2>6. Beginning(group, saved) = Current'
    BY <1>1, <1>4, <2>4 DEF Beginning, Current
  <2>7. LineStays
    BY <1>1, <1>3, <1>4, <2>2, <2>5, <2>6 DEF LineStays
  <2>8. LineInv'
    BY <1>1, <1>4 DEF LineInv, RunUnsaved, WalkLine
  <2> QED BY <2>7, <2>8, StaysIsStep
<1>5. CASE mode' = "undo" /\ aborting' = group /\ UNCHANGED redo
  <2>1. Transaction' = group /\ Transaction' # NoGroup
    BY <1>1, <1>5 DEF Transaction
  <2>2. /\ past' = Versions(Without(undo, group.gb), saved)
        /\ present' = Beginning(group, saved) /\ future' = Versions(group.redo, saved)
    BY <1>1, <2>1, InGroupNext
  <2>3. LineStays
    BY <1>1, <1>3, <2>2 DEF LineStays
  <2>4. LineInv'
    BY <1>1, <1>5 DEF LineInv, RunUnsaved, WalkLine
  <2> QED BY <2>3, <2>4, StaysIsStep
<1> QED BY <1>4, <1>5 DEF AbortGroup

\* Undo and redo begin at the present version.
LEMMA StartWalkLine ==
  ASSUME IInv, LineInv, Undo \/ Redo
  PROVE  LineStep /\ LineInv'
<1>1. /\ mode = "ready" /\ group = NoGroup /\ lastType' = "Other"
      /\ UNCHANGED <<text, crlf, generation, saved, undo, redo, group, aborting, disk>>
  BY DEF Undo, Redo, StartWalk
<1>2. CASE UNCHANGED <<mode, walk>>
  BY <1>1, <1>2, NeutralLine, StaysIsStep
<1>3. CASE \/ undo # <<>> /\ mode' = "undo" /\ walk' = [from |-> generation, to |-> Top(undo).gb]
           \/ redo # <<>> /\ mode' = "redo" /\ walk' = [from |-> generation, to |-> Top(redo).gb]
  <2>1. Transaction = NoGroup /\ Transaction' = NoGroup /\ Current' = Current
    BY <1>1, ReadyFacts DEF Transaction, Current
  <2>2. generation' = walk'.from
    BY <1>1, <1>3
  <2>3. /\ past = Versions(undo, saved) /\ present = Current /\ future = Versions(redo, saved)
    BY <1>1, <2>1, AtRest
  <2>4. /\ past' = Versions(undo, saved) /\ present' = Current /\ future' = Versions(redo, saved)
    BY <1>1, <2>1, <2>2, AtRestNext
  <2>5. LineStays
    BY <1>1, <2>3, <2>4 DEF LineStays
  <2>6. WalkLine'
    <3>1. mode' = "undo" => WalkContinues(undo)' /\ walk'.from \notin Stamps(redo')
      BY <1>1, <1>3, <2>2, ReadyFacts DEF WalkContinues
    <3>2. mode' = "redo" => WalkContinues(redo)' /\ walk'.from \notin Stamps(undo')
      BY <1>1, <1>3, <2>2, ReadyFacts DEF WalkContinues
    <3> QED BY <2>2, <3>1, <3>2 DEF WalkLine, MovesFrom
  <2> QED BY <1>1, <2>5, <2>6, StaysIsStep DEF LineInv, RunUnsaved
<1> QED BY <1>2, <1>3 DEF Undo, Redo, StartWalk

\* What moving an entry does to the versions of the stack it leaves and the one it joins.
LEMMA MoveVersions ==
  ASSUME NEW from \in Seq(Entry), NEW into \in Seq(Entry), WalkContinues(from),
         MovesFrom(from, into), NEW f \in Entry, f.gb = walk.from,
         generation = walk.from => VersionOf(f, saved) = Current
  PROVE  /\ Versions(from, saved)
              = Versions(Pop(from), saved)
                  \o (IF WalkContinues(Pop(from)) THEN <<>> ELSE <<VersionOf(Top(from), saved)>>)
         /\ generation = walk.from =>
              /\ Pop(Versions(Append(into, f), saved)) = Versions(into, saved)
              /\ Top(Versions(Append(into, f), saved)) = Current
         /\ generation # walk.from =>
              Versions(Append(into, f), saved) = Versions(into, saved)
         /\ Append(into, f) # <<>> /\ Top(Append(into, f)).gb = walk.from
<1>1. from # <<>> /\ Top(from).gb = walk.to
  BY DEF WalkContinues
<1>2. PICK p \in Seq(Entry) : p = Pop(from)
  BY <1>1, PopFacts
<1>3. Versions(from, saved)
        = Versions(p, saved) \o (IF WalkContinues(p) THEN <<>> ELSE <<VersionOf(Top(from), saved)>>)
  <2>1. PICK v \in Seq(Line!Version) : v = Versions(p, saved)
    BY VersionsType
  <2>2. WalkContinues(p) <=> p # <<>> /\ Top(p).gb = Top(from).gb
    BY <1>1 DEF WalkContinues
  <2>3. Versions(from, saved)
          = IF WalkContinues(p) THEN v ELSE Append(v, VersionOf(Top(from), saved))
    BY <1>1, <1>2, <2>1, <2>2, PopVersions
  <2>4. PICK c : c = VersionOf(Top(from), saved)
    OBVIOUS
  <2>5. v \o <<>> = v /\ v \o <<c>> = Append(v, c)
    OBVIOUS
  <2> QED BY <2>1, <2>3, <2>4, <2>5
<1>4. Append(into, f) # <<>> /\ Top(Append(into, f)).gb = walk.from
  BY DEF Top
<1>5. ASSUME generation = walk.from
      PROVE  /\ Pop(Versions(Append(into, f), saved)) = Versions(into, saved)
             /\ Top(Versions(Append(into, f), saved)) = Current
  <2>1. walk.from \notin Stamps(into)
    BY <1>5 DEF MovesFrom
  <2>2. into = <<>> \/ Top(into).gb # f.gb
    BY <2>1, StampFacts
  <2>3. PICK v \in Seq(Line!Version) : v = Versions(into, saved)
    BY VersionsType
  <2>4. Versions(Append(into, f), saved) = Append(v, Current)
    BY <1>5, <2>2, <2>3, PushVersion
  <2>5. Pop(Append(v, Current)) = v /\ Top(Append(v, Current)) = Current
    BY DEF Pop, Top
  <2> QED BY <2>3, <2>4, <2>5
<1>6. ASSUME generation # walk.from
      PROVE  Versions(Append(into, f), saved) = Versions(into, saved)
  BY <1>6, JoinVersion DEF MovesFrom
<1> QED BY <1>2, <1>3, <1>4, <1>5, <1>6

\* The entry a walk turns is the version it comes from, and the text it yields the one it
\* records.
LEMMA TurnedVersion ==
  ASSUME IInv, NEW s, s \in Seq(Entry), s # <<>>, Reversible(s, text), WalkEntry(Top(s)),
         NEW f, f = Turned(Top(s), text, walk.from, crlf)
  PROVE  /\ f \in Entry /\ f.gb = walk.from
         /\ generation = walk.from => VersionOf(f, saved) = Current
         /\ Current' = VersionOf(Top(s), saved)
<1>1. PICK e \in Entry : e = Top(s)
  BY PopFacts
<1>2. Undoes(text, e) /\ text \in Seq(Chars) /\ walk.from \in Nat /\ crlf \in BOOLEAN
  BY <1>1, PopReversible DEF IInv, TypeOK
<1>3. f \in Entry /\ f.gb = walk.from /\ f.nb = crlf /\ f.other = text
      /\ Reversed(text, e) = e.other
  BY <1>1, <1>2, TurnedUndoes
<1>4. text' = e.other /\ generation' = e.gb /\ crlf' = e.nb /\ saved' = saved
  BY <1>1, <1>3 DEF WalkEntry
<1>5. Current' = VersionOf(e, saved)
  BY <1>4 DEF Current, VersionOf
<1>6. generation = walk.from => VersionOf(f, saved) = Current
  BY <1>3 DEF Current, VersionOf
<1> QED BY <1>1, <1>3, <1>5, <1>6

\* A walk belongs to no open group.
LEMMA WalkFacts ==
  ASSUME IInv, mode # "ready"
  PROVE  /\ group = NoGroup /\ Transaction = aborting
         /\ undo \in Seq(Entry) /\ redo \in Seq(Entry)
         /\ Reversible(undo, text) /\ Reversible(redo, text)
         /\ walk.from \in Nat /\ walk.to \in Nat /\ walk.from # walk.to
<1>1. group = NoGroup
  BY DEF IInv, GroupProgress
<1>2. /\ undo \in Seq(Entry) /\ redo \in Seq(Entry) /\ walk.from \in Nat /\ walk.to \in Nat
      /\ mode \in {"ready", "undo", "redo"}
  BY DEF IInv, TypeOK
<1>3. Reversible(undo, text) /\ Reversible(redo, text)
  BY DEF IInv, HistoryReversible
<1>4. walk.from # walk.to
  BY <1>2 DEF IInv, UndoProgress, RedoProgress
<1> QED BY <1>1, <1>2, <1>3, <1>4 DEF Transaction

\* Within a walk the line waits: what leaves one stack joins the other.
LEMMA UndoEntryLine ==
  ASSUME IInv, LineInv, UndoEntry
  PROVE  LineStep /\ LineInv'
<1>1. /\ mode = "undo" /\ mode' = "undo" /\ WalkContinues(undo) /\ undo # <<>>
      /\ Top(undo).gb = walk.to /\ generation' = walk.to /\ undo' = Pop(undo)
      /\ redo' = Append(redo, Turned(Top(undo), text, walk.from, crlf))
      /\ WalkEntry(Top(undo))
      /\ UNCHANGED <<saved, lastType, group, walk, aborting, disk>>
  BY DEF UndoEntry, WalkEntry, WalkContinues
<1>2. PICK f : f = Turned(Top(undo), text, walk.from, crlf)
  OBVIOUS
<1>3. /\ f \in Entry /\ f.gb = walk.from
      /\ generation = walk.from => VersionOf(f, saved) = Current
      /\ Current' = VersionOf(Top(undo), saved)
  BY <1>1, <1>2, WalkFacts, TurnedVersion
<1>4. CASE aborting # NoGroup
  <2>1. /\ Transaction = aborting /\ Transaction' = aborting
        /\ Transaction # NoGroup /\ Transaction' # NoGroup
    BY <1>1, <1>4 DEF Transaction
  <2>2. walk.to = aborting.gb
    BY <1>4 DEF IInv, AbortProgress
  <2>3. Without(Pop(undo), aborting.gb) = Without(undo, aborting.gb)
    BY <1>1, <2>2, WalkFacts, WithoutPop
  <2>4. Beginning(aborting, saved') = Beginning(aborting, saved)
    BY <1>1 DEF Beginning
  <2>5. /\ past = Versions(Without(undo, aborting.gb), saved)
        /\ present = Beginning(aborting, saved) /\ future = Versions(aborting.redo, saved)
    BY <2>1, InGroup
  <2>6. /\ past' = Versions(Without(Pop(undo), aborting.gb), saved)
        /\ present' = Beginning(aborting, saved) /\ future' = Versions(aborting.redo, saved)
    BY <1>1, <2>1, <2>4, InGroupNext
  <2>7. LineStays
    BY <1>1, <2>3, <2>5, <2>6 DEF LineStays
  <2>8. LineInv'
    BY <1>1, <1>4 DEF LineInv, RunUnsaved, WalkLine
  <2> QED BY <2>7, <2>8, StaysIsStep
<1>5. CASE aborting = NoGroup
  <2>1. MovesFrom(undo, redo)
    BY <1>1, <1>5 DEF LineInv, WalkLine
  <2>2. /\ Versions(undo, saved) = Versions(undo', saved) \o AfterWalk(undo)'
        /\ generation = walk.from =>
             Pop(Versions(redo', saved)) = Versions(redo, saved)
               /\ Top(Versions(redo', saved)) = Current
        /\ generation # walk.from => Versions(redo', saved) = Versions(redo, saved)
        /\ redo' # <<>> /\ Top(redo').gb = walk.from
    <3>1. AfterWalk(undo)'
            = (IF WalkContinues(Pop(undo)) THEN <<>> ELSE <<VersionOf(Top(undo), saved)>>)
      BY <1>1, <1>3 DEF AfterWalk, WalkContinues
    <3>2. redo' = Append(redo, f)
      BY <1>1, <1>2
    <3> QED BY <1>1, <1>3, <2>1, <3>1, <3>2, WalkFacts, MoveVersions
  <2>3. Transaction = NoGroup /\ Transaction' = NoGroup
    BY <1>1, <1>5, WalkFacts DEF Transaction
  <2>4. Moved' /\ (Moved <=> generation # walk.from)
    BY <1>1, WalkFacts DEF Moved
  <2>5. /\ past' = Versions(undo', saved) \o AfterWalk(undo)'
        /\ future' = Pop(Versions(redo', saved)) /\ present' = Top(Versions(redo', saved))
    BY <1>1, <2>3, <2>4 DEF past, present, future
  <2>6. past = Versions(undo, saved)
    <3>1. CASE Moved
      <4>1. AfterWalk(undo) = <<>>
        BY <1>1 DEF AfterWalk
      <4>2. past = Versions(undo, saved) \o <<>>
        BY <1>1, <2>3, <3>1, <4>1 DEF past
      <4>3. PICK v \in Seq(Line!Version) : v = Versions(undo, saved)
        BY <1>1, WalkFacts, VersionsType
      <4> QED BY <4>2, <4>3
    <3> QED BY <1>1, <2>3, <3>1 DEF past
  <2>7. present' = present /\ future' = future
    <3>1. CASE Moved
      BY <1>1, <2>2, <2>3, <2>4, <2>5, <3>1 DEF present, future
    <3>2. CASE ~Moved
      BY <1>1, <2>2, <2>3, <2>4, <2>5, <3>2 DEF present, future
    <3> QED BY <3>1, <3>2
  <2>8. LineStays
    BY <1>1, <2>2, <2>5, <2>6, <2>7 DEF LineStays
  <2>9. LineInv'
    BY <1>1, <2>2, WalkFacts DEF LineInv, RunUnsaved, WalkLine, MovesFrom
  <2> QED BY <2>8, <2>9, StaysIsStep
<1> QED BY <1>4, <1>5

\* The same of redo.
LEMMA RedoEntryLine ==
  ASSUME IInv, LineInv, RedoEntry
  PROVE  LineStep /\ LineInv'
<1>1. /\ mode = "redo" /\ mode' = "redo" /\ WalkContinues(redo) /\ redo # <<>>
      /\ Top(redo).gb = walk.to /\ generation' = walk.to /\ redo' = Pop(redo)
      /\ undo' = Append(undo, Turned(Top(redo), text, walk.from, crlf))
      /\ WalkEntry(Top(redo))
      /\ UNCHANGED <<saved, lastType, group, walk, aborting, disk>>
  BY DEF RedoEntry, WalkEntry, WalkContinues
<1>2. PICK f : f = Turned(Top(redo), text, walk.from, crlf)
  OBVIOUS
<1>3. /\ f \in Entry /\ f.gb = walk.from
      /\ generation = walk.from => VersionOf(f, saved) = Current
      /\ Current' = VersionOf(Top(redo), saved)
  BY <1>1, <1>2, WalkFacts, TurnedVersion
<1>4. aborting = NoGroup
  BY <1>1 DEF IInv, AbortProgress
<1>5. MovesFrom(redo, undo)
  BY <1>1 DEF LineInv, WalkLine
<1>6. /\ Versions(redo, saved) = Versions(redo', saved) \o AfterWalk(redo)'
      /\ generation = walk.from =>
           Pop(Versions(undo', saved)) = Versions(undo, saved)
             /\ Top(Versions(undo', saved)) = Current
      /\ generation # walk.from => Versions(undo', saved) = Versions(undo, saved)
      /\ undo' # <<>> /\ Top(undo').gb = walk.from
  <2>1. AfterWalk(redo)'
          = (IF WalkContinues(Pop(redo)) THEN <<>> ELSE <<VersionOf(Top(redo), saved)>>)
    BY <1>1, <1>3 DEF AfterWalk, WalkContinues
  <2>2. undo' = Append(undo, f)
    BY <1>1, <1>2
  <2> QED BY <1>1, <1>3, <1>5, <2>1, <2>2, WalkFacts, MoveVersions
<1>7. Transaction = NoGroup /\ Transaction' = NoGroup
  BY <1>1, <1>4, WalkFacts DEF Transaction
<1>8. Moved' /\ (Moved <=> generation # walk.from)
  BY <1>1, WalkFacts DEF Moved
<1>9. /\ future' = Versions(redo', saved) \o AfterWalk(redo)'
      /\ past' = Pop(Versions(undo', saved)) /\ present' = Top(Versions(undo', saved))
  BY <1>1, <1>7, <1>8 DEF past, present, future
<1>10. future = Versions(redo, saved)
  <2>1. CASE Moved
    <3>1. AfterWalk(redo) = <<>>
      BY <1>1 DEF AfterWalk
    <3>2. future = Versions(redo, saved) \o <<>>
      BY <1>1, <1>7, <2>1, <3>1 DEF future
    <3>3. PICK v \in Seq(Line!Version) : v = Versions(redo, saved)
      BY <1>1, WalkFacts, VersionsType
    <3> QED BY <3>2, <3>3
  <2> QED BY <1>1, <1>7, <2>1 DEF future
<1>11. present' = present /\ past' = past
  <2>1. CASE Moved
    BY <1>1, <1>6, <1>7, <1>8, <1>9, <2>1 DEF present, past
  <2>2. CASE ~Moved
    BY <1>1, <1>6, <1>7, <1>8, <1>9, <2>2 DEF present, past
  <2> QED BY <2>1, <2>2
<1>12. LineStays
  BY <1>1, <1>6, <1>9, <1>10, <1>11 DEF LineStays
<1>13. LineInv'
  BY <1>1, <1>6, WalkFacts DEF LineInv, RunUnsaved, WalkLine, MovesFrom
<1> QED BY <1>12, <1>13, StaysIsStep

\* The end of a walk is one undo or redo of the line, that of an abort nothing.
LEMMA EndWalkLine ==
  ASSUME IInv, LineInv, EndWalk
  PROVE  LineStep /\ LineInv'
<1>1. /\ mode # "ready" /\ mode' = "ready" /\ aborting' = NoGroup
      /\ mode = "undo" => ~WalkContinues(undo)
      /\ mode = "redo" => ~WalkContinues(redo)
      /\ mode \in {"undo", "redo"}
      /\ redo' = (IF aborting = NoGroup THEN redo ELSE aborting.redo)
      /\ UNCHANGED <<text, crlf, generation, saved, undo, lastType, group, disk>>
  BY DEF EndWalk
<1>2. LineInv'
  BY <1>1 DEF LineInv, RunUnsaved, WalkLine
<1>3. Transaction' = NoGroup /\ Transaction = aborting
  BY <1>1, WalkFacts DEF Transaction
<1>4. Current' = Current
  BY <1>1 DEF Current
<1>5. /\ past' = Versions(undo, saved) /\ present' = Current /\ future' = Versions(redo', saved)
  BY <1>1, <1>3, <1>4, AtRestNext
<1>6. CASE aborting # NoGroup
  <2>1. mode = "undo" /\ walk.to = aborting.gb /\ aborting \in OpenGroup
    BY <1>6 DEF IInv, TypeOK, AbortProgress
  <2>2. ~Holds(undo, aborting)
    BY <1>1, <2>1, WalkFacts, HoldsTop DEF WalkContinues
  <2>3. generation = aborting.gb /\ text = aborting.text /\ crlf = aborting.nb
    BY <1>6, <2>2 DEF IInv, AbortProgress
  <2>4. aborting.gb \notin Stamps(undo)
    <3>1. CASE undo = <<>>
      BY <3>1, EmptyStack
    <3>2. CASE undo # <<>>
      <4>1. Top(undo).gb # walk.to
        BY <1>1, <2>1, <3>2 DEF WalkContinues
      <4>2. /\ Top(undo).gb \in Stamps(undo) /\ Stamps(undo) \subseteq Nat
        BY <1>1, <3>2, WalkFacts, StampFacts
      <4>3. \A g \in Stamps(undo) : g <= walk.to
        BY <2>1 DEF IInv, UndoProgress
      <4>4. \A g \in Stamps(undo) : g <= Top(undo).gb
        BY <1>1, <3>2, WalkFacts, AscendingTop DEF IInv, HistoryOrdered
      <4> QED BY <1>1, <2>1, <4>1, <4>2, <4>3, <4>4, WalkFacts
    <3> QED BY <3>1, <3>2
  <2>5. Without(undo, aborting.gb) = undo
    BY <1>1, <2>4, WalkFacts, WithoutNone
  <2>6. /\ past = Versions(undo, saved) /\ present = Beginning(aborting, saved)
        /\ future = Versions(aborting.redo, saved)
    BY <1>3, <1>6, <2>5, InGroup
  <2>7. Beginning(aborting, saved) = Current
    BY <2>3 DEF Beginning, Current
  <2>8. LineStays
    BY <1>1, <1>5, <1>6, <2>6, <2>7 DEF LineStays
  <2> QED BY <1>2, <2>8, StaysIsStep
<1>7. CASE aborting = NoGroup /\ mode = "undo"
  <2>1. MovesFrom(undo, redo)
    BY <1>7 DEF LineInv, WalkLine
  <2>2. generation # walk.from /\ redo # <<>>
    BY <1>1, <1>7, <2>1 DEF MovesFrom
  <2>3. AfterWalk(undo) = <<Current>>
    BY <1>1, <1>7 DEF AfterWalk
  <2>4. /\ past = Versions(undo, saved) \o <<Current>>
        /\ present = Top(Versions(redo, saved)) /\ future = Pop(Versions(redo, saved))
    BY <1>3, <1>7, <2>2, <2>3 DEF past, present, future, Moved
  <2>5. PICK v \in Seq(Line!Version) : v = Versions(undo, saved)
    BY <1>1, WalkFacts, VersionsType
  <2>6. PICK w \in Seq(Line!Version) : w = Versions(redo, saved) /\ w # <<>>
    <3>1. /\ Versions(redo, saved) \in Seq(Line!Version)
          /\ Len(Versions(redo, saved)) > 0
      BY <1>1, <2>2, WalkFacts, VersionsType, NoVersions
    <3> QED BY <3>1
  <2>7. v \o <<Current>> = Append(v, Current)
    OBVIOUS
  <2>8. Append(Pop(w), Top(w)) = w
    BY <2>6 DEF Pop, Top
  <2>9. redo' = redo /\ disk' = disk
    BY <1>1, <1>7
  <2>10. Line!Undo
    BY <1>5, <2>4, <2>5, <2>6, <2>7, <2>8, <2>9 DEF Line!Undo
  <2> QED BY <1>2, <2>10 DEF LineStep, Line!Next
<1>8. CASE aborting = NoGroup /\ mode = "redo"
  <2>1. MovesFrom(redo, undo)
    BY <1>8 DEF LineInv, WalkLine
  <2>2. generation # walk.from /\ undo # <<>>
    BY <1>1, <1>8, <2>1 DEF MovesFrom
  <2>3. AfterWalk(redo) = <<Current>>
    BY <1>1, <1>8 DEF AfterWalk
  <2>4. /\ future = Versions(redo, saved) \o <<Current>>
        /\ present = Top(Versions(undo, saved)) /\ past = Pop(Versions(undo, saved))
    BY <1>3, <1>8, <2>2, <2>3 DEF past, present, future, Moved
  <2>5. PICK v \in Seq(Line!Version) : v = Versions(redo, saved)
    BY <1>1, WalkFacts, VersionsType
  <2>6. PICK w \in Seq(Line!Version) : w = Versions(undo, saved) /\ w # <<>>
    <3>1. /\ Versions(undo, saved) \in Seq(Line!Version)
          /\ Len(Versions(undo, saved)) > 0
      BY <1>1, <2>2, WalkFacts, VersionsType, NoVersions
    <3> QED BY <3>1
  <2>7. v \o <<Current>> = Append(v, Current)
    OBVIOUS
  <2>8. Append(Pop(w), Top(w)) = w
    BY <2>6 DEF Pop, Top
  <2>9. redo' = redo /\ disk' = disk
    BY <1>1, <1>8
  <2>10. Line!Redo
    BY <1>5, <2>4, <2>5, <2>6, <2>7, <2>8, <2>9 DEF Line!Redo
  <2> QED BY <1>2, <2>10 DEF LineStep, Line!Next
<1> QED BY <1>1, <1>6, <1>7, <1>8

\* Saving moves the mark to the present version, mark_as_dirty takes it away.
LEMMA SaveLine ==
  ASSUME IInv, LineInv, Save \/ MarkDirty
  PROVE  LineStep /\ LineInv'
<1>1. /\ mode = "ready" /\ group = NoGroup /\ mode' = "ready"
      /\ UNCHANGED <<text, crlf, generation, undo, redo, group, aborting>>
  BY DEF Save, MarkDirty, Idle
<1>2. /\ saved' \notin Stamps(undo) /\ saved' \notin Stamps(redo)
      /\ Transaction = NoGroup /\ Transaction' = NoGroup
      /\ undo \in Seq(Entry) /\ redo \in Seq(Entry)
  <2>1. saved' = generation \/ saved' = -1
    BY DEF Save, MarkDirty, Unsaved
  <2>2. -1 \notin Stamps(undo) /\ -1 \notin Stamps(redo)
    BY <1>1, ReadyFacts, StampFacts
  <2> QED BY <1>1, <2>1, <2>2, ReadyFacts DEF Transaction
<1>3. /\ past = Versions(undo, saved) /\ present = Current /\ future = Versions(redo, saved)
  BY <1>1, <1>2, AtRest
<1>4. /\ past' = Versions(undo, saved') /\ present' = Current' /\ future' = Versions(redo, saved')
  BY <1>1, <1>2, AtRestNext
<1>5. past' = Line!Unmarked(past) /\ future' = Line!Unmarked(future)
  BY <1>2, <1>3, <1>4, UnmarkedVersions
<1>6. CASE Save
  <2>1. saved' = generation /\ disk' = Loaded(text, crlf) /\ lastType' = "Other"
    BY <1>6 DEF Save
  <2>2. present.content = Loaded(text, crlf)
    BY <1>3 DEF Current
  <2>3. present' = Line!Marked(present.content)
    BY <1>1, <1>4, <2>1, <2>2 DEF Current, Line!Marked
  <2>4. Line!Save
    BY <1>5, <2>1, <2>2, <2>3 DEF Line!Save
  <2>5. LineInv'
    BY <1>1, <2>1 DEF LineInv, RunUnsaved, WalkLine
  <2> QED BY <2>4, <2>5 DEF LineStep, Line!Next
<1>7. CASE MarkDirty
  <2>1. saved' = -1 /\ disk' = disk /\ generation # -1
    BY <1>1, <1>7, ReadyFacts DEF MarkDirty, Unsaved
  <2>2. present.content = Loaded(text, crlf)
    BY <1>3 DEF Current
  <2>3. present' = Line!Fresh(present.content)
    BY <1>1, <1>4, <2>1, <2>2 DEF Current, Line!Fresh
  <2>4. Line!Distrust
    BY <1>5, <2>1, <2>3 DEF Line!Distrust
  <2>5. LineInv'
    BY <1>1, <2>1 DEF LineInv, RunUnsaved, WalkLine
  <2> QED BY <2>4, <2>5 DEF LineStep, Line!Next
<1> QED BY <1>6, <1>7

\* A file that was read again is a line of one version.
LEMMA ReloadLine ==
  ASSUME IInv, LineInv, NEW file \in Loads, Reload(file)
  PROVE  LineStep /\ LineInv'
<1>1. /\ mode = "ready" /\ group = NoGroup /\ mode' = "ready" /\ lastType' = "Other"
      /\ text' = file.text /\ crlf' = file.crlf /\ generation' = saved'
      /\ undo' = <<>> /\ redo' = <<>> /\ disk' = file
      /\ UNCHANGED <<group, aborting>>
  BY DEF Reload, Idle
<1>2. Transaction' = NoGroup
  BY <1>1, ReadyFacts DEF Transaction
<1>3. /\ past' = Versions(<<>>, saved') /\ present' = Current' /\ future' = Versions(<<>>, saved')
  BY <1>1, <1>2, AtRestNext
<1>4. past' = <<>> /\ future' = <<>>
  BY <1>3, EmptyStack, NoVersions
<1>5. file \in [text : Seq(Chars), crlf : BOOLEAN] /\ Loaded(file.text, file.crlf) = file
  BY ConstantsAssumption DEF Loaded
<1>6. Line!Load
  BY <1>1, <1>3, <1>4, <1>5 DEF Line!Load, Line!Marked, Current
<1>7. LineInv'
  BY <1>1 DEF LineInv, RunUnsaved, WalkLine
<1> QED BY <1>6, <1>7 DEF LineStep, Line!Next

\* The edits are sessions, or refused.
LEMMA WriteLine ==
  ASSUME IInv, LineInv, NEW type, NEW beg \in Nat, NEW n \in Nat,
         NEW ins \in Insertion, Write(type, beg, n, ins)
  PROVE  LineStep /\ LineInv'
<1> DEFINE add == ins \o FinalNewline(beg, n, ins)
<1>1. ins \in Seq(Chars)
  <2>1. PICK k \in 1..MaxInsert : ins \in [1..k -> Chars]
    BY DEF Insertion
  <2> QED BY <2>1, ConstantsAssumption
<1>2. FinalNewline(beg, n, ins) \in Seq(Chars)
  BY ConstantsAssumption DEF FinalNewline
<1>3. add \in Seq(Chars) /\ beg + Len(ins) \in Nat
  BY <1>1, <1>2
<1>4. /\ Ready /\ type \in HistoryType /\ beg + n <= Len(text) /\ crlf' \in BOOLEAN
      /\ UNCHANGED <<crlf, saved, group, mode, walk, aborting, disk>>
  BY DEF IInv, TypeOK, Write, HistoryType
<1>5. \/ Edit(type, beg, n, add, beg + Len(ins))
      \/ UNCHANGED <<text, undo, redo, generation, lastType>>
  BY DEF Write
<1> HIDE DEF add
<1>6. CASE Edit(type, beg, n, add, beg + Len(ins))
  BY <1>3, <1>4, <1>6, EditLine
<1>7. CASE UNCHANGED <<text, undo, redo, generation, lastType>>
  BY <1>4, <1>7, NeutralLine, StaysIsStep
<1> QED BY <1>5, <1>6, <1>7

\* Deleting is a session.
LEMMA DeleteLine ==
  ASSUME IInv, LineInv, NEW beg \in Nat, NEW n \in Nat, Delete(beg, n)
  PROVE  LineStep /\ LineInv'
<1>1. /\ Ready /\ "Delete" \in HistoryType /\ beg + n <= Len(text)
      /\ <<>> \in Seq(Chars) /\ crlf' \in BOOLEAN
      /\ UNCHANGED <<saved, group, mode, walk, aborting, disk>>
      /\ Edit("Delete", beg, n, <<>>, beg)
  BY DEF IInv, TypeOK, Delete, HistoryType
<1> QED BY <1>1, EditLine

\* Changing the kind of line endings is a session.
LEMMA FlipNewlinesLine ==
  ASSUME IInv, LineInv, FlipNewlines
  PROVE  LineStep /\ LineInv'
<1>1. /\ Ready /\ "Other" \in HistoryType /\ 0 + 0 <= Len(text)
      /\ <<>> \in Seq(Chars) /\ crlf' \in BOOLEAN
      /\ UNCHANGED <<saved, group, mode, walk, aborting, disk>>
      /\ Edit("Other", 0, 0, <<>>, 0)
  BY DEF IInv, TypeOK, FlipNewlines, HistoryType
<1> QED BY <1>1, EditLine

\* One step per action.
LEMMA NextLine == IInv /\ Limited /\ LineInv /\ [Next]_vars => LineStep /\ LineInv'
<1> SUFFICES ASSUME IInv, Limited, LineInv, [Next]_vars
             PROVE  LineStep /\ LineInv'
  OBVIOUS
<1>1. /\ text \in Seq(Chars) /\ group \in OpenGroup \cup {NoGroup} /\ Len(text) \in Nat
  BY DEF IInv, TypeOK
<1>2. ASSUME NEW type \in {"Other", "Write"}, NEW beg \in 0..Len(text),
             NEW ins \in Insertion, NEW n \in 0..Len(text) - beg,
             Write(type, beg, n, ins)
      PROVE  LineStep /\ LineInv'
  <2>1. beg \in Nat /\ n \in Nat
    BY <1>1
  <2> QED BY <1>2, <2>1, WriteLine
<1>3. ASSUME NEW beg \in 0..Len(text), NEW n \in 1..Len(text) - beg,
             Delete(beg, n)
      PROVE  LineStep /\ LineInv'
  <2>1. beg \in Nat /\ n \in Nat
    BY <1>1
  <2> QED BY <1>3, <2>1, DeleteLine
<1>4. CASE MoveCursor
  BY <1>4, NeutralLine, StaysIsStep DEF MoveCursor
<1>5. CASE FlipNewlines
  BY <1>5, FlipNewlinesLine
<1>6. CASE ReportCapacityError
  BY <1>6, NeutralLine, StaysIsStep DEF ReportCapacityError
<1>7. ASSUME NEW normalizes \in BOOLEAN, BeginGroup(normalizes)
      PROVE  LineStep /\ LineInv'
  BY <1>7, BeginGroupLine
<1>8. CASE NestGroup
  <2>1. PICK d : d = group.depth + 1
    OBVIOUS
  <2>2. group # NoGroup /\ d \in Nat \ {0}
    BY <1>1, <1>8, <2>1, GroupFacts DEF NestGroup
  <2> QED BY <1>8, <2>1, <2>2, DepthLine, StaysIsStep DEF NestGroup, Ready
<1>9. CASE UnnestGroup
  <2>1. PICK d : d = group.depth - 1
    OBVIOUS
  <2>2. group # NoGroup /\ d \in Nat \ {0}
    BY <1>1, <1>9, <2>1, GroupFacts DEF UnnestGroup
  <2> QED BY <1>9, <2>1, <2>2, DepthLine, StaysIsStep DEF UnnestGroup
<1>10. CASE EndGroup
  BY <1>10, EndGroupLine
<1>11. CASE AbortGroup
  BY <1>11, AbortGroupLine
<1>12. CASE Undo \/ Redo
  BY <1>12, StartWalkLine
<1>13. CASE UndoEntry
  BY <1>13, UndoEntryLine
<1>14. CASE RedoEntry
  BY <1>14, RedoEntryLine
<1>15. CASE EndWalk
  BY <1>15, EndWalkLine
<1>16. CASE Save \/ MarkDirty
  BY <1>16, SaveLine
<1>17. ASSUME NEW file \in Loads, Reload(file)
       PROVE  LineStep /\ LineInv'
  BY <1>17, ReloadLine
<1>18. CASE UNCHANGED vars
  BY <1>18, NeutralLine, StaysIsStep DEF vars
<1> QED
  BY <1>2, <1>3, <1>4, <1>5, <1>6, <1>7, <1>8, <1>9, <1>10, <1>11, <1>12,
     <1>13, <1>14, <1>15, <1>16, <1>17, <1>18 DEF Next

\* A new document is a line of one version, the one on disk.
LEMMA InitLine == Init => Line!Init /\ LineInv
<1> SUFFICES ASSUME Init PROVE Line!Init /\ LineInv
  OBVIOUS
<1>1. LineInv
  BY DEF Init, LineInv, RunUnsaved, WalkLine
<1>2. Transaction = NoGroup
  BY DEF Init, Transaction
<1>3. /\ past = Versions(<<>>, saved) /\ present = Current /\ future = Versions(<<>>, saved)
  BY <1>2, AtRest DEF Init
<1>4. past = <<>> /\ future = <<>>
  BY <1>3, EmptyStack, NoVersions
<1>5. disk = Loaded(text, crlf) /\ disk \in [text : Seq(Chars), crlf : BOOLEAN]
  BY InitIInv DEF Init, IInv, TypeOK
<1>6. present = Line!Marked(disk)
  BY <1>3, <1>5 DEF Init, Current, Line!Marked
<1> QED BY <1>1, <1>4, <1>5, <1>6 DEF Line!Init

\* Whatever is typed, run as a macro, aborted, undone, redone, trimmed, saved
\* or reloaded, the history behaves as a line of versions: undo and redo move
\* along it by whole versions, byte for byte, with the saved mark on the one
\* that is on disk (TextBuffer::undo_redo, edit_begin, edit_end_grouping,
\* abort_undo_group, trim_history, mark_saved).
THEOREM HistoryIsALine == Spec => ImplementsVersionLine
<1>1. Init => (IInv /\ Limited /\ LineInv) /\ Line!Init
  BY InitIInv, InitLimited, InitLine
<1>2. (IInv /\ Limited /\ LineInv) /\ [Next]_vars => (IInv /\ Limited /\ LineInv)'
  BY NextIInv, NextLimited, NextLine
<1>3. (IInv /\ Limited /\ LineInv) /\ [Next]_vars => [Line!Next]_(Line!line)
  BY NextLine DEF LineStep
<1> QED BY <1>1, <1>2, <1>3, PTL DEF Spec, ImplementsVersionLine, Line!Spec
=============================================================================
