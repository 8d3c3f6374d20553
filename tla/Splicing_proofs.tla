---------------------------- MODULE Splicing_proofs ----------------------------
(***************************************************************************)
(* Lemmas about replacing a range of a text and putting it back, for texts *)
(* over any set of characters; and induction up to a number, for what is   *)
(* defined by recursion over a text or a list.                             *)
(***************************************************************************)
EXTENDS Splicing, SequenceTheorems, WellFoundedInduction, TLAPS

\* The characters of a spliced text: the head of t, the insertion, the tail.
IsSplice(u, S, t, off, n, ins) ==
  /\ u \in Seq(S)
  /\ Len(u) = Len(t) - n + Len(ins)
  /\ \A i \in 1..Len(t) - n + Len(ins) :
       u[i] = IF i <= off THEN t[i]
              ELSE IF i <= off + Len(ins) THEN ins[i - off]
              ELSE t[i - Len(ins) + n]

\* A splice is what IsSplice says.
LEMMA SpliceProperties ==
  ASSUME NEW S, NEW t \in Seq(S), NEW off \in Nat, NEW n \in Nat,
         off + n <= Len(t), NEW ins \in Seq(S)
  PROVE  IsSplice(Splice(t, off, n, ins), S, t, off, n, ins)
<1> DEFINE head == SubSeq(t, 1, off)
           tail == SubSeq(t, off + n + 1, Len(t))
<1>1. /\ head \in Seq(S) /\ Len(head) = off
      /\ \A i \in 1..off : head[i] = t[i]
  BY SubSeqProperties
<1>2. /\ tail \in Seq(S) /\ Len(tail) = Len(t) - off - n
      /\ \A i \in 1..Len(t) - off - n : tail[i] = t[off + n + i]
  BY SubSeqProperties
<1> HIDE DEF head, tail
<1>3. /\ head \o ins \in Seq(S) /\ Len(head \o ins) = off + Len(ins)
      /\ \A i \in 1..off + Len(ins) :
           (head \o ins)[i] = IF i <= off THEN t[i] ELSE ins[i - off]
  <2>1. /\ head \o ins \in Seq(S)
        /\ Len(head \o ins) = Len(head) + Len(ins)
        /\ \A i \in 1..Len(head) + Len(ins) :
             (head \o ins)[i] = IF i <= Len(head) THEN head[i]
                                ELSE ins[i - Len(head)]
    <3>1. head \in Seq(S)
      BY <1>1
    <3> QED BY <3>1, ConcatProperties, Zenon
  <2> QED BY <1>1, <2>1
<1>4. /\ (head \o ins) \o tail \in Seq(S)
      /\ Len((head \o ins) \o tail) = Len(t) - n + Len(ins)
      /\ \A i \in 1..Len(t) - n + Len(ins) :
           ((head \o ins) \o tail)[i] =
             IF i <= off + Len(ins) THEN (head \o ins)[i]
             ELSE tail[i - (off + Len(ins))]
  <2> DEFINE both == head \o ins
  <2>1. both \in Seq(S) /\ Len(both) = off + Len(ins)
    BY <1>3
  <2> HIDE DEF both
  <2>2. /\ both \o tail \in Seq(S)
        /\ Len(both \o tail) = Len(both) + Len(tail)
        /\ \A i \in 1..Len(both) + Len(tail) :
             (both \o tail)[i] = IF i <= Len(both) THEN both[i]
                                 ELSE tail[i - Len(both)]
    <3>1. both \in Seq(S) /\ tail \in Seq(S)
      BY <1>2, <2>1
    <3> QED BY <3>1, ConcatProperties, Zenon
  <2>3. Len(both) + Len(tail) = Len(t) - n + Len(ins)
    BY <1>2, <2>1
  <2>4. /\ both \o tail \in Seq(S)
        /\ Len(both \o tail) = Len(t) - n + Len(ins)
        /\ \A i \in 1..Len(t) - n + Len(ins) :
             (both \o tail)[i] = IF i <= off + Len(ins) THEN both[i]
                                 ELSE tail[i - (off + Len(ins))]
    BY <2>1, <2>2, <2>3
  <2> QED BY <2>4 DEF both
<1>5. \A i \in 1..Len(t) - n + Len(ins) :
         i > off + Len(ins) =>
           tail[i - (off + Len(ins))] = t[i - Len(ins) + n]
  <2> SUFFICES ASSUME NEW i \in 1..Len(t) - n + Len(ins), i > off + Len(ins)
               PROVE  tail[i - (off + Len(ins))] = t[i - Len(ins) + n]
    OBVIOUS
  <2>1. PICK j \in 1..Len(t) - off - n : j = i - (off + Len(ins))
    <3>1. i - (off + Len(ins)) \in 1..Len(t) - off - n
      OBVIOUS
    <3> QED BY <3>1
  <2>2. off + n + j = i - Len(ins) + n
    BY <2>1
  <2> QED BY <1>2, <2>1, <2>2
<1>6. Splice(t, off, n, ins) = (head \o ins) \o tail
  BY DEF Splice, head, tail
<1> DEFINE v == (head \o ins) \o tail
<1>7. \A i \in 1..Len(t) - n + Len(ins) :
        v[i] = IF i <= off THEN t[i]
               ELSE IF i <= off + Len(ins) THEN ins[i - off]
               ELSE t[i - Len(ins) + n]
  <2> SUFFICES ASSUME NEW i \in 1..Len(t) - n + Len(ins)
               PROVE  v[i] = IF i <= off THEN t[i]
                             ELSE IF i <= off + Len(ins) THEN ins[i - off]
                             ELSE t[i - Len(ins) + n]
    OBVIOUS
  <2>1. v[i] = IF i <= off + Len(ins) THEN (head \o ins)[i]
               ELSE tail[i - (off + Len(ins))]
    BY <1>4
  <2>2. i <= off + Len(ins) =>
          i \in 1..off + Len(ins)
    OBVIOUS
  <2>3. i <= off + Len(ins) =>
          (head \o ins)[i] = IF i <= off THEN t[i] ELSE ins[i - off]
    BY <1>3, <2>2
  <2>4. i > off + Len(ins) =>
          ~(i <= off) /\ tail[i - (off + Len(ins))] = t[i - Len(ins) + n]
    BY <1>5
  <2> HIDE DEF v
  <2>5. CASE i <= off + Len(ins)
    BY <2>1, <2>3, <2>5
  <2>6. CASE i > off + Len(ins)
    <3>1. ~(i <= off) /\ ~(i <= off + Len(ins))
      BY <2>6
    <3> QED BY <2>1, <2>4, <2>6, <3>1, Zenon
  <2> QED BY <2>5, <2>6
<1> QED BY <1>4, <1>6, <1>7 DEF IsSplice

\* Splicing keeps the type and adjusts the length.
LEMMA SpliceLength ==
  ASSUME NEW S, NEW t \in Seq(S), NEW off \in Nat, NEW n \in Nat,
         off + n <= Len(t), NEW ins \in Seq(S)
  PROVE  /\ Splice(t, off, n, ins) \in Seq(S)
         /\ Len(Splice(t, off, n, ins)) = Len(t) - n + Len(ins)
  BY SpliceProperties DEF IsSplice

\* The range a replacement leaves behind lies within the text.
LEMMA SpliceRange ==
  ASSUME NEW S, NEW t \in Seq(S), NEW off \in Nat, NEW n \in Nat,
         off + n <= Len(t), NEW ins \in Seq(S)
  PROVE  off + Len(ins) <= Len(Splice(t, off, n, ins))
<1>1. Len(Splice(t, off, n, ins)) = Len(t) - n + Len(ins)
  BY SpliceLength
<1> QED BY <1>1

\* The range of two adjacent replacements lies within the text.
LEMMA SpliceAcrossRange ==
  ASSUME NEW S, NEW t \in Seq(S), NEW off \in Nat, NEW m \in Nat,
         NEW n \in Nat, off + m + n <= Len(t), NEW add \in Seq(S)
  PROVE  off + (m + Len(add)) <= Len(Splice(t, off + m, n, add))
<1>1. off + m \in Nat /\ off + m + Len(add) = off + (m + Len(add))
  OBVIOUS
<1>2. off + m + Len(add) <= Len(Splice(t, off + m, n, add))
  BY <1>1, SpliceRange
<1> QED BY <1>1, <1>2

\* The characters of an extracted range.
LEMMA ExtractProperties ==
  ASSUME NEW S, NEW t \in Seq(S), NEW off \in Nat, NEW n \in Nat,
         off + n <= Len(t)
  PROVE  /\ Extract(t, off, n) \in Seq(S)
         /\ Len(Extract(t, off, n)) = n
         /\ \A i \in 1..n : Extract(t, off, n)[i] = t[off + i]
  BY DEF Extract

\* Putting the extracted range back where it was cut restores the text.
LEMMA SpliceInverse ==
  ASSUME NEW S, NEW t \in Seq(S), NEW off \in Nat, NEW n \in Nat,
         off + n <= Len(t), NEW ins \in Seq(S)
  PROVE  Splice(Splice(t, off, n, ins), off, Len(ins), Extract(t, off, n)) = t
<1> DEFINE u == Splice(t, off, n, ins)
           d == Extract(t, off, n)
           k == 0 + Len(ins)
           v == Splice(u, off, k, d)
<1>1. /\ u \in Seq(S)
      /\ Len(u) = Len(t) - n + Len(ins)
      /\ \A i \in 1..Len(t) - n + Len(ins) :
           u[i] = IF i <= off THEN t[i]
                  ELSE IF i <= off + Len(ins) THEN ins[i - off]
                  ELSE t[i - Len(ins) + n]
  <2>1. IsSplice(u, S, t, off, n, ins)
    BY SpliceProperties
  <2> QED BY <2>1 DEF IsSplice
<1>2. /\ d \in Seq(S) /\ Len(d) = n
      /\ \A i \in 1..n : d[i] = t[off + i]
  BY ExtractProperties
<1>3. k \in Nat /\ k = Len(ins)
  OBVIOUS
<1> HIDE DEF u, d, k
<1>4. /\ v \in Seq(S)
      /\ Len(v) = Len(u) - k + Len(d)
      /\ \A i \in 1..Len(u) - k + Len(d) :
           v[i] = IF i <= off THEN u[i]
                  ELSE IF i <= off + Len(d) THEN d[i - off]
                  ELSE u[i - Len(d) + k]
  <2>1. u \in Seq(S)
    BY <1>1
  <2>2. d \in Seq(S)
    BY <1>2
  <2>3. off + k <= Len(u)
    BY <1>1, <1>3
  <2>4. k \in Nat
    BY <1>3
  <2>5. IsSplice(v, S, u, off, k, d)
    BY <2>1, <2>2, <2>3, <2>4, SpliceProperties
  <2> QED BY <2>5 DEF IsSplice
<1> HIDE DEF v
<1>5. /\ Len(v) = Len(t)
      /\ \A i \in 1..Len(t) :
           v[i] = IF i <= off THEN u[i]
                  ELSE IF i <= off + n THEN d[i - off]
                  ELSE u[i - n + Len(ins)]
  <2>1. Len(u) - k + Len(d) = Len(t)
    BY <1>1, <1>2, <1>3
  <2> QED BY <1>2, <1>3, <1>4, <2>1
<1>6. ASSUME NEW i \in 1..Len(t)
      PROVE  v[i] = t[i]
  <2> DEFINE j == i - n + Len(ins)
  <2>1. CASE i <= off
    <3>1. v[i] = u[i]
      BY <2>1, <1>5
    <3>2. i \in 1..Len(t) - n + Len(ins)
      BY <2>1
    <3> QED BY <2>1, <3>1, <3>2, <1>1
  <2>2. CASE i > off /\ i <= off + n
    BY <2>2, <1>2, <1>5
  <2>3. CASE i > off + n
    <3>1. v[i] = u[j]
      BY <2>3, <1>5
    <3>2. /\ j \in 1..Len(t) - n + Len(ins) /\ j > off + Len(ins)
          /\ j - Len(ins) + n = i
      BY <2>3
    <3> HIDE DEF j
    <3>3. u[j] = t[j - Len(ins) + n]
      BY <3>2, <1>1
    <3> QED BY <3>1, <3>2, <3>3
  <2> QED BY <2>1, <2>2, <2>3
<1>7. v = t
  <2>1. v \in Seq(S)
    BY <1>4
  <2>2. \A i \in 1..Len(v) : v[i] = t[i]
    BY <1>5, <1>6
  <2> QED BY <1>5, <2>1, <2>2, SeqEqual
<1> QED BY <1>3, <1>7, Zenon DEF u, d, v

\* What a splice inserted is what an extraction finds there.
LEMMA ExtractOfSplice ==
  ASSUME NEW S, NEW t \in Seq(S), NEW off \in Nat, NEW n \in Nat,
         off + n <= Len(t), NEW ins \in Seq(S)
  PROVE  Extract(Splice(t, off, n, ins), off, Len(ins)) = ins
<1> DEFINE u == Splice(t, off, n, ins)
           x == Extract(u, off, Len(ins))
<1>0. IsSplice(u, S, t, off, n, ins)
  BY SpliceProperties
<1>1. u \in Seq(S)
  BY <1>0 DEF IsSplice
<1>2. Len(u) = Len(t) - n + Len(ins)
  BY <1>0 DEF IsSplice
<1>3. \A i \in 1..Len(ins) : u[off + i] = ins[i]
  <2> SUFFICES ASSUME NEW i \in 1..Len(ins)
               PROVE  u[off + i] = ins[i]
    OBVIOUS
  <2> DEFINE k == off + i
  <2>1. k \in 1..Len(t) - n + Len(ins) /\ k > off /\ k <= off + Len(ins)
    OBVIOUS
  <2>2. ins[k - off] = ins[i]
    OBVIOUS
  <2> HIDE DEF k
  <2>3. u[k] = ins[k - off]
    BY <1>0, <2>1 DEF IsSplice
  <2> QED BY <2>2, <2>3 DEF k
<1> HIDE DEF u
<1>4. off + Len(ins) <= Len(u)
  BY <1>2
<1>5. Len(ins) \in Nat
  OBVIOUS
<1>6. /\ x \in Seq(S)
      /\ Len(x) = Len(ins)
      /\ \A i \in 1..Len(ins) : x[i] = u[off + i]
  BY <1>1, <1>4, <1>5, ExtractProperties
<1> HIDE DEF x
<1>7. \A i \in 1..Len(x) : x[i] = ins[i]
  BY <1>3, <1>6
<1>8. x = ins
  BY <1>6, <1>7, SeqEqual
<1> QED BY <1>8 DEF x, u

\* Two adjacent replacements, of m characters by d's inverse and of the n
\* characters after them by add, are undone by one.
LEMMA SpliceOfSplice ==
  ASSUME NEW S, NEW t \in Seq(S), NEW off \in Nat, NEW m \in Nat,
         NEW n \in Nat, off + m + n <= Len(t),
         NEW d \in Seq(S), NEW add \in Seq(S)
  PROVE  Splice(Splice(t, off + m, n, add), off, m + Len(add),
                d \o Extract(t, off + m, n))
           = Splice(t, off, m, d)
<1> DEFINE beg == off + m
           u == Splice(t, beg, n, add)
           x == Extract(t, beg, n)
           dx == d \o x
           v == Splice(u, off, m + Len(add), dx)
           w == Splice(t, off, m, d)
<1>a. beg \in Nat
  OBVIOUS
<1>b. beg + n <= Len(t)
  OBVIOUS
<1>0. beg \in Nat /\ beg + n <= Len(t) /\ off + m <= Len(t) /\ beg = off + m
  OBVIOUS
<1> HIDE DEF beg
<1>1. /\ u \in Seq(S)
      /\ Len(u) = Len(t) - n + Len(add)
      /\ \A i \in 1..Len(t) - n + Len(add) :
           u[i] = IF i <= beg THEN t[i]
                  ELSE IF i <= beg + Len(add) THEN add[i - beg]
                  ELSE t[i - Len(add) + n]
  <2>1. IsSplice(u, S, t, beg, n, add)
    BY <1>a, <1>b, SpliceProperties
  <2> QED BY <2>1 DEF IsSplice
<1>2. /\ x \in Seq(S)
      /\ Len(x) = n
      /\ \A i \in 1..n : x[i] = t[beg + i]
  BY <1>0, ExtractProperties
<1>3. /\ w \in Seq(S)
      /\ Len(w) = Len(t) - m + Len(d)
      /\ \A i \in 1..Len(t) - m + Len(d) :
           w[i] = IF i <= off THEN t[i]
                  ELSE IF i <= off + Len(d) THEN d[i - off]
                  ELSE t[i - Len(d) + m]
  <2>1. IsSplice(w, S, t, off, m, d)
    BY <1>0, SpliceProperties
  <2> QED BY <2>1 DEF IsSplice
<1> HIDE DEF u, x, w
<1>4. /\ dx \in Seq(S)
      /\ Len(dx) = Len(d) + Len(x)
      /\ \A i \in 1..Len(d) + Len(x) :
           dx[i] = IF i <= Len(d) THEN d[i] ELSE x[i - Len(d)]
  <2>1. x \in Seq(S)
    BY <1>2
  <2> QED BY <2>1, ConcatProperties, Zenon
<1> HIDE DEF dx
<1>5. /\ v \in Seq(S)
      /\ Len(v) = Len(u) - (m + Len(add)) + Len(dx)
      /\ \A i \in 1..Len(u) - (m + Len(add)) + Len(dx) :
           v[i] = IF i <= off THEN u[i]
                  ELSE IF i <= off + Len(dx) THEN dx[i - off]
                  ELSE u[i - Len(dx) + (m + Len(add))]
  <2>1. u \in Seq(S)
    BY <1>1
  <2>2. dx \in Seq(S)
    BY <1>4
  <2>3. off + (m + Len(add)) <= Len(u)
    BY <1>0, <1>1
  <2>4. m + Len(add) \in Nat
    OBVIOUS
  <2>5. IsSplice(v, S, u, off, m + Len(add), dx)
    BY <2>1, <2>2, <2>3, <2>4, SpliceProperties
  <2> QED BY <2>5 DEF IsSplice
<1> HIDE DEF v
<1>6. Len(v) = Len(w) /\ Len(v) = Len(t) - m + Len(d)
  BY <1>0, <1>1, <1>2, <1>3, <1>4, <1>5
<1>7. ASSUME NEW i \in 1..Len(v)
      PROVE  v[i] = w[i]
  <2>1. CASE i <= off
    <3>1. v[i] = u[i]
      BY <2>1, <1>5
    <3>2. i \in 1..Len(t) - n + Len(add) /\ i <= beg
      BY <2>1, <1>0
    <3>3. u[i] = t[i]
      BY <3>2, <1>1
    <3>4. w[i] = t[i]
      BY <2>1, <1>3, <1>6
    <3> QED BY <3>1, <3>3, <3>4
  <2>2. CASE i > off /\ i <= off + Len(d)
    <3> DEFINE j == i - off
    <3>1. j \in 1..Len(d) + Len(x) /\ j <= Len(d) /\ i <= off + Len(dx)
      BY <2>2, <1>2, <1>4
    <3>2. v[i] = dx[j]
      BY <2>2, <3>1, <1>5
    <3>3. w[i] = d[j]
      BY <2>2, <1>3, <1>6
    <3> HIDE DEF j
    <3>4. dx[j] = d[j]
      BY <3>1, <1>4
    <3> QED BY <3>2, <3>3, <3>4
  <2>3. CASE i > off + Len(d) /\ i <= off + Len(dx)
    <3> DEFINE j == i - off
               k == j - Len(d)
    <3>1. /\ j \in 1..Len(d) + Len(x) /\ j > Len(d)
          /\ k \in 1..n /\ beg + k = i - Len(d) + m
      BY <2>3, <1>0, <1>2, <1>4
    <3>2. v[i] = dx[j]
      BY <2>3, <1>5
    <3>3. w[i] = t[i - Len(d) + m]
      BY <2>3, <1>3, <1>6
    <3> HIDE DEF j
    <3>4. dx[j] = x[k]
      BY <3>1, <1>4
    <3> HIDE DEF k
    <3>5. x[k] = t[beg + k]
      BY <3>1, <1>2
    <3> QED BY <3>1, <3>2, <3>3, <3>4, <3>5
  <2>4. CASE i > off + Len(dx)
    <3> DEFINE j == i - Len(dx) + (m + Len(add))
    <3>1. /\ j \in 1..Len(t) - n + Len(add) /\ j > beg + Len(add)
          /\ j - Len(add) + n = i - Len(d) + m
      BY <2>4, <1>0, <1>2, <1>4, <1>6
    <3>2. v[i] = u[j]
      BY <2>4, <1>5
    <3>3. i > off + Len(d)
      BY <2>4, <1>2, <1>4
    <3>4. w[i] = t[i - Len(d) + m]
      BY <3>3, <1>3, <1>6
    <3> HIDE DEF j
    <3>5. u[j] = t[j - Len(add) + n]
      <4>1. ~(j <= beg) /\ ~(j <= beg + Len(add))
        BY <3>1, <1>a
      <4> QED BY <3>1, <4>1, <1>1
    <3> QED BY <3>1, <3>2, <3>4, <3>5
  <2>5. Len(dx) \in Nat /\ Len(d) \in Nat
    BY <1>4
  <2> QED BY <2>1, <2>2, <2>3, <2>4, <2>5
<1>8. v = w
  <2>1. v \in Seq(S) /\ w \in Seq(S)
    BY <1>3, <1>5
  <2> QED BY <2>1, <1>6, <1>7, SeqEqual
<1> QED BY <1>8 DEF v, w, u, x, dx, beg

\* A range of m characters, and the n behind it, which add is to replace.
Adjacent(S, t, off, m, n, add) ==
  /\ t \in Seq(S) /\ add \in Seq(S)
  /\ off \in Nat /\ m \in Nat /\ n \in Nat
  /\ off + m + n <= Len(t)

\* After inserting add right behind a range, both are found as one.
LEMMA ExtractAcrossSplice ==
  ASSUME NEW S, NEW t \in Seq(S), NEW off \in Nat, NEW m \in Nat,
         NEW n \in Nat, NEW add \in Seq(S), Adjacent(S, t, off, m, n, add)
  PROVE  Extract(Splice(t, off + m, n, add), off, m + Len(add))
           = Extract(t, off, m) \o add
<1> DEFINE beg == off + m
           u == Splice(t, beg, n, add)
           x == Extract(t, off, m)
           k == m + Len(add)
           v == Extract(u, off, k)
           w == x \o add
<1>a. beg \in Nat /\ beg = off + m
  OBVIOUS
<1>b. beg + n <= Len(t) /\ off + m <= Len(t)
  BY DEF Adjacent
<1>c. k = m + Len(add) /\ k \in Nat
  OBVIOUS
<1> HIDE DEF beg, k
<1>1. /\ u \in Seq(S)
      /\ Len(u) = Len(t) - n + Len(add)
      /\ \A i \in 1..Len(t) - n + Len(add) :
           u[i] = IF i <= beg THEN t[i]
                  ELSE IF i <= beg + Len(add) THEN add[i - beg]
                  ELSE t[i - Len(add) + n]
  <2>1. beg \in Nat
    BY <1>a
  <2>2. beg + n <= Len(t)
    BY <1>b
  <2>3. IsSplice(u, S, t, beg, n, add)
    BY <2>1, <2>2, SpliceProperties
  <2> QED BY <2>3 DEF IsSplice
<1>2. /\ x \in Seq(S)
      /\ Len(x) = m
      /\ \A i \in 1..m : x[i] = t[off + i]
  BY <1>b, ExtractProperties
<1> HIDE DEF u, x
<1>3. /\ w \in Seq(S)
      /\ Len(w) = Len(x) + Len(add)
      /\ \A i \in 1..Len(x) + Len(add) :
           w[i] = IF i <= Len(x) THEN x[i] ELSE add[i - Len(x)]
  <2>1. x \in Seq(S)
    BY <1>2
  <2> QED BY <2>1, ConcatProperties, Zenon
<1>4. /\ v \in Seq(S)
      /\ Len(v) = k
      /\ \A i \in 1..k : v[i] = u[off + i]
  <2>1. u \in Seq(S)
    BY <1>1
  <2>2. off + k <= Len(u)
    BY <1>1, <1>a, <1>b, <1>c
  <2>3. k \in Nat
    BY <1>c
  <2> QED BY <2>1, <2>2, <2>3, ExtractProperties
<1> HIDE DEF v, w
<1>5. ASSUME NEW i \in 1..Len(v)
      PROVE  v[i] = w[i]
  <2> DEFINE j == off + i
  <2>1. /\ i \in 1..k
        /\ j \in 1..Len(t) - n + Len(add)
        /\ j <= beg + Len(add)
        /\ j - beg = i - m
        /\ (j <= beg) <=> (i <= m)
    BY <1>4, <1>a, <1>b, <1>c
  <2>2. v[i] = u[j]
    BY <2>1, <1>4
  <2>3. w[i] = IF i <= m THEN x[i] ELSE add[i - m]
    BY <2>1, <1>2, <1>3, <1>c
  <2>4. i <= m => x[i] = t[j]
    BY <1>2, <2>1
  <2> HIDE DEF j
  <2>5. u[j] = IF j <= beg THEN t[j] ELSE add[j - beg]
    BY <2>1, <1>1
  <2> QED BY <2>1, <2>2, <2>3, <2>4, <2>5
<1>6. v = w
  <2>1. v \in Seq(S) /\ w \in Seq(S) /\ Len(v) = Len(w)
    BY <1>2, <1>3, <1>4, <1>c
  <2> QED BY <2>1, <1>5, SeqEqual
<1> QED BY <1>6 DEF v, w, u, x, beg, k

\* Replacing nothing by nothing changes nothing.
LEMMA SpliceNothing ==
  ASSUME NEW S, NEW t \in Seq(S), NEW off \in Nat, off <= Len(t)
  PROVE  Splice(t, off, 0, <<>>) = t
<1> DEFINE u == Splice(t, off, 0, <<>>)
<1>1. IsSplice(u, S, t, off, 0, <<>>)
  <2>1. <<>> \in Seq(S) /\ 0 \in Nat /\ off + 0 <= Len(t)
    OBVIOUS
  <2> QED BY <2>1, SpliceProperties
<1> HIDE DEF u
<1>2. u \in Seq(S) /\ Len(u) = Len(t)
  BY <1>1 DEF IsSplice
<1>3. ASSUME NEW i \in 1..Len(t)
      PROVE  u[i] = t[i]
  <2>1. i \in 1..Len(t) - 0 + Len(<<>>) /\ i - Len(<<>>) + 0 = i
    OBVIOUS
  <2>2. ~(i > off /\ i <= off + Len(<<>>))
    OBVIOUS
  <2> QED BY <1>1, <2>1, <2>2 DEF IsSplice
<1> QED BY <1>2, <1>3 DEF u

\* Deleting first and inserting there is one replacement.
LEMMA SpliceInTwo ==
  ASSUME NEW S, NEW t \in Seq(S), NEW off \in Nat, NEW n \in Nat,
         off + n <= Len(t), NEW ins \in Seq(S)
  PROVE  Splice(Splice(t, off, n, <<>>), off, 0, ins) = Splice(t, off, n, ins)
<1> DEFINE u == Splice(t, off, n, <<>>)
           v == Splice(u, off, 0, ins)
           w == Splice(t, off, n, ins)
<1>1. IsSplice(u, S, t, off, n, <<>>)
  <2>1. <<>> \in Seq(S)
    OBVIOUS
  <2> QED BY <2>1, SpliceProperties
<1>2. u \in Seq(S) /\ Len(u) = Len(t) - n
  BY <1>1 DEF IsSplice
<1> HIDE DEF u
<1>3. IsSplice(v, S, u, off, 0, ins)
  <2>1. 0 \in Nat /\ off + 0 <= Len(u)
    BY <1>2
  <2> QED BY <1>2, <2>1, SpliceProperties
<1>4. IsSplice(w, S, t, off, n, ins)
  BY SpliceProperties
<1> HIDE DEF v, w
<1>5. v \in Seq(S) /\ w \in Seq(S) /\ Len(v) = Len(w) /\ Len(w) = Len(t) - n + Len(ins)
  BY <1>2, <1>3, <1>4 DEF IsSplice
<1>6. ASSUME NEW i \in 1..Len(t) - n + Len(ins)
      PROVE  v[i] = w[i]
  <2>1. i \in 1..Len(u) - 0 + Len(ins)
    BY <1>2
  <2>2. v[i] = IF i <= off THEN u[i]
               ELSE IF i <= off + Len(ins) THEN ins[i - off]
               ELSE u[i - Len(ins) + 0]
    BY <1>3, <2>1 DEF IsSplice
  <2>3. w[i] = IF i <= off THEN t[i]
               ELSE IF i <= off + Len(ins) THEN ins[i - off]
               ELSE t[i - Len(ins) + n]
    BY <1>4 DEF IsSplice
  <2>4. CASE i <= off
    <3>1. i \in 1..Len(t) - n + Len(<<>>)
      BY <2>4
    <3>2. u[i] = t[i]
      BY <1>1, <2>4, <3>1 DEF IsSplice
    <3> QED BY <2>2, <2>3, <2>4, <3>2
  <2>5. CASE i > off /\ i <= off + Len(ins)
    BY <2>2, <2>3, <2>5
  <2>6. CASE i > off + Len(ins)
    <3> DEFINE j == i - Len(ins) + 0
    <3>1. /\ j \in 1..Len(t) - n + Len(<<>>) /\ ~(j <= off)
          /\ ~(j <= off + Len(<<>>)) /\ j - Len(<<>>) + n = i - Len(ins) + n
      BY <2>6
    <3> HIDE DEF j
    <3>2. u[j] = t[j - Len(<<>>) + n]
      BY <1>1, <3>1 DEF IsSplice
    <3>3. ~(i <= off) /\ ~(i <= off + Len(ins))
      BY <2>6
    <3> QED BY <2>2, <2>3, <3>1, <3>2, <3>3 DEF j
  <2> QED BY <2>4, <2>5, <2>6
<1> QED BY <1>5, <1>6 DEF v, w, u

-----------------------------------------------------------------------------
(***************************************************************************)
(* Induction, and functions defined by recursion                           *)
(***************************************************************************)
\* The natural numbers have no hole at the bottom.
LEMMA LeastExists ==
  ASSUME NEW S \in SUBSET Nat, S # {}
  PROVE  \E k \in S : \A j \in S : k <= j
<1>1. \E k \in S : \A j \in S : ~(<<j, k>> \in OpToRel(<, Nat))
  BY NatLessThanWellFounded, WFMin, Zenon
<1>2. PICK k \in S : \A j \in S : ~(<<j, k>> \in OpToRel(<, Nat))
  BY <1>1
<1>3. \A j \in S : ~(j < k)
  BY <1>2 DEF OpToRel
<1> QED BY <1>3

\* What begins at 0 and goes on reaches n.
LEMMA Induction ==
  ASSUME NEW n \in Nat, NEW S, 0 \in S, \A i \in 1..n : i - 1 \in S => i \in S
  PROVE  \A i \in 0..n : i \in S
<1> DEFINE R == (0..n) \ S
<1> SUFFICES ASSUME R # {} PROVE FALSE
  OBVIOUS
<1>1. PICK k \in R : \A j \in R : k <= j
  <2>1. R \in SUBSET Nat
    OBVIOUS
  <2> HIDE DEF R
  <2> QED BY <2>1, LeastExists
<1>2. k \in 1..n /\ k - 1 \in 0..n /\ k - 1 \notin R
  BY <1>1
<1> QED BY <1>1, <1>2

\* The same from n + 1 down to 1.
LEMMA InductionDown ==
  ASSUME NEW n \in Nat, NEW S, n + 1 \in S, \A i \in 1..n : i + 1 \in S => i \in S
  PROVE  \A i \in 1..n + 1 : i \in S
<1> DEFINE R == {k \in 0..n : n + 1 - k \in S}
<1>1. 0 \in R
  OBVIOUS
<1>2. ASSUME NEW k \in 1..n, k - 1 \in R PROVE k \in R
  <2>1. n + 1 - k \in 1..n /\ (n + 1 - k) + 1 = n + 1 - (k - 1)
    OBVIOUS
  <2> QED BY <1>2, <2>1
<1>3. \A k \in 0..n : k \in R
  <2> HIDE DEF R
  <2> QED BY <1>1, <1>2, Induction
<1>4. ASSUME NEW i \in 1..n + 1 PROVE i \in S
  <2>1. n + 1 - i \in 0..n /\ n + 1 - (n + 1 - i) = i
    OBVIOUS
  <2>2. n + 1 - i \in R
    BY <2>1, <1>3
  <2> QED BY <2>1, <2>2
<1> QED BY <1>4

\* g is defined by recursion: base at 0, and F from every number to the next; all its values are
\* in T and its graph in P.
Recursive(g, n, T, P, base, F) ==
  /\ g \in [0..n -> T] /\ g[0] = base
  /\ \A i \in 0..n : <<g[i], i>> \in P
  /\ \A i \in 1..n : g[i] = F[<<g[i - 1], i>>]

RecursiveDown(g, n, T, P, base, F) ==
  /\ g \in [1..n + 1 -> T] /\ g[n + 1] = base
  /\ \A i \in 1..n + 1 : <<g[i], i>> \in P
  /\ \A i \in 1..n : g[i] = F[<<g[i + 1], i>>]

\* A step F that leads from every place of P to the next defines such a function.
LEMMA Recursion ==
  ASSUME NEW n \in Nat, NEW T, NEW P, P \subseteq T \X (0..n), NEW base, NEW F, <<base, 0>> \in P,
         \A i \in 1..n : \A s : <<s, i - 1>> \in P => <<F[<<s, i>>], i>> \in P
  PROVE  \E g : Recursive(g, n, T, P, base, F)
<1> DEFINE Good(g, m) == /\ g = [i \in 0..m |-> g[i]] /\ g[0] = base
                         /\ \A i \in 0..m : <<g[i], i>> \in P
                         /\ \A i \in 1..m : g[i] = F[<<g[i - 1], i>>]
           S == {m \in 0..n : \E g : Good(g, m)}
<1>1. 0 \in S
  <2> DEFINE h == [i \in 0..0 |-> base]
  <2>1. h = [i \in 0..0 |-> h[i]] /\ h[0] = base /\ 0..0 = {0} /\ 1..0 = {}
    OBVIOUS
  <2>2. Good(h, 0)
    BY <2>1
  <2> HIDE DEF h
  <2>3. \E g : Good(g, 0)
    BY <2>2
  <2> HIDE DEF Good
  <2> QED BY <2>3
<1>2. ASSUME NEW m \in 1..n, m - 1 \in S PROVE m \in S
  <2>1. PICK g : Good(g, m - 1)
    BY <1>2
  <2> DEFINE x == F[<<g[m - 1], m>>]
             h == [i \in 0..m |-> IF i = m THEN x ELSE g[i]]
  <2>2. <<x, m>> \in P
    <3>1. m - 1 \in 0..m - 1 /\ <<g[m - 1], m - 1>> \in P
      BY <2>1
    <3> QED BY <3>1
  <2> HIDE DEF x
  <2>3. h = [i \in 0..m |-> h[i]] /\ h[0] = base
    BY <2>1
  <2>4. ASSUME NEW i \in 0..m PROVE <<h[i], i>> \in P
    <3>1. CASE i = m
      BY <3>1, <2>2
    <3>2. CASE i # m
      <4>1. i \in 0..m - 1
        BY <3>2
      <4> QED BY <4>1, <3>2, <2>1
    <3> QED BY <3>1, <3>2
  <2>5. ASSUME NEW i \in 1..m PROVE h[i] = F[<<h[i - 1], i>>]
    <3>1. h[i - 1] = g[i - 1]
      OBVIOUS
    <3>2. CASE i = m
      <4>1. h[i] = x
        BY <3>2
      <4>2. x = F[<<g[i - 1], i>>]
        BY <3>2 DEF x
      <4> QED BY <3>1, <4>1, <4>2
    <3>3. CASE i # m
      <4>1. i \in 1..m - 1 /\ i \in 0..m
        BY <3>3
      <4> QED BY <3>1, <3>3, <4>1, <2>1
    <3> QED BY <3>2, <3>3
  <2> HIDE DEF h
  <2>6. Good(h, m)
    BY <2>3, <2>4, <2>5
  <2>7. \E f : Good(f, m)
    BY <2>6
  <2> HIDE DEF Good
  <2> QED BY <2>7
<1>3. n \in S
  <2>1. \A m \in 0..n : m \in S
    <3> HIDE DEF S
    <3> QED BY <1>1, <1>2, Induction
  <2> QED BY <2>1
<1>4. PICK g : Good(g, n)
  <2> HIDE DEF Good
  <2> QED BY <1>3
<1>5. \A i \in 0..n : g[i] \in T
  BY <1>4
<1>6. g \in [0..n -> T]
  BY <1>4, <1>5
<1> QED BY <1>4, <1>6 DEF Recursive

\* The same from n + 1 down to 1.
LEMMA RecursionDown ==
  ASSUME NEW n \in Nat, NEW T, NEW P, P \subseteq T \X (1..n + 1), NEW base, NEW F,
         <<base, n + 1>> \in P,
         \A i \in 1..n : \A s : <<s, i + 1>> \in P => <<F[<<s, i>>], i>> \in P
  PROVE  \E g : RecursiveDown(g, n, T, P, base, F)
<1> DEFINE Good(g, m) == /\ g = [i \in m..n + 1 |-> g[i]] /\ g[n + 1] = base
                         /\ \A i \in m..n + 1 : <<g[i], i>> \in P
                         /\ \A i \in m..n : g[i] = F[<<g[i + 1], i>>]
           S == {m \in 1..n + 1 : \E g : Good(g, m)}
<1>1. n + 1 \in S
  <2> DEFINE h == [i \in n + 1..n + 1 |-> base]
  <2>1. h = [i \in n + 1..n + 1 |-> h[i]] /\ h[n + 1] = base
    OBVIOUS
  <2>0. n + 1..n + 1 = {n + 1} /\ n + 1..n = {} /\ n + 1 \in 1..n + 1
    OBVIOUS
  <2>2. Good(h, n + 1)
    BY <2>1, <2>0
  <2> HIDE DEF h
  <2>3. \E g : Good(g, n + 1)
    BY <2>2
  <2> HIDE DEF Good
  <2> QED BY <2>3, <2>0
<1>2. ASSUME NEW m \in 1..n, m + 1 \in S PROVE m \in S
  <2>1. PICK g : Good(g, m + 1)
    BY <1>2
  <2> DEFINE x == F[<<g[m + 1], m>>]
             h == [i \in m..n + 1 |-> IF i = m THEN x ELSE g[i]]
  <2>2. <<x, m>> \in P
    <3>1. m + 1 \in m + 1..n + 1 /\ <<g[m + 1], m + 1>> \in P
      BY <2>1
    <3> QED BY <3>1
  <2> HIDE DEF x
  <2>3. h = [i \in m..n + 1 |-> h[i]] /\ h[n + 1] = base
    BY <2>1
  <2>4. ASSUME NEW i \in m..n + 1 PROVE <<h[i], i>> \in P
    <3>1. CASE i = m
      BY <3>1, <2>2
    <3>2. CASE i # m
      <4>1. i \in m + 1..n + 1
        BY <3>2
      <4> QED BY <4>1, <3>2, <2>1
    <3> QED BY <3>1, <3>2
  <2>5. ASSUME NEW i \in m..n PROVE h[i] = F[<<h[i + 1], i>>]
    <3>1. h[i + 1] = g[i + 1]
      OBVIOUS
    <3>2. CASE i = m
      <4>1. h[i] = x
        BY <3>2
      <4>2. x = F[<<g[i + 1], i>>]
        BY <3>2 DEF x
      <4> QED BY <3>1, <4>1, <4>2
    <3>3. CASE i # m
      <4>1. i \in m + 1..n /\ i \in m..n + 1
        BY <3>3
      <4> QED BY <3>1, <3>3, <4>1, <2>1
    <3> QED BY <3>2, <3>3
  <2> HIDE DEF h
  <2>6. Good(h, m)
    BY <2>3, <2>4, <2>5
  <2>7. \E f : Good(f, m)
    BY <2>6
  <2> HIDE DEF Good
  <2>8. m \in 1..n + 1
    OBVIOUS
  <2> QED BY <2>7, <2>8
<1>3. 1 \in S
  <2>1. \A m \in 1..n + 1 : m \in S
    <3> HIDE DEF S
    <3> QED BY <1>1, <1>2, InductionDown
  <2> QED BY <2>1
<1>4. PICK g : Good(g, 1)
  <2> HIDE DEF Good
  <2> QED BY <1>3
<1>5. \A i \in 1..n + 1 : g[i] \in T
  BY <1>4
<1>6. g \in [1..n + 1 -> T]
  BY <1>4, <1>5
<1> QED BY <1>4, <1>6 DEF RecursiveDown
=============================================================================
