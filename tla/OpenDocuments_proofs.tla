------------------------- MODULE OpenDocuments_proofs -------------------------
(***************************************************************************)
(* For any number of files and documents: two open documents never have    *)
(* the same path, and open files are watched.                              *)
(***************************************************************************)
EXTENDS OpenDocuments, TLAPS, FiniteSetTheorems, WellFoundedInduction

\* No two documents of s have a path or an id in common.
Differ(s) ==
  \A i, j \in DOMAIN s :
    (s[i].path = s[j].path /\ s[i].path # NoFile) \/ s[i].id = s[j].id => i = j

\* The open documents s, of which the watcher knows the names in w.
Fine(s, w) ==
  /\ s \in Seq(Document) /\ Len(s) <= MaxOpen
  /\ Differ(s)
  /\ w \subseteq Files \cup {Located}
  /\ ~LocatedPicks => Paths(s) \subseteq w

\* A key that chooses a file names one.
KeyFine(k) ==
  /\ k.file \in Files \cup {NoFile}
  /\ k.press \in {"choose", "locate"} => k.file \in Files
  /\ k.press = "locate" => LocatedPicks

\* Dialogs that are shown; the questions name a document.
ShownFine(m) ==
  /\ DOMAIN m \subseteq Dialogs
  /\ \A d \in DOMAIN m : m[d] \in Ids \cup {0} /\ (d \notin Questions => m[d] = 0)

Stages == {"idle", "exited"} \cup {Handlers[i] : i \in DOMAIN Handlers}

Rest ==
  /\ disk \subseteq Files
  /\ wants \subseteq Flags /\ picker \in {"none", "open", "saveAs"}
  /\ overwrite \in Files \cup {NoFile}
  /\ panel \in {"none", "commands", "files", "diff"}
  /\ native \in BOOLEAN
  /\ stage \in Stages /\ (stage = "editor" => list # <<>>)
  /\ keys \in -1 .. Batch /\ moved \in BOOLEAN

IInv ==
  /\ Fine(list, watched)
  /\ Rest
  /\ KeyFine(key)
  /\ ShownFine(drawn)
  /\ ShownFine(screen)

-----------------------------------------------------------------------------
(* Least members. *)

LEMMA LeastMember ==
  ASSUME NEW S \in SUBSET Nat, S # {}
  PROVE  \E i \in S : \A j \in S : i <= j
<1>1. \E x \in S : \A y \in S : ~ (<<y, x>> \in OpToRel(<, Nat))
  BY NatLessThanWellFounded, WFMin, Zenon
<1>2. PICK x \in S : \A y \in S : ~ (<<y, x>> \in OpToRel(<, Nat))
  BY <1>1
<1>3. \A y \in S : ~ (y < x)
  BY <1>2 DEF OpToRel
<1> QED BY <1>3

\* A counter is free for the next document.
LEMMA NewIdIsFree ==
  ASSUME IInv
  PROVE  NewId \in Ids /\ \A i \in DOMAIN list : list[i].id # NewId
<1> DEFINE U == {list[i].id : i \in DOMAIN list}
           a == screen["close"]  b == screen["reload"]
           c == drawn["close"]   d == drawn["reload"]
           V == {a, b, c, d}
           n == Len(list)
<1>1. list \in Seq(Document) /\ n \in Nat /\ DOMAIN list = 1..n /\ n <= MaxOpen /\ MaxOpen \in Nat
  BY OpenDocumentsAssumption DEF IInv, Fine
<1>2. \A x \in Ids : x \in InUse => x \in U \cup V
  <2> SUFFICES ASSUME NEW x \in Ids, x \in InUse, x \notin U
               PROVE  x \in V
    OBVIOUS
  <2>1. x # 0
    BY DEF Ids
  <2>2. CASE \E q \in DOMAIN screen : x = screen[q]
    BY <2>1, <2>2 DEF IInv, ShownFine, Questions
  <2>3. CASE \E q \in DOMAIN drawn : x = drawn[q]
    BY <2>1, <2>3 DEF IInv, ShownFine, Questions
  <2> QED BY <2>2, <2>3 DEF InUse
<1>3. IsFiniteSet(U) /\ Cardinality(U) <= n
  <2> DEFINE f == [i \in 1..n |-> list[i].id]
  <2>1. f \in Surjection(1..n, U)
    BY <1>1 DEF Surjection
  <2> HIDE DEF f, U, n
  <2>2. IsFiniteSet(1..n) /\ Cardinality(1..n) = n
    <3>1. /\ IsFiniteSet(1..n)
          /\ Cardinality(1..n) = IF 1 > n THEN 0 ELSE n - 1 + 1
      BY <1>1, FS_Interval
    <3> QED BY <1>1, <3>1
  <2> QED BY <2>1, <2>2, FS_Surjection
<1>4. IsFiniteSet(V) /\ Cardinality(V) <= 4
  <2> HIDE DEF a, b, c, d
  <2>1. IsFiniteSet({}) /\ Cardinality({}) = 0
    BY FS_EmptySet
  <2>2. IsFiniteSet({} \cup {a}) /\ Cardinality({} \cup {a}) = 1
    BY <2>1, FS_AddElement
  <2>3. {} \cup {a} = {a} /\ {a} \cup {b} = {a, b} /\ {a, b} \cup {c} = {a, b, c} /\ {a, b, c} \cup {d} = V
    OBVIOUS
  <2>4. IsFiniteSet({a}) /\ Cardinality({a}) = 1
    BY <2>2, <2>3
  <2>5. IsFiniteSet({a, b}) /\ Cardinality({a, b}) \in Nat /\ Cardinality({a, b}) <= 2
    <3>1. /\ IsFiniteSet({a} \cup {b})
          /\ Cardinality({a} \cup {b}) = IF b \in {a} THEN Cardinality({a}) ELSE Cardinality({a}) + 1
      BY <2>4, FS_AddElement
    <3> QED BY <2>3, <2>4, <3>1
  <2>6. IsFiniteSet({a, b, c}) /\ Cardinality({a, b, c}) \in Nat /\ Cardinality({a, b, c}) <= 3
    <3>1. /\ IsFiniteSet({a, b} \cup {c})
          /\ Cardinality({a, b} \cup {c})
               = IF c \in {a, b} THEN Cardinality({a, b}) ELSE Cardinality({a, b}) + 1
      BY <2>5, FS_AddElement
    <3> QED BY <2>3, <2>5, <3>1
  <2> QED BY <2>6, <2>3, FS_AddElement
<1>5. IsFiniteSet(U \cup V) /\ Cardinality(U \cup V) <= MaxOpen + 4
  <2> HIDE DEF U, V, n
  <2>1. Cardinality(U) \in Nat /\ Cardinality(V) \in Nat
    BY <1>3, <1>4, FS_CardinalityType
  <2>2. Cardinality(U \cap V) \in Nat
    BY <1>3, FS_Subset, FS_CardinalityType
  <2>3. /\ IsFiniteSet(U \cup V)
        /\ Cardinality(U \cup V) = Cardinality(U) + Cardinality(V) - Cardinality(U \cap V)
    BY <1>3, <1>4, FS_Union
  <2> QED BY <1>1, <1>3, <1>4, <2>1, <2>2, <2>3
<1>6. Cardinality(Ids) = MaxOpen + 5
  BY <1>1, FS_Interval DEF Ids
<1>7. ~(Ids \subseteq U \cup V)
  <2> HIDE DEF U, V, n
  <2>1. Cardinality(U \cup V) \in Nat
    BY <1>5, FS_CardinalityType
  <2> QED BY <1>1, <1>5, <1>6, <2>1, FS_Subset
<1>8. PICK id \in Ids \ InUse : \A other \in Ids \ InUse : id <= other
  <2>1. Ids \ InUse \in SUBSET Nat /\ Ids \ InUse # {}
    BY <1>2, <1>7, <1>1 DEF Ids
  <2> QED BY <2>1, LeastMember
<1>9. NewId \in Ids \ InUse
  BY <1>8 DEF NewId
<1> QED BY <1>9 DEF InUse

\* Whatever is due next is a handler.
LEMMA GoesOn ==
  ASSUME NEW from \in 0..11, NEW k, GoOn(from, k)
  PROVE  stage' \in Stages /\ (stage' = "editor" => list' # <<>>)
<1> DEFINE later == {i \in from + 1 .. Len(Handlers) : Due(Handlers[i], k)}
<1>1. Len(Handlers) = 11 /\ DOMAIN Handlers = 1..11
  BY DEF Handlers
<1>2. later \in SUBSET Nat /\ later \subseteq 1..11
  BY <1>1
<1>3. stage' = IF later = {} THEN "idle" ELSE Handlers[CHOOSE i \in later : \A j \in later : i <= j]
  BY DEF GoOn
<1> HIDE DEF later
<1>4. CASE later = {}
  BY <1>3, <1>4 DEF Stages
<1>5. CASE later # {}
  <2>1. (CHOOSE i \in later : \A j \in later : i <= j) \in later
    BY <1>2, <1>5, LeastMember
  <2>2. PICK i \in later : stage' = Handlers[i]
    BY <1>3, <1>5, <2>1
  <2>3. stage' \in Stages
    BY <1>1, <1>2, <2>2 DEF Stages
  <2>4. Due(stage', k)
    BY <2>2 DEF later
  <2> QED BY <2>3, <2>4 DEF Due
<1> QED BY <1>4, <1>5

LEMMA HandlerDone ==
  ASSUME IInv, NEW handler, Done(handler)
  PROVE  /\ stage' \in Stages /\ (stage' = "editor" => list' # <<>>) /\ keys' \in -1 .. Batch
         /\ KeyFine(key)'
         /\ screen' = screen
<1>1. PICK i \in DOMAIN Handlers : GoOn(i, key)
  BY DEF Done
<1>2. i \in 0..11
  BY DEF Handlers
<1>3. stage' \in Stages /\ (stage' = "editor" => list' # <<>>)
  BY <1>1, <1>2, GoesOn
<1>4. key' = NoKey \/ key' = key
  BY DEF Done
<1>5. KeyFine(NoKey)
  BY DEF KeyFine, NoKey
<1>6. KeyFine(key)'
  BY <1>4, <1>5 DEF IInv, KeyFine
<1> QED BY <1>3, <1>6 DEF IInv, Rest, Done

\* Dialogs that are drawn ask about the active document.
LEMMA DrawnFine ==
  ASSUME IInv, NEW dialogs \in SUBSET Dialogs, Draw(dialogs)
  PROVE  ShownFine(drawn)'
<1>1. ActiveId \in Ids \cup {0}
  <2>1. CASE list = <<>>
    BY <2>1 DEF ActiveId
  <2>2. CASE list # <<>>
    <3>1. list[1] \in Document
      BY <2>2 DEF IInv, Fine
    <3> QED BY <2>2, <3>1 DEF ActiveId, Active, Document
  <2> QED BY <2>1, <2>2
<1> QED BY <1>1 DEF IInv, ShownFine, Draw, Questions

-----------------------------------------------------------------------------
(* Lists of documents. *)

\* A list whose documents are, by path, documents of s at different places.
LEMMA Reordered ==
  ASSUME NEW s, NEW w, Fine(s, w), NEW t \in Seq(Document), Len(t) <= Len(s),
         NEW at,
         \A j \in DOMAIN t :
           at[j] \in DOMAIN s /\ t[j].path = s[at[j]].path /\ t[j].id = s[at[j]].id,
         \A j, k \in DOMAIN t : at[j] = at[k] => j = k
  PROVE  Fine(t, w) /\ Paths(t) \subseteq Paths(s)
<1>1. Len(t) <= MaxOpen
  BY OpenDocumentsAssumption DEF Fine
<1>2. Differ(t)
  BY DEF Fine, Differ
<1>3. Paths(t) \subseteq Paths(s)
  BY DEF Paths
<1> QED BY <1>1, <1>2, <1>3 DEF Fine

\* More names are registered.
LEMMA MoreWatched ==
  ASSUME NEW s, NEW w, Fine(s, w), NEW v, w \subseteq v, v \subseteq Files \cup {Located}
  PROVE  Fine(s, v)
BY DEF Fine

\* Names of documents that are gone are taken back.
LEMMA LessWatched ==
  ASSUME NEW s, NEW w, Fine(s, w), NEW gone, gone \cap Paths(s) = {}
  PROVE  Fine(s, w \ gone)
BY DEF Fine

LEMMA SuffixFine ==
  ASSUME NEW s, NEW w, Fine(s, w), NEW n \in 0..Len(s)
  PROVE  /\ Fine(SubSeq(s, n + 1, Len(s)), w)
         /\ \A i \in 1..n : s[i].path \notin Paths(SubSeq(s, n + 1, Len(s)))
         /\ Len(SubSeq(s, n + 1, Len(s))) = Len(s) - n
<1> DEFINE t == SubSeq(s, n + 1, Len(s))
<1>1. s \in Seq(Document) /\ Differ(s)
  BY DEF Fine
<1>2. /\ t \in Seq(Document) /\ Len(t) = Len(s) - n
      /\ \A j \in 1..Len(s) - n : t[j] = s[j + n]
  BY <1>1
<1> HIDE DEF t
<1> DEFINE at == [j \in 1..Len(s) - n |-> j + n]
<1>3. \A j \in DOMAIN t :
        at[j] \in DOMAIN s /\ t[j].path = s[at[j]].path /\ t[j].id = s[at[j]].id
  BY <1>1, <1>2
<1>4. \A j, k \in DOMAIN t : at[j] = at[k] => j = k
  BY <1>1, <1>2
<1>5. \A i \in 1..n : s[i].path \notin Paths(t)
  <2> SUFFICES ASSUME NEW i \in 1..n, s[i].path \in Paths(t)
               PROVE  FALSE
    OBVIOUS
  <2>1. PICK j \in 1..Len(s) - n : t[j].path = s[i].path /\ s[i].path # NoFile
    BY <1>2 DEF Paths
  <2>2. j + n \in DOMAIN s /\ i \in DOMAIN s /\ s[j + n].path = s[i].path
    BY <1>1, <1>2, <2>1
  <2>3. j + n = i
    BY <1>1, <2>1, <2>2 DEF Differ
  <2> QED BY <2>1, <2>3
<1> HIDE DEF at
<1>6. Fine(t, w)
  BY <1>1, <1>2, <1>3, <1>4, Reordered
<1> QED BY <1>2, <1>5, <1>6 DEF t

LEMMA TailFine ==
  ASSUME NEW s, NEW w, Fine(s, w), s # <<>>
  PROVE  /\ Fine(Tail(s), w)
         /\ s[1].path \notin Paths(Tail(s))
         /\ Len(Tail(s)) = Len(s) - 1
<1>1. s \in Seq(Document) /\ Len(s) \in Nat \ {0}
  BY DEF Fine
<1>2. Tail(s) = SubSeq(s, 1 + 1, Len(s))
  BY <1>1
<1>3. 1 \in 0..Len(s) /\ 1 \in 1..1
  BY <1>1
<1>4. /\ Fine(SubSeq(s, 1 + 1, Len(s)), w)
      /\ \A i \in 1..1 : s[i].path \notin Paths(SubSeq(s, 1 + 1, Len(s)))
      /\ Len(SubSeq(s, 1 + 1, Len(s))) = Len(s) - 1
  BY <1>3, SuffixFine
<1> QED BY <1>2, <1>3, <1>4

\* A document that is put in front of a list.
LEMMA FrontFine ==
  ASSUME NEW s, NEW w, Fine(s, w), NEW d \in Document, Len(s) < MaxOpen,
         d.path \notin Paths(s), \A i \in DOMAIN s : s[i].id # d.id,
         ~LocatedPicks => d.path \in w \cup {NoFile}
  PROVE  Fine(<<d>> \o s, w)
<1>1. s \in Seq(Document) /\ Differ(s) /\ MaxOpen \in Nat
  BY OpenDocumentsAssumption DEF Fine
<1> DEFINE t == <<d>> \o s
<1>2. /\ t \in Seq(Document) /\ Len(t) = Len(s) + 1 /\ t[1] = d
      /\ \A j \in 2..Len(s) + 1 : t[j] = s[j - 1]
  BY <1>1
<1> HIDE DEF t
<1>3. \A j \in 2..Len(s) + 1 : j - 1 \in 1..Len(s)
  BY <1>1
<1>4. \A j \in DOMAIN t : j = 1 \/ j \in 2..Len(s) + 1
  BY <1>1, <1>2
<1>5. \A j \in 2..Len(s) + 1 :
        t[j].id # d.id /\ (t[j].path # NoFile => t[j].path # d.path)
  BY <1>1, <1>2, <1>3 DEF Paths
<1>6. Differ(t)
  <2> SUFFICES ASSUME NEW i \in DOMAIN t, NEW j \in DOMAIN t,
                      (t[i].path = t[j].path /\ t[i].path # NoFile) \/ t[i].id = t[j].id
               PROVE  i = j
    BY DEF Differ
  <2>1. CASE i = 1 \/ j = 1
    BY <1>2, <1>4, <1>5, <2>1
  <2>2. CASE i # 1 /\ j # 1
    <3>1. t[i] = s[i - 1] /\ t[j] = s[j - 1] /\ i - 1 \in DOMAIN s /\ j - 1 \in DOMAIN s
      BY <1>1, <1>2, <1>3, <1>4, <2>2
    <3>2. i - 1 = j - 1
      BY <1>1, <3>1 DEF Differ
    <3> QED BY <1>1, <1>2, <3>2
  <2> QED BY <2>1, <2>2
<1>7. Paths(t) \subseteq Paths(s) \cup ({d.path} \ {NoFile})
  BY <1>1, <1>2, <1>3, <1>4 DEF Paths
<1>8. Len(t) <= MaxOpen
  BY <1>1, <1>2
<1>9. ~LocatedPicks => Paths(t) \subseteq w
  BY <1>7 DEF Fine
<1> QED BY <1>2, <1>6, <1>8, <1>9 DEF Fine, t

\* The documents behind the active one have other ids.
LEMMA OthersDiffer ==
  ASSUME NEW w, Fine(list, w), list # <<>>
  PROVE  \A j \in DOMAIN Tail(list) :
           /\ j + 1 \in DOMAIN list /\ Tail(list)[j] = list[j + 1]
           /\ Tail(list)[j].id # Active.id
<1>1. list \in Seq(Document) /\ Len(list) \in Nat \ {0} /\ Differ(list)
  BY DEF Fine
<1>2. \A j \in DOMAIN Tail(list) : j + 1 \in DOMAIN list /\ Tail(list)[j] = list[j + 1] /\ j + 1 # 1
  BY <1>1
<1>3. 1 \in DOMAIN list
  BY <1>1
<1> QED BY <1>1, <1>2, <1>3 DEF Differ, Active

\* The active document is replaced by d.
LEMMA ActiveFine ==
  ASSUME NEW w, Fine(list, w), list # <<>>, NEW d \in Document,
         d.id = Active.id,
         d.path \notin Paths(Tail(list)), ~LocatedPicks => d.path \in w \cup {NoFile}
  PROVE  Fine(WithActive(d), w)
<1>1. Fine(Tail(list), w) /\ Len(Tail(list)) < MaxOpen
  <2>1. Len(list) \in Nat /\ MaxOpen \in Nat /\ Len(list) <= MaxOpen
    BY OpenDocumentsAssumption DEF Fine
  <2> QED BY <2>1, TailFine
<1>2. \A j \in DOMAIN Tail(list) : Tail(list)[j].id # d.id
  BY OthersDiffer
<1> QED BY <1>1, <1>2, FrontFine DEF WithActive

\* The i-th document moves to the front.
LEMMA ToFrontElements ==
  ASSUME NEW w, Fine(list, w), NEW i \in DOMAIN list, NEW t, t = ToFront(i)
  PROVE  /\ t \in Seq(Document) /\ Len(t) = Len(list) /\ t[1] = list[i]
         /\ \A j \in 2..i : t[j] = list[j - 1]
         /\ \A j \in i + 1..Len(list) : t[j] = list[j]
<1>1. list \in Seq(Document) /\ i \in 1..Len(list)
  BY DEF Fine
<1> DEFINE a == SubSeq(list, 1, i - 1)
           b == SubSeq(list, i + 1, Len(list))
           u == <<list[i]>> \o (a \o b)
<1>2. /\ a \in Seq(Document) /\ Len(a) = i - 1
      /\ \A j \in 1..i - 1 : a[j] = list[j]
  BY <1>1
<1>3. /\ b \in Seq(Document) /\ Len(b) = Len(list) - i
      /\ \A j \in 1..Len(list) - i : b[j] = list[j + i]
  BY <1>1
<1>4. list[i] \in Document
  BY <1>1
<1> HIDE DEF a, b
<1>5. /\ u \in Seq(Document) /\ Len(u) = Len(list) /\ u[1] = list[i]
      /\ \A j \in 2..i : u[j] = a[j - 1]
      /\ \A j \in i + 1..Len(list) : u[j] = b[j - i]
  BY <1>1, <1>2, <1>3, <1>4
<1>6. u = t
  BY DEF a, b, ToFront, RemoveAt
<1> HIDE DEF u
<1>7. \A j \in 2..i : u[j] = list[j - 1]
  BY <1>1, <1>2, <1>5
<1>8. ASSUME NEW j \in i + 1..Len(list)
      PROVE  u[j] = list[j]
  <2>1. j - i \in 1..Len(list) - i /\ (j - i) + i = j
    BY <1>1
  <2> QED BY <1>3, <1>5, <2>1
<1> QED BY <1>5, <1>6, <1>7, <1>8

LEMMA ToFrontFine ==
  ASSUME NEW w, Fine(list, w), NEW i \in DOMAIN list
  PROVE  Fine(ToFront(i), w)
<1>1. list \in Seq(Document) /\ i \in 1..Len(list) /\ DOMAIN list = 1..Len(list)
  BY DEF Fine
<1>2. PICK t : t = ToFront(i)
  OBVIOUS
<1>3. /\ t \in Seq(Document) /\ Len(t) = Len(list) /\ t[1] = list[i]
      /\ \A j \in 2..i : t[j] = list[j - 1]
      /\ \A j \in i + 1..Len(list) : t[j] = list[j]
  BY <1>2, ToFrontElements
<1> DEFINE at == [j \in 1..Len(list) |-> IF j = 1 THEN i ELSE IF j <= i THEN j - 1 ELSE j]
<1>4. \A j \in 1..Len(list) : t[j] = list[at[j]]
  BY <1>1, <1>3
<1>5. \A j \in 1..Len(list) : at[j] \in 1..Len(list)
  BY <1>1
<1>6. \A j, k \in 1..Len(list) : at[j] = at[k] => j = k
  BY <1>1
<1> HIDE DEF at
<1>7. DOMAIN t = 1..Len(list)
  BY <1>1, <1>3
<1>8. \A j \in DOMAIN t :
        at[j] \in DOMAIN list /\ t[j].path = list[at[j]].path /\ t[j].id = list[at[j]].id
  BY <1>1, <1>4, <1>5, <1>7
<1>9. \A j, k \in DOMAIN t : at[j] = at[k] => j = k
  BY <1>6, <1>7
<1>10. t \in Seq(Document) /\ Len(t) <= Len(list)
  BY <1>1, <1>3
<1>11. Fine(t, w)
  BY <1>8, <1>9, <1>10, Reordered
<1> QED BY <1>2, <1>11

-----------------------------------------------------------------------------
(* What the operations do to the list. *)

LEMMA ActiveFacts ==
  ASSUME IInv, list # <<>>
  PROVE  /\ Active \in Document
         /\ Active.path \notin Paths(Tail(list))
         /\ ~LocatedPicks => Active.path \in watched \cup {NoFile}
<1>1. list \in Seq(Document) /\ 1 \in DOMAIN list
  BY DEF IInv, Fine
<1>2. Active.path # NoFile => Active.path \in Paths(list)
  BY <1>1 DEF Paths, Active
<1> QED BY <1>1, <1>2, TailFine DEF IInv, Fine, Active

LEMMA UntitledFine ==
  ASSUME IInv, AddUntitled
  PROVE  Fine(list', watched)
<1> DEFINE d == [id |-> NewId, path |-> NoFile, dirty |-> FALSE, base |-> "absent"]
<1>1. d \in Document /\ d.path = NoFile /\ \A i \in DOMAIN list : list[i].id # d.id
  BY NewIdIsFree DEF Document
<1>2. NoFile \notin Paths(list)
  BY DEF Paths
<1>3. list' = <<d>> \o list /\ Len(list) < MaxOpen
  BY DEF AddUntitled
<1> HIDE DEF d
<1> QED BY <1>1, <1>2, <1>3, FrontFine DEF IInv

LEMMA OpenFine ==
  ASSUME IInv, NEW f \in Files, AddFilePath(f), NEW name \in Files \cup {Located},
         name = f \/ LocatedPicks
  PROVE  Fine(list', watched \cup {name})
<1> DEFINE w == watched \cup {name}
<1>1. Fine(list, w)
  BY MoreWatched DEF IInv, Fine
<1>2. CASE f \in Paths(list)
  <2>1. PICK i \in DOMAIN list : list' = ToFront(i)
    BY <1>2 DEF AddFilePath
  <2> QED BY <1>1, <2>1, ToFrontFine
<1>3. CASE f \notin Paths(list)
  <2> DEFINE d == [id |-> NewId, path |-> f, dirty |-> FALSE,
                   base |-> IF f \in disk THEN "current" ELSE "absent"]
  <2>1. d \in Document /\ d.path = f /\ \A i \in DOMAIN list : list[i].id # d.id
    BY NewIdIsFree DEF Document
  <2>2. list' = <<d>> \o Kept /\ Len(Kept) < MaxOpen
    BY <1>3 DEF AddFilePath
  <2> HIDE DEF d, w
  <2>3. Fine(Kept, w) /\ f \notin Paths(Kept) /\ \A i \in DOMAIN Kept : Kept[i].id # d.id
    <3>1. CASE Pristine
      <4>1. Paths(Tail(list)) \subseteq Paths(list)
        BY <1>1, <3>1 DEF Fine, Paths, Pristine
      <4>2. \A i \in DOMAIN Tail(list) : Tail(list)[i].id # d.id
        BY <1>1, <2>1, <3>1, OthersDiffer DEF Pristine
      <4> QED BY <1>1, <1>3, <3>1, <4>1, <4>2, TailFine DEF Kept, Pristine
    <3>2. CASE ~Pristine
      BY <1>1, <1>3, <2>1, <3>2 DEF Kept
    <3> QED BY <3>1, <3>2
  <2>4. ~LocatedPicks => d.path \in w \cup {NoFile}
    BY <2>1 DEF w
  <2> QED BY <2>1, <2>2, <2>3, <2>4, FrontFine DEF w
<1> QED BY <1>2, <1>3

LEMMA RemoveFine ==
  ASSUME IInv, list # <<>>, RemoveActive
  PROVE  Fine(list', watched')
<1>1. Fine(Tail(list), watched)
  BY TailFine DEF IInv
<1>2. {Active.path} \cap Paths(Tail(list)) = {}
  BY ActiveFacts
<1> QED BY <1>1, <1>2, LessWatched DEF RemoveActive

LEMMA SameNameFine ==
  ASSUME IInv, list # <<>>, NEW d \in Document, d.path = Active.path, d.id = Active.id
  PROVE  Fine(WithActive(d), watched)
BY ActiveFacts, ActiveFine DEF IInv

LEMMA ReadFine ==
  ASSUME IInv, list # <<>>, ReadAgain
  PROVE  Fine(list', watched')
<1> DEFINE d == [Active EXCEPT !.dirty = FALSE, !.base = "current"]
<1>1. d \in Document /\ d.path = Active.path /\ d.id = Active.id
  BY ActiveFacts DEF Document
<1>2. list' = WithActive(d)
  BY DEF ReadAgain
<1> HIDE DEF d
<1>3. Fine(list', watched)
  BY <1>1, <1>2, SameNameFine
<1>4. watched' = watched \cup {Active.path} /\ Active.path \in Files
  BY DEF IInv, Rest, ReadAgain
<1>5. watched' \subseteq Files \cup {Located}
  BY <1>3, <1>4 DEF Fine
<1> QED BY <1>3, <1>4, <1>5, MoreWatched

LEMMA SaveAsFine ==
  ASSUME IInv, NEW f \in Files, ~OpenElsewhere(f), SaveAndWatch(f)
  PROVE  Fine(list', watched') /\ disk' \subseteq Files
<1>1. CASE list = <<>>
  BY <1>1 DEF IInv, Rest, SaveAndWatch, documents
<1>2. CASE list # <<>>
  <2> DEFINE d == SavedAs(Active, f)
             w == (watched \ {Active.path}) \cup {f}
  <2>1. d \in Document /\ d.path = f /\ d.id = Active.id
    BY <1>2, ActiveFacts DEF SavedAs, Document
  <2>2. list' = WithActive(d) /\ watched' = w /\ disk' = disk \cup {f}
    BY <1>2 DEF SaveAndWatch
  <2>3. f \notin Paths(Tail(list))
    <3>1. list \in Seq(Document)
      BY DEF IInv, Fine
    <3>2. \A j \in DOMAIN Tail(list) : j + 1 \in 2..Len(list) /\ Tail(list)[j] = list[j + 1]
      BY <1>2, <3>1
    <3> QED BY <3>2 DEF Paths, OpenElsewhere
  <2>3a. \A j \in DOMAIN Tail(list) : Tail(list)[j].id # d.id
    BY <1>2, <2>1, OthersDiffer DEF IInv
  <2>4. Fine(Tail(list), watched \ {Active.path})
    <3>1. Fine(Tail(list), watched)
      BY <1>2, TailFine DEF IInv
    <3>2. {Active.path} \cap Paths(Tail(list)) = {}
      BY <1>2, ActiveFacts
    <3> QED BY <3>1, <3>2, LessWatched
  <2>5. Fine(Tail(list), w)
    <3>1. w \subseteq Files \cup {Located}
      BY <2>4 DEF Fine
    <3> QED BY <2>4, <3>1, MoreWatched
  <2>6. Len(Tail(list)) < MaxOpen
    <3>1. Len(list) \in Nat /\ Len(list) <= MaxOpen /\ MaxOpen \in Nat
      BY OpenDocumentsAssumption DEF IInv, Fine
    <3> QED BY <1>2, <3>1, TailFine DEF IInv
  <2>7. f \in w
    OBVIOUS
  <2> HIDE DEF d, w
  <2>8. Fine(<<d>> \o Tail(list), w)
    BY <2>1, <2>3, <2>3a, <2>5, <2>6, <2>7, FrontFine
  <2> QED BY <2>2, <2>8 DEF IInv, Rest, WithActive
<1> QED BY <1>1, <1>2

\* A handler ends with the list and the rest in order.
LEMMA HandlerKeeps ==
  ASSUME IInv, NEW handler, Done(handler),
         Fine(list', watched'), disk' \subseteq Files,
         wants' \subseteq Flags, picker' \in {"none", "open", "saveAs"},
         overwrite' \in Files \cup {NoFile},
         panel' \in {"none", "commands", "files", "diff"},
         native' \in BOOLEAN, moved' \in BOOLEAN, ShownFine(drawn')
  PROVE  IInv'
<1>1. /\ stage' \in Stages /\ (stage' = "editor" => list' # <<>>) /\ keys' \in -1 .. Batch
      /\ KeyFine(key)' /\ screen' = screen
  BY HandlerDone
<1>2. Rest'
  BY <1>1 DEF Rest
<1> QED BY <1>1, <1>2 DEF IInv

-----------------------------------------------------------------------------
(* The handlers. *)

LEMMA PollKeeps == ASSUME IInv, Poll PROVE IInv'
<1>1. Fine(list', watched')
  <2>1. CASE UNCHANGED documents
    BY <2>1 DEF IInv, documents
  <2>2. ASSUME NEW f \in Files, AddFilePath(f), watched' = watched \cup {f}
        PROVE  Fine(list', watched')
    BY <2>2, OpenFine
  <2> QED BY <2>1, <2>2 DEF Poll
<1>2. /\ disk' = disk /\ picker' \in {picker, "none"} /\ overwrite' \in {overwrite, NoFile}
      /\ moved' \in BOOLEAN /\ native' \in BOOLEAN
  BY DEF Poll, IInv, Rest, documents
<1>3. wants' \subseteq Flags /\ panel' = panel /\ drawn' = drawn /\ Done("poll")
  BY DEF Poll, IInv, Rest
<1> QED BY <1>1, <1>2, <1>3, HandlerKeeps DEF IInv, Rest

LEMMA PaletteKeeps == ASSUME IInv, Palette PROVE IInv'
BY HandlerKeeps DEF IInv, Rest, Palette, documents

LEMMA RequestFine ==
  ASSUME IInv, NEW command, Request(command)
  PROVE  /\ Fine(list', watched') /\ disk' \subseteq Files
         /\ wants' \subseteq Flags /\ picker' \in {"none", "open", "saveAs"}
         /\ overwrite' \in Files \cup {NoFile}
         /\ native' \in BOOLEAN /\ moved' \in BOOLEAN /\ ShownFine(drawn')
<1>1. Fine(list', watched')
  BY UntitledFine DEF IInv, Request
<1> QED BY <1>1 DEF IInv, Rest, Request

LEMMA MenuKeeps == ASSUME IInv, Menu PROVE IInv'
<1>1. Request(key.press) /\ panel' = panel /\ Done("menu")
  BY DEF Menu
<1> QED BY <1>1, RequestFine, HandlerKeeps DEF IInv, Rest

LEMMA HotkeyKeeps == ASSUME IInv, Hotkey PROVE IInv'
<1>1. Request(key.press) /\ panel' \in {panel, "files"} /\ Done("hotkey")
  BY DEF Hotkey
<1> QED BY <1>1, RequestFine, HandlerKeeps DEF IInv, Rest

LEMMA EditKeeps == ASSUME IInv, Edit PROVE IInv'
<1> DEFINE d == [Active EXCEPT !.dirty = TRUE]
<1>1. list # <<>>
  BY DEF IInv, Rest, Edit, At
<1>2. d \in Document /\ d.path = Active.path /\ d.id = Active.id
  BY <1>1, ActiveFacts DEF Document
<1>3. Fine(WithActive(d), watched)
  BY <1>1, <1>2, SameNameFine
<1>4. Fine(list', watched')
  BY <1>3 DEF Edit
<1> QED BY <1>4, HandlerKeeps DEF IInv, Rest, Edit, requests

LEMMA CloseCleanKeeps == ASSUME IInv, CloseClean PROVE IInv'
<1>1. Fine(list', watched')
  BY RemoveFine DEF IInv, CloseClean
<1> QED BY <1>1, HandlerKeeps DEF IInv, Rest, CloseClean

LEMMA AskBeforeCloseKeeps == ASSUME IInv, AskBeforeClose PROVE IInv'
<1>1. Fine(list', watched')
  BY RemoveFine DEF IInv, AskBeforeClose
<1>2. ShownFine(drawn')
  BY DrawnFine DEF AskBeforeClose, Dialogs
<1>3. wants' \subseteq Flags
  BY DEF IInv, Rest, AskBeforeClose, Flags
<1> QED BY <1>1, <1>2, <1>3, HandlerKeeps DEF IInv, Rest, AskBeforeClose

LEMMA ExitKeeps == ASSUME IInv, Exit PROVE IInv'
<1>1. Fine(list', watched')
  <2>1. PICK n \in 0..Len(list) :
          /\ list' = SubSeq(list, n + 1, Len(list))
          /\ watched' = watched \ {list[i].path : i \in 1..n}
    BY DEF Exit
  <2>2. /\ Fine(list', watched)
        /\ \A i \in 1..n : list[i].path \notin Paths(list')
    BY <2>1, SuffixFine DEF IInv
  <2>3. {list[i].path : i \in 1..n} \cap Paths(list') = {}
    BY <2>2
  <2> QED BY <2>1, <2>2, <2>3, LessWatched
<1>2. wants' \subseteq Flags
  BY DEF IInv, Rest, Exit, Flags
<1> QED BY <1>1, <1>2, HandlerKeeps DEF IInv, Rest, Exit

LEMMA SaveKeeps == ASSUME IInv, Save PROVE IInv'
<1>1. Fine(list', watched') /\ disk' \subseteq Files
  <2>1. CASE UNCHANGED documents
    BY <2>1 DEF IInv, Rest, documents
  <2>2. CASE /\ list # <<>> /\ Active.path # NoFile
             /\ list' = WithActive(SavedAs(Active, Active.path))
             /\ disk' = disk \cup {Active.path} /\ watched' = watched
    <3> DEFINE d == SavedAs(Active, Active.path)
    <3>1. d \in Document /\ d.path = Active.path /\ d.id = Active.id
      BY <2>2, ActiveFacts DEF SavedAs, Document
    <3>2. Active.path \in Files
      BY <2>2, ActiveFacts DEF Document
    <3> HIDE DEF d
    <3>3. Fine(WithActive(d), watched)
      BY <2>2, <3>1, SameNameFine
    <3> QED BY <2>2, <3>2, <3>3 DEF d, IInv, Rest
  <2> QED BY <2>1, <2>2 DEF Save
<1>2. /\ wants' \subseteq Flags /\ picker' \in {picker, "saveAs"} /\ panel' \in {panel, "diff"}
      /\ UNCHANGED <<overwrite, native, drawn, moved>> /\ Done("save")
  BY DEF IInv, Rest, Save
<1> QED BY <1>1, <1>2, HandlerKeeps DEF IInv, Rest

LEMMA WarnedFine ==
  ASSUME IInv, NEW f, NEW g, Draw({"picker"} \cup Warning(f) \cup Warning(g))
  PROVE  ShownFine(drawn')
<1>1. {"picker"} \cup Warning(f) \cup Warning(g) \subseteq Dialogs
  BY DEF Warning, Dialogs
<1> QED BY <1>1, DrawnFine

LEMMA PickerStaysKeeps == ASSUME IInv, PickerStays PROVE IInv'
<1>1. ShownFine(drawn')
  BY WarnedFine DEF PickerStays
<1>2. overwrite' \in Files \cup {NoFile}
  BY DEF IInv, Rest, KeyFine, PickerStays, Pressed
<1> QED BY <1>1, <1>2, HandlerKeeps DEF IInv, Rest, PickerStays, documents

LEMMA PickerDoneKeeps == ASSUME IInv, PickerDone PROVE IInv'
<1>1. ShownFine(drawn')
  <2>1. {"picker"} \cup Warning(overwrite) \subseteq Dialogs
    BY DEF Warning, Dialogs
  <2> QED BY <2>1, DrawnFine DEF PickerDone
<1>2. ASSUME NEW f \in Files, NEW name \in {f, Located}, name = f \/ LocatedPicks, DoIt(f, name)
      PROVE  Fine(list', watched') /\ disk' \subseteq Files
  <2>1. CASE picker = "open"
    <3>1. AddFilePath(f) /\ watched' = watched \cup {name} /\ disk' = disk
      BY <1>2, <2>1 DEF DoIt
    <3> QED BY <1>2, <3>1, OpenFine DEF IInv, Rest
  <2>2. CASE picker # "open"
    BY <1>2, <2>2, SaveAsFine DEF DoIt
  <2> QED BY <2>1, <2>2
<1>3. Fine(list', watched') /\ disk' \subseteq Files
  <2>1. CASE UNCHANGED documents
    BY <2>1 DEF IInv, Rest, documents
  <2>2. CASE Pressed("picker", "choose") /\ DoIt(key.file, key.file)
    BY <1>2, <2>2 DEF IInv, KeyFine, Pressed
  <2>3. CASE Pressed("picker", "locate") /\ DoIt(key.file, Located)
    BY <1>2, <2>3 DEF IInv, KeyFine, Pressed
  <2>4. CASE overwrite # NoFile /\ DoIt(overwrite, overwrite)
    BY <1>2, <2>4 DEF IInv, Rest
  <2> QED BY <2>1, <2>2, <2>3, <2>4 DEF PickerDone
<1>4. /\ picker' = "none" /\ overwrite' = NoFile
      /\ UNCHANGED <<wants, panel, native, moved>> /\ Done("picker")
  BY DEF PickerDone
<1> QED BY <1>1, <1>3, <1>4, HandlerKeeps DEF IInv, Rest

LEMMA ReloadSilentlyKeeps == ASSUME IInv, ReloadSilently PROVE IInv'
<1>1. Fine(list', watched')
  BY ReadFine DEF IInv, ReloadSilently
<1> QED BY <1>1, HandlerKeeps DEF IInv, Rest, ReloadSilently

LEMMA AskBeforeReloadKeeps == ASSUME IInv, AskBeforeReload PROVE IInv'
<1>1. Fine(list', watched')
  BY ReadFine DEF IInv, AskBeforeReload
<1>2. ShownFine(drawn')
  BY DrawnFine DEF AskBeforeReload, Dialogs
<1>3. wants' \subseteq Flags
  BY DEF IInv, Rest, AskBeforeReload
<1> QED BY <1>1, <1>2, <1>3, HandlerKeeps DEF IInv, Rest, AskBeforeReload

LEMMA PanelDoneKeeps == ASSUME IInv, PanelDone PROVE IInv'
<1>1. ShownFine(drawn')
  BY DrawnFine DEF PanelDone, Dialogs
<1>2. Fine(list', watched') /\ disk' \subseteq Files
  <2>1. CASE UNCHANGED documents
    BY <2>1 DEF IInv, Rest, documents
  <2>2. CASE /\ key.press = "choose" /\ AddFilePath(key.file)
             /\ watched' = watched \cup {key.file} /\ disk' = disk
    BY <2>2, OpenFine DEF IInv, Rest, KeyFine
  <2>3. CASE (\E i \in DOMAIN list : list' = ToFront(i)) /\ UNCHANGED <<disk, watched>>
    BY <2>3, ToFrontFine DEF IInv, Rest
  <2> QED BY <2>1, <2>2, <2>3 DEF PanelDone
<1>3. /\ wants' \subseteq Flags /\ picker' \in {picker, "saveAs"} /\ panel' = "none"
      /\ UNCHANGED <<overwrite, native, moved>> /\ Done("panel")
  BY DEF IInv, Rest, PanelDone, Flags
<1> QED BY <1>1, <1>2, <1>3, HandlerKeeps DEF IInv, Rest

LEMMA PanelCommandKeeps == ASSUME IInv, PanelCommand PROVE IInv'
<1>1. ShownFine(drawn')
  BY DrawnFine DEF PanelCommand, Dialogs
<1>2. Fine(list', watched')
  BY UntitledFine DEF IInv, PanelCommand
<1>3. /\ wants' \subseteq Flags /\ picker' \in {picker, "open", "saveAs"}
      /\ panel' \in {"files", "none"}
      /\ UNCHANGED <<disk, overwrite, native, moved>> /\ Done("panel")
  BY DEF IInv, Rest, PanelCommand
<1> QED BY <1>1, <1>2, <1>3, HandlerKeeps DEF IInv, Rest

LEMMA PanelStaysKeeps == ASSUME IInv, PanelStays PROVE IInv'
<1>1. ShownFine(drawn')
  BY DrawnFine DEF PanelStays, Dialogs
<1> QED BY <1>1, HandlerKeeps DEF IInv, Rest, PanelStays, documents, requests

\* The keys that can reach the window or a dialog.
LEMMA ReachableFine ==
  ASSUME IInv, NEW k \in Reachable
  PROVE  KeyFine(k)
<1>2. CASE k \in Key("palette", IF Pending < MaxPending THEN {"open"} ELSE {}, {NoFile})
  BY <1>2 DEF Key, KeyFine
<1>3. CASE k \in WindowKeys
  BY <1>3 DEF Key, KeyFine, WindowKeys, Offered, Commands
<1>4. ASSUME NEW q \in DOMAIN drawn, k \in DialogKeys(q)
      PROVE  KeyFine(k)
  <2>1. q \in {"close", "reload", "picker", "overwrite", "panel"}
    BY <1>4 DEF IInv, ShownFine, Dialogs
  <2>2. CASE q = "close"
    BY <1>4, <2>2 DEF DialogKeys, Key, KeyFine
  <2>3. CASE q = "reload"
    BY <1>4, <2>3 DEF DialogKeys, Key, KeyFine
  <2>4. CASE q = "picker"
    BY <1>4, <2>4 DEF DialogKeys, Key, KeyFine
  <2>5. CASE q = "overwrite"
    BY <1>4, <2>5 DEF DialogKeys, Key, KeyFine
  <2>6. CASE q = "panel"
    BY <1>4, <2>6 DEF DialogKeys, Key, KeyFine, Commands
  <2> QED BY <2>1, <2>2, <2>3, <2>4, <2>5, <2>6
<1> QED BY <1>2, <1>3, <1>4 DEF Reachable

LEMMA FrameKeeps == ASSUME IInv, Frame PROVE IInv'
<1>1. KeyFine(key)'
  <2>1. CASE key' = NoKey
    BY <2>1 DEF NoKey, KeyFine
  <2>2. CASE key' \in Reachable
    BY <2>2, ReachableFine DEF KeyFine
  <2> QED BY <2>1, <2>2 DEF Frame
<1>2. keys' \in -1 .. Batch
  BY OpenDocumentsAssumption DEF IInv, Rest, Frame
<1>3. stage' \in Stages /\ (stage' = "editor" => list' # <<>>)
  BY GoesOn DEF Frame
<1>4. ShownFine(drawn)' /\ ShownFine(screen)' /\ moved' \in BOOLEAN
  BY DEF IInv, ShownFine, Frame
<1> QED BY <1>1, <1>2, <1>3, <1>4 DEF IInv, Rest, Frame, documents, requests

LEMMA RenderKeeps == ASSUME IInv, Render PROVE IInv'
<1>1. ShownFine(screen)'
  BY DEF IInv, ShownFine, Render, Questions, Dialogs
<1> QED BY <1>1, OpenDocumentsAssumption DEF IInv, Rest, KeyFine, ShownFine, Render, documents, requests

LEMMA QuitKeeps == ASSUME IInv, Quit PROVE IInv'
BY DEF IInv, Rest, KeyFine, ShownFine, Stages, Quit, documents, requests

LEMMA OtherProgramKeeps == ASSUME IInv, OtherProgram PROVE IInv'
<1>1. list \in Seq(Document)
  BY DEF IInv, Fine
<1>2. PICK f \in Files :
        /\ disk' \subseteq disk \cup {f}
        /\ list' = [i \in DOMAIN list |->
              IF list[i].path = f /\ list[i].base = "current"
              THEN [list[i] EXCEPT !.base = "old"] ELSE list[i]]
  BY DEF OtherProgram
<1>3. \A i \in DOMAIN list :
        list'[i] \in Document /\ list'[i].path = list[i].path /\ list'[i].id = list[i].id
  <2> TAKE i \in DOMAIN list
  <2>1. list[i] \in Document /\ list'[i] \in {list[i], [list[i] EXCEPT !.base = "old"]}
    BY <1>1, <1>2
  <2> QED BY <2>1 DEF Document
<1>4. DOMAIN list' = DOMAIN list /\ list' \in Seq(Document) /\ Len(list') = Len(list)
  BY <1>1, <1>2, <1>3
<1>5. Fine(list', watched)
  <2> DEFINE at == [j \in DOMAIN list |-> j]
  <2>1. PICK t \in Seq(Document) : t = list'
    BY <1>4
  <2>2. \A j \in DOMAIN t :
          at[j] \in DOMAIN list /\ t[j].path = list[at[j]].path /\ t[j].id = list[at[j]].id
    BY <1>3, <1>4, <2>1
  <2>3. \A j, k \in DOMAIN t : at[j] = at[k] => j = k
    BY <1>4, <2>1
  <2>4. Len(t) <= Len(list) /\ Fine(list, watched)
    BY <1>1, <1>4, <2>1 DEF IInv
  <2> HIDE DEF at
  <2>5. Fine(t, watched)
    BY <2>2, <2>3, <2>4, Reordered
  <2> QED BY <2>1, <2>5
<1>6. Rest'
  BY <1>1, <1>2, <1>4 DEF IInv, Rest, OtherProgram, requests, frame
<1> QED BY <1>5, <1>6 DEF IInv, KeyFine, ShownFine, OtherProgram, frame

-----------------------------------------------------------------------------
LEMMA InitIInv == Init => IInv
<1> SUFFICES ASSUME Init PROVE IInv
  OBVIOUS
<1> DEFINE d == [id |-> 1, path |-> NoFile, dirty |-> FALSE, base |-> "absent"]
<1>1. d \in Document /\ d.path = NoFile
  BY OpenDocumentsAssumption DEF Document, Ids
<1>2. list = <<d>>
  BY DEF Init
<1> HIDE DEF d
<1>3. list \in Seq(Document) /\ Len(list) = 1 /\ DOMAIN list = {1} /\ list[1].path = NoFile
  BY <1>1, <1>2
<1>4. Fine(list, watched)
  BY <1>3, OpenDocumentsAssumption DEF Init, Fine, Differ, Paths
<1>5. Rest
  <2>1. 0 \in -1 .. Batch /\ "idle" \in Stages
    BY OpenDocumentsAssumption DEF Stages
  <2> QED BY <2>1 DEF Init, Rest
<1>6. KeyFine(key) /\ ShownFine(drawn) /\ ShownFine(screen)
  BY DEF Init, KeyFine, ShownFine, NoKey
<1> QED BY <1>4, <1>5, <1>6 DEF IInv

LEMMA NextIInv == IInv /\ [Next]_vars => IInv'
<1> SUFFICES ASSUME IInv, [Next]_vars PROVE IInv'
  OBVIOUS
<1>1. CASE UNCHANGED vars
  BY <1>1 DEF IInv, Rest, KeyFine, ShownFine, vars, documents, requests, frame
<1>2. CASE FrameStep
  BY <1>2, FrameKeeps, PollKeeps, PaletteKeeps, MenuKeeps, EditKeeps, CloseCleanKeeps,
     AskBeforeCloseKeeps, ExitKeeps, PickerStaysKeeps, PickerDoneKeeps, SaveKeeps,
     ReloadSilentlyKeeps, AskBeforeReloadKeeps, PanelDoneKeeps, PanelCommandKeeps,
     PanelStaysKeeps, HotkeyKeeps, RenderKeeps, QuitKeeps DEF FrameStep
<1>3. CASE OtherProgram
  BY <1>3, OtherProgramKeeps
<1> QED BY <1>1, <1>2, <1>3 DEF Next

LEMMA AlwaysIInv == Spec => []IInv
BY InitIInv, NextIInv, PTL DEF Spec

\* No two open documents have the same path, however often files are opened,
\* saved under other names, reloaded and closed (add_file_path, save_file_picker).
THEOREM PathsStayDistinct == Spec => []DistinctPaths
<1>1. IInv => TypeOK
  BY DEF IInv, Fine, Rest, KeyFine, ShownFine, Stages, TypeOK
<1>2. IInv => DistinctPaths
  BY <1>1 DEF IInv, Fine, Differ, DistinctPaths
<1> QED BY <1>2, AlwaysIInv, PTL

\* Every open document that has a path is registered with the watcher, if nobody
\* types file:line into the picker (FileWatcher::watch, unwatch and their callers).
THEOREM OpenFilesStayWatched == ASSUME ~LocatedPicks PROVE Spec => []OpenFilesAreWatched
<1>1. IInv => OpenFilesAreWatched
  BY DEF IInv, Fine, OpenFilesAreWatched
<1> QED BY <1>1, AlwaysIInv, PTL
-----------------------------------------------------------------------------
(***************************************************************************)
(* Unsaved edits, with one key to a read of the terminal.  In the frame    *)
(* that serves a key, the question the key answers is still the one on the *)
(* terminal, and about the active document, until its handler has run or   *)
(* another document came to the front.                                     *)
(***************************************************************************)

\* The handlers up to the one of question q.
Early(q) == {Handlers[j] : j \in 1 .. (IF q = "close" THEN 5 ELSE 9)}

\* The terminal asks q about the active document.
Shown(q) == q \in DOMAIN screen /\ screen[q] = ActiveId

DrawnQuestions == Questions \cap DOMAIN drawn

\* In a frame without a key: the questions drawn are about the active document,
\* and closing waits for its unsaved edits.
KeylessFrame ==
  /\ key = NoKey
  /\ \A q \in DrawnQuestions : stage \notin Early(q) /\ drawn[q] = ActiveId
  /\ stage = "exit" /\ "close" \in DrawnQuestions => list # <<>> /\ Active.dirty

\* Before the frame of a key: the dialogs that are drawn are on the terminal.
BeforeKey == stage = "idle" /\ \A q \in DrawnQuestions : Shown(q)

\* In the frame of a key that answers a question.
KeyFrame == \A q \in Questions : key.to = q /\ stage \in Early(q) => Shown(q)

Asking ==
  /\ stage \in {"palette", "menu", "editor", "hotkey"} => key.to = stage
  /\ keys = -1 => KeylessFrame
  /\ keys = 1 => BeforeKey
  /\ keys = 0 /\ ~moved => KeyFrame

\* Handlers run in their order, each when it is due.
LEMMA GoesLater ==
  ASSUME NEW from \in 0..11, NEW k, GoOn(from, k)
  PROVE  \/ stage' = "idle"
         \/ \E j \in from + 1..11 : stage' = Handlers[j] /\ Due(Handlers[j], k)
<1> DEFINE later == {i \in from + 1 .. Len(Handlers) : Due(Handlers[i], k)}
<1>1. Len(Handlers) = 11
  BY DEF Handlers
<1>2. later \in SUBSET Nat /\ later \subseteq from + 1..11
  BY <1>1
<1>3. stage' = IF later = {} THEN "idle" ELSE Handlers[CHOOSE i \in later : \A j \in later : i <= j]
  BY DEF GoOn
<1>4. \A i \in later : Due(Handlers[i], k)
  OBVIOUS
<1> HIDE DEF later
<1>5. CASE later # {}
  <2>1. (CHOOSE i \in later : \A j \in later : i <= j) \in later
    BY <1>2, <1>5, LeastMember
  <2> QED BY <1>2, <1>3, <1>4, <1>5, <2>1
<1> QED BY <1>3, <1>5

LEMMA HandlersDiffer ==
  /\ DOMAIN Handlers = 1..11
  /\ \A i, j \in 1..11 : Handlers[i] = Handlers[j] => i = j
  /\ \A i \in 1..11 : Handlers[i] \notin {"idle", "exited"}
BY DEF Handlers

LEMMA DoneLater ==
  ASSUME NEW i \in 1..11, Done(Handlers[i])
  PROVE  /\ keys' = keys /\ screen' = screen
         /\ \/ stage' = "idle" /\ key' = NoKey
            \/ /\ key' = key
               /\ \E j \in i + 1..11 : stage' = Handlers[j] /\ Due(Handlers[j], key)
<1>1. PICK h \in DOMAIN Handlers : Handlers[h] = Handlers[i] /\ GoOn(h, key)
  BY DEF Done
<1>2. h = i
  BY <1>1, HandlersDiffer
<1>3. GoOn(i, key) /\ i \in 0..11
  BY <1>1, <1>2
<1>4. \/ stage' = "idle"
      \/ \E j \in i + 1..11 : stage' = Handlers[j] /\ Due(Handlers[j], key)
  BY <1>3, GoesLater
<1>5. \A j \in i + 1..11 : Handlers[j] # "idle"
  BY HandlersDiffer
<1> QED BY <1>4, <1>5 DEF Done

\* A handler leaves the active document alone, or brings another one to the front
\* before any question is drawn, or serves a key that answers no question - or this one.
LEMMA AskingGoesOn ==
  ASSUME Batch = 1, IInv, Asking, NEW i \in 1..11, stage = Handlers[i], Done(Handlers[i]),
         \/ ActiveId' = ActiveId /\ (moved => moved')
         \/ moved' /\ drawn' = drawn /\ (keys = -1 => DrawnQuestions = {})
         \/ key.to \notin {"none", "close", "reload"}
         \/ key.to = "close" /\ i = 5,
         \A q \in DrawnQuestions' :
           \/ q \in DrawnQuestions /\ drawn'[q] = drawn[q]
           \/ drawn'[q] = ActiveId /\ Handlers[i] = q,
         keys = -1 /\ i = 5 /\ "close" \in DrawnQuestions' => list' # <<>> /\ Active'.dirty
  PROVE  Asking'
<1>1. /\ keys' = keys /\ screen' = screen
      /\ \/ stage' = "idle" /\ key' = NoKey
         \/ /\ key' = key
            /\ \E j \in i + 1..11 : stage' = Handlers[j] /\ Due(Handlers[j], key)
  BY DoneLater
<1>2. keys \in {-1, 0, 1}
  BY DEF IInv, Rest
<1>3. keys # 1
  BY HandlersDiffer DEF Asking, BeforeKey
<1>4. stage' \in {"palette", "menu", "editor", "hotkey"} => key'.to = stage'
  BY <1>1 DEF Due
<1>5. \A q \in Questions : stage' \in Early(q) => stage \in Early(q) /\ key' = key
  <2> SUFFICES ASSUME NEW q \in Questions, stage' \in Early(q)
               PROVE  stage \in Early(q) /\ key' = key
    OBVIOUS
  <2>1. PICK b \in {5, 9} : Early(q) = {Handlers[j] : j \in 1..b}
    BY DEF Early
  <2>2. PICK j \in 1..b : stage' = Handlers[j]
    BY <2>1
  <2>3. stage' # "idle"
    BY <2>1, <2>2, HandlersDiffer
  <2>4. PICK k \in i + 1..11 : stage' = Handlers[k]
    BY <1>1, <2>3
  <2>5. j = k
    <3>1. j \in 1..11 /\ k \in 1..11
      BY <2>1
    <3> QED BY <2>2, <2>4, <3>1, HandlersDiffer
  <2>6. i \in 1..b
    BY <2>1, <2>4, <2>5
  <2> QED BY <1>1, <2>1, <2>3, <2>6
<1>6. \A q \in Questions : Handlers[i] = q => stage' \notin Early(q)
  <2> SUFFICES ASSUME NEW q \in Questions, Handlers[i] = q, stage' \in Early(q)
               PROVE  FALSE
    OBVIOUS
  <2>1. PICK b \in {5, 9} : Early(q) = {Handlers[j] : j \in 1..b} /\ Handlers[b] = q
    BY DEF Early, Questions, Handlers
  <2>2. i = b
    BY <2>1, HandlersDiffer
  <2>3. PICK j \in 1..b : stage' = Handlers[j]
    BY <2>1
  <2>4. stage' # "idle"
    BY <2>1, <2>3, HandlersDiffer
  <2>5. PICK k \in i + 1..11 : stage' = Handlers[k]
    BY <1>1, <2>4
  <2>6. j = k
    BY <2>1, <2>3, <2>5, HandlersDiffer
  <2> QED BY <2>1, <2>2, <2>3, <2>5, <2>6
<1>7. ASSUME keys = -1
      PROVE  KeylessFrame'
  <2>1. KeylessFrame
    BY <1>7 DEF Asking
  <2>2. key = NoKey /\ key' = NoKey
    BY <1>1, <2>1 DEF KeylessFrame
  <2>3. ActiveId' = ActiveId \/ DrawnQuestions' = {}
    BY <1>7, <2>2 DEF NoKey, DrawnQuestions
  <2>4. \A q \in DrawnQuestions' : stage' \notin Early(q) /\ drawn'[q] = ActiveId'
    <3> SUFFICES ASSUME NEW q \in DrawnQuestions'
                 PROVE  stage' \notin Early(q) /\ drawn'[q] = ActiveId'
      OBVIOUS
    <3>0. q \in Questions
      BY DEF DrawnQuestions
    <3>1. CASE q \in DrawnQuestions /\ drawn'[q] = drawn[q]
      BY <1>5, <2>1, <2>3, <3>0, <3>1 DEF KeylessFrame
    <3>2. CASE drawn'[q] = ActiveId /\ Handlers[i] = q
      BY <1>6, <2>3, <3>0, <3>2
    <3> QED BY <3>1, <3>2
  <2>5. stage' = "exit" /\ "close" \in DrawnQuestions' => list' # <<>> /\ Active'.dirty
    <3> SUFFICES ASSUME stage' = "exit", "close" \in DrawnQuestions'
                 PROVE  i = 5
      BY <1>7
    <3>1. PICK j \in i + 1..11 : stage' = Handlers[j]
      BY <1>1
    <3>2. j = 6
      BY <3>1, HandlersDiffer DEF Handlers
    <3>3. i # 5 => stage \in Early("close") /\ Handlers[i] # "close"
      BY <3>1, <3>2 DEF Early, Handlers
    <3> QED BY <2>1, <3>3 DEF KeylessFrame
  <2> QED BY <2>2, <2>4, <2>5 DEF KeylessFrame
<1>8. ASSUME keys = 0, ~moved'
      PROVE  KeyFrame'
  <2> SUFFICES ASSUME NEW q \in Questions, key'.to = q, stage' \in Early(q)
               PROVE  Shown(q)'
    BY DEF KeyFrame
  <2>1. stage \in Early(q) /\ key' = key
    BY <1>5
  <2>2. ~(key.to = "close" /\ i = 5)
    BY <1>6, <2>1 DEF Handlers
  <2>3. ActiveId' = ActiveId /\ ~moved
    BY <1>8, <2>1, <2>2 DEF Questions
  <2>4. Shown(q)
    BY <1>8, <2>1, <2>3 DEF Asking, KeyFrame
  <2> QED BY <1>1, <2>3, <2>4 DEF Shown
<1> QED BY <1>1, <1>2, <1>3, <1>4, <1>7, <1>8 DEF Asking

-----------------------------------------------------------------------------
(* What the operations do to the active document and to unsaved edits. *)

AllStay == \A i \in DOMAIN list : list[i].dirty => Stays(list[i])

\* The active document is replaced by d.
LEMMA WithActiveStays ==
  ASSUME IInv, list # <<>>, NEW d \in Document, d.id = Active.id, list' = WithActive(d)
  PROVE  /\ DOMAIN list' = DOMAIN list /\ 1 \in DOMAIN list /\ list'[1] = d
         /\ \A j \in DOMAIN list : j # 1 => list'[j] = list[j]
         /\ list' # <<>> /\ Active' = d /\ ActiveId' = ActiveId
         /\ AllStay
<1>1. list \in Seq(Document) /\ Len(list) \in Nat \ {0} /\ DOMAIN list = 1..Len(list)
  BY DEF IInv, Fine
<1>2. PICK t : t = <<d>> \o Tail(list)
  OBVIOUS
<1>3. /\ t \in Seq(Document) /\ DOMAIN t = 1..Len(list) /\ t[1] = d
      /\ \A j \in 2..Len(list) : t[j] = list[j]
  BY <1>1, <1>2
<1>4. list' = t
  BY <1>2 DEF WithActive
<1>5. list' # <<>> /\ Active' = d /\ ActiveId' = ActiveId
  BY <1>1, <1>3, <1>4 DEF Active, ActiveId
<1>6. \A j \in DOMAIN list : j # 1 => list'[j] = list[j]
  BY <1>1, <1>3, <1>4
<1>7. AllStay
  BY <1>1, <1>3, <1>4, <1>6 DEF AllStay, Stays, Active
<1> QED BY <1>1, <1>3, <1>4, <1>5, <1>6, <1>7

\* A document in front of others.
LEMMA InFrontStays ==
  ASSUME IInv, NEW d \in Document, NEW s \in Seq(Document), list' = <<d>> \o s,
         \A i \in DOMAIN list : list[i].dirty => \E j \in DOMAIN s : s[j].id = list[i].id
  PROVE  AllStay
<1>1. PICK t : t = <<d>> \o s
  OBVIOUS
<1>2. DOMAIN s = 1..Len(s) /\ Len(s) \in Nat
  OBVIOUS
<1>3. DOMAIN t = 1..Len(s) + 1 /\ \A j \in 1..Len(s) : t[j + 1] = s[j]
  BY <1>1, <1>2
<1>4. \A j \in DOMAIN s : j + 1 \in DOMAIN t /\ t[j + 1].id = s[j].id
  BY <1>2, <1>3
<1>5. \A i \in DOMAIN list : list[i].dirty => \E j \in DOMAIN t : t[j].id = list[i].id
  BY <1>4
<1>6. list' = t
  BY <1>1
<1> QED BY <1>5, <1>6 DEF AllStay, Stays

\* The first n documents, which are clean, are closed.
LEMMA SuffixStays ==
  ASSUME IInv, NEW n \in 0..Len(list), \A i \in 1..n : ~list[i].dirty,
         list' = SubSeq(list, n + 1, Len(list))
  PROVE  AllStay
<1>1. list \in Seq(Document) /\ Len(list) \in Nat /\ DOMAIN list = 1..Len(list)
  BY DEF IInv, Fine
<1>2. PICK t : t = SubSeq(list, n + 1, Len(list))
  OBVIOUS
<1>3. DOMAIN t = 1..Len(list) - n /\ \A j \in 1..Len(list) - n : t[j] = list[j + n]
  BY <1>1, <1>2
<1>4. ASSUME NEW i \in DOMAIN list, list[i].dirty
      PROVE  \E j \in DOMAIN t : t[j] = list[i]
  <2>1. i - n \in 1..Len(list) - n /\ (i - n) + n = i
    BY <1>1, <1>4
  <2> QED BY <1>3, <2>1
<1>5. list' = t
  BY <1>2
<1> QED BY <1>4, <1>5 DEF AllStay, Stays

LEMMA TailStays ==
  ASSUME IInv, list # <<>>, NEW t, t = Tail(list), NEW i \in DOMAIN list, i # 1
  PROVE  \E j \in DOMAIN t : t[j] = list[i]
<1>1. list \in Seq(Document) /\ Len(list) \in Nat \ {0} /\ DOMAIN list = 1..Len(list)
  BY DEF IInv, Fine
<1>2. DOMAIN t = 1..Len(list) - 1 /\ \A j \in 1..Len(list) - 1 : t[j] = list[j + 1]
  BY <1>1
<1>3. i - 1 \in 1..Len(list) - 1 /\ (i - 1) + 1 = i
  BY <1>1
<1> QED BY <1>2, <1>3

LEMMA ToFrontStays ==
  ASSUME IInv, NEW k \in DOMAIN list, list' = ToFront(k)
  PROVE  AllStay
<1>1. list \in Seq(Document) /\ k \in 1..Len(list) /\ Len(list) \in Nat /\ DOMAIN list = 1..Len(list)
  BY DEF IInv, Fine
<1>2. PICK t : t = ToFront(k)
  OBVIOUS
<1>3. /\ t \in Seq(Document) /\ Len(t) = Len(list) /\ t[1] = list[k]
      /\ \A j \in 2..k : t[j] = list[j - 1]
      /\ \A j \in k + 1..Len(list) : t[j] = list[j]
  BY <1>2, ToFrontElements DEF IInv
<1>4. ASSUME NEW i \in DOMAIN list
      PROVE  \E j \in DOMAIN t : t[j] = list[i]
  <2>1. CASE i = k
    BY <1>1, <1>3, <2>1
  <2>2. CASE i < k
    <3>1. i + 1 \in 2..k /\ (i + 1) - 1 = i /\ i + 1 \in DOMAIN t
      BY <1>1, <1>3, <2>2
    <3> QED BY <1>3, <3>1
  <2>3. CASE i > k
    BY <1>1, <1>3, <2>3
  <2> QED BY <1>1, <2>1, <2>2, <2>3
<1>5. list' = t
  BY <1>2
<1> QED BY <1>4, <1>5 DEF AllStay, Stays

LEMMA UntitledStays ==
  ASSUME IInv, AddUntitled
  PROVE  AllStay
<1> DEFINE d == [id |-> NewId, path |-> NoFile, dirty |-> FALSE, base |-> "absent"]
<1>1. d \in Document
  BY NewIdIsFree DEF Document
<1>2. list \in Seq(Document) /\ list' = <<d>> \o list
  BY DEF IInv, Fine, AddUntitled
<1> HIDE DEF d
<1> QED BY <1>1, <1>2, InFrontStays

LEMMA OpenStays ==
  ASSUME IInv, NEW f \in Files, AddFilePath(f)
  PROVE  AllStay
<1>1. CASE f \in Paths(list)
  BY <1>1, ToFrontStays DEF AddFilePath
<1>2. CASE f \notin Paths(list)
  <2> DEFINE d == [id |-> NewId, path |-> f, dirty |-> FALSE,
                   base |-> IF f \in disk THEN "current" ELSE "absent"]
  <2>1. d \in Document
    BY NewIdIsFree DEF Document
  <2>2. list' = <<d>> \o Kept
    BY <1>2 DEF AddFilePath
  <2> HIDE DEF d
  <2>3. PICK s : s = Kept
    OBVIOUS
  <2>4. s \in Seq(Document)
    <3>1. list \in Seq(Document)
      BY DEF IInv, Fine
    <3> QED BY <2>3, <3>1 DEF Kept, Pristine
  <2>5. \A i \in DOMAIN list : list[i].dirty => \E j \in DOMAIN s : s[j] = list[i]
    <3>1. CASE Pristine
      <4>1. list # <<>> /\ ~list[1].dirty /\ s = Tail(list)
        BY <2>3, <3>1 DEF Pristine, Kept, Active
      <4> QED BY <4>1, TailStays
    <3>2. CASE ~Pristine
      BY <2>3, <3>2 DEF Kept
    <3> QED BY <3>1, <3>2
  <2>6. \A i \in DOMAIN list : list[i].dirty => \E j \in DOMAIN s : s[j].id = list[i].id
    BY <2>5
  <2> QED BY <2>1, <2>2, <2>3, <2>4, <2>6, InFrontStays
<1> QED BY <1>1, <1>2

LEMMA SaveAsStays ==
  ASSUME IInv, NEW f \in Files, SaveAndWatch(f)
  PROVE  AllStay
<1>1. CASE list = <<>>
  BY <1>1 DEF SaveAndWatch, documents, AllStay, Stays
<1>2. CASE list # <<>>
  <2> DEFINE d == SavedAs(Active, f)
  <2>1. d \in Document /\ d.id = Active.id
    BY <1>2, ActiveFacts DEF SavedAs, Document
  <2>2. list' = WithActive(d)
    BY <1>2 DEF SaveAndWatch
  <2> HIDE DEF d
  <2> QED BY <1>2, <2>1, <2>2, WithActiveStays
<1> QED BY <1>1, <1>2

-----------------------------------------------------------------------------
(* The handlers, one by one. *)

EditsAsked ==
  \A i \in DOMAIN list : list[i].dirty /\ ~moved =>
    /\ ~Stays(list[i]) => Asked("close", list[i])
    /\ ReadOver(list[i]) => Asked("reload", list[i])

LEMMA SameListStays ==
  ASSUME IInv, list' = list
  PROVE  EditsAsked /\ ActiveId' = ActiveId
<1>1. ActiveId' = ActiveId
  BY DEF ActiveId, Active
<1>2. ASSUME NEW i \in DOMAIN list, list[i].dirty
      PROVE  Stays(list[i]) /\ ~ReadOver(list[i])
  <2>1. Differ(list)
    BY DEF IInv, Fine
  <2> QED BY <1>2, <2>1 DEF Stays, ReadOver, Differ
<1> QED BY <1>1, <1>2 DEF EditsAsked

\* Outside of the reload handler nothing is read over.
LEMMA StaysAsked ==
  ASSUME AllStay, stage # "reload"
  PROVE  EditsAsked
BY DEF AllStay, EditsAsked, ReadOver

LEMMA DrawQuestions ==
  ASSUME NEW dialogs, Draw(dialogs)
  PROVE  \A q \in DrawnQuestions' :
           \/ q \in DrawnQuestions /\ drawn'[q] = drawn[q]
           \/ q \in dialogs /\ drawn'[q] = ActiveId
BY DEF Draw, DrawnQuestions

\* A handler that leaves the active document where it is.
LEMMA SameActiveAsks ==
  ASSUME Batch = 1, IInv, Asking, NEW i \in 1..11, i # 5, stage = Handlers[i], Done(Handlers[i]),
         ActiveId' = ActiveId, moved' = moved,
         \A q \in DrawnQuestions' :
           \/ q \in DrawnQuestions /\ drawn'[q] = drawn[q]
           \/ drawn'[q] = ActiveId /\ Handlers[i] = q
  PROVE  Asking'
BY AskingGoesOn

\* A handler that serves a key which answers no question.
LEMMA OtherKeyAsks ==
  ASSUME Batch = 1, IInv, Asking, NEW i \in 1..11, i # 5, stage = Handlers[i], Done(Handlers[i]),
         key.to \notin {"none", "close", "reload"},
         \A q \in DrawnQuestions' :
           \/ q \in DrawnQuestions /\ drawn'[q] = drawn[q]
           \/ drawn'[q] = ActiveId /\ Handlers[i] = q
  PROVE  Asking'
BY AskingGoesOn

\* Before closing no question is drawn in a frame without a key.
LEMMA NoneDrawn ==
  ASSUME Asking, stage \in {"poll", "close"}, keys = -1
  PROVE  DrawnQuestions = {}
<1>1. \A q \in Questions : stage \in Early(q)
  BY DEF Questions, Early, Handlers
<1> QED BY <1>1 DEF Asking, KeylessFrame, DrawnQuestions

LEMMA PollAsks ==
  ASSUME Batch = 1, IInv, Asking, Poll
  PROVE  Asking' /\ EditsAsked
<1>1. stage = "poll" /\ Handlers[1] = "poll" /\ 1 \in 1..11 /\ Done("poll") /\ drawn' = drawn
  BY DEF Poll, At, Handlers
<1>2. \A q \in DrawnQuestions' : q \in DrawnQuestions /\ drawn'[q] = drawn[q]
  BY <1>1 DEF DrawnQuestions
<1>3. CASE UNCHANGED documents /\ moved' = moved
  <2>1. EditsAsked /\ ActiveId' = ActiveId
    BY <1>3, SameListStays DEF documents
  <2> QED BY <1>1, <1>2, <1>3, <2>1, SameActiveAsks
<1>4. CASE moved' = TRUE /\ \E f \in Files : AddFilePath(f)
  <2>1. AllStay
    BY <1>4, OpenStays
  <2>2. keys = -1 => DrawnQuestions = {}
    BY <1>1, NoneDrawn
  <2>3. Asking'
    BY <1>1, <1>2, <1>4, <2>2, AskingGoesOn
  <2> QED BY <1>1, <2>1, <2>3, StaysAsked
<1> QED BY <1>3, <1>4 DEF Poll

LEMMA PaletteAsks ==
  ASSUME Batch = 1, IInv, Asking, Palette
  PROVE  Asking' /\ EditsAsked
<1>1. stage = "palette" /\ Handlers[2] = "palette" /\ 2 \in 1..11 /\ Done("palette")
  BY DEF Palette, At, Handlers
<1>2. \A q \in DrawnQuestions' : q \in DrawnQuestions /\ drawn'[q] = drawn[q]
  BY DEF Palette, DrawnQuestions
<1>3. EditsAsked /\ ActiveId' = ActiveId /\ moved' = moved
  BY SameListStays DEF Palette, documents
<1> QED BY <1>1, <1>2, <1>3, SameActiveAsks

LEMMA RequestStays ==
  ASSUME IInv, NEW command, Request(command)
  PROVE  AllStay
<1>1. CASE UNCHANGED list
  BY <1>1 DEF AllStay, Stays
<1> QED BY <1>1, UntitledStays DEF Request

LEMMA MenuAsks ==
  ASSUME Batch = 1, IInv, Asking, Menu
  PROVE  Asking' /\ EditsAsked
<1>1. stage = "menu" /\ Handlers[3] = "menu" /\ 3 \in 1..11 /\ Done("menu")
  BY DEF Menu, At, Handlers
<1>2. \A q \in DrawnQuestions' : q \in DrawnQuestions /\ drawn'[q] = drawn[q]
  BY DEF Menu, Request, DrawnQuestions
<1>3. key.to = "menu"
  BY <1>1 DEF Asking
<1>4. AllStay
  BY RequestStays DEF Menu
<1>5. Asking'
  BY <1>1, <1>2, <1>3, OtherKeyAsks
<1> QED BY <1>1, <1>4, <1>5, StaysAsked

LEMMA HotkeyAsks ==
  ASSUME Batch = 1, IInv, Asking, Hotkey
  PROVE  Asking' /\ EditsAsked
<1>1. stage = "hotkey" /\ Handlers[11] = "hotkey" /\ 11 \in 1..11 /\ Done("hotkey")
  BY DEF Hotkey, At, Handlers
<1>2. \A q \in DrawnQuestions' : q \in DrawnQuestions /\ drawn'[q] = drawn[q]
  BY DEF Hotkey, Request, DrawnQuestions
<1>3. key.to = "hotkey"
  BY <1>1 DEF Asking
<1>4. AllStay
  BY RequestStays DEF Hotkey
<1>5. Asking'
  BY <1>1, <1>2, <1>3, OtherKeyAsks
<1> QED BY <1>1, <1>4, <1>5, StaysAsked

LEMMA EditAsks ==
  ASSUME Batch = 1, IInv, Asking, Edit
  PROVE  Asking' /\ EditsAsked
<1> DEFINE d == [Active EXCEPT !.dirty = TRUE]
<1>1. stage = "editor" /\ Handlers[4] = "editor" /\ 4 \in 1..11 /\ Done("editor") /\ list # <<>>
  BY DEF Edit, At, Handlers, IInv, Rest
<1>2. \A q \in DrawnQuestions' : q \in DrawnQuestions /\ drawn'[q] = drawn[q]
  BY DEF Edit, DrawnQuestions
<1>3. key.to = "editor"
  BY <1>1 DEF Asking
<1>4. d \in Document /\ d.id = Active.id
  BY <1>1, ActiveFacts DEF Document
<1>5. list' = WithActive(d)
  BY DEF Edit
<1> HIDE DEF d
<1>6. AllStay
  BY <1>1, <1>4, <1>5, WithActiveStays
<1>7. Asking'
  BY <1>1, <1>2, <1>3, OtherKeyAsks
<1> QED BY <1>1, <1>6, <1>7, StaysAsked

\* The active document, if it is clean, is removed: no edits go.
LEMMA RemoveCleanStays ==
  ASSUME IInv, list # <<>>, ~Active.dirty, list' = Tail(list)
  PROVE  AllStay
<1>1. PICK t : t = Tail(list)
  OBVIOUS
<1>2. \A i \in DOMAIN list : list[i].dirty => \E j \in DOMAIN t : t[j] = list[i]
  BY <1>1, TailStays DEF Active
<1> QED BY <1>1, <1>2 DEF AllStay, Stays

LEMMA CloseCleanAsks ==
  ASSUME Batch = 1, IInv, Asking, CloseClean
  PROVE  Asking' /\ EditsAsked
<1>1. stage = "close" /\ Handlers[5] = "close" /\ 5 \in 1..11 /\ Done("close") /\ drawn' = drawn
  BY DEF CloseClean, At, Handlers
<1>2. \A q \in DrawnQuestions' : q \in DrawnQuestions /\ drawn'[q] = drawn[q]
  BY <1>1 DEF DrawnQuestions
<1>3. keys = -1 => DrawnQuestions = {} /\ DrawnQuestions' = {}
  BY <1>1, NoneDrawn DEF DrawnQuestions
<1>4. CASE list' = list /\ moved' = moved
  <2>1. EditsAsked /\ ActiveId' = ActiveId
    BY <1>4, SameListStays
  <2>2. Asking'
    BY <1>1, <1>2, <1>3, <1>4, <2>1, AskingGoesOn
  <2> QED BY <2>1, <2>2
<1>5. CASE list # <<>> /\ ~Active.dirty /\ list' = Tail(list) /\ moved'
  <2>1. AllStay
    BY <1>5, RemoveCleanStays
  <2>2. Asking'
    BY <1>1, <1>2, <1>3, <1>5, AskingGoesOn
  <2> QED BY <1>1, <2>1, <2>2, StaysAsked
<1> QED BY <1>4, <1>5 DEF CloseClean, RemoveActive

LEMMA AskBeforeCloseAsks ==
  ASSUME Batch = 1, IInv, Asking, AskBeforeClose
  PROVE  Asking' /\ EditsAsked
<1>1. /\ stage = "close" /\ Handlers[5] = "close" /\ 5 \in 1..11 /\ Done("close")
      /\ list # <<>> /\ Active.dirty /\ moved' = moved /\ Draw({"close"})
  BY DEF AskBeforeClose, At, Handlers
<1>2. \A q \in DrawnQuestions' :
        \/ q \in DrawnQuestions /\ drawn'[q] = drawn[q]
        \/ drawn'[q] = ActiveId /\ Handlers[5] = q
  BY <1>1, DrawQuestions
<1>3. CASE list' = list
  <2>1. EditsAsked /\ ActiveId' = ActiveId
    BY <1>3, SameListStays
  <2>2. list' # <<>> /\ Active'.dirty
    BY <1>1, <1>3 DEF Active
  <2>3. Asking'
    BY <1>1, <1>2, <2>1, <2>2, AskingGoesOn
  <2> QED BY <2>1, <2>3
<1>4. CASE key.to = "close" /\ list' = Tail(list)
  <2>1. keys # -1
    BY <1>4 DEF Asking, KeylessFrame, NoKey
  <2>2. Asking'
    BY <1>1, <1>2, <1>4, <2>1, AskingGoesOn
  <2>3. ~moved => Asked("close", Active)
    <3>1. stage \in Early("close") /\ "close" \in Questions
      BY <1>1 DEF Early, Questions
    <3>2. keys \in {-1, 0, 1} /\ keys # 1
      BY <1>1 DEF IInv, Rest, Asking, BeforeKey
    <3>3. ~moved => Shown("close")
      BY <1>4, <2>1, <3>1, <3>2 DEF Asking, KeyFrame
    <3> QED BY <1>1, <3>3 DEF Shown, Asked, ActiveId
  <2>4. PICK t : t = Tail(list)
    OBVIOUS
  <2>5. \A i \in DOMAIN list : i # 1 => \E j \in DOMAIN t : t[j] = list[i]
    BY <1>1, <2>4, TailStays
  <2>6. \A i \in DOMAIN list : i # 1 => Stays(list[i])
    BY <1>4, <2>4, <2>5 DEF Stays
  <2>7. EditsAsked
    BY <1>1, <2>3, <2>6 DEF EditsAsked, ReadOver, Active
  <2> QED BY <2>2, <2>7
<1> QED BY <1>3, <1>4 DEF AskBeforeClose, RemoveActive, Pressed

LEMMA ExitAsks ==
  ASSUME Batch = 1, IInv, Asking, Exit
  PROVE  Asking' /\ EditsAsked
<1>1. stage = "exit" /\ Handlers[6] = "exit" /\ 6 \in 1..11 /\ Done("exit") /\ drawn' = drawn
  BY DEF Exit, At, Handlers
<1>2. \A q \in DrawnQuestions' : q \in DrawnQuestions /\ drawn'[q] = drawn[q]
  BY <1>1 DEF DrawnQuestions
<1>3. PICK n \in 0 .. Len(list) :
        /\ \A i \in 1 .. n : ~list[i].dirty
        /\ list' = SubSeq(list, n + 1, Len(list))
        /\ moved' = (moved \/ n > 0)
  BY DEF Exit
<1>4. list \in Seq(Document) /\ Len(list) \in Nat /\ DOMAIN list = 1..Len(list)
  BY DEF IInv, Fine
<1>5. CASE n = 0
  <2>1. list' = list
    BY <1>3, <1>4, <1>5
  <2>2. EditsAsked /\ ActiveId' = ActiveId
    BY <2>1, SameListStays
  <2>3. moved => moved'
    BY <1>3
  <2>4. Asking'
    BY <1>1, <1>2, <2>2, <2>3, AskingGoesOn
  <2> QED BY <2>2, <2>4
<1>6. CASE n > 0
  <2>3. AllStay
    BY <1>3, SuffixStays
  <2>4. keys = -1 => DrawnQuestions = {}
    <3>1. "exit" \in Early("reload")
      BY DEF Early, Handlers
    <3>2. ASSUME keys = -1
          PROVE  "close" \notin DrawnQuestions
      <4>1. ~list[1].dirty
        BY <1>3, <1>4, <1>6
      <4> QED BY <1>1, <3>2, <4>1 DEF Asking, KeylessFrame, Active
    <3> QED BY <1>1, <3>1, <3>2 DEF Asking, KeylessFrame, DrawnQuestions, Questions
  <2>5. moved'
    BY <1>3, <1>6
  <2>6. Asking'
    BY <1>1, <1>2, <2>4, <2>5, AskingGoesOn
  <2> QED BY <1>1, <2>3, <2>6, StaysAsked
<1> QED BY <1>3, <1>5, <1>6

LEMMA PickerStaysAsks ==
  ASSUME Batch = 1, IInv, Asking, PickerStays
  PROVE  Asking' /\ EditsAsked
<1>1. /\ stage = "picker" /\ Handlers[7] = "picker" /\ 7 \in 1..11 /\ Done("picker")
      /\ list' = list /\ moved' = moved
      /\ Draw({"picker"} \cup Warning(overwrite) \cup Warning(overwrite'))
  BY DEF PickerStays, At, Handlers, documents
<1>2. \A q \in DrawnQuestions' : q \in DrawnQuestions /\ drawn'[q] = drawn[q]
  <2>1. \A q \in DrawnQuestions' : q \notin {"picker"} \cup Warning(overwrite) \cup Warning(overwrite')
    BY DEF DrawnQuestions, Questions, Warning
  <2> QED BY <1>1, <2>1, DrawQuestions
<1>3. EditsAsked /\ ActiveId' = ActiveId
  BY <1>1, SameListStays
<1> QED BY <1>1, <1>2, <1>3, SameActiveAsks

LEMMA PickerDoneAsks ==
  ASSUME Batch = 1, IInv, Asking, PickerDone
  PROVE  Asking' /\ EditsAsked
<1>1. /\ stage = "picker" /\ Handlers[7] = "picker" /\ 7 \in 1..11 /\ Done("picker")
      /\ Draw({"picker"} \cup Warning(overwrite))
  BY DEF PickerDone, At, Handlers
<1>2. \A q \in DrawnQuestions' : q \in DrawnQuestions /\ drawn'[q] = drawn[q]
  <2>1. \A q \in DrawnQuestions' : q \notin {"picker"} \cup Warning(overwrite)
    BY DEF DrawnQuestions, Questions, Warning
  <2> QED BY <1>1, <2>1, DrawQuestions
<1>3. key.to \in {"picker", "overwrite"}
  BY DEF PickerDone, Pressed
<1>4. ASSUME NEW f \in Files, NEW name, DoIt(f, name)
      PROVE  AllStay
  BY <1>4, OpenStays, SaveAsStays DEF DoIt
<1>5. AllStay
  <2>1. CASE UNCHANGED documents
    BY <2>1 DEF documents, AllStay, Stays
  <2>2. CASE key.press \in {"choose", "locate"} /\ \E name : DoIt(key.file, name)
    BY <1>4, <2>2 DEF IInv, KeyFine
  <2>3. CASE overwrite # NoFile /\ DoIt(overwrite, overwrite)
    BY <1>4, <2>3 DEF IInv, Rest
  <2> QED BY <2>1, <2>2, <2>3 DEF PickerDone, Pressed
<1>6. Asking'
  BY <1>1, <1>2, <1>3, OtherKeyAsks
<1> QED BY <1>1, <1>5, <1>6, StaysAsked

LEMMA SaveAsks ==
  ASSUME Batch = 1, IInv, Asking, Save
  PROVE  Asking' /\ EditsAsked
<1>1. /\ stage = "save" /\ Handlers[8] = "save" /\ 8 \in 1..11 /\ Done("save")
      /\ drawn' = drawn /\ moved' = moved
  BY DEF Save, At, Handlers
<1>2. \A q \in DrawnQuestions' : q \in DrawnQuestions /\ drawn'[q] = drawn[q]
  BY <1>1 DEF DrawnQuestions
<1>3. CASE list' = list
  <2>1. EditsAsked /\ ActiveId' = ActiveId
    BY <1>3, SameListStays
  <2> QED BY <1>1, <1>2, <2>1, SameActiveAsks
<1>4. CASE list # <<>> /\ list' = WithActive(SavedAs(Active, Active.path))
           /\ Active.path # NoFile
  <2> DEFINE d == SavedAs(Active, Active.path)
  <2>1. d \in Document /\ d.id = Active.id
    BY <1>4, ActiveFacts DEF SavedAs, Document
  <2> HIDE DEF d
  <2>2. AllStay /\ ActiveId' = ActiveId
    BY <1>4, <2>1, WithActiveStays DEF d
  <2>3. Asking'
    BY <1>1, <1>2, <2>2, SameActiveAsks
  <2> QED BY <1>1, <2>2, <2>3, StaysAsked
<1> QED BY <1>3, <1>4 DEF Save, documents

\* Reading a document again reads over the edits of no other one.
LEMMA ReadAgainAsks ==
  ASSUME IInv, list # <<>>, ReadAgain, Active.dirty /\ ~moved => Asked("reload", Active)
  PROVE  EditsAsked /\ ActiveId' = ActiveId
<1> DEFINE d == [Active EXCEPT !.dirty = FALSE, !.base = "current"]
<1>1. d \in Document /\ d.id = Active.id
  BY ActiveFacts DEF Document
<1>2. list' = WithActive(d)
  BY DEF ReadAgain
<1> HIDE DEF d
<1>3. /\ DOMAIN list' = DOMAIN list /\ 1 \in DOMAIN list /\ list'[1] = d
      /\ \A j \in DOMAIN list : j # 1 => list'[j] = list[j]
      /\ ActiveId' = ActiveId /\ AllStay
  BY <1>1, <1>2, WithActiveStays
<1>4. Differ(list)
  BY DEF IInv, Fine
<1>5. ASSUME NEW i \in DOMAIN list, list[i].dirty, ReadOver(list[i])
      PROVE  i = 1
  <2>1. PICK j \in DOMAIN list : list'[j].id = list[i].id /\ ~list'[j].dirty
    BY <1>3, <1>5 DEF ReadOver
  <2>2. list'[j].id = list[j].id
    BY <1>1, <1>3 DEF Active
  <2>3. i = j
    BY <1>4, <2>1, <2>2 DEF Differ
  <2> QED BY <1>3, <1>5, <2>1, <2>3
<1> QED BY <1>3, <1>5 DEF EditsAsked, AllStay, Active

LEMMA ReloadSilentlyAsks ==
  ASSUME Batch = 1, IInv, Asking, ReloadSilently
  PROVE  Asking' /\ EditsAsked
<1>1. /\ stage = "reload" /\ Handlers[9] = "reload" /\ 9 \in 1..11 /\ Done("reload")
      /\ drawn' = drawn /\ moved' = moved
  BY DEF ReloadSilently, At, Handlers
<1>2. \A q \in DrawnQuestions' : q \in DrawnQuestions /\ drawn'[q] = drawn[q]
  BY <1>1 DEF DrawnQuestions
<1>3. EditsAsked /\ ActiveId' = ActiveId
  BY SameListStays, ReadAgainAsks DEF ReloadSilently
<1> QED BY <1>1, <1>2, <1>3, SameActiveAsks

LEMMA AskBeforeReloadAsks ==
  ASSUME Batch = 1, IInv, Asking, AskBeforeReload
  PROVE  Asking' /\ EditsAsked
<1>1. /\ stage = "reload" /\ Handlers[9] = "reload" /\ 9 \in 1..11 /\ Done("reload")
      /\ list # <<>> /\ moved' = moved /\ Draw({"reload"})
  BY DEF AskBeforeReload, At, Handlers
<1>2. \A q \in DrawnQuestions' :
        \/ q \in DrawnQuestions /\ drawn'[q] = drawn[q]
        \/ drawn'[q] = ActiveId /\ Handlers[9] = q
  BY <1>1, DrawQuestions
<1>3. key.to = "reload" /\ ~moved => Asked("reload", Active)
  <2>1. stage \in Early("reload") /\ "reload" \in Questions
    BY <1>1 DEF Early, Questions
  <2>2. keys \in {-1, 0, 1} /\ keys # 1
    BY <1>1 DEF IInv, Rest, Asking, BeforeKey
  <2>3. key.to = "reload" => keys # -1
    BY DEF Asking, KeylessFrame, NoKey
  <2>4. key.to = "reload" /\ ~moved => Shown("reload")
    BY <2>1, <2>2, <2>3 DEF Asking, KeyFrame
  <2> QED BY <1>1, <2>4 DEF Shown, Asked, ActiveId
<1>4. EditsAsked /\ ActiveId' = ActiveId
  <2>1. CASE list' = list
    BY <2>1, SameListStays
  <2>2. CASE key.to = "reload" /\ ReadAgain
    BY <1>1, <1>3, <2>2, ReadAgainAsks
  <2> QED BY <2>1, <2>2 DEF AskBeforeReload, Pressed
<1> QED BY <1>1, <1>2, <1>4, SameActiveAsks

\* A panel draws no question.
LEMMA PanelDraws ==
  ASSUME Draw({"panel"})
  PROVE  \A q \in DrawnQuestions' : q \in DrawnQuestions /\ drawn'[q] = drawn[q]
<1>1. \A q \in DrawnQuestions' : q \notin {"panel"}
  BY DEF DrawnQuestions, Questions
<1> QED BY <1>1, DrawQuestions

LEMMA PanelDoneAsks ==
  ASSUME Batch = 1, IInv, Asking, PanelDone
  PROVE  Asking' /\ EditsAsked
<1>1. /\ stage = "panel" /\ Handlers[10] = "panel" /\ 10 \in 1..11 /\ Done("panel")
      /\ key.to = "panel" /\ Draw({"panel"})
  BY DEF PanelDone, At, Handlers
<1>2. AllStay
  <2>1. CASE UNCHANGED documents
    BY <2>1 DEF documents, AllStay, Stays
  <2>2. CASE key.press = "choose" /\ AddFilePath(key.file)
    BY <2>2, OpenStays DEF IInv, KeyFine
  <2>3. CASE \E i \in DOMAIN list : list' = ToFront(i)
    BY <2>3, ToFrontStays
  <2> QED BY <2>1, <2>2, <2>3 DEF PanelDone
<1>3. Asking'
  BY <1>1, PanelDraws, OtherKeyAsks
<1> QED BY <1>1, <1>2, <1>3, StaysAsked

LEMMA PanelCommandAsks ==
  ASSUME Batch = 1, IInv, Asking, PanelCommand
  PROVE  Asking' /\ EditsAsked
<1>1. /\ stage = "panel" /\ Handlers[10] = "panel" /\ 10 \in 1..11 /\ Done("panel")
      /\ key.to = "panel" /\ Draw({"panel"})
  BY DEF PanelCommand, At, Handlers
<1>2. AllStay
  <2>1. CASE UNCHANGED list
    BY <2>1 DEF AllStay, Stays
  <2> QED BY <2>1, UntitledStays DEF PanelCommand
<1>3. Asking'
  BY <1>1, PanelDraws, OtherKeyAsks
<1> QED BY <1>1, <1>2, <1>3, StaysAsked

LEMMA PanelStaysAsks ==
  ASSUME Batch = 1, IInv, Asking, PanelStays
  PROVE  Asking' /\ EditsAsked
<1>1. /\ stage = "panel" /\ Handlers[10] = "panel" /\ 10 \in 1..11 /\ Done("panel")
      /\ list' = list /\ moved' = moved /\ Draw({"panel"})
  BY DEF PanelStays, At, Handlers, documents
<1>2. EditsAsked /\ ActiveId' = ActiveId
  BY <1>1, SameListStays
<1> QED BY <1>1, <1>2, PanelDraws, SameActiveAsks

\* A key that answers a question was offered by the dialog on the terminal.
LEMMA AnswersAreOffered ==
  ASSUME IInv, NEW k \in Reachable, NEW q \in Questions, k.to = q
  PROVE  q \in DOMAIN drawn
<1>1. q \in {"close", "reload"}
  BY DEF Questions
<1>2. k \notin Key("palette", IF Pending < MaxPending THEN {"open"} ELSE {}, {NoFile})
  BY <1>1 DEF Key
<1>3. k \notin WindowKeys
  BY <1>1 DEF Key, WindowKeys
<1>4. PICK d \in DOMAIN drawn : k \in DialogKeys(d)
  BY <1>2, <1>3 DEF Reachable
<1>5. d \in {"close", "reload", "picker", "overwrite", "panel"}
  BY <1>4 DEF IInv, ShownFine, Dialogs
<1>6. CASE d \in {"close", "reload"}
  BY <1>4, <1>6 DEF DialogKeys, Key
<1>7. CASE d = "picker"
  BY <1>1, <1>4, <1>7 DEF DialogKeys, Key
<1>8. CASE d = "overwrite"
  BY <1>1, <1>4, <1>8 DEF DialogKeys, Key
<1>9. CASE d = "panel"
  BY <1>1, <1>4, <1>9 DEF DialogKeys, Key
<1> QED BY <1>4, <1>5, <1>6, <1>7, <1>8, <1>9

LEMMA FrameAsks ==
  ASSUME Batch = 1, IInv, Asking, Frame
  PROVE  Asking' /\ EditsAsked
<1>1. /\ stage = "idle" /\ list' = list /\ screen' = screen /\ moved' = FALSE /\ GoOn(0, key')
      /\ drawn' = [d \in {} |-> 0]
  BY DEF Frame, documents
<1>2. EditsAsked /\ ActiveId' = ActiveId
  BY <1>1, SameListStays
<1>3. \/ stage' = "idle"
      \/ \E j \in 1..11 : stage' = Handlers[j] /\ Due(Handlers[j], key')
  BY <1>1, GoesLater
<1>4. stage' \in {"palette", "menu", "editor", "hotkey"} => key'.to = stage'
  BY <1>3 DEF Due
<1>5. DrawnQuestions' = {}
  BY <1>1 DEF DrawnQuestions
<1>6. CASE key' = NoKey /\ keys' = -1
  BY <1>2, <1>4, <1>5, <1>6 DEF Asking, KeylessFrame
<1>7. CASE keys > 0 /\ key' \in Reachable /\ keys' = keys - 1
  <2>1. keys = 1 /\ keys' = 0
    BY <1>7 DEF IInv, Rest
  <2>2. ASSUME NEW q \in Questions, key'.to = q
        PROVE  Shown(q)'
    <3>1. q \in DrawnQuestions
      BY <1>7, <2>2, AnswersAreOffered DEF DrawnQuestions
    <3>2. Shown(q)
      BY <2>1, <3>1 DEF Asking, BeforeKey
    <3> QED BY <1>1, <1>2, <3>2 DEF Shown
  <2>3. KeyFrame'
    BY <2>2 DEF KeyFrame
  <2> QED BY <1>2, <1>4, <2>1, <2>3 DEF Asking
<1> QED BY <1>6, <1>7 DEF Frame

LEMMA RenderAsks ==
  ASSUME Batch = 1, IInv, Asking, Render
  PROVE  Asking' /\ EditsAsked
<1>1. /\ stage' = "idle" /\ keys = -1 /\ keys' = 1 /\ list' = list /\ drawn' = drawn
      /\ screen' = [d \in Questions \cap DOMAIN drawn |-> drawn[d]]
  BY DEF Render, documents
<1>2. EditsAsked /\ ActiveId' = ActiveId
  BY <1>1, SameListStays
<1>3. \A q \in DrawnQuestions : drawn[q] = ActiveId
  BY <1>1 DEF Asking, KeylessFrame
<1>4. BeforeKey'
  BY <1>1, <1>2, <1>3 DEF BeforeKey, Shown, DrawnQuestions
<1> QED BY <1>1, <1>2, <1>4 DEF Asking

LEMMA QuitAsks ==
  ASSUME Batch = 1, IInv, Asking, Quit
  PROVE  Asking' /\ EditsAsked
<1>1. /\ stage' = "exited" /\ keys = -1 /\ list' = list
      /\ UNCHANGED <<key, keys, drawn, screen, moved>>
  BY DEF Quit, documents
<1>2. EditsAsked /\ ActiveId' = ActiveId
  BY <1>1, SameListStays
<1>3. \A q \in Questions : "exited" \notin Early(q)
  BY DEF Early, Handlers
<1>4. KeylessFrame'
  BY <1>1, <1>2, <1>3 DEF Asking, KeylessFrame, DrawnQuestions
<1> QED BY <1>1, <1>2, <1>4 DEF Asking

LEMMA OtherProgramAsks ==
  ASSUME Batch = 1, IInv, Asking, OtherProgram
  PROVE  Asking' /\ EditsAsked
<1>1. list \in Seq(Document) /\ Differ(list)
  BY DEF IInv, Fine
<1>2. PICK f \in Files :
        list' = [i \in DOMAIN list |->
              IF list[i].path = f /\ list[i].base = "current"
              THEN [list[i] EXCEPT !.base = "old"] ELSE list[i]]
  BY DEF OtherProgram
<1>3. PICK t : t = list'
  OBVIOUS
<1>4. DOMAIN t = DOMAIN list
  BY <1>2, <1>3
<1>5. \A i \in DOMAIN list : t[i].id = list[i].id /\ t[i].dirty = list[i].dirty
  <2> TAKE i \in DOMAIN list
  <2>1. list[i] \in Document /\ t[i] \in {list[i], [list[i] EXCEPT !.base = "old"]}
    BY <1>1, <1>2, <1>3
  <2> QED BY <2>1 DEF Document
<1>6. (t = <<>>) <=> (list = <<>>)
  BY <1>1, <1>2, <1>3
<1>7. ActiveId' = ActiveId /\ (list # <<>> => list' # <<>> /\ Active'.dirty = Active.dirty)
  <2>1. list # <<>> => 1 \in DOMAIN list
    BY <1>1
  <2> QED BY <1>3, <1>5, <1>6, <2>1 DEF ActiveId, Active
<1>8. EditsAsked
  BY <1>1, <1>3, <1>4, <1>5 DEF EditsAsked, Stays, ReadOver, Differ
<1>9. UNCHANGED <<stage, key, keys, drawn, screen, moved>>
  BY DEF OtherProgram, frame
<1>10. \A q \in Questions : Shown(q) => Shown(q)'
  BY <1>7, <1>9 DEF Shown
<1>11. DrawnQuestions' = DrawnQuestions
  BY <1>9 DEF DrawnQuestions
<1>12. KeylessFrame => KeylessFrame'
  BY <1>7, <1>9, <1>11 DEF KeylessFrame
<1>13. BeforeKey => BeforeKey'
  BY <1>9, <1>10, <1>11 DEF BeforeKey, DrawnQuestions
<1>14. KeyFrame => KeyFrame'
  BY <1>9, <1>10 DEF KeyFrame
<1>15. Asking'
  BY <1>9, <1>12, <1>13, <1>14 DEF Asking
<1> QED BY <1>8, <1>15

-----------------------------------------------------------------------------
LEMMA InitAsking == Init => Asking
BY DEF Init, Asking, KeyFrame, Questions, NoKey

LEMMA NextAsking ==
  ASSUME Batch = 1
  PROVE  IInv /\ Asking /\ [Next]_vars => Asking' /\ (EditsAsked \/ UNCHANGED vars)
<1> SUFFICES ASSUME IInv, Asking, [Next]_vars
             PROVE  Asking' /\ (EditsAsked \/ UNCHANGED vars)
  OBVIOUS
<1>1. CASE UNCHANGED vars
  <2>1. UNCHANGED <<list, screen, drawn, stage, key, keys, moved>>
    BY <1>1 DEF vars, documents, frame
  <2> QED BY <1>1, <2>1 DEF Asking, KeylessFrame, BeforeKey, KeyFrame, Shown, ActiveId, Active,
        DrawnQuestions
<1>2. CASE FrameStep
  BY <1>2, FrameAsks, PollAsks, PaletteAsks, MenuAsks, EditAsks, CloseCleanAsks,
     AskBeforeCloseAsks, ExitAsks, PickerStaysAsks, PickerDoneAsks, SaveAsks,
     ReloadSilentlyAsks, AskBeforeReloadAsks, PanelDoneAsks, PanelCommandAsks,
     PanelStaysAsks, HotkeyAsks, RenderAsks, QuitAsks DEF FrameStep
<1>3. CASE OtherProgram
  BY <1>3, OtherProgramAsks
<1> QED BY <1>1, <1>2, <1>3 DEF Next

\* Unsaved edits are closed or read over only when the terminal showed the dialog about
\* that very document, if a read of the terminal holds one key and no other document came
\* to the front within the same frame (draw_handle_wants_close, draw_handle_wants_reload).
THEOREM EditsGoOnlyWhenAsked == ASSUME Batch = 1 PROVE Spec => EditsGoWhenAsked
<1>1. IInv /\ Asking /\ [Next]_vars => Asking'
  BY NextAsking
<1>2. IInv /\ Asking /\ [Next]_vars => [EditsAsked]_vars
  BY NextAsking
<1>3. Spec => [](IInv /\ Asking)
  BY InitAsking, AlwaysIInv, <1>1, PTL DEF Spec
<1>4. Spec => [][EditsAsked]_vars
  BY <1>2, <1>3, PTL DEF Spec
<1> QED BY <1>4 DEF EditsGoWhenAsked, EditsAsked
=============================================================================
