---------------------------- MODULE Services_proofs ----------------------------
(***************************************************************************)
(* Proofs about what the main loop looks after beside the documents        *)
(* themselves: the checkpoints, the disk status, and the tools; each for   *)
(* any values of its constants.                                            *)
(***************************************************************************)
EXTENDS Tools, Checkpoints, DiskStatusState, Splicing_proofs, SequenceTheorems,
        FiniteSetTheorems, TLAPS

-----------------------------------------------------------------------------
(***************************************************************************)
(* The checkpoints.  A document and its snapshot are related by Agreeing,  *)
(* whatever list they are in: a generation that was recorded is not ahead  *)
(* of the document, and as long as the revision is the same, so is the     *)
(* text.                                                                   *)
(***************************************************************************)
Recorded(D, snap) ==
  D.recovery_generation # None =>
    /\ D.recovery_generation.revision <= D.revision
    /\ snap # None /\ snap.format = D.recovery_generation.format
    /\ D.recovery_generation.revision = D.revision => snap.text = D.text

Agreeing(D, snap) ==
  /\ D \in Document
  /\ Recorded(D, snap)
  /\ snap # None => D.recovery_path

Elements(s) == {s[i] : i \in DOMAIN s}

ListKnown ==
  /\ list \in Seq(Docs) /\ IsInjective(list)
  /\ \A d \in Docs : doc[d] # None <=> d \in Elements(list)
  /\ fresh \subseteq Docs \ Elements(list)
  /\ at \in 0 .. Len(list) + 1

DocsKnown ==
  /\ doc \in [Docs -> Document \cup {None}]
  /\ snaps \in [Docs -> Content \cup {None}]
  /\ warned \subseteq Docs
  /\ \A d \in Docs : doc[d] # None => Agreeing(doc[d], snaps[d])
  /\ \A d \in Docs : doc[d] = None /\ snaps[d] # None => d \notin fresh /\ d \in warned

IInv == ListKnown /\ DocsKnown
-----------------------------------------------------------------------------
(* The list. *)

\* A new document in front of a list without it.
LEMMA PrependFacts ==
  ASSUME NEW S, NEW s \in Seq(S), IsInjective(s), NEW e \in S, e \notin Elements(s)
  PROVE  /\ <<e>> \o s \in Seq(S) /\ IsInjective(<<e>> \o s)
         /\ Elements(<<e>> \o s) = Elements(s) \cup {e}
         /\ Len(<<e>> \o s) = Len(s) + 1
<1> DEFINE u == <<e>> \o s
<1>1. /\ u \in Seq(S) /\ Len(u) = Len(s) + 1
      /\ \A i \in 1 .. Len(s) + 1 : u[i] = IF i = 1 THEN e ELSE s[i - 1]
  OBVIOUS
<1> HIDE DEF u
<1>2. \A i \in 2 .. Len(s) + 1 : i - 1 \in 1 .. Len(s)
  OBVIOUS
<1>3. DOMAIN u = 1 .. Len(s) + 1 /\ DOMAIN s = 1 .. Len(s) /\ Len(s) \in Nat
  BY <1>1
<1>4. ASSUME NEW i \in DOMAIN u, NEW j \in DOMAIN u, u[i] = u[j]
      PROVE  i = j
  <2>1. \A k \in DOMAIN u :
          \/ k = 1 /\ u[k] = e
          \/ k # 1 /\ k - 1 \in DOMAIN s /\ u[k] = s[k - 1]
    BY <1>1, <1>2, <1>3
  <2>2. \A k \in DOMAIN s : s[k] # e
    BY DEF Elements
  <2>3. \/ i = 1 /\ j = 1
        \/ /\ i - 1 \in DOMAIN s /\ j - 1 \in DOMAIN s
           /\ s[i - 1] = s[j - 1]
    BY <1>4, <2>1, <2>2
  <2>4. i - 1 = j - 1 \/ (i = 1 /\ j = 1)
    BY <2>3 DEF IsInjective
  <2> QED BY <2>4, <1>3
<1>5. Elements(u) = Elements(s) \cup {e}
  <2>1. \A i \in DOMAIN s : i + 1 \in DOMAIN u /\ u[i + 1] = s[i]
    BY <1>1, <1>3
  <2>2. 1 \in DOMAIN u /\ u[1] = e
    BY <1>1, <1>3
  <2>3. \A i \in DOMAIN u : i = 1 \/ (i - 1 \in DOMAIN s /\ u[i] = s[i - 1])
    BY <1>1, <1>3
  <2> QED BY <2>1, <2>2, <2>3 DEF Elements
<1>6. IsInjective(u)
  BY <1>4 DEF IsInjective
<1> QED BY <1>1, <1>5, <1>6 DEF u

\* Bringing an element to the front permutes the list.
LEMMA FrontFacts ==
  ASSUME NEW S, NEW s \in Seq(S), IsInjective(s), NEW k \in DOMAIN s
  PROVE  LET u == <<s[k]>> \o RemoveAt(s, k)
         IN  /\ u \in Seq(S) /\ IsInjective(u)
             /\ Elements(u) = Elements(s) /\ Len(u) = Len(s)
<1> DEFINE head == SubSeq(s, 1, k - 1)
           tail == SubSeq(s, k + 1, Len(s))
           rest == RemoveAt(s, k)
           u == <<s[k]>> \o rest
<1>0. k \in 1 .. Len(s) /\ Len(s) \in Nat
  OBVIOUS
<1>1. /\ head \in Seq(S) /\ Len(head) = k - 1
      /\ \A i \in 1 .. k - 1 : head[i] = s[i]
  BY <1>0
<1>2. /\ tail \in Seq(S) /\ Len(tail) = Len(s) - k
      /\ \A i \in 1 .. Len(s) - k : tail[i] = s[k + i]
  BY <1>0
<1>3. rest = head \o tail
  BY DEF RemoveAt
<1> HIDE DEF head, tail, rest
<1>4. /\ rest \in Seq(S) /\ Len(rest) = Len(s) - 1
      /\ \A i \in 1 .. Len(s) - 1 : rest[i] = IF i < k THEN s[i] ELSE s[i + 1]
  BY <1>0, <1>1, <1>2, <1>3
<1>5. s[k] \in S
  BY <1>0
<1>6. /\ u \in Seq(S) /\ Len(u) = Len(s)
      /\ u[1] = s[k]
      /\ \A i \in 2 .. Len(s) : u[i] = IF i <= k THEN s[i - 1] ELSE s[i]
  BY <1>0, <1>4, <1>5
<1>6a. DOMAIN u = 1 .. Len(s)
  BY <1>6
<1> HIDE DEF u
<1> DEFINE place(i) == IF i = 1 THEN k ELSE IF i <= k THEN i - 1 ELSE i
<1>7. \A i \in DOMAIN u : place(i) \in DOMAIN s /\ u[i] = s[place(i)]
  BY <1>0, <1>6, <1>6a
<1>8. \A i, j \in DOMAIN u : place(i) = place(j) => i = j
  BY <1>0, <1>6a
<1>9. \A i \in DOMAIN s : \E j \in DOMAIN u : place(j) = i
  <2> TAKE i \in DOMAIN s
  <2>1. CASE i = k
    BY <2>1, <1>0, <1>6a
  <2>2. CASE i < k
    <3>1. i + 1 \in DOMAIN u /\ place(i + 1) = i
      BY <2>2, <1>0, <1>6a
    <3> QED BY <3>1
  <2>3. CASE i > k
    <3>1. i \in DOMAIN u /\ place(i) = i
      BY <2>3, <1>0, <1>6a
    <3> QED BY <3>1
  <2> QED BY <2>1, <2>2, <2>3, <1>0
<1> HIDE DEF place
<1>10. IsInjective(u)
  BY <1>7, <1>8 DEF IsInjective
<1>11. Elements(u) = Elements(s)
  BY <1>7, <1>9 DEF Elements
<1> QED BY <1>6, <1>10, <1>11 DEF u, rest

\* Without its first element, a list without repetitions has all the others.
LEMMA TailFacts ==
  ASSUME NEW S, NEW s \in Seq(S), IsInjective(s), s # <<>>
  PROVE  /\ Head(s) \in S /\ Head(s) \in Elements(s)
         /\ Tail(s) \in Seq(S) /\ IsInjective(Tail(s))
         /\ Elements(Tail(s)) = Elements(s) \ {Head(s)}
<1>1. /\ Len(s) \in Nat \ {0} /\ Head(s) = s[1] /\ s[1] \in S /\ 1 \in DOMAIN s
      /\ Tail(s) \in Seq(S) /\ Len(Tail(s)) = Len(s) - 1
      /\ \A i \in 1 .. Len(s) - 1 : Tail(s)[i] = s[i + 1]
  OBVIOUS
<1>2. DOMAIN Tail(s) = 1 .. Len(s) - 1 /\ DOMAIN s = 1 .. Len(s)
  BY <1>1
<1> DEFINE t == Tail(s)
<1> HIDE DEF t
<1>3. \A i \in DOMAIN t : i + 1 \in DOMAIN s /\ i + 1 # 1 /\ t[i] = s[i + 1]
  BY <1>1, <1>2 DEF t
<1>4. \A i \in DOMAIN s : i = 1 \/ (i - 1 \in DOMAIN t /\ t[i - 1] = s[i])
  BY <1>1, <1>2 DEF t
<1>5. ASSUME NEW i \in DOMAIN t, NEW j \in DOMAIN t, t[i] = t[j]
      PROVE  i = j
  <2>1. i + 1 = j + 1
    BY <1>3, <1>5 DEF IsInjective
  <2>2. i \in Int /\ j \in Int
    BY <1>1, <1>2 DEF t
  <2> QED BY <2>1, <2>2
<1>6. Elements(t) = Elements(s) \ {s[1]}
  BY <1>1, <1>3, <1>4 DEF Elements, IsInjective
<1> QED BY <1>1, <1>5, <1>6 DEF t, IsInjective, Elements
-----------------------------------------------------------------------------
(* One document and its snapshot. *)

\* A change takes a new revision, for which nothing was recorded.
LEMMA ChangeMatches ==
  ASSUME NEW D, NEW snap, Agreeing(D, snap), D.revision < MaxRevisions,
         NEW text \in Bodies, NEW dirty \in BOOLEAN
  PROVE  Agreeing([D EXCEPT !.text = text, !.dirty = dirty, !.revision = @ + 1], snap)
<1> DEFINE E == [D EXCEPT !.text = text, !.dirty = dirty, !.revision = @ + 1]
<1> USE CheckpointsAssumption
<1>1. D \in Document /\ D.revision \in 0 .. MaxRevisions
  BY DEF Agreeing, Document
<1>2. E \in Document
  <2>1. D.revision + 1 \in 0 .. MaxRevisions
    BY <1>1
  <2> QED BY <1>1, <2>1 DEF Document
<1>3. /\ E.revision = D.revision + 1 /\ E.recovery_path = D.recovery_path
      /\ E.recovery_generation = D.recovery_generation
  BY <1>1 DEF Document
<1>4. D.recovery_generation # None => D.recovery_generation.revision \in 0 .. MaxRevisions
  BY <1>1 DEF Document, Generation
<1> HIDE DEF E
<1>5. Recorded(E, snap)
  BY <1>1, <1>3, <1>4 DEF Agreeing, Recorded
<1> QED BY <1>2, <1>3, <1>5 DEF Agreeing, E

\* What is recorded stays with its revision when only the format changes.
LEMMA ReformatMatches ==
  ASSUME NEW D, NEW snap, Agreeing(D, snap), NEW format \in Formats
  PROVE  Agreeing([D EXCEPT !.format = format, !.dirty = TRUE], snap)
<1> DEFINE E == [D EXCEPT !.format = format, !.dirty = TRUE]
<1>1. D \in Document
  BY DEF Agreeing
<1>2. E \in Document
  BY <1>1 DEF Document
<1>3. /\ E.revision = D.revision /\ E.recovery_path = D.recovery_path
      /\ E.recovery_generation = D.recovery_generation /\ E.text = D.text
  BY <1>1 DEF Document
<1> HIDE DEF E
<1> QED BY <1>2, <1>3 DEF Agreeing, Recorded, E

\* A document without a recorded generation matches any snapshot it knows.
LEMMA UnrecordedMatches ==
  ASSUME NEW D \in Document, NEW snap, D.recovery_generation = None,
         snap # None => D.recovery_path
  PROVE  Agreeing(D, snap)
BY DEF Agreeing, Recorded

\* A snapshot just written has the text of the revision it is recorded for.
LEMMA RecordMatches ==
  ASSUME NEW D \in Document
  PROVE  LET g == [revision |-> D.revision, format |-> D.format]
             c == [text |-> D.text, format |-> D.format]
             E == [D EXCEPT !.recovery_generation = g, !.recovery_path = TRUE]
         IN  /\ g \in Generation /\ c \in Content /\ E \in Document
             /\ Agreeing(E, c)
<1> DEFINE g == [revision |-> D.revision, format |-> D.format]
           c == [text |-> D.text, format |-> D.format]
           E == [D EXCEPT !.recovery_generation = g, !.recovery_path = TRUE]
<1> USE CheckpointsAssumption
<1>1. /\ D.text \in Bodies /\ D.format \in Formats /\ D.revision \in 0 .. MaxRevisions
  BY DEF Document
<1>2. g \in Generation /\ c \in Content
  BY <1>1 DEF Generation, Content
<1>3. E \in Document
  BY <1>2 DEF Document
<1>4. /\ E.revision = D.revision /\ E.recovery_path = TRUE
      /\ E.recovery_generation = g /\ E.text = D.text
  BY DEF Document
<1>5. c # None /\ c.format = g.format /\ c.text = D.text /\ g.revision = D.revision
  BY <1>2
<1> HIDE DEF E, g, c
<1>6. Agreeing(E, c)
  BY <1>1, <1>3, <1>4, <1>5 DEF Agreeing, Recorded
<1> QED BY <1>2, <1>3, <1>6 DEF E, g, c
-----------------------------------------------------------------------------
(* Steps that concern one document, and steps that leave the list alone. *)

Only(d) ==
  /\ doc' \in [Docs -> Document \cup {None}]
  /\ snaps' \in [Docs -> Content \cup {None}]
  /\ warned' \subseteq Docs /\ fresh' \subseteq fresh
  /\ \A e \in Docs \ {d} :
       doc'[e] = doc[e] /\ snaps'[e] = snaps[e] /\ (e \in warned => e \in warned')

\* Such a step keeps what is known of the others; its own document must be shown.
LEMMA OneDocument ==
  ASSUME NEW d \in Docs, DocsKnown, Only(d),
         doc'[d] # None => Agreeing(doc'[d], snaps'[d]),
         doc'[d] = None /\ snaps'[d] # None => d \notin fresh' /\ d \in warned'
  PROVE  DocsKnown'
<1>1. ASSUME NEW e \in Docs
      PROVE  /\ doc'[e] # None => Agreeing(doc'[e], snaps'[e])
             /\ doc'[e] = None /\ snaps'[e] # None => e \notin fresh' /\ e \in warned'
  <2>1. CASE e = d
    BY <2>1
  <2>2. CASE e # d
    <3>1. doc'[e] = doc[e] /\ snaps'[e] = snaps[e] /\ (e \in warned => e \in warned')
      BY <2>2 DEF Only
    <3>2. e \in fresh' => e \in fresh
      BY DEF Only
    <3> QED BY <3>1, <3>2 DEF DocsKnown
  <2> QED BY <2>1, <2>2
<1> QED BY <1>1 DEF DocsKnown, Only, Agreeing, Recorded

\* The list is known as long as the same documents are open.
LEMMA SameList ==
  ASSUME ListKnown, list' = list, fresh' = fresh, at' \in 0 .. Len(list) + 1,
         \A d \in Docs : doc'[d] # None <=> doc[d] # None
  PROVE  ListKnown'
BY DEF ListKnown, Elements, IsInjective

\* The place a checkpoint has come to holds an open document.
LEMMA HereOpen ==
  ASSUME IInv, NEW d \in Docs, Here(d)
  PROVE  /\ doc[d] \in Document /\ doc[d] # None /\ Agreeing(doc[d], snaps[d])
         /\ at + 1 \in 0 .. Len(list) + 1
<1>1. d \in Elements(list)
  BY DEF Here, Elements
<1>2. at \in 1 .. Len(list) /\ Len(list) \in Nat
  BY DEF Here, IInv, ListKnown
<1> QED BY <1>1, <1>2 DEF IInv, ListKnown, DocsKnown, Agreeing

\* The active document of a list that is not empty is open.
LEMMA ActiveOpen ==
  ASSUME IInv, list # <<>>
  PROVE  /\ Active \in Docs /\ Active \in Elements(list) /\ Active \notin fresh
         /\ doc[Active] \in Document /\ doc[Active] # None
         /\ Agreeing(doc[Active], snaps[Active])
<1>1. Active \in Docs /\ Active \in Elements(list)
  BY TailFacts DEF IInv, ListKnown, Active
<1> QED BY <1>1 DEF IInv, ListKnown, DocsKnown, Agreeing
\* A change of one open document that leaves its snapshot alone.
LEMMA NewRecord ==
  ASSUME IInv, NEW d \in Docs, d \in Elements(list), NEW D,
         doc' = [doc EXCEPT ![d] = D], Agreeing(D, snaps[d]),
         list' = list, fresh' = fresh, snaps' = snaps, warned' = warned, at = 0, at' = at
  PROVE  IInv'
<1>1. D \in Document /\ D # None
  BY CheckpointsAssumption DEF Agreeing
<1>2. /\ doc'[d] = D /\ doc' \in [Docs -> Document \cup {None}]
      /\ \A e \in Docs \ {d} : doc'[e] = doc[e]
  BY <1>1 DEF IInv, DocsKnown
<1>3. DocsKnown'
  <2>1. Only(d)
    BY <1>2 DEF Only, IInv, DocsKnown
  <2> QED BY <1>1, <1>2, <2>1, OneDocument DEF IInv
<1>4. ListKnown'
  <2>1. \A e \in Docs : doc'[e] # None <=> doc[e] # None
    BY <1>1, <1>2 DEF IInv, ListKnown
  <2>2. at' \in 0 .. Len(list) + 1
    BY DEF IInv, ListKnown
  <2> QED BY <2>1, <2>2, SameList DEF IInv
<1> QED BY <1>3, <1>4 DEF IInv
-----------------------------------------------------------------------------
(* The invariant. *)

\* Nothing is open and nothing is on disk at the start.
LEMMA InitIInv == Init => IInv
<1> SUFFICES ASSUME Init PROVE IInv
  OBVIOUS
<1> USE CheckpointsAssumption DEF Init
<1>1. ListKnown
  <2>1. list \in Seq(Docs) /\ Len(list) = 0 /\ DOMAIN list = {}
    OBVIOUS
  <2>2. Elements(list) = {}
    BY <2>1 DEF Elements
  <2>3. \A d \in Docs : doc[d] = None
    OBVIOUS
  <2> QED BY <2>1, <2>2, <2>3 DEF ListKnown, IsInjective
<1>2. DocsKnown
  BY DEF DocsKnown
<1> QED BY <1>1, <1>2 DEF IInv

\* Opening a document that was not opened before.
LEMMA AddDocumentIInv ==
  ASSUME IInv, AddDocument
  PROVE  IInv'
<1> USE CheckpointsAssumption
<1>1. PICK d \in fresh :
        /\ list' = <<d>> \o list /\ fresh' = fresh \ {d}
        /\ \E text \in Bodies, format \in Formats :
             doc' = [doc EXCEPT ![d] = Opened(text, format)]
  BY DEF AddDocument
<1>2. PICK text \in Bodies, format \in Formats :
        doc' = [doc EXCEPT ![d] = Opened(text, format)]
  BY <1>1
<1>3. /\ d \in Docs /\ d \notin Elements(list) /\ doc[d] = None /\ snaps[d] = None
      /\ snaps' = snaps /\ warned' = warned /\ at' = at /\ at = 0
  BY DEF IInv, ListKnown, DocsKnown, AddDocument, Between
<1>4. /\ Opened(text, format) \in Document /\ Opened(text, format) # None
      /\ Opened(text, format).recovery_generation = None
  <2>1. Opened(text, format) \in Document
    BY DEF Opened, Document
  <2> QED BY <2>1 DEF Opened
<1>5. doc'[d] = Opened(text, format) /\ \A e \in Docs \ {d} : doc'[e] = doc[e]
  BY <1>2, <1>3 DEF IInv, DocsKnown
<1>6. DocsKnown'
  <2>1. Only(d)
    BY <1>1, <1>2, <1>3, <1>4, <1>5 DEF Only, IInv, DocsKnown
  <2>2. Agreeing(doc'[d], snaps'[d])
    BY <1>3, <1>4, <1>5, UnrecordedMatches
  <2> QED BY <1>3, <1>4, <1>5, <2>1, <2>2, OneDocument DEF IInv
<1>7. ListKnown'
  <2>1. /\ list' \in Seq(Docs) /\ IsInjective(list')
        /\ Elements(list') = Elements(list) \cup {d}
        /\ Len(list') = Len(list) + 1
    BY <1>1, <1>3, PrependFacts DEF IInv, ListKnown
  <2>2. \A e \in Docs : doc'[e] # None <=> e \in Elements(list')
    BY <1>3, <1>4, <1>5, <2>1 DEF IInv, ListKnown
  <2>3. fresh' \subseteq Docs \ Elements(list')
    BY <1>1, <2>1 DEF IInv, ListKnown
  <2>4. at' \in 0 .. Len(list') + 1
    BY <1>3, <2>1
  <2> QED BY <2>1, <2>2, <2>3, <2>4 DEF ListKnown, Elements, IsInjective
<1> QED BY <1>6, <1>7 DEF IInv

\* Another document comes to the front.
LEMMA UpdateActiveIInv ==
  ASSUME IInv, UpdateActive
  PROVE  IInv'
<1>1. PICK i \in DOMAIN list : list' = <<list[i]>> \o RemoveAt(list, i)
  BY DEF UpdateActive
<1>2. /\ fresh' = fresh /\ doc' = doc /\ snaps' = snaps /\ warned' = warned
      /\ at' = 0
  BY DEF UpdateActive, Between
<1>3. /\ list' \in Seq(Docs) /\ IsInjective(list')
      /\ Elements(list') = Elements(list) /\ Len(list') = Len(list)
  BY <1>1, FrontFacts DEF IInv, ListKnown
<1>4. ListKnown'
  <2>1. \A d \in Docs : doc'[d] # None <=> d \in Elements(list')
    BY <1>2, <1>3 DEF IInv, ListKnown
  <2>2. fresh' \subseteq Docs \ Elements(list')
    BY <1>2, <1>3 DEF IInv, ListKnown
  <2>3. at' \in 0 .. Len(list') + 1
    BY <1>2, <1>3 DEF IInv, ListKnown
  <2> QED BY <1>3, <2>1, <2>2, <2>3 DEF ListKnown, Elements, IsInjective
<1>5. DocsKnown'
  BY <1>2 DEF IInv, DocsKnown, Agreeing, Recorded
<1> QED BY <1>4, <1>5 DEF IInv

\* An edit, undo or redo of the active document.
LEMMA ChangeIInv ==
  ASSUME IInv, Change
  PROVE  IInv'
<1> DEFINE a == Active
<1>1. /\ list # <<>> /\ doc[a].revision < MaxRevisions /\ at = 0 /\ at' = at
      /\ list' = list /\ fresh' = fresh /\ snaps' = snaps /\ warned' = warned
  BY DEF Change, Between
<1>2. PICK text \in Bodies, dirty \in BOOLEAN :
        doc' = [doc EXCEPT ![a].text = text, ![a].dirty = dirty, ![a].revision = @ + 1]
  BY DEF Change
<1>3. /\ a \in Docs /\ doc[a] \in Document /\ Agreeing(doc[a], snaps[a])
      /\ a \in Elements(list)
  BY <1>1, ActiveOpen
<1> DEFINE D == [doc[a] EXCEPT !.text = text, !.dirty = dirty, !.revision = @ + 1]
<1>4. Agreeing(D, snaps[a])
  BY <1>1, <1>3, ChangeMatches
<1> HIDE DEF a
<1>5. doc' = [doc EXCEPT ![a] = D]
  BY <1>2, <1>3 DEF IInv, DocsKnown, Document
<1> HIDE DEF D
<1> QED BY <1>1, <1>3, <1>4, <1>5, NewRecord

\* Another encoding or newline style for the active document.
LEMMA ReformatIInv ==
  ASSUME IInv, Reformat
  PROVE  IInv'
<1> DEFINE a == Active
<1>1. /\ list # <<>> /\ at = 0 /\ at' = at
      /\ list' = list /\ fresh' = fresh /\ snaps' = snaps /\ warned' = warned
  BY DEF Reformat, Between
<1>2. PICK format \in Formats :
        doc' = [doc EXCEPT ![a].format = format, ![a].dirty = TRUE]
  BY DEF Reformat
<1>3. /\ a \in Docs /\ doc[a] \in Document /\ Agreeing(doc[a], snaps[a])
      /\ a \in Elements(list)
  BY <1>1, ActiveOpen
<1> DEFINE D == [doc[a] EXCEPT !.format = format, !.dirty = TRUE]
<1>4. Agreeing(D, snaps[a])
  BY <1>3, ReformatMatches
<1> HIDE DEF a
<1>5. doc' = [doc EXCEPT ![a] = D]
  BY <1>2, <1>3 DEF IInv, DocsKnown, Document
<1> HIDE DEF D
<1> QED BY <1>1, <1>3, <1>4, <1>5, NewRecord

\* What giving up a snapshot leaves on disk and tells the user.
LEMMA ClearFacts ==
  ASSUME IInv, NEW d \in Docs, doc[d] # None, NEW removed \in BOOLEAN,
         ClearRecovery(d, removed)
  PROVE  /\ snaps' \in [Docs -> Content \cup {None}]
         /\ warned' \subseteq Docs
         /\ \A e \in Docs \ {d} : snaps'[e] = snaps[e] /\ (e \in warned => e \in warned')
         /\ snaps'[d] # None => ~removed /\ d \in warned'
<1>1. Agreeing(doc[d], snaps[d]) /\ snaps \in [Docs -> Content \cup {None}] /\ warned \subseteq Docs
  BY DEF IInv, DocsKnown
<1>2. doc[d].recovery_path \in BOOLEAN /\ (snaps[d] # None => doc[d].recovery_path)
  BY <1>1 DEF Agreeing, Document
<1>3. CASE removed
  <2>1. warned' = warned /\ snaps' \in [Docs -> Content \cup {None}]
        /\ \A e \in Docs \ {d} : snaps'[e] = snaps[e]
    BY <1>1, <1>3 DEF ClearRecovery
  <2>2. snaps'[d] = None
    BY <1>1, <1>2, <1>3 DEF ClearRecovery
  <2> QED BY <1>1, <1>3, <2>1, <2>2
<1>4. CASE ~removed
  BY <1>1, <1>4 DEF ClearRecovery
<1> QED BY <1>3, <1>4

\* A document that is saved or read again gives its snapshot up.
LEMMA SettleIInv ==
  ASSUME IInv, Between, list # <<>>, list' = list, fresh' = fresh,
         NEW D \in Document, D.recovery_path = doc[Active].recovery_path,
         Settle(Active, D)
  PROVE  IInv'
<1> DEFINE a == Active
<1>1. /\ a \in Docs /\ doc[a] \in Document /\ doc[a] # None /\ a \in Elements(list)
  BY ActiveOpen
<1>2. PICK removed \in BOOLEAN :
        /\ ClearRecovery(a, removed)
        /\ doc' = [doc EXCEPT ![a] =
                     [D EXCEPT !.dirty = FALSE, !.recovery_generation = None,
                               !.recovery_path = ~removed]]
  BY DEF Settle
<1> HIDE DEF a
<1> DEFINE E == [D EXCEPT !.dirty = FALSE, !.recovery_generation = None,
                          !.recovery_path = ~removed]
<1>3. /\ E \in Document /\ E.recovery_generation = None /\ E.recovery_path = ~removed
  BY DEF Document
<1>3a. E # None
  BY <1>3, CheckpointsAssumption
<1>4. doc' = [doc EXCEPT ![a] = E]
  BY <1>2
<1> HIDE DEF E
<1>5. /\ snaps' \in [Docs -> Content \cup {None}] /\ warned' \subseteq Docs
      /\ \A e \in Docs \ {a} : snaps'[e] = snaps[e] /\ (e \in warned => e \in warned')
      /\ snaps'[a] # None => ~removed
  BY <1>1, <1>2, ClearFacts
<1>6. doc'[a] = E /\ doc' \in [Docs -> Document \cup {None}]
      /\ \A e \in Docs \ {a} : doc'[e] = doc[e]
  BY <1>1, <1>3, <1>4 DEF IInv, DocsKnown
<1>7. Agreeing(E, snaps'[a])
  BY <1>3, <1>5, UnrecordedMatches
<1>8. DocsKnown'
  <2>1. Only(a)
    BY <1>5, <1>6 DEF Only
  <2> QED BY <1>1, <1>3a, <1>6, <1>7, <2>1, OneDocument DEF IInv
<1>9. ListKnown'
  <2>1. \A d \in Docs : doc'[d] # None <=> doc[d] # None
    BY <1>1, <1>3a, <1>6
  <2>2. at' \in 0 .. Len(list) + 1
    BY DEF Between, IInv, ListKnown
  <2> QED BY <2>1, <2>2, SameList DEF IInv
<1> QED BY <1>8, <1>9 DEF IInv

\* Closing the active document.
LEMMA RemoveActiveIInv ==
  ASSUME IInv, RemoveActive
  PROVE  IInv'
<1> DEFINE a == Active
<1>1. /\ list # <<>> /\ at = 0 /\ at' = at /\ fresh' = fresh
      /\ list' = Tail(list) /\ doc' = [doc EXCEPT ![a] = None]
  BY DEF RemoveActive, Between
<1>2. /\ a \in Docs /\ doc[a] # None /\ a \notin fresh
  BY <1>1, ActiveOpen
<1>3. PICK removed \in BOOLEAN : ClearRecovery(a, removed)
  BY DEF RemoveActive
<1>4. /\ snaps' \in [Docs -> Content \cup {None}] /\ warned' \subseteq Docs
      /\ \A e \in Docs \ {a} : snaps'[e] = snaps[e] /\ (e \in warned => e \in warned')
      /\ snaps'[a] # None => a \in warned'
  BY <1>2, <1>3, ClearFacts
<1>5. /\ Tail(list) \in Seq(Docs) /\ IsInjective(Tail(list))
      /\ Elements(Tail(list)) = Elements(list) \ {a}
  BY <1>1, TailFacts DEF IInv, ListKnown, Active
<1> HIDE DEF a
<1>6. doc'[a] = None /\ doc' \in [Docs -> Document \cup {None}]
      /\ \A e \in Docs \ {a} : doc'[e] = doc[e]
  BY <1>1, <1>2 DEF IInv, DocsKnown
<1>7. DocsKnown'
  <2>1. Only(a)
    BY <1>1, <1>4, <1>6 DEF Only
  <2> QED BY <1>1, <1>2, <1>4, <1>6, <2>1, OneDocument DEF IInv
<1>8. ListKnown'
  <2>1. \A d \in Docs : doc'[d] # None <=> d \in Elements(list')
    BY <1>1, <1>5, <1>6 DEF IInv, ListKnown
  <2>2. fresh' \subseteq Docs \ Elements(list')
    BY <1>1, <1>5 DEF IInv, ListKnown
  <2>3. at' \in 0 .. Len(list') + 1
    BY <1>1, <1>5
  <2> QED BY <1>1, <1>5, <2>1, <2>2, <2>3 DEF ListKnown, Elements, IsInjective
<1> QED BY <1>7, <1>8 DEF IInv

\* Writing the snapshot of the document the checkpoint has come to.
LEMMA RecordIInv ==
  ASSUME IInv, NEW d \in Docs, Record(d)
  PROVE  IInv'
<1> USE CheckpointsAssumption
<1> DEFINE g == Version(d)
           c == ContentOf(d)
           E == [doc[d] EXCEPT !.recovery_generation = g, !.recovery_path = TRUE]
<1>1. /\ doc[d] \in Document /\ doc[d] # None /\ at + 1 \in 0 .. Len(list) + 1
  BY HereOpen DEF Record
<1>2. c \in Content /\ E \in Document /\ Agreeing(E, c)
  BY <1>1, RecordMatches DEF Version, ContentOf
<1>3. /\ doc' = [doc EXCEPT ![d].recovery_generation = g, ![d].recovery_path = TRUE]
      /\ snaps' = [snaps EXCEPT ![d] = c]
      /\ warned' = warned \ {d} /\ list' = list /\ fresh' = fresh /\ at' = at + 1
  BY DEF Record, GoOn
<1>4. doc' = [doc EXCEPT ![d] = E]
  BY <1>1, <1>3 DEF IInv, DocsKnown, Document
<1>5. E # None
  BY <1>2
<1> HIDE DEF E, c, g
<1>6. doc'[d] = E /\ snaps'[d] = c /\ Only(d)
  BY <1>2, <1>3, <1>4 DEF Only, IInv, DocsKnown
<1>7. DocsKnown'
  BY <1>2, <1>5, <1>6, OneDocument DEF IInv
<1>8. ListKnown'
  <2>1. \A e \in Docs : doc'[e] # None <=> doc[e] # None
    BY <1>1, <1>5, <1>6 DEF Only
  <2> QED BY <1>1, <1>3, <2>1, SameList DEF IInv
<1> QED BY <1>7, <1>8 DEF IInv

\* Removing the snapshot of a clean document.
LEMMA ClearIInv ==
  ASSUME IInv, NEW d \in Docs, Clear(d)
  PROVE  IInv'
<1> USE CheckpointsAssumption
<1> DEFINE E == [doc[d] EXCEPT !.recovery_generation = None, !.recovery_path = FALSE]
<1>1. /\ doc[d] \in Document /\ doc[d] # None /\ at + 1 \in 0 .. Len(list) + 1
  BY HereOpen DEF Clear
<1>2. E \in Document /\ E.recovery_generation = None
  BY <1>1 DEF Document
<1>3. /\ doc' = [doc EXCEPT ![d].recovery_generation = None, ![d].recovery_path = FALSE]
      /\ snaps' = [snaps EXCEPT ![d] = None]
      /\ warned' = warned \ {d} /\ list' = list /\ fresh' = fresh /\ at' = at + 1
  BY DEF Clear, GoOn
<1>4. doc' = [doc EXCEPT ![d] = E]
  BY <1>1, <1>3 DEF IInv, DocsKnown, Document
<1>5. E # None /\ Agreeing(E, None)
  BY <1>2, UnrecordedMatches
<1> HIDE DEF E
<1>6. doc'[d] = E /\ snaps'[d] = None /\ Only(d)
  BY <1>2, <1>3, <1>4 DEF Only, IInv, DocsKnown
<1>7. DocsKnown'
  BY <1>5, <1>6, OneDocument DEF IInv
<1>8. ListKnown'
  <2>1. \A e \in Docs : doc'[e] # None <=> doc[e] # None
    BY <1>1, <1>5, <1>6 DEF Only
  <2> QED BY <1>1, <1>3, <2>1, SameList DEF IInv
<1> QED BY <1>7, <1>8 DEF IInv

\* The checkpoint moves on, ends or fails: the documents are as before.
LEMMA PassIInv ==
  ASSUME IInv, at' \in 0 .. Len(list) + 1, UNCHANGED <<list, fresh, doc, snaps, warned>>
  PROVE  IInv'
<1>1. ListKnown'
  BY SameList DEF IInv
<1>2. DocsKnown'
  BY DEF IInv, DocsKnown, Agreeing, Recorded
<1> QED BY <1>1, <1>2 DEF IInv

\* Every step keeps the invariant.
LEMMA NextIInv == IInv /\ [Next]_vars => IInv'
<1> SUFFICES ASSUME IInv, [Next]_vars PROVE IInv'
  OBVIOUS
<1>0. at \in 0 .. Len(list) + 1 /\ Len(list) \in Nat
  BY DEF IInv, ListKnown
<1>1. CASE AddDocument
  BY <1>1, AddDocumentIInv
<1>2. CASE UpdateActive
  BY <1>2, UpdateActiveIInv
<1>3. CASE Change
  BY <1>3, ChangeIInv
<1>4. CASE Reformat
  BY <1>4, ReformatIInv
<1>5. CASE Save
  <2>1. doc[Active] \in Document
    BY <1>5, ActiveOpen DEF Save
  <2> QED BY <1>5, <2>1, SettleIInv DEF Save
<1>6. CASE Reload
  <2>1. doc[Active] \in Document /\ doc[Active].revision < MaxRevisions
    BY <1>6, ActiveOpen DEF Reload
  <2>2. PICK text \in Bodies, format \in Formats :
          Settle(Active, [doc[Active] EXCEPT !.text = text, !.format = format,
                                             !.revision = @ + 1])
    BY <1>6 DEF Reload
  <2> DEFINE D == [doc[Active] EXCEPT !.text = text, !.format = format, !.revision = @ + 1]
  <2>3. D \in Document /\ D.recovery_path = doc[Active].recovery_path
    <3>1. doc[Active].revision + 1 \in 0 .. MaxRevisions
      BY <2>1, CheckpointsAssumption DEF Document
    <3> QED BY <2>1, <3>1 DEF Document
  <2> HIDE DEF D
  <2>4. Settle(Active, D)
    BY <2>2 DEF D
  <2> QED BY <1>6, <2>3, <2>4, SettleIInv DEF Reload
<1>7. CASE RemoveActive
  BY <1>7, RemoveActiveIInv
<1>8. CASE StartCheckpoint
  BY <1>8, <1>0, PassIInv DEF StartCheckpoint
<1>9. ASSUME NEW d \in Docs, Visit(d) PROVE IInv'
  <2>1. CASE Record(d)
    BY <2>1, RecordIInv
  <2>2. CASE Clear(d)
    BY <2>2, ClearIInv
  <2>3. CASE Skip(d)
    <3>1. at + 1 \in 0 .. Len(list) + 1
      BY <2>3, HereOpen DEF Skip
    <3> QED BY <2>3, <3>1, PassIInv DEF Skip, GoOn
  <2>4. CASE Fail(d)
    BY <2>4, <1>0, PassIInv DEF Fail
  <2> QED BY <1>9, <2>1, <2>2, <2>3, <2>4 DEF Visit
<1>10. CASE EndCheckpoint
  BY <1>10, <1>0, PassIInv DEF EndCheckpoint
<1>11. CASE UNCHANGED vars
  BY <1>11, <1>0, PassIInv DEF vars
<1> QED BY <1>1, <1>2, <1>3, <1>4, <1>5, <1>6, <1>7, <1>8, <1>9, <1>10, <1>11
        DEF Next, Checkpoint

\* IInv holds in every reachable state.
THEOREM Inductive == Spec => []IInv
BY InitIInv, NextIInv, PTL DEF Spec

\* The state keeps its types: no document is twice in the list, and the documents
\* kept are those in the list.
THEOREM TypeCorrect == Spec => []TypeOK
<1>1. IInv => TypeOK
  BY DEF IInv, ListKnown, DocsKnown, TypeOK, Open, Elements
<1> QED BY <1>1, Inductive, PTL

\* A document that a checkpoint passes over has exactly its text and format on disk.
THEOREM RecordedOnDisk == Spec => []RecordedIsOnDisk
<1>1. ASSUME IInv, NEW d \in Open, ~Behind(d), doc[d].dirty
      PROVE  snaps[d] = ContentOf(d)
  <2> USE CheckpointsAssumption
  <2>1. d \in Docs /\ d \in Elements(list)
    BY <1>1 DEF IInv, ListKnown, Open, Elements
  <2>2. doc[d] \in Document /\ Agreeing(doc[d], snaps[d])
    BY <1>1, <2>1 DEF IInv, ListKnown, DocsKnown, Agreeing
  <2>3. doc[d].recovery_generation = Version(d)
    BY <1>1 DEF Behind
  <2>4. Version(d) \in Generation
    BY <2>2 DEF Version, Document, Generation
  <2>5. /\ snaps[d] # None /\ snaps[d].format = doc[d].format
        /\ snaps[d].text = doc[d].text
    <3>1. Version(d).format = doc[d].format /\ Version(d).revision = doc[d].revision
      BY DEF Version
    <3>2. doc[d].recovery_generation # None
      BY <2>3, <2>4
    <3> QED BY <2>2, <2>3, <3>1, <3>2 DEF Agreeing, Recorded
  <2>6. snaps[d] \in Content
    BY <1>1, <2>1, <2>5 DEF IInv, DocsKnown
  <2> QED BY <2>5, <2>6 DEF Content, ContentOf
<1>2. IInv => RecordedIsOnDisk
  BY <1>1 DEF RecordedIsOnDisk
<1> QED BY <1>2, Inductive, PTL

\* No closed document leaves a snapshot behind of which the user was not told.
THEOREM ClosedLeave == Spec => []ClosedLeaveNothing
<1>1. IInv => ClosedLeaveNothing
  BY DEF IInv, ListKnown, DocsKnown, ClosedLeaveNothing, Open, Elements
<1> QED BY <1>1, Inductive, PTL
-----------------------------------------------------------------------------
(***************************************************************************)
(* The disk status: no event the callback was told of is forgotten,        *)
(* however small the queue.                                                *)
(***************************************************************************)
Status == INSTANCE DiskStatus

Kept ==
  \/ overflow
  \/ \E i \in DOMAIN queue : queue[i] \in {"modify", "rescan"}
  \/ pc \in {"drain", "stamp"} /\ (rescan \/ touched)

LEMMA StatusVersions ==
  ASSUME NEW version \in DiskVersion \cup {NoVersion}
  PROVE  Len(version.content) \in Nat
  BY StatusAssumption DEF DiskVersion, NoVersion

LEMMA StatusInit == Status!Init => NoEventForgotten
<1> SUFFICES ASSUME Status!Init PROVE NoEventForgotten
  OBVIOUS
<1>1. queue \in Seq(Kinds \cup {"rescan"}) /\ Len(queue) <= QueueCapacity
  BY StatusAssumption DEF Status!Init
<1>2. {file, base} \subseteq DiskVersion \cup {NoVersion}
  BY DEF Status!Init, Status!DiskVersion, Status!NoVersion, DiskVersion, NoVersion
<1>3. /\ overflow \in BOOLEAN /\ event \in BOOLEAN /\ changed \in BOOLEAN
      /\ shown \in BOOLEAN /\ rescan \in BOOLEAN /\ touched \in BOOLEAN
  BY DEF Status!Init
<1>4. unseen = FALSE /\ probe = NoProbe /\ pc = "input" /\ inflight = {}
  BY DEF Status!Init, Status!NoProbe, NoProbe
<1>5. drained \in 0 .. QueueCapacity /\ failures \in 0 .. MaxFailures
  BY StatusAssumption DEF Status!Init
<1>6. StatusTypeOK
  BY <1>1, <1>2, <1>3, <1>4, <1>5 DEF StatusTypeOK
<1> QED BY <1>4, <1>6 DEF NoEventForgotten

\* The system's callback keeps what it says waiting, or calls for a look at everything.
LEMMA QueueEventKeeps ==
  ASSUME StatusTypeOK, NEW kind \in Kinds \cup {"rescan"}, Status!QueueEvent(kind)
  PROVE  /\ queue' \in Seq(Kinds \cup {"rescan"}) /\ Len(queue') <= QueueCapacity
         /\ overflow' \in BOOLEAN
         /\ overflow => overflow'
         /\ \A i \in DOMAIN queue : i \in DOMAIN queue' /\ queue'[i] = queue[i]
         /\ kind \in {"modify", "rescan"} =>
              overflow' \/ \E i \in DOMAIN queue' : queue'[i] \in {"modify", "rescan"}
<1>1. queue \in Seq(Kinds \cup {"rescan"}) /\ Len(queue) <= QueueCapacity
  BY DEF StatusTypeOK
<1>2. CASE Len(queue) < QueueCapacity
  <2>1. queue' = Append(queue, kind) /\ overflow' = overflow
    BY <1>2 DEF Status!QueueEvent
  <2>2. /\ queue' \in Seq(Kinds \cup {"rescan"}) /\ Len(queue') = Len(queue) + 1
        /\ queue'[Len(queue) + 1] = kind
        /\ \A i \in 1 .. Len(queue) : queue'[i] = queue[i]
    BY <1>1, <2>1
  <2>3. DOMAIN queue = 1 .. Len(queue) /\ DOMAIN queue' = 1 .. Len(queue')
    BY <1>1, <2>2
  <2>4. Len(queue) \in Nat /\ QueueCapacity \in Nat
    BY <1>1, StatusAssumption
  <2>5. Len(queue) + 1 \in DOMAIN queue'
    BY <2>2, <2>3, <2>4
  <2> QED BY <1>2, <2>1, <2>2, <2>3, <2>4, <2>5 DEF StatusTypeOK
<1>3. CASE ~(Len(queue) < QueueCapacity)
  <2>1. queue' = queue /\ overflow' = TRUE
    BY <1>3 DEF Status!QueueEvent
  <2> QED BY <1>1, <2>1
<1> QED BY <1>2, <1>3

LEMMA CallbackKeeps ==
  ASSUME NoEventForgotten, NEW kind \in Kinds, Status!Callback(kind)
  PROVE  NoEventForgotten'
<1>1. PICK reported \in {kind, "rescan"} : Status!QueueEvent(reported)
  BY DEF Status!Callback
<1>2. StatusTypeOK /\ (unseen => Kept)
  BY DEF NoEventForgotten, Kept
<1>3. reported \in Kinds \cup {"rescan"} /\ (kind = "modify" => reported \in {"modify", "rescan"})
  OBVIOUS
<1>4. /\ queue' \in Seq(Kinds \cup {"rescan"}) /\ Len(queue') <= QueueCapacity
      /\ overflow' \in BOOLEAN
      /\ overflow => overflow'
      /\ \A i \in DOMAIN queue : i \in DOMAIN queue' /\ queue'[i] = queue[i]
      /\ reported \in {"modify", "rescan"} =>
           overflow' \/ \E i \in DOMAIN queue' : queue'[i] \in {"modify", "rescan"}
  BY <1>1, <1>2, <1>3, QueueEventKeeps
<1>5. /\ inflight' = inflight \ {kind}
      /\ unseen' = (unseen \/ kind = "modify")
      /\ UNCHANGED <<file, seen, base, event, probe, changed, shown, pc, rescan, touched, drained,
                     failures>>
  BY DEF Status!Callback, Status!document, Status!locals
<1>6. StatusTypeOK'
  BY <1>2, <1>4, <1>5 DEF StatusTypeOK
<1>7. unseen' => Kept'
  <2>1. CASE kind = "modify"
    BY <1>3, <1>4, <2>1 DEF Kept
  <2>2. CASE kind # "modify"
    <3>1. SUFFICES ASSUME unseen PROVE Kept'
      BY <1>5, <2>2
    <3>2. CASE \E i \in DOMAIN queue : queue[i] \in {"modify", "rescan"}
      BY <1>4, <3>2 DEF Kept
    <3> QED BY <1>2, <1>4, <1>5, <3>1, <3>2 DEF Kept
  <2> QED BY <2>1, <2>2
<1> QED BY <1>6, <1>7 DEF NoEventForgotten, Kept

\* What another program or the user does, which leaves the watcher alone.
LEMMA OutsideKeeps ==
  ASSUME NoEventForgotten, Status!Write \/ Status!Lose \/ Status!NoKey \/ Status!Save
  PROVE  NoEventForgotten'
<1>1. StatusTypeOK /\ (unseen => Kept)
  BY DEF NoEventForgotten, Kept
<1>2. /\ UNCHANGED <<queue, overflow, seen, rescan, touched, drained, failures, unseen, shown>>
      /\ inflight' \subseteq Kinds
      /\ pc' = pc \/ (pc = "input" /\ pc' = "poll")
  BY <1>1 DEF StatusTypeOK, Kinds, Status!Write, Status!Lose, Status!NoKey, Status!Save,
     Status!At, Status!GoTo, Status!watcher, Status!document, Status!locals
<1>3. /\ {file', base'} \subseteq DiskVersion \cup {NoVersion}
      /\ UNCHANGED <<base, event, changed, probe>> \/ Status!Rebase(base')
  <2>1. CASE Status!Write
    BY <1>1, <2>1 DEF StatusTypeOK, Status!Write, Status!document, Status!DiskVersion,
       Status!NoVersion, DiskVersion, NoVersion
  <2>2. CASE Status!Lose \/ Status!NoKey
    BY <1>1, <2>2 DEF StatusTypeOK, Status!Lose, Status!NoKey, Status!document
  <2>3. CASE Status!Save
    <3>1. PICK stamp \in Stamps : /\ file' = [stamp |-> stamp, content |-> Text]
                                  /\ Status!Rebase([stamp |-> stamp, content |-> Text])
      BY <2>3 DEF Status!Save
    <3>2. [stamp |-> stamp, content |-> Text] \in DiskVersion
      BY StatusAssumption DEF DiskVersion
    <3>3. base' = file'
      BY <3>1 DEF Status!Rebase
    <3> QED BY <3>1, <3>2, <3>3
  <2> QED BY <2>1, <2>2, <2>3
<1>4. /\ event' \in BOOLEAN /\ changed' \in BOOLEAN
      /\ probe' = NoProbe \/ Len(probe') <= Len(base'.content)
  <2>1. CASE UNCHANGED <<base, event, changed, probe>>
    BY <1>1, <2>1 DEF StatusTypeOK
  <2>2. CASE Status!Rebase(base')
    BY <2>2 DEF Status!Rebase, Status!NoProbe, NoProbe
  <2> QED BY <1>3, <2>1, <2>2
<1>5. StatusTypeOK'
  BY <1>1, <1>2, <1>3, <1>4 DEF StatusTypeOK
<1>6. Kept => Kept'
  BY <1>2 DEF Kept
<1> QED BY <1>1, <1>2, <1>5, <1>6 DEF NoEventForgotten, Kept

LEMMA ReloadKeeps ==
  ASSUME NoEventForgotten, Status!Reload
  PROVE  NoEventForgotten'
<1>1. StatusTypeOK
  BY DEF NoEventForgotten
<1>2. /\ base' = file /\ probe' = NoProbe /\ pc' = "poll"
      /\ event' = FALSE /\ changed' = FALSE /\ shown' = FALSE /\ unseen' = FALSE
      /\ UNCHANGED <<file, inflight, queue, overflow, rescan, touched, drained, failures>>
  BY DEF Status!Reload, Status!Rebase, Status!GoTo, Status!locals, Status!NoProbe, NoProbe
<1>3. /\ event' \in BOOLEAN /\ changed' \in BOOLEAN /\ shown' \in BOOLEAN
      /\ unseen' \in BOOLEAN
  BY <1>2
<1>4. StatusTypeOK'
  BY <1>1, <1>2, <1>3 DEF StatusTypeOK
<1> QED BY <1>2, <1>4 DEF NoEventForgotten

\* poll_events: what was in the flag goes to the local variable, and what was in the queue.
LEMMA PollStartsKeeps ==
  ASSUME NoEventForgotten, NEW elapsed \in BOOLEAN, Status!PollStarts(elapsed)
  PROVE  NoEventForgotten'
<1>1. StatusTypeOK /\ (unseen => Kept)
  BY DEF NoEventForgotten, Kept
<1>2. /\ pc = "poll" /\ pc' = "drain"
      /\ rescan' = (overflow \/ elapsed)
      /\ overflow' = FALSE /\ touched' = FALSE /\ drained' = 0
      /\ UNCHANGED <<file, inflight, queue, seen, base, event, probe, changed, shown, failures,
                     unseen>>
  BY DEF Status!PollStarts, Status!At, Status!GoTo, Status!document
<1>3. StatusTypeOK'
  <2>1. drained' \in 0 .. QueueCapacity
    BY <1>2, StatusAssumption
  <2>2. overflow' \in BOOLEAN /\ touched' \in BOOLEAN /\ rescan' \in BOOLEAN
    BY <1>2
  <2> QED BY <1>1, <1>2, <2>1, <2>2 DEF StatusTypeOK
<1>4. Kept => Kept'
  BY <1>2 DEF Kept
<1> QED BY <1>1, <1>2, <1>3, <1>4 DEF NoEventForgotten, Kept

LEMMA DrainKeeps ==
  ASSUME NoEventForgotten, Status!Drain
  PROVE  NoEventForgotten'
<1>1. StatusTypeOK /\ (unseen => Kept)
  BY DEF NoEventForgotten, Kept
<1>2. /\ pc = "drain" /\ queue # <<>> /\ drained < QueueCapacity
      /\ queue' = Tail(queue) /\ drained' = drained + 1
      /\ touched' = (touched \/ Head(queue) = "modify")
      /\ rescan' = (rescan \/ Head(queue) = "rescan")
      /\ UNCHANGED <<file, inflight, overflow, seen, base, event, probe, changed, shown, pc,
                     failures, unseen>>
  BY DEF Status!Drain, Status!At, Status!Touches, Status!document
<1>3. queue \in Seq(Kinds \cup {"rescan"}) /\ Len(queue) <= QueueCapacity
  BY <1>1 DEF StatusTypeOK
<1>4. /\ queue' \in Seq(Kinds \cup {"rescan"}) /\ Len(queue') = Len(queue) - 1
      /\ Len(queue) \in Nat \ {0} /\ Head(queue) = queue[1]
      /\ \A i \in 1 .. Len(queue') : queue'[i] = queue[i + 1]
  BY <1>2, <1>3
<1>5. DOMAIN queue = 1 .. Len(queue) /\ DOMAIN queue' = 1 .. Len(queue')
  BY <1>3, <1>4
<1>6. StatusTypeOK'
  <2>1. drained' \in 0 .. QueueCapacity /\ Len(queue') <= QueueCapacity
    BY <1>1, <1>2, <1>3, <1>4, StatusAssumption DEF StatusTypeOK
  <2>2. touched' \in BOOLEAN /\ rescan' \in BOOLEAN
    BY <1>1, <1>2 DEF StatusTypeOK
  <2> QED BY <1>1, <1>2, <1>4, <2>1, <2>2 DEF StatusTypeOK
<1>7. Kept => Kept'
  <2>1. CASE overflow \/ rescan \/ touched
    BY <1>2, <2>1 DEF Kept
  <2>2. ASSUME NEW i \in DOMAIN queue, queue[i] \in {"modify", "rescan"} PROVE Kept'
    <3>1. CASE i = 1
      BY <1>2, <1>4, <2>2, <3>1 DEF Kept
    <3>2. CASE i # 1
      <4>1. i - 1 \in 1 .. Len(queue') /\ queue'[i - 1] = queue[i]
        BY <1>4, <1>5, <3>2
      <4> QED BY <1>5, <2>2, <4>1 DEF Kept
    <3> QED BY <3>1, <3>2
  <2> QED BY <2>1, <2>2 DEF Kept
<1> QED BY <1>1, <1>2, <1>6, <1>7 DEF NoEventForgotten, Kept

LEMMA DrainedKeeps ==
  ASSUME NoEventForgotten, Status!Drained
  PROVE  NoEventForgotten'
<1>1. StatusTypeOK /\ (unseen => Kept)
  BY DEF NoEventForgotten, Kept
<1>2. /\ pc = "drain" /\ pc' = IF rescan \/ touched THEN "stamp" ELSE "status"
      /\ drained' = 0
      /\ UNCHANGED <<file, inflight, queue, overflow, seen, base, event, probe, changed, shown,
                     rescan, touched, failures, unseen>>
  BY DEF Status!Drained, Status!At, Status!GoTo, Status!watcher, Status!document
<1>3. StatusTypeOK'
  BY <1>1, <1>2, StatusAssumption DEF StatusTypeOK
<1>4. Kept => Kept'
  BY <1>2 DEF Kept
<1> QED BY <1>1, <1>2, <1>3, <1>4 DEF NoEventForgotten, Kept

LEMMA StampFileKeeps ==
  ASSUME NoEventForgotten, Status!StampFile
  PROVE  NoEventForgotten'
<1>1. StatusTypeOK
  BY DEF NoEventForgotten
<1>2. StatusTypeOK' /\ ~unseen'
  BY <1>1 DEF StatusTypeOK, Status!StampFile, Status!At, Status!GoTo
<1> QED BY <1>2 DEF NoEventForgotten

\* disk_status_at reads what the watcher has left, and leaves the watcher alone.
LEMMA LookKeeps ==
  ASSUME NoEventForgotten,
         \/ \E elapsed \in BOOLEAN : Status!LookAtMetadata(elapsed)
         \/ Status!ReadSlices \/ Status!Verify \/ Status!ReadFails
  PROVE  NoEventForgotten'
<1>1. StatusTypeOK /\ (unseen => Kept)
  BY DEF NoEventForgotten, Kept
<1>2. /\ UNCHANGED <<file, base, queue, overflow, seen, rescan, touched, drained, unseen>>
      /\ pc \in {"status", "read", "verify"}
      /\ pc' \in {"input", "read", "verify"}
  BY DEF Status!LookAtMetadata, Status!ReadSlices, Status!Verify, Status!ReadFails,
     Status!At, Status!GoTo, Status!Status, Status!Finish, Status!watcher, Status!locals
<1>3. inflight' \subseteq Kinds /\ failures' \in 0 .. MaxFailures
  <2>1. inflight' = inflight \/ inflight' = inflight \cup {"access"}
    BY DEF Status!LookAtMetadata, Status!ReadSlices, Status!Verify, Status!ReadFails,
       Status!watcher
  <2>2. failures' = failures \/ (failures < MaxFailures /\ failures' = failures + 1)
    BY DEF Status!LookAtMetadata, Status!ReadSlices, Status!Verify, Status!ReadFails
  <2>3. inflight' \subseteq Kinds
    BY <1>1, <2>1 DEF StatusTypeOK, Kinds
  <2>4. failures' \in 0 .. MaxFailures
    BY <1>1, <2>2, StatusAssumption DEF StatusTypeOK
  <2> QED BY <2>3, <2>4
<1>4. event' \in BOOLEAN /\ changed' \in BOOLEAN /\ shown' \in BOOLEAN
  <2>1. event' = event \/ event' = FALSE
    BY DEF Status!LookAtMetadata, Status!ReadSlices, Status!Verify, Status!ReadFails
  <2>2. /\ changed' = changed \/ changed' \in BOOLEAN
        /\ shown' = shown \/ shown' = changed \/ shown' \in BOOLEAN
    BY DEF Status!LookAtMetadata, Status!ReadSlices, Status!Verify, Status!ReadFails,
       Status!Status, Status!Finish, Status!Exists
  <2> QED BY <1>1, <2>1, <2>2 DEF StatusTypeOK
<1>5. probe' = NoProbe \/ Len(probe') <= Len(base'.content)
  <2>1. Len(base.content) \in Nat
    BY <1>1, StatusVersions DEF StatusTypeOK
  <2>2. Len(<<>>) = 0
    OBVIOUS
  <2>3. probe = NoProbe \/ Len(probe) <= Len(base.content)
    BY <1>1 DEF StatusTypeOK
  <2>4. CASE \E elapsed \in BOOLEAN : Status!LookAtMetadata(elapsed)
    <3>1. probe' = NoProbe \/ probe' = probe \/ probe' = <<>>
      BY <2>4 DEF Status!LookAtMetadata, Status!NoProbe, NoProbe
    <3> QED BY <1>2, <2>1, <2>2, <2>3, <3>1
  <2>5. CASE Status!ReadSlices
    <3>1. CASE probe' = NoProbe
      BY <3>1
    <3>2. CASE probe' # NoProbe
      <4>1. PICK read : probe' = read /\ Len(read) <= Len(base.content)
        BY <2>5, <3>2 DEF Status!ReadSlices, Status!Finish, Status!NoProbe, NoProbe
      <4> QED BY <1>2, <4>1
    <3> QED BY <3>1, <3>2
  <2>6. CASE Status!Verify \/ Status!ReadFails
    BY <2>6 DEF Status!Verify, Status!ReadFails, Status!Finish, Status!NoProbe, NoProbe
  <2> QED BY <2>4, <2>5, <2>6
<1>6. StatusTypeOK'
  BY <1>1, <1>2, <1>3, <1>4, <1>5 DEF StatusTypeOK
<1>7. Kept => Kept'
  BY <1>2 DEF Kept
<1> QED BY <1>1, <1>2, <1>6, <1>7 DEF NoEventForgotten, Kept

\* A change that the system's callback was told of is never forgotten until the poll has looked
\* at the file, for every size of the queue, of the slices and of the budget: what a full queue
\* drops the overflow flag makes up for (queue_event, poll_events).
THEOREM EventsAreKept == Status!Spec => []NoEventForgotten
<1>1. NoEventForgotten /\ [Status!Next]_(Status!vars) => NoEventForgotten'
  <2> SUFFICES ASSUME NoEventForgotten, [Status!Next]_(Status!vars) PROVE NoEventForgotten'
    OBVIOUS
  <2>1. CASE Status!Write \/ Status!Lose \/ Status!NoKey \/ Status!Save
    BY <2>1, OutsideKeeps
  <2>2. ASSUME NEW kind \in Kinds, Status!Callback(kind) PROVE NoEventForgotten'
    BY <2>2, CallbackKeeps
  <2>3. CASE Status!Reload
    BY <2>3, ReloadKeeps
  <2>4. ASSUME NEW elapsed \in BOOLEAN, Status!PollStarts(elapsed) PROVE NoEventForgotten'
    BY <2>4, PollStartsKeeps
  <2>5. CASE Status!Drain
    BY <2>5, DrainKeeps
  <2>6. CASE Status!Drained
    BY <2>6, DrainedKeeps
  <2>7. CASE Status!StampFile
    BY <2>7, StampFileKeeps
  <2>8. CASE \/ \E elapsed \in BOOLEAN : Status!LookAtMetadata(elapsed)
             \/ Status!ReadSlices \/ Status!Verify \/ Status!ReadFails
    BY <2>8, LookKeeps
  <2>9. CASE UNCHANGED Status!vars
    BY <2>9 DEF NoEventForgotten, StatusTypeOK, Status!vars, Status!watcher, Status!document,
       Status!locals
  <2> QED BY <2>1, <2>2, <2>3, <2>4, <2>5, <2>6, <2>7, <2>8, <2>9 DEF Status!Next, Status!Loop,
        Status!Environment, Status!Kinds, Kinds
<1> QED BY <1>1, StatusInit, PTL DEF Status!Spec


-----------------------------------------------------------------------------
(***************************************************************************)
(* The recorder: while the recording has not failed, what is recorded is   *)
(* what the editor ran itself.                                             *)
(***************************************************************************)
StoreShape ==
  store \in [recording : BOOLEAN, commands : Seq(Commands), bytes : Nat, failed : BOOLEAN]

Words == Commands \cup {"unrecordable"}
Entries == [by : {"editor", "elsewhere"}, command : Words]

Complete == store.recording /\ ~store.failed => store.commands = Recorder!EditorsOwn(ran)

RecorderInv == StoreShape /\ ran \in Seq(Entries) /\ Complete /\ Recorder!SavedIsWhatRan

LEMMA NoCommandYet == <<>> \in Seq(Commands)
OBVIOUS

LEMMA NothingRanYet == <<>> \in Seq(Entries)
OBVIOUS

\* What the editor ran itself is taken, one entry after the other.
Taken(own, e) == IF e.by = "editor" THEN Append(own, e.command) ELSE own

LEMMA EditorsOwnIs ==
  ASSUME NEW all \in Seq(Entries)
  PROVE  \E f : /\ f = [i \in 0..Len(all) |-> IF i = 0 THEN <<>> ELSE Taken(f[i - 1], all[i])]
               /\ Recorder!EditorsOwn(all) = f[Len(all)]
<1> DEFINE n == Len(all) none == <<>> T == Seq(Words) P == T \X (0..n)
           F == [p \in T \X (1..n) |-> Taken(p[1], all[p[2]])]
<1>0. n \in Nat /\ none \in T /\ <<none, 0>> \in P /\ P \subseteq T \X (0..n)
  <2>1. n \in Nat /\ 0 \in 0..n
    OBVIOUS
  <2>2. none \in T
    OBVIOUS
  <2> HIDE DEF none, T, n
  <2> QED BY <2>1, <2>2
<1>1. ASSUME NEW i \in 1..n, NEW own \in T PROVE Taken(own, all[i]) \in T
  <2>1. all[i] \in Entries
    BY <1>0
  <2>2. all[i].command \in Words
    BY <2>1 DEF Entries
  <2> QED BY <2>2 DEF Taken
<1> HIDE DEF none, T
<1>2. ASSUME NEW i \in 1..n, NEW q, <<q, i - 1>> \in P PROVE <<F[<<q, i>>], i>> \in P
  <2>1. q \in T /\ i \in 0..n
    BY <1>0, <1>2
  <2>2. F[<<q, i>>] = Taken(q, all[i])
    BY <2>1
  <2> QED BY <2>1, <2>2, <1>1
<1>3. PICK g : Recursive(g, n, T, P, none, F)
  <2> HIDE DEF n, F, P
  <2>1. \A i \in 1..n : \A q : <<q, i - 1>> \in P => <<F[<<q, i>>], i>> \in P
    BY <1>2
  <2> QED BY <1>0, <2>1, Recursion
<1>4. g = [i \in 0..n |-> IF i = 0 THEN none ELSE Taken(g[i - 1], all[i])]
  <2>1. ASSUME NEW i \in 1..n PROVE g[i] = Taken(g[i - 1], all[i])
    <3>1. g[i - 1] \in T
      BY <1>0, <1>3 DEF Recursive
    <3> HIDE DEF P
    <3> QED BY <3>1, <1>3 DEF Recursive
  <2>2. \A i \in 0..n : g[i] = IF i = 0 THEN none ELSE Taken(g[i - 1], all[i])
    BY <1>3, <2>1 DEF Recursive
  <2> QED BY <2>2, <1>3 DEF Recursive
<1> QED BY <1>4 DEF Recorder!EditorsOwn, Taken, none

\* Of no entry the editor ran nothing.
LEMMA NothingOwn == Recorder!EditorsOwn(<<>>) = <<>>
<1> DEFINE none == <<>>
<1>1. none \in Seq(Entries) /\ Len(none) = 0
  OBVIOUS
<1> HIDE DEF none
<1>2. PICK f : /\ f = [i \in 0..Len(none) |-> IF i = 0 THEN <<>> ELSE Taken(f[i - 1], none[i])]
               /\ Recorder!EditorsOwn(none) = f[Len(none)]
  BY <1>1, EditorsOwnIs
<1>3. f[0] = <<>>
  BY <1>1, <1>2
<1> QED BY <1>1, <1>2, <1>3 DEF none

\* One more entry adds its command, or nothing.
LEMMA OneMoreOwn ==
  ASSUME NEW all \in Seq(Entries), NEW e \in Entries
  PROVE  Recorder!EditorsOwn(Append(all, e)) = Taken(Recorder!EditorsOwn(all), e)
<1> DEFINE n == Len(all) more == Append(all, e)
<1>1. /\ n \in Nat /\ more \in Seq(Entries) /\ Len(more) = n + 1 /\ more[n + 1] = e
      /\ \A i \in 1..n : more[i] = all[i]
  OBVIOUS
<1>2. PICK f : /\ f = [i \in 0..n |-> IF i = 0 THEN <<>> ELSE Taken(f[i - 1], all[i])]
               /\ Recorder!EditorsOwn(all) = f[n]
  BY EditorsOwnIs
<1> HIDE DEF more
<1>3. PICK h : /\ h = [i \in 0..Len(more) |-> IF i = 0 THEN <<>> ELSE Taken(h[i - 1], more[i])]
               /\ Recorder!EditorsOwn(more) = h[Len(more)]
  BY <1>1, EditorsOwnIs
<1> HIDE DEF n
<1> DEFINE S == {i \in 0..n : h[i] = f[i]}
<1>4. h[0] = <<>> /\ \A i \in 1..n + 1 : h[i] = Taken(h[i - 1], more[i])
  <2>1. \A i \in 0..n + 1 : h[i] = IF i = 0 THEN <<>> ELSE Taken(h[i - 1], more[i])
    BY <1>1, <1>3
  <2> QED BY <1>1, <2>1
<1>5. f[0] = <<>> /\ \A i \in 1..n : f[i] = Taken(f[i - 1], all[i])
  <2>1. \A i \in 0..n : f[i] = IF i = 0 THEN <<>> ELSE Taken(f[i - 1], all[i])
    BY <1>2
  <2> QED BY <1>1, <2>1
<1>6. 0 \in S
  BY <1>1, <1>4, <1>5
<1>7. ASSUME NEW i \in 1..n, i - 1 \in S PROVE i \in S
  <2>1. i \in 1..n + 1 /\ i \in 0..n /\ more[i] = all[i] /\ h[i - 1] = f[i - 1]
    BY <1>1, <1>7
  <2> QED BY <2>1, <1>4, <1>5
<1>8. h[n] = f[n]
  <2>1. \A i \in 0..n : i \in S
    <3> HIDE DEF S
    <3> QED BY <1>1, <1>6, <1>7, Induction
  <2> QED BY <1>1, <2>1
<1>9. h[n + 1] = Taken(h[n], e)
  <2>1. n + 1 \in 1..n + 1 /\ (n + 1) - 1 = n
    BY <1>1
  <2> QED BY <1>1, <1>4, <2>1
<1> QED BY <1>1, <1>2, <1>3, <1>8, <1>9 DEF more

LEMMA EntriesAre ==
  /\ Recorder!Elsewhere \in Entries /\ Recorder!Elsewhere.by # "editor"
  /\ \A c \in Commands : /\ Recorder!ByEditor(c) \in Entries
                          /\ Recorder!ByEditor(c).by = "editor"
                          /\ Recorder!ByEditor(c).command = c
BY DEF Recorder!Elsewhere, Recorder!ByEditor, Entries, Words

LEMMA RecorderStarts == Recorder!Init => RecorderInv
<1> SUFFICES ASSUME Recorder!Init PROVE RecorderInv
  OBVIOUS
<1>1. StoreShape /\ Complete
  BY NoCommandYet DEF Recorder!Init, Recorder!Idle, StoreShape, Complete
<1>2. ran \in Seq(Entries)
  BY NothingRanYet DEF Recorder!Init
<1>3. Recorder!SavedIsWhatRan
  BY DEF Recorder!Init, Recorder!SavedIsWhatRan
<1> QED BY <1>1, <1>2, <1>3, Zenon DEF RecorderInv

\* What is run from elsewhere is not the editor's own.
LEMMA ElsewhereKeeps ==
  ASSUME RecorderInv, UNCHANGED <<store, library>>, Recorder!Run(Recorder!Elsewhere)
  PROVE  RecorderInv'
<1> DEFINE e == Recorder!Elsewhere
<1>1. ran \in Seq(Entries) /\ e \in Entries /\ e.by # "editor"
  BY EntriesAre DEF RecorderInv
<1>2. ran' = ran \/ ran' = Append(ran, e)
  BY DEF Recorder!Run
<1> HIDE DEF e
<1>3. ran' \in Seq(Entries) /\ Recorder!EditorsOwn(ran') = Recorder!EditorsOwn(ran)
  <2>1. CASE ran' = ran
    BY <1>1, <2>1
  <2>2. CASE ran' = Append(ran, e)
    <3>1. Append(ran, e) \in Seq(Entries)
      BY <1>1
    <3>2. Recorder!EditorsOwn(Append(ran, e)) = Taken(Recorder!EditorsOwn(ran), e)
      BY <1>1, OneMoreOwn
    <3> QED BY <1>1, <2>2, <3>1, <3>2 DEF Taken
  <2> QED BY <1>2, <2>1, <2>2
<1> QED BY <1>3 DEF RecorderInv, StoreShape, Complete, Recorder!SavedIsWhatRan

\* What fits is recorded, and what does not ends the recording.
LEMMA RecordKeeps ==
  ASSUME StoreShape, Complete, ran \in Seq(Entries), NEW c \in Commands,
         store' = Recorder!Record(store, c), ran' = Append(ran, Recorder!ByEditor(c))
  PROVE  StoreShape' /\ ran' \in Seq(Entries) /\ Complete'
<1>1. /\ TextLength[c] \in Nat /\ store.bytes \in Nat /\ store.commands \in Seq(Commands)
      /\ store.recording \in BOOLEAN /\ store.failed \in BOOLEAN
  BY ToolsAssumption DEF StoreShape
<1>2. store.bytes + TextLength[c] \in Nat /\ Append(store.commands, c) \in Seq(Commands)
  BY <1>1
<1>3. ran' \in Seq(Entries) /\ Recorder!EditorsOwn(ran') = Append(Recorder!EditorsOwn(ran), c)
  <2> DEFINE e == Recorder!ByEditor(c)
  <2>1. e \in Entries /\ e.by = "editor" /\ e.command = c /\ ran' = Append(ran, e)
    BY EntriesAre
  <2> HIDE DEF e
  <2> QED BY <2>1, OneMoreOwn DEF Taken
<1>4. CASE ~store.recording \/ store.failed
  <2>1. store' = store
    BY <1>4 DEF Recorder!Record
  <2> QED BY <1>3, <1>4, <2>1 DEF StoreShape, Complete
<1>5. CASE store.recording /\ ~store.failed
  <2>1. \/ store' = [store EXCEPT !.failed = TRUE]
        \/ store' = [store EXCEPT !.bytes = store.bytes + TextLength[c], !.failed = TRUE]
        \/ store' = [store EXCEPT !.bytes = store.bytes + TextLength[c],
                                  !.commands = Append(store.commands, c)]
    BY <1>5 DEF Recorder!Record
  <2>2. StoreShape'
    BY <1>1, <1>2, <2>1 DEF StoreShape
  <2>3. store'.failed \/ store'.commands = Append(store.commands, c)
    BY <2>1 DEF StoreShape
  <2> QED BY <1>3, <1>5, <2>2, <2>3 DEF Complete
<1> QED BY <1>4, <1>5

LEMMA PassKeeps ==
  ASSUME RecorderInv, NEW i \in Recorder!Inputs, Recorder!Pass(i)
  PROVE  RecorderInv'
<1>1. CASE Recorder!RecordingEditor /\ i \in Commands
  <2>1. library' = library /\ store.recording
    BY <1>1 DEF Recorder!Pass, Recorder!RecordingEditor
  <2>2. CASE document' = document
    <3>1. ran' = Append(ran, Recorder!ByEditor(i)) /\ store' = Recorder!Record(store, i)
      BY <1>1, <2>1, <2>2 DEF Recorder!Pass, Recorder!Run
    <3> QED BY <1>1, <2>1, <3>1, RecordKeeps DEF RecorderInv, Recorder!SavedIsWhatRan
  <2>3. CASE document' # document
    <3>1. Recorder!Run(Recorder!Elsewhere) /\ store' = store
      BY <1>1, <2>3 DEF Recorder!Pass
    <3> QED BY <2>1, <3>1, ElsewhereKeeps
  <2> QED BY <2>2, <2>3
<1>2. CASE UNCHANGED <<store, library, ran>>
  BY <1>2 DEF RecorderInv, StoreShape, Complete, Recorder!SavedIsWhatRan
<1>3. CASE UNCHANGED <<store, library>> /\ Recorder!Run(Recorder!Elsewhere)
  BY <1>3, ElsewhereKeeps
<1>4. CASE Recorder!Stop(i)
  <2>1. CASE store.recording
    BY <1>2, <1>4, <2>1 DEF Recorder!Stop
  <2>2. CASE ~store.recording
    <3>1. store' = [Recorder!Idle EXCEPT !.recording = TRUE] /\ ran' = <<>> /\ library' = library
      BY <1>4, <2>2 DEF Recorder!Stop, Recorder!Start
    <3>2. store' = [recording |-> TRUE, commands |-> <<>>, bytes |-> 0, failed |-> FALSE]
      BY <3>1 DEF Recorder!Idle
    <3>3. StoreShape'
      BY <3>2 DEF StoreShape
    <3>4. Complete' /\ ran' \in Seq(Entries)
      <4>1. store'.commands = <<>> /\ Recorder!EditorsOwn(ran') = <<>>
        BY <3>1, <3>2, NothingOwn
      <4> QED BY <3>1, <4>1 DEF Complete
    <3> QED BY <3>1, <3>3, <3>4 DEF RecorderInv, Recorder!SavedIsWhatRan
  <2> QED BY <2>1, <2>2
<1>5. CASE Recorder!AnswerName(i)
  <2>1. CASE store' = Recorder!Cancel(store) /\ library' = library /\ ran' = <<>>
    <3>1. store' = [store EXCEPT !.recording = FALSE, !.commands = <<>>, !.failed = FALSE]
      BY <2>1 DEF Recorder!Cancel
    <3>2. StoreShape' /\ Complete'
      BY <3>1, NoCommandYet DEF RecorderInv, StoreShape, Complete
    <3>3. ran' \in Seq(Entries)
      BY <2>1, NothingRanYet
    <3> QED BY <2>1, <3>2, <3>3 DEF RecorderInv, Recorder!SavedIsWhatRan
  <2>2. ASSUME NEW name \in Names, Recorder!Savable(store, name), ran' = <<>>,
               library' = [n \in DOMAIN library \cup {name} |->
                             IF n = name THEN [commands |-> store.commands, ran |-> ran]
                             ELSE library[n]],
               store' = [store EXCEPT !.recording = FALSE, !.commands = <<>>]
        PROVE  RecorderInv'
    <3>1. store.commands = Recorder!EditorsOwn(ran)
      BY <2>2 DEF Recorder!Savable, RecorderInv, Complete
    <3>2. StoreShape' /\ ~store'.recording
      BY <2>2, NoCommandYet DEF RecorderInv, StoreShape
    <3>3. ran' \in Seq(Entries)
      BY <2>2, NothingRanYet
    <3>4. Recorder!SavedIsWhatRan'
      BY <2>2, <3>1 DEF RecorderInv, Recorder!SavedIsWhatRan
    <3> QED BY <3>2, <3>3, <3>4 DEF RecorderInv, Complete
  <2> QED BY <1>2, <1>5, <2>1, <2>2 DEF Recorder!AnswerName
<1> QED BY <1>1, <1>2, <1>3, <1>4, <1>5 DEF Recorder!Pass, Recorder!Dispatch, Recorder!Search,
     Recorder!AnswerOther, Recorder!Ask, Recorder!Replay, Recorder!Nothing

LEMMA RecorderStep == RecorderInv /\ [Recorder!Next]_(Recorder!vars) => RecorderInv'
<1> SUFFICES ASSUME RecorderInv, [Recorder!Next]_(Recorder!vars) PROVE RecorderInv'
  OBVIOUS
<1>1. CASE UNCHANGED <<store, library, ran>>
  BY <1>1 DEF RecorderInv, StoreShape, Complete, Recorder!SavedIsWhatRan
<1>2. ASSUME NEW i \in Recorder!Inputs, Recorder!Pass(i) PROVE RecorderInv'
  BY <1>2, PassKeeps
<1>3. ASSUME NEW i \in Recorder!Inputs, Recorder!HoldBack(i) PROVE RecorderInv'
  BY <1>1, <1>3 DEF Recorder!HoldBack
<1>4. CASE Recorder!Browse
  BY <1>1, <1>4 DEF Recorder!Browse
<1>5. CASE Recorder!Restart
  BY <1>5 DEF Recorder!Restart, Recorder!Idle, RecorderInv, StoreShape, Complete,
     Recorder!SavedIsWhatRan
<1>6. CASE UNCHANGED Recorder!vars
  BY <1>1, <1>6 DEF Recorder!vars
<1> QED BY <1>2, <1>3, <1>4, <1>5, <1>6 DEF Recorder!Next

\* A saved macro is exactly what the editor ran itself while it was recorded, for every set of
\* commands and all limits; what was run from elsewhere, as the find bar's replacements or a
\* panel's command, is counted in the history and is in no macro (macros.rs: record,
\* stop_and_save; main.rs: the two decisions about an input).
THEOREM MacrosAreWhatRan == ToolsSpec => []SavedIsWhatRan
<1>1. ToolsInit => RecorderInv
  BY RecorderStarts DEF ToolsInit
<1>2. RecorderInv /\ [ToolsNext /\ UNCHANGED part]_toolVars => RecorderInv'
  BY RecorderStep DEF ToolsNext, toolVars, recorderVars, Recorder!vars
<1>3. RecorderInv => SavedIsWhatRan
  BY DEF RecorderInv, SavedIsWhatRan
<1> QED BY <1>1, <1>2, <1>3, PTL DEF ToolsSpec

-----------------------------------------------------------------------------
(***************************************************************************)
(* The rules: what is remembered of a file is the first rule in force that *)
(* matches it.                                                             *)
(***************************************************************************)
Hitting(path) == {k \in DOMAIN rules : path \in Matching[rules[k][1]]}

RulesShape == DOMAIN rules \subseteq Nat \ {0}

RememberedIsFirst == \A m \in active_match : m.index = Rules!First(m.path)

RulesInv == RulesShape /\ RememberedIsFirst /\ Rules!LanguageIsRight

\* What an answer has to say.
Right(a) ==
  IF Hitting(a.path) = {} THEN a.language = ""
  ELSE \E k \in Hitting(a.path) : a.language = rules[k][2] /\ \A j \in Hitting(a.path) : k <= j

LEMMA LanguageMeans == Rules!LanguageIsRight <=> \A a \in answer : Right(a)
BY DEF Rules!LanguageIsRight, Right, Hitting

LEMMA LanguageMeansNext == Rules!LanguageIsRight' <=> \A a \in answer' : Right(a)'
BY DEF Rules!LanguageIsRight, Right, Hitting

LEMMA SameRules ==
  ASSUME rules' = rules, NEW path
  PROVE  Rules!First(path)' = Rules!First(path) /\ Hitting(path)' = Hitting(path)
BY DEF Rules!First, Hitting

LEMMA FirstMatches ==
  ASSUME RulesShape, NEW path
  PROVE  /\ Hitting(path) = {} => Rules!First(path) = 0
         /\ Hitting(path) # {} => /\ Rules!First(path) \in Hitting(path)
                                  /\ \A j \in Hitting(path) : Rules!First(path) <= j
<1>1. Hitting(path) \in SUBSET Nat
  BY DEF RulesShape, Hitting
<1>2. Rules!First(path) = IF Hitting(path) = {} THEN 0
                          ELSE CHOOSE k \in Hitting(path) : \A j \in Hitting(path) : k <= j
  BY DEF Rules!First, Hitting
<1>3. CASE Hitting(path) # {}
  BY <1>1, <1>2, <1>3, LeastExists
<1> QED BY <1>2, <1>3

LEMMA RulesStart == Rules!Init => RulesInv
BY DEF Rules!Init, RulesInv, RulesShape, RememberedIsFirst, Rules!LanguageIsRight

LEMMA ReloadKeepsRules == RulesInv /\ Rules!Reload => RulesInv'
<1> SUFFICES ASSUME RulesInv, Rules!Reload PROVE RulesInv'
  OBVIOUS
<1>1. PICK content \in {{}} \cup {{t} : t \in RuleTexts} : Rules!Reloaded(content)
  BY DEF Rules!Reload
<1>2. answer' = {}
  BY DEF Rules!Reload
<1>3. CASE UNCHANGED <<rules, active_match>>
  <2>1. \A path : Rules!First(path)' = Rules!First(path)
    BY <1>3, SameRules
  <2>2. RulesShape' /\ RememberedIsFirst'
    BY <1>3, <2>1 DEF RulesInv, RulesShape, RememberedIsFirst
  <2> QED BY <1>2, <2>2 DEF RulesInv, Rules!LanguageIsRight
<1>4. CASE rules' = <<>> /\ active_match' = {}
  <2>1. DOMAIN rules' = {}
    BY <1>4
  <2> QED BY <1>2, <1>4, <2>1 DEF RulesInv, RulesShape, RememberedIsFirst, Rules!LanguageIsRight
<1>5. ASSUME NEW text \in RuleTexts, NEW new \in Rules!Parse(text), rules' = new,
             active_match' = {}
      PROVE  RulesInv'
  <2>1. text[1] # "broken" /\ new = text[2]
    BY <1>5 DEF Rules!Parse
  <2>2. PICK words : new \in Seq(words)
    BY <2>1, ToolsAssumption
  <2>3. DOMAIN new = 1 .. Len(new) /\ Len(new) \in Nat
    BY <2>2
  <2>4. RulesShape'
    BY <1>5, <2>3 DEF RulesShape
  <2> QED BY <1>2, <1>5, <2>4 DEF RulesInv, RememberedIsFirst, Rules!LanguageIsRight
<1> QED BY <1>1, <1>3, <1>4, <1>5 DEF Rules!Reloaded

LEMMA AskKeepsRules ==
  ASSUME RulesInv, NEW path \in Files, Rules!Ask(path)
  PROVE  RulesInv'
<1> DEFINE remembered == {m \in active_match : m.path = path}
<1>1. PICK index : /\ index = IF remembered = {} THEN Rules!First(path)
                              ELSE (CHOOSE m \in remembered : TRUE).index
                   /\ index = Rules!First(path)
  BY DEF RulesInv, RememberedIsFirst
<1>2. rules' = rules
  BY DEF Rules!Ask
<1>3. \A p : Rules!First(p)' = Rules!First(p) /\ Hitting(p)' = Hitting(p)
  BY <1>2, SameRules
<1>4. RulesShape /\ RulesShape'
  BY <1>2 DEF RulesInv, RulesShape
<1>5. CASE rules = <<>>
  <2>1. answer' = {[path |-> path, language |-> ""]} /\ active_match' = active_match
    BY <1>5 DEF Rules!Ask
  <2>2. Hitting(path) = {}
    BY <1>5 DEF Hitting
  <2>3. Right([path |-> path, language |-> ""])'
    BY <1>3, <2>2 DEF Right
  <2>4. Rules!LanguageIsRight'
    BY <2>1, <2>3, LanguageMeansNext
  <2> QED BY <1>3, <1>4, <2>1, <2>4 DEF RulesInv, RememberedIsFirst
<1>6. CASE rules # <<>>
  <2>0. PICK said : said = IF index = 0 THEN "" ELSE rules[index][2]
    OBVIOUS
  <2>1. /\ answer' = {[path |-> path, language |-> said]}
        /\ active_match' = {[path |-> path, index |-> index]}
    BY <1>1, <1>6, <2>0 DEF Rules!Ask
  <2>2. RememberedIsFirst'
    <3>1. index = Rules!First(path)'
      BY <1>1, <1>3
    <3> QED BY <2>1, <3>1 DEF RememberedIsFirst
  <2>3. Right([path |-> path, language |-> said])'
    <3>1. CASE Hitting(path) = {}
      <4>1. said = ""
        BY <1>1, <1>4, <2>0, <3>1, FirstMatches
      <4> QED BY <1>3, <3>1, <4>1 DEF Right
    <3>2. CASE Hitting(path) # {}
      <4>1. index \in Hitting(path) /\ \A j \in Hitting(path) : index <= j
        BY <1>1, <1>4, <3>2, FirstMatches
      <4>2. index # 0
        BY <1>4, <4>1 DEF RulesShape, Hitting
      <4>3. said = rules'[index][2]
        BY <1>2, <2>0, <4>2
      <4> QED BY <1>3, <3>2, <4>1, <4>3 DEF Right
    <3> QED BY <3>1, <3>2
  <2>4. Rules!LanguageIsRight'
    BY <2>1, <2>3, LanguageMeansNext
  <2> QED BY <1>4, <2>2, <2>4 DEF RulesInv
<1> QED BY <1>5, <1>6

LEMMA RulesStep == RulesInv /\ [Rules!Next]_(Rules!vars) => RulesInv'
<1> SUFFICES ASSUME RulesInv, [Rules!Next]_(Rules!vars) PROVE RulesInv'
  OBVIOUS
<1>1. CASE UNCHANGED Rules!vars
  <2>1. UNCHANGED <<rules, active_match, answer>>
    BY <1>1 DEF Rules!vars
  <2>2. \A path : Rules!First(path)' = Rules!First(path) /\ Hitting(path)' = Hitting(path)
    BY <2>1, SameRules
  <2>3. RulesShape' /\ RememberedIsFirst'
    BY <2>1, <2>2 DEF RulesInv, RulesShape, RememberedIsFirst
  <2>4. \A a : Right(a)' <=> Right(a)
    BY <2>1, <2>2 DEF Right
  <2> QED BY <2>1, <2>3, <2>4, LanguageMeans, LanguageMeansNext DEF RulesInv
<1> QED BY <1>1, ReloadKeepsRules, AskKeepsRules DEF Rules!Next

-----------------------------------------------------------------------------
(***************************************************************************)
(* state.json: a save that found it damaged has a backup of its own, from  *)
(* its first byte to the rename.                                           *)
(***************************************************************************)
AtMostOne(S) == \A a, b \in S : a = b

Indices == 0 .. MaxBackups - 1
Partial == {[content |-> {}, whole |-> FALSE]}
Whole(content) == {[content |-> content, whole |-> TRUE]}

IsSave(s) ==
  /\ s = [step |-> s.step, content |-> s.content, index |-> s.index]
  /\ AtMostOne(s.content)
  /\ s.step \in {"backup", "fill"} => s.index \in Indices

SavesShape ==
  /\ AtMostOne(stateFile) /\ \A i \in Instances : AtMostOne(config[i])
  /\ DOMAIN config = Instances /\ DOMAIN backups = Indices
  /\ DOMAIN saving = Instances /\ \A i \in Instances : IsSave(saving[i])

\* A backup that is being written belongs to one save.
FillsItsOwn ==
  \A i \in Instances : saving[i].step = "fill" =>
    /\ backups[saving[i].index] = Partial
    /\ \A j \in Instances : saving[j].step = "fill" /\ saving[j].index = saving[i].index => i = j

HasBackup(content) == \E k \in Indices : backups[k] = Whole(content)

WritesWithBackup ==
  \A i \in Instances : saving[i].step = "write" /\ saving[i].content # {} =>
    HasBackup(saving[i].content)

SavesInv == SavesShape /\ FillsItsOwn /\ WritesWithBackup /\ Stored!DamagedIsKept

\* A save that has not come to the backup, or does not need one.
Harmless(s) == IsSave(s) /\ s.step # "fill" /\ (s.step = "write" => s.content = {})

LEMMA DamagedMeans ==
  ASSUME SavesShape
  PROVE  Stored!DamagedIsKept <=> \A c \in replaced : HasBackup({c})
BY DEF SavesShape, Stored!DamagedIsKept, HasBackup, Whole

LEMMA DamagedMeansNext ==
  ASSUME SavesShape'
  PROVE  Stored!DamagedIsKept' <=> \A c \in replaced' : HasBackup({c})'
BY DEF SavesShape, Stored!DamagedIsKept, HasBackup, Whole

LEMMA SavesStart == Stored!Init => SavesInv
<1> SUFFICES ASSUME Stored!Init PROVE SavesInv
  OBVIOUS
<1>1. \A i \in Instances : saving[i] = Stored!Idle
  BY DEF Stored!Init
<1>2. SavesShape
  <2>1. IsSave(Stored!Idle)
    BY DEF Stored!Idle, IsSave, AtMostOne
  <2> QED BY <1>1, <2>1 DEF Stored!Init, SavesShape, AtMostOne, Indices
<1>3. \A i \in Instances : saving[i].step = "idle"
  BY <1>1 DEF Stored!Idle
<1>4. replaced = {}
  BY DEF Stored!Init
<1> QED BY <1>2, <1>3, <1>4 DEF SavesInv, FillsItsOwn, WritesWithBackup, Stored!DamagedIsKept

\* Of a content there is one parse at most.
LEMMA ParseOne == ASSUME NEW c, NEW there PROVE AtMostOne(Stored!Parse(c, there))
BY DEF Stored!Parse, AtMostOne

\* A step that leaves the backups alone, and a save before or without its backup.
LEMMA QuietStep ==
  ASSUME SavesInv, UNCHANGED <<backups, replaced>>, AtMostOne(stateFile)',
         DOMAIN config' = Instances, \A i \in Instances : AtMostOne(config[i])',
         \/ saving' = saving
         \/ \E i \in Instances : \E s : Harmless(s) /\ saving' = [saving EXCEPT ![i] = s]
  PROVE  SavesInv'
<1>1. \A k \in Instances :
        saving'[k] = saving[k] \/ Harmless(saving'[k])
  BY DEF SavesInv, SavesShape
<1>2. DOMAIN saving' = Instances
  BY DEF SavesInv, SavesShape
<1>3. SavesShape'
  BY <1>1, <1>2 DEF SavesInv, SavesShape, Harmless, IsSave, AtMostOne, Indices
<1>4. FillsItsOwn'
  BY <1>1 DEF SavesInv, FillsItsOwn, Harmless, Partial
<1>5. \A content : HasBackup(content)' <=> HasBackup(content)
  BY DEF HasBackup, Whole, Indices
<1>6. WritesWithBackup'
  BY <1>1, <1>5 DEF SavesInv, WritesWithBackup, Harmless
<1>7. Stored!DamagedIsKept'
  BY <1>3, <1>5, DamagedMeans, DamagedMeansNext DEF SavesInv
<1> QED BY <1>3, <1>4, <1>6, <1>7 DEF SavesInv

LEMMA LoadKeeps ==
  ASSUME SavesInv, NEW i \in Instances, Stored!Load(i)
  PROVE  SavesInv'
<1>1. UNCHANGED <<stateFile, backups, replaced>>
  BY DEF Stored!Load
<1>2. PICK one : config' = [config EXCEPT ![i] = one] /\ AtMostOne(one)
  <2> DEFINE parsed == UNION {Stored!Parse(c, attached) : c \in stateFile}
  <2>1. AtMostOne(parsed)
    <3>1. CASE stateFile = {}
      BY <3>1 DEF AtMostOne
    <3>2. CASE stateFile # {}
      <4>1. PICK c : stateFile = {c}
        <5>1. PICK c : c \in stateFile
          BY <3>2
        <5>2. stateFile = {c}
          BY <5>1 DEF SavesInv, SavesShape, AtMostOne
        <5> QED BY <5>2
      <4> QED BY <4>1, ParseOne DEF AtMostOne
    <3> QED BY <3>1, <3>2
  <2>2. AtMostOne({Stored!Default})
    BY DEF AtMostOne
  <2> HIDE DEF parsed
  <2>3. config' = [config EXCEPT ![i] = {Stored!Default}] \/ config' = [config EXCEPT ![i] = parsed]
    BY DEF Stored!Load, parsed
  <2> QED BY <2>1, <2>2, <2>3
<1>3. saving' = saving \/ saving' = [saving EXCEPT ![i] = [saving[i] EXCEPT !.step = "read"]]
  BY DEF Stored!Load, Stored!Goto
<1>4. Harmless([saving[i] EXCEPT !.step = "read"])
  BY DEF SavesInv, SavesShape, Harmless, IsSave
<1>5. /\ AtMostOne(stateFile)' /\ DOMAIN config' = Instances
      /\ \A j \in Instances : AtMostOne(config[j])'
  BY <1>1, <1>2 DEF SavesInv, SavesShape, AtMostOne
<1> QED BY <1>1, <1>3, <1>4, <1>5, QuietStep

LEMMA ChangeKeeps ==
  ASSUME SavesInv, NEW i \in Instances, NEW new, Stored!Change(i, new)
  PROVE  SavesInv'
<1>1. /\ UNCHANGED <<stateFile, backups, replaced>>
      /\ config' = [config EXCEPT ![i] = {new}]
      /\ saving' = [saving EXCEPT ![i] = [saving[i] EXCEPT !.step = "read"]]
  BY DEF Stored!Change, Stored!Goto
<1>2. Harmless([saving[i] EXCEPT !.step = "read"])
  BY DEF SavesInv, SavesShape, Harmless, IsSave
<1>3. /\ AtMostOne(stateFile)' /\ DOMAIN config' = Instances
      /\ \A j \in Instances : AtMostOne(config[j])'
  BY <1>1 DEF SavesInv, SavesShape, AtMostOne
<1> QED BY <1>1, <1>2, <1>3, QuietStep

LEMMA ReadKeeps ==
  ASSUME SavesInv, NEW i \in Instances, Stored!Read(i)
  PROVE  SavesInv'
<1>1. UNCHANGED <<stateFile, backups, config, replaced>>
  BY DEF Stored!Read
<1>2. PICK s : saving' = [saving EXCEPT ![i] = s] /\ Harmless(s)
  <2> DEFINE damaged == {c \in stateFile : Stored!Parse(c, attached) = {}}
             read == [step |-> IF damaged = {} THEN "write" ELSE "backup",
                      content |-> damaged, index |-> 0]
  <2>1. AtMostOne(damaged) /\ 0 \in Indices
    BY ToolsAssumption DEF SavesInv, SavesShape, AtMostOne, Indices
  <2>2. saving' = [saving EXCEPT ![i] = read] \/ saving' = [saving EXCEPT ![i] = Stored!Idle]
    BY DEF Stored!Read, Stored!Done
  <2> HIDE DEF damaged
  <2>3. Harmless(read)
    BY <2>1 DEF Harmless, IsSave
  <2>4. Harmless(Stored!Idle)
    BY DEF Stored!Idle, Harmless, IsSave, AtMostOne
  <2> QED BY <2>2, <2>3, <2>4
<1>3. /\ AtMostOne(stateFile)' /\ DOMAIN config' = Instances
      /\ \A j \in Instances : AtMostOne(config[j])'
  BY <1>1 DEF SavesInv, SavesShape, AtMostOne
<1> QED BY <1>1, <1>2, <1>3, QuietStep

LEMMA IdleHarmless == Harmless(Stored!Idle)
BY DEF Stored!Idle, Harmless, IsSave, AtMostOne

LEMMA WholeIsWhole ==
  ASSUME NEW content
  PROVE  Whole(content) # {} /\ Whole(content) # Partial
<1>1. [content |-> content, whole |-> TRUE].whole # [content |-> {}, whole |-> FALSE].whole
  OBVIOUS
<1>2. \A a, b : a # b => {a} # {b} /\ {a} # {}
  OBVIOUS
<1> QED BY <1>1, <1>2 DEF Whole, Partial

LEMMA CreateKeeps ==
  ASSUME SavesInv, NEW i \in Instances, Stored!CreateBackup(i)
  PROVE  SavesInv'
<1>1. UNCHANGED <<stateFile, config, replaced>> /\ saving[i].step = "backup"
  BY DEF Stored!CreateBackup, Stored!At
<1>2. /\ AtMostOne(stateFile)' /\ DOMAIN config' = Instances
      /\ \A j \in Instances : AtMostOne(config[j])'
  BY <1>1 DEF SavesInv, SavesShape, AtMostOne
<1>3. IsSave(saving[i]) /\ saving[i].index \in Indices
  BY <1>1 DEF SavesInv, SavesShape, IsSave
<1>4. CASE backups' = backups
  <2>1. \/ saving' = [saving EXCEPT ![i] = Stored!Idle]
        \/ /\ saving' = [saving EXCEPT ![i] = [saving[i] EXCEPT !.index = saving[i].index + 1]]
           /\ saving[i].index + 1 < MaxBackups
    <3>1. ASSUME backups' = [backups EXCEPT ![saving[i].index] = Partial],
                 backups[saving[i].index] = {}
          PROVE  FALSE
      BY <1>3, <1>4, <3>1 DEF Partial, SavesInv, SavesShape
    <3> QED BY <3>1 DEF Stored!CreateBackup, Stored!Done, Partial
  <2>2. ASSUME saving[i].index + 1 < MaxBackups
        PROVE  Harmless([saving[i] EXCEPT !.index = saving[i].index + 1])
    <3>1. saving[i].index + 1 \in Indices
      BY <1>3, <2>2, ToolsAssumption DEF Indices
    <3> QED BY <1>1, <1>3, <3>1 DEF Harmless, IsSave
  <2> QED BY <1>1, <1>2, <1>4, <2>1, <2>2, IdleHarmless, QuietStep
<1>5. CASE /\ backups[saving[i].index] = {}
           /\ backups' = [backups EXCEPT ![saving[i].index] = Partial]
           /\ Stored!Goto(i, "fill")
  <2>1. saving' = [saving EXCEPT ![i] = [saving[i] EXCEPT !.step = "fill"]]
    BY <1>5 DEF Stored!Goto
  <2>2. /\ DOMAIN backups' = Indices /\ DOMAIN saving' = Instances
        /\ backups'[saving[i].index] = Partial
        /\ \A k \in Indices : k # saving[i].index => backups'[k] = backups[k]
        /\ \A j \in Instances : j # i => saving'[j] = saving[j]
        /\ saving'[i] = [saving[i] EXCEPT !.step = "fill"]
    BY <1>3, <1>5, <2>1 DEF SavesInv, SavesShape
  <2>3. /\ IsSave(saving'[i]) /\ saving'[i].step = "fill" /\ saving'[i].index = saving[i].index
    BY <1>3, <2>2 DEF IsSave
  <2>4. SavesShape'
    BY <1>2, <2>2, <2>3 DEF SavesInv, SavesShape, IsSave, AtMostOne, Indices
  <2>5. \A j \in Instances : saving[j].step = "fill" =>
          saving[j].index \in Indices /\ saving[j].index # saving[i].index
    BY <1>5 DEF SavesInv, SavesShape, IsSave, FillsItsOwn, Partial
  <2>6. FillsItsOwn'
    <3>1. ASSUME NEW j \in Instances, j # i, saving'[j].step = "fill"
          PROVE  /\ backups'[saving'[j].index] = Partial
                 /\ saving'[j].index # saving'[i].index
                 /\ \A k \in Instances :
                      saving'[k].step = "fill" /\ saving'[k].index = saving'[j].index => j = k
      <4>1. /\ saving'[j] = saving[j] /\ saving[j].step = "fill"
            /\ saving[j].index \in Indices /\ saving[j].index # saving[i].index
        BY <2>2, <2>5, <3>1
      <4>2. backups'[saving[j].index] = Partial
        BY <2>2, <4>1 DEF SavesInv, FillsItsOwn
      <4>3. ASSUME NEW k \in Instances, saving'[k].step = "fill",
                   saving'[k].index = saving'[j].index
            PROVE  j = k
        <5>1. k # i
          BY <2>3, <4>1, <4>3
        <5>2. saving'[k] = saving[k]
          BY <2>2, <5>1
        <5> QED BY <4>1, <4>3, <5>2 DEF SavesInv, FillsItsOwn
      <4> QED BY <2>3, <4>1, <4>2, <4>3
    <3>2. backups'[saving'[i].index] = Partial
      BY <2>2, <2>3
    <3> QED BY <3>1, <3>2 DEF FillsItsOwn, Partial
  <2>7. \A content : HasBackup(content) => HasBackup(content)'
    BY <1>5, <2>2, WholeIsWhole DEF HasBackup, Whole, Indices
  <2>8. WritesWithBackup'
    BY <2>2, <2>3, <2>7 DEF SavesInv, WritesWithBackup
  <2>9. Stored!DamagedIsKept'
    BY <1>1, <2>4, <2>7, DamagedMeans, DamagedMeansNext DEF SavesInv
  <2> QED BY <2>4, <2>6, <2>8, <2>9 DEF SavesInv
<1> QED BY <1>4, <1>5 DEF Stored!CreateBackup, Partial

LEMMA FillKeeps ==
  ASSUME SavesInv, NEW i \in Instances, Stored!FillBackup(i)
  PROVE  SavesInv'
<1>1. UNCHANGED <<stateFile, config, replaced>> /\ saving[i].step = "fill"
  BY DEF Stored!FillBackup, Stored!At
<1>2. /\ AtMostOne(stateFile)' /\ DOMAIN config' = Instances
      /\ \A j \in Instances : AtMostOne(config[j])'
  BY <1>1 DEF SavesInv, SavesShape, AtMostOne
<1>3. /\ IsSave(saving[i]) /\ saving[i].index \in Indices
      /\ backups[saving[i].index] = Partial
  BY <1>1 DEF SavesInv, SavesShape, IsSave, FillsItsOwn
<1>4. PICK new, s :
        /\ backups' = [backups EXCEPT ![saving[i].index] = new]
        /\ saving' = [saving EXCEPT ![i] = s]
        /\ IsSave(s) /\ s.step # "fill"
        /\ s.step = "write" => new = Whole(s.content)
  <2>1. CASE /\ backups' = [backups EXCEPT ![saving[i].index] = Whole(saving[i].content)]
             /\ Stored!Goto(i, "write")
    <3>1. saving' = [saving EXCEPT ![i] = [saving[i] EXCEPT !.step = "write"]]
      BY <2>1 DEF Stored!Goto
    <3>2. LET s == [saving[i] EXCEPT !.step = "write"]
          IN  IsSave(s) /\ s.step # "fill" /\ s.content = saving[i].content
      BY <1>3 DEF IsSave
    <3> QED BY <2>1, <3>1, <3>2
  <2>2. CASE backups' = [backups EXCEPT ![saving[i].index] = {}] /\ Stored!Done(i)
    <3>1. saving' = [saving EXCEPT ![i] = Stored!Idle]
      BY <2>2 DEF Stored!Done
    <3>2. IsSave(Stored!Idle)
      BY IdleHarmless DEF Harmless
    <3>3. Stored!Idle.step = "idle"
      BY DEF Stored!Idle
    <3> QED BY <2>2, <3>1, <3>2, <3>3
  <2> QED BY <2>1, <2>2 DEF Stored!FillBackup, Whole
<1>5. /\ DOMAIN backups' = Indices /\ DOMAIN saving' = Instances
      /\ backups'[saving[i].index] = new
      /\ \A k \in Indices : k # saving[i].index => backups'[k] = backups[k]
      /\ \A j \in Instances : j # i => saving'[j] = saving[j]
      /\ saving'[i] = s
  BY <1>3, <1>4 DEF SavesInv, SavesShape
<1>6. SavesShape'
  BY <1>2, <1>4, <1>5 DEF SavesInv, SavesShape, IsSave, AtMostOne, Indices
<1>7. \A j \in Instances : j # i /\ saving[j].step = "fill" =>
        saving[j].index \in Indices /\ saving[j].index # saving[i].index
  BY <1>1 DEF SavesInv, SavesShape, IsSave, FillsItsOwn
<1>8. FillsItsOwn'
  BY <1>4, <1>5, <1>7 DEF SavesInv, FillsItsOwn, Partial
<1>9. \A content : HasBackup(content) => HasBackup(content)'
  BY <1>3, <1>5, WholeIsWhole DEF HasBackup, Whole, Indices
<1>10. WritesWithBackup'
  <2>1. s.step = "write" => HasBackup(s.content)'
    BY <1>3, <1>4, <1>5 DEF HasBackup, Whole, Indices
  <2> QED BY <1>5, <1>9, <2>1 DEF SavesInv, WritesWithBackup
<1>11. Stored!DamagedIsKept'
  BY <1>1, <1>6, <1>9, DamagedMeans, DamagedMeansNext DEF SavesInv
<1> QED BY <1>6, <1>8, <1>10, <1>11 DEF SavesInv

\* What a save replaces it has read, and has a backup of.
LEMMA WriteKeeps ==
  ASSUME SavesInv, NEW i \in Instances, Stored!Write(i)
  PROVE  SavesInv'
<1>1. /\ UNCHANGED <<backups, config>> /\ saving[i].step = "write"
      /\ saving' = [saving EXCEPT ![i] = Stored!Idle]
      /\ \/ /\ stateFile' = {Stored!ToJson(c) : c \in config[i]}
            /\ replaced' = replaced \cup (stateFile \cap saving[i].content)
         \/ UNCHANGED <<stateFile, replaced>>
  BY DEF Stored!Write, Stored!At, Stored!Done
<1>2. /\ DOMAIN saving' = Instances
      /\ \A j \in Instances : saving'[j] = saving[j] \/ Harmless(saving'[j])
  BY <1>1, IdleHarmless DEF SavesInv, SavesShape
<1>3. AtMostOne(stateFile)'
  BY <1>1 DEF SavesInv, SavesShape, AtMostOne
<1>4. SavesShape'
  BY <1>1, <1>2, <1>3 DEF SavesInv, SavesShape, Harmless, IsSave, AtMostOne, Indices
<1>5. FillsItsOwn'
  BY <1>1, <1>2 DEF SavesInv, FillsItsOwn, Harmless, Partial
<1>6. \A content : HasBackup(content)' <=> HasBackup(content)
  BY <1>1 DEF HasBackup, Whole, Indices
<1>7. WritesWithBackup'
  BY <1>2, <1>6 DEF SavesInv, WritesWithBackup, Harmless
<1>8. ASSUME NEW c \in saving[i].content PROVE HasBackup({c})
  <2>1. saving[i].content = {c}
    BY <1>8 DEF SavesInv, SavesShape, IsSave, AtMostOne
  <2> QED BY <1>1, <2>1 DEF SavesInv, WritesWithBackup
<1>9. Stored!DamagedIsKept'
  BY <1>1, <1>4, <1>6, <1>8, DamagedMeans, DamagedMeansNext DEF SavesInv
<1> QED BY <1>4, <1>5, <1>7, <1>9 DEF SavesInv

LEMMA StopKeeps ==
  ASSUME SavesInv, NEW i \in Instances, Stored!Stop(i)
  PROVE  SavesInv'
<1>1. /\ UNCHANGED <<stateFile, backups, replaced>>
      /\ config' = [config EXCEPT ![i] = {}]
      /\ saving' = [saving EXCEPT ![i] = Stored!Idle]
  BY DEF Stored!Stop, Stored!Done
<1>2. /\ AtMostOne(stateFile)' /\ DOMAIN config' = Instances
      /\ \A j \in Instances : AtMostOne(config[j])'
  BY <1>1 DEF SavesInv, SavesShape, AtMostOne
<1> QED BY <1>1, <1>2, IdleHarmless, QuietStep

LEMMA OutsideKeepsSaves ==
  ASSUME SavesInv, Stored!UserWrites \/ Stored!Attach \/ UNCHANGED Stored!vars
  PROVE  SavesInv'
<1>1. UNCHANGED <<backups, config, saving, replaced>>
  BY DEF Stored!UserWrites, Stored!Attach, Stored!vars
<1>2. stateFile' = stateFile \/ \E c : stateFile' = {c}
  BY DEF Stored!UserWrites, Stored!Attach, Stored!vars
<1>3. /\ AtMostOne(stateFile)' /\ DOMAIN config' = Instances
      /\ \A j \in Instances : AtMostOne(config[j])'
  BY <1>1, <1>2 DEF SavesInv, SavesShape, AtMostOne
<1> QED BY <1>1, <1>3, QuietStep

LEMMA SavesStep == SavesInv /\ [Stored!Next]_(Stored!vars) => SavesInv'
<1> SUFFICES ASSUME SavesInv, [Stored!Next]_(Stored!vars) PROVE SavesInv'
  OBVIOUS
<1>1. ASSUME NEW i \in Instances,
             Stored!Load(i) \/ Stored!SetTabSize(i) \/ Stored!AddRecentFile(i)
      PROVE  SavesInv'
  BY <1>1, LoadKeeps, ChangeKeeps DEF Stored!SetTabSize, Stored!AddRecentFile
<1>2. ASSUME NEW i \in Instances, Stored!Read(i) \/ Stored!CreateBackup(i)
      PROVE  SavesInv'
  BY <1>2, ReadKeeps, CreateKeeps
<1>3. ASSUME NEW i \in Instances, Stored!FillBackup(i) \/ Stored!Write(i) \/ Stored!Stop(i)
      PROVE  SavesInv'
  BY <1>3, FillKeeps, WriteKeeps, StopKeeps
<1> QED BY <1>1, <1>2, <1>3, OutsideKeepsSaves DEF Stored!Next

\* A state.json that a save found damaged and replaced is complete in a backup, for any number
\* of instances that save and end wherever they are; and a file is shown in the language of the
\* first rule in force that matches it (config.rs: save_to_path, preserve_corrupt_config;
\* settings.rs: reload, language_for_path).
THEOREM SettingsStay == ToolsSpec => []SettingsAreKept
<1>1. ToolsInit => SavesInv /\ RulesInv
  BY SavesStart, RulesStart DEF ToolsInit
<1>2. SavesInv /\ RulesInv /\ [ToolsNext /\ UNCHANGED part]_toolVars => SavesInv' /\ RulesInv'
  BY SavesStep, RulesStep DEF ToolsNext, toolVars, settingVars, ruleVars, Stored!vars, Rules!vars
<1>3. SavesInv /\ RulesInv => SettingsAreKept
  BY DEF SavesInv, RulesInv, SettingsAreKept
<1> QED BY <1>1, <1>2, <1>3, PTL DEF ToolsSpec
-----------------------------------------------------------------------------
(***************************************************************************)
(* The workbench: what its panels show is there, and what its searches     *)
(* report is what the user asks for.                                       *)
(***************************************************************************)
\* What lens holds.
DataView ==
  [path : Paths, text : Texts, revision : Work!Revisions, kind : Work!LensKinds, open : BOOLEAN]

DocsInv ==
  /\ DOMAIN docs \subseteq Paths /\ \A p \in DOMAIN docs : docs[p] \in Work!Document
  /\ disk \in [Paths -> Texts] /\ active \in DOMAIN docs \cup {NoPath}

HeldInv ==
  /\ panel \in Work!Panels /\ back \in Work!Panels /\ fields \in Queries
  /\ pending \in SUBSET Work!Hit /\ AtMostOne(pending)
  /\ lens \in SUBSET DataView /\ AtMostOne(lens)

PermitsInv ==
  /\ indexing \in BOOLEAN /\ leaving \in Nat
  /\ leaving + Work!One(search # {}) + Work!One(indexing) <= MaxWorkers

\* A worker answers the query in the fields.  What it found in copies of documents it has
\* visited; what it found on the disk was no copy, and comes once the copies are done.
WorkerInv(w) ==
  /\ w \in Work!Worker
  /\ w.query = fields
  /\ \A a, b \in w.copies : a.path = b.path => a = b
  /\ \A hit \in w.copies : hit.revision # Work!NoRevision /\ hit.path \notin w.visited
  /\ \A a, b \in w.hits : a.path = b.path => a = b
  /\ \A hit \in w.hits :
       IF hit.revision = Work!NoRevision
       THEN hit.path \notin w.todo \cup w.visited /\ w.copies = {}
       ELSE hit.path \in w.visited

\* A report, sent or shown.
ReportInv(r) ==
  /\ r.hits \in SUBSET Work!Hit
  /\ r.query = fields
  /\ \A a, b \in r.hits : a.path = b.path => a = b
  /\ \A hit \in r.hits : hit.revision = Work!NoRevision => hit.path \notin r.opened
  /\ ~r.cancelled /\ ~r.truncated => r.missed = {}

SearchInv ==
  /\ AtMostOne(search) /\ AtMostOne(channel) /\ AtMostOne(report)
  /\ \A w \in search : WorkerInv(w)
  /\ \A r \in channel \cup report : ReportInv(r)
  /\ search = {} \/ channel = {}

WorkInv == DocsInv /\ HeldInv /\ PermitsInv /\ SearchInv /\ Work!PanelHasItsData

LEMMA OneIs ==
  /\ \A running : Work!One(running) \in 0 .. 1
  /\ \A running : ~running => Work!One(running) = 0
  /\ Work!One(search # {}) = 1 <=> search # {}
  /\ Work!One(search' # {}) = 1 <=> search' # {}
BY DEF Work!One

LEMMA WorkStarts == Work!Init => WorkInv
<1> SUFFICES ASSUME Work!Init PROVE WorkInv
  OBVIOUS
<1>1. DocsInv
  <2>1. CASE docs \in {[q \in {} |-> {}]}
    BY <2>1 DEF Work!Init, DocsInv
  <2>2. ASSUME NEW p \in Paths, docs \in [{p} -> {[text |-> t, revision |-> 0] : t \in Texts}]
        PROVE  DocsInv
    <3>1. DOMAIN docs = {p} /\ docs[p] \in Work!Document
      BY <2>2, ToolsAssumption DEF Work!Document, Work!Revisions
    <3>2. active \in {q \in Paths : Work!IsOpen(q)}
      BY <3>1 DEF Work!Init, Work!IsOpen
    <3> QED BY <3>1, <3>2 DEF Work!Init, DocsInv, Work!IsOpen
  <2> QED BY <2>1, <2>2 DEF Work!Init
<1>2. HeldInv
  BY DEF Work!Init, HeldInv, AtMostOne, Work!Panels
<1>3. PermitsInv
  <2>1. search = {} /\ indexing \in BOOLEAN /\ leaving = 0 /\ Work!One(indexing) = 0
    BY OneIs DEF Work!Init
  <2>2. Work!One(search # {}) = 0
    BY <2>1, OneIs
  <2> QED BY <2>1, <2>2, ToolsAssumption DEF PermitsInv
<1>4. SearchInv
  BY DEF Work!Init, SearchInv, AtMostOne
<1>5. Work!PanelHasItsData
  BY DEF Work!Init, Work!PanelHasItsData, Work!Searching
<1> QED BY <1>1, <1>2, <1>3, <1>4, <1>5 DEF WorkInv

\* Steps of the documents alone.
LEMMA DocsStep ==
  ASSUME WorkInv, DocsInv', UNCHANGED <<panel, back, fields, Work!data, Work!threads>>
  PROVE  WorkInv'
BY DEF WorkInv, HeldInv, PermitsInv, SearchInv, WorkerInv, ReportInv, Work!PanelHasItsData,
   Work!data, Work!threads, Work!Hits, Work!Searching, AtMostOne

LEMMA OpenedKnown ==
  ASSUME DocsInv, NEW p \in Paths
  PROVE  /\ DOMAIN Work!Opened(p) = DOMAIN docs \cup {p}
         /\ \A q \in DOMAIN docs \cup {p} : Work!Opened(p)[q] \in Work!Document
BY ToolsAssumption DEF DocsInv, Work!Opened, Work!IsOpen, Work!Document, Work!Revisions

LEMMA OpenedKeeps ==
  ASSUME DocsInv, NEW p \in Paths, docs' = Work!Opened(p), active' = p, disk' = disk
  PROVE  DocsInv'
BY OpenedKnown DEF DocsInv

LEMMA ChangedKeeps ==
  ASSUME DocsInv, NEW p \in Paths, Work!MayChange(p), NEW text \in Texts,
         docs' = Work!Changed(p, text), UNCHANGED <<disk, active>>
  PROVE  DocsInv'
<1>1. p \in DOMAIN docs /\ docs[p].revision \in Nat /\ docs[p].revision < MaxRevision
  BY ToolsAssumption DEF DocsInv, Work!MayChange, Work!IsOpen, Work!Document, Work!Revisions
<1>2. /\ DOMAIN docs' = DOMAIN docs
      /\ docs'[p] = [text |-> text, revision |-> docs[p].revision + 1]
      /\ \A q \in DOMAIN docs : q # p => docs'[q] = docs[q]
  BY <1>1 DEF Work!Changed
<1>3. docs'[p] \in Work!Document
  BY <1>1, <1>2, ToolsAssumption DEF Work!Document, Work!Revisions
<1> QED BY <1>2, <1>3 DEF DocsInv

LEMMA DocumentsKeep ==
  ASSUME WorkInv,
         \/ Work!EditDocument
         \/ \E p \in Paths : Work!OpenDocument(p) \/ Work!WriteFile(p)
  PROVE  WorkInv'
<1>1. DocsInv
  BY DEF WorkInv
<1>2. CASE Work!EditDocument
  <2>1. active \in Paths
    BY <1>1, <1>2 DEF DocsInv, Work!EditDocument
  <2>2. DocsInv'
    BY <1>1, <1>2, <2>1, ChangedKeeps DEF Work!EditDocument
  <2> QED BY <1>2, <2>2, DocsStep DEF Work!EditDocument
<1>3. ASSUME NEW p \in Paths, Work!OpenDocument(p) PROVE WorkInv'
  <2>1. DocsInv'
    BY <1>1, <1>3, OpenedKeeps DEF Work!OpenDocument
  <2> QED BY <1>3, <2>1, DocsStep DEF Work!OpenDocument
<1>4. ASSUME NEW p \in Paths, Work!WriteFile(p) PROVE WorkInv'
  <2>1. DocsInv'
    BY <1>1, <1>4 DEF DocsInv, Work!WriteFile
  <2> QED BY <1>4, <2>1, DocsStep DEF Work!WriteFile
<1> QED BY <1>2, <1>3, <1>4

LEMMA CloseDocumentKeeps ==
  ASSUME WorkInv, Work!CloseDocument
  PROVE  WorkInv'
<1>1. /\ docs' = [q \in DOMAIN docs \ {active} |-> docs[q]]
      /\ active' \in DOMAIN docs' \cup {NoPath}
      /\ lens' = {[view EXCEPT !.open = view.open /\ view.path # active] : view \in lens}
      /\ UNCHANGED <<disk, panel, back, fields, channel, report, pending, search, indexing,
                     leaving>>
  BY DEF Work!CloseDocument, Work!threads
<1>2. DocsInv'
  BY <1>1 DEF WorkInv, DocsInv
<1>3. ASSUME NEW view \in DataView
      PROVE  LET now == [view EXCEPT !.open = view.open /\ view.path # active]
             IN  now \in DataView /\ now.kind = view.kind
  BY <1>3 DEF DataView
<1>4. /\ lens' \in SUBSET DataView /\ AtMostOne(lens)'
      /\ lens = {} <=> lens' = {}
      /\ (\A view \in lens : view.kind = "log") => \A view \in lens' : view.kind = "log"
  <2>1. lens \in SUBSET DataView /\ AtMostOne(lens)
    BY DEF WorkInv, HeldInv
  <2>2. CASE lens = {}
    BY <1>1, <2>2 DEF AtMostOne
  <2>3. CASE lens # {}
    <3>1. PICK view \in DataView : lens = {view}
      BY <2>1, <2>3 DEF AtMostOne
    <3>2. PICK now : now = [view EXCEPT !.open = view.open /\ view.path # active]
      OBVIOUS
    <3>3. lens' = {now}
      BY <1>1, <3>1, <3>2
    <3>4. now \in DataView /\ now.kind = view.kind
      BY <1>3, <3>2
    <3> QED BY <3>1, <3>3, <3>4 DEF AtMostOne
  <2> QED BY <2>2, <2>3
<1>5. HeldInv' /\ PermitsInv' /\ SearchInv'
  BY <1>1, <1>4 DEF WorkInv, HeldInv, PermitsInv, SearchInv, WorkerInv, ReportInv, AtMostOne
<1>6. Work!PanelHasItsData'
  BY <1>1, <1>4 DEF WorkInv, Work!PanelHasItsData, Work!Hits, Work!Searching
<1> QED BY <1>2, <1>5, <1>6 DEF WorkInv

\* Whatever goes, its permit is counted on.
LEMMA DropKeepsPermits ==
  ASSUME PermitsInv, Work!DropSearch \/ Work!DropAll
  PROVE  PermitsInv' /\ search' = {} /\ channel' = {}
<1>1. /\ search' = {} /\ channel' = {}
      /\ \/ /\ leaving' = leaving + Work!One(search # {}) /\ indexing' = indexing
         \/ /\ leaving' = leaving + Work!One(search # {}) + Work!One(indexing)
            /\ indexing' = FALSE
  BY DEF Work!DropSearch, Work!DropAll
<1>2. /\ Work!One(search # {}) \in 0 .. 1 /\ Work!One(indexing) \in 0 .. 1
      /\ Work!One(search' # {}) = 0 /\ (~indexing' => Work!One(indexing') = 0)
  BY <1>1, OneIs
<1>3. indexing' \in BOOLEAN
  BY <1>1 DEF PermitsInv
<1>4. leaving' \in Nat
  BY <1>1, <1>2 DEF PermitsInv
<1>5. CASE indexing' = indexing /\ leaving' = leaving + Work!One(search # {})
  BY <1>2, <1>3, <1>4, <1>5, <1>1, ToolsAssumption DEF PermitsInv
<1>6. CASE indexing' = FALSE /\ leaving' = leaving + Work!One(search # {}) + Work!One(indexing)
  BY <1>2, <1>3, <1>4, <1>6, <1>1, ToolsAssumption DEF PermitsInv
<1> QED BY <1>1, <1>5, <1>6

\* A panel that needs nothing takes the place of another.
LEMMA PanelStep ==
  ASSUME WorkInv, DocsInv', PermitsInv', Work!ForgetData, fields' = fields,
         search' = {}, channel' = {},
         panel' \in Work!Panels \ {"lens", "logPattern", "cell"}
  PROVE  WorkInv'
<1>1. report' = {} /\ pending' = {} /\ lens' = {} /\ back' = "none"
  BY DEF Work!ForgetData
<1>2. HeldInv'
  BY <1>1 DEF WorkInv, HeldInv, AtMostOne, Work!Panels
<1>3. SearchInv'
  BY <1>1 DEF SearchInv, AtMostOne
<1>4. Work!PanelHasItsData'
  BY <1>1 DEF Work!PanelHasItsData, Work!Searching
<1> QED BY <1>2, <1>3, <1>4 DEF WorkInv

LEMMA CloseForKeeps ==
  ASSUME WorkInv, DocsInv', fields' = fields,
         NEW next \in Work!Panels \ {"lens", "logPattern", "cell"}, Work!CloseFor(next)
  PROVE  WorkInv'
<1>1. PermitsInv' /\ search' = {} /\ channel' = {}
  BY DropKeepsPermits DEF WorkInv, Work!CloseFor
<1> QED BY <1>1, PanelStep DEF Work!CloseFor

LEMMA PanelsKeep ==
  ASSUME WorkInv,
         \/ Work!Dismiss \/ Work!OtherCommand \/ Work!Record \/ Work!SaveMacro \/ Work!Compare
         \/ \E next \in {"commands", "files", "search"} : Work!OpenPanel(next)
         \/ \E p \in Paths : Work!ActivateFile(p)
  PROVE  WorkInv'
<1>1. DocsInv /\ (Work!documents' = Work!documents => DocsInv')
  BY DEF WorkInv, DocsInv, Work!documents
<1>2. {"none", "commands", "files", "search", "diff", "macroName"}
        \subseteq Work!Panels \ {"lens", "logPattern", "cell"}
  BY DEF Work!Panels
<1>3. CASE Work!Dismiss \/ Work!OtherCommand \/ Work!SaveMacro \/ Work!Compare
  <2>1. /\ Work!documents' = Work!documents /\ fields' = fields
        /\ Work!CloseFor("none") \/ Work!CloseFor("diff")
    BY <1>3 DEF Work!Dismiss, Work!OtherCommand, Work!SaveMacro, Work!Compare
  <2> QED BY <1>1, <1>2, <2>1, CloseForKeeps
<1>4. CASE Work!Record
  <2>1. Work!documents' = Work!documents /\ fields' = fields
    BY <1>4 DEF Work!Record
  <2>2. CASE Work!CloseFor("none")
    BY <1>1, <1>2, <2>1, <2>2, CloseForKeeps
  <2>3. CASE panel' = "macroName" /\ UNCHANGED <<back, Work!data, Work!threads>>
    <3>1. HeldInv'
      BY <2>1, <2>3 DEF WorkInv, HeldInv, AtMostOne, Work!Panels, Work!data
    <3>2. PermitsInv' /\ SearchInv'
      BY <2>1, <2>3 DEF WorkInv, PermitsInv, SearchInv, WorkerInv, ReportInv, AtMostOne,
         Work!data, Work!threads
    <3>3. Work!PanelHasItsData'
      BY <2>3 DEF WorkInv, Work!PanelHasItsData, Work!Searching, Work!data, Work!threads
    <3> QED BY <1>1, <2>1, <3>1, <3>2, <3>3 DEF WorkInv
  <2> QED BY <1>4, <2>2, <2>3 DEF Work!Record
<1>5. ASSUME NEW next \in {"commands", "files", "search"}, Work!OpenPanel(next)
      PROVE  WorkInv'
  <2>1. /\ Work!documents' = Work!documents /\ fields' = fields /\ panel' = next
        /\ Work!ForgetData /\ search' = {} /\ channel' = {}
        /\ leaving' = leaving + Work!One(search # {}) + Work!One(indexing)
        /\ indexing' = (next = "files" /\ leaving' < MaxWorkers)
    BY <1>5 DEF Work!OpenPanel
  <2>2. PermitsInv'
    <3>1. /\ Work!One(search # {}) \in 0 .. 1 /\ Work!One(indexing) \in 0 .. 1
          /\ Work!One(search' # {}) = 0
          /\ Work!One(indexing') \in 0 .. 1 /\ (~indexing' => Work!One(indexing') = 0)
      BY <2>1, OneIs
    <3>2. indexing' \in BOOLEAN
      BY <2>1
    <3>3. leaving \in Nat /\ leaving + Work!One(search # {}) + Work!One(indexing) <= MaxWorkers
      BY DEF WorkInv, PermitsInv
    <3>4. leaving' \in Nat /\ leaving' <= MaxWorkers
      BY <2>1, <3>1, <3>3
    <3>5. leaving' + Work!One(indexing') <= MaxWorkers
      BY <2>1, <3>1, <3>4, ToolsAssumption
    <3> QED BY <3>1, <3>2, <3>4, <3>5 DEF PermitsInv
  <2> QED BY <1>1, <1>2, <2>1, <2>2, PanelStep
<1>6. ASSUME NEW p \in Paths, Work!ActivateFile(p) PROVE WorkInv'
  <2>1. DocsInv'
    BY <1>1, <1>6, OpenedKeeps DEF Work!ActivateFile
  <2> QED BY <1>2, <1>6, <2>1, CloseForKeeps DEF Work!ActivateFile
<1> QED BY <1>3, <1>4, <1>5, <1>6

-----------------------------------------------------------------------------
\* Workers.

LEMMA SameSearch ==
  ASSUME SearchInv, UNCHANGED <<fields, search, channel, report>>
  PROVE  SearchInv'
BY DEF SearchInv, WorkerInv, ReportInv, AtMostOne

\* A step of a worker.
LEMMA WorkerStep ==
  ASSUME WorkInv, NEW w \in search, NEW now, WorkerInv(now), search' = {now},
         UNCHANGED <<Work!documents, panel, back, fields, channel, report, pending, lens,
                     indexing, leaving>>
  PROVE  WorkInv'
<1>1. DocsInv' /\ HeldInv'
  BY DEF WorkInv, DocsInv, HeldInv, AtMostOne, Work!documents
<1>2. WorkerInv(now)'
  BY DEF WorkerInv
<1>3. SearchInv'
  BY <1>2 DEF WorkInv, SearchInv, ReportInv, AtMostOne
<1>4. Work!One(search' # {}) = Work!One(search # {})
  BY DEF Work!One
<1>5. PermitsInv'
  BY <1>4 DEF WorkInv, PermitsInv
<1>6. Work!PanelHasItsData'
  BY DEF WorkInv, Work!PanelHasItsData, Work!Searching, Work!Hits
<1> QED BY <1>1, <1>3, <1>5, <1>6 DEF WorkInv

\* What a worker does with one text it looks at.
LEMMA SearchedKnown ==
  ASSUME NEW w \in Work!Worker, NEW hit \in Work!Hit
  PROVE  /\ Work!Searched(w, hit) \in Work!Worker
         /\ Work!Searched(w, hit).hits = w.hits \/ Work!Searched(w, hit).hits = w.hits \cup {hit}
         /\ Work!Searched(w, hit).query = w.query /\ Work!Searched(w, hit).todo = w.todo
         /\ Work!Searched(w, hit).copies = w.copies
         /\ Work!Searched(w, hit).visited = w.visited
BY DEF Work!Searched, Work!Worker

LEMMA SearchCopyKeeps ==
  ASSUME WorkInv, Work!SearchCopy
  PROVE  WorkInv'
<1>0. PICK w \in search : \E hit \in w.copies :
        search' = {[Work!Searched(w, hit) EXCEPT !.copies = @ \ {hit},
                                                 !.visited = @ \cup {hit.path}]}
  BY DEF Work!SearchCopy
<1>1. PICK hit \in w.copies :
        search' = {[Work!Searched(w, hit) EXCEPT !.copies = @ \ {hit},
                                                 !.visited = @ \cup {hit.path}]}
  BY <1>0
<1>2. WorkerInv(w) /\ w \in Work!Worker
  BY DEF WorkInv, SearchInv, WorkerInv
<1>3. hit \in Work!Hit /\ hit.path \in Paths
  BY <1>2 DEF Work!Worker, Work!Hit
<1>4. PICK s : s = Work!Searched(w, hit)
  OBVIOUS
<1>5. PICK now : now = [s EXCEPT !.copies = @ \ {hit}, !.visited = @ \cup {hit.path}]
  OBVIOUS
<1>6. /\ s \in Work!Worker /\ (s.hits = w.hits \/ s.hits = w.hits \cup {hit})
      /\ s.query = w.query /\ s.todo = w.todo /\ s.copies = w.copies /\ s.visited = w.visited
  BY <1>2, <1>3, <1>4, SearchedKnown
<1>7. /\ now \in Work!Worker /\ now.hits = s.hits /\ now.query = w.query /\ now.todo = w.todo
      /\ now.copies = w.copies \ {hit} /\ now.visited = w.visited \cup {hit.path}
  BY <1>3, <1>5, <1>6 DEF Work!Worker
<1>8. \A h \in w.hits : h.revision # Work!NoRevision /\ h.path \in w.visited
  BY <1>2 DEF WorkerInv
<1>9. hit.revision # Work!NoRevision /\ hit.path \notin w.visited
  BY <1>2 DEF WorkerInv
<1>10. \A h \in now.hits : h \in w.hits \/ h = hit
  BY <1>6, <1>7
<1>11. \A a, b \in now.hits : a.path = b.path => a = b
  BY <1>2, <1>8, <1>9, <1>10 DEF WorkerInv
<1>12. \A h \in now.copies : h.revision # Work!NoRevision /\ h.path \notin now.visited
  BY <1>2, <1>7 DEF WorkerInv
<1>13. WorkerInv(now)
  BY <1>2, <1>7, <1>8, <1>9, <1>10, <1>11, <1>12 DEF WorkerInv
<1>14. search' = {now}
  BY <1>1, <1>4, <1>5
<1> QED BY <1>13, <1>14, WorkerStep DEF Work!SearchCopy, Work!data

LEMMA SearchFileKeeps ==
  ASSUME WorkInv, Work!SearchFile
  PROVE  WorkInv'
<1>0. PICK w \in search : w.copies = {} /\ \E p \in w.todo :
           LET hit == [path |-> p, text |-> disk[p], revision |-> Work!NoRevision]
           IN  search' = {[(IF p \in w.visited THEN w ELSE Work!Searched(w, hit))
                             EXCEPT !.todo = @ \ {p}]}
  BY DEF Work!SearchFile
<1>1. PICK p \in w.todo :
           LET hit == [path |-> p, text |-> disk[p], revision |-> Work!NoRevision]
           IN  search' = {[(IF p \in w.visited THEN w ELSE Work!Searched(w, hit))
                             EXCEPT !.todo = @ \ {p}]}
  BY <1>0
<1>2. WorkerInv(w) /\ w \in Work!Worker
  BY DEF WorkInv, SearchInv, WorkerInv
<1>3. PICK hit : hit = [path |-> p, text |-> disk[p], revision |-> Work!NoRevision]
  OBVIOUS
<1>4. p \in Paths /\ hit \in Work!Hit /\ hit.path = p /\ hit.revision = Work!NoRevision
  BY <1>2, <1>3 DEF WorkInv, DocsInv, Work!Worker, Work!Hit
<1>5. PICK s : s = IF p \in w.visited THEN w ELSE Work!Searched(w, hit)
  OBVIOUS
<1>6. PICK now : now = [s EXCEPT !.todo = @ \ {p}]
  OBVIOUS
<1>7. /\ s \in Work!Worker
      /\ s.hits = w.hits \/ (p \notin w.visited /\ s.hits = w.hits \cup {hit})
      /\ s.query = w.query /\ s.todo = w.todo /\ s.copies = w.copies /\ s.visited = w.visited
  BY <1>2, <1>4, <1>5, SearchedKnown
<1>8. /\ now \in Work!Worker /\ now.hits = s.hits /\ now.query = w.query
      /\ now.todo = w.todo \ {p} /\ now.copies = {} /\ now.visited = w.visited
  BY <1>0, <1>6, <1>7 DEF Work!Worker
<1>9. \A h \in now.hits : h \in w.hits \/ (h = hit /\ p \notin w.visited)
  BY <1>7, <1>8
<1>10. \A h \in w.hits : h.path = p => p \in w.visited
  BY <1>2 DEF WorkerInv
<1>11. \A a, b \in now.hits : a.path = b.path => a = b
  BY <1>2, <1>4, <1>9, <1>10 DEF WorkerInv
<1>12. \A h \in now.hits :
         IF h.revision = Work!NoRevision THEN h.path \notin now.todo \cup now.visited
         ELSE h.path \in now.visited
  BY <1>2, <1>4, <1>8, <1>9 DEF WorkerInv
<1>13. WorkerInv(now)
  BY <1>2, <1>8, <1>11, <1>12 DEF WorkerInv
<1>14. search' = {now}
  BY <1>1, <1>3, <1>5, <1>6
<1> QED BY <1>13, <1>14, WorkerStep DEF Work!SearchFile, Work!data

LEMMA StopKeepsWorker ==
  ASSUME WorkInv, Work!Stop
  PROVE  WorkInv'
<1>1. CASE search = {}
  <2>1. search' = {}
    BY <1>1 DEF Work!Stop
  <2>2. UNCHANGED <<Work!documents, panel, back, fields, search, channel, report, pending, lens,
                    indexing, leaving>>
    BY <1>1, <2>1 DEF Work!Stop, Work!data
  <2>3. DocsInv'
    BY <2>2 DEF WorkInv, DocsInv, Work!documents
  <2> QED BY <2>2, <2>3, DocsStep DEF Work!data, Work!threads
<1>2. ASSUME NEW w \in search PROVE WorkInv'
  <2>1. search = {w} /\ WorkerInv(w)
    BY DEF WorkInv, SearchInv, AtMostOne
  <2>2. PICK now : now = [w EXCEPT !.cancel = TRUE]
    OBVIOUS
  <2>3. search' = {now}
    BY <2>1, <2>2 DEF Work!Stop
  <2>4. /\ now \in Work!Worker /\ now.hits = w.hits /\ now.query = w.query
        /\ now.todo = w.todo /\ now.copies = w.copies /\ now.visited = w.visited
    BY <2>1, <2>2 DEF WorkerInv, Work!Worker
  <2>5. WorkerInv(now)
    BY <2>1, <2>4 DEF WorkerInv
  <2> QED BY <2>3, <2>5, WorkerStep DEF Work!Stop, Work!data
<1> QED BY <1>1, <1>2

\* A report says what its worker knows.
LEMMA ReportKnown ==
  ASSUME NEW w, WorkerInv(w), Work!Stopping(w) \/ w.todo \cup w.copies = {}
  PROVE  ReportInv(Work!Report(w))
<1>1. PICK r : r = Work!Report(w)
  OBVIOUS
<1>2. /\ r.query = w.query /\ r.hits = w.hits /\ r.opened = w.visited
      /\ r.truncated = w.truncated /\ r.cancelled = w.cancel
      /\ r.missed = w.todo \cup {hit.path : hit \in w.copies}
  BY <1>1 DEF Work!Report
<1>3. ~r.cancelled /\ ~r.truncated => r.missed = {}
  BY <1>2 DEF Work!Stopping
<1> QED BY <1>1, <1>2, <1>3 DEF WorkerInv, ReportInv, Work!Worker

LEMMA SendReportKeeps ==
  ASSUME WorkInv, Work!SendReport
  PROVE  WorkInv'
<1>1. PICK w \in search : /\ Work!Stopping(w) \/ w.todo \cup w.copies = {}
                          /\ channel' = {Work!Report(w)}
  BY DEF Work!SendReport
<1>2. /\ search' = {} /\ leaving' = leaving + 1
      /\ UNCHANGED <<Work!documents, panel, back, fields, report, pending, lens, indexing>>
  BY DEF Work!SendReport
<1>3. PICK r : r = Work!Report(w)
  OBVIOUS
<1>4. ReportInv(r)
  BY <1>1, <1>3, ReportKnown DEF WorkInv, SearchInv
<1>5. DocsInv' /\ HeldInv'
  BY <1>2 DEF WorkInv, DocsInv, HeldInv, AtMostOne, Work!documents
<1>6. SearchInv'
  BY <1>1, <1>2, <1>3, <1>4 DEF WorkInv, SearchInv, ReportInv, AtMostOne
<1>7. PermitsInv'
  <2>1. Work!One(search # {}) = 1 /\ Work!One(search' # {}) = 0 /\ Work!One(indexing) \in 0 .. 1
    BY <1>1, <1>2, OneIs
  <2> QED BY <1>2, <2>1, ToolsAssumption DEF WorkInv, PermitsInv
<1>8. Work!PanelHasItsData'
  BY <1>1, <1>2 DEF WorkInv, Work!PanelHasItsData, Work!Searching, Work!Hits
<1> QED BY <1>5, <1>6, <1>7, <1>8 DEF WorkInv

LEMMA ThreadsKeep ==
  ASSUME WorkInv, Work!IndexingEnds \/ Work!WorkerLeaves
  PROVE  WorkInv'
<1>1. /\ UNCHANGED <<Work!documents, panel, back, fields, search, channel, report, pending, lens>>
      /\ \/ indexing' = FALSE /\ leaving' = leaving
         \/ indexing' = indexing /\ leaving > 0 /\ leaving' = leaving - 1
  BY DEF Work!IndexingEnds, Work!WorkerLeaves, Work!data
<1>2. DocsInv' /\ HeldInv' /\ SearchInv'
  BY <1>1, SameSearch DEF WorkInv, DocsInv, HeldInv, AtMostOne, Work!documents
<1>3. PermitsInv'
  <2>1. /\ indexing \in BOOLEAN /\ leaving \in Nat
        /\ leaving + Work!One(search # {}) + Work!One(indexing) <= MaxWorkers
    BY DEF WorkInv, PermitsInv
  <2>2. /\ Work!One(search # {}) \in 0 .. 1 /\ Work!One(indexing) \in 0 .. 1
        /\ (~indexing' => Work!One(indexing') = 0)
    BY OneIs
  <2>3. search' = search /\ indexing' \in BOOLEAN
    BY <1>1, <2>1
  <2>4. CASE indexing' = FALSE /\ leaving' = leaving
    BY <2>1, <2>2, <2>3, <2>4, ToolsAssumption DEF PermitsInv
  <2>5. CASE indexing' = indexing /\ leaving > 0 /\ leaving' = leaving - 1
    BY <2>1, <2>2, <2>3, <2>5, ToolsAssumption DEF PermitsInv
  <2> QED BY <1>1, <2>4, <2>5
<1>4. Work!PanelHasItsData'
  BY <1>1 DEF WorkInv, Work!PanelHasItsData, Work!Searching, Work!Hits
<1> QED BY <1>2, <1>3, <1>4 DEF WorkInv

LEMMA TakeReportKeeps ==
  ASSUME WorkInv, Work!TakeReport
  PROVE  WorkInv'
<1>1. /\ channel # {} /\ report' = channel /\ channel' = {}
      /\ UNCHANGED <<Work!documents, panel, back, fields, pending, lens, search, indexing,
                     leaving>>
  BY DEF Work!TakeReport, Work!threads
<1>2. search = {} /\ report = {}
  BY <1>1 DEF WorkInv, SearchInv, Work!PanelHasItsData, Work!Searching
<1>3. DocsInv' /\ HeldInv' /\ PermitsInv'
  BY <1>1 DEF WorkInv, DocsInv, HeldInv, PermitsInv, AtMostOne, Work!documents
<1>4. SearchInv'
  BY <1>1, <1>2 DEF WorkInv, SearchInv, ReportInv, AtMostOne
<1>5. panel = "cell" => back # "search"
  BY <1>2 DEF WorkInv, Work!PanelHasItsData, Work!Hits
<1>6. Work!PanelHasItsData'
  BY <1>1, <1>2, <1>5 DEF WorkInv, Work!PanelHasItsData, Work!Searching
<1> QED BY <1>3, <1>4, <1>6 DEF WorkInv

-----------------------------------------------------------------------------
\* The search panel.

LEMMA SameDocs ==
  ASSUME DocsInv, UNCHANGED Work!documents
  PROVE  DocsInv'
BY DEF DocsInv, Work!documents

LEMMA CopiesKnown ==
  ASSUME NEW open, \A p \in DOMAIN open : open[p] \in Work!Document, DOMAIN open \subseteq Paths
  PROVE  /\ Work!CopiesOf(open) \in SUBSET Work!Hit
         /\ \A hit \in Work!CopiesOf(open) : hit.revision # Work!NoRevision
         /\ \A a, b \in Work!CopiesOf(open) : a.path = b.path => a = b
BY ToolsAssumption DEF Work!CopiesOf, Work!Document, Work!Hit, Work!Revisions, Work!NoRevision

\* start_search, on the documents as they are after the step.
LEMMA StartSearchKeeps ==
  ASSUME WorkInv, DocsInv', Work!StartSearch(docs'), fields' = fields, lens' = lens,
         panel' = "search", back' \in Work!Panels
  PROVE  WorkInv'
<1>1. /\ report' = {} /\ pending' = {} /\ channel' = {}
      /\ leaving' = leaving + Work!One(search # {}) /\ indexing' = indexing
      /\ \/ search' = {}
         \/ /\ leaving' + Work!One(indexing) < MaxWorkers
            /\ search' = {[query |-> fields, todo |-> Paths, copies |-> Work!CopiesOf(docs'),
                           visited |-> {}, hits |-> {}, truncated |-> FALSE, cancel |-> FALSE]}
  <2>1. CASE leaving' + Work!One(indexing) >= MaxWorkers
    BY <2>1 DEF Work!StartSearch
  <2>2. CASE ~(leaving' + Work!One(indexing) >= MaxWorkers)
    <3>1. leaving' \in Int /\ Work!One(indexing) \in Int
      BY OneIs DEF Work!StartSearch, WorkInv, PermitsInv
    <3>2. leaving' + Work!One(indexing) < MaxWorkers
      BY <2>2, <3>1, ToolsAssumption
    <3> QED BY <2>2, <3>2 DEF Work!StartSearch
  <2> QED BY <2>1, <2>2
<1>2. HeldInv'
  BY <1>1 DEF WorkInv, HeldInv, AtMostOne, Work!Panels
<1>3. PICK w : w = [query |-> fields, todo |-> Paths, copies |-> Work!CopiesOf(docs'),
                    visited |-> {}, hits |-> {}, truncated |-> FALSE, cancel |-> FALSE]
  OBVIOUS
<1>4. /\ Work!CopiesOf(docs') \in SUBSET Work!Hit
      /\ \A hit \in Work!CopiesOf(docs') : hit.revision # Work!NoRevision
      /\ \A a, b \in Work!CopiesOf(docs') : a.path = b.path => a = b
  BY CopiesKnown DEF DocsInv
<1>5. w \in Work!Worker
  BY <1>3, <1>4 DEF WorkInv, HeldInv, Work!Worker
<1>6. WorkerInv(w)'
  BY <1>3, <1>4, <1>5 DEF WorkerInv
<1>7. SearchInv'
  BY <1>1, <1>3, <1>6 DEF SearchInv, AtMostOne
<1>8. PermitsInv'
  <2>1. /\ Work!One(search # {}) \in 0 .. 1 /\ Work!One(indexing) \in 0 .. 1
        /\ Work!One(search' # {}) \in 0 .. 1 /\ (search' = {} => Work!One(search' # {}) = 0)
    BY OneIs
  <2>2. /\ indexing \in BOOLEAN /\ leaving \in Nat
        /\ leaving + Work!One(search # {}) + Work!One(indexing) <= MaxWorkers
    BY DEF WorkInv, PermitsInv
  <2>3. leaving' \in Nat /\ leaving' + Work!One(indexing) <= MaxWorkers
    BY <1>1, <2>1, <2>2
  <2>4. leaving' + Work!One(search' # {}) + Work!One(indexing) <= MaxWorkers
    BY <1>1, <2>1, <2>3, ToolsAssumption
  <2> QED BY <1>1, <2>2, <2>3, <2>4 DEF PermitsInv
<1>9. Work!PanelHasItsData'
  BY <1>1 DEF Work!PanelHasItsData, Work!Searching
<1> QED BY <1>2, <1>7, <1>8, <1>9 DEF WorkInv

LEMMA SearchPanelKeeps ==
  ASSUME WorkInv, Work!ChangeFields \/ Work!Run \/ Work!EditHit
  PROVE  WorkInv'
<1>1. UNCHANGED Work!documents /\ DocsInv'
  BY SameDocs DEF WorkInv, Work!ChangeFields, Work!Run, Work!EditHit
<1>2. CASE Work!ChangeFields
  <2>1. /\ panel = "search" /\ fields' \in Queries /\ report' = {}
        /\ UNCHANGED <<panel, back, pending, lens>>
    BY <1>2 DEF Work!ChangeFields
  <2>2. PermitsInv' /\ search' = {} /\ channel' = {}
    BY <1>2, DropKeepsPermits DEF WorkInv, Work!ChangeFields
  <2>3. HeldInv' /\ SearchInv'
    BY <2>1, <2>2 DEF WorkInv, HeldInv, SearchInv, AtMostOne
  <2>4. Work!PanelHasItsData'
    BY <2>1, <2>2 DEF Work!PanelHasItsData, Work!Searching
  <2> QED BY <1>1, <2>2, <2>3, <2>4 DEF WorkInv
<1>3. CASE Work!Run
  <2>1. docs' = docs
    BY <1>1 DEF Work!documents
  <2>2. Work!StartSearch(docs')
    BY <1>3, <2>1 DEF Work!Run
  <2> QED BY <1>1, <1>3, <2>2, StartSearchKeeps DEF Work!Run, WorkInv, HeldInv
<1>4. CASE Work!EditHit
  <2>1. PICK hit \in Work!Hits : pending' = {hit}
    BY <1>4 DEF Work!EditHit
  <2>2. /\ panel = "search"
        /\ UNCHANGED <<fields, channel, report, lens, search, indexing, leaving>>
        /\ \/ panel' = "cell" /\ back' = "search"
           \/ panel' = panel /\ back' = back
    BY <1>4 DEF Work!EditHit, Work!BeginCell, Work!threads
  <2>3. hit \in Work!Hit
    BY DEF WorkInv, SearchInv, ReportInv, Work!Hits
  <2>4. HeldInv'
    BY <2>1, <2>2, <2>3 DEF WorkInv, HeldInv, AtMostOne, Work!Panels
  <2>5. PermitsInv' /\ SearchInv'
    BY <2>2, SameSearch DEF WorkInv, PermitsInv
  <2>6. Work!PanelHasItsData'
    BY <2>1, <2>2 DEF WorkInv, Work!PanelHasItsData, Work!Searching, Work!Hits
  <2> QED BY <1>1, <2>4, <2>5, <2>6 DEF WorkInv
<1> QED BY <1>2, <1>3, <1>4

LEMMA GoToSourceKeeps ==
  ASSUME WorkInv, Work!GoToSource
  PROVE  WorkInv'
<1>1. PICK hit \in Work!Hits :
        /\ docs' = Work!Opened(hit.path) /\ active' = hit.path
        /\ \/ Work!CloseFor("none")
           \/ UNCHANGED <<panel, back, Work!data, Work!threads>>
  BY DEF Work!GoToSource
<1>2. disk' = disk /\ fields' = fields
  BY DEF Work!GoToSource
<1>3. hit \in Work!Hit /\ hit.path \in Paths
  BY DEF WorkInv, SearchInv, ReportInv, Work!Hits, Work!Hit
<1>4. DocsInv'
  BY <1>1, <1>2, <1>3, OpenedKeeps DEF WorkInv
<1>5. "none" \in Work!Panels \ {"lens", "logPattern", "cell"}
  BY DEF Work!Panels
<1> QED BY <1>1, <1>2, <1>4, <1>5, CloseForKeeps, DocsStep

-----------------------------------------------------------------------------
\* The data view.

LEMMA OpenLensKeeps ==
  ASSUME WorkInv, NEW kind \in Work!LensKinds, Work!OpenLens(kind)
  PROVE  WorkInv'
<1>1. /\ active # NoPath /\ UNCHANGED Work!documents /\ fields' = fields
      /\ \/ /\ panel' = "lens" /\ lens' = {Work!View(kind)}
            /\ Work!DropAll /\ report' = {} /\ pending' = {} /\ back' = "none"
         \/ /\ panel' = IF panel = "none" THEN "commands" ELSE panel
            /\ UNCHANGED <<back, Work!data, Work!threads>>
  BY DEF Work!OpenLens
<1>2. DocsInv'
  BY <1>1, SameDocs DEF WorkInv
<1>3. CASE /\ panel' = "lens" /\ lens' = {Work!View(kind)}
           /\ Work!DropAll /\ report' = {} /\ pending' = {} /\ back' = "none"
  <2>1. PermitsInv' /\ search' = {} /\ channel' = {}
    BY <1>3, DropKeepsPermits DEF WorkInv
  <2>2. Work!View(kind) \in DataView
    BY <1>1 DEF WorkInv, DocsInv, DataView, Work!View, Work!Document
  <2>3. HeldInv'
    BY <1>1, <1>3, <2>2 DEF WorkInv, HeldInv, AtMostOne, Work!Panels
  <2>4. SearchInv'
    BY <1>3, <2>1 DEF SearchInv, AtMostOne
  <2>5. Work!PanelHasItsData'
    BY <1>3, <2>1 DEF Work!PanelHasItsData, Work!Searching
  <2> QED BY <1>2, <2>1, <2>3, <2>4, <2>5 DEF WorkInv
<1>4. CASE /\ panel' = IF panel = "none" THEN "commands" ELSE panel
           /\ UNCHANGED <<back, Work!data, Work!threads>>
  <2>1. HeldInv'
    BY <1>1, <1>4 DEF WorkInv, HeldInv, AtMostOne, Work!Panels, Work!data
  <2>2. PermitsInv' /\ SearchInv'
    BY <1>1, <1>4, SameSearch DEF WorkInv, PermitsInv, Work!data, Work!threads
  <2>3. Work!PanelHasItsData'
    BY <1>4 DEF WorkInv, Work!PanelHasItsData, Work!Searching, Work!Hits, Work!data,
       Work!threads
  <2> QED BY <1>2, <2>1, <2>2, <2>3 DEF WorkInv
<1> QED BY <1>1, <1>3, <1>4

LEMMA LensKeeps ==
  ASSUME WorkInv,
         Work!RefreshLens \/ Work!ApplyPattern \/ Work!EditCellOfLens \/ Work!AskForPattern
           \/ Work!LeavePattern
  PROVE  WorkInv'
<1>1. CASE Work!RefreshLens
  <2>1. PICK view \in lens : Work!OpenLens(view.kind)
    BY <1>1 DEF Work!RefreshLens
  <2>2. view.kind \in Work!LensKinds
    BY DEF WorkInv, HeldInv, DataView
  <2> QED BY <2>1, <2>2, OpenLensKeeps
<1>2. CASE Work!ApplyPattern
  BY <1>2, OpenLensKeeps DEF Work!ApplyPattern, Work!LensKinds
<1>3. CASE Work!EditCellOfLens \/ Work!AskForPattern \/ Work!LeavePattern
  <2>1. /\ UNCHANGED <<Work!documents, fields, Work!data, Work!threads>>
        /\ \/ panel = "lens" /\ panel' = "cell" /\ back' = "lens" /\ lens # {}
           \/ panel' = panel /\ back' = back
           \/ /\ panel = "lens" /\ panel' = "logPattern" /\ back' = back
              /\ \E view \in lens : view.kind = "log"
           \/ panel = "logPattern" /\ panel' = "lens" /\ back' = back
    BY <1>3 DEF Work!EditCellOfLens, Work!AskForPattern, Work!LeavePattern, Work!BeginCell
  <2>2. DocsInv'
    BY <2>1, SameDocs DEF WorkInv
  <2>3. HeldInv'
    BY <2>1 DEF WorkInv, HeldInv, AtMostOne, Work!Panels, Work!data
  <2>4. PermitsInv' /\ SearchInv'
    BY <2>1, SameSearch DEF WorkInv, PermitsInv, Work!data, Work!threads
  <2>5. (\E view \in lens : view.kind = "log") => \A view \in lens : view.kind = "log"
    BY DEF WorkInv, HeldInv, AtMostOne
  <2>6. Work!PanelHasItsData'
    BY <2>1, <2>5 DEF WorkInv, Work!PanelHasItsData, Work!Searching, Work!Hits, Work!data,
       Work!threads
  <2> QED BY <2>2, <2>3, <2>4, <2>6 DEF WorkInv
<1> QED BY <1>1, <1>2, <1>3

-----------------------------------------------------------------------------
\* The draft.

LEMMA LeaveCellKeeps ==
  ASSUME WorkInv, Work!LeaveCell
  PROVE  WorkInv'
<1>1. /\ panel = "cell" /\ panel' = back /\ back' = "none" /\ pending' = {}
      /\ UNCHANGED <<Work!documents, fields, channel, report, lens, search, indexing, leaving>>
  BY DEF Work!LeaveCell, Work!threads
<1>2. DocsInv'
  BY <1>1, SameDocs DEF WorkInv
<1>3. HeldInv'
  BY <1>1 DEF WorkInv, HeldInv, AtMostOne, Work!Panels
<1>4. PermitsInv' /\ SearchInv'
  BY <1>1, SameSearch DEF WorkInv, PermitsInv
<1>5. Work!PanelHasItsData'
  BY <1>1 DEF WorkInv, Work!PanelHasItsData, Work!Searching
<1> QED BY <1>2, <1>3, <1>4, <1>5 DEF WorkInv

LEMMA ApplyToHitKeeps ==
  ASSUME WorkInv, Work!ApplyToHit
  PROVE  WorkInv'
<1>1. PICK hit \in pending, text \in Texts :
        /\ active' = hit.path
        /\ \/ /\ Work!Opened(hit.path)[hit.path].revision < MaxRevision
              /\ docs' = [Work!Opened(hit.path) EXCEPT
                            ![hit.path] = [text |-> text, revision |-> @.revision + 1]]
              /\ panel' = back /\ back' = "none" /\ Work!StartSearch(docs')
           \/ /\ docs' = Work!Opened(hit.path)
              /\ UNCHANGED <<panel, back, channel, report, pending, Work!threads>>
  BY DEF Work!ApplyToHit
<1>2. panel = "cell" /\ back = "search" /\ UNCHANGED <<disk, fields, lens>>
  BY DEF Work!ApplyToHit
<1>3. hit.path \in Paths /\ DocsInv
  BY DEF WorkInv, HeldInv, Work!Hit
<1>4. CASE /\ Work!Opened(hit.path)[hit.path].revision < MaxRevision
           /\ docs' = [Work!Opened(hit.path) EXCEPT
                         ![hit.path] = [text |-> text, revision |-> @.revision + 1]]
           /\ panel' = back /\ back' = "none" /\ Work!StartSearch(docs')
  <2>1. /\ DOMAIN Work!Opened(hit.path) = DOMAIN docs \cup {hit.path}
        /\ \A q \in DOMAIN docs \cup {hit.path} : Work!Opened(hit.path)[q] \in Work!Document
    BY <1>3, OpenedKnown
  <2>2. PICK open : open = Work!Opened(hit.path)
    OBVIOUS
  <2>3. [text |-> text, revision |-> open[hit.path].revision + 1] \in Work!Document
    BY <1>4, <2>1, <2>2, ToolsAssumption DEF Work!Document, Work!Revisions
  <2>4. DOMAIN docs' = DOMAIN docs \cup {hit.path}
    BY <1>4, <2>1
  <2>5. \A q \in DOMAIN docs' : docs'[q] \in Work!Document
    BY <1>4, <2>1, <2>2, <2>3, <2>4
  <2>6. DocsInv'
    BY <1>1, <1>2, <1>3, <2>4, <2>5 DEF DocsInv
  <2>7. "none" \in Work!Panels
    BY DEF Work!Panels
  <2> QED BY <1>2, <1>4, <2>6, <2>7, StartSearchKeeps
<1>5. CASE /\ docs' = Work!Opened(hit.path)
           /\ UNCHANGED <<panel, back, channel, report, pending, Work!threads>>
  <2>1. DocsInv'
    BY <1>1, <1>2, <1>3, <1>5, OpenedKeeps
  <2> QED BY <1>2, <1>5, <2>1, DocsStep DEF Work!data
<1> QED BY <1>1, <1>4, <1>5

LEMMA ApplyToLensKeeps ==
  ASSUME WorkInv, Work!ApplyToLens
  PROVE  WorkInv'
<1>1. PICK view \in lens, text \in Texts :
        \/ /\ docs[view.path] = [text |-> view.text, revision |-> view.revision]
           /\ Work!MayChange(view.path)
           /\ docs' = Work!Changed(view.path, text)
           /\ lens' = {[view EXCEPT !.text = text, !.revision = @ + 1]}
           /\ panel' = back /\ back' = "none" /\ pending' = {}
        \/ UNCHANGED <<docs, lens, panel, back, pending>>
  BY DEF Work!ApplyToLens
<1>2. /\ panel = "cell" /\ back = "lens"
      /\ UNCHANGED <<disk, active, fields, channel, report, search, indexing, leaving>>
  BY DEF Work!ApplyToLens, Work!threads
<1>3. CASE /\ docs[view.path] = [text |-> view.text, revision |-> view.revision]
           /\ Work!MayChange(view.path)
           /\ docs' = Work!Changed(view.path, text)
           /\ lens' = {[view EXCEPT !.text = text, !.revision = @ + 1]}
           /\ panel' = back /\ back' = "none" /\ pending' = {}
  <2>1. view \in DataView /\ view.path \in Paths
    BY DEF WorkInv, HeldInv, DataView
  <2>2. DocsInv'
    BY <1>2, <1>3, <2>1, ChangedKeeps DEF WorkInv
  <2>3. view.revision < MaxRevision
    BY <1>3 DEF Work!MayChange
  <2>4. [view EXCEPT !.text = text, !.revision = @ + 1] \in DataView
    <3>1. view.revision \in 0 .. MaxRevision
      BY <2>1 DEF DataView, Work!Revisions
    <3>2. view.revision + 1 \in Work!Revisions
      BY <2>3, <3>1, ToolsAssumption DEF Work!Revisions
    <3> QED BY <2>1, <3>2 DEF DataView
  <2>5. HeldInv'
    BY <1>2, <1>3, <2>4 DEF WorkInv, HeldInv, AtMostOne, Work!Panels
  <2>6. PermitsInv' /\ SearchInv'
    BY <1>2, SameSearch DEF WorkInv, PermitsInv
  <2>7. Work!PanelHasItsData'
    BY <1>2, <1>3 DEF WorkInv, Work!PanelHasItsData, Work!Searching
  <2> QED BY <2>2, <2>5, <2>6, <2>7 DEF WorkInv
<1>4. CASE UNCHANGED <<docs, lens, panel, back, pending>>
  <2>1. DocsInv'
    BY <1>2, <1>4, SameDocs DEF WorkInv, Work!documents
  <2> QED BY <1>2, <1>4, <2>1, DocsStep DEF Work!data, Work!threads
<1> QED BY <1>1, <1>3, <1>4

-----------------------------------------------------------------------------
LEMMA WorkStep == WorkInv /\ [Work!Next]_(Work!vars) => WorkInv'
<1> SUFFICES ASSUME WorkInv, [Work!Next]_(Work!vars) PROVE WorkInv'
  OBVIOUS
<1>1. CASE Work!Shortcut
  BY <1>1, PanelsKeep, OpenLensKeeps DEF Work!Shortcut
<1>2. CASE Work!User /\ ~Work!Shortcut
  BY <1>2, DocumentsKeep, CloseDocumentKeeps, PanelsKeep, SearchPanelKeeps, StopKeepsWorker,
     GoToSourceKeeps, LensKeeps, LeaveCellKeeps, ApplyToHitKeeps, ApplyToLensKeeps DEF Work!User
<1>3. CASE Work!TakeReport \/ Work!IndexingEnds \/ Work!WorkerLeaves
  BY <1>3, TakeReportKeeps, ThreadsKeep
<1>4. CASE Work!SearchStep
  BY <1>4, SearchCopyKeeps, SearchFileKeeps, SendReportKeeps DEF Work!SearchStep
<1>5. CASE \E p \in Paths : Work!WriteFile(p)
  BY <1>5, DocumentsKeep
<1>6. CASE UNCHANGED Work!vars
  BY <1>6, SameDocs, DocsStep DEF Work!vars, WorkInv
<1> QED BY <1>1, <1>2, <1>3, <1>4, <1>5, <1>6 DEF Work!Next

LEMMA OneAtMost ==
  ASSUME NEW S, AtMostOne(S)
  PROVE  Cardinality(S) <= 1
<1>1. CASE S = {}
  BY <1>1, FS_EmptySet
<1>2. ASSUME NEW a \in S PROVE Cardinality(S) <= 1
  <2>1. S = {a}
    BY DEF AtMostOne
  <2>2. Cardinality({a}) = 1
    BY FS_Singleton
  <2>3. Cardinality(S) = 1
    BY <2>1, <2>2
  <2> QED BY <2>3
<1> QED BY <1>1, <1>2

LEMMA WorkTypes == WorkInv => Work!TypeOK
<1> SUFFICES ASSUME WorkInv PROVE Work!TypeOK
  OBVIOUS
<1>1. \A S \in {search, channel, report, pending, lens} : Work!Cardinality(S) <= 1
  <2>1. \A S : Work!Cardinality(S) = Cardinality(S)
    BY DEF Work!Cardinality, Cardinality
  <2>2. \A S \in {search, channel, report, pending, lens} : Cardinality(S) <= 1
    BY OneAtMost DEF WorkInv, HeldInv, SearchInv
  <2> QED BY <2>1, <2>2
<1>2. search \subseteq Work!Worker
  BY DEF WorkInv, SearchInv, WorkerInv
<1>3. Work!Held \in 0 .. MaxWorkers
  <2>1. Work!One(search # {}) \in 0 .. 1 /\ Work!One(indexing) \in 0 .. 1
    BY OneIs
  <2> QED BY <2>1, ToolsAssumption DEF WorkInv, PermitsInv, Work!Held
<1>4. /\ DOMAIN docs \subseteq Paths /\ \A p \in DOMAIN docs : docs[p] \in Work!Document
      /\ disk \in [Paths -> Texts] /\ active \in DOMAIN docs \cup {NoPath}
  BY DEF WorkInv, DocsInv
<1>5. /\ {panel, back} \subseteq Work!Panels /\ fields \in Queries
      /\ pending \subseteq Work!Hit
  BY DEF WorkInv, HeldInv
<1>6. indexing \in BOOLEAN
  BY DEF WorkInv, PermitsInv
<1> QED BY <1>1, <1>2, <1>3, <1>4, <1>5, <1>6 DEF Work!TypeOK

\* Whatever panel is open has what it works on, no permit is given out twice, and a report on
\* the screen answers the query in the fields, for any files, documents and queries, any number
\* of permits and however searches are started, stopped, replaced and dropped (workbench.rs,
\* workspace_search.rs).
THEOREM ReportsAreHonest == ToolsSpec => []ReportIsHonest
<1>1. ToolsInit => WorkInv
  BY WorkStarts DEF ToolsInit
<1>2. WorkInv /\ [ToolsNext /\ UNCHANGED part]_toolVars => WorkInv'
  BY WorkStep DEF ToolsNext, toolVars, workVars, Work!vars, Work!documents, Work!data,
     Work!threads
<1>3. WorkInv => ReportIsHonest
  BY WorkTypes DEF WorkInv, SearchInv, ReportInv, ReportIsHonest, Work!ReportIsHonest
<1> QED BY <1>1, <1>2, <1>3, PTL DEF ToolsSpec
=============================================================================
