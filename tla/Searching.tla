-------------------------------- MODULE Searching --------------------------------
(***************************************************************************)
(* Find and Replace in a document.  A search is kept between two presses   *)
(* of Enter: the compiled pattern, ICU's own view of the text, where to go *)
(* on, and whether the selection is still its hit.  In between the user    *)
(* types, moves, selects and undoes.                                       *)
(*                                                                         *)
(* The document is one line of single-byte characters; offsets count from  *)
(* 0.  Two counters only tell whether they moved since the search looked:  *)
(* content_revision (the search is fresh) and selection_generation (the    *)
(* selection is ours); their wrapping around is left out.                  *)
(***************************************************************************)
EXTENDS SearchState, FiniteSets

CONSTANTS
  Letters,
  Patterns,      \* those of SearchState; "" and "bad" are errors
  Replacements,  \* texts
  MaxLength      \* bound: of the document

\* What the external part below knows of; strings in which each letter counts for one.
SearchAssumption ==
  /\ Patterns \subseteq {"a", "aa", "a*", "$", "", "bad"}
  /\ Replacements \subseteq Seq(Letters)

vars == <<text, cursor, selection, search, earlier, found, replaced>>

(***************************************************************************)
(* External: ICU's regular expressions.  A regex has the text it was given *)
(* and a place; after an empty match it goes on one character later.       *)
(***************************************************************************)
FirstHit(p, s, from) ==
  LET hits == UNION {{[beg |-> at, end |-> at + n] : n \in Lengths(p, s, at)} :
                       at \in from .. Len(s)}
  IN {h \in hits : \A g \in hits : h.beg <= g.beg}

\* uregex_reset64 refuses a place outside the text; setUText has left the regex at 0.
ResetTo(regex, offset) ==
  IF offset <= Len(regex.seen) THEN [regex EXCEPT !.at = offset, !.empty = FALSE] ELSE regex
SetText(t, offset) == ResetTo([seen |-> t, at |-> 0, empty |-> FALSE], offset)

RegexNext(p, regex) == FirstHit(p, regex.seen, IF regex.empty THEN regex.at + 1 ELSE regex.at)
Matched(regex, h) == [regex EXCEPT !.at = h.end, !.empty = h.beg = h.end]

(***************************************************************************)
(* The search.                                                             *)
(***************************************************************************)
Init ==
  /\ text \in UNION {[1 .. n -> Letters] : n \in 0 .. MaxLength}
  /\ cursor = 0 /\ selection = {} /\ search = {} /\ earlier = {}
  /\ found = {} /\ replaced = {}

\* Mutant: the text changes under a search that goes on with what it has read of it.
AfterChangeKept(s) == s

\* Every change of the text makes a search stale, a generation of the gap buffer that is used
\* again or not.  set_selection bumps the selection_generation.
AfterChange(s) ==
  {[r EXCEPT !.fresh = FALSE] : r \in s}
AfterSelecting(s) == {[r EXCEPT !.ours = FALSE] : r \in s}

\* find_construct_search.
Construct(p, t) ==
  [pattern |-> p, fresh |-> TRUE, ours |-> FALSE, next |-> 0, noMatches |-> FALSE,
   regex |-> [seen |-> t, at |-> 0, empty |-> FALSE]]

\* The search as it looks from offset in the text t.
Positioned(s, t, offset) ==
  IF ~s.fresh
  THEN [s EXCEPT !.regex = SetText(t, offset), !.fresh = TRUE, !.noMatches = FALSE,
                 !.next = offset]
  ELSE IF s.next # offset
  THEN [s EXCEPT !.next = offset, !.regex = ResetTo(@, offset)]
  ELSE s

\* find_select_next: what is hit, and the search after it.
SelectNext(s, t, offset, wrap) ==
  LET hit(at, h) == [at EXCEPT !.ours = TRUE, !.regex = Matched(@, h), !.next = h.end]
      select(at, hits) ==
        [hits |-> hits,
         search |-> IF hits = {} THEN [at EXCEPT !.ours = TRUE, !.noMatches = TRUE]
                    ELSE hit(at, CHOOSE h \in hits : TRUE)]
      look(at, hits) ==
        IF wrap /\ at.next # 0 /\ hits = {}
        THEN LET back == [at EXCEPT !.next = 0, !.regex = ResetTo(@, 0)]
             IN select(back, RegexNext(s.pattern, back.regex))
        ELSE select(at, hits)
      from(at) == look(at, RegexNext(s.pattern, at.regex))
  IN from(Positioned(s, t, offset))

\* The end of find_and_select: a search s in the text t, with selection and cursor.
FindIn(s, t, sel, cur) ==
  LET from == IF s.ours THEN s.next
              ELSE IF sel # {} THEN (CHOOSE r \in sel : TRUE).beg ELSE cur
      known == s.noMatches /\ s.fresh
  IN \E done \in {IF known THEN [hits |-> {}, search |-> s] ELSE SelectNext(s, t, from, TRUE)} :
       /\ search' = {done.search}
       /\ selection' = IF known THEN sel ELSE {h \in done.hits : h.beg < h.end}
       /\ cursor' = IF done.hits = {} THEN cur ELSE (CHOOSE h \in done.hits : TRUE).end
       /\ found' = {[pattern |-> s.pattern, hits |-> done.hits, from |-> from]}

Find(p) ==
  LET kept == {s \in search : s.pattern = p}
      s == IF kept = {} THEN Construct(p, text) ELSE CHOOSE k \in kept : TRUE
      clears == search # {} /\ selection # {}
  IN /\ CASE p = "" ->
               /\ search' = kept /\ found' = {}
               /\ selection' = IF clears THEN {} ELSE selection
               /\ cursor' = IF clears THEN (CHOOSE r \in selection : TRUE).beg ELSE cursor
          [] p = "bad" -> search' = {} /\ found' = {} /\ UNCHANGED <<cursor, selection>>
          [] OTHER -> FindIn(s, text, selection, cursor)
     /\ replaced' = {}
     /\ UNCHANGED <<text, earlier>>

Splice(s, range, new) ==
  SubSeq(s, 1, range.beg) \o new \o SubSeq(s, range.end + 1, Len(s))

\* write replaces the selection, or inserts at the cursor.
WriteRange == IF selection = {} THEN [beg |-> cursor, end |-> cursor]
              ELSE CHOOSE r \in selection : TRUE

Remembered == {[text |-> text, cursor |-> cursor, selection |-> selection]}

\* find_advance_past_zero_width.
Advanced(t, offset) == IF offset < Len(t) THEN {offset + 1} ELSE {}

\* find_and_replace when the selection still is the hit: it is replaced, and the next one is
\* found.  Otherwise it is Find.
Replace(p, new) ==
  \E s \in search :
    LET range == WriteRange
        changes == range.beg < range.end \/ new # <<>>
        after == Splice(text, range, new)
        cur == range.beg + Len(new)
        past == Advanced(after, cur)
        left == [s EXCEPT !.fresh = @ /\ ~changes, !.ours = selection = {},
                          !.next = IF selection # {} THEN @
                                   ELSE IF past = {} THEN 0 ELSE cur + 1]
    IN /\ s.ours /\ ~s.noMatches /\ s.pattern = p
       /\ Len(after) <= MaxLength
       /\ text' = after
       /\ earlier' = IF changes THEN Remembered ELSE earlier
       /\ replaced' = {[pattern |-> p, range |-> range, text |-> text]}
       /\ FindIn(left, after, {}, cur)

(***************************************************************************)
(* The replacement of a regular expression: text, and groups of the hit.   *)
(***************************************************************************)
Digits == [c \in {"0", "1", "2"} |-> CASE c = "0" -> 0 [] c = "1" -> 1 [] c = "2" -> 2]
Unescaped(c) == CASE c = "n" -> "newline" [] c = "r" -> "return" [] c = "t" -> "tab" [] OTHER -> c
Texts(s) == [i \in 1 .. Len(s) |-> <<"text", <<s[i]>>>>]

\* The longest run of digits at an offset, and its number.
DigitRun(r, off) ==
  LET runs == {n \in 0 .. Len(r) : off + n <= Len(r)
                 /\ \A k \in 1 .. n : r[off + k] \in DOMAIN Digits}
  IN IF runs = {} THEN <<>>
     ELSE SubSeq(r, off + 1, off + (CHOOSE n \in runs : \A m \in runs : m <= n))
Number(digits) ==
  LET f[n \in 0 .. Len(digits)] == IF n = 0 THEN 0 ELSE f[n - 1] * 10 + Digits[digits[n]]
  IN f[Len(digits)]

\* find_parse_replacement: raw text up to the next sign, then escapes, then a group.
ParsedReplacement(r, groups) ==
  LET At(i) == IF i < Len(r) THEN r[i + 1] ELSE "end"
      Sign(beg) == CHOOSE i \in beg .. Len(r) :
                     /\ At(i) \in {"$", "\\", "end"}
                     /\ \A j \in beg .. i - 1 : At(j) \notin {"$", "\\"}
      Pairs(sign) == CHOOSE n \in 0 .. Len(r) :
                       /\ At(sign + 2 * n) # "\\"
                       /\ \A k \in 0 .. n - 1 : At(sign + 2 * k) = "\\"
      Escaped(c) == IF c = "end" THEN "\\" ELSE Unescaped(c)
      Read(beg, sign, escapes) ==
        SubSeq(r, beg + 1, sign) \o [k \in 1 .. escapes |-> Escaped(At(sign + 2 * k - 1))]
      \* What comes next behind the raw text t: what it is read as, and where to go on.
      Group(t, off, digits) ==
        [out |-> IF digits # <<>> /\ Number(digits) <= groups
                 THEN Append(Texts(t), <<"group", digits>>)
                 ELSE Texts(t \o <<"$">> \o digits),
         next |-> off + 1 + Len(digits)]
      Item(t, off) ==
        CASE At(off) # "$" -> [out |-> Texts(t), next |-> off]
          [] At(off) = "$" /\ At(off + 1) = "$" -> [out |-> Texts(Append(t, "$")), next |-> off + 2]
          [] OTHER -> Group(t, off, DigitRun(r, off + 1))
      Text(beg, sign, escapes) == Item(Read(beg, sign, escapes), sign + 2 * escapes)
      From(beg, sign) == Text(beg, sign, Pairs(sign))
      f[beg \in 0 .. Len(r) + 1] ==
        LET then(item) == item.out \o f[item.next]
        IN IF beg >= Len(r) THEN <<>> ELSE then(From(beg, Sign(beg)))
  IN f[0]

\* A turn of the loop of find_and_replace_all: the hit is replaced, and where to go on.
TurnOfAll(b, new) ==
  LET look == SelectNext(b.search, b.text, b.offset, FALSE)
      replace(h, after, end) ==
        [text |-> after, cursor |-> end,
         offset |-> IF h.beg < h.end THEN end ELSE end + 1,
         search |-> [look.search EXCEPT !.fresh = h.beg = h.end /\ new = <<>>],
         done |-> h.beg = h.end /\ Advanced(after, end) = {}]
      put(h) == replace(h, Splice(b.text, h, new), h.beg + Len(new))
  IN IF b.done \/ look.hits = {} THEN [b EXCEPT !.done = TRUE]
     ELSE put(CHOOSE h \in look.hits : TRUE)

\* find_and_replace_all: one search of its own over the text as it changes.
ReplacedAll(p, t, new) ==
  LET last == 2 * (Len(t) + 2)
      f[n \in 0 .. last] ==
        IF n = 0
        THEN [text |-> t, cursor |-> cursor, offset |-> 0, search |-> Construct(p, t),
              done |-> FALSE]
        ELSE TurnOfAll(f[n - 1], new)
  IN f[last]

ReplaceAll(p, new) ==
  /\ p \notin {"", "bad"}
  /\ \E result \in {ReplacedAll(p, text, new)} :
       /\ Len(result.text) <= MaxLength
       /\ text' = result.text /\ cursor' = result.cursor /\ selection' = {}
       /\ earlier' = IF result.text = text THEN earlier ELSE Remembered
       /\ search' = AfterSelecting(IF result.text = text THEN search ELSE AfterChange(search))
  /\ found' = {} /\ replaced' = {}

(***************************************************************************)
(* What the user does in between.                                          *)
(***************************************************************************)
Type(new) ==
  LET after == Splice(text, WriteRange, new)
  IN /\ Len(after) <= MaxLength /\ after # text
     /\ text' = after /\ cursor' = WriteRange.beg + Len(new) /\ selection' = {}
     /\ earlier' = Remembered
     /\ search' = AfterChange(IF selection = {} THEN search ELSE AfterSelecting(search))
     /\ found' = {} /\ replaced' = {}

\* The cursor moves, with or without a selection behind it.
Move(to, range) ==
  /\ cursor' = to /\ selection' = range
  /\ search' = AfterSelecting(search)
  /\ found' = {} /\ replaced' = {}
  /\ UNCHANGED <<text, earlier>>

\* undo_redo exchanges text and selection, and is no set_selection.
Undo ==
  /\ \E e \in earlier : text' = e.text /\ cursor' = e.cursor /\ selection' = e.selection
  /\ earlier' = Remembered
  /\ search' = AfterChange(search)
  /\ found' = {} /\ replaced' = {}

Next ==
  \/ \E p \in Patterns : Find(p)
  \/ \E p \in Patterns, r \in Replacements : Replace(p, r) \/ ReplaceAll(p, r)
  \/ \E r \in Replacements : Type(r)
  \/ \E to \in 0 .. Len(text) : Move(to, {})
  \/ \E beg, end \in 0 .. Len(text) : beg < end /\ Move(end, {[beg |-> beg, end |-> end]})
  \/ Undo

Spec == Init /\ [][Next]_vars

-----------------------------------------------------------------------------
\* Replace All replaces the occurrences a text has before, each once and in order: what a
\* replacement adds is not searched again, and an empty occurrence does not hold it up.
ReplacesEach(t) ==
  \A p \in Patterns \ {"", "bad"}, new \in Replacements :
    LET f[at \in 0 .. Len(t)] ==
          LET n == Lengths(p, t, at)
              put == IF n = {} THEN <<>> ELSE new
              taken == IF n = {} THEN 0 ELSE CHOOSE k \in n : TRUE
          IN put \o IF taken > 0 THEN f[at + taken]
                    ELSE IF at = Len(t) THEN <<>> ELSE <<t[at + 1]>> \o f[at + 1]
    IN ReplacedAll(p, t, new).text = f[0]

\* A replacement is read sign by sign: an escaped one, "$$", a group there is, or itself.
ReplacementIsRead(r, groups) ==
  LET next(i) == IF i + 1 < Len(r) THEN r[i + 2] ELSE "end"
      f[i \in 0 .. Len(r)] ==
        LET group(digits) ==
              IF digits # <<>> /\ Number(digits) <= groups
              THEN <<<<"group", digits>>>> \o f[i + 1 + Len(digits)]
              ELSE Texts(<<"$">>) \o f[i + 1]
        IN CASE i = Len(r) -> <<>>
             [] i < Len(r) /\ r[i + 1] = "\\" /\ next(i) = "end" -> Texts(<<"\\">>)
             [] i < Len(r) /\ r[i + 1] = "\\" /\ next(i) # "end" ->
                  Texts(<<Unescaped(next(i))>>) \o f[i + 2]
             [] i < Len(r) /\ r[i + 1] = "$" /\ next(i) = "$" -> Texts(<<"$">>) \o f[i + 2]
             [] i < Len(r) /\ r[i + 1] = "$" /\ next(i) # "$" -> group(DigitRun(r, i + 1))
             [] OTHER -> Texts(<<r[i + 1]>>) \o f[i + 1]
  IN ParsedReplacement(r, groups) = f[0]

\* src/buffer/mod.rs:1821: "Editors traditionally replace the previous search hit, not the
\* next possible one."  What Replace replaces is an occurrence of the pattern.
ReplacedWasFound ==
  \A r \in replaced : r.range.end - r.range.beg \in Lengths(r.pattern, r.text, r.range.beg)
================================================================================
