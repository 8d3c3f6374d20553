------------------------------ MODULE SearchState ------------------------------
(***************************************************************************)
(* A document that is searched: its state, the patterns, and what a search *)
(* owes its user.  Apart from the steps, in Searching, so that the module  *)
(* of a run that has other components may extend it.                       *)
(***************************************************************************)
EXTENDS Naturals, Sequences

VARIABLES
  text, cursor, selection,  \* of the TextBuffer; a selection is {} or {[beg, end]}
  search,    \* ActiveSearch: {} or one record
  earlier,   \* what Undo goes back to: {} or {[text, cursor, selection]}
  found,     \* history: what the last step found, {} or one record
  replaced   \* history: what the last step replaced, {} or one record

(***************************************************************************)
(* External: what ICU's patterns match.  "a" and "aa" are literal, "a*"    *)
(* and "$" are regular.                                                    *)
(***************************************************************************)
Literal(p) == p \in {"a", "aa"}

\* How long a match at a place may be: {} or one length.
Lengths(p, s, at) ==
  LET runs == {n \in 0 .. Len(s) - at : \A k \in 1 .. n : s[at + k] = "a"}
  IN CASE p = "a" -> {1} \cap runs
       [] p = "aa" -> {2} \cap runs
       [] p = "a*" -> {n \in runs : \A m \in runs : m <= n}
       [] p = "$" -> IF at = Len(s) THEN {0} ELSE {}

MatchesAt(p, s) == {at \in 0 .. Len(s) : Lengths(p, s, at) # {}}

\* What is found occurs in the text as it is now, whatever was typed, undone or replaced since
\* the search was made.  Of a literal pattern it is the first occurrence from the place the
\* search goes on from, or else the first of all; nothing is found only if there is none.
FoundIsThere ==
  \A f \in found :
    LET first(at) == {i \in at : \A j \in at : i <= j}
        due(at, ahead) == first(IF ahead = {} THEN at ELSE ahead)
        from(at) == due(at, {i \in at : i >= f.from})
    IN /\ \A h \in f.hits : h.end - h.beg \in Lengths(f.pattern, text, h.beg)
       /\ Literal(f.pattern) => {h.beg : h \in f.hits} = from(MatchesAt(f.pattern, text))
=============================================================================
