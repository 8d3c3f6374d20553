------------------------------ MODULE Associations ------------------------------
(***************************************************************************)
(* settings.json: which language the files of a pattern are shown in.  The *)
(* user writes it, in this editor or another; it is read at the start and  *)
(* whenever it is saved here.  A content that is refused leaves the rules  *)
(* in force.  The rule found for the active file is remembered, as every   *)
(* frame asks for it.                                                      *)
(***************************************************************************)
EXTENDS Naturals, Sequences

CONSTANTS
  Files,      \* the paths asked for
  Matching,   \* external, glob_match: of a pattern, the files it matches
  Languages,  \* the languages there are
  Texts       \* contents of settings.json: <<"broken">>, or <<"rules", sequence of <<pattern, language>>>>

VARIABLES
  rules,        \* file_associations
  active_match, \* none or [path, index]; index 0 is no rule
  answer        \* the last answer: none or [path, language]; language "" is none

vars == <<rules, active_match, answer>>

\* Settings::parse: every rule must be good.
Parse(text) ==
  IF text[1] = "broken" THEN {}
  ELSE IF \A k \in DOMAIN text[2] : text[2][k][1] # "" /\ text[2][k][2] \in Languages
  THEN {text[2]} ELSE {}

\* Mutant: the remembered rule outlives the rules.
ReloadedRemembering(content) ==
  \/ content = {} /\ rules' = <<>> /\ UNCHANGED active_match
  \/ \E text \in content : \E new \in Parse(text) : rules' = new /\ UNCHANGED active_match
  \/ content # {} /\ UNCHANGED <<rules, active_match>>

\* Settings::reload: without the file there are no rules; an error changes nothing.
Reloaded(content) ==
  \/ content = {} /\ rules' = <<>> /\ active_match' = {}
  \/ \E text \in content : \E new \in Parse(text) : rules' = new /\ active_match' = {}
  \/ content # {} /\ UNCHANGED <<rules, active_match>>   \* refused, or it cannot be read

Init == rules = <<>> /\ active_match = {} /\ answer = {}

\* At the start, and when the file was saved here; by the time it is read, another program may
\* have left anything there.
Reload ==
  /\ \E content \in {{}} \cup {{t} : t \in Texts} : Reloaded(content)
  /\ answer' = {}

First(path) ==
  LET hits == {k \in DOMAIN rules : path \in Matching[rules[k][1]]}
  IN IF hits = {} THEN 0 ELSE CHOOSE k \in hits : \A j \in hits : k <= j

\* language_for_path, for the active file or another.
Ask(path) ==
  LET remembered == {m \in active_match : m.path = path}
      index == IF remembered = {} THEN First(path) ELSE (CHOOSE m \in remembered : TRUE).index
  IN /\ IF rules = <<>>
        THEN answer' = {[path |-> path, language |-> ""]} /\ UNCHANGED active_match
        ELSE /\ answer' = {[path |-> path, language |-> IF index = 0 THEN "" ELSE rules[index][2]]}
             /\ active_match' = {[path |-> path, index |-> index]}
     /\ UNCHANGED rules

Next == Reload \/ \E path \in Files : Ask(path)

Spec == Init /\ [][Next]_vars

-----------------------------------------------------------------------------
\* A file is shown in the language of the first rule in force that matches it: not of a rule
\* that was replaced, nor of the rule that stood at its place before, nor of a file looked at
\* earlier.
LanguageIsRight ==
  \A a \in answer :
    LET hits == {k \in DOMAIN rules : a.path \in Matching[rules[k][1]]}
    IN IF hits = {} THEN a.language = ""
       ELSE \E k \in hits : a.language = rules[k][2] /\ \A j \in hits : k <= j
=============================================================================
