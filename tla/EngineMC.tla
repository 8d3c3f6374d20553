------------------------------- MODULE EngineMC -------------------------------
(***************************************************************************)
(* The text engine in one run.  Each behaviour exercises one part: the gap *)
(* buffer of a document in a release build (virtual memory), that of an    *)
(* edit line in a debug build (heap memory), the editor under keyboard and *)
(* mouse, its search, or the scratch arenas all of them allocate from.     *)
(* The state of the other parts rests.                                     *)
(***************************************************************************)
EXTENDS GapBuffer, ArenaState, SearchState, MacroReplay

VARIABLE part

\* Short texts that share prefixes, and one that fits into no buffer.
MCSources ==
  {<<>>, <<"a">>, <<"b">>, <<"a", "b">>, <<"a", "b", "a">>,
   <<"b", "b", "a", "a", "b">>}

Debug == INSTANCE GapBuffer WITH
  GapChunk <- 2, AllocChunk <- 2, Capacity <- 4, Virtual <- FALSE, DebugAssertions <- TRUE

\* The clipboard holds a character, a whole line, or what two carets copied.
MCClips ==
  {[data |-> <<"a">>, fragments |-> <<>>, line |-> FALSE],
   [data |-> <<"a", "newline">>, fragments |-> <<>>, line |-> TRUE],
   [data |-> <<"a", "newline", "space">>, fragments |-> <<<<"a">>, <<"space">>>>, line |-> FALSE]}

\* A literal, a regular expression that may match nothing, and two that are no patterns.
Search == INSTANCE Searching WITH
  Letters <- {"a", "b"}, Patterns <- {"a", "aa", "a*", "", "bad"},
  Replacements <- {<<>>, <<"b", "a">>}, MaxLength <- 2

Native == INSTANCE NativeText WITH CacheSize <- 8

Scratch == INSTANCE Arena

bufferVars == <<buf, oracle>>
searchVars == <<text, cursor, selection, search, earlier, found, replaced>>
arenaVars == <<arenas, live>>

\* An editor that rests has a refused edit to report: no key is pressed in it.
EditorRests ==
  /\ editor = [Settled(EmptyBuffer) EXCEPT !.buf.full = TRUE]
  /\ anchor = <<>>

MCInit ==
  /\ Search!Init /\ Scratch!Init
  /\ \/ part = "replay" /\ EditorInit /\ Init /\ text = <<>>
     \/ part \in {"release", "arenas"} /\ EditorRests /\ Init /\ text = <<>>
     \/ part = "debug" /\ EditorRests /\ Debug!Init /\ text = <<>>
     \/ part = "search" /\ EditorRests /\ Init

MCNext ==
  /\ UNCHANGED part
  /\ \/ part = "release" /\ Next /\ UNCHANGED <<editorVars, searchVars, arenaVars>>
     \/ part = "debug" /\ Debug!Next /\ UNCHANGED <<editorVars, searchVars, arenaVars>>
     \/ part = "replay" /\ EditorNext /\ UNCHANGED <<bufferVars, searchVars, arenaVars>>
     \/ part = "search" /\ Search!Next /\ UNCHANGED <<bufferVars, editorVars, arenaVars>>
     \/ part = "arenas" /\ Scratch!Next /\ UNCHANGED <<bufferVars, editorVars, searchVars>>

MCSpec ==
  MCInit /\ [][MCNext]_<<part, bufferVars, editorVars, searchVars, arenaVars>>

\* Bytes on both sides of every limit of the encoding.
Bytes == {65, 128, 143, 144, 160, 191, 193, 194, 224, 225, 237, 240, 244, 245}

\* Every string of up to four such bytes decodes as UTF-8 demands, from either end.
DecodesUtf8 ==
  \A n \in 0 .. 4 : \A s \in [1 .. n -> Bytes] : Native!DecodesRight(s) /\ Native!LastAgrees(s)

\* What ICU is shown of every text of up to four characters of one, two and four bytes, with
\* the gap between any two of them, is that text - also through the pieces left from an
\* earlier text that had the same generation.
ShowsText ==
  LET Glyphs == {<<97>>, <<195, 169>>, <<240, 159, 152, 128>>}
      Flat(q) == LET f[n \in 0 .. Len(q)] == IF n = 0 THEN <<>> ELSE f[n - 1] \o q[n] IN f[Len(q)]
      texts == {Flat(q) : q \in UNION {[1 .. n -> Glyphs] : n \in 0 .. 4}}
      old == [text |-> <<97, 240, 159, 152, 128, 97, 97, 97, 97, 97>>, gap |-> 5, generation |-> 0]
      Answered(b, i, stale) ==
        /\ \A forward \in BOOLEAN : Native!AccessIsRight(Native!NewText, b, i, forward)
        /\ b.gap = Len(b.text) /\ i < Len(b.text) =>
             \A u \in {Native!Reached(Native!SetText(stale, b, 0), b, i)} :
               i \in u.chunk.start .. u.chunk.limit - 1 /\ Native!PieceIsRight(u.chunk, b.text)
  IN \A stale \in {Native!Access(Native!NewText, old, 5, FALSE)} : \A t \in texts :
       \A boundaries \in {Native!Boundaries(t)} : \A g \in boundaries, i \in boundaries :
         Answered([text |-> t, gap |-> g, generation |-> 0], i, stale)

\* What a search looks through is the document's text, in whatever pieces ICU asks for it
\* (Utf8: DecodesRight, LastAgrees; NativeText: AccessIsRight, PieceIsRight); what Replace All
\* puts there is what was written, once for each hit (Searching: ReplacementIsRead,
\* ReplacesEach).
TextIsSearched ==
  part = "search" /\ search = {} /\ text = <<>> /\ earlier = {} =>
    /\ \A n \in 0 .. 4 : \A t \in [1 .. n -> {"a", "b"}] : Search!ReplacesEach(t)
    /\ \A n \in 0 .. 5 : \A r \in [1 .. n -> {"\\", "$", "1", "0", "n"}] :
         Search!ReplacementIsRead(r, 1)
    /\ DecodesUtf8 /\ ShowsText /\ Search!SearchAssumption
=============================================================================
