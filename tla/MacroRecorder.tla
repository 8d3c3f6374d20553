----------------------------- MODULE MacroRecorder -----------------------------
(***************************************************************************)
(* Recording a macro.  The main loop decides about an input twice: before  *)
(* it is dispatched (what command would it be, is the editor focused, may  *)
(* it pass at all) and after (is the editor still focused on the same      *)
(* document, with no panel in front); only then is the command recorded.   *)
(* MacroStore keeps the recording within its limits and the saved macros   *)
(* in macros.json.                                                         *)
(*                                                                         *)
(* A command is what it adds to the text of a recording.  The documents    *)
(* are two; of their text only what was done to it since the recording     *)
(* started is kept: what the editor ran, and what was run on it from       *)
(* elsewhere, which no macro takes.                                        *)
(***************************************************************************)
EXTENDS Naturals, Sequences

CONSTANTS
  Commands,     \* the recordable commands
  TextLength,   \* of a command: the bytes it captures
  Names,
  MaxText, MaxCommands,
  MaxRan        \* bound: what is run during a recording

VARIABLES
  document,  \* which document is active
  focus,     \* "editor" or the "find" bar
  front,     \* the panel in front: "none", "macroName" or "other"
  store,     \* MacroStore: recording, recording_bytes, recording_error
  library,   \* MacroStore.saved, and macros.json
  browsing,  \* the native dialog is open
  ran        \* history: all that was run on a document since the recording started, if one goes on

vars == <<document, focus, front, store, library, browsing, ran>>

\* What an input is: a recordable command, or what its name says.  "stop" is Ctrl+Shift+M,
\* "commands" Ctrl+Shift+P, "replay" Ctrl+Alt+M, "idle" a frame without input.
Inputs == Commands \cup {"click", "find", "search", "replace", "menu", "stop", "commands",
                         "replay", "browse", "enter", "escape", "resize", "idle"}

Idle == [recording |-> FALSE, commands |-> <<>>, bytes |-> 0, failed |-> FALSE]

Init ==
  /\ document = 1 /\ focus = "editor" /\ front = "none" /\ store = Idle
  /\ library = [n \in {} |-> <<>>]
  /\ browsing = FALSE /\ ran = <<>>

(***************************************************************************)
(* MacroStore.                                                             *)
(***************************************************************************)
Start(s) == [Idle EXCEPT !.recording = TRUE]
Cancel(s) == [s EXCEPT !.recording = FALSE, !.commands = <<>>, !.failed = FALSE]

Valid(c) == TextLength[c] <= MaxText

\* Mutant: recording goes on behind a command that did not fit.
RecordAfterFailure(s, c) ==
  LET bytes == s.bytes + TextLength[c]
  IN IF ~s.recording \/ ~Valid(c) \/ Len(s.commands) >= MaxCommands \/ bytes > MaxText
     THEN s
     ELSE [s EXCEPT !.bytes = bytes, !.commands = Append(@, c)]

Record(s, c) ==
  LET bytes == s.bytes + TextLength[c]
  IN CASE ~s.recording \/ s.failed -> s
       [] s.recording /\ ~s.failed /\ ~Valid(c) -> [s EXCEPT !.failed = TRUE]
       [] s.recording /\ ~s.failed /\ Valid(c) ->
            IF Len(s.commands) >= MaxCommands \/ bytes > MaxText
            THEN [s EXCEPT !.bytes = bytes, !.failed = TRUE]
            ELSE [s EXCEPT !.bytes = bytes, !.commands = Append(@, c)]

\* stop_and_save gets as far as writing the file.
Savable(s, name) ==
  /\ name \notin DOMAIN library
  /\ ~s.failed
  /\ s.recording /\ s.commands # <<>>

(***************************************************************************)
(* What is run on a document: a command by the editor that showed it when  *)
(* the input came, or anything else that edits or selects.                 *)
(***************************************************************************)
ByEditor(c) == [by |-> "editor", command |-> c]
Elsewhere == [by |-> "elsewhere", command |-> "unrecordable"]

Run(e) ==
  IF store.recording THEN Len(ran) < MaxRan /\ ran' = Append(ran, e) ELSE UNCHANGED ran

\* Of what was run, the editor's own commands.
EditorsOwn(all) ==
  LET own[i \in 0..Len(all)] ==
        IF i = 0 THEN <<>>
        ELSE IF all[i].by = "editor" THEN Append(own[i - 1], all[i].command) ELSE own[i - 1]
  IN own[Len(all)]

(***************************************************************************)
(* One pass of the loop: deciding, dispatching, recording.                 *)
(***************************************************************************)
RecordingEditor == focus = "editor" /\ front = "none" /\ store.recording

StoppedBefore(i) ==
  RecordingEditor /\ i \notin Commands \cup {"stop", "resize", "idle"}

\* native_open::poll and workbench::shortcuts come before the editor.
Browsed == browsing' \in {browsing, FALSE}
Target(i) ==
  IF (browsing /\ ~browsing') \/ (front = "other" /\ i = "enter") THEN {1, 2} ELSE {document}

\* The editor, the find bar or the menu bar, when no panel is in front and no recording runs in
\* the editor.
Dispatch(i) ==
  /\ front = "none"
  /\ \/ i = "find" /\ focus' = "find" /\ UNCHANGED ran
     \/ i = "escape" /\ focus' = "editor" /\ UNCHANGED ran
     \/ i = "click" /\ focus' = "editor" /\ Run(Elsewhere)
     \/ i = "menu" /\ UNCHANGED focus /\ Run(Elsewhere)
     \/ i = "replace" /\ focus = "find" /\ UNCHANGED focus /\ Run(Elsewhere)
  /\ UNCHANGED <<store, library, front>>

\* The key for the next hit, which every panel lets through, and typing in the find bar.
Search(i) ==
  /\ i = "search" /\ Run(Elsewhere)
  /\ UNCHANGED <<focus, front, store, library>>

\* The panel that asks for the name.
AnswerName(i) ==
  /\ front = "macroName"
  /\ \/ /\ i = "escape" /\ store' = Cancel(store) /\ front' = "none" /\ ran' = <<>>
        /\ UNCHANGED library
     \/ /\ i = "enter"
        /\ \E name \in Names, written \in BOOLEAN :
             IF Savable(store, name) /\ written
             THEN /\ library' = [n \in DOMAIN library \cup {name} |->
                                   IF n = name THEN [commands |-> store.commands, ran |-> ran]
                                   ELSE library[n]]
                  /\ store' = [store EXCEPT !.recording = FALSE, !.commands = <<>>]
                  /\ front' = "none" /\ ran' = <<>>
             ELSE UNCHANGED <<library, store, front, ran>>
  /\ UNCHANGED focus

\* A command of another panel, which leaves the recording alone: it opens the find bar, works on
\* the document, or does neither.
AnswerOther(i) ==
  /\ front = "other" /\ i \in {"enter", "escape"}
  /\ front' = "none"
  /\ \/ UNCHANGED <<focus, ran>>
     \/ i = "enter" /\ focus' = "find" /\ UNCHANGED ran
     \/ i = "enter" /\ UNCHANGED focus /\ Run(Elsewhere)
  /\ UNCHANGED <<store, library>>

Stop(i) ==
  /\ i = "stop"
  /\ IF store.recording
     THEN front' = "macroName" /\ UNCHANGED <<store, ran>>
     ELSE front' = "none" /\ store' = Start(store) /\ ran' = <<>>
  /\ UNCHANGED <<focus, library>>

Ask(i) ==
  /\ i = "commands" /\ front' = "other"
  /\ UNCHANGED <<focus, store, library, ran>>

\* Replaying the last macro is refused during a recording, but closes the panel in front.
Replay(i) ==
  /\ i = "replay" /\ front' \in {front, "none"}
  /\ UNCHANGED <<focus, store, library, ran>>

Nothing(i) ==
  /\ i \in {"resize", "idle", "browse"}
  /\ UNCHANGED <<focus, front, store, library, ran>>

\* An input that is let through, and is recorded only if it reached the editor.
Pass(i) ==
  /\ ~StoppedBefore(i)
  /\ Browsed /\ document' \in Target(i)
  /\ IF RecordingEditor /\ i \in Commands
     THEN /\ Run(IF document' = document THEN ByEditor(i) ELSE Elsewhere)
          /\ IF document' = document
             THEN store' = Record(store, i) /\ front' = "none"
             ELSE store' = store /\ front' = "macroName"
          /\ UNCHANGED <<focus, library>>
     ELSE \/ Dispatch(i) \/ Search(i) \/ AnswerName(i) \/ AnswerOther(i)
          \/ Stop(i) \/ Ask(i) \/ Replay(i) \/ Nothing(i)

\* An input that is held back: the panel asks for the name instead.
HoldBack(i) ==
  /\ StoppedBefore(i)
  /\ front' = "macroName"
  /\ Browsed /\ document' \in Target(i)
  /\ UNCHANGED <<focus, store, library, ran>>

\* Browse File starts the native dialog, from the menus or the commands.
Browse ==
  /\ ~RecordingEditor /\ ~browsing /\ browsing' = TRUE
  /\ UNCHANGED <<document, focus, front, store, library, ran>>

\* The program ends, and another reads macros.json.
Restart ==
  /\ document' = 1 /\ focus' = "editor" /\ front' = "none" /\ store' = Idle
  /\ browsing' = FALSE /\ ran' = <<>>
  /\ UNCHANGED library

Next == (\E i \in Inputs : Pass(i) \/ HoldBack(i)) \/ Browse \/ Restart

Spec == Init /\ [][Next]_vars

-----------------------------------------------------------------------------
\* A saved macro is exactly what the editor ran itself from the start of its recording to the
\* moment it was saved: inputs that are held back, limits that were passed, failed writes, other
\* documents and panels in between neither cut nor repeat a command of it.  What is run on the
\* document from elsewhere is excepted, and no macro has it: the find bar's search and
\* replacements, the menu's commands, a panel's, a click that leaves the find bar, and a command
\* that reached another document because the native dialog's answer came in the same frame.
SavedIsWhatRan ==
  \A n \in DOMAIN library : library[n].commands = EditorsOwn(library[n].ran)

\* "Unsupported actions stop recording before execution so an incomplete macro is not silently
\* saved" (docs/workbench.md:66): nothing was run from elsewhere between two commands of a saved
\* macro.  The code holds this only while the editor has the focus.
NoHoles ==
  \A n \in DOMAIN library : \A i, k \in DOMAIN library[n].ran : \A j \in i..k :
    library[n].ran[i].by = "editor" /\ library[n].ran[k].by = "editor"
      => library[n].ran[j].by = "editor"
=============================================================================
