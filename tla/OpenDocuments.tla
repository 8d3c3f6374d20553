---------------------------- MODULE OpenDocuments ----------------------------
(***************************************************************************)
(* The open documents and the requests that act on them.  The first entry  *)
(* of the list is the active document.  Close, exit, save and reload are   *)
(* flags that name no document: the frame that serves one acts on whatever *)
(* is active at that moment.  A frame draws the interface once and hands   *)
(* at most one key to it; it is run here handler by handler, in the order  *)
(* of draw() in main.rs.  Around it run the native file dialog's thread    *)
(* and the other programs that write the files.                            *)
(*                                                                         *)
(* A document's text is not kept: what matters is whether it is dirty, and *)
(* how its disk baseline compares with the file.  All changes of a file    *)
(* are taken to be noticed when the file is looked at.                     *)
(***************************************************************************)
EXTENDS Integers, Sequences, FiniteSets, SequencesExt

CONSTANTS
  Files,         \* the paths users open and save to
  NoFile,        \* no path: an untitled document
  Located,       \* a name the watcher is given with its :line suffix left on
  MaxOpen,       \* bound: documents open at once
  MaxPending,    \* bound: requests and dialogs pending when a key adds one
  Batch,         \* bound: keys that arrive in one read of the terminal
  Windows,       \* the native file dialog exists
  LocatedPicks   \* users type file:line into the file picker

ASSUME OpenDocumentsAssumption ==
  /\ NoFile \notin Files /\ Located \notin Files /\ NoFile # Located
  /\ MaxOpen \in Nat \ {0} /\ MaxPending \in Nat \ {0} /\ Batch \in Nat \ {0}
  /\ Windows \in BOOLEAN /\ LocatedPicks \in BOOLEAN

VARIABLES
  list,       \* DocumentManager.list
  disk,       \* the files that exist
  watched,    \* names registered with the file watcher
  wants,      \* the pending requests
  picker,     \* wants_file_picker
  overwrite,  \* file_picker_overwrite_warning
  panel,      \* the open panel of the workbench
  native,     \* native_file_picker: the dialog's thread is there
  stage,      \* the handler of the frame that runs next
  key,        \* the key this frame hands out
  keys,       \* keys this read of the terminal may still hold; -1 when past them
  drawn,      \* dialogs drawn in the last frame; of a question, about which document
  screen,     \* the questions the terminal shows
  moved       \* history: in this frame another document came to the front unasked

documents == <<list, disk, watched>>
requests == <<wants, picker, overwrite, panel>>
frame == <<stage, key, keys, drawn, screen, moved>>
vars == <<documents, requests, native, frame>>

Ids == 1 .. MaxOpen + 5
Questions == {"close", "reload"}
Dialogs == {"close", "reload", "picker", "overwrite", "panel"}
Flags == {"browse", "save", "close", "exit", "reload", "quit"}
Document ==
  [id : Ids, path : Files \cup {NoFile}, dirty : BOOLEAN,
   base : {"absent", "current", "old"}]

NoKey == [to |-> "none", press |-> "none", file |-> NoFile]

Init ==
  /\ list = <<[id |-> 1, path |-> NoFile, dirty |-> FALSE, base |-> "absent"]>>
  /\ disk \in SUBSET Files
  /\ watched = {} /\ wants = {} /\ picker = "none" /\ overwrite = NoFile
  /\ panel = "none" /\ native = FALSE /\ stage = "idle"
  /\ key = NoKey
  /\ keys = 0 /\ drawn = [d \in {} |-> 0] /\ screen = [d \in {} |-> 0]
  /\ moved = FALSE
-----------------------------------------------------------------------------
(* The document list. *)

Active == list[1]
ActiveId == IF list = <<>> THEN 0 ELSE Active.id
Paths(docs) == {docs[i].path : i \in DOMAIN docs} \ {NoFile}

(* Documents have counters of their own; a closed one's is used again here *)
(* as soon as nothing refers to it.                                        *)
InUse ==
  {list[i].id : i \in DOMAIN list}
  \cup {screen[d] : d \in DOMAIN screen} \cup {drawn[d] : d \in DOMAIN drawn}
NewId == CHOOSE id \in Ids \ InUse : \A other \in Ids \ InUse : id <= other

(* The file is as the document's baseline recorded it. *)
Unchanged(doc) == IF doc.base = "absent" THEN doc.path \notin disk ELSE doc.base = "current"

ToFront(i) ==
  <<list[i]>> \o RemoveAt(list, i)

WithActive(doc) == <<doc>> \o Tail(list)

(* An untitled document nobody has edited gives way to the file. *)
Pristine == list # <<>> /\ Active.path = NoFile /\ ~Active.dirty
Kept == IF Pristine THEN Tail(list) ELSE list

AddUntitled ==
  /\ Len(list) < MaxOpen
  /\ list' = <<[id |-> NewId, path |-> NoFile, dirty |-> FALSE, base |-> "absent"]>>
             \o list

(* An open file comes to the front; any other is read from the disk. *)
AddFilePath(f) ==
  IF f \in Paths(list)
  THEN \E i \in DOMAIN list : list[i].path = f /\ list' = ToFront(i)
  ELSE /\ Len(Kept) < MaxOpen
       /\ list' = <<[id |-> NewId, path |-> f, dirty |-> FALSE,
                     base |-> IF f \in disk THEN "current" ELSE "absent"]>>
                  \o Kept

RemoveActive ==
  /\ watched' = watched \ {Active.path}
  /\ list' = Tail(list)
-----------------------------------------------------------------------------
(* Frames.  Each handler hands over to the next one that has work. *)

Handlers == <<"poll", "palette", "menu", "editor", "close", "exit", "picker",
              "save", "reload", "panel", "hotkey">>

(* What is left to do after a step, for the key k of the frame. *)
Due(handler, k) ==
  \/ handler = "poll" /\ ("browse" \in wants' \/ native')
  \/ handler \in {"palette", "menu", "hotkey"} /\ k.to = handler
  \/ handler = "editor" /\ k.to = handler /\ list' # <<>>
  \/ handler \in {"close", "exit", "save", "reload"} /\ handler \in wants'
  \/ handler = "picker" /\ picker' # "none"
  \/ handler = "panel" /\ panel' # "none"

GoOn(from, k) ==
  LET later == {i \in from + 1 .. Len(Handlers) : Due(Handlers[i], k)}
  IN  stage' = IF later = {} THEN "idle"
               ELSE Handlers[CHOOSE i \in later : \A j \in later : i <= j]

At(handler) == stage = handler
Done(handler) ==
  /\ UNCHANGED <<keys, screen>>
  /\ \E i \in DOMAIN Handlers : Handlers[i] = handler /\ GoOn(i, key)
  /\ key' = IF stage' = "idle" THEN NoKey ELSE key

Draw(dialogs) ==
  drawn' = [d \in DOMAIN drawn \cup dialogs |->
              IF d \in dialogs \cap Questions THEN ActiveId
              ELSE IF d \in dialogs THEN 0 ELSE drawn[d]]

Pressed(to, press) == key.to = to /\ key.press = press

Commands == {"new", "open", "browse", "save", "saveAs", "reload", "close", "exit", "files"}
Key(to, presses, files) == [to : {to}, press : presses, file : files]

(* The menus leave out what needs a document, or a file, when there is none. *)
Offered ==
  Commands \ ((IF Windows THEN {} ELSE {"browse"})
    \cup (IF list = <<>> THEN {"save", "saveAs", "close"} ELSE {})
    \cup (IF list = <<>> \/ Active.path = NoFile THEN {"reload"} ELSE {}))

WindowKeys ==
  Key("editor", {"edit"}, {NoFile})
  \cup Key("menu", Offered \ {"files"}, {NoFile})
  \cup Key("hotkey",
           (Commands \ {"browse"}) \ (IF "reload" \in Offered THEN {} ELSE {"reload"}),
           {NoFile})

DialogKeys(dialog) ==
  CASE dialog = "close" -> Key("close", {"save", "discard", "cancel"}, {NoFile})
    [] dialog = "reload" -> Key("reload", {"reload", "cancel"}, {NoFile})
    [] dialog = "picker" -> Key("picker", {"choose"}, Files)
         \cup (IF LocatedPicks THEN Key("picker", {"locate"}, Files) ELSE {})
         \cup Key("picker", {"cancel"}, {NoFile})
    [] dialog = "overwrite" -> Key("overwrite", {"yes", "no"}, {NoFile})
    [] dialog = "panel" ->
         Key("panel", {"cancel"}, {NoFile})
         \cup (CASE panel = "commands" ->
                      Key("panel", IF Windows THEN Commands ELSE Commands \ {"browse"}, {NoFile})
                 [] panel = "files" ->
                      Key("panel", {"choose"}, Files) \cup Key("panel", {"activate"}, {NoFile})
                 [] panel = "diff" -> Key("panel", {"reload", "saveAs"}, {NoFile})
                 [] OTHER -> {})

Pending ==
  Cardinality(wants) + (IF picker = "none" THEN 0 ELSE 1) + (IF panel = "none" THEN 0 ELSE 1)

(* A key reaches a dialog of the last frame, which keeps it, or the window. *)
Reachable ==
  Key("palette", IF Pending < MaxPending THEN {"open"} ELSE {}, {NoFile})
  \cup (IF DOMAIN drawn = {} THEN WindowKeys
        ELSE UNION {DialogKeys(d) : d \in DOMAIN drawn})

(* A read of the terminal is a few keys, each with its frame, then a frame *)
(* without one.                                                            *)
Frame ==
  /\ stage = "idle"
  /\ \/ key' = NoKey /\ keys' = -1
     \/ keys > 0 /\ key' \in Reachable /\ keys' = keys - 1
  /\ drawn' = [d \in {} |-> 0]
  /\ moved' = FALSE
  /\ UNCHANGED <<documents, requests, native, screen>>
  /\ GoOn(0, key')

Render ==
  /\ stage = "idle" /\ keys = -1 /\ "quit" \notin wants
  /\ keys' = Batch /\ screen' = [d \in Questions \cap DOMAIN drawn |-> drawn[d]]
  /\ UNCHANGED <<documents, requests, native, stage, key, drawn, moved>>

Quit ==
  /\ stage = "idle" /\ keys = -1 /\ "quit" \in wants
  /\ stage' = "exited"
  /\ UNCHANGED <<documents, requests, native, key, keys, drawn, screen, moved>>
-----------------------------------------------------------------------------
(* native_open.rs, workbench::shortcuts, the menus and the editor. *)

(* The thread runs on its own and answers at any time; what it sent is     *)
(* opened wherever the editor is by then.  Opening fails when the file     *)
(* changes while it is read, and a cancelled dialog has no file.           *)
Poll ==
  /\ At("poll")
  /\ wants' = wants \ {"browse"}
  /\ \/ native' = (native \/ "browse" \in wants) /\ UNCHANGED <<documents, picker, overwrite, moved>>
     \/ native' = FALSE /\ UNCHANGED <<documents, picker, overwrite, moved>>
     \/ /\ native' = FALSE
        /\ \E f \in Files : AddFilePath(f) /\ watched' = watched \cup {f}
        /\ picker' = "none" /\ overwrite' = NoFile /\ moved' = TRUE
        /\ UNCHANGED disk
  /\ UNCHANGED <<panel, drawn>>
  /\ Done("poll")

Palette ==
  /\ At("palette")
  /\ panel' = "commands"
  /\ UNCHANGED <<documents, wants, picker, overwrite, native, drawn, moved>>
  /\ Done("palette")

(* A command of a menu, a shortcut or the palette; add_untitled may fail. *)
Request(command) ==
  /\ wants' = wants \cup ({command} \cap Flags)
  /\ picker' = IF command \in {"open", "saveAs"} THEN command ELSE picker
  /\ \/ command = "new" /\ AddUntitled
     \/ UNCHANGED list
  /\ UNCHANGED <<disk, watched, overwrite, native, drawn, moved>>

Menu ==
  /\ At("menu") /\ Request(key.press)
  /\ UNCHANGED panel
  /\ Done("menu")

Hotkey ==
  /\ At("hotkey") /\ Request(key.press)
  /\ panel' = IF key.press = "files" THEN "files" ELSE panel
  /\ Done("hotkey")

Edit ==
  /\ At("editor")
  /\ list' = WithActive([Active EXCEPT !.dirty = TRUE])
  /\ UNCHANGED <<disk, watched, requests, native, drawn, moved>>
  /\ Done("editor")
-----------------------------------------------------------------------------
(* draw_handle_wants_close and draw_handle_wants_exit. *)

CloseClean ==
  /\ At("close")
  /\ wants' = wants \ {"close"}
  /\ \/ list = <<>> /\ UNCHANGED <<list, watched, moved>>
     \/ list # <<>> /\ ~Active.dirty /\ RemoveActive /\ moved' = TRUE
  /\ UNCHANGED <<disk, picker, overwrite, panel, native, drawn>>
  /\ Done("close")

AskBeforeClose ==
  /\ At("close")
  /\ list # <<>> /\ Active.dirty
  /\ Draw({"close"})
  /\ \/ key.to # "close" /\ UNCHANGED <<list, watched, wants>>
     \/ Pressed("close", "save") /\ wants' = wants \cup {"save"} /\ UNCHANGED <<list, watched>>
     \/ Pressed("close", "discard") /\ wants' = wants \ {"close"} /\ RemoveActive
     \/ /\ Pressed("close", "cancel") /\ wants' = wants \ {"close", "exit"}
        /\ UNCHANGED <<list, watched>>
  /\ UNCHANGED <<disk, picker, overwrite, panel, native, moved>>
  /\ Done("close")

ExitPastFirst ==
  /\ At("exit")
  /\ \E n \in 0 .. Len(list) :
       /\ \A i \in 2 .. n : ~list[i].dirty
       /\ n < Len(list) => list[n + 1].dirty
       /\ list' = SubSeq(list, n + 1, Len(list))
       /\ watched' = watched \ {list[i].path : i \in 1 .. n}
       /\ moved' = (moved \/ n > 0)
       /\ wants' = wants \cup {IF n < Len(list) THEN "close" ELSE "quit"}
  /\ UNCHANGED <<disk, picker, overwrite, panel, native, drawn>>
  /\ Done("exit")

(* Clean documents are closed up to the first dirty one. *)
Exit ==
  /\ At("exit")
  /\ \E n \in 0 .. Len(list) :
       /\ \A i \in 1 .. n : ~list[i].dirty
       /\ n < Len(list) => list[n + 1].dirty
       /\ list' = SubSeq(list, n + 1, Len(list))
       /\ watched' = watched \ {list[i].path : i \in 1 .. n}
       /\ moved' = (moved \/ n > 0)
       /\ wants' = wants \cup {IF n < Len(list) THEN "close" ELSE "quit"}
  /\ UNCHANGED <<disk, picker, overwrite, panel, native, drawn>>
  /\ Done("exit")
-----------------------------------------------------------------------------
(* Saving: draw_handle_save, and the file picker as Save As. *)

SavedAs(doc, f) ==
  [doc EXCEPT !.path = f, !.dirty = FALSE, !.base = "current"]

(* A write that fails leaves the flags to be asked about again. *)
Save ==
  /\ At("save")
  /\ \/ /\ list = <<>> /\ wants' = wants \ {"save"}
        /\ UNCHANGED <<documents, picker, panel>>
     \/ /\ list # <<>> /\ Active.path = NoFile
        /\ picker' = "saveAs" /\ wants' = wants \ {"save"}
        /\ UNCHANGED <<documents, panel>>
     \/ /\ list # <<>> /\ Active.path # NoFile /\ Unchanged(Active)
        /\ wants' = wants \ {"save"}
        /\ list' = WithActive(SavedAs(Active, Active.path))
        /\ disk' = disk \cup {Active.path}
        /\ UNCHANGED <<watched, picker, panel>>
     \/ /\ list # <<>> /\ Active.path # NoFile /\ ~Unchanged(Active)
        /\ wants' = wants \ {"save", "close", "exit"}
        /\ panel' \in {"diff", panel}  \* too large to compare: no panel
        /\ UNCHANGED <<documents, picker>>
     \/ /\ list # <<>> /\ Active.path # NoFile
        /\ wants' = wants \ {"save"}
        /\ UNCHANGED <<documents, picker, panel>>
  /\ UNCHANGED <<overwrite, native, drawn, moved>>
  /\ Done("save")

OpenFurtherBack(f) == \E i \in 3 .. Len(list) : list[i].path = f

OpenElsewhere(f) ==
  \E i \in 2 .. Len(list) : list[i].path = f

SaveAndUnwatch(f) ==
  /\ (list # <<>> /\ f = Active.path) => Unchanged(Active)
  /\ IF list = <<>>
     THEN UNCHANGED documents
     ELSE /\ list' = WithActive(SavedAs(Active, f))
          /\ disk' = disk \cup {f}
          /\ watched' = (watched \cup {f}) \ {Active.path}

(* Save As onto the document's own file keeps its baseline; onto another   *)
(* file it takes the version that is there now.                            *)
SaveAndWatch(f) ==
  /\ (list # <<>> /\ f = Active.path) => Unchanged(Active)
  /\ IF list = <<>>
     THEN UNCHANGED documents
     ELSE /\ list' = WithActive(SavedAs(Active, f))
          /\ disk' = disk \cup {f}
          /\ watched' = (watched \ {Active.path}) \cup {f}

DoIt(f, name) ==
  IF picker = "open"
  THEN AddFilePath(f) /\ watched' = watched \cup {name} /\ UNCHANGED disk
  ELSE ~OpenElsewhere(f) /\ SaveAndWatch(f)

Warns(f) == picker = "saveAs" /\ ~OpenElsewhere(f) /\ f \in disk

Warning(f) == IF f = NoFile THEN {} ELSE {"overwrite"}

(* Nothing chosen, a document that cannot be opened or saved, or a no. *)
PickerStays ==
  /\ At("picker")
  /\ ~Pressed("picker", "cancel")
  /\ \/ /\ Pressed("picker", "choose") /\ Warns(key.file)
        /\ overwrite' = key.file
     \/ /\ ~(Pressed("picker", "choose") /\ Warns(key.file))
        /\ overwrite' = IF key.to = "overwrite" THEN NoFile ELSE overwrite
  /\ Draw({"picker"} \cup Warning(overwrite) \cup Warning(overwrite'))
  /\ UNCHANGED <<documents, wants, picker, panel, native, moved>>
  /\ Done("picker")

PickerDone ==
  /\ At("picker")
  /\ \/ Pressed("picker", "cancel") /\ UNCHANGED documents
     \/ Pressed("picker", "choose") /\ ~Warns(key.file) /\ DoIt(key.file, key.file)
     \/ Pressed("picker", "locate") /\ picker = "open" /\ DoIt(key.file, Located)
     \/ /\ Pressed("overwrite", "yes") /\ overwrite # NoFile
        /\ DoIt(overwrite, overwrite)
  /\ picker' = "none" /\ overwrite' = NoFile
  /\ Draw({"picker"} \cup Warning(overwrite))
  /\ UNCHANGED <<wants, panel, native, moved>>
  /\ Done("picker")
-----------------------------------------------------------------------------
(* draw_handle_wants_reload and the panels of the workbench. *)

ReadAgain ==
  /\ Active.path \in disk
  /\ list' = WithActive([Active EXCEPT !.dirty = FALSE, !.base = "current"])
  /\ watched' = watched \cup {Active.path}

(* The watcher's last word may be older than the file: a dialog about a    *)
(* change that is gone.  Reading fails when the file is missing or changes.*)
ReloadSilently ==
  /\ At("reload")
  /\ wants' = wants \ {"reload"}
  /\ \/ UNCHANGED <<list, watched>>
     \/ list # <<>> /\ ~Active.dirty /\ Unchanged(Active) /\ ReadAgain
  /\ list # <<>> => ~Active.dirty /\ (Active.path # NoFile => Unchanged(Active))
  /\ UNCHANGED <<disk, picker, overwrite, panel, native, drawn, moved>>
  /\ Done("reload")

AskBeforeReload ==
  /\ At("reload")
  /\ list # <<>> /\ (Active.dirty \/ Active.path # NoFile)
  /\ Draw({"reload"})
  /\ \/ key.to # "reload" /\ UNCHANGED <<list, watched, wants>>
     \/ Pressed("reload", "reload") /\ wants' = wants \ {"reload"} /\ ReadAgain
     \/ key.to = "reload" /\ wants' = wants \ {"reload"} /\ UNCHANGED <<list, watched>>
  /\ UNCHANGED <<disk, picker, overwrite, panel, native, moved>>
  /\ Done("reload")

DiffAnswered == panel = "diff" /\ key.to = "panel" /\ key.press \in {"reload", "saveAs"}

PanelDone ==
  /\ At("panel")
  /\ key.to = "panel"
  /\ Draw({"panel"})
  /\ \/ /\ (key.press = "cancel" \/ DiffAnswered)
        /\ panel' = "none"
        /\ wants' = wants \cup ({key.press} \cap {"reload"})
        /\ picker' = IF key.press = "saveAs" THEN "saveAs" ELSE picker
        /\ UNCHANGED documents
     \/ /\ panel = "files" /\ key.press = "choose"
        /\ AddFilePath(key.file)
        /\ watched' = watched \cup {key.file}
        /\ panel' = "none" /\ UNCHANGED <<disk, wants, picker>>
     \/ /\ panel = "files" /\ key.press = "activate"
        /\ \E i \in DOMAIN list : list[i].path = NoFile /\ list' = ToFront(i)
        /\ panel' = "none" /\ UNCHANGED <<disk, watched, wants, picker>>
  /\ UNCHANGED <<overwrite, native, moved>>
  /\ Done("panel")

PanelCommand ==
  /\ At("panel")
  /\ panel = "commands" /\ key.to = "panel" /\ key.press # "cancel"
  /\ panel' = IF key.press = "files" THEN "files" ELSE "none"
  /\ wants' = wants \cup ({key.press} \cap Flags)
  /\ picker' = IF key.press \in {"open", "saveAs"} THEN key.press ELSE picker
  /\ \/ key.press = "new" /\ AddUntitled
     \/ key.press # "new" /\ UNCHANGED list
  /\ Draw({"panel"})
  /\ UNCHANGED <<disk, watched, overwrite, native, moved>>
  /\ Done("panel")

(* No key for it, or a file that cannot be opened. *)
PanelStays ==
  /\ At("panel")
  /\ ~Pressed("panel", "cancel") /\ ~DiffAnswered
  /\ (panel = "commands" /\ key.to = "panel") => key.press = "new"
  /\ Draw({"panel"})
  /\ UNCHANGED <<documents, requests, native, moved>>
  /\ Done("panel")
-----------------------------------------------------------------------------
(* Beside the frames. *)

(* Another program writes or deletes a file. *)
OtherProgram ==
  /\ \E f \in Files :
       /\ \/ disk' = disk \cup {f}
          \/ f \in disk /\ disk' = disk \ {f}
       /\ list' = [i \in DOMAIN list |->
            IF list[i].path = f /\ list[i].base = "current"
            THEN [list[i] EXCEPT !.base = "old"] ELSE list[i]]
  /\ UNCHANGED <<watched, requests, native, frame>>

FrameStep ==
  \/ Frame \/ Poll \/ Palette \/ Menu \/ Edit \/ CloseClean \/ AskBeforeClose
  \/ Exit \/ PickerStays \/ PickerDone \/ Save \/ ReloadSilently
  \/ AskBeforeReload \/ PanelDone \/ PanelCommand \/ PanelStays \/ Hotkey
  \/ Render \/ Quit

Next == FrameStep \/ OtherProgram

Spec == Init /\ [][Next]_vars
-----------------------------------------------------------------------------
(* Properties. *)

(* The types of the state; the list never outgrows its bound, as bringing a *)
(* document to the front moves it.                                          *)
TypeOK ==
  /\ list \in Seq(Document) /\ Len(list) <= MaxOpen
  /\ disk \subseteq Files /\ watched \subseteq Files \cup {Located}
  /\ wants \subseteq Flags /\ picker \in {"none", "open", "saveAs"}
  /\ overwrite \in Files \cup {NoFile}
  /\ panel \in {"none", "commands", "files", "diff"}
  /\ native \in BOOLEAN
  /\ stage \in {"idle", "exited"} \cup {Handlers[i] : i \in DOMAIN Handlers}
  /\ key.file \in Files \cup {NoFile} /\ keys \in -1 .. Batch /\ moved \in BOOLEAN
  /\ \A shown \in {drawn, screen} : \A d \in DOMAIN shown : d \in Dialogs /\ shown[d] \in Ids \cup {0}

(* No two open documents have the same path: add_file_path brings an open  *)
(* file to the front, and Save As refuses a path that is open elsewhere.   *)
DistinctPaths ==
  /\ TypeOK
  /\ \A i, j \in DOMAIN list :
       list[i].path = list[j].path /\ list[i].path # NoFile => i = j

(* Every open document that has a path is registered with the watcher      *)
(* ("OGEdit monitors open files", README.md:79).                           *)
OpenFilesAreWatched == Paths(list) \subseteq watched

Stays(doc) == \E i \in DOMAIN list' : list'[i].id = doc.id
ReadOver(doc) ==
  stage = "reload" /\ \E i \in DOMAIN list' : list'[i].id = doc.id /\ ~list'[i].dirty
Asked(dialog, doc) == dialog \in DOMAIN screen /\ screen[dialog] = doc.id

(* Unsaved edits are closed or read over only when the terminal showed the *)
(* dialog about that very document, unless another document came to the    *)
(* front within the same frame.                                            *)
EditsGoWhenAsked ==
  [][\A i \in DOMAIN list : list[i].dirty /\ ~moved =>
       /\ ~Stays(list[i]) => Asked("close", list[i])
       /\ ReadOver(list[i]) => Asked("reload", list[i])]_vars

(* "Reload asks before discarding local edits" (docs/workbench.md:79): the *)
(* edits a reload reads over are those of the document it asked about.     *)
ReloadAsks ==
  [][\A i \in DOMAIN list : list[i].dirty /\ ReadOver(list[i]) => Asked("reload", list[i])]_vars
=============
