-------------------------------- MODULE Settings --------------------------------
(***************************************************************************)
(* state.json: the settings, shortcuts and recently opened files that the  *)
(* program keeps for itself.  Every change rewrites the whole file, from   *)
(* the memory of the instance that made it; a file nobody can parse is     *)
(* backed up before it is replaced.  Several instances, the user's own     *)
(* editor and crashes come between the steps of a save.                    *)
(*                                                                         *)
(* A file's content is a function from the fields it has to their values;  *)
(* what is no JSON has the field "garbage".  Of the settings, tab_size     *)
(* stands for all that are checked for their type and range.               *)
(***************************************************************************)
EXTENDS Integers, FiniteSets, SequencesExt

CONSTANTS
  Instances,
  Paths,       \* of recent files
  Identity,    \* of a path: the canonical path when the drive is attached
  Lossy,       \* of a path: how it is written in JSON
  Contents,    \* what the user may write into the file, each once
  Widths,      \* bound: tab sizes that are chosen
  MaxRecent,   \* of config.rs, 100
  MaxBackups,  \* of config.rs, 1000
  MaxChanges,  \* bound: changes of settings
  MaxWrites,   \* bound: contents the user writes
  MaxTime      \* bound: the clock

VARIABLES
  file,      \* state.json: none or its content
  backups,   \* state.json.backup, .backup.1, ...: none or [content, whole]
  config,    \* of an instance: none when it does not run
  saving,    \* of an instance: where its save is
  attached,  \* the drive on which paths have another name
  written,   \* history: what the user wrote
  changes,   \* history: the number of changes
  replaced   \* history: unparseable contents a save replaced, having read them

vars == <<file, backups, config, saving, attached, written, changes, replaced>>

(***************************************************************************)
(* Shortcuts.  A shortcut is written as its modifiers and then its key,    *)
(* each a word: <<"char", code>>, <<"f", number>> or <<"name", name>>.     *)
(***************************************************************************)
Modifiers == {"ctrl", "alt", "shift"}
Letters == 65 .. 90
Digits == 48 .. 57
Named == [space |-> 32, enter |-> 13, tab |-> 9, escape |-> 27, backspace |-> 8,
          delete |-> 46, insert |-> 45, home |-> 36, end |-> 35, pageup |-> 33,
          pagedown |-> 34, up |-> 38, down |-> 40, left |-> 37, right |-> 39]
Aliases == [return |-> "enter", esc |-> "escape", back |-> "backspace", del |-> "delete",
            ins |-> "insert", pgup |-> "pageup", pgdn |-> "pagedown"]

\* parse_key: the key a word names, if any; letters come in both cases.
ParseKey(word) ==
  CASE word[1] = "char" -> ({word[2], word[2] - 32} \cap Letters) \cup ({word[2]} \cap Digits)
    [] word[1] = "f" -> IF word[2] \in 1 .. 24 THEN {111 + word[2]} ELSE {}
    [] word[1] = "name" ->
         {Named[n] : n \in {m \in DOMAIN Named :
                              m = word[2] \/ (word[2] \in DOMAIN Aliases /\ m = Aliases[word[2]])}}

\* parse_hotkey: no modifier twice; what a terminal reports as text needs Ctrl or Alt.
ParseHotkey(words) ==
  LET n == Len(words)
      modifiers == {words[i] : i \in 1 .. n - 1}
      printable == {Named.space} \cup Digits \cup Letters
  IN IF n = 0 \/ ~(modifiers \subseteq Modifiers)
        \/ \E i, j \in 1 .. n - 1 : i # j /\ words[i] = words[j]
     THEN {}
     ELSE {[key |-> key, modifiers |-> modifiers] :
             key \in {k \in ParseKey(words[n]) :
                        k \in printable => modifiers \cap {"ctrl", "alt"} # {}}}

KeyToString(key) ==
  CASE key \in Letters \cup Digits -> <<"char", key>>
    [] key \in 112 .. 135 -> <<"f", key - 111>>
    [] key \in {Named[n] : n \in DOMAIN Named} -> <<"name", CHOOSE n \in DOMAIN Named : Named[n] = key>>
    [] OTHER -> <<"hex", key>>

HotkeyToString(hotkey) ==
  SelectSeq(<<"ctrl", "alt", "shift">>, LAMBDA m : m \in hotkey.modifiers)
    \o <<KeyToString(hotkey.key)>>

(***************************************************************************)
(* Recently opened files: [path, opened_at], the newest first.             *)
(***************************************************************************)
\* recent_file_path: canonicalize, or the path as it is.
Resolved(path, there) == IF there THEN Identity[path] ELSE path

Without(recent, path) == SelectSeq(recent, LAMBDA r : r.path # path)
Bounded(recent) == SubSeq(recent, 1, IF Len(recent) > MaxRecent THEN MaxRecent ELSE Len(recent))

\* normalize_recent_files: a stable sort by time, then no path twice, then the limit.
Normalized(recent, there) ==
  LET Before(i, j) == recent[i].opened_at > recent[j].opened_at
                        \/ (recent[i].opened_at = recent[j].opened_at /\ i < j)
      Path(i) == Resolved(recent[i].path, there)
      kept == {i \in DOMAIN recent : \A j \in DOMAIN recent : Before(j, i) => Path(j) # Path(i)}
      order == SetToSortSeq(kept, Before)
  IN Bounded([n \in DOMAIN order |-> [recent[order[n]] EXCEPT !.path = Path(order[n])]])

\* record_recent_file: to the front, and not older than what was in front before.
Recorded(recent, path, now, there) ==
  LET before == Normalized(recent, there)
      first == IF before = <<>> THEN 0 ELSE before[1].opened_at
      entry == [path |-> Resolved(path, there), opened_at |-> IF first > now THEN first ELSE now]
  IN Bounded(<<entry>> \o Without(before, entry.path))

(***************************************************************************)
(* The file.                                                               *)
(***************************************************************************)
Default == [tab_size |-> 4, edit_find |-> [key |-> 70, modifiers |-> {"ctrl"}], recent_files |-> <<>>]

\* parse: all or nothing, except that a shortcut that is no good leaves the default.
Parse(content, there) ==
  LET Has(field) == field \in DOMAIN content
      hotkey == IF Has("edit_find") THEN ParseHotkey(content.edit_find) ELSE {}
      named == IF Has("recent_files")
               THEN SelectSeq(content.recent_files, LAMBDA r : r.path # "") ELSE <<>>
  IN IF Has("garbage") \/ (Has("tab_size") /\ content.tab_size \notin 1 .. 8) THEN {}
     ELSE {[tab_size |-> IF Has("tab_size") THEN content.tab_size ELSE Default.tab_size,
            edit_find |-> IF hotkey = {} THEN Default.edit_find ELSE CHOOSE k \in hotkey : TRUE,
            recent_files |-> Normalized(named, there)]}

ToJson(c) ==
  [tab_size |-> c.tab_size, edit_find |-> HotkeyToString(c.edit_find),
   recent_files |-> [i \in DOMAIN c.recent_files |->
                       [c.recent_files[i] EXCEPT !.path = Lossy[@]]]]

(***************************************************************************)
(* Instances.                                                              *)
(***************************************************************************)
Idle == [step |-> "idle", content |-> {}, index |-> 0]
At(i, step) == config[i] # {} /\ saving[i].step = step
Goto(i, step) == saving' = [saving EXCEPT ![i].step = step]
Done(i) == saving' = [saving EXCEPT ![i] = Idle]

Init ==
  /\ file = {} /\ backups = [k \in 0 .. MaxBackups - 1 |-> {}]
  /\ config = [i \in Instances |-> {}] /\ saving = [i \in Instances |-> Idle]
  /\ attached \in BOOLEAN /\ written = {} /\ changes = 0 /\ replaced = {}

\* Config::load; a file that cannot be read gives the defaults, one that cannot be parsed
\* is replaced by them.
Load(i) ==
  /\ config[i] = {}
  /\ LET parsed == UNION {Parse(c, attached) : c \in file}
     IN \/ /\ config' = [config EXCEPT ![i] = IF parsed = {} THEN {Default} ELSE parsed]
           /\ IF file # {} /\ parsed = {} THEN Goto(i, "read") ELSE UNCHANGED saving
        \/ file # {} /\ config' = [config EXCEPT ![i] = {Default}] /\ UNCHANGED saving
  /\ UNCHANGED <<file, backups, attached, written, changes, replaced>>

\* A change of the settings, which begins a save.
Change(i, new) ==
  /\ At(i, "idle") /\ changes < MaxChanges
  /\ config' = [config EXCEPT ![i] = {new}] /\ changes' = changes + 1
  /\ Goto(i, "read")
  /\ UNCHANGED <<file, backups, attached, written, replaced>>

SetTabSize(i) ==
  \E c \in config[i], n \in Widths : n # c.tab_size /\ Change(i, [c EXCEPT !.tab_size = n])

\* add_recent_file; the clock may have gone back.
AddRecentFile(i) ==
  \E c \in config[i], path \in Paths, now \in 0 .. MaxTime :
    Change(i, [c EXCEPT !.recent_files = Recorded(@, path, now, attached)])

\* save_to_path: the file as it is now decides whether a backup is made.
Read(i) ==
  /\ At(i, "read")
  /\ \/ LET damaged == {c \in file : Parse(c, attached) = {}}
        IN saving' = [saving EXCEPT ![i] =
             [step |-> IF damaged = {} THEN "write" ELSE "backup", content |-> damaged, index |-> 0]]
     \/ file # {} /\ Done(i)   \* it cannot be read
  /\ UNCHANGED <<file, backups, config, attached, written, changes, replaced>>

\* Mutant: the first backup is opened whether or not it is there.
CreateBackupAnyway(i) ==
  /\ At(i, "backup")
  /\ backups' = [backups EXCEPT ![0] = {[content |-> {}, whole |-> FALSE]}] /\ Goto(i, "fill")
  /\ UNCHANGED <<file, config, attached, written, changes, replaced>>

\* preserve_corrupt_config: create_new takes the first name that is free.
CreateBackup(i) ==
  /\ At(i, "backup")
  /\ \/ /\ backups[saving[i].index] = {}
        /\ backups' = [backups EXCEPT ![saving[i].index] = {[content |-> {}, whole |-> FALSE]}]
        /\ Goto(i, "fill")
     \/ /\ backups[saving[i].index] # {}
        /\ IF saving[i].index + 1 < MaxBackups
           THEN saving' = [saving EXCEPT ![i].index = @ + 1] ELSE Done(i)
        /\ UNCHANGED backups
     \/ Done(i) /\ UNCHANGED backups   \* it cannot be created
  /\ UNCHANGED <<file, config, attached, written, changes, replaced>>

FillBackup(i) ==
  /\ At(i, "fill")
  /\ \/ /\ backups' = [backups EXCEPT ![saving[i].index] =
                         {[content |-> saving[i].content, whole |-> TRUE]}]
        /\ Goto(i, "write")
     \/ backups' = [backups EXCEPT ![saving[i].index] = {}] /\ Done(i)
  /\ UNCHANGED <<file, config, attached, written, changes, replaced>>

\* The file is replaced in one step, or not at all.
Write(i) ==
  /\ At(i, "write") /\ Done(i)
  /\ \/ /\ file' = {ToJson(c) : c \in config[i]}
        /\ replaced' = replaced \cup (file \cap saving[i].content)
     \/ UNCHANGED <<file, replaced>>
  /\ UNCHANGED <<backups, config, attached, written, changes>>

\* The instance ends, at whatever step.
Stop(i) ==
  /\ config[i] # {}
  /\ config' = [config EXCEPT ![i] = {}] /\ Done(i)
  /\ UNCHANGED <<file, backups, attached, written, changes, replaced>>

UserWrites ==
  /\ Cardinality(written) < MaxWrites
  /\ \E c \in Contents \ written : file' = {c} /\ written' = written \cup {c}
  /\ UNCHANGED <<backups, config, saving, attached, changes, replaced>>

\* The drive is there from now on.
Attach ==
  /\ ~attached /\ attached' = TRUE
  /\ UNCHANGED <<file, backups, config, saving, written, changes, replaced>>

Next ==
  \/ \E i \in Instances : \/ Load(i) \/ SetTabSize(i) \/ AddRecentFile(i) \/ Read(i)
                          \/ CreateBackup(i) \/ FillBackup(i) \/ Write(i) \/ Stop(i)
  \/ UserWrites \/ Attach

Spec == Init /\ [][Next]_vars

-----------------------------------------------------------------------------
\* Settings the program cannot understand are never lost through it: what a save replaced,
\* having found it unparseable, is complete in a backup, however many saves of however many
\* instances came together, and wherever one of them ended.
DamagedIsKept ==
  \A c \in replaced : \E k \in DOMAIN backups : backups[k] = {[content |-> {c}, whole |-> TRUE]}

\* What was saved comes back: the settings, the shortcuts and the recent files, in the same
\* order, with or without the drive, but for doubles that its coming reveals and for names
\* that JSON cannot hold.  The list is ordered by time and within its limit all along, and
\* no file stands in it twice.
SettingsReturn ==
  \A i \in Instances : \A c \in config[i], there \in BOOLEAN :
    LET Name(r) == Resolved(Lossy[r.path], there)
        list == c.recent_files
        distinct == \A k, m \in DOMAIN list : Name(list[k]) = Name(list[m]) => k = m
    IN /\ Len(list) <= MaxRecent
       /\ \A k, m \in DOMAIN list : k < m => list[k].opened_at >= list[m].opened_at
                                              /\ list[k].path # list[m].path
       /\ \E back \in Parse(ToJson(c), there) :
            /\ back.tab_size = c.tab_size /\ back.edit_find = c.edit_find
            /\ {Name(list[k]) : k \in DOMAIN list}
                 = {back.recent_files[k].path : k \in DOMAIN back.recent_files}
            /\ list # <<>> => back.recent_files[1].path = Name(list[1])
            /\ distinct => back.recent_files = [k \in DOMAIN list |-> [list[k] EXCEPT !.path = Name(list[k])]]

\* Every shortcut that can be configured is written so that it is understood again.
ShortcutsReturn ==
  LET words == {<<"char", c>> : c \in 32 .. 122} \cup {<<"f", n>> : n \in 0 .. 25}
                 \cup {<<"name", n>> : n \in DOMAIN Named \cup DOMAIN Aliases}
      orders == UNION {[1 .. n -> Modifiers] : n \in 0 .. 2}
  IN \A word \in words, order \in orders : \A hotkey \in ParseHotkey(order \o <<word>>) :
       ParseHotkey(HotkeyToString(hotkey)) = {hotkey}
=============================================================================
