# Verification of ogedit

ogedit is a terminal text editor (Rust).  This directory holds TLA+ models of what
decides whether a user's text survives and whether a command does what it says: the gap
buffer and its readers, undo and the dirty flag, editing with several carets, search and
macros, saving, recovery and the open documents, the threads and watchers behind the
interface, the terminal's input and output, settings and data views; the TLC runs that
check them; and proofs, checked by TLAPS, of the properties that matter most.

Line numbers below are those of the files under `src/src/`; `mod.rs` is `buffer/mod.rs`,
and names without a directory are files of `bin/edit/` where both exist.

## Inventory

Library (`src/src/`):

| component | state | operations | what is hard | what makes it correct |
|---|---|---|---|---|
| gap buffer (`buffer/gap_buffer.rs`) | memory, gap, lengths, generation and its counter | replace, allocate and commit a gap, clear, reserve, rewind the generation, chunked reads | overlapping moves, refused memory, capacity, wrap | the text is exactly what was written; readers see it and progress |
| undo history (`buffer/mod.rs`) | undo and redo stacks, open group, save mark | edit sessions, groups, undo, redo, load, save mark | coalescing, groups nested in commands and macros, rollback, trimming, branches | undo and redo restore whole versions; clean means saved |
| editing (`buffer/mod.rs`, `buffer/navigation.rs`) | cursor, primary and further selections, rectangle | moves, selections, typing, indenting, line commands, cut and paste | ranges that meet, move and merge while they are written | each caret writes in its own place; what is cut can be pasted |
| search (`buffer/mod.rs`, `icu.rs`) | compiled pattern, ICU's pieces of the text, place to go on | find, replace, replace all | caches over a text that is edited in between | a hit is in the text as it is now; each is replaced once |
| terminal input (`vt.rs`, `input.rs`, `sys/*`) | parser states, partial bytes | parse a read, time out | input split anywhere, the Escape time-out | what is understood does not depend on the split |
| framebuffer (`framebuffer.rs`) | two frames, two palettes of cells | draw, flip, diff | wide glyphs cut, styles blended, resizes | the terminal shows the frame |
| user interface (`tui.rs`) | node tree, focus, text areas | one frame | layout on too small a screen, settling | everything has its place; keys do what is recorded for them |
| arenas (`arena/*`) | offset, commit, open scopes | allocate, grow, shrink, open and drop a scope | nesting of scopes over two scratch arenas | no live allocation is reused |
| text services (`unicode/*`, `simd/*`, `syntax.rs`, `fuzzy.rs`) | none | decode, measure, highlight, rank | malformed text | all readers agree where a character ends |
| clipboard (`clipboard.rs`) | text, fragments, line flag | read, write | a host clipboard beside it | pastes go where they were cut |

Program (`src/src/bin/edit/`):

| component | state | operations | what is hard | what makes it correct |
|---|---|---|---|---|
| safe save (`safe_save.rs`) | staging file | stage, check, preserve, recheck, rename, verify | other programs between any two calls, errors at each, crash | never truncates, never destroys a version nobody saw |
| documents (`documents.rs`) | list of documents: buffer, path, disk version, recovery id | open, save, reload, close, checkpoint, restore | identity of a file, versions read around the bytes | clean and unchanged on disk means equal |
| recovery (`recovery.rs`) | session directory, lease and its lock, snapshots, offers | start, checkpoint, restore, discard, drop | many instances, crashes between calls, stale handles | checkpointed work is never lost nor offered twice |
| file watcher, disk status (`watch.rs`, `documents.rs:166`) | queue, overflow flag, stamps, probe | callback, poll, probe slice | bounded queue, slices of a changing file | a lasting change is reported |
| main loop and dialogs (`main.rs`, `state.rs`, `draw_*.rs`, `native_*.rs`) | wants-flags, active document | frames, dialogs, exit | a flag set for one document and served for another | nothing dirty is closed unasked |
| macros and shortcuts (`macros.rs`, `shortcuts.rs`) | recording, library, key bindings | record, stop, replay, bind | an input that changes what it is recorded for | a macro is what ran; replay does it again, all or nothing |
| workbench (`workbench.rs`, `palette.rs`) | panel and its data, workers | open, answer, close, poll | panels over documents that change, workers nobody listens to | a panel shows what it says |
| workspace search (`workspace_search.rs`) | task, permits, cancel flag | start, cancel, finish, replace hits | superseded results | results belong to the query; permits return |
| data lens (`data_lens.rs`) | parsed cells with places | parse, edit a cell | places that an edit moves | an edit changes its cell alone |
| settings (`config.rs`, `settings.rs`) | values, recent files, rules | load, change, save, back up, reload | several instances and the user on one file, damage, crashes | damaged files are kept, settings come back |
| localisation, logging, paths, hashing | none | | | left aside |

The interface thread owns all of it: one loop iteration reads input, draws (which runs
the commands), polls the watcher, the workers and the recovery timer, and sends the diff
of two frames to the terminal.  The concurrent actors are other programs on the same
files, other instances on the same recovery and settings files, the watcher's callback,
search and discovery threads, the native dialog's thread, and crashes.  A save calls the
text buffer (which streams to the staging file), then records the disk version, marks the
buffer saved and gives up the snapshot.  Undo, save mark and status meet in one comparison
of generations (`is_dirty`); search, ICU's text and the selection meet in two more.

## Modules

| module | models | kind |
|---|---|---|
| `Splicing` | replace and extract on the contents as a sequence | operators |
| `GapBuffer` | `buffer/gap_buffer.rs` | component |
| `UndoHistory` | the history and stamps of `mod.rs`, with replay's rollback in `macros.rs` | component, over `Splicing` |
| `VersionLine` | what an undo history promises its user | abstract specification |
| `UndoHistoryMC` | the refinement mapping of `UndoHistory` to `VersionLine`, checked in a run and proved in `UndoHistory_proofs` | MC |
| `Editing` | the editing commands of `mod.rs` and `navigation.rs` on one record | operators, over `Splicing` |
| `Textarea` | keys and mouse of `tui.rs`'s text area, shortcuts, and the command recorded for each | operators, over `Editing` |
| `MacroReplay` | an editor under keys and mouse beside the replay of its commands | component, over `Textarea` |
| `SearchState`, `Searching` | the state of a search and what it owes; find and replace of `mod.rs`, `Regex` of `icu.rs` | component |
| `Utf8`, `NativeText` | `unicode/utf8.rs`; the `UText` of `icu.rs` over a gap buffer | operators |
| `ArenaState`, `Arena` | the state of the scratch arenas; the steps of `arena/release.rs`, `scratch.rs`, `debug.rs` | component |
| `EngineMC` | gap buffer (release and debug), `MacroReplay`, `Searching` with `NativeText`, `Arena` in one run | MC |
| `SafeSave` | `Document::save` and `reread`, `safe_save.rs`, other programs | component |
| `RecoverySessions` | `recovery.rs` and its callers across instances | component |
| `StorageMC` | both in one run | MC |
| `DiskStatusState`, `DiskStatus` | `watch.rs`, `Document::disk_status`, the poll of the main loop: the state, with what must hold of it, and the steps | component |
| `BackgroundMC` | `DiskStatus`, and `RecoverySessions` with its window at start-up, in one run | MC |
| `Checkpoints` | `checkpoint_recovery` over the document list, `clear_recovery` | component |
| `OpenDocuments` | the document list, the requests and dialogs of a frame, the native dialog | composition of `documents.rs`, `main.rs`, `draw_*.rs`, `native_*.rs`, `workbench.rs` |
| `Workbench` | panels, `workspace_search.rs`, discovery for the palette | component |
| `MacroRecorder` | the recorder in `main.rs`, `MacroStore` | component |
| `TerminalInput` | `read_stdin`, `vt.rs`, `input.rs`, `setup_terminal` | component |
| `Framebuffer`, `Layout` | `framebuffer.rs`; the layout passes and the scroll bar of `tui.rs` | component; operators |
| `DataLens` | `data_lens.rs` | operators |
| `Settings`, `Associations` | `config.rs` with `shortcuts.rs`; `settings.rs` | components |
| `Tools` | `Workbench`, `MacroRecorder`, `Settings` and `Associations` side by side, with their properties | composition |
| `ApplicationMC` | `TerminalInput`, `Tools`, `Framebuffer`, `Layout` and `DataLens` in one run | MC |
| `OpenDocumentsMC`, `RecoverySessionsMC`, `SearchingMC` | constants of further runs | MC |
| `Splicing_proofs`, `UndoHistory_proofs`, `RecoverySessions_proofs`, `OpenDocuments_proofs` | theorems about the module of that name | proofs |
| `Engine_proofs` | theorems about `GapBuffer`, `Arena` and `Searching` | proofs |
| `Editing_proofs` | theorems about the editor of `MacroReplay` | proofs |
| `Storage_proofs` | theorems about `SafeSave` and about `StorageMC` | proofs |
| `Services_proofs` | theorems about `Checkpoints`, `DiskStatus` and `Tools` | proofs |

`EngineMC`, `StorageMC`, `BackgroundMC`, `Tools` and `ApplicationMC` put components side by side
whose code does not interact: a behaviour picks a `part` and runs it, the others rest in
an initial state, and every property names the part it speaks of, or speaks of the state
of one part only.  Where components do
interact, one module models both sides (`OpenDocuments`, `Checkpoints`, `DiskStatus`,
`Workbench`, `TerminalInput`) or the modules are chained by what one proves and the next
assumes: `UndoHistory`, `Editing` and `Searching` work on the text as a sequence, and that
the gap buffer behaves as that sequence under `Splice` is `GapBuffer!ContentsExact`,
proved; `SafeSave` works on whole texts with a dirty flag that may be set without need but
is never clear wrongly, which is `UndoHistory!CleanMeansSaved`, proved; `Workbench` and
`Checkpoints` compare revisions as stamps of texts, which is `ChangesAreStamped`, proved.

### GapBuffer

`buf` is the struct; memory is a function from committed addresses to bytes.  Private
methods (`MoveGap`, `DeleteText`, `EnlargeGap`, `ReserveInsert`, `AllocateGap`,
`CommitGap`, `Replace`) are operators on it; public ones are actions.  `oracle` is the
text the callers expect.  `grants` chooses whether the system commits memory.  A caller
that is lent the gap fills and commits it before anything else runs (all callers in
`buffer/mod.rs` do); how many bytes the loaders put in is free.  `copy_from` bumps the
generation twice, so stamps within `MaxRewind + 2` of each other must differ.

### UndoHistory

An entry is one byte replacement; its auxiliary field `other` records the text on the
other side and is read by properties only.  One action per edit session, per group call,
and per iteration of `undo_redo`'s loop, so that properties hold in the middle of a walk.
Cursor positions are inputs, except where coalescing reads them.  Stamps are naturals:
fewer than 2^32 edits.

### SafeSave

One action per look at or change of the disk.  `Overwrite` and `Remove` are other
programs.  A `DiskVersion` is text (the hash: no collisions) and stamp (time, length,
identity); a program may rewrite a file under the same stamp once per stamp, since a
second rewrite could restore text and stamp exactly, which no check of the code can see
(docs/memory-audit.md:174 states the limit).  A version is read in one step: the code
rereads the metadata afterwards and fails if it moved (`Fail`).  The user interface runs
an operation to its end, so no edit happens inside one.  `CleanMatchesBaseline` excludes
documents without a baseline: a file that appears and disappears again between the two
version reads of a load leaves its bytes in a document that has none.

### RecoverySessions

A session is named by its instance (names are unique); `lock[s]` is the lock of the one
lease file it ever had, so a handle opened before the file was unlinked still locks it.
`owed` is the work that was checkpointed and not saved, closed or discarded.  `Overtaking`
says whether another instance may get between creating a lease and locking it.  It does
in reality: the run `recovery_race` shows what follows, and the other properties of
sessions hold only without it or are checked with it: `NothingLost` without,
`OffersAreExclusive` and `StartupsEnd` with it.

### Checkpoints

One action per document of `checkpoint_recovery`, between which the process may end; the
user acts between two checkpoints.  A content is a text and a format (encoding and newline
style); `Version` is what the code compares, a revision and the format.  `warned` holds
the documents the user was told of.  Every write and removal may fail; a write that fails
leaves the old snapshot, so the failure of the directory's sync after the rename is left
out.  `Unrecordable` documents fail every time: those whose path is not UTF-8, which the
metadata cannot hold.  Restoring (which checkpoints all documents) is in
`RecoverySessions`.

### OpenDocuments

`stage` walks the handlers of `draw()` in their order, skipping those with nothing to do;
`key` is the one key a frame hands out.  A key goes to a dialog drawn in the last frame
(modal), otherwise to the menus, the shortcuts or the editor.  `drawn` collects the
dialogs of a frame and, of a question, the document it was about; `screen` is what the
terminal got at the last `Render`.  `wants` holds the flags of `State`; `Pending` bounds
how many are up when a key adds one.  `base` compares a document's disk version with the
file: `absent`, `current` or `old`.  Left out: the text (a document is dirty or not, and
becomes clean by saving or reloading only: undoing to the saved version is in
`UndoHistory`), deduplication by file identity (hard links), untitled names, writes that
leave size, time and identity alone (`SafeSave`), the panels that do not change the list.
The native dialog's thread is a
flag: its answer may have come by any poll, and is a failure or any file.
`moved` is a history flag for the one exception of `EditsGoWhenAsked`: in this frame
another document came to the front unasked, because the native dialog's file did (what
`documents_reload` shows), a clean document was closed, or an exit closed clean ones.  In
every other frame the edits closed or read over are those of the document the terminal
showed the question about.  Keys typed ahead, more than one to a read, answer dialogs that were drawn and
never rendered; the runs take one key to a read (`Batch = 1`).

### Editing, Textarea, MacroReplay

A buffer is one record: text, cursor, primary selection (two points), further selections
(pairs of offsets), rectangle, overtype; each operation of `mod.rs` is an operator from
record to record, so that a multi-step command (`CutCopy` widens, extracts, deletes and
joins) composes them in the code's order.  `JoinRange` is the merging in
`set_selection_ranges`, which every operation with several carets ends in.  `Textarea`
adds the column vertical movement aims for and maps each key to what
`textarea_handle_input` does (`KeyPressed`) and to the command `macros.rs` records for it
(`CommandOf`); `Apply` is that command's replay.  `MacroReplay` lets a user press any of
them, drag the mouse over text and gutter, and paste from a clipboard.  `ReplayFollows`
compares the two paths from every reachable buffer in which a key can be pressed (a refused
edit, `full`, is reported first) and pastes what it cuts; `Apart` and `Adrift` name the
cases in which key and replay differ (see Findings).  Graphemes are one column wide, lines end in one newline,
wrapping is off.

### SearchState, Searching, Utf8, NativeText

`search` is `ActiveSearch`: the pattern, the text as the regex sees it (`seen`), the place
it goes on from, whether the selection is still its hit (`ours`) and whether it is fresh
(`AfterChange` forgets when `content_revision` moves).  Find, Replace and Replace All are
actions; typing, moving, selecting and undo come in between.  ICU is external: `FirstHit`
is what `uregex_findNext` promises for the patterns used.  `NativeText` is the `UText` with
its two cached pieces, `Access` one call of `utext_access_impl`; `Utf8` is
`Utf8Chars::next_slow`.  Three tables are functions of their input and are compared with a
definition in the initial state (`TextIsSearched`): `ReplacesEach` and `ReplacementIsRead` (Replace All and
the parsing of a replacement), `AccessIsRight` (every text of up to four characters, any
gap, any index, also with pieces left from another text of the same generation) and `DecodesRight` with
`LastAgrees` (every string of up to four of fourteen boundary bytes).

### Arena

`arenas` is the thread's pool of two: offset, committed size, bytes, and for each open scope
the offset it goes back to.  `live` holds the allocations in use, each with a value its owner
wrote into all of its bytes.  `AllocRaw` is `alloc_raw` with `alloc_raw_bump` (alignment of
the address, capacity, the system's refusal, what a debug build scribbles); `Open` and
`Drop` are a scope's beginning and end, `Grow` and `Shrink` what a vector does with its
allocation.  `MayUse` is the assertion that no newer scope is open: where it fails, or memory
runs out, the program panics and no step follows.  Closing a scope takes its allocations out
of `live`, as lifetimes do.  `AllocationsHold` reads the bytes back: no other allocation,
closing scope or scribbling got at them.  Arenas owned by one user without scopes, and
alignments that are no power of two (refused), are left out.

### DiskStatus

`Write` is another program; the system reports it through `Callback`, which fills the
bounded `queue` or raises `overflow`, and may lose the report (`Lose`).  The interface
thread is a program counter: poll, drain, look at metadata (`Inner.files` is `seen`), ask
for the status, read slices of the probe, verify.  A version is a stamp (time, length and
identity) and a sequence of slices.  `unseen` is a history flag: the callback was told of
a change nobody has looked at.  `SettledStatusIsRight` says that when the file is left
alone the indicator ends up telling whether file and document differ.

### Workbench

`panel` with the data it works on: `search` (the worker's state: what is left to visit,
copies of open documents, hits, cancel flag), `channel` (its report), `report`, `pending`
(a hit being edited), `lens` (a data view).  `leaving` counts workers that were cancelled
and still hold a permit; `indexing` is discovery for the palette.  `SearchCopy`,
`SearchFile`, `SendReport` are the search thread; `TakeReport` is the poll between two
frames.  A text is one line, so a hit is a path with a text and a revision (none for
files).  `ReportIsHonest` relates the shown hits to the query in the fields, to what was
searched and to the truncation mark; `PanelHasItsData` says that no panel is open without
its data, whatever way led there.

### MacroRecorder

`Pass(i)` is one iteration of the loop with input `i`: the decision before dispatch, the
dispatch, and the decision after it; `HoldBack` is the one that stops at the first.
A command is its length, for the limits on text and count.  The history `ran` is all that was
run on a document while a recording goes on: `ByEditor(c)` by the editor the key was for,
`Elsewhere` by the find bar, the next-hit key, the menus, a panel's command, a click that
leaves the find bar, or on a document that came to the front in the same frame.  `library` is
the saved macros, each with that history.  `SavedIsWhatRan` says that a macro is the
editor's part of it, in order; `NoHoles`, that nothing from elsewhere stands between two of
its commands, which is what the documentation promises and the run `macro_holes` refutes.
Replaying a macro while recording is refused by `MacroStore`, and only closes the panel
(`Replay`).

### TerminalInput

`transit` is what the terminal sent and nobody read; `ReadStdin(n)` takes any number of
bytes and runs `read_stdin`'s character splitting, `vt::Stream::next` (`StepVt`) and
`input::Stream::next` to the end of the read, byte by byte; `ReadNothing` is a time-out.
At set-up the same parser reads the answers to the questions sent.  `Meaning` is what the
user did, gesture by gesture.  `Disturbed = FALSE`: the window is not resized while a
sequence is under way, since an interrupted read counts as a time-out (see Findings).

### Framebuffer, Layout

`drawn` and `rendered` are the two buffers; `canvas` holds the same drawing done cell by
cell by definition; `screen` is the terminal, which interprets what `Render` sends: cursor
moves, pen changes and glyphs.  `Resize` leaves it with unknown cells.  `FrameIsShown`
compares screen and canvas after each frame.  `Layout` computes sizes from the leaves and
rectangles from the root, as `tui.rs` does; its properties are checked over trees with a
stack, a table or a scroll area, every border, padding and position, four screens from
1×1 to 9×9, scrolled or not, floating or not, and over all scroll bars of up to 5 rows.

### DataLens

`ParseCsv`, `ParseLog`, `ParseJson` give rows of cells with the places they came from;
`Edited` is an edit of one cell, refused or made.  The run appends signs to a source one by
one and asks in each state that every edit of every cell, read back, changes that cell and
no other (`ChangesOneCell`, in `WrittenReadsBack` with what settings and shortcuts read
back).  The csv and JSON readers of the libraries are modelled by what they return.

### Settings, Associations

A save is four steps that other instances, the user's editor and a crash come between:
read the old file, create a backup under a free name, fill it, replace the file.  A content
is a function from the fields present; one with the field "garbage" cannot be parsed.
`replaced` remembers what saves replaced, having found it damaged.  Recent files have a
path, its canonical form while the drive is attached, and the form JSON can hold.
`Associations` keeps the rules of `settings.json` and the index remembered for a path.

## Runs

| run | bounds | shows |
|---|---|---|
| `undo` | 2 characters (one the newline), capacity 2, history 2, 3 edits, nesting 2 | types, clean means saved, every entry reversible, stamps ordered, history bounded, rollback exact, implements `VersionLine` |
| `text_engine` | release: reservation 3, one-byte chunks, virtual memory; debug: capacity 4, two-byte chunks, heap, scribbling; 4 generations, 6 texts of length 0 to 5. Editor: texts of up to 2 characters from a letter, space and newline, 3 carets, tab size 2, 3 clipboards. Search: texts of up to 2 of 2 letters, 5 patterns, 2 replacements. Arenas: 4 bytes, 2 to a chunk, odd base, 2 allocations, 2 scopes, scribbling | addresses committed, contents and reads exact, changes stamped; carets write at once, what is cut is pasted, replay follows the keys; hits are there (`FoundIsThere`), text is read and replaced right (`TextIsSearched`); live allocations hold |
| `storage` | document: 2 files, 2 texts, 2 rewrites; sessions: 3 instances, 2 documents each, 2 works, no overtaking | see `SafeSave`; nothing lost |
| `background` | startup: 3 instances, 1 document, overtaking; status: 2 contents, 2 stamps, queue of 1, 1 slice to a poll; fairness | offers exclusive, startups end; no event forgotten, the indicator gets right |
| `checkpoints` | 2 documents, 2 texts, 2 formats, 2 changes, passing errors, fairness | recorded is on disk, closed leave nothing unreported, edits get recorded, snapshots of saved documents go |
| `documents` | 2 paths, 2 documents, 2 pending requests, 1 key to a read, native dialog | paths distinct and watched, edits go when asked |
| `application` | input: 15 gestures in twos, any split, 4 parameters, 4 answers; work: 2 documents, 2 queries, 2 permits, 1 result, 1 edit each; recorder: 3 commands, 2 to a macro, 2 bytes, 1 name; display: 3×1 and 1×2 cells, wide glyphs, 2 draws a frame; views: sources of up to 4 signs and values of up to 2; settings: 2 instances, 2 user writes, 1 change, 2 backups; rules: 2 files, up to 2 rules | reports honest, searches end, input understood, saved is what ran, frames shown, what is written to a view, the settings or the shortcuts reads back, settings kept |
| `recovery_race`, `documents_reload`, `macro_holes`, `checkpoints_starved`, `search_replace` | as small as shows it | violated: see Findings |

The bounds reach what they are for.  With a history of 2 and 3 edits, trimming happens
in, at the end of and after groups; capacity 2 with a final newline is met inside
groups; 3 edits allow a saved version, an undo and a branch with a coalesced run.  The
gap buffer's chunk arithmetic is exercised by sizes next to the reservation and wrapped
stamps.  Two characters with three carets are one at each boundary, with the selections
between them; that a write moves carets already placed needs two.  Search texts of two
letters have hits that touch, a hit at the end and one of no width.  Two rewrites are one
in each window of a save, and a third instance is needed for a stale lease handle.  A
queue of one is full at the second event.  A file of one slice is read in one step, and is
rewritten between the stamp, the read and the verification; a probe that mixes slices of two
versions is in the model but beyond this run.  Two documents are one in front of another, which is all that the checkpoint's
early return, the switch under a dialog and the chain of an exit need; two requests are a
close under an exit, or a save with one of them waiting.  Two gestures are one unfinished
behind another; four parameters are fewer than a report can have.  Two permits are one kept
by a worker nobody listens to and one to go on with.  Three columns hold a wide glyph with
something on either side of its cut.  Four bytes at an odd base are an allocation behind
padding, one that grows past it, and a commitment that is refused.

`CHECK_DEADLOCK FALSE` stands where the system may stop: a crash, all instances gone, or
the bound on edits.

Fairness is assumed in `background`, `application` and the checkpoint runs.  For startups,
each instance's own steps (`Step`), weakly: straight-line code of a process that nothing
but the lock of its own lease makes wait; what users, I/O errors and crashes do (`Event`)
is not fair.  In `DiskStatus` the main loop is weakly fair (it waits at most 100 ms for
input), and its two timers, of 500 ms and of at most 2 s, run out again and again: the poll
and the look at the metadata with their time elapsed are strongly fair.  The system's
callback is not fair: what it loses, polling must find.  In `Workbench` the threads run
(`SearchStep`, `IndexingEnds`, `WorkerLeaves`) and every frame looks for a report
(`TakeReport`), weakly.  In `Checkpoints`, the checkpoint is weakly fair: the main loop
calls `workbench::tick` each time round.  Recording or clearing one document is strongly
fair: an I/O error that may strike each time does not strike every time.  Documents in
`Unrecordable` are exactly those for which this is false.

## Findings

Runs that end in a violation:

`recovery_race`: `recovery.rs:4` says that each running editor holds the lock of its own
session.  `RecoveryStore::new` creates the lease and locks it in two calls; an instance
starting in between takes the session for an abandoned one and removes it.  The first
instance then locks an unlinked file and runs on: its checkpoints fail for want of a
directory, which it reports, and if the other crashes between removing the lease and the
directory, its snapshots go where no later instance looks.

`documents_reload`: the reload dialog can be answered for another document.
`native_open::poll` runs first in a frame and brings the chosen file to the front; when
that file is open with unsaved edits, the key pressed at the dialog about the old document
reaches the dialog now drawn for the new one, and its edits are read over
("Reload asks before discarding local edits", docs/workbench.md:79).  Windows only.

`macro_holes`: "Unsupported actions stop recording before execution so an incomplete macro is
not silently saved" (docs/workbench.md:66).  The main loop stops them only where the editor
has the focus and no panel is in front (main.rs:240); it puts up the name panel and leaves the
recording on.  From there Ctrl+Shift+P leads to Commands, whose Undo, Redo, Add Next
Occurrence and line carets work on the document (workbench.rs:516) and close the panel; the
keys that follow are recorded again.  The saved macro lacks what was run in between.  The
find bar's Replace, opened from Commands, does the same.

`checkpoints_starved`: `checkpoint_recovery` returns at the first error.  A dirty document
with a path that is not UTF-8 fails at every checkpoint, and the documents behind it in
the list get no snapshot at all (docs/workbench.md:84), until it is saved or closed.

`search_replace`: `find_and_replace` takes the selection for its last hit when
`selection_generation` has not moved, but `undo_redo` (mod.rs:4077) puts an entry's
selection back without moving it.  After Find, Escape and Ctrl+Z, Replace writes over a
text the search never found (comment at mod.rs:1821).

Met while modelling, and kept out of the properties by a named exception or a bound:

* Editor and replay part in three cases (`Apart`, `Adrift`, `ReplayColumns`): Alt with
  Left, Right, Home or End moves one of several carets, its command all; the application's
  Paste, Cut, Select All and Duplicate leave the preferred column as it was; Shift+Tab in
  the indentation of a selection leaves a point of it outside its row.
* Cutting adjacent selections merges their carets, so that pasting puts a newline between
  the fragments (`MacroReplay!CutIsPasted` asks for it only when no carets met).  A line copied from an
  empty last line has no newline.
* After a paste of moved lines was refused for want of room, the selection can name a row
  beyond the end of the text; `indent_change` then works on the last row, as the conversion
  from logical positions clamps (`Editing!IndentLine`).  The proof asked for this case: the
  selection of a valid buffer may lie anywhere, and only what is read through the conversion
  is a place in the text.
* Moving lines over an indented last line without a newline types an indented newline.
* The native dialog can change the document in the middle of a recording: the key of that
  frame runs on the other document and is not recorded (`SavedIsWhatRan` counts it as
  `Elsewhere`).
* A file opened in the picker as `file:line` is registered with the watcher under that name
  (draw_filepicker.rs:426), although the document has the path without it.  Its changes are
  found by polling while it is active, not by the watcher (README.md:79).  With
  `LocatedPicks` TRUE, `OpenFilesAreWatched` does not hold.
* With three requests up, the same question can be answered for another document without
  the native dialog: the frame of the key at the reload dialog first closes the active
  document, which a save has made clean since its close was asked for, and the reload then
  reads over the document that came to the front.  It takes a close, a reload and a save
  pending together and a write from outside in between; `moved` marks it.
* `vt.rs`: an OSC whose read ends at the Escape of its terminator is handed over as part of
  a DCS, and set-up misses that colour; a CSI with more than 32 parameters makes the next
  one index out of bounds.  `TerminalInput` has the state "crashed" for it; the gestures
  have fewer parameters.
* `input.rs`: an Escape sequence inside a paste that is split over two reads loses its
  first bytes, and `ESC ]` or `ESC P` in a paste swallows its end.  A read that brings only
  part of a character, or a resize, counts as a time-out for a pending Escape
  (`Disturbed`).
* `macros.json` and `state.json` are written from each instance's memory; the last writer
  wins, as docs/legacy-audit.md:161 says.  A damaged file the user writes between a save's
  look and its rename is replaced without a backup.
* Replace All with a pattern that looks at its surroundings sees text replaced already;
  replacing a hit of no width at the end by nothing leaves the search past the end.
* `framebuffer.rs`: a terminal resized and resized back between two polls is not drawn anew
  (`missed` marks it).  `tui.rs:1436`: a bordered node whose clipped width is 1 makes
  `width - 2` negative.

## Proofs

* `Splicing_proofs`: what a splice contains, that splicing back the extracted text
  inverts it, that two adjacent splices are one.  Everything below rests on these.  Also
  induction up to a number, said with sets instead of operators so that the prover can use
  it: a set of numbers that holds 0 and with each number the next holds them all
  (`Induction`), and what a function defined by recursion over `0..n` satisfies
  (`Recursion`); both from the library's theorem that a nonempty set of naturals has a least.
* `Engine_proofs`, the gap buffer: for all chunk sizes, capacities and contents.  Inductive invariant:
  the structural bounds (`Sound`) with exact contents and `counter` next to `generation`.
  Each private step is a lemma of what it does to bounds and contents.
* `UndoHistory_proofs`: for all capacities, limits, nestings and loads.  `IInv` adds to
  the checked properties what is known of the saved version wherever its stamp occurs
  (`SavedKnown`), that stamps do not exceed the counter, and how far a group, a walk or a
  rollback has come.  `CleanMeansSaved` alone is not inductive: it says nothing of the
  versions on the stacks that undo will make current.  For `HistoryBounded`, `Limited` is
  invariant with `IInv`: undo and redo share the limit (`Fits`), a walk keeps their sum or
  moves the only group from one side to the other, and below an open or aborted group lies
  what fits together with the redo stack it keeps (`FitsBelow`).
  `HistoryIsALine` is the refinement of `VersionLine`, one lemma per action: the action is a
  step of the line or none.  The mapping reads the line off the two stacks (the first entry of
  a group is a version), so the lemmas before say what pushing, popping, turning and trimming
  entries do to it.  Beyond `IInv` and `Limited` the steps need `LineInv`: a run of typing
  never extends the saved version, and a walk that began has either moved nothing or has put
  the version it comes from on the other stack.
* `Storage_proofs`: `IInv` adds what each step of a save or load knows of the staging
  file, the expected version and the bytes read, and that no stamp is ahead of the clock.
  `StorageLosesNothing` is about the composition, where saves and sessions run side by side:
  `StorageMC` without overtaking is an instance of `RecoverySessions`, so that the theorem
  about the sessions, instantiated, is the theorem about the composition.
* `RecoverySessions_proofs`: for any instances, documents and works.  None of the
  properties is inductive: what an instance may remove depends on the locks it holds, those
  on handles opened before a lease was unlinked.  `IInv` adds: who holds the lock of
  another's session has outlived its owner (`Locks`); a snapshot offered lies in a session
  locked for it (`Offers`); snapshots are written by the living owner alone and removed by
  it or by the holder of the lock (`Snapshots`).  With `~Overtaking` it adds that a running
  instance has its session (`Standing`) and `NothingLost`; the assumption is the window that
  `recovery_race` shows, and `OffersStayExclusive` does without it.
* `Services_proofs`, the checkpoints: for any documents, texts, formats and number of changes.
  `RecordedIsOnDisk` alone is not inductive: a document whose format is changed and
  changed back counts as recorded again.  `Agreeing` relates a document to its snapshot
  at all times: a recorded generation is not ahead of the document, the snapshot has its
  format, and as long as the revision is the same, the document's text.
* `Services_proofs`, the watcher: for any file, queue, number of slices and budget.
  `EventsAreKept` is inductive with the types of the state.  The interesting step is a poll
  under way: an event drained from the queue, and the overflow flag taken down, are in
  `touched` and `rescan` until the stamp is looked at, and an event the callback puts in
  between stays in the queue or raises the flag again.
* `Engine_proofs`, the arenas: for all sizes, chunks, alignments, base addresses and nestings.  `IInv`
  adds the bookkeeping of an arena (`Sound`: scopes begin in order, below the offset) and
  where an allocation lies (`Placed`: within its scope and below every newer one, from which
  it follows that closing a scope or writing above the offset leaves it alone).
  `AllocationsHold` alone is not inductive: an arena whose offset is below a live allocation
  satisfies it until the next one.
* `Engine_proofs`, the search: for any letters, replacements and lengths, and the patterns
  the model knows (`SearchAssumption`).  `SearchInv` says what the cached state of a search is
  worth: while it is `fresh`, ICU's view is the text as it is (`Knows`), a literal's search goes
  on where ICU stands, and one that gave up has no occurrence to find; while the last hit is
  still `ours`, there is a selection (`Kept`).  A change makes every search stale, a move of
  the selection takes its hit; so `find_and_select` finds what is there and, wrapping around,
  the next one (`SelectNextIs`).  Replace All is followed turn by turn (`TurnKeeps`), only to
  know that it leaves a text and a cursor in it.
* `Editing_proofs`: for any characters, tab size, room, number of carets, length of line
  and clipboards.  The invariant, `EditorInv`, is that the buffer is `Valid` and the
  column and the mouse's anchor have their types: the cursor lies in the text, the selection
  and the rectangle are pairs of points or none, and the ranges that are selected lie in the
  text, rise and do not overlap.  `CaretsWriteAtOnce` itself is not inductive: it says
  nothing of a rectangle, the column and the anchor, which the next key reads.  The argument has three parts.  First, that the helpers
  are total: rows, columns and offsets of any text convert into each other, word and line
  ends lie in the text, and joining (`JoinRange`, `Joined`) makes any list of ranges into one
  that rises, whatever the list.  Second, that every command keeps `Valid`: one lemma for each
  operator of `Editing` and `Textarea` down to `KeyPressed`, `AppKeyPressed` and the mouse.
  Third, what a write does (`WriteIsSimultaneous`, for a text of any length): the code
  replaces the last range first and shifts the carets it has placed, the definition
  (`Simultaneous`) builds the result from the left.  The lemmas compare the two by induction
  over the carets still to do: what lies behind the range in hand is as the definition has
  it, shifted by what the writes before it will add, and the text before it is as it was.
  A buffer that is full stops in the middle, and the property excepts it.

  `ReplayFollows` follows from the same invariant.  For `CommandsFollow` each group of keys
  has a lemma that key and command compute the same: those without a column by expanding
  both (`FollowsPlain`), those with one caret because setting a single range is setting the
  cursor or the selection (`OneCaretMoves`), those with several because the ranges of a
  valid buffer are set as they are (`SetSpread`), and the vertical ones for every column the
  replay can hold (`VerticalKeyFollows`): the point above or below is the same, and the
  column left is the editor's or none.  For `CutIsPasted`, one caret: what is cut is a
  range that the paste splices back in, at the row's start when it was a whole line
  (`AloneIsPasted`).  Several: a cut writes nothing over all ranges, so by the theorem on
  writes the text becomes the gaps between them (`GappedIs`) with a caret in each place;
  where as many carets are left as there were, the carets, rising, are the places, one by one
  (`InStep`); so the paste puts each piece at the place its range left, and gaps and pieces
  in turn are the text (`SumRestores`).
* `OpenDocuments_proofs`: for any number of documents, files, requests and keys to a read.
  `DistinctPaths` and `OpenFilesAreWatched` become inductive with the types and the
  uniqueness of ids.  Each change of the list is a lemma of what it keeps: activation and
  closing are reorderings or parts of the list, opening and saving compare the path with the
  others first, and only a path that no remaining document has is unwatched.
  `OpenFilesStayWatched` assumes `~LocatedPicks`: with it, what is watched is a name and not
  the document's path (see Findings).
  `EditsGoOnlyWhenAsked` is for any number of requests up at once, with one key to a read.
  Its invariant, `Asking`, follows the rounds of the main loop: in the frame without a key
  every dialog is drawn about the document in front; what `Render` shows stays about that
  document until the key's frame reaches the dialog, or `moved` says otherwise.
* `Services_proofs`, the tools: three components, each for any values of its constants:
  * the recorder (`MacrosAreWhatRan`): `Complete`, that a recording that did not fail is the
    editor's part of all that was run so far, carries `SavedIsWhatRan` from the recording to
    the library.  `OneMoreOwn` and `ElsewhereKeeps` say what one more entry does to that part;
    it is the fold's only recursion, over the length of the history.  What is run from
    elsewhere is in the history, so the theorem says that a macro has none of it, and not that
    there was none;
  * settings (`SettingsStay`): every save under way, of any instance, fills a backup that is
    its own (`FillsItsOwn`), which no other save may take as its name, and does not reach the
    replacement with a damaged file before that backup is whole (`WritesWithBackup`); for the
    rules, a remembered index is that of the first rule that matches (`RememberedIsFirst`), or
    nothing is remembered;
  * the workbench (`ReportsAreHonest`): `WorkerInv` is what a search knows while it runs: its
    query is the one in the fields, a hit with a revision is in the copy of a document that it
    has visited, and a hit on the disk is on no path that it visited as a document, and comes
    once the copies are done; so no path is there twice, with two texts.
    `ReportInv` is the same of a report, sent or shown; a search and its report are never both
    there, so that one superseded cannot answer for the next.  `PanelHasItsData` is inductive
    only with what lens and hit hold (`HeldInv`), since leaving a cell returns to the panel
    behind it.  `PermitsInv` counts the permits: those of searches that were dropped stay
    taken until their threads have ended.

The proofs assume what the modules' ASSUMEs say of the constants, which TLC evaluates in
the runs.  Those of the editor: the tab size is positive, room, page, line and caret limits
are naturals (`EditingAssumption`, `TextareaAssumption`, `MacroReplayAssumption`), and a
clipboard is a text with its fragments over the characters in use (`ClipsAssumption`).

Only model-checked:

* liveness (`SettledStatusIsRight`, `SearchesEnd`, `StartupsEnd`, `EditsGetRecorded`,
  `SavedSnapshotsGo`), which is out of the prover's reach;
* what recursive definitions over bytes and cells compute for every input: that input is
  understood whatever the split (`InputIsUnderstood`), that an edit reads back
  (`WrittenReadsBack`), that the screen is the frame (`FrameIsShown`), and what the run checks
  with `TextIsSearched`: that Replace All replaces each hit once, that a replacement
  means what was written, and that bytes and pieces are read right (`Utf8`, `NativeText`).  The prover has no induction over
  operators, so nothing general about a fold, and no arithmetic in a module with a RECURSIVE
  operator (`TerminalInput`).  Induction is possible where the recursion is a function over
  numbers and the induction is said with sets, as for the carets.

## Not modelled

* Soft wrapping, the layout cache and rendering of a document, its statistics; the file
  `buffer/line_cache.rs` is not compiled into the program.
* The node tree of `tui.rs` over several frames, its hash table, focus, and the controls
  but the text area: what they show is decided anew each frame.
* Drawing of panels and bars, palette ranking, highlighting (`syntax.rs`), measuring and
  the generated Unicode tables with the tool that generates them, colours (`oklab.rs`),
  localisation, logging: functions without state that another part reads.
* Paths, hashing, base64 and memory search (`simd/*`): pure, with tests against references.
* Deduplication of documents by file identity, untitled names, encodings and conversions
  other than what Save and the checkpoints compare.
* The walk over directories with its ignore files, the csv, JSON and glob libraries, ICU:
  external, modelled by what the code expects of them where it uses them.
* Strings and vectors in arenas, and arenas without scopes.
* Calls of Windows and Unix, but for where a read of the terminal splits and what may fail.

Numbers that wrap are naturals where their range is out of reach: 2^32 edits between a
save and a comparison, or between two looks of a search, are left out; the gap buffer's
own counter is modelled with its wrap.  Also left out: a snapshot whose directory cannot be
synced after the rename, a file that appears between the picker's look and the save dialog
(the save's own checks find it), an identity that the system gives to another file.

What would be worth proving next: the framebuffer, once its drawing is written with
functions; then what the edit of a cell leaves alone.
