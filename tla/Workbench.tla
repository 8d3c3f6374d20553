------------------------------- MODULE Workbench -------------------------------
(***************************************************************************)
(* The panels of the workbench and the workers behind them.  A panel is    *)
(* modal: what it works on (a search with its report, a data view, a draft *)
(* of one line or cell) is kept beside it and goes when it closes.  A      *)
(* search runs in a thread of its own on copies of the open documents,     *)
(* then on the files; discovering files for the palette is another thread; *)
(* both hold one of a few permits until they end, and can only be asked to *)
(* stop.  The interface takes a finished report between two frames.        *)
(*                                                                         *)
(* A text is one line, so that a hit is a path with a text; a query is all *)
(* that decides what is found (pattern, options and folder).               *)
(***************************************************************************)
EXTENDS Naturals, FiniteSets

CONSTANTS
  Paths, Texts, Queries,
  Matches,       \* the texts each query finds
  Tables,        \* the texts that can be shown as data
  MaxWorkers,    \* the permits of WorkspaceWorker
  MaxResults,    \* SearchOptions.max_results
  MaxRevision,   \* bound: edits of a document
  NoPath         \* no document is active

VARIABLES
  docs,     \* the open documents by path: text, revision
  disk,     \* the files
  active,   \* the active document
  panel,    \* Workbench.panel
  back,     \* Workbench.return_panel, while a draft is open
  fields,   \* the query in the fields of the search panel
  search,   \* the worker of Workbench.search: a set of at most one
  channel,  \* what it sent: a set of at most one report
  report,   \* Workbench.report: likewise
  pending,  \* Workbench.pending_hit: a set of at most one hit
  lens,     \* Workbench.lens and lens_buffer: a set of at most one view
  indexing, \* the worker of Workbench.files still runs
  leaving   \* how many workers nobody listens to hold a permit

documents == <<docs, disk, active>>
data == <<channel, report, pending, lens>>
threads == <<search, indexing, leaving>>
vars == <<documents, panel, back, fields, data, threads>>

Panels == {"none", "commands", "files", "search", "lens", "cell", "diff", "recovery",
           "macroName", "logPattern"}
Revisions == 0 .. MaxRevision
NoRevision == MaxRevision + 1
Document == [text : Texts, revision : Revisions]
Hit == [path : Paths, text : Texts, revision : Revisions \cup {NoRevision}]
IsOpen(p) == p \in DOMAIN docs
Worker == [query : Queries, todo : SUBSET Paths, copies : SUBSET Hit, visited : SUBSET Paths,
           hits : SUBSET Hit, truncated : BOOLEAN, cancel : BOOLEAN]

Init ==
  /\ docs \in {[q \in {} |-> {}]} \cup
        UNION {[{p} -> {[text |-> t, revision |-> 0] : t \in Texts}] : p \in Paths}
  /\ disk \in [Paths -> Texts]
  /\ active = IF DOMAIN docs = {} THEN NoPath ELSE CHOOSE p \in Paths : IsOpen(p)
  /\ panel = "none" /\ back = "none" /\ fields \in Queries
  /\ search = {} /\ channel = {} /\ report = {} /\ pending = {} /\ lens = {}
  /\ indexing = FALSE /\ leaving = 0
-----------------------------------------------------------------------------
(* There is a task from its start until its report is taken.  Dropping one  *)
(* asks its worker to stop: nobody hears of it again, but it has its permit *)
(* until it looks at the flag.                                              *)

Searching == search # {} \/ channel # {}
One(running) == IF running THEN 1 ELSE 0
Held == leaving + One(search # {}) + One(indexing)

DropSearch ==
  /\ search' = {} /\ channel' = {}
  /\ leaving' = leaving + One(search # {}) /\ UNCHANGED indexing
DropAll ==
  /\ search' = {} /\ channel' = {} /\ indexing' = FALSE
  /\ leaving' = leaving + One(search # {}) + One(indexing)
ForgetData == report' = {} /\ pending' = {} /\ lens' = {} /\ back' = "none"

(* Workbench::close, and what replaces the panel. *)
CloseFor(next) == panel' = next /\ DropAll /\ ForgetData
-----------------------------------------------------------------------------
(* The documents: edits, files opened and closed, other programs.  A        *)
(* document may come or go while a panel is open: the native dialog opens   *)
(* files, and an untouched document gives way to them.                      *)

Opened(p) ==
  IF IsOpen(p) THEN docs
  ELSE [q \in DOMAIN docs \cup {p} |->
          IF q = p THEN [text |-> disk[p], revision |-> 0] ELSE docs[q]]

Changed(p, text) == [docs EXCEPT ![p] = [text |-> text, revision |-> @.revision + 1]]
MayChange(p) == IsOpen(p) /\ docs[p].revision < MaxRevision

EditDocument ==
  /\ panel = "none" /\ active # NoPath /\ MayChange(active)
  /\ \E text \in Texts : docs' = Changed(active, text)
  /\ UNCHANGED <<disk, active, panel, back, fields, data, threads>>

OpenDocument(p) ==
  /\ docs' = Opened(p) /\ active' = p
  /\ UNCHANGED <<disk, panel, back, fields, data, threads>>

CloseDocument ==
  /\ active # NoPath
  /\ docs' = [q \in DOMAIN docs \ {active} |-> docs[q]]
  /\ active' \in IF DOMAIN docs' = {} THEN {NoPath} ELSE DOMAIN docs'
  /\ lens' = {[view EXCEPT !.open = view.open /\ view.path # active] : view \in lens}
  /\ UNCHANGED <<disk, panel, back, fields, channel, report, pending, threads>>

WriteFile(p) ==
  /\ \E text \in Texts : text # disk[p] /\ disk' = [disk EXCEPT ![p] = text]
  /\ UNCHANGED <<docs, active, panel, back, fields, data, threads>>
-----------------------------------------------------------------------------
(* Workers. *)

Stopping(w) == w.cancel \/ w.truncated

(* ResultSink::matched: hits up to the limit, then the report is truncated. *)
Searched(w, hit) ==
  IF hit.text \notin Matches[w.query] THEN w
  ELSE IF Cardinality(w.hits) >= MaxResults THEN [w EXCEPT !.truncated = TRUE]
  ELSE [w EXCEPT !.hits = @ \cup {hit}]

(* The copies of open documents come first; a file that was searched as one *)
(* is not read from the disk.                                               *)
SearchCopy ==
  /\ \E w \in search :
       /\ ~Stopping(w)
       /\ \E hit \in w.copies :
            search' = {[Searched(w, hit) EXCEPT !.copies = @ \ {hit}, !.visited = @ \cup {hit.path}]}
  /\ UNCHANGED <<documents, panel, back, fields, data, indexing, leaving>>

SearchFile ==
  /\ \E w \in search :
       /\ ~Stopping(w) /\ w.copies = {}
       /\ \E p \in w.todo :
            LET hit == [path |-> p, text |-> disk[p], revision |-> NoRevision]
            IN  search' =
                  {[(IF p \in w.visited THEN w ELSE Searched(w, hit)) EXCEPT !.todo = @ \ {p}]}
  /\ UNCHANGED <<documents, panel, back, fields, data, indexing, leaving>>

Report(w) ==
  [query |-> w.query, hits |-> w.hits, opened |-> w.visited,
   missed |-> w.todo \cup {hit.path : hit \in w.copies},
   truncated |-> w.truncated, cancelled |-> w.cancel]

(* Mutant of SendReport: a worker told to stop ends without a report. *)
SendReportWhenDone ==
  /\ \E w \in search : w.todo \cup w.copies = {} /\ channel' = {Report(w)}
  /\ search' = {} /\ leaving' = leaving + 1
  /\ UNCHANGED <<documents, panel, back, fields, report, pending, lens, indexing>>

(* The worker sends its report and only then gives its permit back. *)
SendReport ==
  /\ \E w \in search :
       /\ Stopping(w) \/ w.todo \cup w.copies = {}
       /\ channel' = {Report(w)}
  /\ search' = {} /\ leaving' = leaving + 1
  /\ UNCHANGED <<documents, panel, back, fields, report, pending, lens, indexing>>

IndexingEnds ==
  /\ indexing /\ indexing' = FALSE
  /\ UNCHANGED <<documents, panel, back, fields, data, search, leaving>>

WorkerLeaves ==
  /\ leaving > 0 /\ leaving' = leaving - 1
  /\ UNCHANGED <<documents, panel, back, fields, data, search, indexing>>

(* tick: try_finish between two frames. *)
TakeReport ==
  /\ channel # {}
  /\ report' = channel /\ channel' = {}
  /\ UNCHANGED <<documents, panel, back, fields, pending, lens, threads>>
-----------------------------------------------------------------------------
(* Panels that need nothing, or only threads. *)

OpenPanel(next) ==
  /\ panel' = next /\ ForgetData
  /\ search' = {} /\ channel' = {}
  /\ LET left == leaving + One(search # {}) + One(indexing)
     IN  leaving' = left /\ indexing' = (next = "files" /\ left < MaxWorkers)
  /\ UNCHANGED <<documents, fields>>

Dismiss ==
  /\ panel \notin {"none", "cell", "logPattern"}
  /\ CloseFor("none")
  /\ UNCHANGED <<documents, fields>>

(* Commands that close the workbench and leave the rest to others. *)
OtherCommand ==
  /\ panel = "commands" /\ CloseFor("none")
  /\ UNCHANGED <<documents, fields>>

(* record: the first time starts a recording, the second asks for a name. *)
Record ==
  /\ \/ CloseFor("none")
     \/ panel' = "macroName" /\ UNCHANGED <<back, data, threads>>
  /\ UNCHANGED <<documents, fields>>

SaveMacro ==
  /\ panel = "macroName" /\ CloseFor("none")
  /\ UNCHANGED <<documents, fields>>

Compare ==
  /\ panel \in {"commands", "diff"} /\ active # NoPath
  /\ CloseFor("diff")
  /\ UNCHANGED <<documents, fields>>

(* The palette opens a file, or fails to. *)
ActivateFile(p) ==
  /\ panel = "files"
  /\ docs' = Opened(p) /\ active' = p /\ CloseFor("none")
  /\ UNCHANGED <<disk, back, fields>>
-----------------------------------------------------------------------------
(* The search panel. *)

(* Mutant of ChangeFields: the search for the old fields goes on. *)
ChangeFieldsOnly ==
  /\ panel = "search"
  /\ \E query \in Queries : query # fields /\ fields' = query
  /\ report' = {}
  /\ UNCHANGED <<documents, panel, back, channel, pending, lens, threads>>

ChangeFields ==
  /\ panel = "search"
  /\ \E query \in Queries : query # fields /\ fields' = query
  /\ DropSearch /\ report' = {}
  /\ UNCHANGED <<documents, panel, back, pending, lens>>

CopiesOf(open) ==
  {[path |-> p, text |-> open[p].text, revision |-> open[p].revision] : p \in DOMAIN open}

(* start_search: the old task goes first; without a free permit there is a  *)
(* message and no task.                                                     *)
StartSearch(open) ==
  /\ report' = {} /\ pending' = {} /\ channel' = {}
  /\ leaving' = leaving + One(search # {}) /\ UNCHANGED indexing
  /\ search' = IF leaving' + One(indexing) >= MaxWorkers THEN {}
               ELSE {[query |-> fields, todo |-> Paths, copies |-> CopiesOf(open), visited |-> {},
                      hits |-> {}, truncated |-> FALSE, cancel |-> FALSE]}

Run ==
  /\ panel = "search" /\ StartSearch(docs)
  /\ UNCHANGED <<documents, panel, back, fields, lens>>

(* Stop asks the worker to stop and still takes its report. *)
Stop ==
  /\ panel = "search"
  /\ search' = {[w EXCEPT !.cancel = TRUE] : w \in search}
  /\ UNCHANGED <<documents, panel, back, fields, data, indexing, leaving>>

Hits == UNION {shown.hits : shown \in report}

(* prepare_line_edit: the text, and the revision of one that was open. *)
Fits(hit, doc) ==
  hit.text = doc.text /\ hit.revision \in {NoRevision, doc.revision}

(* A draft may be refused for want of memory. *)
BeginCell(from) ==
  \/ panel' = "cell" /\ back' = from
  \/ UNCHANGED <<panel, back>>

EditHit ==
  /\ panel = "search"
  /\ \E hit \in Hits : pending' = {hit}
  /\ BeginCell("search")
  /\ UNCHANGED <<documents, fields, channel, report, lens, threads>>

GoToSource ==
  /\ panel = "search"
  /\ \E hit \in Hits :
       /\ docs' = Opened(hit.path) /\ active' = hit.path
       /\ IF Fits(hit, docs'[hit.path]) THEN CloseFor("none")
          ELSE UNCHANGED <<panel, back, data, threads>>
  /\ UNCHANGED <<disk, fields>>
-----------------------------------------------------------------------------
(* The data view. *)

LensKinds == {"table", "log"}
View(kind) ==
  [path |-> active, text |-> docs[active].text, revision |-> docs[active].revision,
   kind |-> kind, open |-> TRUE]

(* open_lens shows the active document, whatever the view so far was of. *)
OpenLens(kind) ==
  /\ active # NoPath
  /\ IF docs[active].text \in Tables \/ kind = "log"
     THEN /\ panel' = "lens" /\ lens' = {View(kind)}
          /\ DropAll /\ report' = {} /\ pending' = {} /\ back' = "none"
     ELSE /\ panel' = IF panel = "none" THEN "commands" ELSE panel
          /\ UNCHANGED <<back, data, threads>>
  /\ UNCHANGED <<documents, fields>>

RefreshLens ==
  /\ panel = "lens" /\ \E view \in lens : OpenLens(view.kind)

EditCellOfLens ==
  /\ panel = "lens" /\ lens # {}
  /\ BeginCell("lens")
  /\ UNCHANGED <<documents, fields, data, threads>>

AskForPattern ==
  /\ panel = "lens" /\ \E view \in lens : view.kind = "log"
  /\ panel' = "logPattern"
  /\ UNCHANGED <<documents, back, fields, data, threads>>

LeavePattern ==
  /\ panel = "logPattern"
  /\ panel' = "lens"
  /\ UNCHANGED <<documents, back, fields, data, threads>>

ApplyPattern == panel = "logPattern" /\ OpenLens("log")
-----------------------------------------------------------------------------
(* The draft of one line or cell. *)

(* Mutant of LeaveCell: a draft always goes back to the data view. *)
LeaveCellToLens ==
  /\ panel = "cell"
  /\ panel' = "lens" /\ back' = "none" /\ pending' = {}
  /\ UNCHANGED <<documents, fields, channel, report, lens, threads>>

LeaveCell ==
  /\ panel = "cell"
  /\ panel' = back /\ back' = "none" /\ pending' = {}
  /\ UNCHANGED <<documents, fields, channel, report, lens, threads>>

(* apply_cell for a search: open the file, check it against the hit, edit   *)
(* it, search again.  A refused edit leaves the draft.                      *)
ApplyToHit ==
  /\ panel = "cell" /\ back = "search"
  /\ \E hit \in pending, text \in Texts :
       LET opened == Opened(hit.path)
       IN  /\ active' = hit.path
           /\ IF Fits(hit, opened[hit.path])
              THEN /\ opened[hit.path].revision < MaxRevision
                   /\ docs' = [opened EXCEPT ![hit.path] =
                                 [text |-> text, revision |-> @.revision + 1]]
                   /\ panel' = back /\ back' = "none" /\ StartSearch(docs')
              ELSE docs' = opened /\ UNCHANGED <<panel, back, channel, report, pending, threads>>
  /\ UNCHANGED <<disk, fields, lens>>

(* apply_cell for a data view: the very buffer, unchanged since the view    *)
(* was made; the view is made again.                                        *)
ApplyToLens ==
  /\ panel = "cell" /\ back = "lens"
  /\ \E view \in lens, text \in Texts :
       IF view.open /\ docs[view.path] = [text |-> view.text, revision |-> view.revision]
          /\ MayChange(view.path) /\ (text \in Tables \/ view.kind = "log")
       THEN /\ docs' = Changed(view.path, text)
            /\ lens' = {[view EXCEPT !.text = text, !.revision = @ + 1]}
            /\ panel' = back /\ back' = "none" /\ pending' = {}
       ELSE UNCHANGED <<docs, lens, panel, back, pending>>
  /\ UNCHANGED <<disk, active, fields, channel, report, threads>>
-----------------------------------------------------------------------------
Shortcut ==
  \/ \E next \in {"commands", "files", "search"} : OpenPanel(next)
  \/ \E kind \in LensKinds : OpenLens(kind)
  \/ Record

User ==
  \/ Shortcut \/ EditDocument \/ CloseDocument \/ \E p \in Paths : OpenDocument(p)
  \/ Dismiss \/ OtherCommand \/ SaveMacro \/ Compare \/ \E p \in Paths : ActivateFile(p)
  \/ ChangeFields \/ Run \/ Stop \/ EditHit \/ GoToSource
  \/ RefreshLens \/ EditCellOfLens \/ AskForPattern \/ LeavePattern \/ ApplyPattern
  \/ LeaveCell \/ ApplyToHit \/ ApplyToLens

SearchStep == SearchCopy \/ SearchFile \/ SendReport

Next ==
  \/ User \/ TakeReport \/ SearchStep \/ IndexingEnds \/ WorkerLeaves
  \/ \E p \in Paths : WriteFile(p)

(* Threads run, and every frame looks for a report. *)
Fairness ==
  /\ WF_vars(TakeReport) /\ WF_vars(SearchStep)
  /\ WF_vars(IndexingEnds) /\ WF_vars(WorkerLeaves)
Spec == Init /\ [][Next]_vars /\ Fairness
-----------------------------------------------------------------------------
(* Properties. *)

(* The values of all variables. *)
TypeOK ==
  /\ DOMAIN docs \subseteq Paths /\ \A p \in DOMAIN docs : docs[p] \in Document
  /\ disk \in [Paths -> Texts] /\ active \in DOMAIN docs \cup {NoPath}
  /\ {panel, back} \subseteq Panels /\ fields \in Queries
  /\ indexing \in BOOLEAN
  /\ \A set \in {search, channel, report, pending, lens} : Cardinality(set) <= 1
  /\ search \subseteq Worker /\ pending \subseteq Hit
  /\ Held \in 0 .. MaxWorkers

(* Whatever panel is open has what it works on, through every way of         *)
(* opening, leaving and replacing panels (the panel functions of             *)
(* workbench.rs unwrap these fields).                                        *)
PanelHasItsData ==
  /\ panel \in {"lens", "logPattern"} => lens # {}
  /\ panel = "logPattern" => \A view \in lens : view.kind = "log"
  /\ panel = "cell" =>
       /\ back \in {"search", "lens"}
       /\ back = "search" => pending # {} /\ pending \subseteq Hits
       /\ back = "lens" => lens # {}
  /\ panel = "none" => ~Searching /\ report = {} /\ lens = {}
  /\ Searching => report = {}

(* A report on the screen answers the query in the fields, however many      *)
(* searches were started, stopped and dropped before; a path occurs in it    *)
(* once, with the text of the document if that was open; and a report that   *)
(* claims neither to be cancelled nor to be cut has looked everywhere        *)
(* (search_with_matcher, SearchTask, draw_search).                           *)
ReportIsHonest ==
  \A shown \in report :
    /\ shown.query = fields
    /\ \A a, b \in shown.hits : a.path = b.path => a = b
    /\ \A hit \in shown.hits : hit.revision = NoRevision => hit.path \notin shown.opened
    /\ ~shown.cancelled /\ ~shown.truncated => shown.missed = {}

(* Unless the user starts searches for ever, each is answered or dropped,    *)
(* and a permit comes back however often tasks are replaced (SearchTask,     *)
(* WorkspaceWorker).                                                         *)
SearchesEnd ==
  /\ []<>~Searching \/ []<><<Run \/ ApplyToHit>>_vars
  /\ []<>(Held < MaxWorkers)
=============================================================================
