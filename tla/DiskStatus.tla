------------------------------ MODULE DiskStatus ------------------------------
(***************************************************************************)
(* How the editor learns that another program changed an open file.  The   *)
(* operating system reports changes of a directory to a callback, which    *)
(* hands them to the interface thread through a bounded queue.  Once per   *)
(* iteration of the main loop the thread drains the queue, looks at the    *)
(* metadata of what was touched, and asks the active document for its disk *)
(* status, which compares metadata and, from time to time, the content:    *)
(* slice by slice, some slices to a call.  Other programs and the callback *)
(* go on between any two steps.  One document is followed, while it is the *)
(* active one.  Whether a timer has run out is left open at each look.     *)
(***************************************************************************)
EXTENDS DiskStatusState

watcher == <<inflight, queue, overflow, seen>>
document == <<base, event, probe, changed>>
locals == <<rescan, touched, drained>>
vars == <<file, watcher, document, shown, pc, locals, failures, unseen>>

Exists(version) == version # NoVersion
Metadata(version) == <<version.stamp, Len(version.content)>>

Init ==
  /\ file \in {v \in DiskVersion : v.content = Text} \cup {NoVersion}
  /\ base = file /\ seen = Metadata(file)
  /\ inflight = {} /\ queue = <<>> /\ overflow = FALSE
  /\ event = FALSE /\ probe = NoProbe /\ changed = FALSE
  /\ shown = FALSE /\ pc = "input"
  /\ rescan = FALSE /\ touched = FALSE /\ drained = 0
  /\ failures = 0 /\ unseen = FALSE
-----------------------------------------------------------------------------
(* Other programs and the system's callback. *)

(* Another program rewrites or removes the file; it may keep the metadata. *)
Write ==
  /\ \E version \in DiskVersion \cup {NoVersion} : version # file /\ file' = version
  /\ inflight' = inflight \cup {"modify"}
  /\ UNCHANGED <<queue, overflow, seen, document, shown, pc, locals, failures, unseen>>

(* Mutant of QueueEvent: a full queue drops the event. *)
QueueEventDropping(kind) ==
  /\ queue' = IF Len(queue) < QueueCapacity THEN Append(queue, kind) ELSE queue
  /\ UNCHANGED overflow

(* A full queue drops the event and asks for one look at everything. *)
QueueEvent(kind) ==
  IF Len(queue) < QueueCapacity
  THEN queue' = Append(queue, kind) /\ UNCHANGED overflow
  ELSE overflow' = TRUE /\ UNCHANGED queue

(* What the system reports of a change may also say that it lost events, or *)
(* be an error of its own.                                                  *)
Callback(kind) ==
  /\ kind \in inflight
  /\ inflight' = inflight \ {kind}
  /\ \E reported \in {kind, "rescan"} : QueueEvent(reported)
  /\ unseen' = (unseen \/ kind = "modify")
  /\ UNCHANGED <<file, seen, document, shown, pc, locals, failures>>

(* Network file systems and native watches that failed report nothing. *)
Lose ==
  /\ inflight # {}
  /\ inflight' = {}
  /\ UNCHANGED <<file, queue, overflow, seen, document, shown, pc, locals, failures, unseen>>
-----------------------------------------------------------------------------
(* Commands.  An iteration of the main loop runs at most one. *)

At(step) == pc = step
GoTo(step) == pc' = step

NoKey ==
  /\ At("input") /\ GoTo("poll")
  /\ UNCHANGED <<file, watcher, document, shown, locals, failures, unseen>>

(* What save and reread leave behind. *)
Rebase(version) ==
  /\ base' = version
  /\ event' = FALSE /\ changed' = FALSE /\ probe' = NoProbe

(* A save is refused when the file is not as the baseline says. *)
Save ==
  /\ At("input") /\ GoTo("poll")
  /\ file = base
  /\ \E stamp \in Stamps \ {file.stamp} :
       LET saved == [stamp |-> stamp, content |-> Text]
       IN  file' = saved /\ Rebase(saved)
  /\ inflight' = inflight \cup {"modify"}
  /\ UNCHANGED <<queue, overflow, seen, shown, locals, failures, unseen>>

(* reload_file_from_disk: read again, then unwatch and watch. *)
Reload ==
  /\ At("input") /\ GoTo("poll")
  /\ Exists(file) /\ Rebase(file)
  /\ shown' = FALSE
  /\ seen' = Metadata(file) /\ unseen' = FALSE
  /\ UNCHANGED <<file, inflight, queue, overflow, locals, failures>>
-----------------------------------------------------------------------------
(* poll_events. *)

PollStarts(elapsed) ==
  /\ At("poll") /\ GoTo("drain")
  /\ rescan' = (overflow \/ elapsed)
  /\ overflow' = FALSE /\ touched' = FALSE /\ drained' = 0
  /\ UNCHANGED <<file, inflight, queue, seen, document, shown, failures, unseen>>

(* Mutant of Touches: the editor's own looks count as changes. *)
TouchesAlways(kind) == kind # "rescan"

(* Looking at a file is an event, too, and is passed over. *)
Touches(kind) == kind = "modify"

Drain ==
  /\ At("drain") /\ queue # <<>> /\ drained < QueueCapacity
  /\ queue' = Tail(queue) /\ drained' = drained + 1
  /\ touched' = (touched \/ Touches(Head(queue)))
  /\ rescan' = (rescan \/ Head(queue) = "rescan")
  /\ UNCHANGED <<file, inflight, overflow, seen, document, shown, pc, failures, unseen>>

Drained ==
  /\ At("drain") /\ (queue = <<>> \/ drained = QueueCapacity)
  /\ GoTo(IF rescan \/ touched THEN "stamp" ELSE "status")
  /\ drained' = 0
  /\ UNCHANGED <<file, watcher, document, shown, rescan, touched, failures, unseen>>

(* record_watch_event: the document hears of a change of metadata and of    *)
(* every event that touched an existing file.                               *)
StampFile ==
  /\ At("stamp") /\ GoTo("status")
  /\ event' = (event \/ seen # Metadata(file) \/ (Exists(file) /\ touched))
  /\ seen' = Metadata(file) /\ unseen' = FALSE
  /\ rescan' = FALSE /\ touched' = FALSE
  /\ UNCHANGED <<file, inflight, queue, overflow, base, probe, changed, shown, drained,
                 failures>>
-----------------------------------------------------------------------------
(* disk_status_at. *)

Status(differs) == GoTo("input") /\ shown' = differs

LookAtMetadata(elapsed) ==
  /\ At("status")
  /\ \/ /\ ~Exists(file)
        /\ probe' = NoProbe /\ Status(Exists(base)) /\ UNCHANGED event
     \/ /\ Exists(file) /\ ~Exists(base)
        /\ Status(TRUE) /\ UNCHANGED <<probe, event>>
     \/ /\ Exists(file) /\ Exists(base) /\ Metadata(file) # Metadata(base)
        /\ probe' = NoProbe /\ Status(TRUE) /\ UNCHANGED event
     \/ /\ Exists(file) /\ Exists(base) /\ Metadata(file) = Metadata(base)
        /\ event' = FALSE
        /\ LET kept == IF event THEN NoProbe ELSE probe
           IN  IF event \/ elapsed
               THEN /\ probe' = IF kept = NoProbe THEN <<>> ELSE kept
                    /\ GoTo("read") /\ UNCHANGED shown
               ELSE probe' = kept /\ Status(changed)
  /\ UNCHANGED <<file, watcher, base, changed, locals, failures, unseen>>

Finish(same) == probe' = NoProbe /\ changed' = ~same /\ Status(~same)

(* The next slices of the file as it is now. *)
Slice ==
  LET left == Len(file.content) - Len(probe)
  IN  SubSeq(file.content, Len(probe) + 1, Len(probe) + IF left < Budget THEN left ELSE Budget)

ReadSlices ==
  /\ At("read") /\ Exists(file)
  /\ inflight' = inflight \cup {"access"}
  /\ LET read == probe \o Slice
         other == IdentityOf[file.stamp] # IdentityOf[base.stamp]
     IN  \/ /\ other \/ Len(read) > Len(base.content)
            /\ Finish(FALSE)
         \/ /\ ~other /\ Len(read) <= Len(base.content)
            /\ probe' = read
            /\ IF Len(Slice) < Budget
               THEN GoTo("verify") /\ UNCHANGED <<changed, shown>>
               ELSE Status(changed) /\ UNCHANGED changed
  /\ UNCHANGED <<file, queue, overflow, seen, base, event, locals, failures, unseen>>

(* The end of the file was reached: the metadata is looked at again. *)
Verify ==
  /\ At("verify")
  /\ Finish(probe = base.content /\ Metadata(file) = Metadata(base))
  /\ UNCHANGED <<file, watcher, base, event, locals, failures, unseen>>

(* Opening or reading fails: the status is Unavailable.  (A file removed    *)
(* since the look is one reason.)                                           *)
ReadFails ==
  /\ At("read")
  /\ \/ ~Exists(file) /\ UNCHANGED failures
     \/ failures < MaxFailures /\ failures' = failures + 1
  /\ probe' = NoProbe /\ Status(TRUE)
  /\ UNCHANGED <<file, watcher, base, event, changed, locals, unseen>>
-----------------------------------------------------------------------------
Loop ==
  \/ NoKey \/ Save \/ Reload
  \/ \E elapsed \in BOOLEAN : PollStarts(elapsed) \/ LookAtMetadata(elapsed)
  \/ Drain \/ Drained \/ StampFile \/ ReadSlices \/ Verify \/ ReadFails

Environment == Write \/ Lose \/ \E kind \in Kinds : Callback(kind)

Next == Loop \/ Environment

(* The main loop waits for input 100 ms at most, and the timers, of 500 ms  *)
(* and of at most 2 s, run out again and again.                             *)
Fairness ==
  WF_vars(Loop) /\ SF_vars(PollStarts(TRUE)) /\ SF_vars(LookAtMetadata(TRUE))

Spec == Init /\ [][Next]_vars /\ Fairness
-----------------------------------------------------------------------------
(* Properties. *)

(* Once the other programs and the user leave the file and the baseline      *)
(* alone, the indicator gets to tell the truth and stays so: up if the       *)
(* file's metadata or content differ from the baseline, even where every     *)
(* event was lost and the metadata was kept, and down if not                 *)
(* (disk_status_at, DiskContentProbe).                                       *)
SettledStatusIsRight ==
  <>[][FALSE]_<<file, base>> => <>[](shown <=> file # base)
=============================================================================
