---------------------------- MODULE DiskStatusState ----------------------------
(***************************************************************************)
(* The file that DiskStatus follows, what the watcher and the document     *)
(* know of it, and what the watcher owes the document.  Apart from the     *)
(* steps, in DiskStatus, so that the module of a run that has other        *)
(* components may extend it.                                               *)
(***************************************************************************)
EXTENDS Naturals, Sequences

CONSTANTS
  Slices,         \* the pieces a file is read in
  Versions,       \* what the file may hold, as a sequence of slices
  Text,           \* what the user saves
  Stamps,         \* what metadata tells versions apart by, besides the length
  IdentityOf,     \* the file identity each stamp carries
  QueueCapacity,  \* EVENT_QUEUE_CAPACITY
  Budget,         \* STATUS_READ_BUDGET, in slices
  MaxFailures     \* bound: reads the system refuses

ASSUME StatusAssumption ==
  /\ Versions \subseteq Seq(Slices) /\ Text \in Versions /\ "none" \notin Slices
  /\ QueueCapacity \in Nat \ {0} /\ Budget \in Nat \ {0} /\ MaxFailures \in Nat

VARIABLES
  file,      \* the file on disk: a version, or NoVersion
  inflight,  \* events the system has still to report
  queue,     \* FileWatcher.events
  overflow,  \* FileWatcher.overflow
  seen,      \* Inner.files: the metadata at the last look
  base,      \* Document.disk_version
  event,     \* Document.disk_event
  probe,     \* Document.disk_probe: the slices hashed so far
  changed,   \* Document.content_changed
  shown,     \* State.file_changed_cached: the indicator
  pc,        \* what the interface thread does next
  rescan, touched, drained,  \* locals of poll_events
  failures,
  unseen     \* history: the callback got a change of the file nobody has looked at

NoVersion == [stamp |-> 0, content |-> <<>>]
DiskVersion == [stamp : Stamps, content : Versions]
NoProbe == <<"none">>
Kinds == {"modify", "access"}

(* The values of all variables; a probe holds no more than the baseline. *)
StatusTypeOK ==
  /\ {file, base} \subseteq DiskVersion \cup {NoVersion}
  /\ inflight \subseteq Kinds
  /\ queue \in Seq(Kinds \cup {"rescan"}) /\ Len(queue) <= QueueCapacity
  /\ {overflow, event, changed, shown, rescan, touched, unseen} \subseteq BOOLEAN
  /\ probe = NoProbe \/ Len(probe) <= Len(base.content)
  /\ pc \in {"input", "poll", "drain", "stamp", "status", "read", "verify"}
  /\ drained \in 0 .. QueueCapacity /\ failures \in 0 .. MaxFailures

(* A change the callback was told of and nobody has looked at yet is never   *)
(* forgotten: it waits in the queue, or was dropped and the overflow flag    *)
(* calls for a look, or the poll in progress is on its way to look           *)
(* (queue_event against poll_events).                                        *)
NoEventForgotten ==
  /\ StatusTypeOK
  /\ unseen =>
       \/ overflow
       \/ \E i \in DOMAIN queue : queue[i] \in {"modify", "rescan"}
       \/ pc \in {"drain", "stamp"} /\ (rescan \/ touched)
=============================================================================
