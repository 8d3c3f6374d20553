--------------------------- MODULE RecoverySessions ---------------------------
(***************************************************************************)
(* The recovery store of recovery.rs, shared on disk by every instance of  *)
(* the editor.  An instance owns one session: a directory with a lease     *)
(* file, whose OS lock it holds, and one snapshot per unsaved document.    *)
(* At startup it looks through the other sessions, takes the lease of the  *)
(* abandoned ones and offers their snapshots; the user restores or         *)
(* discards them.  One action per file system or lock call that another    *)
(* instance can see; every instance may crash between any two of them.     *)
(*                                                                         *)
(* Session names are unique (process id and time), so a session is named   *)
(* by the instance that made it, and lock[s] is the lock of the one lease  *)
(* file session s ever had: handles opened before the file was unlinked    *)
(* still lock it.                                                          *)
(***************************************************************************)
EXTENDS Naturals, FiniteSets

CONSTANTS
    Instances,  \* runs of the editor; each starts at most once
    Ids,        \* the recovery ids of one instance's documents
    Works,      \* pieces of unsaved work the users begin
    None,       \* no document, no snapshot, no owner
    Overtaking  \* an instance may lock the lease another has just created

ASSUME RecoveryAssumption ==
    /\ None \notin Instances
    /\ None \notin Works
    /\ Overtaking \in BOOLEAN

VARIABLES
    dirs,       \* sessions whose directory exists
    leases,     \* sessions whose lease file exists
    lock,       \* the instance that locks a session's lease
    snaps,      \* the snapshots in a session's directory
    phase,      \* what an instance is doing
    todo,       \* sessions its startup still has to look at
    session,    \* the session it is looking at, removing or restoring from
    entry,      \* the snapshot it is restoring, the document it goes to
    kept,       \* abandoned sessions whose lease it keeps (abandoned_leases)
    entries,    \* snapshots it offers: session and id
    docs,       \* its dirty documents: the work they hold
    fresh,      \* documents whose snapshot is up to date (recovery_generation)
    begun,      \* history: works begun so far
    owed        \* history: works checkpointed, not saved, closed or discarded

files == <<dirs, leases, snaps>>
memory == <<todo, session, entry, kept, entries, docs, fresh>>
history == <<begun, owed>>
vars == <<files, lock, phase, memory, history>>

Phases == {"off", "made", "leased", "scanning", "opened", "locked", "emptying",
           "emptied", "running", "restoring", "restored", "clearing", "cleared",
           "quitting", "unleased", "bare", "gone"}

Starting == {"made", "leased", "scanning", "opened", "locked", "emptying", "emptied"}

NoDocs == [d \in Ids |-> None]

Init ==
    /\ dirs = {} /\ leases = {}
    /\ lock = [i \in Instances |-> None]
    /\ snaps = [i \in Instances |-> NoDocs]
    /\ phase = [i \in Instances |-> "off"]
    /\ todo = [i \in Instances |-> {}]
    /\ session = [i \in Instances |-> None]
    /\ entry = [i \in Instances |-> None]
    /\ kept = [i \in Instances |-> {}]
    /\ entries = [i \in Instances |-> {}]
    /\ docs = [i \in Instances |-> NoDocs]
    /\ fresh = [i \in Instances |-> {}]
    /\ begun = {} /\ owed = {}

Go(i, from, to) ==
    /\ phase[i] = from
    /\ phase' = [phase EXCEPT ![i] = to]

Held(i) == {s \in Instances : lock[s] = i}

\* Mutant of Release: a handle is leaked, and with it the lock.
ReleaseNothing(i, ss) == UNCHANGED lock

\* Closing the handles of the sessions in ss, as far as i locks them.
Release(i, ss) ==
    lock' = [s \in Instances |-> IF s \in ss /\ lock[s] = i THEN None ELSE lock[s]]

\* only_lease_remains: the directory is readable and holds no snapshot.
OnlyLeaseRemains(s) == s \in dirs /\ snaps[s] = NoDocs

-----------------------------------------------------------------------------
(* RecoveryStore::new: the session of its own. *)

MakeDirectory(i) ==
    /\ Go(i, "off", "made")
    /\ dirs' = dirs \cup {i}
    /\ UNCHANGED <<leases, snaps, lock, memory, history>>

CreateLease(i) ==
    /\ Go(i, "made", "leased")
    /\ leases' = leases \cup {i}
    /\ UNCHANGED <<dirs, snaps, lock, memory, history>>

\* File::lock waits for the lock; then the other directories are listed.
LockLease(i) ==
    /\ Go(i, "leased", "scanning")
    /\ lock[i] = None
    /\ lock' = [lock EXCEPT ![i] = i]
    /\ todo' = [todo EXCEPT ![i] = dirs \ {i}]
    /\ UNCHANGED <<files, session, entry, kept, entries, docs, fresh, history>>

-----------------------------------------------------------------------------
(* RecoveryStore::new: the sessions of others. *)

\* A session without a lease file is passed over.
OpenLease(i, s) ==
    /\ s \in todo[i]
    /\ \/ /\ s \in leases
          /\ Go(i, "scanning", "opened")
          /\ session' = [session EXCEPT ![i] = s]
       \/ /\ s \notin leases
          /\ Go(i, "scanning", "scanning")
          /\ UNCHANGED session
    /\ todo' = [todo EXCEPT ![i] = @ \ {s}]
    /\ UNCHANGED <<files, lock, entry, kept, entries, docs, fresh, history>>

\* Mutant of TryLock: the session is looked through whether or not it is locked.
TryLockIgnored(i) ==
    /\ Go(i, "opened", "locked")
    /\ UNCHANGED <<files, lock, memory, history>>

\* new creates its lease file and locks it in two calls.  Overtaking says whether
\* another instance gets between them.
TryLock(i) ==
    /\ phase[i] = "opened"
    /\ phase[session[i]] = "leased" => Overtaking
    /\ \/ /\ lock[session[i]] = None
          /\ Go(i, "opened", "locked")
          /\ lock' = [lock EXCEPT ![session[i]] = i]
          /\ UNCHANGED session
       \/ /\ lock[session[i]] # None
          /\ Go(i, "opened", "scanning")
          /\ session' = [session EXCEPT ![i] = None]
          /\ UNCHANGED lock
    /\ UNCHANGED <<files, todo, entry, kept, entries, docs, fresh, history>>

\* The session's directory disappeared before the lease was locked.
CollectVanished(i) ==
    /\ Go(i, "locked", "scanning")
    /\ session[i] \notin dirs
    /\ Release(i, {session[i]})
    /\ session' = [session EXCEPT ![i] = None]
    /\ UNCHANGED <<files, todo, entry, kept, entries, docs, fresh, history>>

\* Its snapshots are offered, and its lease is kept for as long as they are.
CollectSnapshots(i) ==
    LET s == session[i]
        found == {d \in Ids : snaps[s][d] # None}
    IN  /\ Go(i, "locked", "scanning")
        /\ s \in dirs /\ found # {}
        /\ entries' = [entries EXCEPT ![i] = @ \cup ({s} \X found)]
        /\ kept' = [kept EXCEPT ![i] = @ \cup {s}]
        /\ session' = [session EXCEPT ![i] = None]
        /\ UNCHANGED <<files, lock, todo, entry, docs, fresh, history>>

\* Mutant of CollectEmpty: the lease of an empty session is kept, not removed.
CollectEmptyKeeping(i) ==
    /\ Go(i, "locked", "scanning")
    /\ OnlyLeaseRemains(session[i])
    /\ kept' = [kept EXCEPT ![i] = @ \cup {session[i]}]
    /\ session' = [session EXCEPT ![i] = None]
    /\ UNCHANGED <<files, lock, todo, entry, entries, docs, fresh, history>>

CollectEmpty(i) ==
    /\ Go(i, "locked", "emptying")
    /\ OnlyLeaseRemains(session[i])
    /\ UNCHANGED <<files, lock, memory, history>>

\* remove_empty_session: lease file, directory, and only then the lock.
RemoveLease(i, from, to) ==
    /\ Go(i, from, to)
    /\ leases' = leases \ {session[i]}
    /\ UNCHANGED <<dirs, snaps, lock, memory, history>>

RemoveDirectory(i, from, to) ==
    /\ Go(i, from, to)
    /\ dirs' = IF OnlyLeaseRemains(session[i]) THEN dirs \ {session[i]} ELSE dirs
    /\ Release(i, {session[i]})
    /\ session' = [session EXCEPT ![i] = None]
    /\ UNCHANGED <<leases, snaps, todo, entry, kept, entries, docs, fresh, history>>

FinishStartup(i) ==
    /\ todo[i] = {}
    /\ Go(i, "scanning", "running")
    /\ UNCHANGED <<files, lock, memory, history>>

\* An I/O error while looking: the store is dropped, which removes the session
\* that was just made, and the editor runs without recovery.
FailStartup(i) ==
    /\ phase[i] \in {"scanning", "locked"}
    /\ phase' = [phase EXCEPT ![i] = "bare"]
    /\ dirs' = dirs \ {i}
    /\ leases' = leases \ {i}
    /\ Release(i, Instances)
    /\ todo' = [todo EXCEPT ![i] = {}]
    /\ session' = [session EXCEPT ![i] = None]
    /\ kept' = [kept EXCEPT ![i] = {}]
    /\ entries' = [entries EXCEPT ![i] = {}]
    /\ UNCHANGED <<snaps, entry, docs, fresh, history>>

-----------------------------------------------------------------------------
(* A running instance: unsaved work and its snapshots. *)

\* The user begins to edit something.
Begin(i, d, w) ==
    /\ phase[i] = "running"
    /\ docs[i][d] = None
    /\ w \notin begun
    /\ docs' = [docs EXCEPT ![i][d] = w]
    /\ begun' = begun \cup {w}
    /\ UNCHANGED <<files, lock, phase, todo, session, entry, kept, entries, fresh, owed>>

EditMore(i, d) ==
    /\ phase[i] = "running"
    /\ docs[i][d] # None
    /\ fresh' = [fresh EXCEPT ![i] = @ \ {d}]
    /\ UNCHANGED <<files, lock, phase, todo, session, entry, kept, entries, docs, history>>

\* RecoveryStore::checkpoint replaces the snapshot atomically, if the session's
\* directory is still there to hold it.
Write(i, d) ==
    /\ i \in dirs
    /\ snaps' = [snaps EXCEPT ![i][d] = docs[i][d]]
    /\ fresh' = [fresh EXCEPT ![i] = @ \cup {d}]
    /\ owed' = owed \cup {docs[i][d]}

Checkpoint(i, d) ==
    /\ phase[i] = "running"
    /\ docs[i][d] # None /\ d \notin fresh[i]
    /\ Write(i, d)
    /\ UNCHANGED <<dirs, leases, lock, phase, todo, session, entry, kept, entries,
                   docs, begun>>

\* The document is saved, or closed without saving: clear_recovery.
Settle(i, d) ==
    /\ phase[i] = "running"
    /\ docs[i][d] # None
    /\ owed' = owed \ {docs[i][d]}
    /\ docs' = [docs EXCEPT ![i][d] = None]
    /\ snaps' = [snaps EXCEPT ![i][d] = None]
    /\ fresh' = [fresh EXCEPT ![i] = @ \ {d}]
    /\ UNCHANGED <<dirs, leases, lock, phase, todo, session, entry, kept, entries, begun>>

-----------------------------------------------------------------------------
(* restore_recovery and discard_recovery. *)

\* The snapshot becomes a dirty document of this instance.
Restore(i, e, d) ==
    /\ Go(i, "running", "restoring")
    /\ e \in entries[i]
    /\ docs[i][d] = None
    /\ snaps[e[1]][e[2]] # None
    /\ docs' = [docs EXCEPT ![i][d] = snaps[e[1]][e[2]]]
    /\ entry' = [entry EXCEPT ![i] = [from |-> e, into |-> d]]
    /\ UNCHANGED <<files, lock, todo, session, kept, entries, fresh, history>>

\* Mutant of RestoreCheckpoint: the copy's checkpoint is left to the timer.
RestoreUnchecked(i) ==
    /\ Go(i, "restoring", "restored")
    /\ UNCHANGED <<files, lock, memory, history>>

\* checkpoint_recovery: the copy is written, or the restore ends with an error
\* and the old snapshot is still offered.
RestoreCheckpoint(i) ==
    \/ /\ Go(i, "restoring", "restored")
       /\ Write(i, entry[i].into)
       /\ UNCHANGED <<dirs, leases, lock, todo, session, entry, kept, entries, docs, begun>>
    \/ /\ Go(i, "restoring", "running")
       /\ entry' = [entry EXCEPT ![i] = None]
       /\ UNCHANGED <<files, lock, todo, session, kept, entries, docs, fresh, history>>

\* discard_entry: the snapshot goes; the session goes with its last snapshot.
Drop(i, e, from) ==
    LET s == e[1]
        left == [snaps EXCEPT ![s][e[2]] = None]
        last == s \in dirs /\ left[s] = NoDocs /\ s \in kept[i]
    IN  /\ Go(i, from, IF last THEN "clearing" ELSE "running")
        /\ snaps' = left
        /\ entries' = [entries EXCEPT ![i] = @ \ {e}]
        /\ kept' = [kept EXCEPT ![i] = IF last THEN @ \ {s} ELSE @]
        /\ session' = [session EXCEPT ![i] = IF last THEN s ELSE None]
        /\ entry' = [entry EXCEPT ![i] = None]
        /\ UNCHANGED <<dirs, leases, lock, todo, docs, fresh, begun>>

RestoreDiscard(i) ==
    /\ phase[i] = "restored"
    /\ Drop(i, entry[i].from, "restored")
    /\ UNCHANGED owed

\* The user discards a snapshot that is offered.
DiscardEntry(i, e) ==
    /\ e \in entries[i]
    /\ Drop(i, e, "running")
    /\ owed' = owed \ {snaps[e[1]][e[2]]}

-----------------------------------------------------------------------------
(* The end of an instance. *)

\* Quitting closes every document first; RecoveryStore::drop then removes the
\* session if nothing is left in it, and the locks go with the process.
Quit(i) ==
    /\ Go(i, "running", IF OnlyLeaseRemains(i) THEN "quitting" ELSE "unleased")
    /\ docs[i] = NoDocs
    /\ session' = [session EXCEPT ![i] = i]
    /\ UNCHANGED <<files, lock, todo, entry, kept, entries, docs, fresh, history>>

\* What the process held in memory, and its locks, are gone.
End(i) ==
    /\ Release(i, Instances)
    /\ todo' = [todo EXCEPT ![i] = {}]
    /\ session' = [session EXCEPT ![i] = None]
    /\ entry' = [entry EXCEPT ![i] = None]
    /\ kept' = [kept EXCEPT ![i] = {}]
    /\ entries' = [entries EXCEPT ![i] = {}]
    /\ docs' = [docs EXCEPT ![i] = NoDocs]
    /\ fresh' = [fresh EXCEPT ![i] = {}]
    /\ phase' = [phase EXCEPT ![i] = "gone"]
    /\ UNCHANGED <<leases, snaps, history>>

Leave(i) ==
    /\ phase[i] = "unleased"
    /\ End(i)
    /\ dirs' = IF i \notin leases /\ OnlyLeaseRemains(i) THEN dirs \ {i} ELSE dirs

Crash(i) ==
    /\ phase[i] \notin {"off", "gone"}
    /\ End(i)
    /\ UNCHANGED dirs

\* What an instance does without being asked to.
Step(i) ==
    \/ CreateLease(i)
    \/ LockLease(i)
    \/ \E s \in Instances : OpenLease(i, s)
    \/ TryLock(i)
    \/ CollectVanished(i)
    \/ CollectSnapshots(i)
    \/ CollectEmpty(i)
    \/ RemoveLease(i, "emptying", "emptied")
    \/ RemoveDirectory(i, "emptied", "scanning")
    \/ FinishStartup(i)
    \/ \E d \in Ids : Checkpoint(i, d)
    \/ RestoreCheckpoint(i)
    \/ RestoreDiscard(i)
    \/ RemoveLease(i, "clearing", "cleared")
    \/ RemoveDirectory(i, "cleared", "running")
    \/ RemoveLease(i, "quitting", "unleased")
    \/ Leave(i)

\* What its user, an I/O error or a crash does to it.
Event(i) ==
    \/ MakeDirectory(i)
    \/ FailStartup(i)
    \/ \E d \in Ids, w \in Works : Begin(i, d, w)
    \/ \E d \in Ids : EditMore(i, d)
    \/ \E d \in Ids : Settle(i, d)
    \/ \E e \in entries[i], d \in Ids : Restore(i, e, d)
    \/ \E e \in entries[i] : DiscardEntry(i, e)
    \/ Quit(i)
    \/ Crash(i)

Next == \E i \in Instances : Step(i) \/ Event(i)

Spec == Init /\ [][Next]_vars

\* A process that is not waiting for a lock or for its user runs.
FairSpec == Spec /\ \A i \in Instances : WF_vars(Step(i))

-----------------------------------------------------------------------------
(* Properties *)

\* Every variable keeps its shape.  A lock that outlives its handle, or an offer
\* of an instance that is gone, would show here.
TypeOK ==
    /\ dirs \subseteq Instances /\ leases \subseteq Instances
    /\ lock \in [Instances -> Instances \cup {None}]
    /\ snaps \in [Instances -> [Ids -> Works \cup {None}]]
    /\ phase \in [Instances -> Phases]
    /\ todo \in [Instances -> SUBSET Instances]
    /\ session \in [Instances -> Instances \cup {None}]
    /\ \A i \in Instances :
         entry[i] = None \/ entry[i] \in [from : Instances \X Ids, into : Ids]
    /\ kept \in [Instances -> SUBSET Instances]
    /\ entries \in [Instances -> SUBSET (Instances \X Ids)]
    /\ docs \in [Instances -> [Ids -> Works \cup {None}]]
    /\ fresh \in [Instances -> SUBSET Ids]
    /\ begun \subseteq Works /\ owed \subseteq begun
    /\ \A i \in Instances : phase[i] \in {"off", "gone", "bare"} => Held(i) = {}

\* Work that was checkpointed is in a snapshot of a session that a later instance
\* can find, by its directory and lease file, until it is saved, closed or
\* discarded by the user: restoring, cleaning up and crashing anywhere in between
\* lose no snapshot.
NothingLost ==
    \A w \in owed : \E s \in dirs \cap leases, d \in Ids : snaps[s][d] = w

\* A snapshot is offered by one instance at most, the one that locks its session,
\* and never while the instance that writes it is alive.
OffersAreExclusive ==
    \A i \in Instances : \A e \in entries[i] :
       /\ lock[e[1]] = i
       /\ phase[e[1]] \in {"gone", "bare"}

\* Startups that find each other's sessions half-made all come to an end: an
\* instance waiting for the lock of its own lease gets it.
StartupsEnd ==
    \A i \in Instances : phase[i] \in Starting ~> phase[i] \notin Starting

\* "Each running editor holds an OS lock on its own session; other instances only
\* offer abandoned sessions" (recovery.rs:4-5): a running instance has the session
\* that its snapshots go to, and nobody removed it as abandoned.
RunningHasSession ==
    \A i \in Instances :
       phase[i] = "running" => i \in dirs \cap leases /\ lock[i] = i
=============================================================================
