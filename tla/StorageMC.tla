------------------------------ MODULE StorageMC ------------------------------
(***************************************************************************)
(* What is kept on disk, in one run.  A behaviour is either the life of    *)
(* one document whose file other programs write too, or that of several    *)
(* instances that keep recovery sessions.  The state of the other rests.   *)
(* Files, instances and works are interchangeable; texts are not (one is   *)
(* the empty text of a new document).                                      *)
(***************************************************************************)
EXTENDS SafeSave, TLC

CONSTANTS Instances, Ids, Works, None

ASSUME StorageAssumption == None \notin Instances /\ None \notin Works

VARIABLES
  part,
  dirs, leases, lock, snaps, phase, todo, session, entry, kept, entries, docs, fresh,
  begun, owedWorks

Sessions == INSTANCE RecoverySessions WITH Overtaking <- FALSE, owed <- owedWorks

sessionVars == <<dirs, leases, lock, snaps, phase, todo, session, entry, kept, entries, docs,
                 fresh, begun, owedWorks>>

MCInit ==
  /\ Init /\ Sessions!Init
  /\ \/ part = "document"
     \/ part = "sessions" /\ file = [p \in Paths |-> Missing]

MCNext ==
  /\ UNCHANGED part
  /\ \/ part = "document" /\ Next /\ UNCHANGED sessionVars
     \/ part = "sessions" /\ Sessions!Next /\ UNCHANGED vars

MCSpec == MCInit /\ [][MCNext]_<<part, vars, sessionVars>>

\* Work that was checkpointed is in a snapshot until it is saved or discarded
\* (RecoverySessions: TypeOK, NothingLost).
NothingLost == Sessions!TypeOK /\ Sessions!NothingLost

Symmetry ==
  Permutations(Paths) \cup Permutations(Instances) \cup Permutations(Works)
=============================================================================
