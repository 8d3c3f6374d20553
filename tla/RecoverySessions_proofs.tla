------------------------ MODULE RecoverySessions_proofs ------------------------
(***************************************************************************)
(* For any number of instances: no snapshot is offered twice, and none is  *)
(* lost while it is owed, wherever instances crash.                        *)
(***************************************************************************)
EXTENDS RecoverySessions, TLAPS

\* An instance that took the lock of its own session and lives.
Alive ==
  {"scanning", "opened", "locked", "emptying", "emptied", "running", "restoring", "restored",
   "clearing", "cleared", "quitting", "unleased"}

Dead == {"gone", "bare"}

\* It has the lease of another session in hand, or has locked it as well.
Looking == {"opened", "locked", "emptying", "emptied", "clearing", "cleared"}
Holding == Looking \ {"opened"}
Emptying == Holding \ {"locked"}

Shapes ==
  /\ dirs \subseteq Instances /\ leases \subseteq Instances
  /\ lock \in [Instances -> Instances \cup {None}]
  /\ snaps \in [Instances -> [Ids -> Works \cup {None}]]
  /\ phase \in [Instances -> Phases]
  /\ todo \in [Instances -> SUBSET Instances]
  /\ session \in [Instances -> Instances \cup {None}]
  /\ entry \in [Instances -> {None} \cup [from : Instances \X Ids, into : Ids]]
  /\ kept \in [Instances -> SUBSET Instances]
  /\ entries \in [Instances -> SUBSET (Instances \X Ids)]
  /\ docs \in [Instances -> [Ids -> Works \cup {None}]]
  /\ fresh \in [Instances -> SUBSET Ids]
  /\ begun \subseteq Works /\ owed \subseteq begun

\* Who locks what.
Locks ==
  /\ \A i \in Instances : phase[i] \in Alive => lock[i] = i
  /\ \A i, s \in Instances : lock[s] = i => phase[i] \notin {"off"} \cup Dead
  /\ \A i \in Instances : i \notin todo[i]
  /\ \A i \in Instances : phase[i] \in Looking => session[i] \in Instances /\ session[i] # i
  /\ \A i \in Instances : phase[i] \in Holding => lock[session[i]] = i
  /\ \A i \in Instances : phase[i] = "quitting" => session[i] = i

\* What is offered.
Offers ==
  /\ \A i \in Instances : \A e \in entries[i] :
       lock[e[1]] = i /\ phase[e[1]] \in Dead /\ snaps[e[1]][e[2]] # None
  /\ \A i \in Instances : \A e \in entries[i] : phase[i] \in Holding => e[1] # session[i]
  /\ \A i \in Instances : phase[i] \in {"restoring", "restored"} =>
       /\ entry[i].from \in entries[i] /\ entry[i].into \in Ids
       /\ docs[i][entry[i].into] = snaps[entry[i].from[1]][entry[i].from[2]]

\* What the snapshots hold.
Snapshots ==
  /\ \A i \in Instances, d \in Ids : docs[i][d] \in begun \cup {None}
  /\ \A i \in Instances, d \in Ids : snaps[i][d] \in begun \cup {None}
  /\ \A i \in Instances : phase[i] \in Starting \cup {"off", "quitting"} => snaps[i] = NoDocs
  /\ \A i \in Instances : phase[i] \in Emptying => snaps[session[i]] = NoDocs
  /\ \A i \in Instances, d \in Ids :
       phase[i] \in Alive => snaps[i][d] \in {None, docs[i][d]}
  /\ \A i \in Instances :
       phase[i] = "restored" => snaps[i][entry[i].into] = docs[i][entry[i].into]

\* Where they can be found, if nobody overtakes.
Standing ==
  /\ \A s \in leases : phase[s] \notin {"off", "made"}
  /\ \A i \in Instances : phase[i] \in Looking => phase[session[i]] \notin {"off", "made"}
  /\ \A i \in Instances : phase[i] \in Holding => phase[session[i]] \in Dead
  /\ \A i \in Instances :
       phase[i] \in {"leased"} \cup (Alive \ {"quitting", "unleased"}) => i \in leases
  /\ \A i \in Instances :
       phase[i] \in {"made", "leased"} \cup (Alive \ {"quitting", "unleased"}) => i \in dirs

IInv ==
  /\ Shapes
  /\ Locks
  /\ Offers
  /\ Snapshots
  /\ ~Overtaking => Standing /\ NothingLost

LEMMA MakeDirectoryKeeps ==
  ASSUME IInv, NEW i \in Instances, MakeDirectory(i)
  PROVE  IInv'
<1>1. Shapes'
  BY RecoveryAssumption DEF IInv, Shapes, Phases, MakeDirectory, Go, files, memory, history,
     NoDocs
<1>2. Locks'
  BY DEF IInv, Locks, Alive, Looking, Holding, MakeDirectory, Go, memory
<1>3. Offers'
  BY DEF IInv, Shapes, Locks, Offers, Dead, MakeDirectory, Go, memory
<1>4. Snapshots'
  BY DEF IInv, Snapshots, Looking, Holding, Emptying, MakeDirectory, Go, memory, history, NoDocs
<1>5. ASSUME ~Overtaking PROVE Standing'
  BY <1>5 DEF IInv, Standing, Alive, Looking, Holding, MakeDirectory, Go, memory
<1>6. ASSUME ~Overtaking PROVE NothingLost'
  BY <1>6 DEF IInv, NothingLost, MakeDirectory, history
<1> QED BY <1>1, <1>2, <1>3, <1>4, <1>5, <1>6 DEF IInv

LEMMA CreateLeaseKeeps ==
  ASSUME IInv, NEW i \in Instances, CreateLease(i)
  PROVE  IInv'
<1>1. Shapes'
  BY RecoveryAssumption DEF IInv, Shapes, Phases, CreateLease, Go, files, memory, history,
     NoDocs
<1>2. Locks'
  BY DEF IInv, Locks, Alive, Dead, Looking, Holding, CreateLease, Go, memory
<1>3. Offers'
  BY DEF IInv, Offers, Dead, Looking, Holding, CreateLease, Go, memory
<1>4. Snapshots'
  BY DEF IInv, Snapshots, Looking, Holding, Emptying, Starting, CreateLease, Go, memory,
     history, NoDocs
<1>5. ASSUME ~Overtaking PROVE Standing'
  BY <1>5 DEF IInv, Shapes, Standing, Looking, Holding, CreateLease, Go, memory
<1>6. ASSUME ~Overtaking PROVE NothingLost'
  BY <1>6 DEF IInv, NothingLost, CreateLease, history
<1> QED BY <1>1, <1>2, <1>3, <1>4, <1>5, <1>6 DEF IInv

LEMMA LockLeaseKeeps ==
  ASSUME IInv, NEW i \in Instances, LockLease(i)
  PROVE  IInv'
<1>1. Shapes'
  BY RecoveryAssumption DEF IInv, Shapes, Phases, LockLease, Go, files, memory, history, NoDocs
<1>2. Locks'
  BY RecoveryAssumption DEF IInv, Shapes, Locks, Dead, Looking, Holding, LockLease, Go
<1>3. Offers'
  BY DEF IInv, Offers, Dead, Looking, Holding, LockLease, Go, files
<1>4. Snapshots'
  BY DEF IInv, Snapshots, Looking, Holding, Emptying, Starting, LockLease, Go, files,
     history, NoDocs
<1>5. ASSUME ~Overtaking PROVE Standing'
  BY <1>5 DEF IInv, Standing, Dead, Looking, Holding, LockLease, Go, files
<1>6. ASSUME ~Overtaking PROVE NothingLost'
  BY <1>6 DEF IInv, NothingLost, LockLease, files, history
<1> QED BY <1>1, <1>2, <1>3, <1>4, <1>5, <1>6 DEF IInv

LEMMA OpenLeaseKeeps ==
  ASSUME IInv, NEW i \in Instances, NEW s \in Instances, OpenLease(i, s)
  PROVE  IInv'
<1>1. CASE s \in leases
  <2>0. /\ s \in todo[i] /\ phase[i] = "scanning"
       /\ phase' = [phase EXCEPT ![i] = "opened"]
       /\ session' = [session EXCEPT ![i] = s]
       /\ todo' = [todo EXCEPT ![i] = @ \ {s}]
       /\ UNCHANGED <<files, lock, entry, kept, entries, docs, fresh, history>>
    BY <1>1 DEF IInv, Shapes, Locks, Looking, OpenLease, Go, files, memory, history, Phases
  <2>1. Shapes'
    BY <2>0, RecoveryAssumption DEF IInv, Shapes, Phases, files, history, NoDocs
  <2>2. Locks'
    BY <2>0 DEF IInv, Shapes, Locks, Alive, Dead, Holding
  <2>3. Offers'
    BY <2>0 DEF IInv, Shapes, Locks, Offers, Alive, Holding, files
  <2>4. Snapshots'
    BY <2>0 DEF IInv, Shapes, Snapshots, Holding, Emptying, Starting, files, history, NoDocs
  <2>5. ASSUME ~Overtaking PROVE Standing'
    <3>1. Standing /\ phase[s] \notin {"off", "made"} /\ s # i
      BY <1>1, <2>0, <2>5 DEF IInv, Locks, Standing
    <3> QED BY <2>0, <3>1 DEF IInv, Shapes, Standing, Alive, Dead, Looking, Holding, files
  <2>6. ASSUME ~Overtaking PROVE NothingLost'
    BY <2>0, <2>6 DEF IInv, NothingLost, files, history
  <2> QED BY <2>1, <2>2, <2>3, <2>4, <2>5, <2>6 DEF IInv
<1>2. CASE s \notin leases
  <2>0. /\ phase' = [phase EXCEPT ![i] = "scanning"] /\ phase[i] = "scanning"
       /\ todo' = [todo EXCEPT ![i] = @ \ {s}]
       /\ UNCHANGED <<files, lock, session, entry, kept, entries, docs, fresh, history>>
    BY <1>2 DEF IInv, Shapes, Locks, Looking, OpenLease, Go, files, memory, history, Phases
  <2>1. Shapes'
    BY <2>0, RecoveryAssumption DEF IInv, Shapes, Phases, files, history, NoDocs
  <2>2. Locks'
    BY <2>0 DEF IInv, Locks
  <2>3. Offers'
    BY <2>0 DEF IInv, Offers, files
  <2>4. Snapshots'
    BY <2>0 DEF IInv, Snapshots, files, history
  <2>5. ASSUME ~Overtaking PROVE Standing'
    BY <2>0, <2>5 DEF IInv, Standing, files
  <2>6. ASSUME ~Overtaking PROVE NothingLost'
    BY <2>0, <2>6 DEF IInv, NothingLost, files, history
  <2> QED BY <2>1, <2>2, <2>3, <2>4, <2>5, <2>6 DEF IInv
<1> QED BY <1>1, <1>2

LEMMA TryLockKeeps ==
  ASSUME IInv, NEW i \in Instances, TryLock(i)
  PROVE  IInv'
<1>1. CASE lock[session[i]] = None
  <2> PICK s \in Instances : session[i] = s /\ s # i
    BY DEF IInv, Locks, Looking, TryLock
  <2>0. /\ phase[i] = "opened" /\ lock[s] = None /\ s # i /\ session[i] = s
       /\ (phase[s] = "leased" => Overtaking)
       /\ phase' = [phase EXCEPT ![i] = "locked"]
       /\ lock' = [lock EXCEPT ![s] = i]
       /\ UNCHANGED <<files, session, todo, entry, kept, entries, docs, fresh, history>>
    BY <1>1 DEF IInv, Shapes, Locks, Looking, TryLock, Go, files, memory, history, Phases
  <2>1. Shapes'
    BY <2>0, RecoveryAssumption DEF IInv, Shapes, Phases, files, history, NoDocs
  <2>2. Locks'
    BY <2>0, RecoveryAssumption DEF IInv, Shapes, Locks, Alive, Dead
  <2>3. Offers'
    BY <2>0, RecoveryAssumption DEF IInv, Locks, Offers, Alive, files
  <2>4. Snapshots'
    BY <2>0 DEF IInv, Snapshots, Emptying, Starting, files, history, NoDocs
  <2>5. ASSUME ~Overtaking PROVE Standing'
    <3>1. Standing /\ phase[s] \notin {"off", "made", "leased"}
      BY <2>0, <2>5 DEF IInv, Standing, Looking
    <3>2. phase[s] \notin Alive
      BY <2>0, RecoveryAssumption DEF IInv, Locks
    <3>3. phase[s] \in Dead
      BY <3>1, <3>2 DEF IInv, Shapes, Phases, Alive, Dead
    <3> QED BY <2>0, <3>1, <3>3 DEF IInv, Shapes, Standing, Alive, Dead, Looking, Holding, files
  <2>6. ASSUME ~Overtaking PROVE NothingLost'
    BY <2>0, <2>6 DEF IInv, NothingLost, files, history
  <2> QED BY <2>1, <2>2, <2>3, <2>4, <2>5, <2>6 DEF IInv
<1>2. CASE lock[session[i]] # None
  <2>0. /\ phase[i] = "opened"
       /\ phase' = [phase EXCEPT ![i] = "scanning"]
       /\ session' = [session EXCEPT ![i] = None]
       /\ UNCHANGED <<files, lock, todo, entry, kept, entries, docs, fresh, history>>
    BY <1>2 DEF IInv, Shapes, Locks, Looking, TryLock, Go, files, memory, history, Phases
  <2>1. Shapes'
    BY <2>0, RecoveryAssumption DEF IInv, Shapes, Phases, files, history, NoDocs
  <2>2. Locks'
    BY <2>0 DEF IInv, Shapes, Locks, Alive, Dead, Looking, Holding
  <2>3. Offers'
    BY <2>0 DEF IInv, Locks, Offers, Alive, Looking, Holding, files
  <2>4. Snapshots'
    BY <2>0 DEF IInv, Snapshots, Looking, Holding, Emptying, Starting, files, history, NoDocs
  <2>5. ASSUME ~Overtaking PROVE Standing'
    BY <2>0, <2>5 DEF IInv, Shapes, Locks, Standing, Alive, Looking, Holding, files
  <2>6. ASSUME ~Overtaking PROVE NothingLost'
    BY <2>0, <2>6 DEF IInv, NothingLost, files, history
  <2> QED BY <2>1, <2>2, <2>3, <2>4, <2>5, <2>6 DEF IInv
<1> QED BY <1>1, <1>2

LEMMA CollectVanishedKeeps ==
  ASSUME IInv, NEW i \in Instances, CollectVanished(i)
  PROVE  IInv'
<1>1. Shapes'
  BY DEF IInv, Shapes, Phases, CollectVanished, Go, Release, files, history
<1>2. Locks'
  BY RecoveryAssumption DEF IInv, Shapes, Locks, Alive, Dead, Looking, Holding,
     CollectVanished, Go, Release
<1>3. Offers'
  BY DEF IInv, Shapes, Locks, Offers, Looking, Holding, CollectVanished, Go, Release, files
<1>4. Snapshots'
  BY DEF IInv, Snapshots, Looking, Holding, Emptying, Starting, CollectVanished, Go, files,
     history, NoDocs
<1>5. ASSUME ~Overtaking PROVE Standing'
  BY <1>5 DEF IInv, Shapes, Locks, Standing, Alive, Looking, Holding, CollectVanished, Go, files
<1>6. ASSUME ~Overtaking PROVE NothingLost'
  BY <1>6 DEF IInv, NothingLost, CollectVanished, files, history
<1> QED BY <1>1, <1>2, <1>3, <1>4, <1>5, <1>6 DEF IInv

LEMMA CollectSnapshotsKeeps ==
  ASSUME IInv, NEW i \in Instances, CollectSnapshots(i)
  PROVE  IInv'
<1>1. Shapes'
  BY DEF IInv, Shapes, Phases, CollectSnapshots, Go, files, history
<1>2. Locks'
  BY DEF IInv, Shapes, Locks, Alive, Dead, Looking, Holding, CollectSnapshots, Go
<1>3. Offers'
  <2>1. session[i] \in Instances /\ session[i] # i /\ lock[session[i]] = i
    BY DEF IInv, Locks, Holding, Looking, CollectSnapshots, Go
  <2>2. \E d \in Ids : snaps[session[i]][d] # None
    BY DEF CollectSnapshots
  <2>3. snaps[session[i]] # NoDocs
    BY <2>2 DEF NoDocs
  <2>4. phase[session[i]] \in Dead
    BY <2>1, <2>3 DEF IInv, Shapes, Locks, Snapshots, Starting, Alive, Dead, Phases
  <2>5. \A e \in entries'[i] : e \in entries[i]
                               \/ e \in {session[i]} \X {d \in Ids : snaps[session[i]][d] # None}
    BY DEF IInv, Shapes, CollectSnapshots
  <2>6. \A e \in entries'[i] : e \in entries[i] \/ (e[1] = session[i] /\ snaps[e[1]][e[2]] # None)
    BY <2>5
  <2> QED BY <2>1, <2>4 DEF IInv, Shapes, Offers, CollectSnapshots, Go, Dead, files, Holding,
     Looking
<1>4. Snapshots'
  BY DEF IInv, Snapshots, Looking, Holding, Emptying, Starting, CollectSnapshots, Go, files,
     history, NoDocs
<1>5. ASSUME ~Overtaking PROVE Standing'
  BY <1>5 DEF IInv, Shapes, Locks, Standing, Alive, Looking, Holding, CollectSnapshots, Go,
     files
<1>6. ASSUME ~Overtaking PROVE NothingLost'
  BY <1>6 DEF IInv, NothingLost, CollectSnapshots, files, history
<1> QED BY <1>1, <1>2, <1>3, <1>4, <1>5, <1>6 DEF IInv

LEMMA CollectEmptyKeeps ==
  ASSUME IInv, NEW i \in Instances, CollectEmpty(i)
  PROVE  IInv'
<1>1. Shapes'
  BY DEF IInv, Shapes, Phases, CollectEmpty, Go, files, memory, history
<1>2. Locks'
  BY DEF IInv, Locks, Alive, Dead, Looking, Holding, CollectEmpty, Go, memory
<1>3. Offers'
  BY DEF IInv, Offers, Dead, Looking, Holding, CollectEmpty, Go, files, memory
<1>4. Snapshots'
  BY DEF IInv, Snapshots, Starting, CollectEmpty, Go, OnlyLeaseRemains, files, memory,
     history, NoDocs
<1>5. ASSUME ~Overtaking PROVE Standing'
  BY <1>5 DEF IInv, Locks, Standing, Alive, Looking, Holding, CollectEmpty, Go, files, memory
<1>6. ASSUME ~Overtaking PROVE NothingLost'
  BY <1>6 DEF IInv, NothingLost, CollectEmpty, files, history
<1> QED BY <1>1, <1>2, <1>3, <1>4, <1>5, <1>6 DEF IInv

LEMMA RemoveLeaseKeeps ==
  ASSUME IInv, NEW i \in Instances, NEW from, NEW to,
         <<from, to>> \in {<<"emptying", "emptied">>, <<"clearing", "cleared">>,
                          <<"quitting", "unleased">>},
         RemoveLease(i, from, to)
  PROVE  IInv'
<1>1. Shapes'
  BY RecoveryAssumption DEF IInv, Shapes, Phases, RemoveLease, Go, files, memory, history,
     NoDocs
<1>2. Locks'
  BY DEF IInv, Locks, Alive, Dead, Looking, Holding, RemoveLease, Go, memory
<1>3. Offers'
  BY DEF IInv, Locks, Offers, Alive, Looking, Holding, RemoveLease, Go, memory
<1>4. Snapshots'
  BY DEF IInv, Snapshots, Alive, Looking, Holding, Emptying, Starting, RemoveLease, Go,
     memory, history
<1>5. ASSUME ~Overtaking PROVE Standing'
  <2>0. phase[i] = from /\ from \in {"emptying", "clearing", "quitting"}
    BY DEF RemoveLease, Go
  <2>1. Standing
    BY <1>5 DEF IInv
  <2>2. session[i] \in Instances /\ (session[i] = i \/ lock[session[i]] = i)
    BY DEF IInv, Locks, Holding, Looking, RemoveLease, Go
  <2>3. \A j \in Instances : phase[j] \in Alive /\ j # i => j # session[i]
    BY <2>2, RecoveryAssumption DEF IInv, Locks
  <2>4. session[i] = i <=> from = "quitting"
    BY DEF IInv, Locks, Holding, Looking, RemoveLease, Go
  <2>5. phase[session[i]] # "leased"
    BY <2>0, <2>1, <2>2, <2>4 DEF Holding, Looking, Standing, Dead
  <2>6. /\ phase' = [phase EXCEPT ![i] = to] /\ leases' = leases \ {session[i]}
        /\ UNCHANGED <<dirs, session>>
        /\ to \in {"emptied", "cleared", "unleased"} /\ (to = "unleased" <=> from = "quitting")
    BY DEF RemoveLease, Go, memory
  <2>7. \A j \in Instances : j # i => phase'[j] = phase[j]
    BY <2>6 DEF IInv, Shapes
  <2>8. \A s \in leases' : phase'[s] \notin {"off", "made"}
    BY <2>1, <2>6, <2>7 DEF IInv, Shapes, Standing
  <2>9. \A j \in Instances : phase'[j] \in Looking =>
        phase[j] \in Looking /\ phase'[session'[j]] \notin {"off", "made"}
    BY <2>0, <2>1, <2>6, <2>7 DEF IInv, Shapes, Locks, Standing, Looking, Holding, Dead
  <2>10. \A j \in Instances : phase'[j] \in Holding => phase'[session'[j]] \in Dead
    BY <2>0, <2>1, <2>6, <2>7 DEF IInv, Shapes, Locks, Standing, Looking, Holding, Dead
  <2>11. \A j \in Instances :
           phase'[j] \in {"leased"} \cup (Alive \ {"quitting", "unleased"}) => j \in leases'
    BY <2>0, <2>1, <2>3, <2>4, <2>5, <2>6, <2>7 DEF IInv, Shapes, Standing, Alive
  <2>12. \A j \in Instances :
           phase'[j] \in {"made", "leased"} \cup (Alive \ {"quitting", "unleased"}) => j \in dirs'
    BY <2>0, <2>1, <2>6, <2>7 DEF IInv, Shapes, Standing, Alive
  <2> QED BY <2>8, <2>9, <2>10, <2>11, <2>12 DEF Standing
<1>6. ASSUME ~Overtaking PROVE NothingLost'
  <2>1. session[i] \in Instances /\ snaps[session[i]] = NoDocs
    BY DEF IInv, Locks, Snapshots, Starting, Emptying, Holding, Looking, RemoveLease, Go
  <2>2. \A d \in Ids : snaps[session[i]][d] = None
    BY <2>1 DEF NoDocs
  <2>3. None \notin owed
    BY RecoveryAssumption DEF IInv, Shapes
  <2> QED BY <1>6, <2>2, <2>3 DEF IInv, NothingLost, RemoveLease, history
<1> QED BY <1>1, <1>2, <1>3, <1>4, <1>5, <1>6 DEF IInv

LEMMA RemoveDirectoryKeeps ==
  ASSUME IInv, NEW i \in Instances, NEW from, NEW to,
         <<from, to>> \in {<<"emptied", "scanning">>, <<"cleared", "running">>},
         RemoveDirectory(i, from, to)
  PROVE  IInv'
<1>1. Shapes'
  BY DEF IInv, Shapes, Phases, RemoveDirectory, Go, Release, history
<1>2. Locks'
  BY RecoveryAssumption DEF IInv, Shapes, Locks, Alive, Dead, Looking, Holding,
     RemoveDirectory, Go, Release
<1>3. Offers'
  BY DEF IInv, Shapes, Locks, Offers, Looking, Holding, RemoveDirectory, Go, Release
<1>4. Snapshots'
  BY DEF IInv, Shapes, Snapshots, Alive, Looking, Holding, Emptying, Starting,
     RemoveDirectory, Go, history
<1>5. ASSUME ~Overtaking PROVE Standing'
  <2>1. Standing
    BY <1>5 DEF IInv
  <2>2. session[i] \in Instances /\ phase[session[i]] \in Dead
    BY <2>1 DEF IInv, Locks, Standing, Holding, Looking, RemoveDirectory, Go
  <2>3. \A j \in Instances : phase'[j] \in {"made", "leased"} \cup Alive =>
        j # session[i] /\ (j \in dirs => j \in dirs')
    BY <2>2 DEF IInv, Shapes, RemoveDirectory, Go, Alive, Dead
  <2> QED BY <2>1, <2>3 DEF IInv, Shapes, Standing, RemoveDirectory, Go, Alive, Dead,
     Looking, Holding
<1>6. ASSUME ~Overtaking PROVE NothingLost'
  <2>1. \A s \in dirs : s \in dirs' \/ snaps[s] = NoDocs
    BY DEF RemoveDirectory, OnlyLeaseRemains
  <2>2. \A s \in dirs, d \in Ids : s \in dirs' \/ snaps[s][d] = None
    BY <2>1 DEF NoDocs
  <2>3. None \notin owed
    BY RecoveryAssumption DEF IInv, Shapes
  <2> QED BY <1>6, <2>2, <2>3 DEF IInv, NothingLost, RemoveDirectory, history
<1> QED BY <1>1, <1>2, <1>3, <1>4, <1>5, <1>6 DEF IInv

LEMMA FinishStartupKeeps ==
  ASSUME IInv, NEW i \in Instances, FinishStartup(i)
  PROVE  IInv'
<1>1. Shapes'
  BY RecoveryAssumption DEF IInv, Shapes, Phases, FinishStartup, Go, files, memory, history,
     NoDocs
<1>2. Locks'
  BY DEF IInv, Locks, Alive, Dead, Looking, Holding, FinishStartup, Go, memory
<1>3. Offers'
  BY DEF IInv, Locks, Offers, Alive, Looking, Holding, FinishStartup, Go, files, memory
<1>4. Snapshots'
  BY DEF IInv, Snapshots, Looking, Holding, Emptying, Starting, FinishStartup, Go, files,
     memory, history, NoDocs
<1>5. ASSUME ~Overtaking PROVE Standing'
  BY <1>5 DEF IInv, Standing, Alive, Dead, Looking, Holding, FinishStartup, Go, files, memory
<1>6. ASSUME ~Overtaking PROVE NothingLost'
  BY <1>6 DEF IInv, NothingLost, FinishStartup, files, history
<1> QED BY <1>1, <1>2, <1>3, <1>4, <1>5, <1>6 DEF IInv

LEMMA FailStartupKeeps ==
  ASSUME IInv, NEW i \in Instances, FailStartup(i)
  PROVE  IInv'
<1>1. Shapes'
  BY DEF IInv, Shapes, Phases, FailStartup, Release, history
<1>2. Locks'
  BY RecoveryAssumption DEF IInv, Shapes, Locks, Alive, Looking, Holding, FailStartup, Release
<1>3. Offers'
  BY DEF IInv, Shapes, Locks, Offers, Alive, FailStartup, Release
<1>4. Snapshots'
  BY DEF IInv, Snapshots, Looking, Holding, Emptying, Starting, FailStartup, history, NoDocs
<1>5. ASSUME ~Overtaking PROVE Standing'
  BY <1>5 DEF IInv, Shapes, Locks, Standing, Alive, Looking, Holding, FailStartup
<1>6. ASSUME ~Overtaking PROVE NothingLost'
  <2>1. snaps[i] = NoDocs
    BY DEF IInv, Snapshots, Starting, FailStartup
  <2>2. \A d \in Ids : snaps[i][d] = None
    BY <2>1 DEF NoDocs
  <2>3. None \notin owed
    BY RecoveryAssumption DEF IInv, Shapes
  <2> QED BY <1>6, <2>2, <2>3 DEF IInv, NothingLost, FailStartup, history
<1> QED BY <1>1, <1>2, <1>3, <1>4, <1>5, <1>6 DEF IInv

LEMMA BeginKeeps ==
  ASSUME IInv, NEW i \in Instances, NEW d \in Ids, NEW w \in Works, Begin(i, d, w)
  PROVE  IInv'
<1>1. Shapes'
  BY RecoveryAssumption DEF IInv, Shapes, Phases, Begin, files, memory, history, NoDocs
<1>2. Locks'
  BY DEF IInv, Locks, Begin
<1>3. Offers'
  BY DEF IInv, Offers, Begin, files
<1>4. Snapshots'
  BY DEF IInv, Snapshots, Begin, files
<1>5. ASSUME ~Overtaking PROVE Standing'
  BY <1>5 DEF IInv, Standing, Begin, files
<1>6. ASSUME ~Overtaking PROVE NothingLost'
  BY <1>6 DEF IInv, NothingLost, Begin, files
<1> QED BY <1>1, <1>2, <1>3, <1>4, <1>5, <1>6 DEF IInv

LEMMA EditMoreKeeps ==
  ASSUME IInv, NEW i \in Instances, NEW d \in Ids, EditMore(i, d)
  PROVE  IInv'
<1>1. Shapes'
  BY RecoveryAssumption DEF IInv, Shapes, Phases, EditMore, files, memory, history, NoDocs
<1>2. Locks'
  BY DEF IInv, Locks, EditMore
<1>3. Offers'
  BY DEF IInv, Offers, EditMore, files
<1>4. Snapshots'
  BY DEF IInv, Snapshots, EditMore, files, history
<1>5. ASSUME ~Overtaking PROVE Standing'
  BY <1>5 DEF IInv, Standing, EditMore, files
<1>6. ASSUME ~Overtaking PROVE NothingLost'
  BY <1>6 DEF IInv, NothingLost, EditMore, files, history
<1> QED BY <1>1, <1>2, <1>3, <1>4, <1>5, <1>6 DEF IInv

LEMMA CheckpointKeeps ==
  ASSUME IInv, NEW i \in Instances, NEW d \in Ids, Checkpoint(i, d)
  PROVE  IInv'
<1>1. Shapes'
  BY DEF IInv, Shapes, Snapshots, Checkpoint, Write
<1>2. Locks'
  BY DEF IInv, Locks, Checkpoint
<1>3. Offers'
  BY DEF IInv, Locks, Offers, Alive, Checkpoint, Write
<1>4. Snapshots'
  BY DEF IInv, Locks, Snapshots, Alive, Holding, Emptying, Starting, Checkpoint, Write
<1>5. ASSUME ~Overtaking PROVE Standing'
  BY <1>5 DEF IInv, Standing, Checkpoint
<1>6. ASSUME ~Overtaking PROVE NothingLost'
  <2>1. i \in dirs \cap leases
    BY <1>6 DEF IInv, Standing, Alive, Checkpoint
  <2>2. snaps'[i][d] = docs[i][d] /\ snaps[i][d] \in {None, docs[i][d]}
    BY DEF IInv, Shapes, Snapshots, Alive, Checkpoint, Write
  <2>3. \A s \in Instances, c \in Ids : s # i \/ c # d => snaps'[s][c] = snaps[s][c]
    BY DEF IInv, Shapes, Checkpoint, Write
  <2>4. None \notin owed
    BY RecoveryAssumption DEF IInv, Shapes
  <2>5. \A w \in owed : \E s \in dirs \cap leases, c \in Ids : snaps'[s][c] = w
    <3> SUFFICES ASSUME NEW w \in owed
                 PROVE  \E s \in dirs \cap leases, c \in Ids : snaps'[s][c] = w
      OBVIOUS
    <3>1. PICK s \in dirs \cap leases, c \in Ids : snaps[s][c] = w
      BY <1>6 DEF IInv, NothingLost
    <3>2. CASE s = i /\ c = d
      BY <2>1, <2>2, <2>4, <3>1, <3>2
    <3>3. CASE s # i \/ c # d
      BY <2>3, <3>1, <3>3 DEF IInv, Shapes
    <3> QED BY <3>2, <3>3
  <2> QED BY <2>1, <2>2, <2>5 DEF NothingLost, Checkpoint, Write
<1> QED BY <1>1, <1>2, <1>3, <1>4, <1>5, <1>6 DEF IInv

LEMMA SettleKeeps ==
  ASSUME IInv, NEW i \in Instances, NEW d \in Ids, Settle(i, d)
  PROVE  IInv'
<1>1. Shapes'
  BY DEF IInv, Shapes, Settle
<1>2. Locks'
  BY DEF IInv, Locks, Settle
<1>3. Offers'
  BY DEF IInv, Locks, Offers, Alive, Settle
<1>4. Snapshots'
  BY DEF IInv, Shapes, Locks, Snapshots, Alive, Holding, Emptying, Starting, Settle
<1>5. ASSUME ~Overtaking PROVE Standing'
  BY <1>5 DEF IInv, Standing, Settle
<1>6. ASSUME ~Overtaking PROVE NothingLost'
  BY <1>6 DEF IInv, Snapshots, Alive, NothingLost, Settle
<1> QED BY <1>1, <1>2, <1>3, <1>4, <1>5, <1>6 DEF IInv

LEMMA RestoreKeeps ==
  ASSUME IInv, NEW i \in Instances, NEW e \in entries[i], NEW d \in Ids, Restore(i, e, d)
  PROVE  IInv'
<1>1. Shapes'
  BY RecoveryAssumption DEF IInv, Shapes, Phases, Restore, Go, files, memory, history, NoDocs
<1>2. Locks'
  BY DEF IInv, Locks, Alive, Dead, Looking, Holding, Restore, Go
<1>3. Offers'
  <2>1. entry'[i].from = e /\ entry'[i].into = d
    BY <1>1, RecoveryAssumption DEF IInv, Shapes, Restore
  <2> QED BY <2>1 DEF IInv, Shapes, Offers, Restore, Go, Dead, files, Holding, Looking
<1>4. Snapshots'
  BY DEF IInv, Shapes, Snapshots, Alive, Looking, Holding, Emptying, Starting, Restore, Go,
     files, history
<1>5. ASSUME ~Overtaking PROVE Standing'
  BY <1>5 DEF IInv, Standing, Alive, Dead, Looking, Holding, Restore, Go, files
<1>6. ASSUME ~Overtaking PROVE NothingLost'
  BY <1>6 DEF IInv, NothingLost, Restore, files, history
<1> QED BY <1>1, <1>2, <1>3, <1>4, <1>5, <1>6 DEF IInv

LEMMA RestoreCheckpointKeeps ==
  ASSUME IInv, NEW i \in Instances, RestoreCheckpoint(i)
  PROVE  IInv'
<1>1. CASE phase'[i] = "restored"
  <2>0. /\ phase[i] = "restoring"
       /\ phase' = [phase EXCEPT ![i] = "restored"]
       /\ Write(i, entry[i].into)
       /\ UNCHANGED <<dirs, leases, lock, todo, session, entry, kept, entries, docs, begun>>
    BY <1>1 DEF IInv, Shapes, RestoreCheckpoint, Go
  <2>1. Shapes'
    BY <2>0 DEF IInv, Shapes, Offers, Snapshots, Starting, Phases, Write
  <2>2. Locks'
    BY <2>0 DEF IInv, Locks, Alive, Dead, Looking, Holding
  <2>3. Offers'
    BY <2>0 DEF IInv, Offers, Dead, Looking, Holding, Write
  <2>4. Snapshots'
    BY <2>0 DEF IInv, Shapes, Locks, Offers, Snapshots, Alive, Looking, Holding, Emptying,
       Starting, Write
  <2>5. ASSUME ~Overtaking PROVE Standing'
    BY <2>0, <2>5 DEF IInv, Locks, Standing, Alive, Looking, Holding
  <2>6. ASSUME ~Overtaking PROVE NothingLost'
    <3> PICK d \in Ids : d = entry[i].into
      BY <2>0 DEF IInv, Offers
    <3>1. i \in dirs \cap leases
      BY <2>0, <2>6 DEF IInv, Standing, Alive
    <3>2. snaps'[i][d] = docs[i][d] /\ snaps[i][d] \in {None, docs[i][d]}
      BY <2>0 DEF IInv, Shapes, Snapshots, Alive, Write
    <3>3. \A s \in Instances, c \in Ids : s # i \/ c # d => snaps'[s][c] = snaps[s][c]
      BY <2>0 DEF IInv, Shapes, Write
    <3>4. None \notin owed
      BY RecoveryAssumption DEF IInv, Shapes
    <3>5. ASSUME NEW w \in owed
          PROVE  \E s \in dirs \cap leases, c \in Ids : snaps'[s][c] = w
      <4>1. PICK s \in dirs \cap leases, c \in Ids : snaps[s][c] = w
        BY <2>6 DEF IInv, NothingLost
      <4>2. CASE s = i /\ c = d
        BY <3>1, <3>2, <3>4, <4>1, <4>2
      <4>3. CASE s # i \/ c # d
        BY <3>3, <4>1, <4>3 DEF IInv, Shapes
      <4> QED BY <4>2, <4>3
    <3> QED BY <2>0, <3>1, <3>2, <3>5 DEF NothingLost, Write
  <2> QED BY <2>1, <2>2, <2>3, <2>4, <2>5, <2>6 DEF IInv
<1>2. CASE phase'[i] # "restored"
  <2>0. /\ phase[i] = "restoring"
       /\ phase' = [phase EXCEPT ![i] = "running"]
       /\ entry' = [entry EXCEPT ![i] = None]
       /\ UNCHANGED <<files, lock, todo, session, kept, entries, docs, fresh, history>>
    BY <1>2 DEF IInv, Shapes, RestoreCheckpoint, Go
  <2>1. Shapes'
    BY <2>0 DEF IInv, Shapes, Phases, files, history
  <2>2. Locks'
    BY <2>0 DEF IInv, Locks, Alive, Dead, Looking, Holding
  <2>3. Offers'
    BY <2>0 DEF IInv, Shapes, Locks, Offers, Looking, Holding, files
  <2>4. Snapshots'
    BY <2>0 DEF IInv, Snapshots, Alive, Looking, Holding, Emptying, Starting, files, history
  <2>5. ASSUME ~Overtaking PROVE Standing'
    BY <2>0, <2>5 DEF IInv, Locks, Standing, Alive, Looking, Holding, files
  <2>6. ASSUME ~Overtaking PROVE NothingLost'
    BY <2>0, <2>6 DEF IInv, NothingLost, files, history
  <2> QED BY <2>1, <2>2, <2>3, <2>4, <2>5, <2>6 DEF IInv
<1> QED BY <1>1, <1>2

LEMMA DropKeeps ==
  ASSUME IInv, NEW i \in Instances, NEW e \in entries[i], NEW from \in {"running", "restored"},
         Drop(i, e, from), owed' \subseteq owed
  PROVE  /\ Shapes' /\ Locks' /\ Offers' /\ Snapshots'
         /\ ~Overtaking => Standing'
<1> PICK s \in Instances, c \in Ids : e = <<s, c>>
  BY DEF IInv, Shapes
<1> DEFINE last == s \in dirs /\ [snaps EXCEPT ![s][c] = None][s] = NoDocs /\ s \in kept[i]
<1>1. /\ phase[i] = from
      /\ phase' = [phase EXCEPT ![i] = IF last THEN "clearing" ELSE "running"]
      /\ snaps' = [snaps EXCEPT ![s][c] = None]
      /\ entries' = [entries EXCEPT ![i] = @ \ {e}]
      /\ kept' = [kept EXCEPT ![i] = IF last THEN @ \ {s} ELSE @]
      /\ session' = [session EXCEPT ![i] = IF last THEN s ELSE None]
      /\ entry' = [entry EXCEPT ![i] = None]
      /\ UNCHANGED <<dirs, leases, lock, todo, docs, fresh, begun>>
  BY DEF Drop, Go
<1>2. lock[s] = i /\ phase[s] \in Dead /\ snaps[s][c] # None
  BY DEF IInv, Offers
<1>3. s # i /\ i \in Instances /\ e[1] = s /\ e[2] = c
  BY <1>1, <1>2 DEF Dead
<1>4. /\ snaps' \in [Instances -> [Ids -> Works \cup {None}]]
      /\ snaps'[s][c] = None
      /\ \A j \in Instances, d \in Ids : j # s \/ d # c => snaps'[j][d] = snaps[j][d]
      /\ \A j \in Instances : j # s => snaps'[j] = snaps[j]
  BY <1>1 DEF IInv, Shapes
<1>5. last => snaps'[s] = NoDocs
  BY <1>1
<1> HIDE DEF last
<1>6. Shapes'
  BY <1>1, <1>4 DEF IInv, Shapes, Phases
<1>7. Locks'
  BY <1>1, <1>2, <1>3, <1>6 DEF IInv, Shapes, Locks, Alive, Dead, Looking, Holding
<1>8. \A j \in Instances : \A f \in entries'[j] : f \in entries[j] /\ (j = i => f # e)
  BY <1>1 DEF IInv, Shapes
<1>9. \A j \in Instances : \A f \in entries'[j] : snaps'[f[1]][f[2]] = snaps[f[1]][f[2]]
  <2> SUFFICES ASSUME NEW j \in Instances, NEW f \in entries'[j]
               PROVE  snaps'[f[1]][f[2]] = snaps[f[1]][f[2]]
    OBVIOUS
  <2>1. f \in Instances \X Ids /\ f \in entries[j]
    BY <1>8 DEF IInv, Shapes
  <2>2. f[1] = s => j = i
    BY <1>2, <2>1 DEF IInv, Offers
  <2>3. f[1] # s \/ f[2] # c
    BY <1>8, <2>1, <2>2
  <2> QED BY <1>4, <2>1, <2>3
<1>10. Offers'
  <2>1. \A j \in Instances : \A f \in entries'[j] : phase[j] \in Holding => f[1] # session[j]
    BY <1>8 DEF IInv, Offers
  <2>2. last => \A f \in entries'[i] : f[1] # s
    BY <1>5, <1>8, <1>9 DEF IInv, Offers, Shapes, NoDocs
  <2>3. \A j \in Instances : j # i => entries'[j] = entries[j]
    BY <1>1 DEF IInv, Shapes
  <2>4. \A j \in Instances : \A f \in entries'[j] :
        lock'[f[1]] = j /\ phase'[f[1]] \in Dead /\ snaps'[f[1]][f[2]] # None
    BY <1>1, <1>2, <1>3, <1>8, <1>9 DEF IInv, Shapes, Offers, Dead
  <2>5. \A j \in Instances : \A f \in entries'[j] : phase'[j] \in Holding => f[1] # session'[j]
    BY <1>1, <2>1, <2>2 DEF IInv, Shapes, Holding, Looking
  <2>6. \A j \in Instances : phase'[j] \in {"restoring", "restored"} => j # i /\ phase[j] = phase'[j]
    BY <1>1 DEF IInv, Shapes
  <2>7. \A j \in Instances : phase'[j] \in {"restoring", "restored"} =>
          /\ entry'[j] = entry[j] /\ entry[j].from \in entries'[j] /\ entry[j].into \in Ids
          /\ docs'[j] = docs[j]
    BY <1>1, <2>3, <2>6 DEF IInv, Shapes, Offers
  <2> QED BY <1>9, <2>4, <2>5, <2>6, <2>7 DEF IInv, Offers
<1>11. Snapshots'
  <2>1. \A j \in Instances, d \in Ids : snaps'[j][d] \in {None, snaps[j][d]}
    BY <1>4
  <2>2. \A j \in Instances : phase'[j] \in Starting \cup {"off", "quitting"} => j # s /\ j # i
    BY <1>1, <1>2, <1>3 DEF IInv, Shapes, Dead, Starting
  <2>3. \A j \in Instances : phase[j] \in Emptying /\ j # i => session[j] # s
    BY <1>2 DEF IInv, Locks, Emptying
  <2> QED BY <1>1, <1>5 DEF IInv, Shapes, Locks, Offers, Snapshots, Alive, Dead, Starting,
     Emptying, Holding, Looking
<1>12. ASSUME ~Overtaking PROVE Standing'
  BY <1>1, <1>2, <1>3, <1>12 DEF IInv, Shapes, Standing, Alive, Dead, Looking, Holding
<1> QED BY <1>6, <1>7, <1>10, <1>11, <1>12

LEMMA RestoreDiscardKeeps ==
  ASSUME IInv, NEW i \in Instances, RestoreDiscard(i)
  PROVE  IInv'
<1> DEFINE e == entry[i].from  d == entry[i].into
<1>1. /\ phase[i] = "restored" /\ Drop(i, e, "restored") /\ owed' = owed
      /\ e \in entries[i] /\ d \in Ids
      /\ docs[i][d] = snaps[e[1]][e[2]] /\ snaps[i][d] = docs[i][d]
  BY DEF IInv, Offers, Snapshots, RestoreDiscard
<1> HIDE DEF e, d
<1>2. /\ Shapes' /\ Locks' /\ Offers' /\ Snapshots'
      /\ ~Overtaking => Standing'
  BY <1>1, DropKeeps
<1>3. ASSUME ~Overtaking PROVE NothingLost'
  <2> PICK s \in Instances, c \in Ids : e = <<s, c>>
    BY <1>1 DEF IInv, Shapes
  <2>1. s # i
    BY <1>1 DEF IInv, Offers, Dead
  <2>2. /\ \A j \in Instances, x \in Ids : j # s \/ x # c => snaps'[j][x] = snaps[j][x]
        /\ dirs' = dirs /\ leases' = leases
    BY <1>1 DEF IInv, Shapes, Drop
  <2>3. i \in dirs \cap leases
    BY <1>1, <1>3 DEF IInv, Standing, Alive
  <2>4. snaps'[i][d] = snaps[s][c]
    BY <1>1, <2>1, <2>2
  <2> SUFFICES ASSUME NEW w \in owed
               PROVE  \E j \in dirs \cap leases, x \in Ids : snaps'[j][x] = w
    BY <1>1, <2>2 DEF NothingLost
  <2>5. PICK j \in dirs \cap leases, x \in Ids : snaps[j][x] = w
    BY <1>3 DEF IInv, NothingLost
  <2>6. CASE j = s /\ x = c
    BY <1>1, <2>3, <2>4, <2>5, <2>6
  <2>7. CASE j # s \/ x # c
    BY <2>2, <2>5, <2>7 DEF IInv, Shapes
  <2> QED BY <2>6, <2>7
<1> QED BY <1>2, <1>3 DEF IInv

LEMMA DiscardEntryKeeps ==
  ASSUME IInv, NEW i \in Instances, NEW e \in entries[i], DiscardEntry(i, e)
  PROVE  IInv'
<1>1. /\ Drop(i, e, "running") /\ owed' \subseteq owed
  BY DEF DiscardEntry
<1>2. /\ Shapes' /\ Locks' /\ Offers' /\ Snapshots'
      /\ ~Overtaking => Standing'
  BY <1>1, DropKeeps
<1>3. ASSUME ~Overtaking PROVE NothingLost'
  <2> PICK s \in Instances, c \in Ids : e = <<s, c>>
    BY DEF IInv, Shapes
  <2>1. /\ \A j \in Instances, x \in Ids : j # s \/ x # c => snaps'[j][x] = snaps[j][x]
        /\ dirs' = dirs /\ leases' = leases /\ owed' = owed \ {snaps[s][c]}
    BY DEF IInv, Shapes, Drop, DiscardEntry
  <2> SUFFICES ASSUME NEW w \in owed, w # snaps[s][c]
               PROVE  \E j \in dirs \cap leases, x \in Ids : snaps'[j][x] = w
    BY <2>1 DEF NothingLost
  <2>2. PICK j \in dirs \cap leases, x \in Ids : snaps[j][x] = w
    BY <1>3 DEF IInv, NothingLost
  <2> QED BY <2>1, <2>2 DEF IInv, Shapes
<1> QED BY <1>2, <1>3 DEF IInv

LEMMA QuitKeeps ==
  ASSUME IInv, NEW i \in Instances, Quit(i)
  PROVE  IInv'
<1>1. Shapes'
  BY DEF IInv, Shapes, Phases, Quit, Go, files, history
<1>2. Locks'
  BY DEF IInv, Shapes, Locks, Alive, Dead, Looking, Quit, Go
<1>3. Offers'
  BY DEF IInv, Shapes, Locks, Offers, Alive, Quit, Go, files
<1>4. Snapshots'
  BY DEF IInv, Shapes, Snapshots, Alive, Quit, Go, files, history, NoDocs
<1>5. ASSUME ~Overtaking PROVE Standing'
  BY <1>5 DEF IInv, Locks, Standing, Alive, Looking, Holding, Quit, Go, files
<1>6. ASSUME ~Overtaking PROVE NothingLost'
  BY <1>6 DEF IInv, NothingLost, Quit, files, history
<1> QED BY <1>1, <1>2, <1>3, <1>4, <1>5, <1>6 DEF IInv

LEMMA LeaveKeeps ==
  ASSUME IInv, NEW i \in Instances, Leave(i)
  PROVE  IInv'
<1>1. Shapes'
  BY DEF IInv, Shapes, Phases, Leave, End, Release, history, NoDocs
<1>2. Locks'
  BY RecoveryAssumption DEF IInv, Shapes, Locks, Alive, Looking, Holding, Leave, End, Release
<1>3. Offers'
  BY DEF IInv, Shapes, Locks, Offers, Alive, Leave, End, Release
<1>4. Snapshots'
  BY DEF IInv, Shapes, Snapshots, Alive, Looking, Holding, Emptying, Starting, Leave, End,
     history, NoDocs
<1>5. ASSUME ~Overtaking PROVE Standing'
  BY <1>5 DEF IInv, Standing, Alive, Dead, Looking, Holding, Leave, End
<1>6. ASSUME ~Overtaking PROVE NothingLost'
  BY <1>6 DEF IInv, NothingLost, Leave, End, history
<1> QED BY <1>1, <1>2, <1>3, <1>4, <1>5, <1>6 DEF IInv

LEMMA CrashKeeps ==
  ASSUME IInv, NEW i \in Instances, Crash(i)
  PROVE  IInv'
<1>1. Shapes'
  BY DEF IInv, Shapes, Phases, Crash, End, Release, history, NoDocs
<1>2. Locks'
  BY RecoveryAssumption DEF IInv, Shapes, Locks, Alive, Looking, Holding, Crash, End, Release
<1>3. Offers'
  BY DEF IInv, Shapes, Offers, Dead, Crash, End, Release
<1>4. Snapshots'
  BY DEF IInv, Shapes, Snapshots, Alive, Looking, Holding, Emptying, Starting, Crash, End,
     history, NoDocs
<1>5. ASSUME ~Overtaking PROVE Standing'
  BY <1>5 DEF IInv, Shapes, Standing, Alive, Dead, Looking, Holding, Crash, End
<1>6. ASSUME ~Overtaking PROVE NothingLost'
  BY <1>6 DEF IInv, NothingLost, Crash, End, history
<1> QED BY <1>1, <1>2, <1>3, <1>4, <1>5, <1>6 DEF IInv

-----------------------------------------------------------------------------
LEMMA InitIInv == Init => IInv
<1> SUFFICES ASSUME Init PROVE IInv
  OBVIOUS
<1> USE RecoveryAssumption DEF Init, NoDocs
<1>1. Shapes
  BY DEF Shapes, Phases
<1>2. Locks
  BY DEF Locks, Alive, Looking, Holding, Dead
<1>3. Offers
  BY DEF Offers, Holding, Looking
<1>4. Snapshots
  BY DEF Snapshots, Alive, Emptying, Holding, Looking
<1>5. Standing /\ NothingLost
  BY DEF Standing, NothingLost, Alive, Holding, Looking
<1> QED BY <1>1, <1>2, <1>3, <1>4, <1>5 DEF IInv

LEMMA NextIInv == IInv /\ [Next]_vars => IInv'
<1> SUFFICES ASSUME IInv, [Next]_vars PROVE IInv'
  OBVIOUS
<1>1. CASE UNCHANGED vars
  BY <1>1 DEF IInv, Shapes, Locks, Offers, Snapshots, Standing, NothingLost, vars, files,
     memory, history
<1>2. ASSUME NEW i \in Instances, Step(i) PROVE IInv'
  <2>1. \A from, to :
        <<from, to>> \in {<<"emptying", "emptied">>, <<"clearing", "cleared">>,
                         <<"quitting", "unleased">>} /\ RemoveLease(i, from, to) => IInv'
    BY RemoveLeaseKeeps
  <2>2. \A from, to :
        <<from, to>> \in {<<"emptied", "scanning">>, <<"cleared", "running">>} /\ RemoveDirectory(i, from, to) => IInv'
    BY RemoveDirectoryKeeps
  <2> QED
    BY <1>2, <2>1, <2>2, CreateLeaseKeeps, LockLeaseKeeps, OpenLeaseKeeps, TryLockKeeps,
       CollectVanishedKeeps, CollectSnapshotsKeeps, CollectEmptyKeeps, FinishStartupKeeps,
       CheckpointKeeps, RestoreCheckpointKeeps, RestoreDiscardKeeps, LeaveKeeps DEF Step
<1>3. ASSUME NEW i \in Instances, Event(i) PROVE IInv'
  BY <1>3, MakeDirectoryKeeps, FailStartupKeeps, BeginKeeps, EditMoreKeeps, SettleKeeps,
     RestoreKeeps, DiscardEntryKeeps, QuitKeeps, CrashKeeps DEF Event
<1> QED BY <1>1, <1>2, <1>3 DEF Next

LEMMA AlwaysIInv == Spec => []IInv
BY InitIInv, NextIInv, PTL DEF Spec

\* Every variable keeps its shape, and an instance that is not there locks nothing.
THEOREM SessionsKeepTypes == Spec => []TypeOK
<1>1. IInv => TypeOK
  <2> SUFFICES ASSUME IInv PROVE TypeOK
    OBVIOUS
  <2>1. \A i \in Instances : phase[i] \in {"off", "gone", "bare"} => Held(i) = {}
    BY DEF IInv, Locks, Held, Dead
  <2> QED BY <2>1 DEF IInv, Shapes, TypeOK
<1> QED BY <1>1, AlwaysIInv, PTL

\* No two instances ever offer the same snapshot, and none offers one of a session
\* whose owner is alive, whether or not startups overtake each other
\* (RecoveryStore::new, discard_entry).
THEOREM OffersStayExclusive == Spec => []OffersAreExclusive
<1>1. IInv => OffersAreExclusive
  BY DEF IInv, Offers, Dead, OffersAreExclusive
<1> QED BY <1>1, AlwaysIInv, PTL

\* Work that was checkpointed can be found again until its user is done with it,
\* wherever instances crash, if nobody locks a lease between its creation and the
\* lock of the instance that created it (RecoveryStore::new).
THEOREM CheckpointedWorkIsFound == ASSUME ~Overtaking PROVE Spec => []NothingLost
<1>1. IInv => NothingLost
  BY DEF IInv
<1> QED BY <1>1, AlwaysIInv, PTL
===============================================================================
