----------------------------- MODULE BackgroundMC -----------------------------
(***************************************************************************)
(* What goes on behind the interface, in one run.  A behaviour is either   *)
(* the start of several instances that look into each other's recovery     *)
(* sessions, or the editor's view of a file that other programs change.    *)
(* The state of the other part rests.                                      *)
(***************************************************************************)
EXTENDS RecoverySessions, DiskStatusState

VARIABLE part

Status == INSTANCE DiskStatus

\* Files of one slice, of two contents and two identities.
OneSlice == {<<"a">>, <<"b">>}
Saved == <<"a">>
Identities == <<1, 2>>

statusVars == <<file, inflight, queue, overflow, seen, base, event, probe, changed, shown,
                pc, rescan, touched, drained, failures, unseen>>
allVars == <<part, vars, statusVars>>

MCInit ==
  /\ Init /\ Status!Init
  /\ \/ part = "startup" /\ file = NoVersion
     \/ part = "status"

MCNext ==
  /\ UNCHANGED part
  /\ \/ part = "startup" /\ Next /\ UNCHANGED statusVars
     \/ part = "status" /\ Status!Next /\ UNCHANGED vars

Running(step) == part = "status" /\ step /\ UNCHANGED <<part, vars>>

\* FairSpec of RecoverySessions, whose processes cannot step while it rests,
\* and the fairness of DiskStatus.
MCSpec ==
  /\ MCInit /\ [][MCNext]_allVars
  /\ \A i \in Instances : WF_vars(Step(i))
  /\ WF_statusVars(Running(Status!Loop))
  /\ SF_statusVars(Running(Status!PollStarts(TRUE)))
  /\ SF_statusVars(Running(Status!LookAtMetadata(TRUE)))

\* Once the file is left alone the indicator gets to tell the truth
\* (DiskStatus: SettledStatusIsRight).
SettledStatusIsRight == part = "status" => Status!SettledStatusIsRight
=============================================================================
