---------------------------------- MODULE Board ----------------------------------
(***************************************************************************)
(* What the board keeps on disk, across its starts: main() enrols it, then *)
(* sessions use its cameras; the process may die at any moment of both.    *)
(***************************************************************************)
EXTENDS Enroll, Cameras

vars == <<enrollVars, camVars>>

TypeOK == EnrollTypeOK /\ CamTypeOK

Init == EnrollInit /\ CamInit

\* main(): _resolve_drone_token is awaited before anything else begins.
Resolve == EnrollStep /\ UNCHANGED camVars

Serve == pc = "up" /\ CamStep /\ UNCHANGED enrollVars

Cable == Cables /\ UNCHANGED enrollVars

Crash == Die /\ CamsDie

Next == Resolve \/ Serve \/ Cable \/ Crash

Spec == Init /\ [][Next]_vars

-----------------------------------------------------------------------------
(* Properties; OneIdentity is in Enroll. *)

\* A session begins, with these objects.
Begun == (ConnectCached \/ ConnectEnds) /\ pipe' # None
Built == {pipe'[s] : s \in Slots} \ {None}

\* A session is built with what the operator chose last for each camera,
\* through ended sessions, cleared caches, other USB ports and restarts.  It is
\* forgiven (owed is reset) where the process died while its file was open, by
\* the message or by a later scan that saves it again, a scan overlapped the
\* message, another camera of the same model was chosen for, or a calibration
\* was asked for.
ChoiceSurvives ==
    [][Begun => \A o \in Built : owed[o.cam] \in {None, o.choice}]_vars

\* After a calibration was asked for, and no scan overlapped the message, no
\* session is built with what was found about these cameras before.
CalibrateHonoured ==
    [][Begun => \A o \in Built : o.epoch >= asked[o.cam]]_vars
==============================================================================
