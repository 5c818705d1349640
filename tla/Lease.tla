--------------------------------- MODULE Lease ---------------------------------
(***************************************************************************)
(* What the sessions of the board promise each other about the drone,      *)
(* without saying how: the cameras are lent to one user at a time, the     *)
(* pipeline of a session or the registry that calibrates them; a session   *)
(* talks to the flight controller only while it has the cameras, and gives *)
(* the flight controller back before the cameras.  A board that has been   *)
(* told to stop may start its last pipeline without asking.                *)
(* Coordinator implements it when its callbacks run on the loop.           *)
(***************************************************************************)
CONSTANTS
    Pipelines, \* the sessions, named by their pipelines
    None

VARIABLES
    holders,   \* the pipelines that hold cameras
    scanning,  \* the registry calibrates the cameras
    talk,      \* the session the flight controller's packets go to
    leaving    \* the board was told to stop

vars == <<holders, scanning, talk, leaving>>

Init ==
    /\ holders = {}
    /\ scanning = FALSE
    /\ talk = None
    /\ leaving = FALSE

Unlent == leaving \/ (holders = {} /\ ~scanning)

\* A pipeline reaches PLAYING.
Claim(p) ==
    /\ Unlent
    /\ holders' = holders \cup {p}
    /\ UNCHANGED <<scanning, talk, leaving>>

Scan ==
    /\ Unlent
    /\ scanning' = TRUE
    /\ UNCHANGED <<holders, talk, leaving>>

ScanDone ==
    /\ scanning' = FALSE
    /\ UNCHANGED <<holders, talk, leaving>>

\* The session of a playing pipeline begins ...
Talk(p) ==
    /\ p \in holders
    /\ talk = None
    /\ talk' = p
    /\ UNCHANGED <<holders, scanning, leaving>>

\* ... and ends; then its cameras are freed.
Hush ==
    /\ talk' = None
    /\ UNCHANGED <<holders, scanning, leaving>>

Free(p) ==
    /\ talk # p
    /\ holders' = holders \ {p}
    /\ UNCHANGED <<scanning, talk, leaving>>

Leave ==
    /\ leaving' = TRUE
    /\ UNCHANGED <<holders, scanning, talk>>

Next ==
    \/ Scan \/ ScanDone \/ Hush \/ Leave
    \/ \E p \in Pipelines : Claim(p) \/ Talk(p) \/ Free(p)

Spec == Init /\ [][Next]_vars
==============================================================================
