--------------------------------- MODULE Cameras ---------------------------------
(***************************************************************************)
(* What the board remembers of its cameras, and where: the file of each    *)
(* model, the registry's cache, the objects a session's pipeline was built *)
(* from (the cache's own objects), and the /dev/video nodes of the moment. *)
(* The operator's messages change objects and files on a webrtcbin thread, *)
(* while the loop's worker may be scanning for the next session.           *)
(*                                                                         *)
(* The list of supported formats is reduced to its number, the probing of  *)
(* a format to its success.  How sessions begin and end is in Coordinator: *)
(* here they have pipelines, and end at any time.  A message updates one   *)
(* camera, and one message is handled at a time.                           *)
(***************************************************************************)
EXTENDS Naturals, FiniteSets

CONSTANTS
    Cams,         \* the cameras in the field
    Model,        \* their names, without the USB path: the key of the file
    Slots,        \* the indices of /dev/videoN
    Params,       \* the values of param_index
    Rates,        \* bitrates
    DefaultRate,  \* the bitrate after a calibration
    MaxEpoch,     \* bound of an instance: calibrations asked for
    MaxMoves,     \* bound of an instance: cables plugged and unplugged
    Torn,         \* what a file holds that was truncated and not yet written
    None

DefaultParam == Cardinality(Params) \div 2

Models  == {Model[c] : c \in Cams}
Choices == [param : Params, rate : Rates]
Objects == [cam : Cams, slot : Slots, choice : Choices, epoch : 0..MaxEpoch]
Saved   == [slot : Slots, choice : Choices, epoch : 0..MaxEpoch]
Found   == [Slots -> Objects \cup {None}]
Threads == {"worker", "channel"}

\* there: what was enumerated; todo: nodes still to look at; left: found, to
\* be saved; open: the one whose file is being written.
Scans == [there : [Slots -> Cams \cup {None}], todo : SUBSET Slots,
          found : Found, left : SUBSET Slots, open : Slots \cup {None}]

\* clean: no scan of the worker overlapped the handler.
Hands == [kind : {"params", "bitrate", "calibrate"},
          stage : {"save", "write", "end", "scan", "unlink", "clear"},
          object : Objects \cup {None}, cams : SUBSET Cams, clean : BOOLEAN]

ASSUME CamerasAssumption ==
    /\ IsFiniteSet(Params) /\ Params = 0..(Cardinality(Params) - 1)
    /\ DefaultParam \in Params
    /\ DefaultRate \in Rates
    /\ MaxEpoch \in Nat
    /\ MaxMoves \in Nat
    /\ None \notin Cams \cup Slots \cup Objects \cup Choices \cup Scans \cup Hands
    /\ {None, Torn} \cap Saved = {}

VARIABLES
    plugged,  \* per /dev/videoN: the camera there
    files,    \* per model: what its file holds; None: there is none
    cache,    \* CameraRegistry._cached_cams; None: empty or cleared
    pipe,     \* the list of Camera objects of the session's pipeline
    shared,   \* they are one list, with the same objects
    met,      \* the process has had a session
    scan,     \* per thread in get_cameras: how far it is
    hand,     \* the config message being handled
    moves,    \* cables plugged and unplugged so far
    epoch,    \* history: calibrations handled
    owed,     \* history: per camera, the operator's choice that was saved
    asked     \* history: per camera, the calibration that was promised

camVars == <<plugged, files, cache, pipe, shared, met, scan, hand, moves,
             epoch, owed, asked>>

CamTypeOK ==
    /\ plugged \in [Slots -> Cams \cup {None}]
    /\ files \in [Models -> Saved \cup {None, Torn}]
    /\ cache \in Found \cup {None}
    /\ pipe \in Found \cup {None}
    /\ shared \in BOOLEAN
    /\ met \in BOOLEAN
    /\ \A t \in Threads : scan[t] = None \/ scan[t] \in Scans
    /\ hand = None \/ hand \in Hands
    /\ moves \in 0..MaxMoves
    /\ epoch \in 0..MaxEpoch
    /\ owed \in [Cams -> Choices \cup {None}]
    /\ asked \in [Cams -> 0..MaxEpoch]
    \* an object says where its camera was found, also a saved one
    /\ cache # None => \A s \in Slots : cache[s] # None => cache[s].slot = s

\* What a process starts from.
CamsForgotten ==
    /\ cache' = None
    /\ pipe' = None
    /\ shared' = FALSE
    /\ met' = FALSE
    /\ scan' = [t \in Threads |-> None]
    /\ hand' = None

\* A board on which nothing was ever saved.
CamInit ==
    /\ plugged \in {p \in [Slots -> Cams \cup {None}] :
                       \A s, r \in Slots : p[s] = p[r] /\ p[s] # None => s = r}
    /\ files = [m \in Models |-> None]
    /\ cache = None
    /\ pipe = None
    /\ shared = FALSE
    /\ met = FALSE
    /\ scan = [t \in Threads |-> None]
    /\ hand = None
    /\ moves = 0
    /\ epoch = 0
    /\ owed = [c \in Cams |-> None]
    /\ asked = [c \in Cams |-> 0]

Alike(c) == {d \in Cams : Model[d] = Model[c]}

\* The cameras a list's files are about.
CamsOf(list) == UNION {Alike(list[s].cam) : s \in {r \in Slots : list[r] # None}}

\* What was owed to these cameras is not any more.
Forget(cs) == [c \in Cams |-> IF c \in cs THEN None ELSE owed[c]]

-----------------------------------------------------------------------------
(* Cables. *)

Plug(c, s) ==
    /\ moves < MaxMoves
    /\ plugged[s] = None
    /\ \A r \in Slots : plugged[r] # c
    /\ plugged' = [plugged EXCEPT ![s] = c]
    /\ moves' = moves + 1
    /\ UNCHANGED <<files, cache, pipe, shared, met, scan, hand, epoch, owed, asked>>

Unplug(s) ==
    /\ moves < MaxMoves
    /\ plugged[s] # None
    /\ plugged' = [plugged EXCEPT ![s] = None]
    /\ moves' = moves + 1
    /\ UNCHANGED <<files, cache, pipe, shared, met, scan, hand, epoch, owed, asked>>

-----------------------------------------------------------------------------
(* CameraRegistry.get_cameras and _scan. *)

Enumerated ==
    [there |-> plugged, todo |-> {s \in Slots : plugged[s] # None},
     found |-> [s \in Slots |-> None], left |-> {}, open |-> None]

\* The scan comes to node s.
Looks(t, s) == scan[t] # None /\ scan[t].open = None /\ s \in scan[t].todo

\* The camera of node s is in the scan's list; open: its file is being written.
Finds(t, s, choice, e, open) ==
    scan' = [scan EXCEPT ![t].todo = @ \ {s}, ![t].left = @ \cup {s}, ![t].open = open,
                         ![t].found[s] = [cam |-> scan[t].there[s], slot |-> s,
                                          choice |-> choice, epoch |-> e]]

FileAt(t, s) == files[Model[scan[t].there[s]]]

\* Mutant: the saved index is not compared with the node.
MutantKeepsIndex(t, s) ==
    /\ Looks(t, s)
    /\ FileAt(t, s) \in Saved
    /\ scan' = [scan EXCEPT ![t].todo = @ \ {s}, ![t].left = @ \cup {s},
                   ![t].found[s] = [cam |-> scan[t].there[s], slot |-> FileAt(t, s).slot,
                                    choice |-> FileAt(t, s).choice,
                                    epoch |-> FileAt(t, s).epoch]]
    /\ UNCHANGED <<plugged, files, cache, pipe, shared, met, hand, moves,
                   epoch, owed, asked>>

\* Camera.get: the model is known.  The file says so already where the camera
\* is, or it cannot be opened to learn it, which is logged.
LookSaved(t, s) ==
    /\ Looks(t, s)
    /\ FileAt(t, s) \in Saved
    /\ Finds(t, s, FileAt(t, s).choice, FileAt(t, s).epoch, None)
    /\ UNCHANGED <<plugged, files, cache, pipe, shared, met, hand, moves, epoch, owed, asked>>

\* The model is known and the camera has moved: its file is truncated, to be
\* written by SaveWrites.
LookMoved(t, s) ==
    /\ Looks(t, s)
    /\ FileAt(t, s) \in Saved /\ FileAt(t, s).slot # s
    /\ Finds(t, s, FileAt(t, s).choice, FileAt(t, s).epoch, s)
    /\ files' = [files EXCEPT ![Model[scan[t].there[s]]] = Torn]
    /\ UNCHANGED <<plugged, cache, pipe, shared, met, hand, moves, epoch, owed, asked>>

\* No file, or one that cannot be read: calibrated, if some format plays.
LookCalibrated(t, s) ==
    /\ Looks(t, s)
    /\ FileAt(t, s) \notin Saved
    /\ plugged[s] # None
    /\ Finds(t, s, [param |-> DefaultParam, rate |-> DefaultRate], epoch, None)
    /\ UNCHANGED <<plugged, files, cache, pipe, shared, met, hand, moves, epoch, owed, asked>>

\* ... or left out: gone, or in use.
LookFails(t, s) ==
    /\ Looks(t, s)
    /\ FileAt(t, s) \notin Saved
    /\ scan' = [scan EXCEPT ![t].todo = @ \ {s}]
    /\ UNCHANGED <<plugged, files, cache, pipe, shared, met, hand, moves, epoch, owed, asked>>

\* get_cameras saves what was found: the file is truncated ...
SaveOpens(t, s) ==
    /\ scan[t] # None /\ scan[t].todo = {} /\ scan[t].open = None
    /\ s \in scan[t].left
    /\ files' = [files EXCEPT ![Model[scan[t].found[s].cam]] = Torn]
    /\ scan' = [scan EXCEPT ![t].left = @ \ {s}, ![t].open = s]
    /\ UNCHANGED <<plugged, cache, pipe, shared, met, hand, moves, epoch, owed, asked>>

Text(o) == [slot |-> o.slot, choice |-> o.choice, epoch |-> o.epoch]

\* ... and written.
SaveWrites(t) ==
    /\ scan[t] # None /\ scan[t].open # None
    /\ LET o == scan[t].found[scan[t].open]
       IN  files' = [files EXCEPT ![Model[o.cam]] = Text(o)]
    /\ scan' = [scan EXCEPT ![t].open = None]
    /\ UNCHANGED <<plugged, cache, pipe, shared, met, hand, moves, epoch, owed, asked>>

Scanned(t) == scan[t] # None /\ scan[t].todo = {} /\ scan[t].left = {} /\ scan[t].open = None

\* get_cameras returns: the list becomes the cache; an empty one counts as none.
Returned(t) == IF \A s \in Slots : scan[t].found[s] = None THEN None ELSE scan[t].found

-----------------------------------------------------------------------------
(* Sessions: _handle_connect on the loop, and what ends one. *)

\* The pipeline reaches PLAYING: each node it was built for is there.
Plays(list) == \A s \in Slots : list[s] # None => plugged[list[s].slot] # None

\* A pipeline that does not play is given up, the cache with it; without
\* cameras there is none.
Begins(list) ==
    IF list # None /\ Plays(list)
    THEN pipe' = list /\ cache' = list /\ shared' = TRUE /\ met' = TRUE
    ELSE pipe' = None /\ cache' = None /\ shared' = FALSE /\ UNCHANGED met

\* A session there was is ended first.
ConnectCached ==
    /\ scan["worker"] = None
    /\ cache # None
    /\ Begins(cache)
    /\ UNCHANGED <<plugged, files, scan, hand, moves, epoch, owed, asked>>

ConnectScans ==
    /\ scan["worker"] = None
    /\ cache = None
    /\ pipe' = None
    /\ shared' = FALSE
    /\ scan' = [scan EXCEPT !["worker"] = Enumerated]
    /\ hand' = IF hand = None THEN None ELSE [hand EXCEPT !.clean = FALSE]
    /\ UNCHANGED <<plugged, files, cache, met, moves, epoch, owed, asked>>

ConnectEnds ==
    /\ Scanned("worker")
    /\ Begins(Returned("worker"))
    /\ scan' = [scan EXCEPT !["worker"] = None]
    /\ UNCHANGED <<plugged, files, hand, moves, epoch, owed, asked>>

\* disconnect, a new connection, a stop.
SessionEnds ==
    /\ pipe # None
    /\ pipe' = None
    /\ shared' = FALSE
    /\ UNCHANGED <<plugged, files, cache, met, scan, hand, moves, epoch, owed, asked>>

\* _on_cameras_changed, _on_pipeline_error, also one of an earlier session.
CacheCleared ==
    /\ met
    /\ cache' = None
    /\ pipe' = None
    /\ shared' = FALSE
    /\ UNCHANGED <<plugged, files, met, scan, hand, moves, epoch, owed, asked>>

-----------------------------------------------------------------------------
(* Config messages: params, bitrate, calibrate. *)

\* The object of node s of the session's pipeline takes the new choice.
Changes(kind, s, choice) ==
    /\ hand = None
    /\ pipe' = [pipe EXCEPT ![s].choice = choice]
    /\ cache' = IF shared THEN pipe' ELSE cache
    /\ owed' = Forget(Alike(pipe[s].cam))
    /\ hand' = [kind |-> kind, stage |-> "save", object |-> pipe'[s], cams |-> {},
                clean |-> scan["worker"] = None]
    /\ UNCHANGED <<plugged, files, shared, met, scan, moves, epoch, asked>>

\* _apply_params_updates: an index that is the camera's already changes nothing.
OnParams(s, p) ==
    /\ pipe # None
    /\ pipe[s] # None
    /\ pipe[s].choice.param # p
    /\ Changes("params", s, [pipe[s].choice EXCEPT !.param = p])

\* _apply_bitrate_updates.
OnBitrate(s, r) ==
    /\ pipe # None
    /\ pipe[s] # None
    /\ Changes("bitrate", s, [pipe[s].choice EXCEPT !.rate = r])

HandAt(stage) == hand # None /\ hand.stage = stage

HandGoes(stage) == hand' = [hand EXCEPT !.stage = stage]

\* Mutant: params are changed and the session ended, nothing is saved.
MutantNotSaved ==
    /\ HandAt("save")
    /\ HandGoes("end")
    /\ UNCHANGED <<plugged, files, cache, pipe, shared, met, scan, moves, epoch, owed, asked>>

\* Camera.save: the file is truncated ...
HandOpens ==
    /\ HandAt("save")
    /\ files' = [files EXCEPT ![Model[hand.object.cam]] = Torn]
    /\ HandGoes("write")
    /\ UNCHANGED <<plugged, cache, pipe, shared, met, scan, moves, epoch, owed, asked>>

\* ... and written; ...
HandWrites ==
    /\ HandAt("write")
    /\ files' = [files EXCEPT ![Model[hand.object.cam]] = Text(hand.object)]
    /\ HandGoes("end")
    /\ UNCHANGED <<plugged, cache, pipe, shared, met, scan, moves, epoch, owed, asked>>

\* ... or it cannot be opened, which is logged.
HandFails ==
    /\ HandAt("save")
    /\ hand' = [hand EXCEPT !.stage = "end", !.clean = FALSE]
    /\ UNCHANGED <<plugged, files, cache, pipe, shared, met, scan, moves, epoch, owed, asked>>

\* New params end the session, whichever is on; a bitrate does not.
HandEnds ==
    /\ HandAt("end")
    /\ hand' = None
    /\ IF hand.kind = "params" THEN pipe' = None /\ shared' = FALSE
                               ELSE UNCHANGED <<pipe, shared>>
    /\ owed' = IF hand.clean THEN [owed EXCEPT ![hand.object.cam] = hand.object.choice]
                             ELSE owed
    /\ UNCHANGED <<plugged, files, cache, met, scan, moves, epoch, asked>>

Calibrating(stage, cams) ==
    hand' = [kind |-> "calibrate", stage |-> stage, object |-> None, cams |-> cams,
             clean |-> scan["worker"] = None]

\* _force_calibrate: the cameras of the session, ...
OnCalibrate ==
    /\ hand = None
    /\ epoch < MaxEpoch
    /\ pipe # None
    /\ Calibrating("unlink", CamsOf(pipe))
    /\ owed' = Forget(CamsOf(pipe))
    /\ UNCHANGED <<plugged, files, cache, pipe, shared, met, scan, moves, epoch, asked>>

\* ... or, of a session that has just ended, those of the registry.
OnLateCalibrate ==
    /\ hand = None
    /\ epoch < MaxEpoch
    /\ met /\ pipe = None
    /\ IF cache # None
       THEN Calibrating("unlink", CamsOf(cache)) /\ UNCHANGED scan
       ELSE Calibrating("scan", {}) /\ scan' = [scan EXCEPT !["channel"] = Enumerated]
    /\ owed' = Forget(Cams)
    /\ UNCHANGED <<plugged, files, cache, pipe, shared, met, moves, epoch, asked>>

HandScanned ==
    /\ Scanned("channel")
    /\ cache' = Returned("channel")
    /\ shared' = FALSE
    /\ hand' = [hand EXCEPT !.stage = "unlink", !.cams = CamsOf(scan["channel"].found)]
    /\ scan' = [scan EXCEPT !["channel"] = None]
    /\ UNCHANGED <<plugged, files, pipe, met, moves, epoch, owed, asked>>

\* The files are deleted ...
HandUnlinks ==
    /\ HandAt("unlink")
    /\ files' = [m \in Models |-> IF \E c \in hand.cams : Model[c] = m THEN None ELSE files[m]]
    /\ HandGoes("clear")
    /\ UNCHANGED <<plugged, cache, pipe, shared, met, scan, moves, epoch, owed, asked>>

\* What the operator has been promised.
Promised ==
    [c \in Cams |-> IF hand.clean /\ c \in hand.cams THEN epoch + 1 ELSE asked[c]]

\* Mutant: only the files are deleted.
MutantKeepsCache ==
    /\ HandAt("clear")
    /\ pipe' = None
    /\ shared' = FALSE
    /\ hand' = None
    /\ epoch' = epoch + 1
    /\ asked' = Promised
    /\ UNCHANGED <<plugged, files, cache, met, scan, moves, owed>>

\* ... the cache is cleared, and the session, if any, is ended.
HandClears ==
    /\ HandAt("clear")
    /\ cache' = None
    /\ pipe' = None
    /\ shared' = FALSE
    /\ hand' = None
    /\ epoch' = epoch + 1
    /\ asked' = Promised
    /\ UNCHANGED <<plugged, files, met, scan, moves, owed>>

-----------------------------------------------------------------------------
ScanStep(t) ==
    \/ SaveWrites(t)
    \/ \E s \in Slots :
          \/ LookSaved(t, s) \/ LookMoved(t, s) \/ LookCalibrated(t, s) \/ LookFails(t, s)
          \/ SaveOpens(t, s)

SessionStep ==
    ConnectCached \/ ConnectScans \/ ConnectEnds \/ SessionEnds \/ CacheCleared

HandStep ==
    \/ \E s \in Slots : (\E p \in Params : OnParams(s, p)) \/ (\E r \in Rates : OnBitrate(s, r))
    \/ HandOpens \/ HandWrites \/ HandFails \/ HandEnds
    \/ OnCalibrate \/ OnLateCalibrate \/ HandScanned \/ HandUnlinks \/ HandClears

Cables == \E s \in Slots : Unplug(s) \/ \E c \in Cams : Plug(c, s)

CamStep == (\E t \in Threads : ScanStep(t)) \/ SessionStep \/ HandStep

\* The process dies: files stay as they are at that moment.
CamsDie ==
    /\ CamsForgotten
    /\ owed' = Forget({c \in Cams : files[Model[c]] = Torn})
    /\ UNCHANGED <<plugged, files, moves, epoch, asked>>

==============================================================================
