------------------------------ MODULE CameraProofs ------------------------------
(***************************************************************************)
(* What the board remembers for the operator, for any cameras, nodes,      *)
(* sessions, messages and deaths: no session is built with what a          *)
(* calibration was to replace, none without the choice that was saved.     *)
(* Files, cache, pipeline, the scans of two threads and the message under  *)
(* way hold copies of the same facts; the invariants say which agree when. *)
(***************************************************************************)
EXTENDS BoardProofs

(***************************************************************************)
(* Calibrations.                                                           *)
(***************************************************************************)

\* The objects of a list were found after what was promised about their cameras.
Recent(l) == \A s \in Slots : l[s] # None => l[s].epoch >= asked[l[s].cam]

\* What was promised is past, and is the same for cameras with one file, ...
EpochInv ==
    /\ \A c \in Cams : epoch >= asked[c]
    /\ \A c, d \in Cams : Model[c] = Model[d] => asked[c] = asked[d]

\* ... no copy is older, ...
FilesRecent == \A c \in Cams : files[Model[c]] \in Saved => files[Model[c]].epoch >= asked[c]
HandRecent ==
    hand # None /\ hand.object # None => hand.object.epoch >= asked[hand.object.cam]

RecentInv ==
    /\ FilesRecent
    /\ cache # None => Recent(cache)
    /\ pipe # None => Recent(pipe)
    /\ \A t \in Threads : scan[t] # None => Recent(scan[t].found)
    /\ HandRecent

\* ... and a calibration that promises has left no file to be found.
PromiseInv ==
    hand # None =>
        /\ \A c \in hand.cams, d \in Cams : Model[c] = Model[d] => d \in hand.cams
        /\ hand.clean => scan["worker"] = None
        /\ hand.clean /\ hand.stage = "clear" =>
               \A c \in hand.cams : files[Model[c]] \notin Saved

CalInv == EpochInv /\ RecentInv /\ PromiseInv

\* The cameras of a list are those of whole models.
LEMMA WholeModels ==
    ASSUME NEW list, NEW c \in CamsOf(list), NEW d \in Cams, Model[c] = Model[d]
    PROVE  d \in CamsOf(list)
BY DEF CamsOf, Alike

\* An empty list is recent.
LEMMA NothingFound == Recent(Enumerated.found)
BY DEF Recent, Enumerated

\* Before anything is saved no copy is old.
LEMMA CalInvInit == CamInit => CalInv
<1> SUFFICES ASSUME CamInit PROVE CalInv
  OBVIOUS
<1>1. EpochInv
  BY DEF CamInit, EpochInv
<1>2. RecentInv
  BY CamBounds DEF CamInit, RecentInv, FilesRecent, HandRecent, Models
<1>3. PromiseInv
  BY DEF CamInit, PromiseInv
<1>4. QED
  BY <1>1, <1>2, <1>3 DEF CalInv

\* While no promise is made, one copy of everything recent is enough.
LEMMA RecentKept ==
    ASSUME UNCHANGED asked,
           \A c \in Cams : files'[Model[c]] \in Saved => files'[Model[c]].epoch >= asked[c],
           cache' # None => Recent(cache'),
           pipe' # None => Recent(pipe'),
           \A t \in Threads : scan'[t] # None => Recent(scan'[t].found),
           hand' # None /\ hand'.object # None => hand'.object.epoch >= asked[hand'.object.cam]
    PROVE  RecentInv'
BY DEF RecentInv, Recent, FilesRecent, HandRecent

\* What a scan does concerns no promise.
LEMMA ScanCal ==
    ASSUME CamInv, CalInv, NEW t \in Threads, ScanStep(t)
    PROVE  CalInv'
<1> DEFINE w == scan[t]
<1>0. /\ UNCHANGED <<plugged, cache, pipe, shared, met, hand, moves, epoch, owed, asked>>
      /\ ScanOK(w) /\ scan[t] # None /\ DOMAIN scan = Threads
      /\ files \in [Models -> Saved \cup {None, Torn}]
  BY DEF ScanStep, SaveWrites, LookSaved, LookMoved, LookCalibrated, LookFails, Looks, SaveOpens,
     CamInv, ScanInv, StoreInv
<1>1. EpochInv'
  BY <1>0 DEF CalInv, EpochInv
<1>2. /\ Recent(w.found) /\ FilesRecent
      /\ \A c, d \in Cams : Model[c] = Model[d] => asked[c] = asked[d]
      /\ \A c \in Cams : epoch >= asked[c] /\ Model[c] \in Models
  BY <1>0 DEF CalInv, RecentInv, EpochInv, Models
<1>3. ASSUME DOMAIN scan' = Threads, \A u \in Threads \ {t} : scan'[u] = scan[u]
      PROVE  PromiseInv'
  <2>1. hand # None /\ hand.clean => t = "channel" /\ hand.stage = "scan"
    BY <1>0 DEF CalInv, PromiseInv, Threads, CamInv, ScanInv
  <2>2. QED
    BY <1>0, <1>3, <2>1 DEF CalInv, PromiseInv, Threads
<1>4. ASSUME DOMAIN scan' = Threads, \A u \in Threads \ {t} : scan'[u] = scan[u],
             Recent(scan'[t].found),
             \A c \in Cams : files'[Model[c]] \in Saved => files'[Model[c]].epoch >= asked[c]
      PROVE  CalInv'
  <2>1. RecentInv'
    BY <1>0, <1>4, RecentKept DEF CalInv, RecentInv, HandRecent
  <2>2. QED
    BY <1>1, <1>3, <1>4, <2>1 DEF CalInv
<1>5. ASSUME NEW s \in Slots, s \in w.todo, NEW choice, NEW e, e >= asked[w.there[s]],
             NEW open, Finds(t, s, choice, e, open)
      PROVE  /\ DOMAIN scan' = Threads /\ \A u \in Threads \ {t} : scan'[u] = scan[u]
             /\ Recent(scan'[t].found)
  <2> DEFINE o == [cam |-> w.there[s], slot |-> s, choice |-> choice, epoch |-> e]
             v == [w EXCEPT !.todo = @ \ {s}, !.left = @ \cup {s}, !.open = open, !.found[s] = o]
  <2>1. scan'[t] = v /\ DOMAIN scan' = Threads /\ \A u \in Threads \ {t} : scan'[u] = scan[u]
    BY <1>0, <1>5 DEF Finds
  <2>2. v.found = [w.found EXCEPT ![s] = o] /\ w.found \in [Slots -> Objects \cup {None}]
    BY <1>0 DEF ScanOK, Scans, Found
  <2>3. v.found[s] = o /\ \A r \in Slots \ {s} : v.found[r] = w.found[r]
    BY <2>2
  <2>4. o.epoch = e /\ o.cam = w.there[s]
    OBVIOUS
  <2>5. Recent(v.found)
    BY <1>2, <1>5, <2>3, <2>4 DEF Recent
  <2>6. QED
    BY <2>1, <2>5
<1>6. ASSUME NEW s \in w.todo
      PROVE  s \in Slots /\ w.there[s] \in Cams
  BY <1>0 DEF ScanOK, Scans
<1>7. ASSUME NEW s \in Slots, LookSaved(t, s) \/ LookMoved(t, s)
      PROVE  CalInv'
  <2> DEFINE m == Model[w.there[s]]
  <2>1. s \in w.todo /\ files[m] \in Saved
    BY <1>7 DEF LookSaved, LookMoved, Looks, FileAt
  <2>2. m \in Models /\ w.there[s] \in Cams
    BY <1>2, <1>6, <2>1
  <2>3. PICK open : Finds(t, s, files[m].choice, files[m].epoch, open)
    BY <1>7 DEF LookSaved, LookMoved, FileAt
  <2>4. files' = files \/ files' = [files EXCEPT ![m] = Torn]
    BY <1>7 DEF LookSaved, LookMoved
  <2>5. files[m].epoch >= asked[w.there[s]]
    BY <2>1, <2>2, <1>2 DEF FilesRecent
  <2>6. \A c \in Cams : files'[Model[c]] \in Saved => files'[Model[c]] = files[Model[c]]
    BY <1>0, <1>2, <2>2, <2>4, CamBounds
  <2>7. \A c \in Cams : files'[Model[c]] \in Saved => files'[Model[c]].epoch >= asked[c]
    BY <1>2, <2>6 DEF FilesRecent
  <2>8. DOMAIN scan' = Threads /\ Recent(scan'[t].found)
        /\ \A u \in Threads \ {t} : scan'[u] = scan[u]
    BY <1>5, <2>1, <2>3, <2>5
  <2>9. QED
    BY <1>4, <2>7, <2>8
<1>8. ASSUME NEW s \in Slots, LookCalibrated(t, s)
      PROVE  CalInv'
  <2>1. /\ s \in w.todo /\ files' = files
        /\ Finds(t, s, [param |-> DefaultParam, rate |-> DefaultRate], epoch, None)
    BY <1>8 DEF LookCalibrated, Looks
  <2>2. epoch >= asked[w.there[s]]
    BY <1>2, <1>6, <2>1
  <2>3. QED
    BY <1>2, <1>4, <1>5, <2>1, <2>2 DEF FilesRecent
<1>9. ASSUME files' = files, \E v : scan' = [scan EXCEPT ![t] = v] /\ v.found = w.found
      PROVE  CalInv'
  BY <1>0, <1>2, <1>4, <1>9 DEF FilesRecent
<1>10. ASSUME NEW s \in Slots, LookFails(t, s)
      PROVE  CalInv'
  <2> DEFINE v == [w EXCEPT !.todo = @ \ {s}]
  <2>1. files' = files /\ scan' = [scan EXCEPT ![t] = v]
    BY <1>10 DEF LookFails
  <2>2. v.found = w.found
    BY <1>0 DEF ScanOK, Scans
  <2>3. QED
    BY <1>9, <2>1, <2>2
<1>11. ASSUME NEW s \in Slots, SaveOpens(t, s)
      PROVE  CalInv'
  <2> DEFINE v == [w EXCEPT !.left = @ \ {s}, !.open = s]
  <2>1. /\ files' = [files EXCEPT ![Model[w.found[s].cam]] = Torn]
        /\ scan' = [scan EXCEPT ![t] = v]
    BY <1>11 DEF SaveOpens
  <2>2. v.found = w.found
    BY <1>0 DEF ScanOK, Scans
  <2>3. \A c \in Cams : files'[Model[c]] \in Saved => files'[Model[c]] = files[Model[c]]
    BY <1>0, <1>2, <2>1, CamBounds
  <2>4. QED
    BY <1>0, <1>2, <1>4, <2>1, <2>2, <2>3 DEF FilesRecent
<1>12. CASE SaveWrites(t)
  <2> DEFINE o == w.found[w.open]
             v == [w EXCEPT !.open = None]
  <2>1. /\ w.open # None /\ files' = [files EXCEPT ![Model[o.cam]] = Text(o)]
        /\ scan' = [scan EXCEPT ![t] = v]
    BY <1>12 DEF SaveWrites
  <2>2. o \in Objects /\ o # None /\ w.open \in Slots
    BY <1>0, <2>1 DEF ScanOK, Scans, Found
  <2>3. Text(o).epoch = o.epoch /\ o.epoch >= asked[o.cam] /\ o.cam \in Cams
    BY <1>2, <2>2, TextSaved DEF Text, Recent
  <2>4. \A c \in Cams : files'[Model[c]] \in Saved => files'[Model[c]].epoch >= asked[c]
    BY <1>0, <1>2, <2>1, <2>3 DEF FilesRecent
  <2>5. v.found = w.found
    BY <1>0 DEF ScanOK, Scans
  <2>6. QED
    BY <1>0, <1>2, <1>4, <2>1, <2>4, <2>5
<1>13. QED
  BY <1>7, <1>8, <1>10, <1>11, <1>12 DEF ScanStep

\* Sessions hand on the objects they find.
LEMMA SessionCal ==
    ASSUME CamInv, CalInv, SessionStep
    PROVE  CalInv'
<1>0. /\ UNCHANGED <<plugged, files, moves, epoch, owed, asked>>
      /\ DOMAIN scan = Threads
  BY DEF SessionStep, ConnectCached, ConnectScans, ConnectEnds, SessionEnds, CacheCleared, CamInv,
     ScanInv
<1>1. EpochInv'
  BY <1>0 DEF CalInv, EpochInv
<1>2. \/ cache' = cache
      \/ cache' = None
      \/ scan["worker"] # None /\ cache' = Returned("worker")
  BY DEF SessionStep, ConnectCached, ConnectScans, ConnectEnds, SessionEnds, CacheCleared, Begins,
     Scanned
<1>3. pipe' = None \/ pipe' = cache'
  BY DEF SessionStep, ConnectCached, ConnectScans, ConnectEnds, SessionEnds, CacheCleared, Begins
<1>4. cache' # None => Recent(cache')
  BY <1>2 DEF CalInv, RecentInv, Returned, Threads
<1>5. \/ UNCHANGED <<scan, hand>>
      \/ UNCHANGED hand /\ scan' = [scan EXCEPT !["worker"] = None]
      \/ /\ scan' = [scan EXCEPT !["worker"] = Enumerated]
         /\ hand' = IF hand = None THEN None ELSE [hand EXCEPT !.clean = FALSE]
  BY DEF SessionStep, ConnectCached, ConnectScans, ConnectEnds, SessionEnds, CacheCleared
<1>6. \A t \in Threads : scan'[t] # None => Recent(scan'[t].found)
  BY <1>0, <1>5, NothingFound DEF CalInv, RecentInv, Threads
<1>7. /\ hand = None <=> hand' = None
      /\ hand # None => /\ hand'.object = hand.object /\ hand'.cams = hand.cams
                        /\ hand'.stage = hand.stage
                        /\ hand'.clean => hand.clean /\ UNCHANGED hand
  <2>1. CASE UNCHANGED hand
    BY <2>1
  <2>2. CASE hand # None /\ hand' = [hand EXCEPT !.clean = FALSE]
    <3>1. hand \in Hands
      BY <2>2 DEF CamInv, HandInv, HandOK
    <3>2. hand' \in Hands /\ hand'.object = hand.object /\ hand'.cams = hand.cams
          /\ hand'.stage = hand.stage /\ hand'.clean = FALSE
      BY <2>2, <3>1 DEF Hands
    <3>3. QED
      BY <2>2, <3>2, CamBounds
  <2>3. QED
    BY <1>5, <2>1, <2>2
<1>8. RecentInv'
  BY <1>0, <1>3, <1>4, <1>6, <1>7, RecentKept DEF CalInv, RecentInv, FilesRecent, HandRecent
<1>9. hand' # None /\ hand'.clean => scan'["worker"] = None
  <2>1. CASE scan' = [scan EXCEPT !["worker"] = Enumerated]
             /\ hand' = IF hand = None THEN None ELSE [hand EXCEPT !.clean = FALSE]
    <3>1. hand # None => hand \in Hands
      BY DEF CamInv, HandInv, HandOK
    <3>2. hand # None => ~hand'.clean
      BY <2>1, <3>1 DEF Hands
    <3>3. QED
      BY <2>1, <3>2
  <2>2. CASE UNCHANGED hand /\ (scan' = scan \/ scan' = [scan EXCEPT !["worker"] = None])
    BY <1>0, <2>2 DEF CalInv, PromiseInv, Threads
  <2>3. QED
    BY <1>5, <2>1, <2>2
<1>10. PromiseInv'
  BY <1>0, <1>7, <1>9 DEF CalInv, PromiseInv
<1>11. QED
  BY <1>1, <1>8, <1>10 DEF CalInv

\* A cable, and a death: the files are all that is left.
LEMMA WorldCal ==
    ASSUME CalInv, Cables \/ CamsDie
    PROVE  CalInv'
<1>1. CASE Cables
  BY <1>1 DEF Cables, Plug, Unplug, CalInv, EpochInv, RecentInv, FilesRecent, HandRecent, Recent,
     PromiseInv
<1>2. CASE CamsDie
  <2>1. /\ UNCHANGED <<files, epoch, asked>> /\ cache' = None /\ pipe' = None /\ hand' = None
        /\ \A t \in Threads : scan'[t] = None
    BY <1>2 DEF CamsDie, CamsForgotten
  <2>2. QED
    BY <2>1 DEF CalInv, EpochInv, RecentInv, FilesRecent, HandRecent, PromiseInv
<1>3. QED
  BY <1>1, <1>2

\* The operator changes an object: its camera and its epoch stay.
LEMMA ChangesCal ==
    ASSUME CamInv, CalInv, NEW kind, NEW s \in Slots, NEW choice,
           pipe # None, pipe[s] # None, Changes(kind, s, choice)
    PROVE  CalInv'
<1>1. pipe \in [Slots -> Objects \cup {None}] /\ pipe[s] \in Objects
  BY DEF CamInv, StoreInv, Lists, Found
<1>2. /\ pipe' = [pipe EXCEPT ![s].choice = choice]
      /\ cache' = IF shared THEN pipe' ELSE cache
      /\ hand' = [kind |-> kind, stage |-> "save", object |-> pipe'[s], cams |-> {},
                  clean |-> scan["worker"] = None]
      /\ UNCHANGED <<files, scan, epoch, asked>>
  BY DEF Changes
<1>3. /\ pipe'[s].epoch = pipe[s].epoch /\ pipe'[s].cam = pipe[s].cam
      /\ \A r \in Slots \ {s} : pipe'[r] = pipe[r]
  BY <1>1, <1>2 DEF Objects
<1>4. Recent(pipe')
  BY <1>3 DEF CalInv, RecentInv, Recent
<1>5. pipe'[s].epoch >= asked[pipe'[s].cam]
  BY <1>3 DEF CalInv, RecentInv, Recent
<1>6. /\ hand'.object = pipe'[s] /\ hand'.cams = {} /\ hand'.stage = "save"
      /\ hand'.clean = (scan["worker"] = None)
  BY <1>2
<1>7. RecentInv'
  BY <1>2, <1>4, <1>5, <1>6, RecentKept DEF CalInv, RecentInv, FilesRecent
<1>8. PromiseInv'
  BY <1>2, <1>6 DEF PromiseInv
<1>9. QED
  BY <1>2, <1>7, <1>8 DEF CalInv, EpochInv

\* A message about an object saves nothing older than it found.
LEMMA SavingCal ==
    ASSUME CamInv, CalInv, HandOpens \/ HandWrites \/ HandFails \/ HandEnds
    PROVE  CalInv'
<1> DEFINE o == hand.object
<1>0. /\ UNCHANGED <<cache, scan, epoch, asked>> /\ hand # None /\ hand \in Hands /\ HandOK(hand)
      /\ o \in Objects /\ o # None /\ files \in [Models -> Saved \cup {None, Torn}]
  <2>1. /\ UNCHANGED <<cache, scan, epoch, asked>> /\ hand # None /\ hand.stage \in Saving
    BY DEF HandOpens, HandWrites, HandFails, HandEnds, HandAt, Saving
  <2>2. HandOK(hand)
    BY <2>1 DEF CamInv, HandInv
  <2>3. QED
    BY <2>1, <2>2 DEF HandOK, Hands, Saving, CamInv, StoreInv
<1>1. EpochInv'
  BY <1>0 DEF CalInv, EpochInv
<1>2. \A c \in Cams : files'[Model[c]] \in Saved => files'[Model[c]].epoch >= asked[c]
  <2>1. Text(o).epoch = o.epoch /\ o.epoch >= asked[o.cam] /\ o.cam \in Cams
    BY <1>0, TextSaved DEF Text, CalInv, RecentInv, HandRecent
  <2>2. \A c \in Cams : Model[c] \in Models /\ (Model[c] = Model[o.cam] => asked[c] = asked[o.cam])
    BY <2>1 DEF CalInv, EpochInv, Models
  <2>3. CASE HandOpens
    <3>1. files' = [files EXCEPT ![Model[o.cam]] = Torn]
      BY <2>3 DEF HandOpens
    <3>2. QED
      BY <1>0, <2>2, <3>1, CamBounds DEF CalInv, RecentInv, FilesRecent
  <2>4. CASE HandWrites
    <3>1. files' = [files EXCEPT ![Model[o.cam]] = Text(o)]
      BY <2>4 DEF HandWrites
    <3>2. QED
      BY <1>0, <2>1, <2>2, <3>1 DEF CalInv, RecentInv, FilesRecent
  <2>5. CASE files' = files
    BY <2>5 DEF CalInv, RecentInv, FilesRecent
  <2>6. QED
    BY <2>3, <2>4, <2>5 DEF HandFails, HandEnds
<1>3. CASE HandEnds
  <2>1. hand' = None /\ (pipe' = pipe \/ pipe' = None)
    BY <1>3 DEF HandEnds
  <2>2. RecentInv'
    BY <1>0, <1>2, <2>1, RecentKept DEF CalInv, RecentInv
  <2>3. QED
    BY <1>1, <2>1, <2>2 DEF CalInv, PromiseInv
<1>4. CASE HandOpens \/ HandWrites \/ HandFails
  <2>1. /\ pipe' = pipe
        /\ \/ hand' = [hand EXCEPT !.stage = "write"]
           \/ hand' = [hand EXCEPT !.stage = "end"]
           \/ hand' = [hand EXCEPT !.stage = "end", !.clean = FALSE]
    BY <1>4 DEF HandOpens, HandWrites, HandFails, HandGoes
  <2>2. /\ hand'.object = o /\ hand'.cams = hand.cams /\ hand'.stage # "clear"
        /\ hand'.clean => hand.clean
    BY <1>0, <2>1 DEF Hands
  <2>3. RecentInv'
    BY <1>0, <1>2, <2>1, <2>2, RecentKept DEF CalInv, RecentInv, HandRecent
  <2>4. PromiseInv'
    BY <1>0, <2>2 DEF CalInv, PromiseInv
  <2>5. QED
    BY <1>1, <2>3, <2>4 DEF CalInv
<1>5. QED
  BY <1>3, <1>4

\* A calibration begins with the cameras of whole models.
LEMMA AskedCal ==
    ASSUME CamInv, CalInv, OnCalibrate \/ OnLateCalibrate
    PROVE  CalInv'
<1>0. UNCHANGED <<files, cache, pipe, epoch, asked>> /\ DOMAIN scan = Threads
  BY DEF OnCalibrate, OnLateCalibrate, CamInv, ScanInv
<1>1. PICK stage \in {"scan", "unlink"}, cams \in {{}, CamsOf(pipe), CamsOf(cache)} :
          Calibrating(stage, cams)
  BY DEF OnCalibrate, OnLateCalibrate
<1>2. scan' = scan \/ scan' = [scan EXCEPT !["channel"] = Enumerated]
  BY DEF OnCalibrate, OnLateCalibrate
<1>3. /\ hand'.object = None /\ hand'.cams = cams /\ hand'.stage = stage
      /\ hand'.clean = (scan["worker"] = None)
  BY <1>1 DEF Calibrating
<1>4. \A t \in Threads : scan'[t] # None => Recent(scan'[t].found)
  BY <1>0, <1>2, NothingFound DEF CalInv, RecentInv, Threads
<1>5. RecentInv'
  BY <1>0, <1>3, <1>4, RecentKept DEF CalInv, RecentInv, FilesRecent
<1>6. PromiseInv'
  <2>1. \A c \in cams, d \in Cams : Model[c] = Model[d] => d \in cams
    BY <1>1, WholeModels
  <2>2. scan'["worker"] = scan["worker"]
    BY <1>0, <1>2 DEF Threads
  <2>3. QED
    BY <1>0, <1>3, <2>1, <2>2 DEF PromiseInv
<1>7. QED
  BY <1>0, <1>5, <1>6 DEF CalInv, EpochInv

\* A calibration goes on; what it promises, nothing is left to break.
LEMMA CalibrationCal ==
    ASSUME CamInv, CalInv, HandScanned \/ HandUnlinks \/ HandClears
    PROVE  CalInv'
<1>1. CASE HandScanned
  <2>1. /\ scan["channel"] # None /\ UNCHANGED <<files, pipe, epoch, asked>>
        /\ cache' = Returned("channel")
        /\ hand' = [hand EXCEPT !.stage = "unlink", !.cams = CamsOf(scan["channel"].found)]
        /\ scan' = [scan EXCEPT !["channel"] = None]
    BY <1>1 DEF HandScanned, Scanned
  <2>2. hand \in Hands /\ hand # None /\ DOMAIN scan = Threads
    BY <2>1, CamBounds DEF CamInv, ScanInv, HandOK
  <2>3. /\ hand'.object = hand.object /\ hand'.stage = "unlink" /\ hand'.clean = hand.clean
        /\ hand'.cams = CamsOf(scan["channel"].found)
    BY <2>1, <2>2 DEF Hands
  <2>4. cache' # None => Recent(cache')
    BY <2>1 DEF CalInv, RecentInv, Returned, Threads
  <2>5. RecentInv'
    BY <2>1, <2>2, <2>3, <2>4, RecentKept DEF CalInv, RecentInv, FilesRecent, HandRecent, Threads
  <2>6. PromiseInv'
    BY <2>1, <2>2, <2>3, WholeModels DEF CalInv, PromiseInv, Threads
  <2>7. QED
    BY <2>1, <2>5, <2>6 DEF CalInv, EpochInv
<1>2. CASE HandUnlinks
  <2>1. /\ UNCHANGED <<cache, pipe, scan, epoch, asked>> /\ hand # None
        /\ hand' = [hand EXCEPT !.stage = "clear"]
        /\ files' = [m \in Models |-> IF \E c \in hand.cams : Model[c] = m THEN None ELSE files[m]]
    BY <1>2 DEF HandUnlinks, HandAt, HandGoes
  <2>2. hand \in Hands /\ hand.cams \subseteq Cams
    BY <2>1 DEF CamInv, HandInv, HandOK, Hands
  <2>3. hand'.object = hand.object /\ hand'.clean = hand.clean /\ hand'.cams = hand.cams
    BY <2>1, <2>2 DEF Hands
  <2>4. /\ \A c \in Cams : files'[Model[c]] \in Saved => files'[Model[c]] = files[Model[c]]
        /\ \A c \in hand.cams : files'[Model[c]] \notin Saved
    BY <2>1, <2>2, CamBounds DEF Models
  <2>5. RecentInv'
    BY <2>1, <2>3, <2>4, RecentKept DEF CalInv, RecentInv, FilesRecent, HandRecent
  <2>6. PromiseInv'
    BY <2>1, <2>3, <2>4 DEF CalInv, PromiseInv
  <2>7. QED
    BY <2>1, <2>5, <2>6 DEF CalInv, EpochInv
<1>3. CASE HandClears
  <2>1. /\ UNCHANGED <<files, scan>> /\ hand # None /\ hand.stage = "clear"
        /\ cache' = None /\ pipe' = None /\ hand' = None
        /\ epoch' = epoch + 1 /\ asked' = Promised
    BY <1>3 DEF HandClears, HandAt
  <2>2. epoch \in Nat /\ \A c \in Cams : asked[c] \in Nat
    BY CamBounds DEF CamInv, HistoryInv
  <2>3. \A c \in Cams : asked'[c] = IF hand.clean /\ c \in hand.cams THEN epoch + 1 ELSE asked[c]
    BY <2>1 DEF Promised
  <2>4. EpochInv'
    <3>1. \A c \in Cams : epoch' >= asked'[c]
      BY <2>1, <2>2, <2>3 DEF CalInv, EpochInv
    <3>2. \A c, d \in Cams : Model[c] = Model[d] => asked'[c] = asked'[d]
      BY <2>1, <2>3 DEF CalInv, EpochInv, PromiseInv
    <3>3. QED
      BY <3>1, <3>2 DEF EpochInv
  <2>5. CASE hand.clean
    <3>1. \A t \in Threads : scan'[t] = None
      BY <2>1, <2>5 DEF CalInv, PromiseInv, CamInv, ScanInv, Threads
    <3>2. FilesRecent'
      BY <2>1, <2>3, <2>5 DEF CalInv, RecentInv, FilesRecent, PromiseInv
    <3>3. QED
      BY <2>1, <2>4, <3>1, <3>2 DEF CalInv, RecentInv, PromiseInv, HandRecent
  <2>6. CASE ~hand.clean
    <3>1. asked' = asked
      BY <2>1, <2>6 DEF Promised, CamInv, HistoryInv
    <3>2. RecentInv'
      BY <2>1, <3>1, RecentKept DEF CalInv, RecentInv, FilesRecent
    <3>3. QED
      BY <2>1, <2>4, <3>2 DEF CalInv, PromiseInv
  <2>7. QED
    BY <2>5, <2>6
<1>4. QED
  BY <1>1, <1>2, <1>3

\* No step makes a copy older than what was promised.
LEMMA CalInvStep ==
    ASSUME CamInv, CalInv, [Next]_vars
    PROVE  CalInv'
<1>1. ASSUME NEW s \in Slots, NEW p \in Params, OnParams(s, p)
      PROVE  CalInv'
  BY <1>1, ChangesCal DEF OnParams
<1>2. ASSUME NEW s \in Slots, NEW r \in Rates, OnBitrate(s, r)
      PROVE  CalInv'
  BY <1>2, ChangesCal DEF OnBitrate
<1>3. CASE HandStep
  BY <1>1, <1>2, <1>3, SavingCal, AskedCal, CalibrationCal DEF HandStep
<1>4. CASE Serve
  BY <1>3, <1>4, ScanCal, SessionCal DEF Serve, CamStep
<1>5. CASE Cable \/ Crash
  BY <1>5, WorldCal DEF Cable, Crash
<1>6. CASE UNCHANGED camVars
  BY <1>6 DEF camVars, CalInv, EpochInv, RecentInv, FilesRecent, HandRecent, Recent, PromiseInv
<1>7. QED
  BY <1>4, <1>5, <1>6 DEF Next, Resolve, vars

\* After a calibration was asked for, and no scan overlapped the message, no
\* session is built with what was found about these cameras before: neither
\* from the cache, nor from a file, nor from a scan under way.
THEOREM CalibrationsAreDone == Spec => CalibrateHonoured
<1>1. Init => CamInv /\ CalInv
  BY CamInitInv, CalInvInit DEF Init
<1>2. CamInv /\ CalInv /\ [Next]_vars => CamInv' /\ CalInv'
  BY CamInvStep, CalInvStep
<1>3. CalInv' /\ Begun /\ asked' = asked => \A o \in Built : o.epoch >= asked[o.cam]
  BY DEF CalInv, RecentInv, Recent, Begun, Built
<1>4. Begun => asked' = asked
  BY DEF Begun, ConnectCached, ConnectEnds
<1>5. CalInv' => (Begun => \A o \in Built : o.epoch >= asked[o.cam])
  BY <1>3, <1>4
<1>6. QED
  BY <1>1, <1>2, <1>5, PTL DEF Spec, CalibrateHonoured

-----------------------------------------------------------------------------
(***************************************************************************)
(* Choices.                                                                *)
(***************************************************************************)

\* A camera is at one node, and an object in a list for one camera.
Apart(f)    == \A s, r \in Slots : f[s] # None /\ f[s] = f[r] => s = r
Distinct(l) == \A s, r \in Slots : l[s] # None /\ l[r] # None /\ l[s].cam = l[r].cam => s = r

\* A scan finds what was plugged in when it began.
ScanPlaced(w) ==
    /\ Apart(w.there)
    /\ \A s \in Slots : w.found[s] # None => w.found[s].cam = w.there[s]

\* The pipeline's objects are the cache's, until a calibration scans.
SharedInv ==
    /\ pipe # None /\ (hand = None \/ hand.stage \in Saving) => shared
    /\ shared => cache = pipe

PlaceInv ==
    /\ Apart(plugged)
    /\ cache # None => Distinct(cache)
    /\ \A t \in Threads : scan[t] # None => ScanPlaced(scan[t])
    /\ SharedInv

\* What was saved for camera c is in its file, or about to be again, ...
FileOwed(c) ==
    \/ files[Model[c]] \in Saved /\ files[Model[c]].choice = owed[c]
    \/ /\ files[Model[c]] = Torn
       /\ scan["worker"] # None /\ scan["worker"].open # None
       /\ Model[scan["worker"].found[scan["worker"].open].cam] = Model[c]

\* ... in the cache, ...
CacheOwed(c) ==
    cache # None =>
        \A s \in Slots : cache[s] # None /\ cache[s].cam = c => cache[s].choice = owed[c]

\* ... in what the worker's scan found and will save for its model, ...
ScanOwed(c) ==
    scan["worker"] # None =>
        \A s \in Slots :
            LET o == scan["worker"].found[s]
            IN  o # None /\ Model[o.cam] = Model[c] => o.choice = owed[c]

\* ... and the message under way is not about its model.
HandOwed(c) ==
    hand # None =>
        /\ hand.stage # "scan"
        /\ c \notin hand.cams
        /\ hand.stage \in Saving => Model[c] # Model[hand.object.cam]

OwedInv ==
    \A c \in Cams : owed[c] # None => FileOwed(c) /\ CacheOwed(c) /\ ScanOwed(c) /\ HandOwed(c)

\* A message that no scan overlapped brings its choice to the file and the cache.
SaveInv ==
    hand # None /\ hand.stage \in Saving /\ hand.clean =>
        LET o == hand.object
        IN  /\ hand.stage = "end" =>
                   files[Model[o.cam]] \in Saved /\ files[Model[o.cam]].choice = o.choice
            /\ cache # None =>
                   \A s \in Slots :
                       cache[s] # None /\ cache[s].cam = o.cam => cache[s].choice = o.choice

ChoiceInv == PlaceInv /\ OwedInv /\ SaveInv

\* The invariants of both theorems, with the types.
AllInv == CamInv /\ CalInv /\ ChoiceInv

\* Before anything is saved no choice is owed.
LEMMA ChoiceInvInit == CamInit => ChoiceInv
<1> SUFFICES ASSUME CamInit PROVE ChoiceInv
  OBVIOUS
<1>1. PlaceInv
  BY DEF CamInit, PlaceInv, SharedInv, Apart
<1>2. OwedInv /\ SaveInv
  BY DEF CamInit, OwedInv, SaveInv
<1>3. QED
  BY <1>1, <1>2 DEF ChoiceInv

\* What a scan starts from, and what it returns.
LEMMA EnumeratedPlaced == Apart(plugged) => ScanPlaced(Enumerated)
BY DEF ScanPlaced, Enumerated

\* A scan that returns a list returns what it found, no camera twice.
LEMMA ReturnedDistinct ==
    ASSUME NEW t \in Threads, scan[t] # None, ScanPlaced(scan[t]), ScanOK(scan[t]),
           Returned(t) # None
    PROVE  Distinct(Returned(t)) /\ Returned(t) = scan[t].found
<1>1. Returned(t) = scan[t].found
  BY DEF Returned
<1>2. \A s \in Slots : scan[t].found[s] # None => scan[t].there[s] # None
  BY CamBounds DEF ScanOK, Scans, Found, Lists, Objects, ScanPlaced
<1>3. QED
  BY <1>1, <1>2 DEF ScanPlaced, Apart, Distinct

\* While a calibration scans nothing is owed, and no scan meets a message that
\* will promise something.
LEMMA ScanOverlaps ==
    ASSUME AllInv, NEW t \in Threads, scan[t] # None
    PROVE  /\ t = "channel" => \A c \in Cams : owed[c] = None
           /\ ~(hand # None /\ hand.stage \in Saving /\ hand.clean)
<1>1. CASE t = "channel"
  <2>1. hand # None /\ hand.stage = "scan"
    BY <1>1, CamBounds DEF AllInv, CamInv, ScanInv, HandOK
  <2>2. QED
    BY <2>1 DEF AllInv, ChoiceInv, OwedInv, HandOwed, Saving
<1>2. CASE t = "worker"
  BY <1>2 DEF AllInv, CalInv, PromiseInv
<1>3. QED
  BY <1>1, <1>2 DEF Threads

\* A scan that found nothing more.
LEMMA PlacedSame ==
    ASSUME NEW w, ScanPlaced(w), NEW v, v.found = w.found, v.there = w.there
    PROVE  ScanPlaced(v)
BY DEF ScanPlaced

\* A scan's steps keep the places.
LEMMA ScanPlace ==
    ASSUME AllInv, NEW t \in Threads, ScanStep(t)
    PROVE  PlaceInv'
<1> DEFINE w == scan[t]
<1>0. /\ UNCHANGED <<plugged, cache, pipe, shared, hand>>
      /\ ScanOK(w) /\ scan[t] # None /\ DOMAIN scan = Threads /\ ScanPlaced(w)
      /\ w.found \in [Slots -> Objects \cup {None}] /\ w \in Scans
  BY DEF ScanStep, SaveWrites, LookSaved, LookMoved, LookCalibrated, LookFails, Looks, SaveOpens,
     AllInv, CamInv, ScanInv, ScanOK, Scans, Found, ChoiceInv, PlaceInv
<1>1. ASSUME NEW v, scan'[t] = v, \A u \in Threads \ {t} : scan'[u] = scan[u], ScanPlaced(v)
      PROVE  PlaceInv'
  BY <1>0, <1>1 DEF AllInv, ChoiceInv, PlaceInv, SharedInv, Apart, Distinct, ScanPlaced, Threads
<1>2. ASSUME NEW s \in Slots, s \in w.todo, NEW choice, NEW e, NEW open,
             Finds(t, s, choice, e, open)
      PROVE  PlaceInv'
  <2> DEFINE o == [cam |-> w.there[s], slot |-> s, choice |-> choice, epoch |-> e]
             v == [w EXCEPT !.todo = @ \ {s}, !.left = @ \cup {s}, !.open = open, !.found[s] = o]
  <2>1. scan'[t] = v /\ \A u \in Threads \ {t} : scan'[u] = scan[u]
    BY <1>0, <1>2 DEF Finds
  <2>2. v.found = [w.found EXCEPT ![s] = o] /\ v.there = w.there
    BY <1>0 DEF Scans
  <2>3. v.found[s] = o /\ \A r \in Slots \ {s} : v.found[r] = w.found[r]
    BY <1>0, <2>2
  <2>4. ScanPlaced(v)
    BY <1>0, <2>2, <2>3 DEF ScanPlaced
  <2>5. QED
    BY <1>1, <2>1, <2>4
<1>3. ASSUME NEW s \in Slots, LookFails(t, s)
      PROVE  PlaceInv'
  <2> DEFINE v == [w EXCEPT !.todo = @ \ {s}]
  <2>1. scan' = [scan EXCEPT ![t] = v]
    BY <1>3 DEF LookFails
  <2>2. v.found = w.found /\ v.there = w.there
    BY <1>0 DEF Scans
  <2>3. ScanPlaced(v)
    BY <1>0, <2>2, PlacedSame
  <2>4. QED
    BY <1>0, <1>1, <2>1, <2>3
<1>4. ASSUME NEW s \in Slots, SaveOpens(t, s)
      PROVE  PlaceInv'
  <2> DEFINE v == [w EXCEPT !.left = @ \ {s}, !.open = s]
  <2>1. scan' = [scan EXCEPT ![t] = v]
    BY <1>4 DEF SaveOpens
  <2>2. v.found = w.found /\ v.there = w.there
    BY <1>0 DEF Scans
  <2>3. ScanPlaced(v)
    BY <1>0, <2>2, PlacedSame
  <2>4. QED
    BY <1>0, <1>1, <2>1, <2>3
<1>5. CASE SaveWrites(t)
  <2> DEFINE v == [w EXCEPT !.open = None]
  <2>1. scan' = [scan EXCEPT ![t] = v]
    BY <1>5 DEF SaveWrites
  <2>2. v.found = w.found /\ v.there = w.there
    BY <1>0 DEF Scans
  <2>3. ScanPlaced(v)
    BY <1>0, <2>2, PlacedSame
  <2>4. QED
    BY <1>0, <1>1, <2>1, <2>3
<1>6. QED
  BY <1>2, <1>3, <1>4, <1>5 DEF ScanStep, LookSaved, LookMoved, LookCalibrated, Looks

\* What the worker's scan finds and saves is what was saved.
LEMMA ScanOwes ==
    ASSUME AllInv, ScanStep("worker"), NEW c \in Cams, owed[c] # None
    PROVE  FileOwed(c)' /\ ScanOwed(c)'
<1> DEFINE w == scan["worker"]
<1>0. /\ owed' = owed /\ ScanOK(w) /\ w # None /\ DOMAIN scan = Threads /\ "worker" \in Threads
      /\ ScanPlaced(w) /\ files \in [Models -> Saved \cup {None, Torn}]
      /\ w.found \in [Slots -> Objects \cup {None}] /\ w \in Scans /\ Model[c] \in Models
  BY DEF ScanStep, SaveWrites, LookSaved, LookMoved, LookCalibrated, LookFails, Looks, SaveOpens,
     AllInv, CamInv, ScanInv, ScanOK, Scans, Found, ChoiceInv, PlaceInv, StoreInv, Threads, Models
<1>1. FileOwed(c) /\ ScanOwed(c)
  BY DEF AllInv, ChoiceInv, OwedInv
<1>2. w.open = None => files[Model[c]] \in Saved /\ files[Model[c]].choice = owed[c]
  BY <1>1 DEF FileOwed
<1>3. ASSUME NEW v, scan' = [scan EXCEPT !["worker"] = v], v.found = w.found
      PROVE  ScanOwed(c)'
  BY <1>0, <1>1, <1>3 DEF ScanOwed
<1>4. ASSUME NEW s \in Slots, s \in w.todo, NEW choice \in Choices, NEW e \in 0..MaxEpoch,
             NEW open \in {None, s}, Finds("worker", s, choice, e, open),
             Model[w.there[s]] = Model[c] => choice = owed[c]
      PROVE  /\ ScanOwed(c)'
             /\ scan'["worker"].open = open /\ scan'["worker"] # None
             /\ scan'["worker"].found[s] # None /\ scan'["worker"].found[s].cam = w.there[s]
  <2> DEFINE o == [cam |-> w.there[s], slot |-> s, choice |-> choice, epoch |-> e]
             v == [w EXCEPT !.todo = @ \ {s}, !.left = @ \cup {s}, !.open = open, !.found[s] = o]
  <2>1. scan'["worker"] = v
    BY <1>0, <1>4 DEF Finds
  <2>2. v.found = [w.found EXCEPT ![s] = o] /\ v.open = open
    BY <1>0 DEF Scans
  <2>3. v.found[s] = o /\ \A r \in Slots \ {s} : v.found[r] = w.found[r]
    BY <1>0, <2>2
  <2>4. o.cam = w.there[s] /\ o.choice = choice
    OBVIOUS
  <2>5. ScanOwed(c)'
    BY <1>0, <1>1, <1>4, <2>1, <2>3, <2>4 DEF ScanOwed
  <2>6. v # None /\ o # None
    <3>1. w.there[s] \in Cams
      BY <1>0, <1>4 DEF ScanOK, Scans
    <3>2. o \in Objects /\ o.slot = s
      BY <3>1 DEF Objects
    <3>3. ScanOK(v)
      BY <1>0, <1>4, <3>2, FoundOK
    <3>4. QED
      BY <3>2, <3>3, CamBounds DEF ScanOK
  <2>7. QED
    BY <2>1, <2>2, <2>3, <2>4, <2>5, <2>6
<1>5. ASSUME NEW s \in Slots, LookSaved("worker", s) \/ LookMoved("worker", s)
      PROVE  FileOwed(c)' /\ ScanOwed(c)'
  <2> DEFINE m == Model[w.there[s]]
  <2>1. s \in w.todo /\ files[m] \in Saved /\ w.open = None
    BY <1>5 DEF LookSaved, LookMoved, Looks, FileAt
  <2>2. files[Model[c]] \in Saved /\ files[Model[c]].choice = owed[c]
    BY <1>2, <2>1
  <2>3. files[m].choice \in Choices /\ files[m].epoch \in 0..MaxEpoch
    BY <2>1 DEF Saved
  <2>4. CASE LookSaved("worker", s)
    <3>1. Finds("worker", s, files[m].choice, files[m].epoch, None) /\ files' = files
      BY <2>4 DEF LookSaved, FileAt
    <3>2. ScanOwed(c)'
      BY <1>4, <2>1, <2>2, <2>3, <3>1
    <3>3. QED
      BY <1>0, <2>2, <3>1, <3>2 DEF FileOwed
  <2>5. CASE LookMoved("worker", s)
    <3>1. /\ Finds("worker", s, files[m].choice, files[m].epoch, s)
          /\ files' = [files EXCEPT ![m] = Torn]
      BY <2>5 DEF LookMoved, FileAt
    <3>2. /\ ScanOwed(c)'
          /\ scan'["worker"].open = s /\ scan'["worker"] # None
          /\ scan'["worker"].found[s].cam = w.there[s]
      <4>1. s \in {None, s} /\ (m = Model[c] => files[m].choice = owed[c])
        BY <2>2
      <4>2. QED
        BY <1>4, <2>1, <2>3, <3>1, <4>1
    <3>3. FileOwed(c)'
      BY <1>0, <2>2, <3>1, <3>2, CamBounds DEF FileOwed
    <3>4. QED
      BY <3>2, <3>3
  <2>6. QED
    BY <1>5, <2>4, <2>5
<1>6. ASSUME NEW s \in Slots, LookCalibrated("worker", s)
      PROVE  FileOwed(c)' /\ ScanOwed(c)'
  <2>1. /\ s \in w.todo /\ files[Model[w.there[s]]] \notin Saved /\ files' = files
        /\ w.open = None
        /\ Finds("worker", s, [param |-> DefaultParam, rate |-> DefaultRate], epoch, None)
    BY <1>6 DEF LookCalibrated, Looks, FileAt
  <2>2. files[Model[c]] \in Saved /\ files[Model[c]].choice = owed[c]
    BY <1>2, <2>1
  <2>3. [param |-> DefaultParam, rate |-> DefaultRate] \in Choices /\ epoch \in 0..MaxEpoch
    BY CamBounds DEF Choices, AllInv, CamInv, HistoryInv
  <2>4. ScanOwed(c)'
    BY <1>4, <2>1, <2>2, <2>3
  <2>5. QED
    BY <1>0, <2>1, <2>2, <2>4 DEF FileOwed
<1>7. ASSUME NEW s \in Slots, LookFails("worker", s)
      PROVE  FileOwed(c)' /\ ScanOwed(c)'
  <2> DEFINE v == [w EXCEPT !.todo = @ \ {s}]
  <2>1. scan' = [scan EXCEPT !["worker"] = v] /\ files' = files /\ w.open = None
    BY <1>7 DEF LookFails, Looks
  <2>2. v.found = w.found
    BY <1>0 DEF Scans
  <2>3. QED
    BY <1>0, <1>2, <1>3, <2>1, <2>2 DEF FileOwed
<1>8. ASSUME NEW s \in Slots, SaveOpens("worker", s)
      PROVE  FileOwed(c)' /\ ScanOwed(c)'
  <2> DEFINE v == [w EXCEPT !.left = @ \ {s}, !.open = s]
  <2>1. /\ scan' = [scan EXCEPT !["worker"] = v] /\ w.open = None
        /\ files' = [files EXCEPT ![Model[w.found[s].cam]] = Torn]
    BY <1>8 DEF SaveOpens
  <2>2. v \in Scans /\ v.found = w.found /\ v.open = s
    <3>1. s \in Slots
      BY <1>8
    <3>2. QED
      BY <1>0, <3>1 DEF Scans
  <2>3. scan'["worker"] = v /\ v # None /\ s # None
    BY <1>0, <1>8, <2>1, <2>2, CamBounds
  <2>4. FileOwed(c)'
    BY <1>0, <1>2, <2>1, <2>2, <2>3 DEF FileOwed
  <2>5. QED
    BY <1>3, <2>1, <2>2, <2>4
<1>9. CASE SaveWrites("worker")
  <2> DEFINE o == w.found[w.open]
             v == [w EXCEPT !.open = None]
  <2>1. /\ w.open # None /\ files' = [files EXCEPT ![Model[o.cam]] = Text(o)]
        /\ scan' = [scan EXCEPT !["worker"] = v]
    BY <1>9 DEF SaveWrites
  <2>2. o \in Objects /\ o # None /\ w.open \in Slots
    BY <1>0, <2>1 DEF ScanOK, Scans, Found
  <2>3. Text(o) \in Saved /\ Text(o).choice = o.choice
    BY <2>2, TextSaved DEF Text
  <2>4. v.found = w.found
    BY <1>0 DEF Scans
  <2>5. Model[o.cam] = Model[c] => o.choice = owed[c]
    BY <1>0, <1>1, <2>2 DEF ScanOwed
  <2>6. Model[o.cam] # Model[c] => files[Model[c]] \in Saved /\ files[Model[c]].choice = owed[c]
    BY <1>1 DEF FileOwed
  <2>7. files'[Model[c]] \in Saved /\ files'[Model[c]].choice = owed[c]
    BY <1>0, <2>1, <2>3, <2>5, <2>6
  <2>8. QED
    BY <1>0, <1>3, <2>1, <2>4, <2>7 DEF FileOwed
<1>10. QED
  BY <1>5, <1>6, <1>7, <1>8, <1>9 DEF ScanStep

\* No step of a scan loses a choice.
LEMMA ScanChoice ==
    ASSUME AllInv, NEW t \in Threads, ScanStep(t)
    PROVE  ChoiceInv'
<1>0. UNCHANGED <<cache, hand, owed>> /\ scan[t] # None
  BY DEF ScanStep, SaveWrites, LookSaved, LookMoved, LookCalibrated, LookFails, Looks, SaveOpens
<1>1. ASSUME NEW c \in Cams, owed[c] # None
      PROVE  FileOwed(c)' /\ CacheOwed(c)' /\ ScanOwed(c)' /\ HandOwed(c)'
  <2>1. t = "worker"
    BY <1>0, <1>1, ScanOverlaps DEF Threads
  <2>2. CacheOwed(c) /\ HandOwed(c)
    BY <1>1 DEF AllInv, ChoiceInv, OwedInv
  <2>3. QED
    BY <1>0, <1>1, <2>1, <2>2, ScanOwes DEF CacheOwed, HandOwed
<1>2. OwedInv'
  BY <1>0, <1>1 DEF OwedInv
<1>3. SaveInv'
  BY <1>0, ScanOverlaps DEF SaveInv
<1>4. QED
  BY <1>2, <1>3, ScanPlace DEF ChoiceInv

\* A session is built on what the cache or the worker's scan has.
LEMMA SessionChoice ==
    ASSUME AllInv, SessionStep
    PROVE  ChoiceInv'
<1>0. /\ UNCHANGED <<plugged, files, owed>> /\ DOMAIN scan = Threads
      /\ "worker" \in Threads /\ "channel" \in Threads
  BY DEF SessionStep, ConnectCached, ConnectScans, ConnectEnds, SessionEnds, CacheCleared, AllInv,
     CamInv, ScanInv, Threads
<1>1. /\ scan["worker"] # None /\ Returned("worker") # None =>
             Distinct(Returned("worker")) /\ Returned("worker") = scan["worker"].found
      /\ Apart(plugged)
  BY <1>0, ReturnedDistinct DEF AllInv, ChoiceInv, PlaceInv, CamInv, ScanInv
<1>2. \/ cache' = cache
      \/ cache' = None
      \/ scan["worker"] # None /\ cache' = Returned("worker")
  BY DEF SessionStep, ConnectCached, ConnectScans, ConnectEnds, SessionEnds, CacheCleared, Begins,
     Scanned
<1>3. (shared' = FALSE /\ pipe' = None) \/ (shared' = TRUE /\ cache' = pipe')
  BY DEF SessionStep, ConnectCached, ConnectScans, ConnectEnds, SessionEnds, CacheCleared, Begins
<1>4. \/ UNCHANGED <<scan, hand>>
      \/ /\ UNCHANGED hand /\ scan["worker"] # None /\ scan["worker"].open = None
         /\ scan' = [scan EXCEPT !["worker"] = None]
      \/ /\ scan["worker"] = None /\ scan' = [scan EXCEPT !["worker"] = Enumerated]
         /\ hand' = IF hand = None THEN None ELSE [hand EXCEPT !.clean = FALSE]
  BY DEF SessionStep, ConnectCached, ConnectScans, ConnectEnds, SessionEnds, CacheCleared, Scanned
<1>5. PlaceInv'
  <2>1. cache' # None => Distinct(cache')
    BY <1>1, <1>2 DEF AllInv, ChoiceInv, PlaceInv
  <2>2. \A t \in Threads : scan'[t] # None => ScanPlaced(scan'[t])
    <3>1. ScanPlaced(Enumerated)
      BY <1>1, EnumeratedPlaced
    <3>2. QED
      BY <1>0, <1>4, <3>1 DEF AllInv, ChoiceInv, PlaceInv
  <2>3. SharedInv'
    BY <1>3 DEF SharedInv
  <2>4. QED
    BY <1>0, <1>1, <2>1, <2>2, <2>3 DEF PlaceInv, Apart, Distinct, ScanPlaced
<1>6. /\ hand' # None => hand # None
      /\ hand' # None => /\ hand'.object = hand.object /\ hand'.cams = hand.cams
                         /\ hand'.stage = hand.stage
                         /\ hand'.clean => UNCHANGED hand
  <2>1. CASE UNCHANGED hand
    BY <2>1
  <2>2. CASE hand # None /\ hand' = [hand EXCEPT !.clean = FALSE]
    <3>1. hand \in Hands
      BY <2>2 DEF AllInv, CamInv, HandInv, HandOK
    <3>2. QED
      BY <2>2, <3>1 DEF Hands
  <2>3. QED
    BY <1>4, <2>1, <2>2
<1>7. ASSUME NEW c \in Cams, owed[c] # None
      PROVE  FileOwed(c)' /\ CacheOwed(c)' /\ ScanOwed(c)' /\ HandOwed(c)'
  <2>1. FileOwed(c) /\ CacheOwed(c) /\ ScanOwed(c) /\ HandOwed(c)
    BY <1>7 DEF AllInv, ChoiceInv, OwedInv
  <2>2. FileOwed(c)'
    <3>1. \/ UNCHANGED scan
          \/ files[Model[c]] \in Saved /\ files[Model[c]].choice = owed[c]
      BY <1>4, <2>1 DEF FileOwed
    <3>2. QED
      BY <1>0, <2>1, <3>1 DEF FileOwed
  <2>3. CacheOwed(c)'
    <3>1. CASE cache' = cache \/ cache' = None
      BY <1>0, <2>1, <3>1 DEF CacheOwed
    <3>2. CASE scan["worker"] # None /\ cache' = Returned("worker")
      BY <1>0, <1>1, <2>1, <3>2 DEF CacheOwed, ScanOwed
    <3>3. QED
      BY <1>2, <3>1, <3>2
  <2>4. ScanOwed(c)'
    BY <1>0, <1>4, <2>1 DEF ScanOwed, Enumerated
  <2>5. HandOwed(c)'
    BY <1>6, <2>1 DEF HandOwed
  <2>6. QED
    BY <2>2, <2>3, <2>4, <2>5
<1>8. OwedInv'
  BY <1>0, <1>7 DEF OwedInv
<1>9. SaveInv'
  <2>1. SUFFICES ASSUME hand' # None, hand'.stage \in Saving, hand'.clean
                 PROVE  SaveInv'
    BY DEF SaveInv
  <2>2. UNCHANGED hand /\ hand # None /\ hand.stage \in Saving /\ hand.clean
    BY <1>6, <2>1
  <2>3. scan["worker"] = None
    BY <2>2 DEF AllInv, CalInv, PromiseInv
  <2>4. cache' = cache \/ cache' = None
    BY <1>2, <2>3
  <2>5. QED
    BY <1>0, <2>2, <2>4 DEF AllInv, ChoiceInv, SaveInv
<1>10. QED
  BY <1>5, <1>8, <1>9 DEF ChoiceInv

\* A cable moves, and the board dies: a file that was being written is
\* forgotten, the others are as they were.
LEMMA WorldChoice ==
    ASSUME AllInv, Cables \/ CamsDie
    PROVE  ChoiceInv'
<1>1. CASE Cables
  <2>1. UNCHANGED <<files, cache, pipe, shared, met, scan, hand, epoch, owed, asked>>
    BY <1>1 DEF Cables, Plug, Unplug
  <2>2. Apart(plugged) /\ plugged \in [Slots -> Cams \cup {None}]
    BY DEF AllInv, ChoiceInv, PlaceInv, CamInv, StoreInv
  <2>3. ASSUME NEW c \in Cams, NEW s \in Slots, Plug(c, s)
        PROVE  Apart(plugged')
    BY <2>2, <2>3 DEF Plug, Apart
  <2>4. ASSUME NEW s \in Slots, Unplug(s)
        PROVE  Apart(plugged')
    BY <2>2, <2>4 DEF Unplug, Apart
  <2>5. Apart(plugged')
    BY <1>1, <2>3, <2>4 DEF Cables
  <2>6. PlaceInv'
    BY <2>1, <2>5 DEF AllInv, ChoiceInv, PlaceInv, SharedInv, Apart, Distinct, ScanPlaced
  <2>7. OwedInv' /\ SaveInv'
    BY <2>1
    DEF AllInv, ChoiceInv, OwedInv, FileOwed, CacheOwed, ScanOwed, HandOwed, SaveInv
  <2>8. QED
    BY <2>6, <2>7 DEF ChoiceInv
<1>2. CASE CamsDie
  <2>1. /\ UNCHANGED <<plugged, files>> /\ cache' = None /\ pipe' = None /\ shared' = FALSE
        /\ hand' = None /\ \A t \in Threads : scan'[t] = None
        /\ owed' = Forget({c \in Cams : files[Model[c]] = Torn})
    BY <1>2 DEF CamsDie, CamsForgotten
  <2>2. PlaceInv' /\ SaveInv'
    BY <2>1 DEF AllInv, ChoiceInv, PlaceInv, SharedInv, Apart, SaveInv
  <2>3. ASSUME NEW c \in Cams, owed'[c] # None
        PROVE  FileOwed(c)'
    <3>1. owed'[c] = owed[c] /\ files[Model[c]] # Torn
      BY <2>1, <2>3 DEF Forget
    <3>2. FileOwed(c)
      BY <2>3, <3>1 DEF AllInv, ChoiceInv, OwedInv
    <3>3. QED
      BY <2>1, <3>1, <3>2 DEF FileOwed
  <2>4. OwedInv'
    BY <2>1, <2>3 DEF OwedInv, CacheOwed, ScanOwed, HandOwed, Threads
  <2>5. QED
    BY <2>2, <2>4 DEF ChoiceInv
<1>3. QED
  BY <1>1, <1>2

\* The operator changes an object, which is the cache's too: what was owed to
\* cameras of its model is forgotten.
LEMMA ChangesChoice ==
    ASSUME AllInv, NEW kind, NEW s \in Slots, NEW choice,
           pipe # None, pipe[s] # None, Changes(kind, s, choice)
    PROVE  ChoiceInv'
<1>1. pipe \in [Slots -> Objects \cup {None}] /\ pipe[s] \in Objects
  BY DEF AllInv, CamInv, StoreInv, Lists, Found
<1>2. /\ hand = None /\ pipe' = [pipe EXCEPT ![s].choice = choice]
      /\ cache' = IF shared THEN pipe' ELSE cache
      /\ hand' = [kind |-> kind, stage |-> "save", object |-> pipe'[s], cams |-> {},
                  clean |-> scan["worker"] = None]
      /\ owed' = Forget(Alike(pipe[s].cam))
      /\ UNCHANGED <<plugged, files, shared, scan>>
  BY DEF Changes
<1>3. shared /\ cache = pipe /\ Distinct(pipe) /\ cache' = pipe'
  BY <1>2 DEF AllInv, ChoiceInv, PlaceInv, SharedInv
<1>4. /\ pipe'[s].choice = choice /\ pipe'[s].cam = pipe[s].cam
      /\ \A r \in Slots \ {s} : pipe'[r] = pipe[r]
  BY <1>1, <1>2 DEF Objects
<1>5. Distinct(pipe')
  BY <1>3, <1>4 DEF Distinct
<1>6. /\ hand'.object = pipe'[s] /\ hand'.cams = {} /\ hand'.stage = "save"
  BY <1>2
<1>7. PlaceInv'
  BY <1>2, <1>3, <1>5 DEF AllInv, ChoiceInv, PlaceInv, SharedInv, Apart, Distinct, ScanPlaced
<1>8. ASSUME NEW c \in Cams, owed'[c] # None
      PROVE  FileOwed(c)' /\ CacheOwed(c)' /\ ScanOwed(c)' /\ HandOwed(c)'
  <2>1. owed'[c] = owed[c] /\ Model[c] # Model[pipe[s].cam]
    BY <1>2, <1>8 DEF Forget, Alike
  <2>2. FileOwed(c) /\ CacheOwed(c) /\ ScanOwed(c)
    BY <1>8, <2>1 DEF AllInv, ChoiceInv, OwedInv
  <2>3. FileOwed(c)' /\ ScanOwed(c)'
    BY <1>2, <2>1, <2>2 DEF FileOwed, ScanOwed
  <2>4. CacheOwed(c)'
    BY <1>3, <1>4, <2>1, <2>2 DEF CacheOwed
  <2>5. HandOwed(c)'
    BY <1>4, <1>6, <2>1 DEF HandOwed
  <2>6. QED
    BY <2>3, <2>4, <2>5
<1>9. OwedInv'
  BY <1>8 DEF OwedInv
<1>10. SaveInv'
  <2>1. \A r \in Slots : pipe'[r] # None /\ pipe'[r].cam = pipe'[s].cam => r = s
    BY <1>3, <1>4 DEF Distinct
  <2>2. QED
    BY <1>3, <1>6, <2>1 DEF SaveInv
<1>11. QED
  BY <1>7, <1>9, <1>10 DEF ChoiceInv

\* A message about an object saves it, and only then the choice is owed.
LEMMA SavingChoice ==
    ASSUME AllInv, HandOpens \/ HandWrites \/ HandFails \/ HandEnds
    PROVE  ChoiceInv'
<1> DEFINE o == hand.object
<1>0. /\ UNCHANGED <<plugged, cache, scan>> /\ hand # None /\ hand \in Hands /\ hand.stage \in Saving
      /\ o \in Objects /\ files \in [Models -> Saved \cup {None, Torn}] /\ o.cam \in Cams
  <2>1. /\ UNCHANGED <<plugged, cache, scan>> /\ hand # None /\ hand.stage \in Saving
    BY DEF HandOpens, HandWrites, HandFails, HandEnds, HandAt, Saving
  <2>2. HandOK(hand)
    BY <2>1 DEF AllInv, CamInv, HandInv
  <2>3. o \in Objects
    BY <2>1, <2>2 DEF HandOK, Hands, Saving
  <2>4. QED
    BY <2>1, <2>2, <2>3, TextSaved DEF HandOK, AllInv, CamInv, StoreInv
<1>1. PlaceInv'
  <2>1. UNCHANGED <<pipe, shared>> \/ (pipe' = None /\ shared' = FALSE)
    <3>1. HandOpens \/ HandWrites \/ HandFails => UNCHANGED <<pipe, shared>>
      BY DEF HandOpens, HandWrites, HandFails
    <3>2. HandEnds => UNCHANGED <<pipe, shared>> \/ (pipe' = None /\ shared' = FALSE)
      BY DEF HandEnds
    <3>3. QED
      BY <3>1, <3>2
  <2>2. SharedInv'
    BY <1>0, <2>1 DEF AllInv, ChoiceInv, PlaceInv, SharedInv
  <2>3. QED
    BY <1>0, <2>2 DEF AllInv, ChoiceInv, PlaceInv, Apart, Distinct, ScanPlaced
<1>2. ASSUME NEW c \in Cams, owed[c] # None
      PROVE  /\ FileOwed(c) /\ CacheOwed(c) /\ ScanOwed(c) /\ Model[c] # Model[o.cam]
             /\ Model[c] \in Models /\ c \notin hand.cams
  BY <1>0, <1>2 DEF AllInv, ChoiceInv, OwedInv, HandOwed, Models
<1>3. CASE HandOpens \/ HandWrites \/ HandFails
  <2>1. /\ owed' = owed
        /\ \/ hand' = [hand EXCEPT !.stage = "write"]
           \/ hand' = [hand EXCEPT !.stage = "end"]
           \/ hand' = [hand EXCEPT !.stage = "end", !.clean = FALSE]
    BY <1>3 DEF HandOpens, HandWrites, HandFails, HandGoes
  <2>2. /\ hand'.object = o /\ hand'.cams = hand.cams /\ hand'.stage \in {"write", "end"}
    BY <1>0, <2>1 DEF Hands
  <2>3. \A m \in Models : m # Model[o.cam] => files'[m] = files[m]
    BY <1>0, <1>3 DEF HandOpens, HandWrites, HandFails
  <2>4. ASSUME NEW c \in Cams, owed[c] # None
        PROVE  FileOwed(c)' /\ CacheOwed(c)' /\ ScanOwed(c)' /\ HandOwed(c)'
    BY <1>0, <1>2, <2>1, <2>2, <2>3, <2>4 DEF FileOwed, CacheOwed, ScanOwed, HandOwed
  <2>5. OwedInv'
    BY <2>1, <2>4 DEF OwedInv
  <2>6. hand'.clean => hand.clean /\ ~HandFails
    <3>1. CASE HandFails
      BY <1>0, <3>1 DEF HandFails, Hands
    <3>2. CASE HandOpens \/ HandWrites
      BY <1>0, <3>2 DEF HandOpens, HandWrites, HandGoes, HandAt, HandFails, Hands
    <3>3. QED
      BY <1>3, <3>1, <3>2
  <2>7. hand'.clean /\ hand'.stage = "end" =>
            files'[Model[o.cam]] \in Saved /\ files'[Model[o.cam]].choice = o.choice
    <3>1. SUFFICES ASSUME hand'.clean, hand'.stage = "end"
                   PROVE  files'[Model[o.cam]] \in Saved /\ files'[Model[o.cam]].choice = o.choice
      OBVIOUS
    <3>2. HandWrites
      BY <1>0, <1>3, <2>6, <3>1 DEF HandOpens, HandGoes, Hands
    <3>3. files' = [files EXCEPT ![Model[o.cam]] = Text(o)]
      BY <3>2 DEF HandWrites
    <3>4. Text(o) \in Saved /\ Text(o).choice = o.choice /\ Model[o.cam] \in Models
      BY <1>0, TextSaved DEF Text
    <3>5. QED
      BY <1>0, <3>3, <3>4
  <2>8. SaveInv'
    BY <1>0, <2>2, <2>6, <2>7 DEF AllInv, ChoiceInv, SaveInv
  <2>9. QED
    BY <1>1, <2>5, <2>8 DEF ChoiceInv
<1>4. CASE HandEnds
  <2>1. /\ hand' = None /\ files' = files /\ hand.stage = "end"
        /\ owed' = IF hand.clean THEN [owed EXCEPT ![o.cam] = o.choice] ELSE owed
    BY <1>4 DEF HandEnds, HandAt
  <2>2. owed \in [Cams -> Choices \cup {None}]
    BY DEF AllInv, CamInv, HistoryInv
  <2>3. ASSUME NEW c \in Cams, owed'[c] # None
        PROVE  FileOwed(c)' /\ CacheOwed(c)' /\ ScanOwed(c)'
    <3>1. CASE owed'[c] = owed[c] /\ owed[c] # None
      BY <1>0, <1>2, <2>1, <3>1 DEF FileOwed, CacheOwed, ScanOwed
    <3>2. CASE hand.clean /\ c = o.cam
      <4>1. owed'[c] = o.choice
        BY <2>1, <2>2, <3>2
      <4>2. /\ files[Model[o.cam]] \in Saved /\ files[Model[o.cam]].choice = o.choice
            /\ cache # None =>
                   \A s \in Slots :
                       cache[s] # None /\ cache[s].cam = o.cam => cache[s].choice = o.choice
        BY <1>0, <2>1, <3>2 DEF AllInv, ChoiceInv, SaveInv
      <4>3. scan["worker"] = None
        BY <1>0, <3>2 DEF AllInv, CalInv, PromiseInv
      <4>4. QED
        BY <1>0, <2>1, <3>2, <4>1, <4>2, <4>3 DEF FileOwed, CacheOwed, ScanOwed
    <3>3. QED
      BY <2>1, <2>2, <2>3, <3>1, <3>2
  <2>4. OwedInv' /\ SaveInv'
    BY <2>1, <2>3 DEF OwedInv, HandOwed, SaveInv
  <2>5. QED
    BY <1>1, <2>4 DEF ChoiceInv
<1>5. QED
  BY <1>3, <1>4

\* What is owed to the cameras of a calibration is forgotten when it begins.
LEMMA AskedChoice ==
    ASSUME AllInv, OnCalibrate \/ OnLateCalibrate
    PROVE  ChoiceInv'
<1>0. UNCHANGED <<plugged, files, cache, pipe, shared>> /\ hand = None /\ DOMAIN scan = Threads
  BY DEF OnCalibrate, OnLateCalibrate, AllInv, CamInv, ScanInv
<1>1. PICK stage \in {"scan", "unlink"}, cams \in {{}, CamsOf(pipe), CamsOf(cache)},
           forgotten \in {Cams, CamsOf(pipe), CamsOf(cache)} :
          /\ Calibrating(stage, cams) /\ owed' = Forget(forgotten)
          /\ forgotten = Cams \/ (stage = "unlink" /\ forgotten = cams)
  BY DEF OnCalibrate, OnLateCalibrate
<1>2. scan' = scan \/ scan' = [scan EXCEPT !["channel"] = Enumerated]
  BY DEF OnCalibrate, OnLateCalibrate
<1>3. hand'.cams = cams /\ hand'.stage = stage
  BY <1>1 DEF Calibrating
<1>4. hand' # None
  <2>1. cams \in SUBSET Cams /\ epoch < MaxEpoch /\ UNCHANGED epoch
    BY <1>1, CamsOfType DEF OnCalibrate, OnLateCalibrate
  <2>2. HandOK(hand')
    BY <1>1, <2>1, CalibratingOK
  <2>3. QED
    BY <2>2, CamBounds DEF HandOK
<1>5. PlaceInv'
  <2>1. \A t \in Threads : scan'[t] # None => ScanPlaced(scan'[t])
    BY <1>0, <1>2, EnumeratedPlaced DEF AllInv, ChoiceInv, PlaceInv
  <2>2. SharedInv'
    BY <1>0, <1>3, <1>4 DEF AllInv, ChoiceInv, PlaceInv, SharedInv, Saving
  <2>3. QED
    BY <1>0, <2>1, <2>2 DEF AllInv, ChoiceInv, PlaceInv, Apart, Distinct, ScanPlaced
<1>6. scan'["worker"] = scan["worker"]
  BY <1>0, <1>2 DEF Threads
<1>7. ASSUME NEW c \in Cams, owed'[c] # None
      PROVE  FileOwed(c)' /\ CacheOwed(c)' /\ ScanOwed(c)' /\ HandOwed(c)'
  <2>1. owed'[c] = owed[c] /\ c \notin forgotten
    BY <1>1, <1>7 DEF Forget
  <2>2. FileOwed(c) /\ CacheOwed(c) /\ ScanOwed(c)
    BY <1>7, <2>1 DEF AllInv, ChoiceInv, OwedInv
  <2>3. FileOwed(c)' /\ ScanOwed(c)' /\ CacheOwed(c)'
    BY <1>0, <1>6, <2>1, <2>2 DEF FileOwed, ScanOwed, CacheOwed
  <2>4. HandOwed(c)'
    BY <1>1, <1>3, <2>1 DEF HandOwed, Saving
  <2>5. QED
    BY <2>3, <2>4
<1>8. OwedInv' /\ SaveInv'
  BY <1>3, <1>7 DEF OwedInv, SaveInv, Saving
<1>9. QED
  BY <1>5, <1>8 DEF ChoiceInv

\* A calibration goes on: nothing is owed to the cameras whose files it deletes.
LEMMA CalibrationChoice ==
    ASSUME AllInv, HandScanned \/ HandUnlinks \/ HandClears
    PROVE  ChoiceInv'
<1>1. CASE HandScanned
  <2>1. /\ scan["channel"] # None /\ UNCHANGED <<plugged, files, pipe, owed>>
        /\ cache' = Returned("channel") /\ shared' = FALSE
        /\ hand' = [hand EXCEPT !.stage = "unlink", !.cams = CamsOf(scan["channel"].found)]
        /\ scan' = [scan EXCEPT !["channel"] = None]
    BY <1>1 DEF HandScanned, Scanned
  <2>2. hand \in Hands /\ DOMAIN scan = Threads /\ ScanOK(scan["channel"])
        /\ ScanPlaced(scan["channel"])
    BY <2>1 DEF AllInv, CamInv, ScanInv, HandOK, ChoiceInv, PlaceInv, Threads
  <2>3. hand'.stage = "unlink" /\ hand' \in Hands
    BY <2>1, <2>2, CamsOfType DEF Hands
  <2>4. \A c \in Cams : owed'[c] = None
    BY <2>1, ScanOverlaps DEF Threads
  <2>5. cache' # None => Distinct(cache')
    BY <2>1, <2>2, ReturnedDistinct DEF Threads
  <2>6. SharedInv'
    BY <2>1, <2>3, CamBounds DEF SharedInv, Saving
  <2>7. PlaceInv'
    BY <2>1, <2>2, <2>5, <2>6 DEF AllInv, ChoiceInv, PlaceInv, Apart, Distinct, ScanPlaced
  <2>8. OwedInv' /\ SaveInv'
    BY <2>3, <2>4 DEF OwedInv, SaveInv, Saving
  <2>9. QED
    BY <2>7, <2>8 DEF ChoiceInv
<1>2. CASE HandUnlinks
  <2>1. /\ UNCHANGED <<plugged, cache, pipe, shared, scan, owed>> /\ hand # None
        /\ hand.stage = "unlink" /\ hand' = [hand EXCEPT !.stage = "clear"]
        /\ files' = [m \in Models |-> IF \E c \in hand.cams : Model[c] = m THEN None ELSE files[m]]
    BY <1>2 DEF HandUnlinks, HandAt, HandGoes
  <2>2. hand \in Hands
    BY <2>1 DEF AllInv, CamInv, HandInv, HandOK
  <2>3. hand'.stage = "clear" /\ hand' \in Hands /\ hand'.cams = hand.cams /\ hand' # None
    <3>1. hand'.stage = "clear" /\ hand' \in Hands /\ hand'.cams = hand.cams
      BY <2>1, <2>2 DEF Hands
    <3>2. QED
      BY <3>1, CamBounds
  <2>4. PlaceInv'
    BY <2>1, <2>3
    DEF AllInv, ChoiceInv, PlaceInv, SharedInv, Saving, Apart, Distinct, ScanPlaced
  <2>5. ASSUME NEW c \in Cams, owed[c] # None
        PROVE  FileOwed(c)' /\ CacheOwed(c)' /\ ScanOwed(c)' /\ HandOwed(c)'
    <3>1. FileOwed(c) /\ CacheOwed(c) /\ ScanOwed(c) /\ c \notin hand.cams
      BY <2>1, <2>5 DEF AllInv, ChoiceInv, OwedInv, HandOwed
    <3>2. files'[Model[c]] = files[Model[c]]
      BY <2>1, <2>5, <3>1 DEF AllInv, CalInv, PromiseInv, Models
    <3>3. QED
      BY <2>1, <2>3, <3>1, <3>2 DEF FileOwed, CacheOwed, ScanOwed, HandOwed, Saving
  <2>6. OwedInv' /\ SaveInv'
    BY <2>1, <2>3, <2>5 DEF OwedInv, SaveInv, Saving
  <2>7. QED
    BY <2>4, <2>6 DEF ChoiceInv
<1>3. CASE HandClears
  <2>1. /\ UNCHANGED <<plugged, files, scan, owed>>
        /\ cache' = None /\ pipe' = None /\ shared' = FALSE /\ hand' = None
    BY <1>3 DEF HandClears
  <2>2. PlaceInv'
    BY <2>1 DEF AllInv, ChoiceInv, PlaceInv, SharedInv, Apart, Distinct, ScanPlaced
  <2>3. OwedInv' /\ SaveInv'
    BY <2>1
    DEF AllInv, ChoiceInv, OwedInv, FileOwed, CacheOwed, ScanOwed, HandOwed, SaveInv
  <2>4. QED
    BY <2>2, <2>3 DEF ChoiceInv
<1>4. QED
  BY <1>1, <1>2, <1>3

\* No step at all loses a choice.
LEMMA ChoiceInvStep ==
    ASSUME AllInv, [Next]_vars
    PROVE  ChoiceInv'
<1>1. ASSUME NEW s \in Slots, NEW p \in Params, OnParams(s, p)
      PROVE  ChoiceInv'
  BY <1>1, ChangesChoice DEF OnParams
<1>2. ASSUME NEW s \in Slots, NEW r \in Rates, OnBitrate(s, r)
      PROVE  ChoiceInv'
  BY <1>2, ChangesChoice DEF OnBitrate
<1>3. CASE HandStep
  BY <1>1, <1>2, <1>3, SavingChoice, AskedChoice, CalibrationChoice DEF HandStep
<1>4. CASE Serve
  BY <1>3, <1>4, ScanChoice, SessionChoice DEF Serve, CamStep
<1>5. CASE Cable \/ Crash
  BY <1>5, WorldChoice DEF Cable, Crash
<1>6. CASE UNCHANGED camVars
  <2>1. PlaceInv'
    BY <1>6
    DEF camVars, AllInv, ChoiceInv, PlaceInv, SharedInv, Apart, Distinct, ScanPlaced
  <2>2. OwedInv' /\ SaveInv'
    BY <1>6
    DEF camVars, AllInv, ChoiceInv, OwedInv, FileOwed, CacheOwed, ScanOwed, HandOwed, SaveInv
  <2>3. QED
    BY <2>1, <2>2 DEF ChoiceInv
<1>7. QED
  BY <1>4, <1>5, <1>6 DEF Next, Resolve, vars

\* A session is built with what the operator chose last for each camera, for
\* any cameras, nodes and formats, whatever sessions, cleared caches, moved
\* cables and deaths came between.
THEOREM ChoicesLast == Spec => ChoiceSurvives
<1>1. Init => AllInv
  BY CamInitInv, CalInvInit, ChoiceInvInit DEF Init, AllInv
<1>2. AllInv /\ [Next]_vars => AllInv'
  <2>1. AllInv /\ [Next]_vars => CamInv' /\ CalInv'
    BY CamInvStep, CalInvStep DEF AllInv
  <2>2. QED
    BY <2>1, ChoiceInvStep DEF AllInv
<1>3. Begun => UNCHANGED owed /\ pipe' = cache'
  BY DEF Begun, ConnectCached, ConnectEnds, Begins
<1>4. AllInv' => (Begun => \A o \in Built : owed[o.cam] \in {None, o.choice})
  <2> SUFFICES ASSUME AllInv', Begun, NEW o \in Built
               PROVE  owed[o.cam] \in {None, o.choice}
    OBVIOUS
  <2>1. cache' # None /\ cache' \in Lists
    BY <1>3 DEF Begun, AllInv, CamInv, StoreInv
  <2>2. PICK s \in Slots : o = cache'[s] /\ o # None
    BY <1>3 DEF Built
  <2>3. o.cam \in Cams
    BY <2>1, <2>2 DEF Lists, Found, Objects
  <2>4. owed'[o.cam] # None => owed'[o.cam] = o.choice
    BY <2>1, <2>2, <2>3 DEF AllInv, ChoiceInv, OwedInv, CacheOwed
  <2>5. QED
    BY <1>3, <2>4
<1>5. QED
  BY <1>1, <1>2, <1>4, PTL DEF Spec, ChoiceSurvives
==============================================================================
