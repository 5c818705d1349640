------------------------------ MODULE BoardProofs ------------------------------
(***************************************************************************)
(* Theorems about what the board keeps on disk, for any numbers of         *)
(* registrations, cameras and deaths.  Enrolment is the only writer of its *)
(* variables, so its invariant does not look at the cameras; the types of  *)
(* the cameras' variables say what stands at each node and in each message. *)
(***************************************************************************)
EXTENDS Board, TLAPS

\* The token in the file decides whether the board asks again: while it asks
\* there is none, and without one no registration is unaccounted for.
FileInv ==
    /\ env.token \in {No, Cut, env.id}
    /\ env.token # No => env.id # No
    /\ pc \in {"enrolling", "answered", "writing"} => env.token = No
    /\ pc = "up" => env.token # No

CountInv ==
    /\ issued <= 1 + hidden
    /\ pc \in {"down", "enrolling"} /\ env.token = No => issued <= hidden

\* What the process holds: the server's answer, or what it read or wrote.
MeInv ==
    /\ pc \in {"answered", "writing"} => me.id = me.token /\ me.id \in 1..MaxRegistered
    /\ pc = "up" => me.id # No /\ me.token \in {me.id, Cut}

EnrollInv == EnrollTypeOK /\ FileInv /\ CountInv /\ MeInv

\* The bounds of an instance are naturals, and at least one request is made.
LEMMA Bounds == MaxRegistered \in Nat /\ MaxCrashes \in Nat /\ Attempts \in Nat \ {0}
BY EnrollAssumption

\* A board that was never provisioned satisfies the invariant.
LEMMA EnrollInvInit == EnrollInit => EnrollInv
BY Bounds
DEF EnrollInit, EnrollInv, EnrollTypeOK, FileInv, CountInv, MeInv, Envs, Nobody, No, Cut

\* The steps of main()'s enrolment keep the invariant.
LEMMA EnrollStepKeeps ==
    ASSUME EnrollInv, EnrollStep
    PROVE  EnrollInv'
<1> USE Bounds DEF EnrollInv, EnrollTypeOK, FileInv, CountInv, MeInv, Envs, No, Cut
<1>1. CASE Reuse
  BY <1>1 DEF Reuse, Enrolled
<1>2. CASE Ask
  BY <1>2 DEF Ask, Enrolled
<1>3. CASE Registered
  BY <1>3 DEF Registered
<1>4. CASE AnswerLost
  BY <1>4 DEF AnswerLost
<1>5. CASE Conflict
  BY <1>5 DEF Conflict
<1>6. CASE Refused
  BY <1>6 DEF Refused
<1>7. CASE Truncate
  BY <1>7 DEF Truncate
<1>8. CASE Persist
  <2>1. env' = [env EXCEPT !.id = me.id, !.token = me.token] /\ me.id \in 1..MaxRegistered
        /\ me.token = me.id /\ UNCHANGED <<tries, me, issued, crashes, hidden>> /\ pc' = "up"
    BY <1>8 DEF Persist
  <2>2. env'.id = me.id /\ env'.token = me.id /\ env'.creds = env.creds
    BY <2>1
  <2>3. env' \in [creds : BOOLEAN, id : 0..(MaxRegistered + 1), token : 0..(MaxRegistered + 1)]
    BY <2>1
  <2>4. QED
    BY <2>1, <2>2, <2>3
<1>9. QED
  BY <1>1, <1>2, <1>3, <1>4, <1>5, <1>6, <1>7, <1>8 DEF EnrollStep

\* What is left of the file is an env file.
LEMMA PrefixIsEnv ==
    ASSUME NEW new, new.id \in No..Cut, new.token \in No..Cut,
           NEW f \in Prefixes(new)
    PROVE  f \in Envs /\ f.token \in {No, Cut, new.token}
<1>1. No \in No..Cut /\ Cut \in No..Cut
  BY Bounds DEF No, Cut
<1>2. \E b \in BOOLEAN, i \in {No, new.id}, t \in {No, Cut, new.token} :
          f = [creds |-> b, id |-> i, token |-> t]
  BY DEF Prefixes
<1>3. QED
  BY <1>1, <1>2 DEF Envs

\* A death keeps it too: whatever prefix of the file is left, an identity the
\* file lost is counted.
LEMMA DieKeeps ==
    ASSUME EnrollInv, Die
    PROVE  EnrollInv'
<1> USE Bounds DEF EnrollInv, EnrollTypeOK, FileInv, CountInv, MeInv, Envs, No, Cut
<1>1. CASE pc = "writing"
  <2>1. env' \in Prefixes(me)
    BY <1>1 DEF Die
  <2>2. env' \in Envs /\ env'.token \in {No, Cut, me.token}
    BY <2>1, PrefixIsEnv, me.id \in No..Cut, me.token \in No..Cut
  <2>3. FileInv'
    BY <1>1, <2>1 DEF Die, Prefixes
  <2>4. env'.token # me.token => hidden' = hidden + 1
    BY <1>1 DEF Die
  <2>5. CountInv'
    BY <1>1, <2>2, <2>4 DEF Die
  <2>6. QED
    BY <1>1, <2>2, <2>3, <2>5 DEF Die, Nobody
<1>2. CASE pc # "writing"
  BY <1>2 DEF Die, Nobody
<1>3. QED
  BY <1>1, <1>2

\* Enrolment's invariant is one of the whole board.
LEMMA EnrollInvStep ==
    ASSUME EnrollInv, [Next]_vars
    PROVE  EnrollInv'
<1>1. CASE Resolve
  BY <1>1, EnrollStepKeeps DEF Resolve
<1>2. CASE Crash
  BY <1>2, DieKeeps DEF Crash
<1>3. CASE UNCHANGED enrollVars
  BY <1>3 DEF enrollVars, EnrollInv, EnrollTypeOK, FileInv, CountInv, MeInv, Envs, No, Cut
<1>4. QED
  BY <1>1, <1>2, <1>3 DEF Next, Serve, Cable, vars

\* For any number of deaths and lost answers, the server issues at most one
\* identity more than were hidden from the env file, and the board uses the
\* token of its own id, or one that was cut short.
THEOREM BoardIsOneDrone == Spec => []OneIdentity
<1>1. Init => EnrollInv
  BY EnrollInvInit DEF Init
<1>2. EnrollInv /\ [Next]_vars => EnrollInv'
  BY EnrollInvStep
<1>3. EnrollInv => OneIdentity
  BY DEF EnrollInv, FileInv, CountInv, MeInv, OneIdentity, RegistersOnce, OwnToken
<1>4. QED
  BY <1>1, <1>2, <1>3, PTL DEF Spec

-----------------------------------------------------------------------------
(***************************************************************************)
(* The cameras: types.                                                     *)
(***************************************************************************)

\* Lists of camera objects, each with the node it was found at.
Lists == {l \in Found : \A s \in Slots : l[s] # None => l[s].slot = s}

\* A scan looks at nodes that had a camera and saves what it found.
ScanOK(w) ==
    /\ w \in Scans
    /\ w.found \in Lists
    /\ \A s \in w.todo : w.there[s] # None
    /\ \A s \in w.left : w.found[s] # None
    /\ w.open # None => w.found[w.open] # None

\* A message about an object saves it; a calibration was asked for within the
\* bound.
HandOK(h) ==
    /\ h \in Hands
    /\ h.stage \in {"save", "write", "end"} => h.object # None
    /\ h.stage \in {"scan", "unlink", "clear"} => h.kind = "calibrate" /\ epoch < MaxEpoch

StoreInv ==
    /\ plugged \in [Slots -> Cams \cup {None}]
    /\ files \in [Models -> Saved \cup {None, Torn}]
    /\ cache \in Lists \cup {None}
    /\ pipe \in Lists \cup {None}
    /\ shared \in BOOLEAN
    /\ met \in BOOLEAN

ScanInv ==
    /\ DOMAIN scan = Threads
    /\ \A t \in Threads : scan[t] # None => ScanOK(scan[t])
    /\ scan["channel"] # None => HandOK(hand) /\ hand.stage = "scan"

HandInv == hand # None => HandOK(hand)

HistoryInv ==
    /\ moves \in 0..MaxMoves
    /\ epoch \in 0..MaxEpoch
    /\ owed \in [Cams -> Choices \cup {None}]
    /\ asked \in [Cams -> 0..MaxEpoch]

CamInv == StoreInv /\ ScanInv /\ HandInv /\ HistoryInv

\* What the invariant says of the types.
LEMMA CamInvTypes == CamInv => CamTypeOK
<1>1. Lists \subseteq Found
  BY DEF Lists
<1>2. StoreInv => \A s \in Slots : cache # None /\ cache[s] # None => cache[s].slot = s
  BY DEF StoreInv, Lists
<1>3. QED
  BY <1>1, <1>2
  DEF CamInv, StoreInv, ScanInv, HandInv, HistoryInv, ScanOK, HandOK, CamTypeOK

\* Of the constants: the numbers, and that None is none of the values.
LEMMA CamBounds ==
    /\ MaxEpoch \in Nat /\ MaxMoves \in Nat /\ DefaultParam \in Params /\ DefaultRate \in Rates
    /\ None \notin Cams /\ None \notin Slots /\ None \notin Objects /\ None \notin Choices
    /\ None \notin Scans /\ None \notin Hands /\ None \notin Saved /\ Torn \notin Saved
  BY CamerasAssumption

\* What a camera's file holds.
LEMMA TextSaved ==
    ASSUME NEW o \in Objects
    PROVE  Text(o) \in Saved /\ o.cam \in Cams /\ Model[o.cam] \in Models
  BY DEF Objects, Saved, Text, Models

\* An empty disk with nothing in memory satisfies the invariant of the cameras.
LEMMA CamInitInv == CamInit => CamInv
<1> SUFFICES ASSUME CamInit PROVE CamInv
  OBVIOUS
<1>1. StoreInv
  BY DEF CamInit, StoreInv
<1>2. ScanInv /\ HandInv
  BY DEF CamInit, ScanInv, HandInv, Threads
<1>3. HistoryInv
  BY CamBounds DEF CamInit, HistoryInv
<1>4. QED
  BY <1>1, <1>2, <1>3 DEF CamInv

\* Forgetting keeps the type of what is owed.
LEMMA ForgetType ==
    ASSUME HistoryInv, NEW cs
    PROVE  Forget(cs) \in [Cams -> Choices \cup {None}]
  BY DEF HistoryInv, Forget

\* A death, and a cable.
LEMMA CamDieInv ==
    ASSUME CamInv, CamsDie \/ Cables
    PROVE  CamInv'
<1>1. CASE CamsDie
  <2>1. StoreInv'
    BY <1>1 DEF CamsDie, CamsForgotten, CamInv, StoreInv
  <2>2. ScanInv' /\ HandInv'
    BY <1>1 DEF CamsDie, CamsForgotten, ScanInv, HandInv, Threads
  <2>3. HistoryInv'
    BY <1>1, ForgetType DEF CamsDie, CamInv, HistoryInv
  <2>4. QED
    BY <2>1, <2>2, <2>3 DEF CamInv
<1>2. CASE Cables
  <2>1. UNCHANGED <<files, cache, pipe, shared, met, scan, hand, epoch, owed, asked>>
    BY <1>2 DEF Cables, Plug, Unplug
  <2>2. plugged' \in [Slots -> Cams \cup {None}] /\ moves' \in 0..MaxMoves
    BY <1>2, CamBounds DEF Cables, Plug, Unplug, CamInv, StoreInv, HistoryInv
  <2>3. QED
    BY <2>1, <2>2 DEF CamInv, StoreInv, ScanInv, HandInv, HistoryInv, ScanOK, HandOK
<1>3. QED
  BY <1>1, <1>2

\* A scan starts from what is plugged in.
LEMMA EnumeratedOK == StoreInv => ScanOK(Enumerated)
<1> SUFFICES ASSUME StoreInv PROVE ScanOK(Enumerated)
  OBVIOUS
<1>1. Enumerated.found \in Found /\ Enumerated.found \in Lists
  BY DEF Enumerated, Found, Lists
<1>2. Enumerated \in Scans
  BY <1>1 DEF StoreInv, Enumerated, Scans
<1>3. QED
  BY <1>1, <1>2 DEF Enumerated, ScanOK

\* A found camera joins the list of its scan.
LEMMA FoundOK ==
    ASSUME NEW w, ScanOK(w), NEW s \in w.todo, NEW o \in Objects, o.slot = s,
           NEW open \in {None, s},
           NEW v, v = [w EXCEPT !.todo = @ \ {s}, !.left = @ \cup {s}, !.open = open,
                                !.found[s] = o]
    PROVE  ScanOK(v)
<1>1. s \in Slots /\ o # None /\ w \in Scans /\ w.found \in Lists /\ w.found \in [Slots -> Objects \cup {None}]
  BY CamBounds DEF ScanOK, Scans, Lists, Found
<1>2. /\ v = [there |-> w.there, todo |-> w.todo \ {s}, found |-> [w.found EXCEPT ![s] = o],
              left |-> w.left \cup {s}, open |-> open]
  BY <1>1 DEF Scans
<1>3. v.found \in Found /\ v.found[s] = o /\ \A r \in Slots \ {s} : v.found[r] = w.found[r]
  BY <1>1, <1>2 DEF Found
<1>4. v.found \in Lists
  BY <1>1, <1>3 DEF Lists
<1>5. v \in Scans
  BY <1>1, <1>2, <1>3 DEF Scans
<1>6. /\ \A r \in v.todo : v.there[r] # None
      /\ \A r \in v.left : v.found[r] # None
      /\ v.open # None => v.found[v.open] # None
  BY <1>1, <1>2, <1>3 DEF ScanOK, Scans
<1>7. QED
  BY <1>4, <1>5, <1>6 DEF ScanOK

\* What a scan of thread t does to its own list.
LEMMA OneScan ==
    ASSUME ScanInv, NEW t \in Threads, DOMAIN scan' = Threads, UNCHANGED <<hand, epoch>>,
           scan[t] # None, ScanOK(scan'[t]), \A u \in Threads \ {t} : scan'[u] = scan[u]
    PROVE  ScanInv'
<1>1. ASSUME NEW u \in Threads, scan'[u] # None
      PROVE  ScanOK(scan'[u])
  BY <1>1 DEF ScanInv
<1>2. scan'["channel"] # None => scan["channel"] # None
  BY DEF Threads
<1>3. QED
  BY <1>1, <1>2 DEF ScanInv, ScanOK, HandOK

\* The steps of a scan.
LEMMA ScanStepInv ==
    ASSUME CamInv, NEW t \in Threads, ScanStep(t)
    PROVE  CamInv'
<1> DEFINE w == scan[t]
<1>0. /\ UNCHANGED <<plugged, cache, pipe, shared, met, hand, moves, epoch, owed, asked>>
      /\ ScanOK(w) /\ scan[t] # None /\ DOMAIN scan = Threads
      /\ files \in [Models -> Saved \cup {None, Torn}]
  BY DEF ScanStep, SaveWrites, LookSaved, LookMoved, LookCalibrated, LookFails, Looks, SaveOpens,
     CamInv, ScanInv, StoreInv
<1>1. ASSUME files' \in [Models -> Saved \cup {None, Torn}], DOMAIN scan' = Threads,
             ScanOK(scan'[t]), \A u \in Threads \ {t} : scan'[u] = scan[u]
      PROVE  CamInv'
  BY <1>0, <1>1, OneScan DEF CamInv, StoreInv, HandInv, HandOK, HistoryInv
<1>2. ASSUME NEW s \in Slots, s \in w.todo, NEW choice \in Choices, NEW e \in 0..MaxEpoch,
             NEW open \in {None, s}, Finds(t, s, choice, e, open)
      PROVE  DOMAIN scan' = Threads /\ ScanOK(scan'[t]) /\ \A u \in Threads \ {t} : scan'[u] = scan[u]
  <2> DEFINE o == [cam |-> w.there[s], slot |-> s, choice |-> choice, epoch |-> e]
             v == [w EXCEPT !.todo = @ \ {s}, !.left = @ \cup {s}, !.open = open, !.found[s] = o]
  <2>1. o \in Objects /\ o.slot = s
    <3>1. w.there[s] \in Cams
      BY <1>0, <1>2 DEF ScanOK, Scans
    <3>2. QED
      BY <1>2, <3>1 DEF Objects
  <2>2. scan'[t] = v /\ DOMAIN scan' = Threads /\ \A u \in Threads \ {t} : scan'[u] = scan[u]
    BY <1>0, <1>2 DEF Finds
  <2>3. ScanOK(v)
    BY <1>0, <1>2, <2>1, FoundOK
  <2>4. QED
    BY <2>2, <2>3
<1>3. ASSUME NEW s \in Slots, s \in w.todo
      PROVE  Model[w.there[s]] \in Models
  BY <1>0, <1>3 DEF ScanOK, Scans, Models
<1>4. ASSUME NEW s \in Slots, LookSaved(t, s) \/ LookMoved(t, s)
      PROVE  CamInv'
  <2> DEFINE m == Model[w.there[s]]
  <2>1. s \in w.todo /\ files[m] \in Saved
    BY <1>4 DEF LookSaved, LookMoved, Looks, FileAt
  <2>2. m \in Models
    BY <1>3, <2>1
  <2>3. PICK open \in {None, s} : Finds(t, s, files[m].choice, files[m].epoch, open)
    BY <1>4 DEF LookSaved, LookMoved, FileAt
  <2>4. files[m].choice \in Choices /\ files[m].epoch \in 0..MaxEpoch
    BY <2>1 DEF Saved
  <2>5. files' = files \/ files' = [files EXCEPT ![m] = Torn]
    BY <1>4 DEF LookSaved, LookMoved
  <2>6. files' \in [Models -> Saved \cup {None, Torn}]
    BY <1>0, <2>2, <2>5
  <2>7. QED
    BY <1>1, <1>2, <2>1, <2>3, <2>4, <2>6
<1>5. ASSUME NEW s \in Slots, LookCalibrated(t, s)
      PROVE  CamInv'
  <2>1. /\ s \in w.todo /\ files' = files
        /\ Finds(t, s, [param |-> DefaultParam, rate |-> DefaultRate], epoch, None)
    BY <1>5 DEF LookCalibrated, Looks
  <2>2. [param |-> DefaultParam, rate |-> DefaultRate] \in Choices /\ epoch \in 0..MaxEpoch
    BY CamBounds DEF Choices, CamInv, HistoryInv
  <2>3. QED
    BY <1>0, <1>1, <1>2, <2>1, <2>2
<1>6. ASSUME NEW s \in Slots, LookFails(t, s)
      PROVE  CamInv'
  <2>1. files' = files /\ scan' = [scan EXCEPT ![t].todo = @ \ {s}]
    BY <1>6 DEF LookFails, Looks
  <2>2. scan'[t] = [w EXCEPT !.todo = @ \ {s}] /\ DOMAIN scan' = Threads
        /\ \A u \in Threads \ {t} : scan'[u] = scan[u]
    BY <1>0, <2>1
  <2>3. ScanOK([w EXCEPT !.todo = @ \ {s}])
    BY <1>0 DEF ScanOK, Scans
  <2>4. QED
    BY <1>0, <1>1, <2>1, <2>2, <2>3
<1>7. ASSUME NEW s \in Slots, SaveOpens(t, s)
      PROVE  CamInv'
  <2>1. /\ s \in w.left /\ files' = [files EXCEPT ![Model[w.found[s].cam]] = Torn]
        /\ scan' = [scan EXCEPT ![t].left = @ \ {s}, ![t].open = s]
    BY <1>7 DEF SaveOpens
  <2>2. files' \in [Models -> Saved \cup {None, Torn}]
    BY <1>0, <2>1
  <2>3. /\ scan'[t] = [w EXCEPT !.left = @ \ {s}, !.open = s] /\ DOMAIN scan' = Threads
        /\ \A u \in Threads \ {t} : scan'[u] = scan[u]
    BY <1>0, <2>1
  <2>4. ScanOK([w EXCEPT !.left = @ \ {s}, !.open = s])
    BY <1>0, <2>1 DEF ScanOK, Scans
  <2>5. QED
    BY <1>1, <2>2, <2>3, <2>4
<1>8. CASE SaveWrites(t)
  <2> DEFINE o == w.found[w.open]
  <2>1. /\ w.open # None /\ files' = [files EXCEPT ![Model[o.cam]] = Text(o)]
        /\ scan' = [scan EXCEPT ![t].open = None]
    BY <1>8 DEF SaveWrites
  <2>2. o \in Objects
    BY <1>0, <2>1 DEF ScanOK, Scans, Found
  <2>3. files' \in [Models -> Saved \cup {None, Torn}]
    BY <1>0, <2>1, <2>2, TextSaved
  <2>4. /\ scan'[t] = [w EXCEPT !.open = None] /\ DOMAIN scan' = Threads
        /\ \A u \in Threads \ {t} : scan'[u] = scan[u]
    BY <1>0, <2>1
  <2>5. ScanOK([w EXCEPT !.open = None])
    BY <1>0 DEF ScanOK, Scans
  <2>6. QED
    BY <1>1, <2>3, <2>4, <2>5
<1>9. QED
  BY <1>4, <1>5, <1>6, <1>7, <1>8 DEF ScanStep

\* The list a scan returns.
LEMMA ReturnedOK ==
    ASSUME ScanInv, NEW t \in Threads, scan[t] # None
    PROVE  Returned(t) \in Lists \cup {None}
  BY DEF ScanInv, ScanOK, Returned

\* Of the scans nothing but one thread's place changes, to v.
LEMMA ScanSet ==
    ASSUME ScanInv, StoreInv, NEW t \in Threads, NEW v, scan' = [scan EXCEPT ![t] = v],
           v = None \/ v = Enumerated, UNCHANGED epoch,
           t = "channel" /\ v # None => HandOK(hand') /\ hand'.stage = "scan",
           t = "worker" /\ HandOK(hand) => HandOK(hand') /\ hand'.stage = hand.stage
    PROVE  ScanInv'
<1>1. DOMAIN scan' = Threads /\ scan'[t] = v /\ \A u \in Threads \ {t} : scan'[u] = scan[u]
  BY DEF ScanInv
<1>2. ASSUME NEW u \in Threads, scan'[u] # None
      PROVE  ScanOK(scan'[u])
  BY <1>1, <1>2, EnumeratedOK DEF ScanInv
<1>3. scan'["channel"] # None => HandOK(hand') /\ hand'.stage = "scan"
  <2>1. CASE t = "channel"
    BY <1>1, <2>1
  <2>2. CASE t = "worker"
    BY <1>1, <2>2 DEF ScanInv, Threads
  <2>3. QED
    BY <2>1, <2>2 DEF Threads
<1>4. QED
  BY <1>1, <1>2, <1>3 DEF ScanInv, ScanOK, HandOK

\* Sessions begin and end.
LEMMA SessionStepInv ==
    ASSUME CamInv, SessionStep
    PROVE  CamInv'
<1>0. /\ UNCHANGED <<plugged, files, moves, epoch, owed, asked>>
  BY DEF SessionStep, ConnectCached, ConnectScans, ConnectEnds, SessionEnds, CacheCleared
<1>1. HistoryInv'
  BY <1>0 DEF CamInv, HistoryInv
<1>2. ASSUME NEW list \in Lists \cup {None}, Begins(list)
      PROVE  StoreInv'
  BY <1>0, <1>2 DEF Begins, CamInv, StoreInv
<1>3. ASSUME UNCHANGED hand
      PROVE  HandInv'
  BY <1>0, <1>3 DEF CamInv, HandInv, HandOK
<1>4. CASE ConnectCached
  <2>1. Begins(cache) /\ UNCHANGED <<scan, hand>> /\ cache \in Lists \cup {None}
    BY <1>4 DEF ConnectCached, CamInv, StoreInv
  <2>2. QED
    BY <1>1, <1>2, <1>3, <1>0, <2>1 DEF CamInv, ScanInv, ScanOK, HandOK
<1>5. CASE ConnectScans
  <2>1. /\ scan' = [scan EXCEPT !["worker"] = Enumerated] /\ UNCHANGED <<cache, met>>
        /\ pipe' = None /\ shared' = FALSE
        /\ hand' = IF hand = None THEN None ELSE [hand EXCEPT !.clean = FALSE]
    BY <1>5 DEF ConnectScans
  <2>2. StoreInv'
    BY <1>0, <2>1 DEF CamInv, StoreInv
  <2>3. HandOK(hand) => HandOK(hand') /\ hand'.stage = hand.stage
    <3>1. CASE hand = None
      BY <2>1, <3>1
    <3>2. CASE hand # None
      <4>1. SUFFICES ASSUME HandOK(hand)
                     PROVE  HandOK(hand') /\ hand'.stage = hand.stage
        OBVIOUS
      <4>2. hand' = [hand EXCEPT !.clean = FALSE]
        BY <2>1, <3>2
      <4>3. /\ hand' \in Hands /\ hand'.stage = hand.stage /\ hand'.object = hand.object
            /\ hand'.kind = hand.kind
        BY <4>1, <4>2 DEF HandOK, Hands
      <4>4. QED
        BY <4>1, <4>3 DEF HandOK
    <3>3. QED
      BY <3>1, <3>2
  <2>4. HandInv'
    BY <1>0, <2>1, <2>3 DEF CamInv, HandInv, HandOK
  <2>5. ScanInv'
    BY <1>0, <2>1, <2>3, ScanSet DEF CamInv, Threads
  <2>6. QED
    BY <1>1, <2>2, <2>4, <2>5 DEF CamInv
<1>6. CASE ConnectEnds
  <2>1. /\ scan["worker"] # None /\ Begins(Returned("worker")) /\ UNCHANGED hand
        /\ scan' = [scan EXCEPT !["worker"] = None]
    BY <1>6 DEF ConnectEnds, Scanned
  <2>2. Returned("worker") \in Lists \cup {None}
    BY <2>1, ReturnedOK DEF CamInv, Threads
  <2>3. ScanInv'
    BY <1>0, <2>1, ScanSet DEF CamInv, Threads
  <2>4. QED
    BY <1>1, <1>2, <1>3, <2>1, <2>2, <2>3 DEF CamInv
<1>7. CASE SessionEnds \/ CacheCleared
  <2>1. /\ UNCHANGED <<scan, hand, met>> /\ pipe' = None /\ shared' = FALSE
        /\ cache' = cache \/ cache' = None
    BY <1>7 DEF SessionEnds, CacheCleared
  <2>2. StoreInv'
    BY <1>0, <2>1 DEF CamInv, StoreInv
  <2>3. QED
    BY <1>1, <1>3, <1>0, <2>1, <2>2 DEF CamInv, ScanInv, ScanOK, HandOK
<1>8. QED
  BY <1>4, <1>5, <1>6, <1>7 DEF SessionStep

\* The cameras of a list.
LEMMA CamsOfType ==
    ASSUME NEW list
    PROVE  CamsOf(list) \in SUBSET Cams
BY DEF CamsOf, Alike

\* The operator changes an object of the pipeline.
LEMMA ChangesInv ==
    ASSUME CamInv, NEW kind \in {"params", "bitrate"}, NEW s \in Slots, NEW choice \in Choices,
           pipe # None, pipe[s] # None, Changes(kind, s, choice)
    PROVE  CamInv'
<1>1. /\ pipe \in Lists /\ pipe \in [Slots -> Objects \cup {None}] /\ pipe[s] \in Objects
      /\ pipe[s].slot = s
  BY DEF CamInv, StoreInv, Lists, Found
<1>2. /\ hand = None /\ pipe' = [pipe EXCEPT ![s].choice = choice]
      /\ cache' = IF shared THEN pipe' ELSE cache
      /\ owed' = Forget(Alike(pipe[s].cam))
      /\ hand' = [kind |-> kind, stage |-> "save", object |-> pipe'[s], cams |-> {},
                  clean |-> scan["worker"] = None]
      /\ UNCHANGED <<plugged, files, shared, met, scan, moves, epoch, asked>>
  BY DEF Changes
<1>3. [pipe[s] EXCEPT !.choice = choice] \in Objects /\ [pipe[s] EXCEPT !.choice = choice].slot = s
  BY <1>1 DEF Objects
<1>4. /\ pipe' \in [Slots -> Objects \cup {None}]
      /\ pipe'[s] = [pipe[s] EXCEPT !.choice = choice]
      /\ \A r \in Slots \ {s} : pipe'[r] = pipe[r]
  BY <1>1, <1>2, <1>3
<1>5. pipe' \in Lists
  BY <1>1, <1>3, <1>4 DEF Lists, Found
<1>6. StoreInv'
  BY <1>2, <1>5 DEF CamInv, StoreInv
<1>7. HandOK(hand')
  <2>1. (scan["worker"] = None) \in BOOLEAN
    OBVIOUS
  <2>2. hand' \in Hands
    BY <1>2, <1>3, <1>4, <2>1 DEF Hands
  <2>3. hand'.stage = "save" /\ hand'.object \in Objects
    BY <1>2, <1>3, <1>4
  <2>4. QED
    BY <2>2, <2>3, CamBounds DEF HandOK
<1>8. ScanInv'
  <2>1. scan["channel"] = None
    BY <1>2, CamBounds DEF CamInv, ScanInv, HandOK
  <2>2. QED
    BY <1>2, <2>1 DEF CamInv, ScanInv, ScanOK
<1>9. HistoryInv'
  BY <1>2, ForgetType DEF CamInv, HistoryInv
<1>10. QED
  BY <1>2, <1>6, <1>7, <1>8, <1>9 DEF CamInv, HandInv, HandOK

\* A message that is not scanning leaves the scans alone.
LEMMA Unscanned ==
    ASSUME ScanInv, hand = None \/ hand.stage # "scan", UNCHANGED scan
    PROVE  ScanInv'
<1>1. scan["channel"] = None
  BY CamBounds DEF ScanInv, HandOK
<1>2. QED
  BY <1>1 DEF ScanInv, ScanOK

\* A message that goes on in the same calibration count.
LEMMA HandSet ==
    ASSUME HandOK(hand'), UNCHANGED epoch
    PROVE  HandInv'
BY DEF HandInv, HandOK

\* The stages of a message that saves an object, and of a calibration.
Saving      == {"save", "write", "end"}
Calibration == {"scan", "unlink", "clear"}

\* A message goes on to another stage of its kind.
LEMMA HandGoesOK ==
    ASSUME HandOK(hand), UNCHANGED epoch, NEW clean \in BOOLEAN, NEW cams \in SUBSET Cams,
           NEW stage \in Saving \cup Calibration, hand.stage \in Saving <=> stage \in Saving,
           hand' = [hand EXCEPT !.stage = stage, !.clean = clean, !.cams = cams]
    PROVE  HandOK(hand')
<1>1. /\ hand' \in Hands /\ hand'.stage = stage /\ hand'.object = hand.object
      /\ hand'.kind = hand.kind
  <2>1. hand \in Hands /\ stage \in {"save", "write", "end", "scan", "unlink", "clear"}
    BY DEF HandOK, Saving, Calibration
  <2>2. QED
    BY <2>1 DEF Hands
<1>2. hand.stage \in Saving \cup Calibration
  BY DEF HandOK, Hands, Saving, Calibration
<1>3. QED
  BY <1>1, <1>2 DEF HandOK, Saving, Calibration

\* HandGoes, in particular.
LEMMA HandGoesTo ==
    ASSUME HandOK(hand), UNCHANGED epoch, NEW stage \in Saving \cup Calibration,
           hand.stage \in Saving <=> stage \in Saving, HandGoes(stage)
    PROVE  HandOK(hand')
<1>1. hand.clean \in BOOLEAN /\ hand.cams \in SUBSET Cams
  BY DEF HandOK, Hands
<1>2. hand' = [hand EXCEPT !.stage = stage, !.clean = hand.clean, !.cams = hand.cams]
  BY DEF HandGoes, HandOK, Hands
<1>3. QED
  BY <1>1, <1>2, HandGoesOK

\* A message about an object is saved, and ends.
LEMMA SavingInv ==
    ASSUME CamInv, HandOpens \/ HandWrites \/ HandFails \/ HandEnds
    PROVE  CamInv'
<1> DEFINE o == hand.object
<1>0. /\ UNCHANGED <<plugged, cache, met, scan, moves, epoch, asked>> /\ hand # None /\ HandOK(hand)
      /\ hand.stage \in Saving /\ hand.stage # "scan" /\ o \in Objects
  <2>1. /\ UNCHANGED <<plugged, cache, met, scan, moves, epoch, asked>> /\ hand # None
        /\ hand.stage \in Saving
    BY DEF HandOpens, HandWrites, HandFails, HandEnds, HandAt, Saving
  <2>2. HandOK(hand)
    BY <2>1 DEF CamInv, HandInv
  <2>3. QED
    BY <2>1, <2>2 DEF HandOK, Hands, Saving
<1>1. ScanInv'
  BY <1>0, Unscanned DEF CamInv
<1>2. CASE HandOpens \/ HandWrites \/ HandFails
  <2>1. UNCHANGED <<pipe, shared, owed>>
    BY <1>2 DEF HandOpens, HandWrites, HandFails
  <2>2. files' \in [Models -> Saved \cup {None, Torn}]
    BY <1>0, <1>2, TextSaved DEF HandOpens, HandWrites, HandFails, CamInv, StoreInv
  <2>3. HandOK(hand')
    <3>1. CASE HandOpens \/ HandWrites
      BY <1>0, <3>1, HandGoesTo DEF HandOpens, HandWrites, Saving
    <3>2. CASE HandFails
      <4>1. hand' = [hand EXCEPT !.stage = "end", !.clean = FALSE, !.cams = hand.cams]
            /\ hand.cams \in SUBSET Cams
        BY <1>0, <3>2 DEF HandFails, HandOK, Hands
      <4>2. QED
        BY <1>0, <4>1, HandGoesOK DEF Saving
    <3>3. QED
      BY <1>2, <3>1, <3>2
  <2>4. QED
    BY <1>0, <1>1, <2>1, <2>2, <2>3, HandSet DEF CamInv, StoreInv, HistoryInv
<1>3. CASE HandEnds
  <2>1. /\ hand' = None /\ files' = files
        /\ pipe' = pipe \/ pipe' = None
        /\ shared' = shared \/ shared' = FALSE
        /\ owed' = owed \/ owed' = [owed EXCEPT ![o.cam] = o.choice]
    BY <1>3 DEF HandEnds
  <2>2. o.choice \in Choices
    BY <1>0 DEF Objects
  <2>3. StoreInv' /\ HandInv'
    BY <1>0, <2>1 DEF CamInv, StoreInv, HandInv
  <2>4. HistoryInv'
    BY <1>0, <2>1, <2>2 DEF CamInv, HistoryInv
  <2>5. QED
    BY <1>1, <2>3, <2>4 DEF CamInv
<1>4. QED
  BY <1>2, <1>3

\* A calibration begins.
LEMMA CalibratingOK ==
    ASSUME NEW stage \in {"scan", "unlink"}, NEW cams \in SUBSET Cams, epoch < MaxEpoch,
           UNCHANGED epoch, Calibrating(stage, cams)
    PROVE  HandOK(hand') /\ hand'.stage = stage
<1>1. (scan["worker"] = None) \in BOOLEAN
  OBVIOUS
<1>2. hand' \in Hands /\ hand'.stage = stage /\ hand'.kind = "calibrate"
  BY <1>1 DEF Calibrating, Hands
<1>3. QED
  BY <1>2 DEF HandOK

\* A request to calibrate keeps the invariant; what was owed to its cameras goes.
LEMMA CalibrateAskedInv ==
    ASSUME CamInv, OnCalibrate \/ OnLateCalibrate
    PROVE  CamInv'
<1>0. /\ UNCHANGED <<plugged, files, cache, pipe, shared, met, moves, epoch, asked>>
      /\ hand = None /\ epoch < MaxEpoch /\ \E cs : owed' = Forget(cs)
  BY DEF OnCalibrate, OnLateCalibrate
<1>1. StoreInv'
  BY <1>0 DEF CamInv, StoreInv
<1>2. HistoryInv'
  BY <1>0, ForgetType DEF CamInv, HistoryInv
<1>3. CASE UNCHANGED scan /\ \E list \in {pipe, cache} : Calibrating("unlink", CamsOf(list))
  <2>1. HandOK(hand')
    BY <1>0, <1>3, CamsOfType, CalibratingOK
  <2>2. ScanInv'
    BY <1>0, <1>3, Unscanned DEF CamInv
  <2>3. QED
    BY <1>0, <1>1, <1>2, <2>1, <2>2, HandSet DEF CamInv
<1>4. CASE Calibrating("scan", {}) /\ scan' = [scan EXCEPT !["channel"] = Enumerated]
  <2>1. HandOK(hand') /\ hand'.stage = "scan"
    BY <1>0, <1>4, CalibratingOK
  <2>2. ScanInv'
    BY <1>0, <1>4, <2>1, ScanSet DEF CamInv, Threads
  <2>3. QED
    BY <1>0, <1>1, <1>2, <2>1, <2>2, HandSet DEF CamInv
<1>5. QED
  BY <1>3, <1>4 DEF OnCalibrate, OnLateCalibrate

\* A calibration goes on, and ends.
LEMMA CalibrationInv ==
    ASSUME CamInv, HandScanned \/ HandUnlinks \/ HandClears
    PROVE  CamInv'
<1>1. CASE HandScanned
  <2>1. /\ scan["channel"] # None /\ UNCHANGED <<plugged, files, pipe, met, moves, epoch, owed, asked>>
        /\ cache' = Returned("channel") /\ shared' = FALSE
        /\ hand' = [hand EXCEPT !.stage = "unlink", !.cams = CamsOf(scan["channel"].found)]
        /\ scan' = [scan EXCEPT !["channel"] = None]
    BY <1>1 DEF HandScanned, Scanned
  <2>2. HandOK(hand) /\ hand.stage = "scan" /\ hand.clean \in BOOLEAN
    BY <2>1 DEF CamInv, ScanInv, HandOK, Hands
  <2>3. HandOK(hand')
    <3>1. hand' = [hand EXCEPT !.stage = "unlink", !.clean = hand.clean,
                               !.cams = CamsOf(scan["channel"].found)]
      BY <2>1, <2>2 DEF HandOK, Hands
    <3>2. QED
      BY <2>1, <2>2, <3>1, CamsOfType, HandGoesOK DEF Saving, Calibration
  <2>4. StoreInv'
    BY <2>1, ReturnedOK DEF CamInv, StoreInv, Threads
  <2>5. ScanInv'
    BY <2>1, ScanSet DEF CamInv, Threads
  <2>6. QED
    BY <2>1, <2>3, <2>4, <2>5, HandSet DEF CamInv, HistoryInv
<1>2. CASE HandUnlinks
  <2>1. /\ UNCHANGED <<plugged, cache, pipe, shared, met, scan, moves, epoch, owed, asked>>
        /\ hand # None /\ hand.stage = "unlink" /\ HandGoes("clear") /\ HandOK(hand)
        /\ files' = [m \in Models |-> IF \E c \in hand.cams : Model[c] = m THEN None ELSE files[m]]
    BY <1>2 DEF HandUnlinks, HandAt, CamInv, HandInv
  <2>2. HandOK(hand')
    BY <2>1, HandGoesTo DEF Saving, Calibration
  <2>3. StoreInv'
    BY <2>1 DEF CamInv, StoreInv
  <2>4. ScanInv'
    BY <2>1, Unscanned DEF CamInv
  <2>5. QED
    BY <2>1, <2>2, <2>3, <2>4, HandSet DEF CamInv, HistoryInv
<1>3. CASE HandClears
  <2>1. /\ UNCHANGED <<plugged, files, met, scan, moves, owed>> /\ hand # None
        /\ hand.stage = "clear" /\ cache' = None /\ pipe' = None /\ shared' = FALSE /\ hand' = None
        /\ epoch' = epoch + 1 /\ asked' = Promised
    BY <1>3 DEF HandClears, HandAt
  <2>2. epoch + 1 \in 0..MaxEpoch
    BY <2>1, CamBounds DEF CamInv, HandInv, HandOK, HistoryInv
  <2>3. asked' \in [Cams -> 0..MaxEpoch]
    BY <2>1, <2>2 DEF Promised, CamInv, HistoryInv
  <2>4. ScanInv'
    BY <2>1, Unscanned DEF CamInv
  <2>5. QED
    BY <2>1, <2>2, <2>3, <2>4 DEF CamInv, StoreInv, HandInv, HistoryInv
<1>4. QED
  BY <1>1, <1>2, <1>3

\* The steps of the operator's messages.
LEMMA HandStepInv ==
    ASSUME CamInv, HandStep
    PROVE  CamInv'
<1>1. ASSUME NEW s \in Slots, NEW p \in Params, OnParams(s, p)
      PROVE  CamInv'
  <2>1. /\ pipe # None /\ pipe[s] # None
        /\ Changes("params", s, [pipe[s].choice EXCEPT !.param = p])
    BY <1>1 DEF OnParams
  <2>2. [pipe[s].choice EXCEPT !.param = p] \in Choices
    BY <1>1, <2>1 DEF CamInv, StoreInv, Lists, Found, Objects, Choices
  <2>3. QED
    BY <2>1, <2>2, ChangesInv
<1>2. ASSUME NEW s \in Slots, NEW r \in Rates, OnBitrate(s, r)
      PROVE  CamInv'
  <2>1. /\ pipe # None /\ pipe[s] # None
        /\ Changes("bitrate", s, [pipe[s].choice EXCEPT !.rate = r])
    BY <1>2 DEF OnBitrate
  <2>2. [pipe[s].choice EXCEPT !.rate = r] \in Choices
    BY <1>2, <2>1 DEF CamInv, StoreInv, Lists, Found, Objects, Choices
  <2>3. QED
    BY <2>1, <2>2, ChangesInv
<1>3. QED
  BY <1>1, <1>2, SavingInv, CalibrateAskedInv, CalibrationInv DEF HandStep

\* Every step of the board keeps the cameras' types.
LEMMA CamInvStep ==
    ASSUME CamInv, [Next]_vars
    PROVE  CamInv'
<1>1. CASE Serve
  BY <1>1, ScanStepInv, SessionStepInv, HandStepInv DEF Serve, CamStep
<1>2. CASE Cable \/ Crash
  BY <1>2, CamDieInv DEF Cable, Crash
<1>3. CASE UNCHANGED camVars
  BY <1>3 DEF camVars, CamInv, StoreInv, ScanInv, ScanOK, HandInv, HandOK, HistoryInv
<1>4. QED
  BY <1>1, <1>2, <1>3 DEF Next, Resolve, vars

\* Any number of sessions, messages, cables and deaths keeps every variable in
\* its type: a list of cameras has each at the node it says, whichever scan
\* found it, and a message that saves has an object to save.
THEOREM TypeCorrect == Spec => []TypeOK
<1>1. Init => EnrollInv /\ CamInv
  BY EnrollInvInit, CamInitInv DEF Init
<1>2. EnrollInv /\ CamInv /\ [Next]_vars => EnrollInv' /\ CamInv'
  BY EnrollInvStep, CamInvStep
<1>3. EnrollInv /\ CamInv => TypeOK
  BY CamInvTypes DEF EnrollInv, TypeOK
<1>4. QED
  BY <1>1, <1>2, <1>3, PTL DEF Spec
==============================================================================
