---------------------------- MODULE FCServiceProofs ----------------------------
(***************************************************************************)
(* Proofs about FCService, for any sets of controllers and sessions and    *)
(* any threshold of the breaker: one controller at a time and nothing left *)
(* behind by stop(), whichever threads end sessions and open channels; and *)
(* when the sessions end on the loop, callbacks that reach the controller  *)
(* that runs, and an operator who is told of it.                           *)
(***************************************************************************)
EXTENDS FCService, TLAPS

\* Which task has which controller in hand: close() one it took out of the slot,
\* _activate_controller one it will put there.  The slot is empty meanwhile, and
\* while the scan loop detects.
TaskInv ==
    /\ \A t \in Tasks : pc[t] \in {"copied", "started", "drain", "shut"} <=> ctrl[t] # None
    /\ slot # None =>
          /\ pc["scan"] \in {"sleep", "done"}
          /\ \A t \in Tasks : ctrl[t] = None
    /\ pc["main"] \in {"drain", "shut", "done"} => pc["scan"] = "done" /\ slot = None
    /\ pc["main"] = "new" => pc["scan"] = "new"
    /\ pc["main"] \notin {"copied", "started", "sleep", "detect"}

\* Only the controller in the slot, or the one on its way there, reads; the
\* breaker and close() are the only ones to set _closed.
ReaderInv ==
    /\ \A c \in Controllers :
          /\ reader[c] = "run" =>
                /\ c = slot \/ (pc["scan"] = "started" /\ ctrl["scan"] = c)
                /\ errs[c] < Threshold /\ ~closed[c]
          /\ reader[c] = "cancelled" => \E t \in Tasks : ctrl[t] = c /\ pc[t] = "drain"
    /\ slot # None => link[slot] = "open" /\ (closed[slot] => Tripped(slot))
    /\ pc["scan"] \in {"copied", "started"} => errs[ctrl["scan"]] = 0 /\ ~closed[ctrl["scan"]]
    /\ pc["scan"] = "started" => link[ctrl["scan"]] = "open"

\* What became of the connection of a controller no one holds.
LinkInv ==
    /\ \A c \in Controllers :
          c # slot /\ (\A t \in Tasks : ctrl[t] # c) =>
             /\ link[c] = "open" => Tripped(c)
             /\ link[c] = "closing" => pc["scan"] = "done" /\ slot = None
    /\ \A t \in Tasks : pc[t] = "shut" => link[ctrl[t]] # "open"

\* The inductive invariant.
FCInv == TypeOK /\ TaskInv /\ ReaderInv /\ LinkInv

\* The initial states satisfy the invariant.
LEMMA InitFCInv == Init => FCInv
<1> SUFFICES ASSUME Init PROVE FCInv
  OBVIOUS
<1> USE DEF Init, Tasks
<1>1. TypeOK
  <2>1. errs \in [Controllers -> 0..Threshold]
    BY FCServiceAssumption
  <2>2. QED
    BY <2>1 DEF TypeOK
<1>2. TaskInv
  BY DEF TaskInv
<1>3. ReaderInv /\ LinkInv
  BY DEF ReaderInv, LinkInv
<1>4. QED
  BY <1>1, <1>2, <1>3 DEF FCInv

\* The change callback keeps the types of what the operator sees.
LEMMA OnChangeTypes ==
    ASSUME TypeOK, NEW k \in {"none", "mavlink", "crsf"}, OnChange(k)
    PROVE  /\ shown' \in {"closed", "unset", "none", "mavlink", "crsf"}
           /\ overtaken' \in BOOLEAN
<1>1. CASE on_change
  BY <1>1 DEF OnChange, ShowInfo, TypeOK
<1>2. CASE ~on_change
  BY <1>2 DEF OnChange, shownVars, TypeOK
<1>3. QED
  BY <1>1, <1>2

\* A step of _teardown_controller, by either task, when the scan loop is on its
\* way to detect or has ended.
LEMMA TeardownFCInv ==
    ASSUME FCInv, NEW t \in Tasks, Teardown(t),
           \/ t = "scan" /\ pc["scan"] = "sleep" /\ pc["main"] # "new"
           \/ t = "main" /\ pc["main"] = "join" /\ pc["scan"] = "done"
    PROVE  FCInv'
<1> USE FCServiceAssumption
    DEF FCInv, TypeOK, TaskInv, ReaderInv, LinkInv, Tasks, Tripped, taskVars, serviceVars,
        objectVars, fcVars, worldVars, threadsVars, openVars, shownVars, operatorVars, After, Dispatch
<1>1. CASE TeardownNothing(t)
  BY <1>1 DEF TeardownNothing
<1>2. CASE TeardownClosed(t)
  BY <1>2, OnChangeTypes DEF TeardownClosed
<1>3. CASE TeardownCancel(t)
  BY <1>3 DEF TeardownCancel
<1>4. QED
  BY <1>1, <1>2, <1>3 DEF Teardown

\* The steps of the scan loop.
LEMMA ScanFCInv ==
    ASSUME FCInv, Scan
    PROVE  FCInv'
<1> USE FCServiceAssumption
    DEF FCInv, TypeOK, TaskInv, ReaderInv, LinkInv, Tasks, Tripped, taskVars, serviceVars,
        objectVars, fcVars, worldVars, threadsVars, openVars, shownVars, operatorVars, After, Dispatch
<1>1. CASE Keep
  BY <1>1 DEF Keep, vars
<1>2. CASE Lost
  BY <1>2, TeardownFCInv DEF Lost
<1>3. CASE Leave
  BY <1>3 DEF Leave
<1>4. CASE DetectNone
  BY <1>4 DEF DetectNone
<1>5. CASE OpenRaises
  BY <1>5 DEF OpenRaises
<1>6. CASE \E c \in Controllers, k \in Kinds : DetectFound(c, k)
  BY <1>6 DEF DetectFound, Fresh
<1>7. CASE Drained("scan")
  BY <1>7 DEF Drained
<1>8. CASE Shut("scan")
  BY <1>8, OnChangeTypes DEF Shut
<1>9. CASE \E c \in Controllers : ActivateStart(c)
  BY <1>9 DEF ActivateStart
<1>10. CASE \E c \in Controllers : ActivateHold(c)
  <2>1. PICK c \in Controllers : ActivateHold(c)
    BY <1>10
  <2>2. OnChange(kind[c]) /\ kind[c] \in {"none", "mavlink", "crsf"}
    BY <2>1 DEF ActivateHold
  <2>3. /\ shown' \in {"closed", "unset", "none", "mavlink", "crsf"}
        /\ overtaken' \in BOOLEAN
    BY <2>2, OnChangeTypes
  <2>4. QED
    BY <2>1, <2>3 DEF ActivateHold
<1>11. QED
  BY <1>1, <1>2, <1>3, <1>4, <1>5, <1>6, <1>7, <1>8, <1>9, <1>10 DEF Scan

\* The steps of start() and stop().
LEMMA MainFCInv ==
    ASSUME FCInv, Main
    PROVE  FCInv'
<1> USE FCServiceAssumption
    DEF FCInv, TypeOK, TaskInv, ReaderInv, LinkInv, Tasks, Tripped, taskVars, serviceVars,
        objectVars, fcVars, worldVars, threadsVars, openVars, shownVars, operatorVars, After, Dispatch
<1>1. CASE Start
  BY <1>1 DEF Start
<1>2. CASE Stop
  BY <1>2 DEF Stop
<1>3. CASE Joined
  BY <1>3, TeardownFCInv DEF Joined
<1>4. CASE Drained("main")
  BY <1>4 DEF Drained
<1>5. CASE Shut("main")
  BY <1>5, OnChangeTypes DEF Shut
<1>6. QED
  BY <1>1, <1>2, <1>3, <1>4, <1>5 DEF Main

\* The steps of the read tasks and of the closing connections.
LEMMA ControllerFCInv ==
    ASSUME FCInv, NEW c \in Controllers, Controller(c)
    PROVE  FCInv'
<1> USE FCServiceAssumption
    DEF FCInv, TypeOK, TaskInv, ReaderInv, LinkInv, Tasks, Tripped, taskVars, serviceVars,
        objectVars, fcVars, worldVars, threadsVars, openVars, shownVars, operatorVars, Dispatch, Reading
<1>1. CASE RecvOk(c)
  BY <1>1 DEF RecvOk
<1>2. CASE RecvError(c)
  BY <1>2 DEF RecvError
<1>3. CASE ReaderDies(c)
  BY <1>3 DEF ReaderDies
<1>4. CASE ReaderEnds(c)
  BY <1>4 DEF ReaderEnds
<1>5. CASE LinkCloses(c)
  BY <1>5 DEF LinkCloses
<1>6. QED
  BY <1>1, <1>2, <1>3, <1>4, <1>5 DEF Controller

\* The steps of the sessions, of the other threads, of the cable, and stuttering:
\* they leave the tasks, the slot and the controllers' ports alone.
LEMMA UsersFCInv ==
    ASSUME FCInv, Users \/ Ending \/ Opening \/ Plug \/ UNCHANGED vars
    PROVE  FCInv'
<1> USE DEF taskVars, serviceVars, objectVars, fcVars, worldVars, threadsVars, openVars, shownVars, operatorVars
<1>1. UNCHANGED <<pc, ctrl, stop_event, slot, kind, link, reader, closed, errs>>
  BY DEF Users, Ending, Opening, Plug, vars, OpenSession, EndSession, EndPacket, ChannelOpen, EndTest,
     EndHand, EndChannels, EndChange, EndTelemetry, EndRehand, OpenTest, OpenRunning, OpenKind,
     OpenSend
<1>2. (TaskInv /\ ReaderInv /\ LinkInv)'
  BY <1>1 DEF FCInv, TaskInv, ReaderInv, LinkInv, Tripped
<1>3. TypeOK'
  <2> USE FCServiceAssumption DEF FCInv, TypeOK
  <2>1. CASE \E s \in Sessions : OpenSession(s)
    BY <2>1 DEF OpenSession, SetPacketCallback, SetHooks
  <2>2. CASE EndSession
    BY <2>2 DEF EndSession, SetPacketCallback, SetHooks, CloseChannels
  <2>3. CASE EndPacket \/ ChannelOpen
    BY <2>3 DEF EndPacket, ChannelOpen
  <2>4. CASE EndTest
    BY <2>4 DEF EndTest
  <2>5. CASE EndHand
    BY <2>5 DEF EndHand
  <2>6. CASE EndChannels
    BY <2>6 DEF EndChannels, CloseChannels
  <2>7. CASE EndChange \/ EndTelemetry
    <3>1. /\ on_change' \in BOOLEAN /\ on_telemetry' \in BOOLEAN
          /\ ending' \in {"telemetry", "retest"}
      BY <2>7 DEF EndChange, EndTelemetry
    <3>2. UNCHANGED <<pc, ctrl, stop_event, slot, on_packet, kind, link, reader, closed, errs, cb, tel,
                      plugged, elsewhere, session, opening, seen, shown, overtaken>>
      BY <2>7 DEF EndChange, EndTelemetry
    <3>3. QED
      BY <3>1, <3>2
  <2>8. CASE EndRehand
    <3>1. tel' = tel \/ tel' = [tel EXCEPT ![slot] = FALSE]
      BY <2>8 DEF EndRehand
    <3>2. tel' \in [Controllers -> BOOLEAN]
      BY <3>1
    <3>3. QED
      BY <2>8, <3>2 DEF EndRehand
  <2>9. CASE OpenTest \/ OpenRunning \/ OpenKind \/ OpenSend
    BY <2>9 DEF OpenTest, OpenRunning, OpenKind, OpenSend
  <2>10. CASE Plug
    BY <2>10 DEF Plug
  <2>11. CASE UNCHANGED vars
    BY <2>11 DEF vars
  <2>12. QED
    BY <2>1, <2>2, <2>3, <2>4, <2>5, <2>6, <2>7, <2>8, <2>9, <2>10, <2>11 DEF Users, Ending, Opening
<1>4. QED
  BY <1>2, <1>3 DEF FCInv

\* The types of every variable, and who holds which controller.
THEOREM FCInvariant == Spec => []FCInv
<1>1. FCInv /\ [Next]_vars => FCInv'
  BY ScanFCInv, MainFCInv, ControllerFCInv, UsersFCInv DEF Next, Terminated
<1>2. QED
  BY InitFCInv, <1>1, PTL DEF Spec

\* Every variable keeps its type; the breaker never counts past its threshold.
THEOREM FCTypeCorrect == Spec => []TypeOK
<1>1. FCInv => TypeOK
  BY DEF FCInv
<1>2. QED
  BY FCInvariant, <1>1, PTL

\* Two controllers never use the port at once, however stop(), losses and
\* detections interleave.
THEOREM OneControllerAtATime == Spec => []OneController
<1>1. FCInv => OneController
  BY FCServiceAssumption
  DEF FCInv, TypeOK, TaskInv, ReaderInv, LinkInv, OneController, Tasks, Tripped
<1>2. QED
  BY FCInvariant, <1>1, PTL

\* After stop() no task reads and no connection is held, except one whose
\* breaker fired.
THEOREM StopIsComplete == Spec => []StopLeavesNothing
<1>1. FCInv => StopLeavesNothing
  BY FCServiceAssumption
  DEF FCInv, TypeOK, TaskInv, ReaderInv, LinkInv, StopLeavesNothing, Tasks, Tripped
<1>2. QED
  BY FCInvariant, <1>1, PTL

(***************************************************************************)
(* The callbacks, when the sessions end on the loop.                       *)
(***************************************************************************)

\* What the other threads do stays the same.
LEMMA SameThreads == [Next]_vars => (EndsOnLoop' <=> EndsOnLoop)
<1> USE DEF EndsOnLoop, taskVars, serviceVars, objectVars, worldVars, fcVars, threadsVars, openVars,
            shownVars, operatorVars
<1>1. CASE Scan \/ Main
  BY <1>1
  DEF Scan, Main, Keep, Lost, Leave, DetectNone, OpenRaises, DetectFound, ActivateStart, ActivateHold,
      Drained, Shut, Start, Stop, Joined, Teardown, TeardownNothing, TeardownClosed, TeardownCancel, vars
<1>2. CASE \E c \in Controllers : Controller(c)
  BY <1>2 DEF Controller, RecvOk, RecvError, ReaderDies, ReaderEnds, LinkCloses
<1>3. CASE Users \/ Ending \/ Opening \/ Plug \/ Terminated \/ UNCHANGED vars
  BY <1>3
  DEF Users, OpenSession, EndSession, EndPacket, ChannelOpen, Ending, EndTest, EndHand, EndChannels,
      EndChange, EndTelemetry, EndRehand, Opening, OpenTest, OpenRunning, OpenKind, OpenSend, Plug,
      Terminated, vars
<1>4. QED
  BY <1>1, <1>2, <1>3 DEF Next

\* A read loop that runs has the callbacks of the service.
Fed == \A c \in Controllers : reader[c] = "run" => cb[c] = on_packet /\ tel[c] = on_telemetry

\* A controller on its way to the slot has the callbacks of now, as the one that
\* reads has.
FeedInv ==
    /\ ending = "idle"
    /\ Fed
    /\ pc["scan"] = "copied" => cb[ctrl["scan"]] = on_packet

\* Only a session and an activation touch a running controller's callbacks.
LEMMA FeedsStep ==
    ASSUME EndsOnLoop, FCInv, FeedInv, [Next]_vars
    PROVE  FeedInv'
<1> USE FCServiceAssumption
    DEF FeedInv, Fed, FCInv, TypeOK, TaskInv, ReaderInv, Tasks, taskVars, serviceVars,
        objectVars, fcVars, worldVars, threadsVars, openVars, shownVars, operatorVars, Dispatch, Reading
<1>1. CASE Keep \/ Leave \/ DetectNone \/ OpenRaises \/ Drained("scan") \/ Shut("scan")
  BY <1>1 DEF Keep, Leave, DetectNone, OpenRaises, vars, Drained, Shut, After
<1>2. CASE Lost
  BY <1>2 DEF Lost, Teardown, TeardownNothing, TeardownClosed, TeardownCancel, After
<1>3. ASSUME NEW c \in Controllers, NEW k \in Kinds, DetectFound(c, k)
      PROVE  FeedInv'
  <2>1. /\ pc["scan"] = "detect" /\ Fresh(c) /\ ctrl'["scan"] = c /\ cb'[c] = on_packet
        /\ UNCHANGED <<on_packet, on_telemetry, ending, reader>>
    BY <1>3 DEF DetectFound
  <2>2. \A d \in Controllers : reader[d] # "run"
    BY <2>1
  <2>3. QED
    BY <2>1, <2>2
<1>4. ASSUME NEW c \in Controllers, ActivateStart(c)
      PROVE  FeedInv'
  BY <1>4 DEF ActivateStart
<1>5. ASSUME NEW c \in Controllers, ActivateHold(c)
      PROVE  FeedInv'
  BY <1>5 DEF ActivateHold
<1>6. CASE Main
  BY <1>6
  DEF Main, Start, Stop, Joined, Drained, Shut, Teardown, TeardownNothing, TeardownClosed,
      TeardownCancel, After
<1>7. CASE \E c \in Controllers : Controller(c)
  BY <1>7 DEF Controller, RecvOk, RecvError, ReaderDies, ReaderEnds, LinkCloses
<1>8. CASE (\E s \in Sessions : OpenSession(s)) \/ EndSession
  <2>1. PICK s \in Sessions \cup {None}, on \in BOOLEAN :
          /\ SetPacketCallback(s) /\ SetHooks(on) /\ Dispatch
          /\ UNCHANGED <<slot, pc, ctrl, reader, ending>>
    <3>1. CASE EndSession
      <4>1. /\ SetPacketCallback(None) /\ SetHooks(FALSE) /\ Dispatch
            /\ UNCHANGED <<slot, pc, ctrl, reader, ending>>
        BY <3>1 DEF EndSession
      <4>2. QED
        BY <4>1
    <3>2. CASE \E s \in Sessions : OpenSession(s)
      <4>1. PICK s \in Sessions : OpenSession(s)
        BY <3>2
      <4>2. /\ SetPacketCallback(s) /\ SetHooks(TRUE) /\ Dispatch
            /\ UNCHANGED <<slot, pc, ctrl, reader, ending>>
        BY <4>1 DEF OpenSession
      <4>3. QED
        BY <4>2
    <3>3. QED
      BY <1>8, <3>1, <3>2
  <2>2. ASSUME NEW c \in Controllers, reader'[c] = "run"
        PROVE  cb'[c] = on_packet' /\ tel'[c] = on_telemetry'
    <3>1. c = slot /\ slot # None
      BY <2>1, <2>2
    <3>2. cb' = [cb EXCEPT ![slot] = s] /\ on_packet' = s
      BY <2>1, <3>1 DEF SetPacketCallback
    <3>3. cb'[c] = on_packet'
      BY <3>1, <3>2
    <3>4. tel' = [tel EXCEPT ![slot] = on] /\ on_telemetry' = on
      BY <2>1, <3>1 DEF SetHooks
    <3>5. tel'[c] = on
      BY <3>1, <3>4
    <3>6. tel'[c] = on_telemetry'
      BY <3>4, <3>5, Zenon
    <3>7. QED
      BY <3>3, <3>6
  <2>3. QED
    BY <2>1, <2>2
<1>9. CASE ChannelOpen \/ Plug \/ Terminated \/ Opening \/ UNCHANGED vars
  BY <1>9 DEF ChannelOpen, Plug, Terminated, vars, Opening, OpenTest, OpenRunning, OpenKind, OpenSend
<1>10. ~EndPacket /\ ~Ending
  BY DEF EndsOnLoop, EndPacket, Ending, EndTest, EndHand, EndChannels, EndChange, EndTelemetry, EndRehand
<1>11. QED
  BY <1>1, <1>2, <1>3, <1>4, <1>5, <1>6, <1>7, <1>8, <1>9, <1>10 DEF Next, Scan, Users

\* A read loop that runs feeds the session the service serves, if no other thread
\* ends sessions.
THEOREM PacketsFeedTheSession == Spec => []FeedsTheSession
<1>1. Init => (EndsOnLoop => FeedInv)
  BY DEF Init, FeedInv, Fed, Tasks
<1>2. FCInv /\ (EndsOnLoop => FeedInv) /\ [Next]_vars => (EndsOnLoop => FeedInv)'
  BY FeedsStep, SameThreads
<1>3. (EndsOnLoop => FeedInv) => FeedsTheSession
  BY DEF FeedInv, Fed, FeedsTheSession
<1>4. QED
  BY FCInvariant, <1>1, <1>2, <1>3, PTL DEF Spec

(***************************************************************************)
(* What the operator is shown, when the sessions end on the loop.          *)
(***************************************************************************)

\* There is no controller, and the operator has been told if there was one.
Vacant == slot = None /\ pc["scan"] \notin {"drain", "shut"}

\* k is what an fc message read now would say.
Tells(k) ==
    /\ Vacant => k = "none"
    /\ slot # None /\ reader[slot] = "run" => k = kind[slot]

\* A session has the service's hook, and lives while the service serves.  The
\* last message tells what there is, or on_open's will; while on_open reads on, or
\* if it fails for a controller that went, the loop has told of the loss.
ShownInv ==
    /\ ending = "idle"
    /\ on_change <=> session # None
    /\ session # None => pc["main"] = "serve"
    /\ session = None => shown = "closed"
    /\ opening # "idle" => shown # "closed"
    /\ opening = "idle" /\ shown # "closed" /\ ~overtaken => Tells(shown)
    /\ opening = "send" /\ ~overtaken => Tells(seen)
    /\ opening \in {"running", "kind"} \/ (opening = "send" /\ seen # "none") =>
          (Vacant => shown = "none")

\* A message of the loop: it is the last one, unless on_open has its own in hand.
LEMMA MessageShown ==
    ASSUME ShownInv, NEW k, k # "closed", OnChange(k), Tells(k)',
           UNCHANGED <<session, ending, opening, seen, on_change>>,
           session # None => pc'["main"] = "serve"
    PROVE  ShownInv'
<1>1. CASE session = None
  <2>1. UNCHANGED shownVars /\ shown = "closed" /\ opening = "idle"
    BY <1>1 DEF ShownInv, OnChange
  <2>2. QED
    BY <1>1, <2>1 DEF ShownInv, shownVars
<1>2. CASE session # None
  <2>1. shown' = (IF shown = "closed" THEN shown ELSE k)
    BY <1>2 DEF ShownInv, OnChange, ShowInfo
  <2>2. opening = "send" => overtaken'
    BY <1>2 DEF ShownInv, OnChange, ShowInfo
  <2>3. Vacant' /\ shown # "closed" => shown' = "none"
    BY <2>1 DEF Tells
  <2>4. shown' # "closed" => shown' = k
    BY <2>1
  <2>5. QED
    <3>1. opening # "idle" => shown' # "closed"
      BY <2>1 DEF ShownInv
    <3>2. QED
      BY <1>2, <2>2, <2>3, <2>4, <3>1 DEF ShownInv
<1>3. QED
  BY <1>1, <1>2

\* A step that says nothing and changes neither the controller nor its reading.
LEMMA SilentShown ==
    ASSUME ShownInv,
           UNCHANGED <<session, ending, opening, seen, on_change, shown, overtaken, slot, kind>>,
           Vacant' => Vacant,
           slot # None /\ reader'[slot] = "run" => reader[slot] = "run",
           session # None => pc'["main"] = "serve"
    PROVE  ShownInv'
BY DEF ShownInv, Tells

\* Dropping a controller tells the operator, unless close() has to wait first.
LEMMA TeardownShown ==
    ASSUME FCInv, ShownInv, NEW t \in Tasks, Teardown(t),
           t = "main" => pc["main"] = "join",
           t = "scan" => pc["scan"] = "sleep"
    PROVE  ShownInv'
<1>1. /\ pc \in [Tasks -> {"new", "sleep", "detect", "copied", "started", "drain", "shut", "done",
                           "serve", "join"}]
      /\ Tasks = {"scan", "main"} /\ UNCHANGED <<on_change, session, ending, opening, seen, kind>>
      /\ session # None => pc'["main"] = "serve"
  BY DEF FCInv, TypeOK, Tasks, Teardown, TeardownNothing, TeardownClosed, TeardownCancel,
     serviceVars, objectVars, threadsVars, operatorVars, openVars, ShownInv
<1>2. CASE TeardownNothing(t)
  <2>1. UNCHANGED <<slot, reader, shown, overtaken>> /\ slot = None
    BY <1>2 DEF TeardownNothing, serviceVars, objectVars, operatorVars, shownVars
  <2>2. QED
    <3>1. CASE session = None
      BY <1>1, <2>1, <3>1 DEF ShownInv
    <3>2. CASE session # None
      <4>1. t = "scan" /\ pc["scan"] = "sleep"
        BY <1>1, <3>2 DEF ShownInv
      <4>2. QED
        BY <1>1, <2>1, <4>1, SilentShown DEF Vacant
    <3>3. QED
      BY <3>1, <3>2
<1>3. CASE TeardownClosed(t)
  <2>1. slot' = None /\ OnChange("none")
    BY <1>3 DEF TeardownClosed
  <2>2. QED
    BY <1>1, <2>1, MessageShown DEF Tells
<1>4. CASE TeardownCancel(t)
  <2>1. UNCHANGED <<shown, overtaken>> /\ slot' = None /\ pc'[t] = "drain"
    BY <1>1, <1>4 DEF TeardownCancel, operatorVars, shownVars
  <2>2. CASE session = None
    BY <1>1, <2>1, <2>2 DEF ShownInv
  <2>3. CASE session # None
    <3>1. t = "scan"
      BY <1>1, <2>3 DEF ShownInv
    <3>2. ~Vacant'
      BY <2>1, <3>1 DEF Vacant
    <3>3. QED
      BY <1>1, <2>1, <3>2 DEF ShownInv, Tells
  <2>4. QED
    BY <2>2, <2>3
<1>5. QED
  BY <1>2, <1>3, <1>4 DEF Teardown

\* The scan loop and the main task.
LEMMA TasksShown ==
    ASSUME EndsOnLoop, FCInv, ShownInv, Scan \/ Main
    PROVE  ShownInv'
<1>1. /\ slot \in Controllers \cup {None} /\ Tasks = {"scan", "main"} /\ TaskInv
      /\ ctrl \in [Tasks -> Controllers \cup {None}]
      /\ pc \in [Tasks -> {"new", "sleep", "detect", "copied", "started", "drain", "shut", "done",
                           "serve", "join"}]
      /\ reader \in [Controllers -> {"none", "run", "cancelled", "done"}]
      /\ kind \in [Controllers -> {"mavlink", "crsf"}]
      /\ None \notin Controllers
  BY FCServiceAssumption DEF FCInv, TypeOK, Tasks
<1>2. ASSUME UNCHANGED <<session, ending, opening, seen, on_change, shown, overtaken, slot, kind>>,
             slot # None => UNCHANGED reader,
             Vacant' => Vacant,
             session # None => pc'["main"] = pc["main"]
      PROVE  ShownInv'
  BY <1>2, SilentShown DEF ShownInv
<1> USE DEF taskVars, serviceVars, objectVars, fcVars, worldVars, threadsVars, openVars, shownVars, operatorVars
<1>3. CASE Keep
  BY <1>2, <1>3 DEF Keep, vars, Vacant
<1>4. CASE Lost \/ Joined
  BY <1>1, <1>4, TeardownShown DEF Lost, Joined
<1>5. CASE Leave \/ DetectNone \/ OpenRaises
  BY <1>1, <1>2, <1>5 DEF Leave, DetectNone, OpenRaises, Vacant
<1>6. CASE \E c \in Controllers, k \in Kinds : DetectFound(c, k)
  <2>1. PICK c \in Controllers, k \in Kinds : DetectFound(c, k)
    BY <1>6
  <2>2. /\ UNCHANGED <<session, ending, opening, seen, on_change, shown, overtaken, slot, reader>>
        /\ pc["scan"] = "detect" /\ pc'["main"] = pc["main"] /\ slot = None
    BY <1>1, <2>1 DEF DetectFound, TaskInv
  <2>3. Vacant
    BY <2>2 DEF Vacant
  <2>4. QED
    BY <2>2, <2>3 DEF ShownInv, Tells
<1>7. CASE \E c \in Controllers : ActivateStart(c)
  <2>1. PICK c \in Controllers : ActivateStart(c)
    BY <1>7
  <2>2. pc["scan"] = "copied" /\ slot = None
    BY <1>1, <2>1 DEF ActivateStart, TaskInv
  <2>3. QED
    BY <1>1, <1>2, <2>1, <2>2 DEF ActivateStart, Vacant
<1>8. CASE \E c \in Controllers : ActivateHold(c)
  <2>1. PICK c \in Controllers : ActivateHold(c)
    BY <1>8
  <2>2. PICK k \in {"mavlink", "crsf"} : k = kind[c]
    BY <1>1
  <2>3. /\ UNCHANGED <<session, ending, opening, seen, on_change, kind>> /\ slot' = c
        /\ OnChange(k) /\ pc'["main"] = pc["main"]
    BY <1>1, <2>1, <2>2 DEF ActivateHold
  <2>4. Tells(k)'
    BY <1>1, <2>2, <2>3 DEF Tells, Vacant
  <2>5. QED
    BY <2>3, <2>4, MessageShown DEF ShownInv
<1>9. CASE Drained("scan") \/ Drained("main")
  <2>1. /\ UNCHANGED <<session, ending, opening, seen, on_change, shown, overtaken, slot, kind, reader>>
        /\ pc["main"] = "serve" => pc'["main"] = "serve"
        /\ pc'["scan"] \in {pc["scan"], "shut"}
    BY <1>1, <1>9 DEF Drained
  <2>2. Vacant' => Vacant
    BY <1>1, <1>9, <2>1 DEF Drained, Vacant
  <2>3. QED
    BY <2>1, <2>2, SilentShown DEF ShownInv
<1>10. CASE Shut("scan") \/ Shut("main")
  <2>1. /\ UNCHANGED <<session, ending, opening, seen, on_change, kind, slot>> /\ slot = None
        /\ OnChange("none") /\ (pc["main"] = "serve" => pc'["main"] = "serve")
    BY <1>1, <1>10 DEF Shut, TaskInv
  <2>2. Tells("none")'
    BY <2>1 DEF Tells
  <2>3. QED
    BY <2>1, <2>2, MessageShown DEF ShownInv
<1>11. CASE Start \/ Stop
  <2>1. /\ UNCHANGED <<slot, session, ending, opening, seen, on_change, kind, reader, shown, overtaken>>
        /\ session = None
    BY <1>11 DEF Start, Stop, ShownInv, EndsOnLoop
  <2>2. QED
    BY <2>1 DEF ShownInv
<1>12. QED
  BY <1>3, <1>4, <1>5, <1>6, <1>7, <1>8, <1>9, <1>10, <1>11 DEF Scan, Main

\* on_open reads what there is, and sends what it read.
LEMMA OpeningShown ==
    ASSUME FCInv, ShownInv, Opening \/ ChannelOpen
    PROVE  ShownInv'
<1> USE DEF ShownInv, fcVars, worldVars, taskVars, serviceVars, objectVars, shownVars
<1>1. (Vacant <=> Vacant') /\ UNCHANGED <<slot, reader, kind, pc>>
  BY DEF Vacant, Opening, ChannelOpen, OpenTest, OpenRunning, OpenKind, OpenSend
<1>2. CASE ChannelOpen
  BY <1>2 DEF ChannelOpen
<1>3. CASE OpenTest
  BY <1>1, <1>3 DEF OpenTest, Tells, Vacant
<1>4. CASE OpenRunning
  BY <1>1, <1>4 DEF OpenRunning, Tells, IsConnected, Vacant
<1>5. CASE OpenKind
  BY <1>1, <1>5 DEF OpenKind, Tells, Vacant
<1>6. CASE OpenSend
  BY <1>1, <1>6 DEF OpenSend, Tells
<1>7. QED
  BY <1>2, <1>3, <1>4, <1>5, <1>6 DEF Opening

\* The read tasks, the sessions and the cable.
LEMMA OthersShown ==
    ASSUME EndsOnLoop, FCInv, ShownInv,
           \/ Users \/ Ending \/ Opening \/ Plug \/ UNCHANGED vars
           \/ \E c \in Controllers : Controller(c)
    PROVE  ShownInv'
<1> USE DEF taskVars, serviceVars, objectVars, fcVars, worldVars, threadsVars, openVars, shownVars, operatorVars
<1>1. /\ slot \in Controllers \cup {None}
      /\ reader \in [Controllers -> {"none", "run", "cancelled", "done"}]
  BY DEF FCInv, TypeOK
<1>2. CASE \E c \in Controllers : Controller(c)
  <2>1. UNCHANGED <<pc, slot, session, ending, opening, seen, on_change, kind, shown, overtaken>>
    BY <1>2 DEF Controller, RecvOk, RecvError, ReaderDies, ReaderEnds, LinkCloses
  <2>2. slot # None /\ reader'[slot] = "run" => reader[slot] = "run"
    BY <1>1, <1>2 DEF Controller, RecvOk, RecvError, ReaderDies, ReaderEnds, LinkCloses
  <2>3. QED
    BY <2>1, <2>2, SilentShown DEF ShownInv, Vacant
<1>3. CASE \E s \in Sessions : OpenSession(s)
  <2>1. /\ UNCHANGED <<pc, slot, kind, reader, ending, opening, seen, shown, overtaken>>
        /\ on_change' = TRUE /\ session' # None /\ pc["main"] = "serve" /\ session = None
    BY <1>3, FCServiceAssumption DEF OpenSession, SetHooks
  <2>2. QED
    BY <2>1 DEF ShownInv
<1>4. CASE EndSession
  <2>1. session' = None /\ on_change' = FALSE /\ shown' = "closed" /\ opening' = "idle" /\ ending' = ending
    BY <1>4 DEF EndSession, SetHooks, CloseChannels
  <2>2. QED
    BY <2>1 DEF ShownInv
<1>5. CASE Plug \/ UNCHANGED vars
  BY <1>5, SilentShown DEF Plug, vars, ShownInv, Vacant
<1>6. ~EndPacket /\ ~Ending
  BY DEF EndsOnLoop, EndPacket, ShownInv, Ending, EndTest, EndHand, EndChannels, EndChange,
     EndTelemetry, EndRehand
<1>7. QED
  BY <1>2, <1>3, <1>4, <1>5, <1>6, OpeningShown DEF Users

\* If no other thread ends sessions, an operator with an open config channel has
\* been told what there is, unless on_open was overtaken.
THEOREM OperatorIsTold == Spec => []ShownUnlessOvertaken
<1>1. Init => (EndsOnLoop => ShownInv)
  BY DEF Init, ShownInv
<1>2. FCInv /\ (EndsOnLoop => ShownInv) /\ [Next]_vars => (EndsOnLoop => ShownInv)'
  BY TasksShown, OthersShown, SameThreads DEF Next, Terminated
<1>3. FCInv /\ (EndsOnLoop => ShownInv) => ShownUnlessOvertaken
  BY DEF FCInv, TaskInv, ShownInv, Tells, Vacant, ShownUnlessOvertaken, UpToDate, IsConnected, Tasks
<1>4. QED
  BY FCInvariant, <1>1, <1>2, <1>3, PTL DEF Spec
==============================================================================
