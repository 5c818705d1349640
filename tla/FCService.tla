------------------------------- MODULE FCService -------------------------------
(***************************************************************************)
(* The flight-controller link: FCService's scan loop, which detects a      *)
(* controller, activates it and drops it when its read loop ends; the read *)
(* loops of MavlinkController (with its breaker on consecutive errors) and *)
(* CrsfController; their close(); FCService.stop(), which cancels the scan *)
(* loop wherever it awaits; and the sessions, which set the service's      *)
(* callbacks and show the controller to the operator.                      *)
(*                                                                         *)
(* What a task of the asyncio loop does between two awaits is one action,  *)
(* except where another thread can come between its statements:            *)
(* _activate_controller copies the callbacks before the slot is taken, and *)
(* only Dispatch lets the loop run anything else.  Two other threads act.  *)
(* A webrtcbin thread opens the config channel and tells the operator what *)
(* it reads of the service; a GLib or webrtcbin thread may end a session,  *)
(* statement by statement (Elsewhere).  A session begins in one step       *)
(* here: Coordinator has the statements of that, and two threads in        *)
(* _teardown at once.  serial_asyncio.open_serial_connection has no await  *)
(* of its own, so CrsfController.start() is part of the step that calls it.*)
(***************************************************************************)
EXTENDS Naturals

CONSTANTS
    Controllers, \* identities of controller objects (a dropped one is reused)
    Kinds,       \* the protocols in the field: mavlink, crsf
    Sessions,    \* identities of sessions: whose packet channel a callback feeds
    Threshold,   \* ERROR_THRESHOLD of the MAVLink read loop: 5 in the code
    OpenFails,   \* opening the CRSF port may raise in start()
    Elsewhere,   \* what other threads than the loop's may do: sets of "end" (end
                 \* sessions) and "open" (open channels), one for a behaviour
    None

ASSUME FCServiceAssumption ==
    /\ None \notin Controllers
    /\ None \notin Sessions
    /\ Kinds \subseteq {"mavlink", "crsf"}
    /\ Threshold \in Nat \ {0}
    /\ OpenFails \in BOOLEAN
    /\ Elsewhere \subseteq SUBSET {"end", "open"}

VARIABLES
    pc,         \* the scan loop's task and the main task: where each awaits
    ctrl,       \* per task: the local ctrl of _teardown_controller, or the
                \* controller of _activate_controller
    stop_event, \* FCService._stop_event.is_set()
    slot,       \* FCService._controller
    on_packet,  \* FCService._on_packet: the session it feeds
    on_change,  \* FCService._on_change is the coordinator's
    on_telemetry, \* FCService._on_telemetry is the coordinator's
    kind,       \* per controller: kind
    link,       \* per controller: its serial connection
    reader,     \* per controller: its read task
    closed,     \* per controller: _closed
    errs,       \* per controller: consecutive_errors
    cb,         \* per controller: _on_packet
    tel,        \* per controller: _on_telemetry is set
    plugged,    \* a flight controller is attached and answers
    elsewhere,  \* what other threads do in this behaviour; it never changes
    session,    \* the session that has channels
    ending,     \* the other thread that ends it: its next statement
    opening,    \* the webrtcbin thread in on_open: its next statement
    seen,       \* ... and the kind it has read
    shown,      \* the last fc message queued for the session's config channel
    overtaken   \* history: on_open's message was read before that of the loop

taskVars    == <<pc, ctrl, stop_event>>
serviceVars == <<slot, on_packet, on_change, on_telemetry>>
objectVars  == <<kind, link, reader, closed, errs, cb, tel>>
worldVars   == <<plugged, elsewhere>>
fcVars      == <<taskVars, serviceVars, objectVars, worldVars>>
shownVars   == <<shown, overtaken>>
openVars    == <<opening, seen>>
threadsVars == <<session, ending, openVars>>
operatorVars == <<threadsVars, shownVars>>
vars        == <<fcVars, operatorVars>>

Tasks == {"scan", "main"}

TypeOK ==
    /\ pc \in [Tasks -> {"new", "sleep", "detect", "copied", "started", "drain",
                         "shut", "done", "serve", "join"}]
    /\ ctrl \in [Tasks -> Controllers \cup {None}]
    /\ stop_event \in BOOLEAN
    /\ slot \in Controllers \cup {None}
    /\ on_packet \in Sessions \cup {None}
    /\ on_change \in BOOLEAN
    /\ on_telemetry \in BOOLEAN
    /\ kind \in [Controllers -> {"mavlink", "crsf"}]
    /\ link \in [Controllers -> {"none", "open", "closing", "shut"}]
    /\ reader \in [Controllers -> {"none", "run", "cancelled", "done"}]
    /\ closed \in [Controllers -> BOOLEAN]
    /\ errs \in [Controllers -> 0..Threshold]
    /\ cb \in [Controllers -> Sessions \cup {None}]
    /\ tel \in [Controllers -> BOOLEAN]
    /\ plugged \in BOOLEAN
    /\ elsewhere \in Elsewhere
    /\ session \in Sessions \cup {None}
    /\ ending \in {"idle", "test", "hand", "channels", "change", "telemetry",
                   "retest", "rehand"}
    /\ opening \in {"idle", "test", "running", "kind", "send"}
    /\ seen \in {"none", "mavlink", "crsf"}
    /\ shown \in {"closed", "unset", "none", "mavlink", "crsf"}
    /\ overtaken \in BOOLEAN

Init ==
    /\ pc = [t \in Tasks |-> "new"]
    /\ ctrl = [t \in Tasks |-> None]
    /\ stop_event = FALSE
    /\ slot = None
    /\ on_packet = None
    /\ on_change = FALSE
    /\ on_telemetry = FALSE
    /\ kind = [c \in Controllers |-> "mavlink"]
    /\ link = [c \in Controllers |-> "none"]
    /\ reader = [c \in Controllers |-> "none"]
    /\ closed = [c \in Controllers |-> FALSE]
    /\ errs = [c \in Controllers |-> 0]
    /\ cb = [c \in Controllers |-> None]
    /\ tel = [c \in Controllers |-> FALSE]
    /\ plugged \in BOOLEAN
    /\ elsewhere \in Elsewhere
    /\ session = None
    /\ ending = "idle"
    /\ opening = "idle"
    /\ seen = "none"
    /\ shown = "closed"
    /\ overtaken = FALSE

\* The loop is not inside _activate_controller.
Dispatch == pc["scan"] \notin {"copied", "started"}

-----------------------------------------------------------------------------
(* The state the callbacks read, and what they show. *)

\* FCService.is_connected.
IsConnected == slot # None /\ reader[slot] = "run"

\* An fc message of the loop: _send_fc_info drops it while the channel is not
\* open; one that on_open has read but not sent comes after it.
ShowInfo(k) ==
    /\ shown' = IF shown = "closed" THEN shown ELSE k
    /\ overtaken' = (opening = "send")

\* The service's change callback, when it is set: notify_fc_changed().
OnChange(k) == IF on_change THEN ShowInfo(k) ELSE UNCHANGED shownVars


-----------------------------------------------------------------------------
(* _teardown_controller(): the scan loop calls it on its way to detect, stop()
   on its way to the end. *)

After(t) == IF t = "scan" THEN "detect" ELSE "done"

\* A service without a controller: the early return.
TeardownNothing(t) ==
    /\ slot = None
    /\ pc' = [pc EXCEPT ![t] = After(t)]
    /\ UNCHANGED <<ctrl, stop_event, serviceVars, objectVars, worldVars, operatorVars>>

\* A controller whose breaker set _closed: its close() returns at once.
TeardownClosed(t) ==
    /\ slot # None
    /\ closed[slot]
    /\ slot' = None
    /\ pc' = [pc EXCEPT ![t] = After(t)]
    /\ OnChange("none")
    /\ UNCHANGED <<ctrl, stop_event, on_packet, on_change, on_telemetry, objectVars, worldVars, threadsVars>>

\* close() up to its first await: the read task is cancelled.
TeardownCancel(t) ==
    /\ slot # None
    /\ ~closed[slot]
    /\ slot' = None
    /\ ctrl' = [ctrl EXCEPT ![t] = slot]
    /\ closed' = [closed EXCEPT ![slot] = TRUE]
    /\ reader' = [reader EXCEPT ![slot] = IF @ = "run" THEN "cancelled" ELSE @]
    /\ pc' = [pc EXCEPT ![t] = "drain"]
    /\ UNCHANGED <<stop_event, on_packet, on_change, on_telemetry, kind, link, errs, cb, tel,
                   worldVars, operatorVars>>

Teardown(t) == TeardownNothing(t) \/ TeardownClosed(t) \/ TeardownCancel(t)

\* The cancelled tasks have ended: close() goes on to the connection.
Drained(t) ==
    /\ pc[t] = "drain"
    /\ reader[ctrl[t]] = "done"
    /\ link' = [link EXCEPT ![ctrl[t]] = "closing"]
    /\ pc' = [pc EXCEPT ![t] = "shut"]
    /\ UNCHANGED <<ctrl, stop_event, serviceVars, kind, reader, closed, errs,
                   cb, tel, worldVars, operatorVars>>

\* Mutant: close() does not await the closing of the connection.
MutantNoWaitClosed(t) ==
    /\ pc[t] = "shut"
    /\ ctrl' = [ctrl EXCEPT ![t] = None]
    /\ pc' = [pc EXCEPT ![t] = After(t)]
    /\ OnChange("none")
    /\ UNCHANGED <<stop_event, serviceVars, objectVars, worldVars, threadsVars>>

\* Mutant: the change callback is not called for a loss.
MutantSilent(t) ==
    /\ pc[t] = "shut"
    /\ link[ctrl[t]] = "shut"
    /\ ctrl' = [ctrl EXCEPT ![t] = None]
    /\ pc' = [pc EXCEPT ![t] = After(t)]
    /\ UNCHANGED <<stop_event, serviceVars, objectVars, worldVars, operatorVars>>

\* close() returns and the change callback tells the operator.
Shut(t) ==
    /\ pc[t] = "shut"
    /\ link[ctrl[t]] = "shut"
    /\ ctrl' = [ctrl EXCEPT ![t] = None]
    /\ pc' = [pc EXCEPT ![t] = After(t)]
    /\ OnChange("none")
    /\ UNCHANGED <<stop_event, serviceVars, objectVars, worldVars, threadsVars>>

-----------------------------------------------------------------------------
(* The scan loop. *)

\* The sleep is over and the controller's read loop is alive.
Keep ==
    /\ pc["scan"] = "sleep"
    /\ ~stop_event
    /\ IsConnected
    /\ UNCHANGED vars

\* Mutant: the loop looks at the slot, not at is_running.
MutantOnlyEmpty ==
    /\ pc["scan"] = "sleep"
    /\ ~stop_event
    /\ slot = None
    /\ Teardown("scan")

\* The sleep is over and there is no controller, or its read loop ended.
Lost ==
    /\ pc["scan"] = "sleep"
    /\ ~stop_event
    /\ ~IsConnected
    /\ Teardown("scan")

\* Mutant: while True, relying on the cancellation alone.
MutantForever ==
    /\ pc["scan"] = "sleep"
    /\ stop_event
    /\ IF IsConnected THEN UNCHANGED vars ELSE Teardown("scan")

\* The sleep is over and stop() was called.
Leave ==
    /\ pc["scan"] = "sleep"
    /\ stop_event
    /\ pc' = [pc EXCEPT !["scan"] = "done"]
    /\ UNCHANGED <<ctrl, stop_event, serviceVars, objectVars, worldVars, operatorVars>>

\* detect() finds nothing: its probes close the ports they opened.
DetectNone ==
    /\ pc["scan"] = "detect"
    /\ pc' = [pc EXCEPT !["scan"] = "sleep"]
    /\ UNCHANGED <<ctrl, stop_event, serviceVars, objectVars, worldVars, operatorVars>>

\* An identity for the controller detect() makes: one nothing runs or holds.
Fresh(c) ==
    /\ c \notin {slot, ctrl["scan"], ctrl["main"]}
    /\ reader[c] \in {"none", "done"}
    /\ link[c] # "closing"

\* detect() finds a controller (a MAVLink one with its connection) and
\* _activate_controller() hands it the packet callback set so far.
DetectFound(c, k) ==
    /\ pc["scan"] = "detect"
    /\ plugged
    /\ Fresh(c)
    /\ kind' = [kind EXCEPT ![c] = k]
    /\ link' = [link EXCEPT ![c] = IF k = "mavlink" THEN "open" ELSE "none"]
    /\ closed' = [closed EXCEPT ![c] = FALSE]
    /\ errs' = [errs EXCEPT ![c] = 0]
    /\ cb' = [cb EXCEPT ![c] = on_packet]
    /\ tel' = [tel EXCEPT ![c] = FALSE]
    /\ ctrl' = [ctrl EXCEPT !["scan"] = c]
    /\ pc' = [pc EXCEPT !["scan"] = "copied"]
    /\ UNCHANGED <<stop_event, serviceVars, reader, worldVars, operatorVars>>

\* ... the telemetry callback, and start() creates the read task ...
ActivateStart(c) ==
    /\ pc["scan"] = "copied"
    /\ ctrl["scan"] = c
    /\ tel' = [tel EXCEPT ![c] = on_telemetry]
    /\ link' = [link EXCEPT ![c] = "open"]
    /\ reader' = [reader EXCEPT ![c] = "run"]
    /\ pc' = [pc EXCEPT !["scan"] = "started"]
    /\ UNCHANGED <<ctrl, stop_event, serviceVars, kind, closed, errs, cb, worldVars, operatorVars>>

\* ... and takes the slot.
ActivateHold(c) ==
    /\ pc["scan"] = "started"
    /\ ctrl["scan"] = c
    /\ slot' = c
    /\ ctrl' = [ctrl EXCEPT !["scan"] = None]
    /\ pc' = [pc EXCEPT !["scan"] = "sleep"]
    /\ OnChange(kind[c])
    /\ UNCHANGED <<stop_event, on_packet, on_change, on_telemetry, objectVars, worldVars, threadsVars>>

\* detect() returns a CRSF controller (with CRSF_URL set, without probing) and
\* start() raises when it opens the port: the scan loop catches nothing but
\* CancelledError, so its task ends.
OpenRaises ==
    /\ pc["scan"] = "detect"
    /\ OpenFails
    /\ "crsf" \in Kinds
    /\ pc' = [pc EXCEPT !["scan"] = "done"]
    /\ UNCHANGED <<ctrl, stop_event, serviceVars, objectVars, worldVars, operatorVars>>

Scan ==
    \/ Keep \/ Lost \/ Leave \/ DetectNone \/ OpenRaises
    \/ \E c \in Controllers, k \in Kinds : DetectFound(c, k)
    \/ \E c \in Controllers : ActivateStart(c) \/ ActivateHold(c)
    \/ Drained("scan") \/ Shut("scan")

-----------------------------------------------------------------------------
(* start() and stop(): the main task. *)

Start ==
    /\ pc["main"] = "new"
    /\ pc' = [main |-> "serve", scan |-> "sleep"]
    /\ UNCHANGED <<ctrl, stop_event, serviceVars, objectVars, worldVars, operatorVars>>

\* stop(): CancelledError ends the scan loop at the await it is in, except in
\* close(), which takes the cancellation for that of the task it awaits.  The
\* thread that closes a MAVLink connection is not interrupted.  (What a probe
\* thread opens once detect() is cancelled is not followed further.)  A run()
\* that another thread's teardown made raise may leave its session behind.
Stop ==
    /\ pc["main"] = "serve"
    /\ Dispatch
    /\ session = None \/ "end" \in elsewhere
    /\ stop_event' = TRUE
    /\ pc' = [main |-> "join",
              scan |-> IF pc["scan"] = "drain" THEN "drain" ELSE "done"]
    /\ ctrl' = IF pc["scan"] = "drain" THEN ctrl
               ELSE [ctrl EXCEPT !["scan"] = None]
    /\ UNCHANGED <<serviceVars, objectVars, worldVars, operatorVars>>

\* Mutant: stop() only ends the scan loop.
MutantNoTeardown ==
    /\ pc["main"] = "join"
    /\ pc["scan"] = "done"
    /\ pc' = [pc EXCEPT !["main"] = "done"]
    /\ UNCHANGED <<ctrl, stop_event, serviceVars, objectVars, worldVars, operatorVars>>

\* The scan loop's task has ended: stop() drops the controller.
Joined ==
    /\ pc["main"] = "join"
    /\ pc["scan"] = "done"
    /\ Teardown("main")

Main == Start \/ Stop \/ Joined \/ Drained("main") \/ Shut("main")

-----------------------------------------------------------------------------
(* The read tasks, and the closing of a connection. *)

\* The read loop of c runs, and the loop may run it.
Reading(c) == Dispatch /\ reader[c] = "run"

\* A message, or a read that timed out.
RecvOk(c) ==
    /\ Reading(c)
    /\ kind[c] = "mavlink"
    /\ plugged
    /\ errs' = [errs EXCEPT ![c] = 0]
    /\ UNCHANGED <<taskVars, serviceVars, kind, link, reader, closed, cb, tel,
                   worldVars, operatorVars>>

\* Mutant: the breaker compares with > .
MutantLateBreaker(c) ==
    /\ Reading(c)
    /\ kind[c] = "mavlink"
    /\ errs' = [errs EXCEPT ![c] = @ + 1]
    /\ closed' = [closed EXCEPT ![c] = errs'[c] > Threshold]
    /\ reader' = [reader EXCEPT ![c] = IF errs'[c] > Threshold THEN "done" ELSE @]
    /\ UNCHANGED <<taskVars, serviceVars, kind, link, cb, tel, worldVars, operatorVars>>

\* Mutant: no breaker.
MutantNoBreaker(c) ==
    /\ Reading(c)
    /\ kind[c] = "mavlink"
    /\ errs' = [errs EXCEPT ![c] = IF @ = Threshold THEN @ ELSE @ + 1]
    /\ UNCHANGED <<taskVars, serviceVars, kind, link, reader, closed, cb, tel,
                   worldVars, operatorVars>>

\* A read error, which the driver may report of an attached device too; at
\* the threshold the breaker marks the controller closed and the loop ends.
RecvError(c) ==
    /\ Reading(c)
    /\ kind[c] = "mavlink"
    /\ errs' = [errs EXCEPT ![c] = @ + 1]
    /\ closed' = [closed EXCEPT ![c] = errs'[c] >= Threshold]
    /\ reader' = [reader EXCEPT ![c] = IF errs'[c] >= Threshold THEN "done" ELSE @]
    /\ UNCHANGED <<taskVars, serviceVars, kind, link, cb, tel, worldVars, operatorVars>>

\* The CRSF read loop: the reader's SerialException ends its task.
ReaderDies(c) ==
    /\ Reading(c)
    /\ kind[c] = "crsf"
    /\ ~plugged
    /\ reader' = [reader EXCEPT ![c] = "done"]
    /\ UNCHANGED <<taskVars, serviceVars, kind, link, closed, errs, cb, tel,
                   worldVars, operatorVars>>

\* A cancelled read loop returns.
ReaderEnds(c) ==
    /\ reader[c] = "cancelled"
    /\ reader' = [reader EXCEPT ![c] = "done"]
    /\ UNCHANGED <<taskVars, serviceVars, kind, link, closed, errs, cb, tel,
                   worldVars, operatorVars>>

\* The thread, or the transport, has closed the connection.
LinkCloses(c) ==
    /\ link[c] = "closing"
    /\ link' = [link EXCEPT ![c] = "shut"]
    /\ UNCHANGED <<taskVars, serviceVars, kind, reader, closed, errs, cb, tel,
                   worldVars, operatorVars>>

Controller(c) ==
    RecvOk(c) \/ RecvError(c) \/ ReaderDies(c) \/ ReaderEnds(c) \/ LinkCloses(c)

-----------------------------------------------------------------------------
(* The sessions: coordinator and manager, as far as they use the service. *)

\* Mutant: only a controller activated later gets the new callback.
MutantServiceOnly(s) == on_packet' = s /\ UNCHANGED cb

\* set_packet_callback: of the service and of the controller in the slot.
SetPacketCallback(s) ==
    /\ on_packet' = s
    /\ cb' = IF slot = None THEN cb ELSE [cb EXCEPT ![slot] = s]

\* set_change_callback and set_telemetry_callback.
SetHooks(on) ==
    /\ on_change' = on
    /\ on_telemetry' = on
    /\ tel' = IF slot = None THEN tel ELSE [tel EXCEPT ![slot] = on]

OpenSession(s) ==
    /\ pc["main"] = "serve"
    /\ Dispatch
    /\ session = None
    /\ session' = s
    /\ SetPacketCallback(s)
    /\ SetHooks(TRUE)
    /\ UNCHANGED <<taskVars, slot, kind, link, reader, closed, errs, worldVars, ending, openVars,
                   shownVars>>

\* The channels are closed: what on_open has still to send reaches none.
CloseChannels ==
    /\ session' = None
    /\ shown' = "closed"
    /\ overtaken' = FALSE
    /\ opening' = "idle"
    /\ UNCHANGED seen

\* _teardown on the loop (not while another thread closes the channels).
EndSession ==
    /\ session # None
    /\ Dispatch
    /\ ending \notin {"test", "hand", "channels"}
    /\ SetPacketCallback(None)
    /\ SetHooks(FALSE)
    /\ CloseChannels
    /\ UNCHANGED <<taskVars, slot, kind, link, reader, closed, errs, worldVars, ending>>

-----------------------------------------------------------------------------
(* _teardown on another thread, from set_packet_callback(None) on. *)

\* self._on_packet = None
EndPacket ==
    /\ "end" \in elsewhere
    /\ session # None
    /\ ending = "idle"
    /\ on_packet' = None
    /\ ending' = "test"
    /\ UNCHANGED <<taskVars, slot, on_change, on_telemetry, objectVars, worldVars, session, openVars,
                   shownVars>>

\* if self._controller is not None, in both setters.
EndTest ==
    /\ \/ ending = "test" /\ ending' = IF slot = None THEN "channels" ELSE "hand"
       \/ ending = "retest" /\ ending' = IF slot = None THEN "idle" ELSE "rehand"
    /\ UNCHANGED <<fcVars, session, openVars, shownVars>>

\* The controller's callback goes.  If the loop has dropped it since the test,
\* None.set_packet_callback raises and the teardown stops there.
EndHand ==
    /\ ending = "hand"
    /\ \/ slot # None /\ cb' = [cb EXCEPT ![slot] = None] /\ ending' = "channels"
       \/ slot = None /\ ending' = "idle" /\ UNCHANGED cb
    /\ UNCHANGED <<taskVars, serviceVars, kind, link, reader, closed, errs, tel, worldVars, session,
                   openVars, shownVars>>

\* The channels are closed, the manager and the pipeline forgotten: the loop may
\* begin another session.
EndChannels ==
    /\ ending = "channels"
    /\ ending' = "change"
    /\ CloseChannels
    /\ UNCHANGED fcVars

\* set_change_callback(None), self._on_telemetry = None: whoever's they are now.
EndChange ==
    /\ ending = "change"
    /\ on_change' = FALSE
    /\ ending' = "telemetry"
    /\ UNCHANGED <<taskVars, slot, on_packet, on_telemetry, objectVars, worldVars, session, openVars,
                   shownVars>>

EndTelemetry ==
    /\ ending = "telemetry"
    /\ on_telemetry' = FALSE
    /\ ending' = "retest"
    /\ UNCHANGED <<taskVars, slot, on_packet, on_change, objectVars, worldVars, session, openVars,
                   shownVars>>

\* The controller's telemetry callback goes, or the same exception.
EndRehand ==
    /\ ending = "rehand"
    /\ tel' = IF slot = None THEN tel ELSE [tel EXCEPT ![slot] = FALSE]
    /\ ending' = "idle"
    /\ UNCHANGED <<taskVars, serviceVars, kind, link, reader, closed, errs, cb, worldVars, session,
                   openVars, shownVars>>

Ending ==
    EndTest \/ EndHand \/ EndChannels \/ EndChange \/ EndTelemetry \/ EndRehand

-----------------------------------------------------------------------------
(* _send_config_open on a webrtcbin thread. *)

\* The config channel is open; its handler is there until the channels go.
ChannelOpen ==
    /\ "open" \in elsewhere
    /\ session # None
    /\ shown = "closed"
    /\ shown' = "unset"
    /\ opening' = "test"
    /\ UNCHANGED <<fcVars, session, ending, seen, overtaken>>

\* is_connected: self._controller is not None ...
OpenTest ==
    /\ opening = "test"
    /\ \/ slot = None /\ seen' = "none" /\ opening' = "send"
       \/ slot # None /\ opening' = "running" /\ UNCHANGED seen
    /\ UNCHANGED <<fcVars, session, ending, shownVars>>

\* ... and self._controller.is_running.  If the loop has emptied the slot since,
\* on_open ends with the exception.
OpenRunning ==
    /\ opening = "running"
    /\ \/ slot = None /\ opening' = "idle" /\ UNCHANGED seen
       \/ slot # None /\ ~IsConnected /\ seen' = "none" /\ opening' = "send"
       \/ IsConnected /\ opening' = "kind" /\ UNCHANGED seen
    /\ UNCHANGED <<fcVars, session, ending, shownVars>>

\* kind, of the controller there is now: it tests the slot and reads it again.
OpenKind ==
    /\ opening = "kind"
    /\ \/ seen' = (IF slot = None THEN "none" ELSE kind[slot]) /\ opening' = "send"
       \/ slot = None /\ opening' = "idle" /\ UNCHANGED seen
    /\ UNCHANGED <<fcVars, session, ending, shownVars>>

\* Mutant: what was read is not sent.
MutantNotSent ==
    /\ opening = "send"
    /\ opening' = "idle"
    /\ UNCHANGED <<fcVars, session, ending, seen, shownVars>>

\* name is read like kind; then the fc message is queued for the GLib loop, behind
\* those already there.
OpenSend ==
    /\ opening = "send"
    /\ \/ shown' = seen
       \/ seen # "none" /\ slot = None /\ UNCHANGED shown
    /\ opening' = "idle"
    /\ UNCHANGED <<fcVars, session, ending, seen, overtaken>>

Opening == OpenTest \/ OpenRunning \/ OpenKind \/ OpenSend

\* The cable.
Plug ==
    /\ plugged' = ~plugged
    /\ UNCHANGED <<elsewhere, taskVars, serviceVars, objectVars, operatorVars>>

Users == (\E s \in Sessions : OpenSession(s)) \/ EndSession \/ EndPacket \/ ChannelOpen

Terminated == pc["main"] = "done" /\ UNCHANGED vars

Next ==
    \/ Scan \/ Main
    \/ \E c \in Controllers : Controller(c)
    \/ Users \/ Ending \/ Opening \/ Plug \/ Terminated

Spec == Init /\ [][Next]_vars

\* The loop runs every ready task and a thread goes on; a read from a detached
\* device fails; an attached controller is found by one of the probes (a heartbeat
\* a second, three seconds of waiting).  Nobody owes a session, its end, a stop
\* or a cable.
Fairness ==
    /\ WF_vars(Scan)
    /\ WF_vars(Joined \/ Drained("main") \/ Shut("main"))
    /\ SF_vars(\E c \in Controllers, k \in Kinds : DetectFound(c, k))
    /\ \A c \in Controllers :
          /\ WF_vars(ReaderDies(c) \/ ReaderEnds(c) \/ LinkCloses(c))
          /\ WF_vars(~plugged /\ RecvError(c))
    /\ WF_vars(Ending)
    /\ WF_vars(Opening)

FairSpec == Spec /\ Fairness

-----------------------------------------------------------------------------
(* Properties. *)

\* The breaker of c fired: it set _closed itself.
Tripped(c) == errs[c] = Threshold

\* Two controllers never use the port at once: before the service detects or
\* starts one, the reader of the last has ended and its connection is closed
\* (unless its breaker fired: see LinkReleased).
OneController ==
    \A c, d \in Controllers :
        /\ reader[c] = "run" /\ reader[d] \in {"run", "cancelled"} => c = d
        /\ reader[c] = "run" /\ link[d] \in {"open", "closing"} =>
              c = d \/ Tripped(d)

\* No other thread ends sessions.
EndsOnLoop == "end" \notin elsewhere

\* When the sessions end on the loop, a read loop that runs feeds the session
\* whose callback the service holds, and no other, whenever the session and the
\* controller came.
FeedsTheSession ==
    EndsOnLoop => \A c \in Controllers :
        reader[c] = "run" => cb[c] = on_packet /\ tel[c] = on_telemetry

\* What service.py:50 says of set_telemetry_callback: the callback, None too, is
\* passed on to the active controller.  Not so for one that another thread clears
\* while a controller is being activated.
TelemetryPassedOn ==
    ending = "idle" /\ Dispatch /\ IsConnected => tel[slot] = on_telemetry

\* The last fc message is about the controller there is: between a detection and
\* the next one it names its kind.
UpToDate ==
    /\ pc["scan"] = "sleep" /\ IsConnected => shown = kind[slot]
    /\ pc["scan"] = "detect" => shown = "none"

\* What coordinator.py:123-124 says of the fc message: it brings the operator's
\* view up to date without another session.  Not so when on_open is overtaken.
ShownTruthful == shown # "closed" /\ opening = "idle" => UpToDate

\* The same when the sessions end on the loop, unless the message of on_open was
\* read before a change and queued after the change's own: nothing else makes the
\* operator see the wrong controller, neither a loss during on_open nor close()
\* in progress.
ShownUnlessOvertaken ==
    EndsOnLoop /\ shown # "closed" /\ opening = "idle" /\ ~overtaken => UpToDate

\* After stop() nothing runs and no connection is held.
StopLeavesNothing ==
    pc["main"] = "done" =>
        /\ slot = None
        /\ pc["scan"] = "done"
        /\ \A c \in Controllers :
              /\ reader[c] \in {"none", "done"}
              /\ link[c] = "open" => Tripped(c)

\* The connection of a controller the service dropped has been closed, as
\* tests/test_fc/test_controllers.py:55-62 has it of close().
LinkReleased ==
    \A c \in Controllers :
        link[c] = "open" => c \in {slot, ctrl["scan"], ctrl["main"]}

\* A controller that stays attached is used, for as long as the service runs.
ReconnectsFC ==
    <>[](plugged /\ pc["main"] = "serve") => []<>IsConnected

\* The same, unless the scan loop's task has ended (OpenRaises).
ReconnectsWhileScanning ==
    <>[](plugged /\ pc["main"] = "serve" /\ pc["scan"] # "done") => []<>IsConnected

\* A controller that stays away is dropped, whoever ends sessions meanwhile.
LossNoticed ==
    <>[](~plugged /\ pc["main"] = "serve") => <>[](slot = None)

\* ... and the operator is told, by the loop or by on_open once it is done, unless
\* on_open's message was overtaken.
LossTold ==
    <>[](~plugged /\ pc["main"] = "serve") =>
        <>[](shown \in {"closed", "none"} \/ opening # "idle" \/ overtaken)

\* stop() returns, wherever it caught the scan loop.
StopReturns == (pc["main"] = "join") ~> (pc["main"] = "done")
==============================================================================
