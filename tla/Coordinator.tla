------------------------------ MODULE Coordinator ------------------------------
(***************************************************************************)
(* The session life cycle of the board: SessionCoordinator.run and its     *)
(* message handlers on the asyncio loop, the signalling connection they    *)
(* own, the GStreamer pipelines and WebRTC managers they build, and        *)
(* _teardown, which the loop shares with the GLib bus thread (pipeline     *)
(* errors) and the webrtcbin threads (config-channel messages).            *)
(*                                                                         *)
(* Threads interleave between the labelled points below.  Callbacks of the *)
(* asyncio loop (the main task, stop(), the camera watcher's tick, the     *)
(* task that closes the connection) interleave only where the running one  *)
(* awaits, i.e. where LoopFree holds.                                      *)
(***************************************************************************)
CONSTANTS
    Pipelines,      \* identities of GStreamerPipe objects (reused once collected)
    Devices,        \* capture devices that can be plugged in
    Uncalibrated,   \* the devices for which CameraCalibrator finds no parameters
    Loop,           \* the asyncio thread
    BusThreads,     \* the threads that run GLib idle callbacks (0 or 1 of them)
    ChannelThreads, \* the webrtcbin threads that deliver config-channel messages
    Steady,         \* bound of an instance: no signal, no hotplug, the connection holds
    None

Threads == {Loop} \cup BusThreads \cup ChannelThreads

ASSUME CoordinatorAssumption ==
    /\ None \notin Pipelines
    /\ \A D \in SUBSET Devices : None # D
    /\ Uncalibrated \subseteq Devices
    /\ Steady \in BOOLEAN
    /\ Loop \notin BusThreads \cup ChannelThreads

VARIABLES
    task,       \* where the task that runs run() is
    callback,   \* the other loop callback that is running: none, stop, watch
    stop_event, \* _stop_event.is_set()
    closer,     \* the task stop() creates to close the connection
    conn,       \* SignalClient._conn: none, open, or lost (closed by either side)
    pc,         \* per thread: the next statement of _teardown, idle outside it
    local,      \* per thread: the local variable _teardown works on
    pipeline,   \* SessionCoordinator._pipeline
    manager,    \* SessionCoordinator._manager, named by the pipeline it is for
    peer,       \* the managers whose _peer is set
    channels,   \* the managers whose _channels is set
    listening,  \* the managers whose config channel has its on_message handler
    packetCb,   \* FCService._on_packet: the manager whose packet channel gets data
    hooks,      \* FCService._on_change and _on_telemetry are the coordinator's
    building,   \* _handle_connect's local pipeline
    up,         \* the pipelines whose elements are running and hold their cameras
    stopped,    \* the pipelines whose stop() was called: GStreamerPipe._stopped
    releasing,  \* the pipelines whose pipeline-release thread has started
    released,   \* the pipelines whose elements were released (.pipeline = None)
    errors,     \* pipelines with an on_error callback queued by GLib.idle_add
    devices,    \* the capture devices plugged in now
    cams,       \* per pipeline: the cameras it was built for
    cache,      \* CameraRegistry._cached_cams, {} when there are none
    scanned,    \* per thread: the result of its registry scan (Loop: its worker's)
    known,      \* CameraWatcher._known_ids, None when the watcher is stopped
    moved       \* history: the devices changed since the registry last scanned

signalVars  == <<callback, stop_event, closer, conn>>
runVars     == <<task, signalVars>>
threadVars  == <<pc, local>>
peerVars    == <<peer, channels, listening>>
sessionVars == <<pipeline, manager, peerVars, packetCb, hooks>>
flagVars    == <<up, stopped, releasing, released>>
pipeVars    == <<building, flagVars, errors>>
cameraVars  == <<devices, cams, cache, scanned, known, moved>>
vars == <<runVars, threadVars, sessionVars, pipeVars, cameraVars>>

\* Points where the main task awaits, and where it is inside a synchronous run.
Starting == {"starting", "started", "unstarted"}
Awaiting == {"connecting", "sleep", "listen", "closing", "factory", "scanning",
             "built", "refuse", "broken"} \cup Starting
Wiring   == {"peered", "opened", "bound", "wired", "listening", "skipped"}
Failing  == {"abandon", "forgetting", "uncaching"}
Running  == {"replace", "drop", "finally", "holding", "hook", "watch"} \cup Wiring \cup Failing
Ended    == {"done", "crashed"}

\* The statements of _teardown, in order ("unwire" to "peer" are end_session's).
TeardownSteps == {"watcher", "manager", "session", "unwire", "handlers", "deaf", "channels",
                  "close", "peer", "forget", "take", "drop", "stop", "free", "release", "hooks"}

\* A channel thread may calibrate before it gets there; the loop's teardown may raise.
ThreadSteps == TeardownSteps \cup {"idle", "scan", "scanned", "raised"}

\* Where _teardown uses its local variable, and _handle_connect its own.
UsesLocal    == {"unwire", "handlers", "deaf", "channels", "close", "peer", "stop", "free", "release"}
UsesBuilding == {"built", "holding", "hook", "watch"} \cup Starting \cup Wiring

TypeOK ==
    /\ task \in Awaiting \cup Running \cup Ended
    /\ callback \in {"none", "stop", "watch"}
    /\ stop_event \in BOOLEAN
    /\ closer \in {"none", "pending", "closing"}
    /\ conn \in {"none", "open", "lost"}
    /\ pc \in [Threads -> ThreadSteps]
    /\ local \in [Threads -> Pipelines \cup {None}]
    /\ pipeline \in Pipelines \cup {None}
    /\ manager \in Pipelines \cup {None}
    /\ peer \in SUBSET Pipelines
    /\ channels \in SUBSET Pipelines
    /\ listening \in SUBSET Pipelines
    /\ packetCb \in Pipelines \cup {None}
    /\ hooks \in BOOLEAN
    /\ building \in Pipelines \cup {None}
    /\ up \in SUBSET Pipelines
    /\ stopped \in SUBSET Pipelines
    /\ releasing \in SUBSET Pipelines
    /\ released \in SUBSET Pipelines
    /\ errors \in SUBSET Pipelines
    /\ devices \in SUBSET Devices
    /\ cams \in [Pipelines -> SUBSET Devices]
    /\ cache \in SUBSET Devices
    /\ scanned \in [Threads -> SUBSET Devices]
    /\ known = None \/ known \in SUBSET Devices
    /\ moved \in BOOLEAN
    \* the local variables are set where they are used
    /\ \A t \in Threads : pc[t] \in UsesLocal => local[t] # None
    /\ task \in UsesBuilding => building # None

Init ==
    /\ task = "connecting"
    /\ callback = "none"
    /\ stop_event = FALSE
    /\ closer = "none"
    /\ conn = "none"
    /\ pc = [t \in Threads |-> "idle"]
    /\ local = [t \in Threads |-> None]
    /\ pipeline = None
    /\ manager = None
    /\ peer = {}
    /\ channels = {}
    /\ listening = {}
    /\ packetCb = None
    /\ hooks = FALSE
    /\ building = None
    /\ up = {}
    /\ stopped = {}
    /\ releasing = {}
    /\ released = {}
    /\ errors = {}
    /\ devices \in SUBSET Devices
    /\ cams = [p \in Pipelines |-> {}]
    /\ cache = {}
    /\ scanned = [t \in Threads |-> {}]
    /\ known = None
    /\ moved = FALSE

\* The loop runs no other callback; LoopFree: nor is the main task in one.
Dispatch == pc[Loop] = "idle" /\ callback = "none"
LoopFree == Dispatch /\ task \in Awaiting

-----------------------------------------------------------------------------
(* _teardown, one action per statement that touches shared state.          *)

Goto(t, l) == pc' = [pc EXCEPT ![t] = l]

At(t, l) == pc[t] = l

\* An exception leaves _teardown: the loop's caller sees it, a GLib or
\* webrtcbin callback only logs it.
Raise(t) ==
    /\ Goto(t, IF t = Loop THEN "raised" ELSE "idle")
    /\ local' = [local EXCEPT ![t] = None]

\* watcher.stop(): the task is cancelled, the baseline forgotten.
TeardownWatcher(t) ==
    /\ At(t, "watcher")
    /\ known' = None
    /\ Goto(t, "manager")
    /\ UNCHANGED <<runVars, local, sessionVars, pipeVars, devices, cams, cache, scanned, moved>>

\* Mutant: end_session() is called without the test for a manager.
MutantNoManagerTest(t) ==
    /\ At(t, "manager")
    /\ Goto(t, "session")
    /\ UNCHANGED <<runVars, local, sessionVars, pipeVars, cameraVars>>

\* if self._manager is not None
TeardownManager(t) ==
    /\ At(t, "manager")
    /\ Goto(t, IF manager = None THEN "take" ELSE "session")
    /\ UNCHANGED <<runVars, local, sessionVars, pipeVars, cameraVars>>

\* self._manager.end_session() up to its test of _peer.
TeardownSession(t) ==
    /\ At(t, "session")
    /\ \/ /\ manager = None
          /\ Raise(t)
       \/ /\ manager # None
          /\ local' = [local EXCEPT ![t] = manager]
          /\ Goto(t, IF manager \in peer THEN "unwire" ELSE "forget")
    /\ UNCHANGED <<runVars, sessionVars, pipeVars, cameraVars>>

\* set_packet_callback(None).  Another thread may have closed the peer since the
\* test, which raises before; and the controller may go between a test of
\* FCService and its use, which raises after (only the loop takes it away).
TeardownUnwire(t) ==
    /\ At(t, "unwire")
    /\ \/ /\ local[t] \notin peer
          /\ Raise(t)
          /\ UNCHANGED packetCb
       \/ /\ packetCb' = None
          /\ Goto(t, "handlers")
          /\ UNCHANGED local
       \/ /\ t # Loop
          /\ packetCb' = None
          /\ Raise(t)
    /\ UNCHANGED <<runVars, pipeline, manager, peerVars, hooks, pipeVars, cameraVars>>

\* if self._channels is not None, before the handlers and before close().
TeardownTest(t) ==
    /\ \/ At(t, "handlers") /\ Goto(t, IF local[t] \in channels THEN "deaf" ELSE "channels")
       \/ At(t, "channels") /\ Goto(t, IF local[t] \in channels THEN "close" ELSE "peer")
    /\ UNCHANGED <<runVars, local, sessionVars, pipeVars, cameraVars>>

\* The handlers of the channels are removed; None.packet raises.
TeardownDeaf(t) ==
    /\ At(t, "deaf")
    /\ \/ /\ local[t] \in channels
          /\ listening' = listening \ {local[t]}
          /\ Goto(t, "channels")
          /\ UNCHANGED local
       \/ /\ local[t] \notin channels
          /\ Raise(t)
          /\ UNCHANGED listening
    /\ UNCHANGED <<runVars, pipeline, manager, peer, channels, packetCb, hooks, pipeVars, cameraVars>>

\* self._channels.close(), self._channels = None; None.close() raises.
TeardownClose(t) ==
    /\ At(t, "close")
    /\ \/ /\ local[t] \in channels
          /\ channels' = channels \ {local[t]}
          /\ Goto(t, "peer")
          /\ UNCHANGED local
       \/ /\ local[t] \notin channels
          /\ Raise(t)
          /\ UNCHANGED channels
    /\ UNCHANGED <<runVars, pipeline, manager, peer, listening, packetCb, hooks, pipeVars, cameraVars>>

\* self._peer.close(), self._peer = None; None.close() raises.
TeardownPeer(t) ==
    /\ At(t, "peer")
    /\ \/ /\ local[t] \in peer
          /\ peer' = peer \ {local[t]}
          /\ Goto(t, "forget")
          /\ UNCHANGED local
       \/ /\ local[t] \notin peer
          /\ Raise(t)
          /\ UNCHANGED peer
    /\ UNCHANGED <<runVars, pipeline, manager, channels, listening, packetCb, hooks, pipeVars,
                   cameraVars>>

\* self._manager = None
TeardownForget(t) ==
    /\ At(t, "forget")
    /\ manager' = None
    /\ local' = [local EXCEPT ![t] = None]
    /\ Goto(t, "take")
    /\ UNCHANGED <<runVars, pipeline, peerVars, packetCb, hooks, pipeVars, cameraVars>>

\* pipeline = self._pipeline
TeardownTake(t) ==
    /\ At(t, "take")
    /\ local' = [local EXCEPT ![t] = pipeline]
    /\ Goto(t, "drop")
    /\ UNCHANGED <<runVars, sessionVars, pipeVars, cameraVars>>

\* Mutant: _pipeline keeps the pipeline that is about to be stopped.
MutantKeepPipeline(t) ==
    /\ At(t, "drop")
    /\ Goto(t, IF local[t] = None THEN "hooks" ELSE "stop")
    /\ UNCHANGED <<runVars, local, sessionVars, pipeVars, cameraVars>>

\* self._pipeline = None
TeardownDrop(t) ==
    /\ At(t, "drop")
    /\ pipeline' = None
    /\ Goto(t, IF local[t] = None THEN "hooks" ELSE "stop")
    /\ UNCHANGED <<runVars, local, manager, peerVars, packetCb, hooks, pipeVars, cameraVars>>

\* GStreamerPipe.stop() up to remove_watch: a second call returns at once.
TeardownStop(t) ==
    /\ At(t, "stop")
    /\ stopped' = stopped \cup {local[t]}
    /\ Goto(t, IF local[t] \in stopped THEN "release" ELSE "free")
    /\ UNCHANGED <<runVars, local, sessionVars, building, up, releasing, released, errors, cameraVars>>

\* Mutant: stop() returns before the cameras are free.
MutantNoWait(t) ==
    /\ At(t, "free")
    /\ Goto(t, "release")
    /\ UNCHANGED <<runVars, local, sessionVars, pipeVars, cameraVars>>

\* set_state(NULL) and the wait for it (up to 2 s): the cameras are free.  The
\* element may be gone already (released by another thread's teardown): the
\* exception is logged and nothing is stopped.
TeardownFree(t) ==
    /\ At(t, "free")
    /\ up' = up \ ({local[t]} \ released)
    /\ Goto(t, "release")
    /\ UNCHANGED <<runVars, local, sessionVars, building, stopped, releasing, released, errors,
                   cameraVars>>

\* The pipeline-release thread is started.
TeardownRelease(t) ==
    /\ At(t, "release")
    /\ releasing' = releasing \cup {local[t]}
    /\ local' = [local EXCEPT ![t] = None]
    /\ Goto(t, "hooks")
    /\ UNCHANGED <<runVars, sessionVars, building, up, stopped, released, errors, cameraVars>>

\* _release_pipeline, in that thread: the references to the elements are dropped.
Release(p) ==
    /\ p \in releasing
    /\ releasing' = releasing \ {p}
    /\ released' = released \cup {p}
    /\ UNCHANGED <<runVars, threadVars, sessionVars, building, up, stopped, errors, cameraVars>>

\* Mutant: the flight controller keeps the coordinator's callbacks.
MutantKeepHooks(t) ==
    /\ At(t, "hooks")
    /\ Goto(t, "idle")
    /\ UNCHANGED <<runVars, local, sessionVars, pipeVars, cameraVars>>

\* set_change_callback(None), set_telemetry_callback(None); _teardown returns.
TeardownHooks(t) ==
    /\ At(t, "hooks")
    /\ hooks' = FALSE
    /\ Goto(t, "idle")
    /\ UNCHANGED <<runVars, local, pipeline, manager, peerVars, packetCb, pipeVars, cameraVars>>

Teardown(t) ==
    \/ TeardownWatcher(t) \/ TeardownManager(t) \/ TeardownSession(t)
    \/ TeardownUnwire(t)  \/ TeardownTest(t)
    \/ TeardownDeaf(t)    \/ TeardownClose(t)
    \/ TeardownPeer(t)    \/ TeardownForget(t)  \/ TeardownTake(t)
    \/ TeardownDrop(t)    \/ TeardownStop(t)    \/ TeardownFree(t)
    \/ TeardownRelease(t) \/ TeardownHooks(t)

-----------------------------------------------------------------------------
(* run(): connect, listen, clean up, back off.                             *)

\* The main task of the loop is at label l and may take its next step.
Main(l) == task = l /\ Dispatch

\* An exception reaches run(), or listen() returns: its finally clause starts.
EnterFinally == task' = "finally" /\ Goto(Loop, "watcher")

ConnectOk ==
    /\ Main("connecting")
    /\ task' = "listen"
    /\ conn' = "open"
    /\ UNCHANGED <<callback, stop_event, closer, threadVars, sessionVars, pipeVars, cameraVars>>

ConnectFails ==
    /\ Main("connecting")
    /\ task' = "sleep"
    /\ conn' = "none"
    /\ UNCHANGED <<callback, stop_event, closer, threadVars, sessionVars, pipeVars, cameraVars>>

\* Mutant: the stop event is not looked at between two connections.
MutantIgnoreStop ==
    /\ Main("sleep")
    /\ task' = "connecting"
    /\ UNCHANGED <<signalVars, threadVars, sessionVars, pipeVars, cameraVars>>

\* The backoff delay is over: while not self._stop_event.is_set()
Wake ==
    /\ Main("sleep")
    /\ task' = IF stop_event THEN "done" ELSE "connecting"
    /\ UNCHANGED <<signalVars, threadVars, sessionVars, pipeVars, cameraVars>>

\* The server or the network closes the connection.
ConnectionLost ==
    /\ ~Steady
    /\ conn = "open"
    /\ conn' = "lost"
    /\ UNCHANGED <<task, callback, stop_event, closer, threadVars, sessionVars, pipeVars, cameraVars>>

\* listen() ends: its iterator has delivered what it had buffered.
ListenEnds ==
    /\ Main("listen")
    /\ conn # "open"
    /\ EnterFinally
    /\ UNCHANGED <<signalVars, local, sessionVars, pipeVars, cameraVars>>

\* Mutant: run() returns after its first connection.
MutantRunOnce ==
    /\ Main("closing")
    /\ conn' = "none"
    /\ task' = "done"
    /\ UNCHANGED <<callback, stop_event, closer, threadVars, sessionVars, pipeVars, cameraVars>>

\* Mutant: the connection is not closed.
MutantKeepConnection ==
    /\ Main("closing")
    /\ task' = "sleep"
    /\ UNCHANGED <<signalVars, threadVars, sessionVars, pipeVars, cameraVars>>

\* await self._signal_client.disconnect()
Closed ==
    /\ Main("closing")
    /\ conn' = "none"
    /\ task' = "sleep"
    /\ UNCHANGED <<callback, stop_event, closer, threadVars, sessionVars, pipeVars, cameraVars>>

\* A teardown the main task called returns to its caller.
MainReturns ==
    /\ Dispatch
    /\ task \in {"replace", "drop", "finally"}
    /\ task' = CASE task = "replace" -> "factory"
                 [] task = "drop"    -> "listen"
                 [] task = "finally" -> "closing"
    /\ UNCHANGED <<signalVars, threadVars, sessionVars, pipeVars, cameraVars>>

\* A teardown the main task called raises: out of a handler into run()'s
\* finally clause, out of that clause out of run().
MainRaises ==
    /\ At(Loop, "raised")
    /\ callback = "none"
    /\ \/ /\ task # "finally"
          /\ EnterFinally
       \/ /\ task = "finally"
          /\ task' = "crashed"
          /\ Goto(Loop, "idle")
    /\ UNCHANGED <<signalVars, local, sessionVars, pipeVars, cameraVars>>

\* stop(), the handler of SIGTERM and SIGINT.
Stop ==
    /\ ~Steady
    /\ LoopFree
    /\ stop_event' = TRUE
    /\ callback' = "stop"
    /\ Goto(Loop, "watcher")
    /\ UNCHANGED <<task, closer, conn, local, sessionVars, pipeVars, cameraVars>>

\* Mutant: the closing task is recorded under the callback's name.
MutantCloserName ==
    /\ callback # "none"
    /\ pc[Loop] \in {"idle", "raised"}
    /\ closer' = callback
    /\ callback' = "none"
    /\ Goto(Loop, "idle")
    /\ UNCHANGED <<task, stop_event, conn, local, sessionVars, pipeVars, cameraVars>>

\* The teardown stop() or the watcher's tick called is over.  Only if it
\* returned does stop() create the task that disconnects.
CallbackReturns ==
    /\ callback # "none"
    /\ pc[Loop] \in {"idle", "raised"}
    /\ closer' = IF callback = "stop" /\ At(Loop, "idle") /\ closer = "none"
                 THEN "pending" ELSE closer
    /\ callback' = "none"
    /\ Goto(Loop, "idle")
    /\ UNCHANGED <<task, stop_event, conn, local, sessionVars, pipeVars, cameraVars>>

\* SignalClient.disconnect() as that task: nothing to do without a connection.
CloserRuns ==
    /\ LoopFree
    /\ closer = "pending"
    /\ closer' = IF conn = "none" THEN "none" ELSE "closing"
    /\ conn' = IF conn = "open" THEN "lost" ELSE conn
    /\ UNCHANGED <<task, callback, stop_event, threadVars, sessionVars, pipeVars, cameraVars>>

CloserDone ==
    /\ LoopFree
    /\ closer = "closing"
    /\ closer' = "none"
    /\ conn' = "none"
    /\ UNCHANGED <<task, callback, stop_event, threadVars, sessionVars, pipeVars, cameraVars>>

-----------------------------------------------------------------------------
(* _on_message and _handle_connect.  sdp, ice and ping messages that are   *)
(* handled without an exception change no variable of this module.         *)

\* The handler of a message raises (a message that is no object, a pong that
\* cannot be sent, an answer webrtcbin does not take): listen() ends with it.
HandlerRaises ==
    /\ Main("listen")
    /\ conn = "open"
    /\ EnterFinally
    /\ UNCHANGED <<signalVars, local, sessionVars, pipeVars, cameraVars>>

HandleDisconnect ==
    /\ Main("listen")
    /\ task' = "drop"
    /\ Goto(Loop, "watcher")
    /\ UNCHANGED <<signalVars, local, sessionVars, pipeVars, cameraVars>>

\* connect with a valid gcs_id: an earlier session is torn down first.
HandleConnect ==
    /\ Main("listen")
    /\ \/ /\ pipeline # None
          /\ task' = "replace"
          /\ Goto(Loop, "watcher")
       \/ /\ pipeline = None
          /\ task' = "factory"
          /\ UNCHANGED pc
    /\ UNCHANGED <<signalVars, local, sessionVars, pipeVars, cameraVars>>

\* No variable of the program refers to p: Python has collected it, so the
\* identity may stand for a new object.
Fresh(p) ==
    /\ p \notin errors \cup {pipeline, manager, packetCb, building}
    /\ p \notin peer \cup channels \cup listening
    /\ p \notin up \cup releasing
    /\ \A t \in Threads : local[t] # p

\* GStreamerPipe(cs) in the worker thread of the factory.
Build(p, cs) ==
    /\ Fresh(p)
    /\ building' = p
    /\ cams' = [cams EXCEPT ![p] = cs]
    /\ stopped' = stopped \ {p}
    /\ released' = released \ {p}
    /\ UNCHANGED <<up, releasing>>
    /\ task' = "built"

\* get_cameras() with a warm cache.
FactoryCached ==
    /\ task = "factory"
    /\ cache # {}
    /\ \E p \in Pipelines : Build(p, cache)
    /\ UNCHANGED <<signalVars, threadVars, sessionVars, errors, devices, cache, scanned, known,
                   moved>>

\* _scan in thread t, or in the worker of the loop's main task.
Scan(t) ==
    /\ scanned' = [scanned EXCEPT ![t] = devices \ Uncalibrated]
    /\ moved' = FALSE

\* Its result is written to the cache, even if that was cleared meanwhile.
Scanned(t) ==
    /\ cache' = scanned[t]
    /\ scanned' = [scanned EXCEPT ![t] = {}]

\* get_cameras() with a cold one: _scan enumerates the devices and calibrates.
FactoryScan ==
    /\ task = "factory"
    /\ cache = {}
    /\ Scan(Loop)
    /\ task' = "scanning"
    /\ UNCHANGED <<signalVars, threadVars, sessionVars, pipeVars, devices, cams, cache, known>>

\* _scan returns cameras.
FactoryScanned ==
    /\ task = "scanning"
    /\ scanned[Loop] # {}
    /\ Scanned(Loop)
    /\ \E p \in Pipelines : Build(p, scanned[Loop])
    /\ UNCHANGED <<signalVars, threadVars, sessionVars, errors, devices, known, moved>>

\* No camera: an empty list counts as no cache, the factory returns None.
FactoryEmpty ==
    /\ task = "scanning"
    /\ scanned[Loop] = {}
    /\ Scanned(Loop)
    /\ task' = "refuse"
    /\ UNCHANGED <<signalVars, threadVars, sessionVars, pipeVars, devices, cams, known, moved>>

\* Gst.parse_launch raises; the cameras found are cached all the same.
FactoryRaises ==
    /\ \/ /\ task = "factory"
          /\ cache # {}
          /\ UNCHANGED <<cache, scanned>>
       \/ /\ task = "scanning"
          /\ scanned[Loop] # {}
          /\ Scanned(Loop)
    /\ task' = "broken"
    /\ UNCHANGED <<signalVars, threadVars, sessionVars, pipeVars, devices, cams, known, moved>>

\* send disconnect_session (its failure is logged) and return.
Refuse ==
    /\ Main("refuse")
    /\ task' = "listen"
    /\ UNCHANGED <<signalVars, threadVars, sessionVars, pipeVars, cameraVars>>

\* The exception of a worker thread reaches run().
Broken ==
    /\ Main("broken")
    /\ EnterFinally
    /\ building' = None
    /\ UNCHANGED <<signalVars, local, sessionVars, flagVars, errors, cameraVars>>

\* self._pipeline = pipeline
Hold ==
    /\ Main("built")
    /\ pipeline' = building
    /\ task' = "holding"
    /\ UNCHANGED <<signalVars, threadVars, manager, peerVars, packetCb, hooks, pipeVars, cameraVars>>

\* on_error and self._manager are set; pipeline.start goes to a worker.
Manage ==
    /\ Main("holding")
    /\ manager' = building
    /\ task' = "starting"
    /\ UNCHANGED <<signalVars, threadVars, pipeline, peerVars, packetCb, hooks, pipeVars, cameraVars>>

\* Nothing else holds p's cameras and they are plugged in.
CanPlay(p) ==
    /\ cams[p] \subseteq devices
    /\ \A q \in Pipelines \ {p} : q \in up => cams[q] \cap cams[p] = {}

\* GStreamerPipe.start(), in a worker: PLAYING reached or not.  On a pipeline
\* already released it raises; one already stopped it starts again.
StartPlay ==
    /\ task = "starting"
    /\ \/ /\ building \in released
          /\ task' = "broken"
          /\ UNCHANGED up
       \/ /\ building \notin released
          /\ CanPlay(building)
          /\ up' = up \cup {building}
          /\ task' = "started"
       \/ /\ building \notin released
          /\ up' \in {up, up \cup {building}}
          /\ task' = "unstarted"
    /\ UNCHANGED <<signalVars, threadVars, sessionVars, building, stopped, releasing, released,
                   errors, cameraVars>>

\* start() returned False: pipeline.stop(), a no-op if it was stopped before.
StopUnstarted ==
    /\ Main("unstarted")
    /\ up' = up \ ({building} \ stopped)
    /\ stopped' = stopped \cup {building}
    /\ task' = "abandon"
    /\ UNCHANGED <<signalVars, threadVars, sessionVars, building, releasing, released, errors,
                   cameraVars>>

\* ... self._pipeline = None
Abandon ==
    /\ Main("abandon")
    /\ pipeline' = None
    /\ task' = "forgetting"
    /\ UNCHANGED <<signalVars, threadVars, manager, peerVars, packetCb, hooks, pipeVars, cameraVars>>

\* ... self._manager = None
Forget ==
    /\ Main("forgetting")
    /\ manager' = None
    /\ task' = "uncaching"
    /\ UNCHANGED <<signalVars, threadVars, pipeline, peerVars, packetCb, hooks, pipeVars, cameraVars>>

\* ... and the camera cache is cleared; the handler returns.
Uncache ==
    /\ Main("uncaching")
    /\ cache' = {}
    /\ building' = None
    /\ task' = "listen"
    /\ UNCHANGED <<signalVars, threadVars, sessionVars, flagVars, errors, devices, cams, scanned,
                   known, moved>>

-----------------------------------------------------------------------------
(* start_session and what follows it, one action per statement that shares *)
(* state with _teardown: the loop does not await, but threads do not wait. *)

\* An exception leaves _handle_connect: run()'s finally clause.
HandlerFails ==
    /\ EnterFinally
    /\ building' = None

\* self._manager.start_session(): the peer.  Without a manager it raises.
MakePeer ==
    /\ Main("started")
    /\ \/ /\ manager # None
          /\ peer' = peer \cup {manager}
          /\ task' = "peered"
          /\ UNCHANGED <<pc, building>>
       \/ /\ manager = None
          /\ HandlerFails
          /\ UNCHANGED peer
    /\ UNCHANGED <<signalVars, local, pipeline, manager, channels, listening, packetCb, hooks,
                   flagVars, errors, cameraVars>>

\* self._channels = DataChannelHub(...); webrtcbin may refuse a channel.
MakeChannels ==
    /\ Main("peered")
    /\ \/ /\ channels' = channels \cup {building}
          /\ task' = "opened"
          /\ UNCHANGED <<pc, building>>
       \/ /\ HandlerFails
          /\ UNCHANGED channels
    /\ UNCHANGED <<signalVars, local, pipeline, manager, peer, listening, packetCb, hooks, flagVars,
                   errors, cameraVars>>

\* _wire_channels: without channels it does nothing; the argument of
\* set_packet_callback, a method of the packet channel, is evaluated.  A thread
\* that took the channels did so before that test, or after it: None.packet.
Bind ==
    /\ Main("opened")
    /\ \/ /\ task' = IF building \in channels THEN "bound" ELSE "skipped"
          /\ UNCHANGED <<pc, building>>
       \/ /\ building \notin channels
          /\ HandlerFails
    /\ UNCHANGED <<signalVars, local, sessionVars, flagVars, errors, cameraVars>>

\* FCService.set_packet_callback stores it.
Wire ==
    /\ Main("bound")
    /\ packetCb' = building
    /\ task' = "wired"
    /\ UNCHANGED <<signalVars, threadVars, pipeline, manager, peerVars, hooks, pipeVars, cameraVars>>

\* The handlers of the packet and the config channel, then the pumps.
Attach ==
    /\ Main("wired")
    /\ \/ /\ building \in channels
          /\ task' = "listening"
          /\ UNCHANGED <<pc, building>>
       \/ /\ building \notin channels
          /\ HandlerFails
    /\ UNCHANGED <<signalVars, local, sessionVars, flagVars, errors, cameraVars>>

\* if self._manager.channels is not None: config.on_message is set, if manager
\* and channels are still there.
Listen ==
    /\ Main("listening") \/ Main("skipped")
    /\ \/ /\ manager # None
          /\ listening' = listening \cup ({building} \cap channels)
          /\ task' = "hook"
          /\ UNCHANGED <<pc, building>>
       \/ /\ manager = None \/ (task = "listening" /\ building \notin channels)
          /\ HandlerFails
          /\ UNCHANGED listening
    /\ UNCHANGED <<signalVars, local, pipeline, manager, peer, channels, packetCb, hooks, flagVars,
                   errors, cameraVars>>

\* set_change_callback, set_telemetry_callback
Hook ==
    /\ Main("hook")
    /\ hooks' = TRUE
    /\ task' = "watch"
    /\ UNCHANGED <<signalVars, threadVars, pipeline, manager, peerVars, packetCb, pipeVars, cameraVars>>

\* Mutant: the baseline is what is plugged in now, not what the pipeline uses.
MutantBaselineNow ==
    /\ Main("watch")
    /\ known' = devices
    /\ building' = None
    /\ task' = "listen"
    /\ UNCHANGED <<signalVars, threadVars, sessionVars, flagVars, errors, devices, cams, cache,
                   scanned, moved>>

\* watcher.start(initial_ids): ignored while the watcher runs.  The handler returns.
Watch ==
    /\ Main("watch")
    /\ known' = IF known = None THEN cams[building] ELSE known
    /\ building' = None
    /\ task' = "listen"
    /\ UNCHANGED <<signalVars, threadVars, sessionVars, flagVars, errors,
                   devices, cams, cache, scanned, moved>>

-----------------------------------------------------------------------------
(* Camera changes, pipeline errors, config-channel messages.               *)

\* A device is plugged in or pulled out.
Hotplug ==
    /\ ~Steady
    /\ devices' \in SUBSET Devices \ {devices}
    /\ moved' = TRUE
    /\ UNCHANGED <<runVars, threadVars, sessionVars, pipeVars, cams, cache, scanned, known>>

\* CameraWatcher._tick finds other devices than before: _on_cameras_changed.
Tick ==
    /\ LoopFree
    /\ known # None
    /\ devices # known
    /\ known' = devices
    /\ cache' = {}
    /\ \/ /\ manager = None
          /\ UNCHANGED <<callback, pc>>
       \/ /\ manager # None
          /\ callback' = "watch"
          /\ Goto(Loop, "watcher")
    /\ UNCHANGED <<task, stop_event, closer, conn, local, sessionVars, pipeVars, devices, cams,
                   scanned, moved>>

\* An ERROR on the bus of a pipeline whose watch is installed queues on_error.
PipelineErrs(p) ==
    /\ BusThreads # {}
    /\ p \notin stopped
    /\ p \in up \/ (p = building /\ task = "unstarted")
    /\ errors' = errors \cup {p}
    /\ UNCHANGED <<runVars, threadVars, sessionVars, building, flagVars, cameraVars>>

\* _on_pipeline_error, whichever pipeline queued it.
OnPipelineError(t, p) ==
    /\ At(t, "idle")
    /\ p \in errors
    /\ errors' = errors \ {p}
    /\ cache' = {}
    /\ IF manager = None THEN UNCHANGED pc ELSE Goto(t, "watcher")
    /\ UNCHANGED <<runVars, local, sessionVars, building, flagVars, devices, cams, scanned, known, moved>>

\* A config channel delivers while it has its handler and its pipeline is up.
ChannelOpen(p) == p \in listening \cap up

\* params with a changed index: the session ends if there is a pipeline.
OnParams(t, p) ==
    /\ At(t, "idle")
    /\ ChannelOpen(p)
    /\ pipeline # None
    /\ Goto(t, "watcher")
    /\ UNCHANGED <<runVars, local, sessionVars, pipeVars, cameraVars>>

\* calibrate: the cameras are the pipeline's or get_cameras(), which scans with
\* a cold cache; then the saved calibrations and the cache go.
OnCalibrate(t, p) ==
    /\ At(t, "idle")
    /\ ChannelOpen(p)
    /\ \/ /\ pipeline # None \/ cache # {}
          /\ cache' = {}
          /\ IF manager = None THEN UNCHANGED pc ELSE Goto(t, "watcher")
          /\ UNCHANGED <<scanned, moved>>
       \/ /\ pipeline = None /\ cache = {}
          /\ Scan(t)
          /\ Goto(t, "scan")
          /\ UNCHANGED cache
    /\ UNCHANGED <<runVars, local, sessionVars, pipeVars, devices, cams, known>>

\* Its scan returns ...
CalibrateScanned(t) ==
    /\ At(t, "scan")
    /\ Scanned(t)
    /\ Goto(t, "scanned")
    /\ UNCHANGED <<runVars, local, sessionVars, pipeVars, devices, cams, known, moved>>

\* ... what it saved and cached goes, and the session ends if there is one.
CalibrateClears(t) ==
    /\ At(t, "scanned")
    /\ cache' = {}
    /\ Goto(t, IF manager = None THEN "idle" ELSE "watcher")
    /\ UNCHANGED <<runVars, local, sessionVars, pipeVars, devices, cams, scanned, known, moved>>

\* run() has returned or raised: the process is ending.
Terminated == task \in Ended /\ UNCHANGED vars

-----------------------------------------------------------------------------
\* What the workers and the loop do by themselves, with no message or event.
Worker == FactoryCached \/ FactoryScan \/ FactoryScanned \/ FactoryEmpty \/ FactoryRaises \/ StartPlay

Connect == ConnectOk \/ ConnectFails

MainStep ==
    \/ Connect \/ Wake \/ Closed \/ MainReturns \/ MainRaises
    \/ Refuse \/ Broken \/ Hold \/ Manage \/ StopUnstarted \/ Abandon \/ Forget \/ Uncache
    \/ MakePeer \/ MakeChannels \/ Bind \/ Wire \/ Attach \/ Listen \/ Hook \/ Watch

Message == HandleDisconnect \/ HandleConnect \/ HandlerRaises

Foreign ==
    \/ \E t \in BusThreads, p \in Pipelines : OnPipelineError(t, p)
    \/ \E t \in ChannelThreads, p \in Pipelines : OnParams(t, p) \/ OnCalibrate(t, p)
    \/ \E t \in ChannelThreads : CalibrateScanned(t) \/ CalibrateClears(t)

Environment == Stop \/ ConnectionLost \/ Hotplug \/ \E p \in Pipelines : PipelineErrs(p)

Next ==
    \/ \E t \in Threads : Teardown(t)
    \/ \E p \in Pipelines : Release(p)
    \/ Worker \/ MainStep \/ CallbackReturns \/ ListenEnds \/ CloserRuns \/ CloserDone \/ Tick
    \/ Message \/ Foreign \/ Environment \/ Terminated

Spec == Init /\ [][Next]_vars

\* The loop's ready queue is first in, first out, and no callback runs forever:
\* what stays possible between other callbacks is done (SF); a thread and a
\* worker go on (WF).  Messages, signals, hotplug and errors need not happen.
Fairness ==
    /\ \A t \in Threads : WF_vars(Teardown(t))
    /\ WF_vars(\E p \in Pipelines : Release(p))
    /\ WF_vars(Worker)
    /\ WF_vars(CallbackReturns)
    /\ SF_vars(MainStep)
    /\ SF_vars(ListenEnds)
    /\ SF_vars(CloserRuns \/ CloserDone)
    /\ SF_vars(Tick)

FairSpec == Spec /\ Fairness

-----------------------------------------------------------------------------
(* Properties.                                                             *)

\* No session: nothing is left wired.
Off ==
    /\ pipeline = None
    /\ manager = None
    /\ known = None
    /\ packetCb = None
    /\ ~hooks
    /\ peer = {} /\ channels = {} /\ listening = {}

\* A session of p: everything belongs to it and nothing to another.
On(p) ==
    /\ pipeline = p
    /\ manager = p
    /\ packetCb = p
    /\ hooks
    /\ known = cams[p]
    /\ peer = {p} /\ channels = {p} /\ listening = {p}

\* A pipeline of a session that has not begun.
Beginning ==
    /\ pipeline = building
    /\ manager = building
    /\ known = None
    /\ packetCb = None
    /\ ~hooks
    /\ peer = {} /\ channels = {} /\ listening = {}

\* Whenever the loop is free to run a callback, the pipeline, the manager, the
\* camera watcher and the flight controller's callbacks agree: there is no
\* session, one that is starting, or one that owns all of them (_teardown and
\* _handle_connect set them one by one, and stop() and the watcher come
\* between a handler's awaits).
SessionConsistent ==
    LoopFree =>
        \/ Off
        \/ task \in Starting /\ Beginning
        \/ task = "listen" /\ \E p \in Pipelines : On(p)

\* The registry calibrates, for the factory or for an operator.
Scanning == task = "scanning" \/ \E t \in Threads : At(t, "scan")

\* Two pipelines never hold the same camera, and the registry does not
\* calibrate while a pipeline holds one: the comment at coordinator.py:85-87
\* that stop() frees the camera before the next pipeline is built.  (After a
\* stop() during start() the process is going down.)
CameraExclusive ==
    ~stop_event =>
        /\ \A p, q \in Pipelines :
              p # q /\ {p, q} \subseteq up => cams[p] \cap cams[q] = {}
        /\ Scanning => up = {}

\* No exception escapes run(): _teardown never fails in its finally clause.
NeverCrashes == task # "crashed"

\* When run() returns nothing is wired and the connection is closed; the only
\* pipeline that can still be up is one that start() revived after its stop().
ShutdownClean ==
    task = "done" =>
        /\ Off
        /\ conn = "none"
        /\ up \subseteq stopped

\* The flight controller's packets go to no channel that end_session has closed:
\* what tests/test_webrtc/test_manager_fc.py:107-115 expects of a session that
\* ended.  Not so when another thread ends it while start_session wires it.
PacketToLiveSession == packetCb # None => packetCb \in channels

\* Whatever the threads do, the pipeline the coordinator holds, on which a
\* bitrate message acts, was not stopped; only a failed start stops it first.
CurrentNotStopped ==
    pipeline # None /\ task # "abandon" => pipeline \notin stopped

\* The board as the lender of the cameras and of the flight controller: what
\* _handle_connect and _teardown do statement by statement keeps the abstract
\* protocol, in which no one gets the cameras before they are given back and no
\* session talks to the flight controller without them.
Lending == INSTANCE Lease WITH
    holders  <- up,
    scanning <- Scanning,
    talk     <- packetCb,
    leaving  <- stop_event

LeaseKept == Lending!Spec

\* The watcher, which watcher.py:1 says detects cameras plugged in or pulled out,
\* ends a session only if a device came or went since the cameras
\* were enumerated: it detects hotplug.  Not so with a device that cannot be
\* calibrated: the baseline lacks it, the poll sees it.
TeardownMeansHotplug ==
    [][callback = "none" /\ callback' = "watch" => moved]_vars

\* A session whose cameras are no longer the devices plugged in is ended,
\* unless they come back.
CameraChangeNoticed ==
    \A p \in Pipelines :
        (pipeline = p /\ known # None /\ devices # cams[p])
            ~> (pipeline # p \/ devices = cams[p])

\* A stop() that finds a connection makes run() return.
StopTerminates == (closer = "pending" /\ conn # "none") ~> (task = "done")

\* What __main__.py:90-92 says of the signals: stop() ends run().
StopHonoured == stop_event ~> (task = "done")

\* A lost connection is retried until the board is told to stop.
Reconnects == (conn = "lost") ~> (task = "connecting" \/ stop_event)
==============================================================================
