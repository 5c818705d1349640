# MavixBoard: a TLA+ model of the on-board program

MavixBoard is the program a drone carries: it streams its cameras to an operator
over WebRTC, forwards the operator's control packets to the flight controller
over a serial port and the controller's telemetry back. This directory holds TLA+
models of its session life cycle, its flight-controller link, the two directions
of its data path, its WebRTC negotiation and what it keeps on disk, the TLC
instances that check them, and machine-checked proofs.

Paths below are relative to `src/src/mavixboard/` of the repository.

## 1. Inventory

| Component | State it keeps | Operations | Talks to |
|---|---|---|---|
| `SessionCoordinator` (`coordinator.py`) | `_pipeline`, `_manager`, `_stop_event`, `_last_telemetry` | `run`, `stop`, `_teardown`, `_handle_connect`, `_handle_sdp/_ice`, config messages, camera and pipeline events, telemetry | everything below |
| `SignalClient` (`server/signal_client.py`) | `_conn` | `connect`, `disconnect`, `listen`, `send` | the signalling server (websocket) |
| `GStreamerPipe` (`gstreamer/gstreamer.py`) | `pipeline`, `webrtc_elem`, `_stopped`, `on_error` | construction, `start`, `stop`, `update_bitrate`, bus watch | cameras; GLib thread |
| `CameraWatcher` (`gstreamer/watcher.py`) | `_task`, `_known_ids`, `_callback` | `start`, `stop`, `_tick` | coordinator |
| `CameraRegistry`, `CameraCalibrator` (`gstreamer/camera.py`) | `_cached_cams`, JSON files | `get_cameras`, `clear_cache`, `_scan`, `calibrate` | v4l2; worker threads |
| `WebRTCManager` (`webrtc/manager.py`) | `_peer`, `_channels`, the pump tasks | `start_session`, `end_session`, `handle_sdp/_ice`, `_pump_ice`, `_pump_offer`, fc info | peer, channels, FC service, signalling |
| `PeerSession` (`webrtc/peer.py`) | `offer_sdp`, `ice_candidates`, signal handlers | negotiation, offer, candidate callbacks, `apply_answer`, `close` | webrtcbin's threads |
| `DataChannelHub` (`webrtc/channels.py`) | per channel `_open` and callbacks | packet, ping, config, telemetry | webrtcbin's and GLib's threads |
| `FCService` (`fc/service.py`) | `_controller`, callbacks, `_stop_event` | `start`, `stop`, `_scan_loop`, `_activate/_teardown_controller`, `send` | detection, controllers |
| `MavlinkController`, `CrsfController` (`fc/controllers.py`) | connection, tasks, `_closed`, RC cache | `start`, `close`, `send`, read loops, RC repeater, link statistics | serial port |
| detection (`fc/detect.py`) | none | `detect` and its probes | serial ports |
| CRSF codec (`fc/crsf.py`), MAVLink decoding and throttle (`fc/mavlink.py`) | a buffer and counters of their caller | `parse_frames`, `decode_*`, `should_throttle_msg` | the read loops |
| enrolment (`server/enroll.py`, `core/config.py`) | the env file | `ensure_enrolled`, `persist_identity` | the server (HTTP), before everything else |
| backoff, GLib thread, launch-line builder, other settings, logging | (sequential or stateless) | | |

**What interacts how.** Three kinds of threads run this code. The asyncio loop
runs `run()`, the message handlers, the watcher's tick, the FC tasks, the pumps
and the signal handler's `stop()`; these interleave only at `await`. The GLib
main-loop thread runs bus watches and `idle_add` callbacks, among them
`_on_pipeline_error`. The webrtcbin threads run the peer's handlers and deliver
data-channel messages, so `_on_config_message` runs there. The last two call
`_teardown` directly, with no lock, while the loop may be anywhere.

**What is hard**: `_teardown` on another thread than the loop's; state read
before `await asyncio.to_thread(...)` and used after it; `stop()` at any await;
queued callbacks that outlive the object they are about; cancellation swallowed
inside `close()`; the races of webrtcbin's callbacks with the pumps; losses of the
cable, the connection and the cameras at any point; files truncated before they
are written, and read or abandoned in between. `PROJECT.json` lists each
hazard at its line with the properties aimed at it.

**What makes each part correct**

- Coordinator: pipeline, manager, watcher and callbacks agree at every await; no
  two pipelines hold a camera; no exception escapes `run()`; a stop ends it, a lost
  connection is retried; sessions are built on pipelines that play.
- FC service: one controller uses the port at a time; its packets and telemetry go
  to the session that is on; the operator is told which controller there is; a loss is
  noticed, a controller that stays is used, `stop()` returns and leaves nothing.
- Packet path: the repeater falls silent in time; no frame goes back in what the
  operator sent; packets of an operator who is gone stay out.
- Telemetry: where a read cuts the line costs no frame, and intact frames are found
  behind noise that announces none; the positions sent never go back and are never
  0, 0; what the operator was told of arming is true; the throttle starves nothing.
- Disk: one board stays one drone; an operator's choice for a camera lasts; a
  calibration that was asked for is done.
- Negotiation: offers and candidates of a session reach its station, in order,
  only while it lasts; the answer to a session's offer is applied.

## 2. The modules

### `Coordinator` (+ `CoordinatorProofs`, `MCCoordinator`)

`run()` is the variable `task` (one label per await, one per synchronous stretch
that another thread can split); `pc[t]` and `local[t]` are the position and the local
variable of `_teardown` in thread `t`. What another thread can come between is a step
of its own: `_teardown` with `end_session` (packet callback, the channels' test, their
handlers, their closing, the peer) and `GStreamerPipe.stop` (the flag; the wait for
NULL), and on the loop the tail of `_handle_connect` with `start_session`, from the
assignment of `_pipeline` to the start of the watcher. A manager is named by the
pipeline it was made for: `pipeline`, `manager`, `peer`, `channels`, `listening`,
`packetCb` and `building` say which one is where, so that halves of two sessions can
be told apart.

| Code | Actions |
|---|---|
| `run` | `ConnectOk/Fails`, `Wake`, `ListenEnds`, `MainReturns`, `MainRaises`, `Closed` |
| `stop`, the task it makes | `Stop`, `CallbackReturns`, `CloserRuns`, `CloserDone` |
| `_handle_connect` | `HandleConnect`, `Factory*`, `Refuse`, `Broken`, `Hold`, `Manage`, `StartPlay`, `StopUnstarted`, `Abandon`, `Forget`, `Uncache` (a start that failed), `Hook`, `Watch` |
| `start_session` | `MakePeer`, `MakeChannels`, `Bind`, `Wire`, `Attach`, `Listen` |
| `_teardown`, `end_session`, `GStreamerPipe.stop` | `TeardownWatcher`, `TeardownManager`, `TeardownSession`, `TeardownUnwire`, `TeardownTest/Deaf/Close`, `TeardownPeer`, `TeardownForget`, `TeardownTake/Drop/Stop/Free/Release`, `TeardownHooks` |
| other messages, and handlers that raise | `HandleDisconnect`, `HandlerRaises` |
| `CameraWatcher._tick` + `_on_cameras_changed` | `Tick` |
| the `pipeline-release` thread that `_teardown` starts | `Release` |
| bus ERROR, `_on_pipeline_error` | `PipelineErrs`, `OnPipelineError` |
| params, calibrate (which may scan) | `OnParams`, `OnCalibrate`, `CalibrateScanned`, `CalibrateClears` |
| the world | `Hotplug`, `ConnectionLost` |

Worker-thread calls (`pipeline_factory`, `start`) are steps that may fall between
any steps of the loop. `Fresh` reuses the identity of a pipeline nothing refers to,
so the runs have no bound on the number of sessions. `moved` is a history variable:
a device changed since the registry last scanned.

Abstractions: the set of devices stands for ids and formats; a poll of the watcher
reads it at the instant it compares; the JSON calibrations only decide which
devices calibrate (`Uncalibrated`); `disconnect_session` and `pong` messages change
no modelled state; an exception in a GLib or webrtcbin callback is logged by its
caller, one on the loop ends the handler and, with it, `listen()`.

### `FCService` (+ `FCServiceProofs`, `MCFCService`)

What a task of the loop does between two awaits is one action, except where another
thread can come between: `_activate_controller` copies the callbacks
(`DetectFound`), starts the controller (`ActivateStart`) and takes the slot
(`ActivateHold`). `pc` has the scan loop's task and the main task (which calls `start`
and `stop`); `ctrl[t]` is the controller whose `close()` that task is inside: `drain`
awaits the cancelled read task, `shut` the closing of the connection. `slot` is
`_controller`; per controller there are its kind, connection, reader, `_closed`,
consecutive errors and two callbacks. `Stop` cancels the scan loop where it awaits:
it ends there, except in `drain`, where `close()` takes the CancelledError for that
of the task it awaits (`controllers.py:95-100`, `298-304`) and goes on.

Sessions appear as what they do to the service: `OpenSession` and `EndSession` on the
loop; a teardown on another thread statement by statement (`EndPacket`, then `EndTest`
... `EndRehand`: it tests the slot, then hands the callback's removal on);
`_send_config_open` on its webrtcbin thread (`ChannelOpen`, `OpenTest`, `OpenRunning`,
`OpenKind`, `OpenSend`: it reads the service, then queues its message). `shown` is the
last `fc` message on an open config channel; `overtaken` is history: the message of
`on_open` was read before one of the loop's that was queued first. `Elsewhere`
(constant) is the set of cases an instance covers, each the set of things done on
other threads; `elsewhere` is the case of a behaviour. (A run has the two kinds of
thread in turn; the proofs of `OneController` and `StopLeavesNothing` allow both at
once.)

Abstractions: the three tasks of the CRSF controller are cancelled one after the
other and count as one; `serial_asyncio.open_serial_connection` does not yield, so
CRSF `start()` has no step between its own statements; a session begins in one step
here (`Coordinator` splits that); a receive thread that outlives its
cancelled task by up to 0.1 s, and what a probe thread opens after its detection was
cancelled, are not followed; `plugged` may flip at any time; a probe finds a
controller or not while one is attached, and none otherwise.

### `Negotiation` (+ `NegotiationProofs`, `MCNegotiation`)

One `PeerSession` after another. webrtcbin's callbacks are split where the loop can
see the difference: an offer becomes the local description (`OfferDescribed`) before
the pump can see it (`OfferCreated`); a candidate is emitted, then posted to the loop
(`CandidatePosted`), then queued (`Put`). A callback that has begun goes on after
`close()`. A pump sends in one step (`IceTake`, `OfferPoll`: the websocket has the
message) and resumes in another (`IceSent`, `OfferSent`). Offers and candidates are
numbers in the order webrtcbin made them. `iceOut` and `offersOut` are what a
session's station was sent. A station may come back for another session
(`StartSession` takes any `gcs_id`), and its answers are only told apart by what
`_guard` compares.

### `Lease`: the abstract specification of `Coordinator`

Four variables: which pipelines hold cameras, whether the registry calibrates,
which session the flight controller's packets go to, whether the board was told to
stop. Nobody gets the cameras before they are given back, a session talks to the
flight controller only while it holds them, and gives the flight controller back
first. `Coordinator` instantiates it (`Lending`: `holders <- up`,
`talk <- packetCb`, ...) and `coord_loop` checks `LeaseKept == Lending!Spec`: on one
thread the statements of `_handle_connect` and `_teardown` refine it. The one
exception the abstract specification states is the code's own: after `stop()` a
`start()` under way may bring its pipeline up once more.

### `Relay` (+ `RelayProofs`, `MCRelay`)

The operator's packets: the packet channel's handler on the webrtcbin thread of each
session (`Receive`, `Call`: it reads `on_packet` twice; `Forward`:
`run_coroutine_threadsafe`), the queue of coroutines (`posted`), `FCService.send` on
the loop (`SendDropped`, `SendMavlink`, `SendRC`, `SendDirect`), the thread pool
(`Take`, `Write`: a FIFO queue and several workers), the RC repeater (`Expire`,
`Repeat`) and the clock (`Tick`). Controllers come and go (`Activate`, `Break`, `Drop`,
`Shut`); what `close()` does in detail is in `FCService`. Time is counted in ticks
of which `Timeout` make `RC_FRAME_TIMEOUT_SECONDS`; the repeater may run any number of
times between two. History variables: `quiet` (ticks since any RC frame came),
`echo` (the last frame repeated), `late`, `taken`.

Abstractions: a frame is RC or not, as the header test decides; a packet lost on its
way, or empty, changes nothing and is no step; the link-statistics frames are constant
and left out; a worker's write is one step after it took the packet.

### `Crsf`, `Telemetry` (+ `CrsfProofs`, `TelemetryProofs`, `MCTelemetry`)

`Crsf` has the frames, `parse_frames` as a recursive function on the buffer, and
`Decoded`; the checksum is a parameter. `Telemetry` puts bytes on the line (intact
frames, any noise, frames damaged in any byte), reads them in chunks cut anywhere
(`Read`), and makes of each stretch of the read loop a row of callbacks (`jobs`:
`Calls` of each frame) that run one by one, so that a teardown on another thread can
fall between any two. `hook` is the service's telemetry callback, `tail` a teardown
that has closed its session and has yet to clear it (`Unhook`), perhaps in the next
session. `clean` is history: no fault so far could be taken for the length of a frame.
For MAVLink each message id has its action (`RecvHeartbeat` ... `RecvOther`) with the
edge test of `_last_armed` and the throttle (`Count`, `Passes`). `OnGps`,
`OnAttitude`, `OnHeartbeat`, `OnNotice`, `OnSilent` are `_on_fc_telemetry` and
`_forward_telemetry`; `Emit` is GLib's idle queue.

| Code | Actions |
|---|---|
| `start_session`, `end_session`, the end of `_teardown`, channel states | `Begin`, `Unwire`, `Close`, `Unhook`, `Open`, `PeerLeaves` |
| `CrsfController._read_loop` | `Read` (with `parse_frames`, `Callbacks`) |
| `MavlinkController._read_loop` | `Recv*` |
| `_on_fc_telemetry`, `_forward_telemetry` | `OnGps`, `OnAttitude`, `OnHeartbeat`, `OnNotice`, `OnSilent`, `Unheard` |
| `send_bytes`, `send_json`, `_emit` | `Send`, `OnPacket`, `Emit` |
| the line, the flight controller | `Put*`, `Activate`, `Drop` |

Abstractions: fields are one byte each and a position is a number that grows as the
craft moves (0 stands for 0, 0); headings, altitudes and satellites ride along with
it; what the channel does with an emitted message is the operator's end (it is unordered
and does not retransmit, `channels.py:139-145`), so `emitted` says nothing of arrival;
`statustext` is decoded and told, and the coordinator has no case for it (its raw
message is still forwarded); `_open` may be set by a state change that arrives after
`close()` only on a channel nobody refers to any more; the ping channel echoes and is
left out. `counters` are kept modulo the ratio: only that decides.

### `Enroll`, `Cameras`, `Board` (+ `BoardProofs`, `CameraProofs`, `MCBoard`)

`Enroll` is `ensure_enrolled` with the env file and the server's count of identities:
the answer may be lost (`AnswerLost`), the name taken (`Conflict`), the write of the
file is two steps (`Truncate`, `Persist`), and `Die` may fall anywhere, leaving a
prefix of the file (`Prefixes`). `Cameras` is the registry (the two loops of
`get_cameras` as `Look*` and `Save*`, one step per device and file operation), the
JSON files per model (a save truncates, `SaveOpens`, `LookMoved`, `HandOpens`, and
writes, `SaveWrites`, `HandWrites`), the cache, the pipeline's camera objects (the
same objects as the cache's while `shared`), and the params, bitrate and calibrate
messages on a webrtcbin thread (`On*`, `Hand*`), which interleave with a scan of the
loop's worker. `Board` composes them: enrolment first, then cameras; `Crash` kills
both.

Abstractions: sessions begin and end as in `Coordinator`, here in one step each; a
message updates one camera, and one message is handled at a time; the list of
formats is its length; a probe of a camera that is plugged in may fail, one of a
camera that is gone does. `owed` and `asked` are history: the choice that was saved
for a camera, the calibration that was promised to it; a message that overlapped a
scan promises nothing (`clean`), for the code has no lock there (section 6).

### Composition

`Board` composes enrolment and cameras; `Telemetry` runs on top of `Crsf`. Otherwise a
module takes the steps of its neighbours as environment actions: `Coordinator` decides
when a session begins and ends, and `FCService`, `Negotiation`, `Relay`, `Telemetry`
and `Cameras` take those steps in any order the coordinator produces on one thread
and more; `FCService` decides when controllers come and go, and `Relay` and `Telemetry`
take that from it. `_teardown` from other threads is studied statement by statement in
`Coordinator`; `FCService` has the statements that touch the service, `Telemetry` and
`Relay` see it as the end of a session (`Unwire`, `Close`, `Unhook`) falling between any
two of their own steps.

## 3. What is checked

| Run | Instance | Question and result |
|---|---|---|
| `coord_loop` | 2 pipelines, 2 devices of which one does not calibrate, no foreign thread, fair | The session's parts agree, cameras and flight controller are lent as `Lease` says, changes are noticed, lost connections retried, `stop()` ends `run()` and leaves nothing. |
| `coord_threads` | 2 pipelines, 1 device, 1 foreign thread that runs both kinds of callbacks; no signals or hotplug (`Steady`) | What survives any interleaving: the held pipeline was not stopped. |
| `coord_camera` | as above | **Violation** of `CameraExclusive` (section 6). |
| `coord_stop` | 1 pipeline, fair | **Violation** of `StopHonoured`. |
| `fc_stop` | 2 controllers, both protocols, 2 sessions, threshold 3, ports that may fail to open, fair; either another thread may end sessions, or one is in `on_open` | One controller at a time, a loss is noticed, a controller that stays is used while the scan loop runs, and `stop()` returns wherever it catches it and leaves nothing. Where sessions end on the loop, a controller feeds the session there is, and the operator is told of the right controller and of a loss, unless `on_open` is overtaken. |
| `fc_leak`, `fc_dead` | 1 session, threshold 2; `fc_dead` with ports that may fail to open | **Violations** of `LinkReleased`, `ReconnectsFC`. |
| `neg_pumps` | 2 sessions of 1 station, 2 offers, 2 candidates, fair | Order and silence hold; offers and candidates go out while the session lasts; an answer to an offer of the live session reaches its webrtcbin. |
| `neg_offer` | 1 session, 2 offers, fair | **Violation** of `EveryChangeGoesOut`. |
| `relay_rc` | 2 sessions, 4 packets, 2 controllers of both protocols, 2 workers, timeout of 2 ticks | The repeater falls silent in time, order and the end of a session are kept as far as the threads allow. |
| `tel_down` | both protocols, 2 positions, 2 frames or faults per controller, at most 1 fault, noise bytes that are an address or a length, lengths up to 4, reads of up to 3 bytes, ratio 2 | Positions advance, arming is told truthfully, nothing starves, through overtaken teardowns and changes of controllers; no cut costs a frame; on clean lines intact frames are found. |
| `board_disk` | 2 registrations, 1 death, 2 cameras of one model on 2 nodes, 2 formats, 1 calibration, 2 moves of cables | One identity; the operator's choice survives; a calibration asked for is done. |

The properties (each is commented where it is defined):

- `Coordinator`: `SessionConsistent` (the parts of a session agree whenever the
  loop is free), `NeverCrashes`, `ShutdownClean`, `LeaseKept` (refinement),
  `CameraChangeNoticed`, `StopTerminates`, `Reconnects` (liveness), on one thread;
  `CurrentNotStopped` on all. Refuted by a run: `CameraExclusive`, `StopHonoured`; by
  other instances (section 6): `PacketToLiveSession`, `TeardownMeansHotplug`. On one
  thread `LeaseKept` implies `CameraExclusive`.
- `FCService`: `OneController`, `StopLeavesNothing`, `StopReturns`,
  `ReconnectsWhileScanning`, `LossNoticed`, `LossTold`; `FeedsTheSession` and
  `ShownUnlessOvertaken` where sessions end on the loop (`EndsOnLoop`). Refuted by a
  run: `LinkReleased`, `ReconnectsFC`; by other instances (section 6): `ShownTruthful`,
  `TelemetryPassedOn`.
- `Negotiation`: `OffersInOrder`, `CandidatesInOrder`, `SilentOutsideSession` (of
  sessions that end on the loop), `PumpsDeliver`, `AnswersApplied`. Refuted:
  `EveryChangeGoesOut`.
- `Relay`: `FailSafe`, `RcNeverBack` (action property), `CutOff`, and `BoundedReorder`,
  which bounds how many older packets are pending when one is written, not how long
  one of them may stay with a slow worker.
- `Telemetry`: `CutsCostNothing`, `PositionsAdvance` (action properties),
  `FramesSurvive`, `ArmedTruthful`, `NoStarvation` (of the ids the throttle counts: ids
  from `MAX_MSG_ID` on never pass). Refuted by another instance (section 6):
  `EveryDecodedHeard`.
- `Board`: `OneIdentity` (with `RegistersOnce` and `OwnToken`, in `Enroll`),
  `ChoiceSurvives`, `CalibrateHonoured` (action properties). `ChoiceSurvives` forgives a
  file torn by a death, by the message's own save or a later scan's, and choices and
  calibrations that overlap a scan.

Every property of a passing run has a mutant of the code (`Mutant*`, beside the
definition it changes) that breaks it.

**Bounds and why they are enough.** Pipelines and controllers are recycled, so
sessions and losses go on for ever; two pipelines are the ones that can overlap (the
one held and the one being built or torn down: a third teardown finds nothing to
take). One device decides whether two pipelines clash. One foreign thread meets the
loop in every pair of statements. `Steady` drops signals and hotplug from the threads'
run, whose question they do not change and whose size they multiply; the proof of
`CurrentNotStopped` has no such bound. Two devices in `coord_loop`: one that decides
whether pipelines clash, and one that only the watcher sees. The code's threshold is
5: `fc_stop` takes 3, the least with errors that neither begin nor end a row, for the
count only matters where it is 0 or reaches the threshold and the proofs have any; 2
keeps the counterexamples short. Offers and candidates are bounded in total
(`MaxOffers`, `MaxCands`), as is the mail under way (`MaxInbox`): two are needed for
an order, one per session for a mix-up. `CHECK_DEADLOCK FALSE` in the negotiation
runs: with the bounds used up nothing is left to do. A station that returns may have
an answer to its previous session applied to the next, because `_guard` compares only
`gcs_id`. No document of the repository promises more and nothing in the message tells
them apart, so it is listed as a hazard without a property; `AnswersApplied` says that
the right answer is applied too.

`relay_rc`: four packets (`MaxSent`) over two sessions (`MaxSessions`) let two frames of
one operator meet another kind of packet and the next operator's; two workers show
every overtaking that `BoundedReorder` speaks of (it is proved for any number).
In `tel_down` frames of up to `MaxLen` 4 leave room for a false length (`Garbage` 4)
before, between, behind or inside two frames (`MaxFrames`), and reads of up to 3 bytes
(`Chunk`) end in every place. `MaxFaults` 1: two faults in a row are one longer
fault for the parser; the proofs have no bound. Two positions (`MaxFixes`) are needed
for one to fall back behind another. `MaxQueue` only bounds how far GLib
falls behind. `board_disk`: `MaxEpoch`, `MaxMoves` and `MaxCrashes` leave room for one
calibration, a camera that changes its port or two that come one after the other, and
one death; with two registrations (`MaxRegistered`) an identity can be hidden and
another one issued. Its `CHECK_DEADLOCK FALSE`: a board without credentials and
identity stops for good.

Under foreign threads (and `ShutdownClean`: with signals) `SessionConsistent`,
`ShutdownClean`, `LeaseKept` and `NeverCrashes` fail: one root, `_teardown` has no
lock, which `coord_camera` shows where it contradicts a comment.

**Fairness.** The asyncio ready queue is first in, first out and no callback runs for
ever, so a task or callback that stays ready between others runs: strong fairness for
the main task, the watcher's tick and the closing task in `Coordinator` (their steps
are disabled while another callback runs), weak where nothing else can disable the
step. A started thread goes on (weak). In `FCService`, a read from a detached device
fails (weak), and detection of an attached controller succeeds if tried again and
again (strong): its heartbeat comes every second, the probe waits three. In
`Negotiation` a webrtcbin callback that has begun goes on, as do the pumps and the
handling of a message (weak). Messages, signals, hotplug, cables, sessions, offers,
candidates, frames and deaths owe nothing; `Relay`, `Telemetry` and `Board` state no
fairness.

## 4. What is proved

TLAPS proves, for every value of the constants under the named assumptions of the
modules (`CoordinatorAssumption`, `FCServiceAssumption`, `NegotiationAssumption`,
`RelayAssumption`, `TelemetryAssumption`, `CrcAssumption`, `EnrollAssumption`,
`CamerasAssumption`: the values differ from `None`, the loop is not one of the other
threads, bounds are naturals, threshold, timeout and ratio are positive, the pool is
finite, the formats of a camera are numbered from 0, a CRSF length may be 3 or more,
the controller's address cannot be taken for a length, and a checksum is a natural, any
one; noise is any):

| Theorem | Says | Argument |
|---|---|---|
| `CoordinatorProofs!TypeCorrect` | `Spec => []TypeOK` | inductive; the two last conjuncts say where local variables are set |
| `HeldPipelineNotStopped` | `[]CurrentNotStopped` for any threads | `HeldInv`: a thread past `drop` works on a pipeline the coordinator no longer holds, and one just built is nobody's yet |
| `LoopKeepsSessionConsistent`, `LoopNeverCrashes` | with no foreign thread, `[]SessionConsistent`, `[]NeverCrashes` | callbacks of the loop exclude each other (lemma `OneCallbackAtATime`); `WireInv`: what is wired at each point of the main task (`RestInv`), what each statement of `_teardown` has undone (`StageInv`), and that `start()` never meets a released pipeline that is still the session's (`UnreleasedInv`) |
| `BoardKeepsLease`, `CamerasExclusiveOnLoop` | with no foreign thread, `LeaseKept` (each step is one of `Lease` or a stutter: `LeaseStep`) and with it `[]CameraExclusive` | `HoldInv`: until a stop only the session's pipeline, or the one `_teardown` is stopping, holds cameras (`HolderInv`); what it stops still has its elements (`ElementsInv`). `LeasePromise` uses nothing but `Lease` |
| `StopLeavesNothingOn` | with no foreign thread, `[]ShutdownClean` | `HoldInv`: every pipeline that plays was stopped or is found by a `_teardown` to come (`StopInv`) |
| `FCInvariant`, `FCTypeCorrect` | `[]FCInv` | `TaskInv` (which task is inside `close()` with which controller), `ReaderInv` (only the slot's controller reads), `LinkInv` (what became of the connections) |
| `OneControllerAtATime`, `StopIsComplete` | `[]OneController`, `[]StopLeavesNothing` | from `FCInv` |
| `PacketsFeedTheSession` | `[]FeedsTheSession`, whose antecedent is that sessions end on the loop (`EndsOnLoop`) | between the copy of the callbacks and the slot only the loop writes them, and `Dispatch` keeps it out; only the slot's controller runs (`FCInv`). Elsewhere it fails (section 6) |
| `OperatorIsTold` | `[]ShownUnlessOvertaken`, with the same antecedent | `ShownInv`: what is shown is stale only while the slot holds a dead controller, the scan loop is inside `close()`, or `on_open` has read and not queued |
| `NegotiationProofs!TypeCorrect` | `Spec => []TypeOK` | inductive; queues by `TailOf`, `AppendOf` |
| `SessionsEndInSilence` | `SilentOutsideSession` | `PumpInv`: only the current peer has pumps that run |
| `OffersGoOutInOrder` | `[]OffersInOrder` | `OfferInv`: what was sent is not newer than `sent` outside a send, and never newer than `offer_sdp` |
| `CandidatesGoOutInOrder` | `[]CandidatesInOrder` | `CandInv`: what a station got, what is queued, what is posted and what is being emitted are consecutive runs of the candidates found |
| `RelayProofs!TypeCorrect` | `Spec => []TypeOK` | inductive; sequences by `TailOf`, `AppendOf` |
| `RepeaterFailsSafe` | `[]FailSafe` for any timeout | a frame's age is at least the silence, so what is repeated is younger than the timeout |
| `EndCutsOff` | `[]CutOff` | a session that is over is not wired, and only the packet in its thread's hand was tested before |
| `ReorderIsBounded` | `[]BoundedReorder` for any pool | writes are numbered; the queue is sorted and newer than what the workers hold, so only other workers hold older ones |
| `SticksNeverGoBack` | `RcNeverBack` for any sessions and controllers | along the path thread, queue, frame, echo the numbers of one session fall |
| `ThrottleStarvesNone` | `[]NoStarvation` for any ratio | `ThrottleInv`: while somebody watches, what was withheld in a row is not ahead of the counter |
| `OperatorKnowsArming` | `[]ArmedTruthful` | `ArmInv`: the operator was told of the last heartbeat, or the callback that tells is the next one |
| `ParseInPieces` | parsing `b`, then what is left of it with `c`, gives the frames of `b \o c` and leaves the same, for any bytes and checksum | induction on the length of the buffer: a frame that is complete in `b` is first in `b \o c` too, and what waits has no frame |
| `ParseBound` | what is kept is shorter than the longest frame | `Waiting`: fewer than four bytes, or the beginning of a frame |
| `FrameBehindNoise` (`NoiseBefore`, `NoiseAlone`) | behind noise a frame is found if its checksum is right, skipped if not, and nothing is left | noise has no byte that is a length (`Quiet`), so no candidate begins in it |
| `CutsAreHarmless` | `CutsCostNothing` for any line, noise and damage | `LineInvariant` and `ParseInPieces` |
| `EveryFrameIsFound` | `[]FramesSurvive`: on clean lines | `StreamInv`: what was heard and what `parse_frames` finds in buffer and line are the frames made, and what it leaves there is noise |
| `EmittedPositionsAdvance` | `PositionsAdvance`: on clean lines | `LineFlow`: the positions in the line, in the callbacks to come, the last one told and those in GLib's queue never fall along the path (`Rises`), whichever controller they came from |
| `TelemetryProofs!TypeCorrect` | `Spec => []TypeOK` | the variables one by one (`RestTypes`); buffer and jobs by `ParseBound` and `LineFlow`, for the positions in them are bounded only because the line's are |
| `BoardIsOneDrone` | `[]OneIdentity` for any deaths and registrations | `EnrollInv`: while the board asks, the file has no token, and without a token every registration was hidden from it |
| `BoardProofs!TypeCorrect` | `Spec => []TypeOK` | `EnrollInv` and `CamInv`: a list has each camera at the node it says, and a message has what its stage works on |
| `CalibrationsAreDone` | `CalibrateHonoured` for any cameras and messages | `CalInv`: no copy of a camera's parameters (file, cache, pipeline, scans, message) is older than the calibration promised last, and cameras of one model are promised it together |
| `ChoicesLast` | `ChoiceSurvives` | `ChoiceInv`: a choice that was saved is in the file or on its way back to it (`FileOwed`), in the cache, in every scan and in the message that saves; no list has a camera twice (`PlaceInv`) |

None of the properties is inductive by itself: `CurrentNotStopped`, for one, says
nothing of a thread that has just taken the pipeline, nor `OneController` of a
`close()` under way, nor `OneIdentity` of the answer in the hands of a process that
may die, nor `CalibrateHonoured` of a scan that began before. The invariants supply
that.

`parse_frames` is a recursive function, and that its definition has a solution has
to be proved too. The library's theorems on induction take an operator as a parameter,
which the provers cannot instantiate, so `CrsfProofs` derives them for sets: a set of
naturals has a smallest element (`SmallestOf`, from `WFMin`), hence `RankInduction`;
hence a step that looks its function up only at arguments of a smaller rank has a
function that satisfies it (`RecursionDefines`). The same lemmas define `Callbacks`.

**Model-checked only:** the liveness properties (outside TLAPS's reach here), and the
statements of section 6, which TLC refutes.

## 5. What is not modelled

The scaling and the layout of the fields of CRSF and MAVLink; the link-statistics
heartbeat and the ping channel (constant or echoed bytes); `update_bitrate` on the
encoder; `handle_ice`, TURN registration and ICE statistics (they change only
webrtcbin); the order in which detection tries ports and the bytes of its probes;
`disconnect_session` and `pong` messages; backoff arithmetic (a delay is a wait of any
length); the launch line, the other settings, logging and the start of the GLib thread.
They change nothing the properties tell apart.

## 6. Findings

1. **Camera not exclusive** (`coordinator.py:83`, run `coord_camera`). `_teardown`
   forgets the pipeline before it stops it. On the GLib or a webrtcbin thread that
   leaves a window in which a `connect` builds the next pipeline, or calibrates, on
   a camera still held; the comment at lines 85-87 promises the contrary.
2. **A stop can be missed** (`coordinator.py:49`, run `coord_stop`). A signal while
   `connect()` is pending finds no connection to close; `run()` then listens, without
   looking at the stop event. `__main__.py:90-92` has signals end it.
3. **The breaker leaks the connection** (`fc/controllers.py:139`, run `fc_leak`). It
   sets `_closed`, so `close()` returns before it closes.
4. **The scan loop can die** (`fc/service.py:100`, run `fc_dead`). An exception of
   `start()` ends it; the module says it reconnects.
5. **An offer can be lost** (`webrtc/manager.py:194`, run `neg_offer`). `sent` is read
   after the await.

What the models also show, without a run of its own. The first six are statements a
text of the repository suggests; each is a definition of the module that TLC refutes in
the instance named (a `.cfg` that changes only what is said, with the definition as its
invariant or property):

- `PacketToLiveSession` (`Coordinator_threads.cfg`): a teardown on another thread that
  ends the session while `start_session` wires it leaves the flight controller the packet
  callback of closed channels (`webrtc/manager.py:83`).
- `NeverCrashes` (`Coordinator_threads.cfg`): the teardown of a pipeline error clears
  `_manager` between the test and the use of the one in `run()`'s `finally`
  (`coordinator.py:79`); the exception leaves `run()`, and nothing reconnects.
- `TeardownMeansHotplug` (`Coordinator_loop.cfg`): a device that does not calibrate is in
  every poll of the watcher and never in its baseline (`coordinator.py:288`), so it ends
  every session.
- `ShownTruthful` (`FCService_dead.cfg`): `on_open` reads the controller on its thread and
  queues the message later; one of the loop may be queued in between, and the older
  state is shown last (`webrtc/manager.py:122`).
- `TelemetryPassedOn` (`FCService_dead.cfg` with `Elsewhere = {{"end"}}`): an activation
  copies the telemetry callback before the slot is set; one cleared in between by another
  thread stays on the new controller (`fc/service.py:110`).
- `EveryDecodedHeard` (`Telemetry_down.cfg`): the last lines of another thread's teardown
  clear the callbacks the next session has set (`coordinator.py:101`).
- Noise that looks like the header of a CRSF frame takes the bytes it announces with it,
  intact frames among them (`crsf.py:105-111` deletes before the checksum is tested).
- A calibration asked for while the loop's worker scans for the next session is undone
  by that scan, which saves what it found and overwrites the cleared cache
  (`camera.py:208-210`); so is a choice saved in that window. And a calibration covers the
  cameras of the session, not every device as the docstring at `coordinator.py:393` has
  it.
- Two cameras of one model share one file (`camera.py:67-68` says so): a choice for one
  is in the file of both.
- A death inside the write of the env file can leave it without credentials or with half
  a token; the board then has to be provisioned again (`Prefixes`, `OwnToken`). One inside
  the write of a camera's file, also by a scan that found it at another node, loses the
  operator's choice.
- After a change of controllers an attitude frame is sent with the position of the
  previous one (`coordinator.py:42`, never cleared): old, but never older than what was
  sent before (`PositionsAdvance`).

## 7. Plan

Done: `Coordinator` with `Lease`, `FCService`, `Negotiation`, `Relay`, `Crsf`,
`Telemetry`, `Enroll`, `Cameras`, `Board`, and the proofs of section 4: every invariant
and every action property that a passing run checks is a theorem, some under a
hypothesis that the table names. The liveness properties stay with TLC.
