------------------------------- MODULE Telemetry -------------------------------
(***************************************************************************)
(* What the flight controller says, on its way to the operator: the read   *)
(* loop of the controller (bytes of CRSF, or messages of MAVLink), the     *)
(* decoders, the coordinator that merges positions and headings into one   *)
(* telemetry message, the throttle of raw MAVLink messages, the data       *)
(* channels, and the GLib queue that emits what was sent.                  *)
(*                                                                         *)
(* The read loop runs on the asyncio loop; what it makes of one chunk or   *)
(* message is a row of callbacks without an await.  A teardown on another  *)
(* thread may fall between any two of them, and its last step, which takes *)
(* the telemetry callback away, after the next session has begun.  (Which  *)
(* callbacks a controller copied when it came is FCService's.)  Headings,  *)
(* altitudes and satellites ride along with the position and are left out. *)
(***************************************************************************)
EXTENDS Crsf, FiniteSets

CONSTANTS
    MaxFixes,    \* bound: how many positions the craft reports, in their order
    MaxFrames,   \* bound: CRSF frames and faults on the line of one controller
    PlainTypes,  \* bound: the types of its frames that carry no position
    MaxFaults,   \* bound: garbage bytes and damaged frames among them
    MaxQueue,    \* bound: no reading while GLib has this much to emit
    Kinds,       \* the protocols in the field: mavlink, crsf
    Garbage,     \* bytes of a noisy line, any
    Chunk,       \* the largest read of the CRSF read loop
    Others,      \* message ids that are not in IMPORTANT_MSGS
    MaxMsgId,    \* MAX_MSG_ID
    Ratio,       \* THROTTLE_RATIO
    None

\* IMPORTANT_MSGS: what the read loop looks at, and two ids it only forwards.
HEARTBEAT  == 0
SYS_STATUS == 1
BATTERY    == 147
POSITION   == 33
ACK        == 77
TEXT       == 253
Mute       == {22, 74}
Important  == {HEARTBEAT, SYS_STATUS, BATTERY, POSITION, ACK, TEXT} \cup Mute

NoFix    == 0   \* the position 0, 0 that stands for no fix
Channels == {"packet", "config", "telemetry"}
Counted  == {id \in Others : id < MaxMsgId}

ASSUME TelemetryAssumption ==
    /\ {MaxFixes, MaxFrames, MaxFaults, MaxQueue} \subseteq Nat
    /\ {MaxLen, Chunk, MaxMsgId, AddrFc} \subseteq Nat
    /\ MaxLen >= 3
    /\ Ratio \in Nat \ {0}
    /\ Addresses \subseteq Nat /\ AddrFc \in Addresses
    /\ Kinds \subseteq {"mavlink", "crsf"}
    /\ Garbage \subseteq Nat /\ PlainTypes \subseteq Nat \ {FRAME_GPS}
    \* an address is no length
    /\ AddrFc \notin MIN_FRAME_LEN..MaxLen
    /\ Others \subseteq Nat \ Important
    /\ None \notin BOOLEAN

VARIABLES
    phase,    \* the session: off, on, unwired (end_session has cleared the
              \* packet callback, the channels are still there)
    chan,     \* per channel: new, open, closed
    hook,     \* FCService._on_telemetry is the coordinator's
    tail,     \* a teardown that has closed its session will yet clear it
    kind,     \* the controller in the slot: none, crsf, mavlink
    wire,     \* CRSF: bytes not read yet
    buf,      \* CRSF: the read loop's buffer
    last_armed, \* MAVLink: _last_armed
    counters, \* MAVLink: _counters, modulo Ratio
    jobs,     \* the callbacks the read loop has yet to make in this stretch
    last,     \* SessionCoordinator._last_telemetry: the position
    queue,    \* messages in GLib's idle queue
    fixes,    \* how many positions the craft has reported
    faults,   \* faults of the line of this controller
    clean,    \* history: no fault so far could be taken for a frame's header
    made,     \* history: intact frames put on the line of this controller
    heard,    \* history: frames its read loop has found
    armed,    \* history: its last own heartbeat
    told,     \* history: the last fc_armed sent to this session
    emitted,  \* history: the last position handed to the data channel
    missed    \* history: per id, messages withheld in a row from an operator

sessionVars == <<phase, chan, hook, tail>>
lineVars    == <<wire, buf, faults, clean, made, heard>>
mavVars     == <<last_armed, counters, armed, missed>>
coordVars   == <<last, told>>
outVars     == <<queue, emitted>>
vars == <<sessionVars, kind, lineVars, mavVars, jobs, coordVars, outVars, fixes>>

Positions == NoFix..MaxFixes
Decodes   == [type : {"gps", "attitude", "battery", "device_info", "heartbeat",
                      "command_ack", "statustext"},
              pos : Nat, armed : BOOLEAN]
Jobs      == [to : {"telemetry"}, d : Decodes] \cup [to : {"packet"}]
Messages  == [ch : Channels, pos : Nat]

TypeOK ==
    /\ phase \in {"off", "on", "unwired"}
    /\ chan \in [Channels -> {"new", "open", "closed"}]
    /\ {hook, tail, clean} \subseteq BOOLEAN
    /\ kind \in {"none", "crsf", "mavlink"}
    /\ wire \in Seq(Nat) /\ buf \in Seq(Nat)
    /\ last_armed \in BOOLEAN \cup {None}
    /\ counters \in [Counted -> 0..(Ratio - 1)]
    /\ jobs \in Seq(Jobs)
    /\ last \in Nat
    /\ queue \in Seq(Messages)
    /\ fixes \in 0..MaxFixes
    /\ faults \in 0..MaxFaults
    /\ made \in Seq(Frames) /\ heard \in Seq(Frames)
    /\ armed \in BOOLEAN \cup {None}
    /\ told \in BOOLEAN \cup {None}
    /\ emitted \in Nat
    /\ missed \in [Counted \cup Important -> Nat]
    \* the buffer never grows past one frame, whatever the line carries
    /\ Len(buf) <= MaxLen + 1
    \* a channel is open only in a session that has not closed it
    /\ phase = "off" => \A c \in Channels : chan[c] # "open"

Init ==
    /\ phase = "off"
    /\ chan = [c \in Channels |-> "closed"]
    /\ hook = FALSE /\ tail = FALSE
    /\ kind = "none"
    /\ wire = <<>> /\ buf = <<>> /\ faults = 0 /\ clean = TRUE
    /\ made = <<>> /\ heard = <<>>
    /\ last_armed = None /\ armed = None
    /\ counters = [id \in Counted |-> 0]
    /\ missed = [id \in Counted \cup Important |-> 0]
    /\ jobs = <<>>
    /\ last = NoFix /\ told = None
    /\ queue = <<>> /\ emitted = NoFix
    /\ fixes = 0

\* The loop is free: no read loop is in the middle of its callbacks.
Idle == jobs = <<>>

-----------------------------------------------------------------------------
(* The session, as far as the messages see it.  It begins on the loop; a     *)
(* teardown may run on any thread.  A channel opens, or is closed by the     *)
(* operator, on a webrtcbin thread.                                          *)

\* start_session, and the callbacks of the flight controller set.
Begin ==
    /\ Idle
    /\ phase = "off"
    /\ phase' = "on"
    /\ chan' = [c \in Channels |-> "new"]
    /\ hook' = TRUE
    /\ UNCHANGED <<tail, kind, lineVars, mavVars, jobs, coordVars, outVars, fixes>>

\* _on_state: a data channel opens ...
Open(c) ==
    /\ phase \in {"on", "unwired"}
    /\ chan[c] = "new"
    /\ chan' = [chan EXCEPT ![c] = "open"]
    /\ UNCHANGED <<phase, hook, tail, kind, lineVars, mavVars, jobs, coordVars,
                   outVars, fixes>>

\* ... or the operator leaves, and all of them close for good.
PeerLeaves ==
    /\ phase \in {"on", "unwired"}
    /\ \E c \in Channels : chan[c] = "open"
    /\ chan' = [c \in Channels |-> "closed"]
    /\ UNCHANGED <<phase, hook, tail, kind, lineVars, mavVars, jobs, coordVars,
                   outVars, fixes>>

\* end_session: set_packet_callback(None) ...
Unwire ==
    /\ phase = "on"
    /\ phase' = "unwired"
    /\ UNCHANGED <<chan, hook, tail, kind, lineVars, mavVars, jobs, coordVars,
                   outVars, fixes>>

\* Mutant: the channels are not closed.
MutantLeavesOpen ==
    /\ phase = "unwired"
    /\ ~tail
    /\ tail' = TRUE
    /\ phase' = "off"
    /\ told' = None
    /\ missed' = [id \in DOMAIN missed |-> 0]
    /\ UNCHANGED <<chan, hook, kind, lineVars, last_armed, counters, armed, jobs,
                   last, outVars, fixes>>

\* ... and channels.close(), channels = None.  (One teardown at its tail at a
\* time is a bound.)
Close ==
    /\ phase = "unwired"
    /\ ~tail
    /\ tail' = TRUE
    /\ phase' = "off"
    /\ chan' = [c \in Channels |-> "closed"]
    /\ told' = None
    /\ missed' = [id \in DOMAIN missed |-> 0]
    /\ UNCHANGED <<hook, kind, lineVars, last_armed, counters, armed, jobs, last,
                   outVars, fixes>>

\* The end of _teardown: set_telemetry_callback(None), which on the loop comes
\* before the next session and on another thread at any time.
Unhook ==
    /\ tail
    /\ tail' = FALSE
    /\ hook' = FALSE
    /\ UNCHANGED <<phase, chan, kind, lineVars, mavVars, jobs, coordVars, outVars, fixes>>

-----------------------------------------------------------------------------
(* The controllers come and go between their read loop's stretches. *)

Activate(k) ==
    /\ Idle
    /\ kind = "none"
    /\ kind' = k
    /\ UNCHANGED <<sessionVars, lineVars, mavVars, jobs, coordVars, outVars, fixes>>

Drop ==
    /\ Idle
    /\ kind # "none"
    /\ kind' = "none"
    /\ wire' = <<>> /\ buf' = <<>> /\ faults' = 0
    /\ made' = <<>> /\ heard' = <<>>
    /\ last_armed' = None /\ armed' = None
    /\ counters' = [id \in Counted |-> 0]
    /\ missed' = [id \in DOMAIN missed |-> 0]
    /\ UNCHANGED <<sessionVars, clean, jobs, last, told, outVars, fixes>>

-----------------------------------------------------------------------------
(* The line of a CRSF controller. *)

GpsFrame(p) == [type |-> FRAME_GPS, payload |-> <<p>>]

\* Frames without a position: of other types, without a fix, and too short.
PlainFrames ==
    [type : PlainTypes, payload : {<<1>>}]
    \cup {GpsFrame(NoFix), [type |-> FRAME_GPS, payload |-> <<>>]}

SentFrames == PlainFrames \cup {GpsFrame(p) : p \in Positions}

\* A checksum is a byte.
ASSUME CrcAssumption == \A f \in SentFrames : Crc(<<f.type>> \o f.payload) \in Nat

Puts(f) ==
    /\ kind = "crsf"
    /\ Len(made) + faults < MaxFrames
    /\ wire' = wire \o Bytes(f)
    /\ made' = Append(made, f)
    /\ UNCHANGED <<sessionVars, kind, buf, faults, clean, heard, mavVars, jobs,
                   coordVars, outVars>>

PutPlain == \E f \in PlainFrames : Puts(f) /\ UNCHANGED fixes

PutFix ==
    /\ fixes < MaxFixes
    /\ fixes' = fixes + 1
    /\ Puts(GpsFrame(fixes + 1))

\* Faults; header says that the bytes could begin a frame.
Disturbs(bytes, header) ==
    /\ kind = "crsf"
    /\ faults < MaxFaults /\ Len(made) + faults < MaxFrames
    /\ wire' = wire \o bytes
    /\ faults' = faults + 1
    /\ clean' = (clean /\ ~header)
    /\ UNCHANGED <<sessionVars, kind, buf, made, heard, mavVars, jobs, coordVars,
                   outVars, fixes>>

\* Noise.  Two bytes of it may look like the header of a frame, and the frame
\* behind them is swallowed.
PutGarbage == \E g \in Garbage : Disturbs(<<g>>, g \in MIN_FRAME_LEN..MaxLen)

\* A frame with a byte that is not the one sent: only in the checksum is it sure
\* to cost this frame alone.
PutDamaged ==
    LET b == Bytes(GpsFrame(NoFix))
    IN  \E i \in 1..Len(b), g \in Garbage :
            g # b[i] /\ Disturbs([b EXCEPT ![i] = g], i # Len(b))

-----------------------------------------------------------------------------
(* CrsfController._read_loop: one read, and what its frames ask for. *)

Telling(type, p, a) ==
    [to |-> "telemetry", d |-> [type |-> type, pos |-> p, armed |-> a]]
Forwarding == [to |-> "packet"]

Understood(f) == Decoded(f) # "none"

Position(f) == IF f.type = FRAME_GPS THEN f.payload[1] ELSE NoFix

\* A frame that decodes asks for the telemetry callback and the packet callback.
Calls(f) ==
    IF Understood(f) THEN <<Telling(Decoded(f), Position(f), FALSE), Forwarding>> ELSE <<>>

\* for ftype, payload in CRSF.parse_frames(buf)
Callbacks[frames \in Seq(Frames)] ==
    IF frames = <<>> THEN <<>> ELSE Calls(Head(frames)) \o Callbacks[Tail(frames)]

Read(n) ==
    /\ Idle
    /\ kind = "crsf"
    /\ n <= Len(wire)
    /\ Len(queue) < MaxQueue
    /\ LET parsed == parse_frames[buf \o SubSeq(wire, 1, n)]
       IN  /\ buf' = parsed.buf
           /\ heard' = heard \o parsed.frames
           /\ jobs' = Callbacks[parsed.frames]
    /\ wire' = SubSeq(wire, n + 1, Len(wire))
    /\ UNCHANGED <<sessionVars, kind, faults, clean, made, mavVars, coordVars, outVars,
                   fixes>>

-----------------------------------------------------------------------------
(* MavlinkController._read_loop: one message, and what it asks for. *)

\* Mutant: one counter for all messages.
MutantSharedCounter(id) ==
    IF id \in Counted
    THEN [c \in Counted |-> (counters[c] + 1) % Ratio]
    ELSE counters

Count(id) ==
    IF id \in Counted
    THEN [counters EXCEPT ![id] = (@ + 1) % Ratio]
    ELSE counters

\* should_throttle_msg: the raw message is forwarded.
Passes(id) == id \in Important \/ (id \in Counted /\ Count(id)[id] = 0)

Withheld(id) ==
    IF id \in DOMAIN missed /\ phase = "on" /\ chan["packet"] = "open"
    THEN [missed EXCEPT ![id] = IF Passes(id) THEN 0 ELSE @ + 1]
    ELSE missed

Recv(id, tells) ==
    /\ Idle
    /\ kind = "mavlink"
    /\ Len(queue) < MaxQueue
    /\ jobs' = IF Passes(id) THEN Append(tells, Forwarding) ELSE tells
    /\ counters' = Count(id)
    /\ missed' = Withheld(id)
    /\ UNCHANGED <<sessionVars, kind, lineVars, coordVars, outVars>>

\* Mutant: only the change to armed is told.
MutantOnlyArming(a) == a /\ last_armed # TRUE

\* The first heartbeat of this controller, or a change.
Edge(a) == last_armed = None \/ a # last_armed

RecvHeartbeat(a) ==
    /\ Recv(HEARTBEAT, IF Edge(a) THEN <<Telling("heartbeat", NoFix, a)>> ELSE <<>>)
    /\ last_armed' = a
    /\ armed' = a
    /\ UNCHANGED fixes

\* A heartbeat with the system id of the ground station: the board's own.
RecvOwnHeartbeat(a) ==
    /\ Recv(HEARTBEAT, <<>>)
    /\ UNCHANGED <<last_armed, armed, fixes>>

RecvPosition(p) ==
    /\ Recv(POSITION, <<Telling("gps", p, FALSE)>>)
    /\ UNCHANGED <<last_armed, armed>>

RecvNoFix == RecvPosition(NoFix) /\ UNCHANGED fixes

RecvFix ==
    /\ fixes < MaxFixes
    /\ fixes' = fixes + 1
    /\ RecvPosition(fixes + 1)

\* decode_battery answers nothing when the voltage is not known.
RecvBattery(id, known) ==
    /\ Recv(id, IF known THEN <<Telling("battery", NoFix, FALSE)>> ELSE <<>>)
    /\ UNCHANGED <<last_armed, armed, fixes>>

RecvAck ==
    /\ Recv(ACK, <<Telling("command_ack", NoFix, FALSE)>>)
    /\ UNCHANGED <<last_armed, armed, fixes>>

RecvText ==
    /\ Recv(TEXT, <<Telling("statustext", NoFix, FALSE)>>)
    /\ UNCHANGED <<last_armed, armed, fixes>>

RecvOther(id) ==
    /\ Recv(id, <<>>)
    /\ UNCHANGED <<last_armed, armed, fixes>>

RecvMessage ==
    \/ \E b \in BOOLEAN : RecvHeartbeat(b) \/ RecvOwnHeartbeat(b)
    \/ \E id \in {SYS_STATUS, BATTERY} : \E b \in BOOLEAN : RecvBattery(id, b)
    \/ RecvNoFix \/ RecvFix \/ RecvAck \/ RecvText
    \/ \E id \in Others \cup Mute : RecvOther(id)

-----------------------------------------------------------------------------
(* The callbacks: _on_fc_telemetry, _forward_telemetry, send_bytes. *)

Send(ch, p) == queue' = IF chan[ch] = "open"
                        THEN Append(queue, [ch |-> ch, pos |-> p])
                        ELSE queue

\* What the next callback is told, when it is the coordinator's.
decoded == Head(jobs).d

\* The coordinator hears of it: its callback is set, manager and channels exist.
Hears(types) ==
    /\ jobs # <<>>
    /\ Head(jobs).to = "telemetry"
    /\ decoded.type \in types
    /\ hook
    /\ phase \in {"on", "unwired"}
    /\ jobs' = Tail(jobs)
    /\ UNCHANGED <<sessionVars, kind, lineVars, mavVars, emitted, fixes>>

\* It does not: no session, or its callback was taken away.
Unheard ==
    /\ jobs # <<>>
    /\ Head(jobs).to = "telemetry"
    /\ ~hook \/ phase = "off"
    /\ jobs' = Tail(jobs)
    /\ UNCHANGED <<sessionVars, kind, lineVars, mavVars, coordVars, outVars, fixes>>

\* Mutant: 0, 0 is a position.
MutantKeepsNull ==
    /\ Hears({"gps"})
    /\ last' = decoded.pos
    /\ Send("telemetry", decoded.pos)
    /\ UNCHANGED told

\* A position without a fix is neither kept nor sent.
OnGps ==
    /\ Hears({"gps"})
    /\ IF decoded.pos = NoFix THEN UNCHANGED <<last, queue>>
                        ELSE last' = decoded.pos /\ Send("telemetry", decoded.pos)
    /\ UNCHANGED told

\* A heading goes out with the last position, if there ever was one.
OnAttitude ==
    /\ Hears({"attitude"})
    /\ IF last = NoFix THEN UNCHANGED queue ELSE Send("telemetry", last)
    /\ UNCHANGED coordVars

OnHeartbeat ==
    /\ Hears({"heartbeat"})
    /\ Send("config", NoFix)
    /\ told' = IF chan["config"] = "open" THEN decoded.armed ELSE told
    /\ UNCHANGED last

OnNotice ==
    /\ Hears({"battery", "command_ack"})
    /\ Send("config", NoFix)
    /\ UNCHANGED coordVars

\* device_info and statustext are nothing to the coordinator.
OnSilent ==
    /\ Hears({"device_info", "statustext"})
    /\ UNCHANGED <<coordVars, queue>>

\* The packet callback: the raw message, to the session that is wired.
OnPacket ==
    /\ jobs # <<>>
    /\ Head(jobs).to = "packet"
    /\ jobs' = Tail(jobs)
    /\ IF phase = "on" THEN Send("packet", NoFix) ELSE UNCHANGED queue
    /\ UNCHANGED <<sessionVars, kind, lineVars, mavVars, coordVars, emitted, fixes>>

Callback ==
    \/ Unheard \/ OnPacket
    \/ OnGps \/ OnAttitude \/ OnHeartbeat \/ OnNotice \/ OnSilent

\* GLib's thread runs the oldest idle callback: send-data.
Emit ==
    /\ queue # <<>>
    /\ queue' = Tail(queue)
    /\ emitted' = IF Head(queue).ch = "telemetry" THEN Head(queue).pos ELSE emitted
    /\ UNCHANGED <<sessionVars, kind, lineVars, mavVars, jobs, coordVars, fixes>>

-----------------------------------------------------------------------------
Next ==
    \/ Begin \/ PeerLeaves \/ Unwire \/ Close \/ Unhook
    \/ \E c \in Channels : Open(c)
    \/ \E k \in Kinds : Activate(k)
    \/ Drop
    \/ PutPlain \/ PutFix \/ PutGarbage \/ PutDamaged
    \/ \E n \in 1..Chunk : Read(n)
    \/ RecvMessage \/ Callback \/ Emit

Spec == Init /\ [][Next]_vars

-----------------------------------------------------------------------------
(* Properties. *)

\* Where a read cuts the line costs nothing, whatever is on it: the frames found
\* and those that one parse of all the rest would find stay the same.
OneParse == heard \o parse_frames[buf \o wire].frames
CutsCostNothing ==
    [][kind' = kind /\ Len(wire') < Len(wire) => OneParse' = OneParse]_vars

\* On a line whose faults cannot be taken for a header (noise that is no length,
\* a wrong checksum) the read loop finds each intact frame, once and in order.
\* (Other faults may swallow frames: parse_frames skips what they announce.)
FramesSurvive ==
    clean =>
        /\ Len(heard) <= Len(made)
        /\ heard = SubSeq(made, 1, Len(heard))
        /\ wire = <<>> => heard = made

\* The positions the board emits never go back, across frames, chunks,
\* controllers, sessions and overtaken teardowns, and none of them is 0, 0, on
\* such a line.  (The channel is unordered and does not retransmit: in what
\* order they arrive, and whether, is not the board's.)
PositionsAdvance == [][clean => emitted' > emitted]_emitted

\* What an operator who was told of arming believes is what the controller
\* last said of itself, whichever controllers came and went, unless a teardown
\* of an earlier session took the callback away.
ArmedTruthful ==
    Idle /\ hook /\ chan["config"] = "open" /\ told # None /\ armed # None
        => told = armed

\* The throttle starves no kind of message whose id it counts, however the kinds
\* mix and the sessions change: an operator gets one of any Ratio in a row, and
\* every important one.
NoStarvation ==
    \A id \in DOMAIN missed : missed[id] < (IF id \in Important THEN 1 ELSE Ratio)

\* In a session that is on, the coordinator is called for every message decoded:
\* coordinator.py:134-135, "Called from the read loops ... for each decoded frame".
\* Not so: the tail of another thread's teardown (Unhook) may clear the callback of
\* the session that began meanwhile.
EveryDecodedHeard ==
    phase = "on" /\ ~Idle /\ Head(jobs).to = "telemetry" => hook
==============================================================================
