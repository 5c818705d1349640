---------------------------- MODULE TelemetryProofs ----------------------------
(***************************************************************************)
(* Proofs about Telemetry, for any controllers, messages, sessions and     *)
(* throttle: no kind of raw message is withheld too often, an operator     *)
(* knows whether the craft is armed, where a chunk ends costs no frame     *)
(* whatever the line carries, and, while its faults cannot be taken for a  *)
(* header, each intact frame is found and positions never go back.         *)
(***************************************************************************)
EXTENDS Telemetry, CrsfProofs

(***************************************************************************)
(* The throttle.                                                           *)
(***************************************************************************)

\* A counter goes up by one and starts again at Ratio.
LEMMA NextCount ==
    ASSUME NEW c \in 0..(Ratio - 1)
    PROVE  (c + 1) % Ratio = IF c + 1 = Ratio THEN 0 ELSE c + 1
<1>1. Ratio \in Nat \ {0}
  BY TelemetryAssumption
<1>2. CASE c + 1 = Ratio
  BY <1>1, <1>2
<1>3. CASE c + 1 # Ratio
  BY <1>1, <1>3
<1>4. QED
  BY <1>2, <1>3

\* An operator is there to receive raw messages.
Watching == phase = "on" /\ chan["packet"] = "open"

\* While somebody watches, what was withheld in a row is behind the counter;
\* a session begins with nothing withheld.  (Nobody watching, the counter goes
\* on without missed: that is why a session may not open its channel twice.)
ThrottleInv ==
    /\ chan \in [Channels -> {"new", "open", "closed"}]
    /\ counters \in [Counted -> 0..(Ratio - 1)]
    /\ missed \in [Counted \cup Important -> Nat]
    /\ phase = "off" => chan["packet"] # "open"
    /\ \A id \in Important : missed[id] = 0
    /\ \A id \in Counted :
          /\ missed[id] < Ratio
          /\ phase = "off" \/ chan["packet"] = "new" => missed[id] = 0
          /\ Watching => missed[id] <= counters[id]

\* A message is counted, and passed or withheld.
LEMMA RecvThrottle ==
    ASSUME ThrottleInv, NEW id \in Important \cup Others, NEW tells, Recv(id, tells)
    PROVE  ThrottleInv'
<1> USE TelemetryAssumption
<1>1. /\ UNCHANGED <<phase, chan>> /\ counters' = Count(id) /\ missed' = Withheld(id)
      /\ counters \in [Counted -> 0..(Ratio - 1)] /\ missed \in [Counted \cup Important -> Nat]
      /\ Ratio \in Nat \ {0} /\ Counted \cap Important = {}
  BY DEF Recv, sessionVars, ThrottleInv, Counted
<1>2. counters' \in [Counted -> 0..(Ratio - 1)]
  <2>1. CASE id \in Counted
    <3>1. counters' = [counters EXCEPT ![id] = (counters[id] + 1) % Ratio]
      BY <1>1, <2>1 DEF Count
    <3>2. (counters[id] + 1) % Ratio \in 0..(Ratio - 1)
      BY <1>1, <2>1, NextCount
    <3>3. QED
      BY <1>1, <3>1, <3>2
  <2>2. CASE id \notin Counted
    BY <1>1, <2>2 DEF Count
  <2>3. QED
    BY <2>1, <2>2
<1>3. CASE ~(id \in DOMAIN missed /\ Watching)
  <2>1. missed' = missed
    BY <1>1, <1>3 DEF Withheld, Watching
  <2>2. ASSUME NEW i \in Counted, Watching
        PROVE  counters'[i] = counters[i]
    BY <1>1, <1>3, <2>2 DEF Count
  <2>3. QED
    BY <1>1, <1>2, <2>1, <2>2 DEF ThrottleInv, Watching
<1>4. CASE id \in Counted /\ Watching
  <2>1. counters'[id] = IF counters[id] + 1 = Ratio THEN 0 ELSE counters[id] + 1
    BY <1>1, <1>4, NextCount DEF Count
  <2>2. Passes(id) <=> counters'[id] = 0
    BY <1>1, <1>4 DEF Passes
  <2>3. missed' = [missed EXCEPT ![id] = IF Passes(id) THEN 0 ELSE missed[id] + 1]
    BY <1>1, <1>4 DEF Withheld, Watching
  <2>4. missed'[id] \in Nat /\ missed'[id] < Ratio /\ missed'[id] <= counters'[id]
    <3>1. missed[id] \in Nat /\ missed[id] <= counters[id] /\ counters[id] \in 0..(Ratio - 1)
      BY <1>1, <1>4 DEF ThrottleInv
    <3>2. CASE counters[id] + 1 = Ratio
      BY <1>1, <1>4, <2>1, <2>2, <2>3, <3>2
    <3>3. CASE counters[id] + 1 # Ratio
      <4>1. missed'[id] = missed[id] + 1 /\ counters'[id] = counters[id] + 1
        BY <1>1, <1>4, <2>1, <2>2, <2>3, <3>1, <3>3
      <4>2. QED
        BY <1>1, <3>1, <3>3, <4>1
    <3>4. QED
      BY <3>2, <3>3
  <2>5. /\ missed' \in [Counted \cup Important -> Nat]
        /\ \A i \in (Counted \cup Important) \ {id} : missed'[i] = missed[i]
    BY <1>1, <1>4, <2>3, <2>4
  <2>6. \A i \in Counted \ {id} : counters'[i] = counters[i]
    BY <1>1 DEF Count
  <2>7. phase # "off" /\ chan["packet"] # "new" /\ id \notin Important
    BY <1>1, <1>4 DEF Watching
  <2>8. ASSUME NEW i \in Counted
        PROVE  missed'[i] < Ratio /\ missed'[i] <= counters'[i]
    BY <1>4, <2>4, <2>5, <2>6 DEF ThrottleInv
  <2>9. \A i \in Important : missed'[i] = 0
    BY <2>5, <2>7 DEF ThrottleInv
  <2>10. QED
    BY <1>1, <1>2, <2>5, <2>7, <2>8, <2>9 DEF ThrottleInv, Watching
<1>5. CASE id \in Important /\ Watching
  <2>1. missed' = [missed EXCEPT ![id] = 0]
    BY <1>1, <1>5 DEF Withheld, Passes, Watching
  <2>2. missed[id] = 0
    BY <1>5 DEF ThrottleInv
  <2>3. missed' = missed
    BY <1>1, <1>5, <2>1, <2>2
  <2>4. counters' = counters
    BY <1>1, <1>5 DEF Count
  <2>5. QED
    BY <1>1, <2>3, <2>4 DEF ThrottleInv, Watching
<1>6. QED
  BY <1>1, <1>3, <1>4, <1>5

\* Every message the read loop takes is one of those.
LEMMA RecvMessageIs ==
    ASSUME RecvMessage
    PROVE  \E id \in Important \cup Others : \E tells : Recv(id, tells)
<1>1. {HEARTBEAT, SYS_STATUS, BATTERY, POSITION, ACK, TEXT} \cup Mute \subseteq Important
  BY DEF Important
<1>2. QED
  BY <1>1
  DEF RecvMessage, RecvHeartbeat, RecvOwnHeartbeat, RecvBattery, RecvNoFix, RecvFix, RecvPosition,
      RecvAck, RecvText, RecvOther

\* The other steps neither count nor withhold; those that change the session
\* begin it, end it, or open or close its channels.
LEMMA ThrottleStep ==
    ASSUME ThrottleInv, [Next]_vars
    PROVE  ThrottleInv'
<1> USE DEF ThrottleInv, Watching
<1>1. CASE RecvMessage
  BY <1>1, RecvMessageIs, RecvThrottle
<1>2. CASE Begin
  <2>1. /\ phase = "off" /\ phase' = "on" /\ chan' = [c \in Channels |-> "new"]
        /\ UNCHANGED <<counters, missed>>
    BY <1>2 DEF Begin, mavVars
  <2>2. QED
    BY <2>1 DEF Channels
<1>3. CASE PeerLeaves
  <2>1. /\ phase # "off" /\ UNCHANGED <<phase, counters, missed>>
        /\ chan' = [c \in Channels |-> "closed"]
    BY <1>3 DEF PeerLeaves, mavVars
  <2>2. QED
    BY <2>1 DEF Channels
<1>4. CASE Unwire
  BY <1>4 DEF Unwire, mavVars
<1>5. CASE Close
  <2>1. /\ phase' = "off" /\ chan' = [c \in Channels |-> "closed"] /\ UNCHANGED counters
        /\ missed' = [id \in Counted \cup Important |-> 0]
    BY <1>5 DEF Close
  <2>2. QED
    BY <2>1, TelemetryAssumption DEF Channels
<1>6. CASE \E c \in Channels : Open(c)
  <2>1. PICK c \in Channels : Open(c)
    BY <1>6
  <2>2. /\ phase # "off" /\ UNCHANGED <<phase, counters, missed>>
        /\ chan[c] = "new" /\ chan' = [chan EXCEPT ![c] = "open"]
    BY <2>1 DEF Open, mavVars
  <2>3. CASE c = "packet"
    BY <2>2, <2>3
  <2>4. CASE c # "packet"
    BY <2>2, <2>4
  <2>5. QED
    BY <2>3, <2>4
<1>7. CASE Drop
  <2>1. /\ UNCHANGED <<phase, chan>> /\ counters' = [id \in Counted |-> 0]
        /\ missed' = [id \in Counted \cup Important |-> 0]
    BY <1>7 DEF Drop, sessionVars
  <2>2. QED
    BY <2>1, TelemetryAssumption
<1>8. CASE UNCHANGED <<phase, chan, counters, missed>>
  BY <1>8
<1>9. QED
  BY <1>1, <1>2, <1>3, <1>4, <1>5, <1>6, <1>7, <1>8
  DEF Next, Unhook, Activate, PutPlain, PutFix, PutGarbage, PutDamaged, Puts, Disturbs, Read, Callback,
      Unheard, OnPacket, OnGps, OnAttitude, OnHeartbeat, OnNotice, OnSilent, Hears, Emit, vars,
      sessionVars, mavVars

\* An operator gets one of any Ratio messages of a kind in a row.
THEOREM ThrottleStarvesNone == Spec => []NoStarvation
<1>1. Init => ThrottleInv
  BY TelemetryAssumption DEF Init, ThrottleInv, Watching, Channels
<1>2. ThrottleInv /\ [Next]_vars => ThrottleInv'
  BY ThrottleStep
<1>3. ThrottleInv => NoStarvation
  BY DEF ThrottleInv, NoStarvation
<1>4. QED
  BY <1>1, <1>2, <1>3, PTL DEF Spec

(***************************************************************************)
(* Arming.                                                                 *)
(***************************************************************************)

\* The next callback tells of a heartbeat.
Pending == jobs # <<>> /\ Head(jobs).to = "telemetry" /\ Head(jobs).d.type = "heartbeat"

\* The coordinator has told this session of the controller's last heartbeat, is
\* about to, or has not told it anything, or its callback was taken away.
ArmInv ==
    /\ chan \in [Channels -> {"new", "open", "closed"}]
    /\ last_armed = armed
    /\ armed # None => kind = "mavlink"
    /\ kind = "mavlink" => \/ jobs = <<>> \/ jobs = <<Forwarding>>
                           \/ \E j : jobs \in {<<j>>, <<j, Forwarding>>}
    /\ kind = "none" => jobs = <<>>
    /\ phase = "off" => chan["config"] # "open"
    /\ phase = "off" \/ chan["config"] = "new" => told = None
    /\ armed # None /\ Pending => Head(jobs).d.armed = armed
    /\ hook /\ armed # None /\ ~Pending /\ chan["config"] = "open" => told \in {None, armed}

\* Lists of one and of two callbacks.
LEMMA ShortLists ==
    ASSUME NEW a, NEW b
    PROVE  /\ Append(<<>>, b) = <<b>> /\ Append(<<a>>, b) = <<a, b>>
           /\ Tail(<<a>>) = <<>> /\ Tail(<<a, b>>) = <<b>>
           /\ Head(<<a>>) = a /\ Head(<<a, b>>) = a
           /\ <<a>> # <<>> /\ <<a, b>> # <<>>
<1>1. Append(<<>>, b) = <<b>>
  OBVIOUS
<1>2. Append(<<a>>, b) = <<a, b>>
  <2> DEFINE S == {a, b}
             l == Append(<<a>>, b)
             r == <<a, b>>
  <2>1. l \in Seq(S) /\ r \in Seq(S)
    OBVIOUS
  <2>2. Len(l) = 2 /\ Len(r) = 2
    OBVIOUS
  <2>3. l[1] = a /\ l[2] = b /\ r[1] = a /\ r[2] = b
    OBVIOUS
  <2> HIDE DEF l, r, S
  <2>4. \A i \in 1..Len(l) : l[i] = r[i]
    BY <2>2, <2>3
  <2>5. l = r
    BY <2>1, <2>2, <2>4, SeqEqual
  <2>6. QED
    BY <2>5 DEF l, r
<1>3. Tail(<<a>>) = <<>> /\ Tail(<<a, b>>) = <<b>>
  OBVIOUS
<1>4. QED
  BY <1>1, <1>2, <1>3

\* The read loop: a heartbeat is passed on when it is the first or a change.
LEMMA RecvArm ==
    ASSUME ArmInv, RecvMessage
    PROVE  ArmInv'
<1>1. /\ jobs = <<>> /\ kind = "mavlink" /\ UNCHANGED <<phase, chan, hook, kind, told>> /\ ~Pending
  BY DEF RecvMessage, RecvHeartbeat, RecvOwnHeartbeat, RecvBattery, RecvNoFix, RecvFix,
     RecvPosition, RecvAck, RecvText, RecvOther, Recv, Idle, sessionVars, coordVars, Pending
<1>2. ASSUME NEW id, NEW j, jobs' \in {<<>>, <<Forwarding>>, <<j>>, <<j, Forwarding>>},
             UNCHANGED <<last_armed, armed>>, j.to = "telemetry", j.d.type # "heartbeat"
      PROVE  ArmInv'
  <2>1. ~Pending'
    BY <1>2 DEF Pending, Forwarding
  <2>2. jobs' = <<>> \/ jobs' = <<Forwarding>> \/ \E k : jobs' \in {<<k>>, <<k, Forwarding>>}
    BY <1>2
  <2>3. QED
    BY <1>1, <1>2, <2>1, <2>2 DEF ArmInv
<1>3. ASSUME NEW a \in BOOLEAN, RecvHeartbeat(a)
      PROVE  ArmInv'
  <2>1. last_armed' = a /\ armed' = a /\ a # None
    BY <1>3, TelemetryAssumption DEF RecvHeartbeat
  <2>2. CASE Edge(a)
    <3> DEFINE j == Telling("heartbeat", NoFix, a)
    <3>1. jobs' = <<j>> \/ jobs' = <<j, Forwarding>>
      <4>1. jobs' = IF Passes(HEARTBEAT) THEN Append(<<j>>, Forwarding) ELSE <<j>>
        BY <1>3, <2>2 DEF RecvHeartbeat, Recv
      <4>2. QED
        BY <4>1, ShortLists
    <3>2. j.to = "telemetry" /\ j.d.type = "heartbeat" /\ j.d.armed = a
      BY DEF Telling
    <3> HIDE DEF j
    <3>3. Head(jobs') = j /\ jobs' # <<>>
      BY <3>1
    <3>4. Pending' /\ Head(jobs').d.armed = a
      BY <3>2, <3>3 DEF Pending
    <3>5. \E k : jobs' \in {<<k>>, <<k, Forwarding>>}
      BY <3>1
    <3>6. QED
      BY <1>1, <2>1, <3>4, <3>5 DEF ArmInv
  <2>3. CASE ~Edge(a)
    <3>1. armed = a /\ armed # None
      BY <2>1, <2>3 DEF Edge, ArmInv
    <3>2. jobs' \in {<<>>, <<Forwarding>>}
      BY <1>3, <2>3 DEF RecvHeartbeat, Recv
    <3>3. ~Pending'
      BY <3>2 DEF Pending, Forwarding
    <3>4. QED
      BY <1>1, <2>1, <3>1, <3>2, <3>3 DEF ArmInv
  <2>4. QED
    BY <2>2, <2>3
<1>4. ASSUME UNCHANGED <<last_armed, armed>>, NEW id,
             \/ Recv(id, <<>>)
             \/ \E t \in {"battery", "gps", "command_ack", "statustext"} : \E p :
                   Recv(id, <<Telling(t, p, FALSE)>>)
      PROVE  ArmInv'
  <2>1. CASE Recv(id, <<>>)
    <3>1. jobs' = IF Passes(id) THEN Append(<<>>, Forwarding) ELSE <<>>
      BY <2>1 DEF Recv
    <3>2. jobs' \in {<<>>, <<Forwarding>>}
      BY <3>1, ShortLists
    <3> DEFINE j == Telling("battery", NoFix, FALSE)
    <3>3. j.to = "telemetry" /\ j.d.type # "heartbeat"
      BY DEF Telling
    <3> HIDE DEF j
    <3>4. QED
      BY <1>2, <1>4, <3>2, <3>3
  <2>2. ASSUME NEW t \in {"battery", "gps", "command_ack", "statustext"}, NEW p,
               Recv(id, <<Telling(t, p, FALSE)>>)
        PROVE  ArmInv'
    <3> DEFINE j == Telling(t, p, FALSE)
    <3>1. jobs' = IF Passes(id) THEN Append(<<j>>, Forwarding) ELSE <<j>>
      BY <2>2 DEF Recv
    <3>2. j.to = "telemetry" /\ j.d.type # "heartbeat"
      BY DEF Telling
    <3> HIDE DEF j
    <3>3. jobs' \in {<<j>>, <<j, Forwarding>>}
      BY <3>1, ShortLists
    <3>4. QED
      BY <1>2, <1>4, <3>2, <3>3
  <2>3. QED
    BY <1>4, <2>1, <2>2
<1>5. ASSUME NEW b \in BOOLEAN, NEW i, RecvOwnHeartbeat(b) \/ RecvBattery(i, b)
      PROVE  ArmInv'
  <2>1. UNCHANGED <<last_armed, armed>>
    BY <1>5 DEF RecvOwnHeartbeat, RecvBattery
  <2>2. \/ Recv(HEARTBEAT, <<>>) \/ Recv(i, <<>>)
        \/ Recv(i, <<Telling("battery", NoFix, FALSE)>>)
    BY <1>5 DEF RecvOwnHeartbeat, RecvBattery
  <2>3. QED
    BY <1>4, <2>1, <2>2
<1>6. CASE RecvNoFix \/ RecvFix \/ RecvAck \/ RecvText \/ \E id \in Others \cup Mute : RecvOther(id)
  <2>1. UNCHANGED <<last_armed, armed>>
    BY <1>6 DEF RecvNoFix, RecvFix, RecvPosition, RecvAck, RecvText, RecvOther
  <2>2. \/ \E id \in Others \cup Mute : Recv(id, <<>>)
        \/ \E p : Recv(POSITION, <<Telling("gps", p, FALSE)>>)
        \/ Recv(ACK, <<Telling("command_ack", NoFix, FALSE)>>)
        \/ Recv(TEXT, <<Telling("statustext", NoFix, FALSE)>>)
    BY <1>6 DEF RecvNoFix, RecvFix, RecvPosition, RecvAck, RecvText, RecvOther
  <2>3. QED
    BY <1>4, <2>1, <2>2
<1>7. QED
  BY <1>3, <1>5, <1>6 DEF RecvMessage

\* A callback that was made is off the list.
LEMMA AfterCallback ==
    ASSUME ArmInv, kind = "mavlink", jobs # <<>>, jobs' = Tail(jobs)
    PROVE  (jobs' = <<>> \/ jobs' = <<Forwarding>>) /\ ~Pending'
<1>1. jobs' = <<>> \/ jobs' = <<Forwarding>>
  <2>1. jobs = <<Forwarding>> \/ \E j : jobs \in {<<j>>, <<j, Forwarding>>}
    BY DEF ArmInv
  <2>2. \E j : jobs = <<j>> \/ jobs = <<j, Forwarding>>
    BY <2>1
  <2>3. PICK j : jobs = <<j>> \/ jobs = <<j, Forwarding>>
    BY <2>2
  <2>4. Tail(<<j>>) = <<>> /\ Tail(<<j, Forwarding>>) = <<Forwarding>>
    BY ShortLists
  <2>5. QED
    BY <2>3, <2>4
<1>2. jobs' = <<Forwarding>> => Head(jobs').to = "packet"
  BY ShortLists DEF Forwarding
<1>3. QED
  BY <1>1, <1>2 DEF Pending

\* The callbacks: the session is told of the heartbeat, unless it has no open
\* config channel.
LEMMA CallbackArm ==
    ASSUME ArmInv, Callback
    PROVE  ArmInv'
<1>1. /\ jobs # <<>> /\ jobs' = Tail(jobs)
      /\ UNCHANGED <<phase, chan, hook, kind, last_armed, armed>>
  BY DEF Callback, Unheard, OnPacket, OnGps, OnAttitude, OnHeartbeat, OnNotice, OnSilent, Hears,
     sessionVars, mavVars
<1>2. kind # "none"
  BY <1>1 DEF ArmInv
<1>3. CASE OnHeartbeat
  <2>1. /\ phase # "off" /\ Pending
        /\ told' = IF chan["config"] = "open" THEN Head(jobs).d.armed ELSE told
    BY <1>3 DEF OnHeartbeat, Hears, Pending, decoded
  <2>2. CASE kind = "mavlink"
    <3>1. (jobs' = <<>> \/ jobs' = <<Forwarding>>) /\ ~Pending'
      BY <1>1, <2>2, AfterCallback
    <3>2. QED
      BY <1>1, <2>1, <3>1 DEF ArmInv
  <2>3. CASE kind # "mavlink"
    BY <1>1, <1>2, <2>1, <2>3 DEF ArmInv
  <2>4. QED
    BY <2>2, <2>3
<1>4. CASE ~OnHeartbeat
  <2>1. told' = told
    BY <1>4 DEF Callback, Unheard, OnPacket, OnGps, OnAttitude, OnNotice, OnSilent, coordVars
  <2>2. phase = "off" \/ ~hook \/ ~Pending
    BY <1>4 DEF Callback, Unheard, OnPacket, OnGps, OnAttitude, OnNotice, OnSilent, Hears, Pending,
       decoded
  <2>3. CASE kind = "mavlink"
    <3>1. (jobs' = <<>> \/ jobs' = <<Forwarding>>) /\ ~Pending'
      BY <1>1, <2>3, AfterCallback
    <3>2. QED
      BY <1>1, <2>1, <2>2, <3>1 DEF ArmInv
  <2>4. CASE kind # "mavlink"
    BY <1>1, <1>2, <2>1, <2>4 DEF ArmInv
  <2>5. QED
    BY <2>3, <2>4
<1>5. QED
  BY <1>3, <1>4

\* Sessions and controllers come and go: a session that begins has been told
\* nothing, and a controller that begins has said nothing.
LEMMA ArmStep ==
    ASSUME ArmInv, [Next]_vars
    PROVE  ArmInv'
<1>1. CASE RecvMessage \/ Callback
  BY <1>1, RecvArm, CallbackArm
<1>2. CASE Begin
  <2>1. /\ phase = "off" /\ chan' = [c \in Channels |-> "new"]
        /\ UNCHANGED <<kind, jobs, last_armed, armed, told>>
    BY <1>2 DEF Begin, mavVars, coordVars
  <2>2. phase' = "on"
    BY <1>2 DEF Begin
  <2>3. QED
    BY <2>1, <2>2 DEF ArmInv, Channels, Pending
<1>3. CASE PeerLeaves
  <2>1. /\ phase # "off" /\ chan' = [c \in Channels |-> "closed"]
        /\ UNCHANGED <<phase, hook, kind, jobs, last_armed, armed, told>>
    BY <1>3 DEF PeerLeaves, mavVars, coordVars
  <2>2. QED
    BY <2>1 DEF ArmInv, Channels, Pending
<1>4. CASE Unwire
  <2>1. /\ phase # "off" /\ phase' # "off"
        /\ UNCHANGED <<chan, hook, kind, jobs, last_armed, armed, told>>
    BY <1>4 DEF Unwire, mavVars, coordVars
  <2>2. QED
    BY <2>1 DEF ArmInv, Pending
<1>5. CASE Close
  <2>1. /\ told' = None /\ chan' = [c \in Channels |-> "closed"]
        /\ UNCHANGED <<hook, kind, jobs, last_armed, armed>>
    BY <1>5 DEF Close
  <2>2. QED
    BY <2>1 DEF ArmInv, Channels, Pending
<1>6. CASE \E c \in Channels : Open(c)
  <2>1. PICK c \in Channels : Open(c)
    BY <1>6
  <2>2. /\ phase # "off" /\ chan[c] = "new" /\ chan' = [chan EXCEPT ![c] = "open"]
        /\ UNCHANGED <<phase, hook, kind, jobs, last_armed, armed, told>>
    BY <2>1 DEF Open, mavVars, coordVars
  <2>3. CASE c = "config"
    <3>1. told = None /\ told' = None
      BY <2>2, <2>3 DEF ArmInv
    <3>2. QED
      BY <2>2, <2>3, <3>1 DEF ArmInv, Pending
  <2>4. CASE c # "config"
    BY <2>2, <2>4 DEF ArmInv, Pending
  <2>5. QED
    BY <2>3, <2>4
<1>7. CASE \E k \in Kinds : Activate(k)
  <2>1. /\ kind = "none" /\ jobs = <<>> /\ jobs' = <<>>
        /\ UNCHANGED <<phase, chan, last_armed, armed, told>>
    BY <1>7 DEF Activate, Idle, sessionVars, mavVars, coordVars
  <2>2. armed = None
    BY <2>1 DEF ArmInv
  <2>3. QED
    BY <2>1, <2>2 DEF ArmInv
<1>8. CASE Drop
  <2>1. /\ kind' = "none" /\ jobs' = <<>> /\ last_armed' = None /\ armed' = None
        /\ UNCHANGED <<phase, chan, told>>
    BY <1>8 DEF Drop, Idle, sessionVars
  <2>2. QED
    BY <2>1 DEF ArmInv
<1>9. CASE \E n \in 1..Chunk : Read(n)
  <2>1. kind = "crsf" /\ UNCHANGED <<phase, chan, kind, last_armed, armed, told>>
    BY <1>9 DEF Read, sessionVars, mavVars, coordVars
  <2>2. armed = None
    BY <2>1 DEF ArmInv
  <2>3. QED
    BY <2>1, <2>2 DEF ArmInv
<1>10. CASE PutPlain \/ PutFix \/ PutGarbage \/ PutDamaged \/ Emit \/ UNCHANGED vars
  <2>1. UNCHANGED <<phase, chan, hook, kind, jobs, last_armed, armed, told>>
    BY <1>10
    DEF PutPlain, PutFix, PutGarbage, PutDamaged, Puts, Disturbs, Emit, vars, sessionVars, mavVars,
        coordVars
  <2>2. QED
    BY <2>1 DEF ArmInv, Pending
<1>11. CASE Unhook
  <2>1. ~hook' /\ UNCHANGED <<phase, chan, kind, jobs, last_armed, armed, told>>
    BY <1>11 DEF Unhook, mavVars, coordVars
  <2>2. QED
    BY <2>1 DEF ArmInv, Pending
<1>12. QED
  BY <1>1, <1>2, <1>3, <1>4, <1>5, <1>6, <1>7, <1>8, <1>9, <1>10, <1>11 DEF Next

\* What an operator was told of arming is what the controller last said, unless
\* the session's callback was taken away.
THEOREM OperatorKnowsArming == Spec => []ArmedTruthful
<1>1. Init => ArmInv
  BY DEF Init, ArmInv, Channels
<1>2. ArmInv /\ [Next]_vars => ArmInv'
  BY ArmStep
<1>3. ArmInv => ArmedTruthful
  BY DEF ArmInv, ArmedTruthful, Idle, Pending
<1>4. QED
  BY <1>1, <1>2, <1>3, PTL DEF Spec

(***************************************************************************)
(* The line of a CRSF controller.                                          *)
(***************************************************************************)

\* Bytes and frames, whatever the line carries.
LineTypes ==
    /\ wire \in Seq(Nat) /\ buf \in Seq(Nat)
    /\ made \in Seq(Frames) /\ heard \in Seq(Frames)

\* While no fault could be taken for a header: what is found in the buffer and
\* in what is still on the line is what the craft sent and was not found yet;
\* what is left then is noise, and the buffer by itself has nothing to find.
StreamInv ==
    /\ wire \in Seq(Nat) /\ buf \in Seq(Nat)
    /\ made \in Seq(Frames) /\ heard \in Seq(Frames)
    /\ made = heard \o parse_frames[buf \o wire].frames
    /\ Quiet(parse_frames[buf \o wire].buf)
    /\ parse_frames[buf].frames = <<>>

\* The line is one the parser can find its way on.
LEMMA LineIsSound == SoundLine
BY TelemetryAssumption DEF SoundLine

\* The frames the craft sends are not too long for the parser.
LEMMA SentFits ==
    ASSUME NEW f \in SentFrames
    PROVE  f \in Frames /\ Fits(f) /\ Crc(<<f.type>> \o f.payload) \in Nat
<1>1. Crc(<<f.type>> \o f.payload) \in Nat
  BY CrcAssumption
<1>2. f.type \in Nat /\ f.payload \in Seq(Nat) /\ Len(f.payload) <= 1
      /\ f = [type |-> f.type, payload |-> f.payload]
  <2>1. CASE \E t \in PlainTypes : f = [type |-> t, payload |-> <<1>>]
    BY <2>1, TelemetryAssumption
  <2>2. CASE \E p \in Nat : f = [type |-> FRAME_GPS, payload |-> <<p>>]
    BY <2>2 DEF FRAME_GPS
  <2>3. CASE f = [type |-> FRAME_GPS, payload |-> <<>>]
    BY <2>3 DEF FRAME_GPS
  <2>4. NoFix \in Nat /\ Positions \subseteq Nat
    BY DEF NoFix, Positions
  <2>5. CASE f \in PlainFrames
    <3>1. PlainFrames = {[type |-> t, payload |-> <<1>>] : t \in PlainTypes}
                        \cup {GpsFrame(NoFix), [type |-> FRAME_GPS, payload |-> <<>>]}
      BY DEF PlainFrames
    <3>2. QED
      BY <2>1, <2>2, <2>3, <2>4, <2>5, <3>1 DEF GpsFrame
  <2>6. QED
    BY <2>2, <2>4, <2>5 DEF SentFrames, GpsFrame
<1>3. Len(f.payload) + 2 <= MaxLen
  BY <1>2, TelemetryAssumption
<1>4. QED
  BY <1>1, <1>2, <1>3 DEF Fits, Frames

\* The line gets longer by x, and x adds the frames g to what is to be found.
LEMMA LineGrows ==
    ASSUME StreamInv, NEW x \in Seq(Nat), NEW g \in Seq(Frames),
           wire' = wire \o x, made' = made \o g, UNCHANGED <<buf, heard>>,
           NEW left \in Seq(Nat), Quiet(left),
           Parse(parse_frames[buf \o wire].buf \o x, g, left)
    PROVE  StreamInv'
<1> DEFINE s == buf \o wire
           p == parse_frames[s]
<1>1. /\ wire \in Seq(Nat) /\ buf \in Seq(Nat) /\ heard \in Seq(Frames) /\ made \in Seq(Frames)
      /\ made = heard \o p.frames /\ Quiet(p.buf) /\ parse_frames[buf].frames = <<>>
  BY DEF StreamInv
<1>2. s \in Seq(Nat) /\ wire' \in Seq(Nat) /\ made' \in Seq(Frames)
  BY <1>1, ConcatProperties
<1>3. p \in Parsed /\ p.frames \in Seq(Frames)
  BY <1>2, ParseTypes DEF Parsed
<1>4. buf \o (wire \o x) = s \o x
  <2>1. wire \in Seq(Nat) /\ buf \in Seq(Nat)
    BY <1>1
  <2>2. QED
    BY <2>1, BytesAssociate
<1>5. Parse(s \o x, p.frames \o g, left)
  <2>1. Parse(s \o x, p.frames \o parse_frames[p.buf \o x].frames, parse_frames[p.buf \o x].buf)
    BY <1>2, ParseInPieces
  <2>2. parse_frames[p.buf \o x].frames = g /\ parse_frames[p.buf \o x].buf = left
    BY DEF Parse
  <2>3. QED
    BY <2>1, <2>2
<1> HIDE DEF s, p
<1>6. heard \o (p.frames \o g) = (heard \o p.frames) \o g
  <2>1. heard \in Seq(Frames) /\ p.frames \in Seq(Frames) /\ g \in Seq(Frames)
    BY <1>1, <1>3
  <2>2. QED
    BY <2>1, FramesAssociate
<1>7. made' = heard' \o (p.frames \o g) /\ buf' \o wire' = s \o x
  BY <1>1, <1>4, <1>6
<1>8. parse_frames[buf' \o wire'].frames = p.frames \o g /\ parse_frames[buf' \o wire'].buf = left
  BY <1>5, <1>7 DEF Parse
<1>9. QED
  BY <1>1, <1>2, <1>7, <1>8 DEF StreamInv

\* A frame that is sent is found behind what is on the line.
LEMMA PutsStream ==
    ASSUME StreamInv, NEW f \in SentFrames, Puts(f)
    PROVE  StreamInv'
<1> DEFINE crc == Crc(<<f.type>> \o f.payload)
           r == parse_frames[buf \o wire].buf
<1>1. f \in Frames /\ Fits(f) /\ crc \in Nat
  BY SentFits
<1>2. buf \o wire \in Seq(Nat)
  BY ConcatProperties DEF StreamInv
<1>3. r \in Seq(Nat) /\ Quiet(r)
  BY <1>2, ParseTypes DEF StreamInv, Parsed
<1>4. Bytes(f) = BytesWith(f, crc)
  BY DEF Bytes, BytesWith
<1>5. Bytes(f) \in Seq(Nat)
  BY <1>1, <1>4, LineIsSound, OneFrame
<1> HIDE DEF r, crc
<1>6. Parse(r \o Bytes(f), <<f>>, <<>>)
  BY <1>1, <1>3, <1>4, LineIsSound, FrameBehindNoise DEF crc
<1>7. <<f>> \in Seq(Frames) /\ <<>> \in Seq(Nat) /\ Quiet(<<>>)
  BY <1>1 DEF Quiet
<1>8. Append(made, f) = made \o <<f>>
  BY <1>1, AppendIsConcat DEF StreamInv
<1>9. wire' = wire \o Bytes(f) /\ made' = made \o <<f>> /\ UNCHANGED <<buf, heard>>
  BY <1>8 DEF Puts
<1>10. QED
  BY <1>5, <1>6, <1>7, <1>9, LineGrows DEF r

\* Noise that is no length adds no frame.
LEMMA GarbageStream ==
    ASSUME StreamInv, PutGarbage, clean'
    PROVE  StreamInv'
<1>1. PICK g \in Garbage : Disturbs(<<g>>, g \in MIN_FRAME_LEN..MaxLen)
  BY DEF PutGarbage
<1> DEFINE x == <<g>>
           r == parse_frames[buf \o wire].buf
           left == parse_frames[r \o x].buf
<1>2. g \in Nat /\ g \notin MIN_FRAME_LEN..MaxLen
  BY <1>1, TelemetryAssumption DEF Disturbs
<1>3. x \in Seq(Nat) /\ Len(x) = 1 /\ x[1] = g
  BY <1>2
<1>4. buf \o wire \in Seq(Nat)
  BY ConcatProperties DEF StreamInv
<1>5. r \in Seq(Nat) /\ Quiet(r)
  BY <1>4, ParseTypes DEF StreamInv, Parsed
<1>6. wire' = wire \o x /\ UNCHANGED <<buf, made, heard>>
  BY <1>1 DEF Disturbs
<1> HIDE DEF r, x
<1>7. r \o x \in Seq(Nat) /\ Quiet(r \o x)
  <2>1. /\ r \o x \in Seq(Nat) /\ Len(r \o x) = Len(r) + Len(x)
        /\ \A i \in 1..(Len(r) + Len(x)) :
              (r \o x)[i] = IF i <= Len(r) THEN r[i] ELSE x[i - Len(r)]
    BY <1>3, <1>5, ConcatProperties
  <2>2. Len(r) \in Nat
    BY <1>5
  <2>3. ASSUME NEW i \in 1..Len(r \o x)
        PROVE  (r \o x)[i] \notin MIN_FRAME_LEN..MaxLen
    <3>1. i \in 1..(Len(r) + Len(x)) /\ (~(i <= Len(r)) => i - Len(r) = 1)
      BY <1>3, <2>1, <2>2
    <3>2. CASE i <= Len(r)
      <4>1. i \in 1..Len(r) /\ (r \o x)[i] = r[i]
        BY <2>1, <2>2, <3>1, <3>2
      <4>2. QED
        BY <1>5, <4>1 DEF Quiet
    <3>3. CASE ~(i <= Len(r))
      BY <1>2, <1>3, <2>1, <3>1, <3>3
    <3>4. QED
      BY <3>2, <3>3
  <2>4. QED
    BY <2>1, <2>3 DEF Quiet
<1>8. Parse(r \o x, <<>>, left) /\ Quiet(left) /\ left \in Seq(Nat)
  <2>1. parse_frames[r \o x].frames = <<>> /\ Quiet(left)
    BY <1>7, NoiseAlone
  <2>2. parse_frames[r \o x] \in Parsed
    BY <1>7, ParseTypes
  <2>3. QED
    BY <2>1, <2>2 DEF Parse, Parsed
<1>9. <<>> \in Seq(Frames) /\ made \o <<>> = made
  BY ConcatEmptySeq DEF StreamInv
<1> HIDE DEF left
<1>10. made' = made \o <<>>
  BY <1>6, <1>9
<1>11. QED
  BY <1>3, <1>6, <1>8, <1>9, <1>10, LineGrows DEF r

\* Neither does a frame whose checksum is wrong.
LEMMA DamagedStream ==
    ASSUME StreamInv, PutDamaged, clean'
    PROVE  StreamInv'
<1> DEFINE f == GpsFrame(NoFix)
           crc == Crc(<<f.type>> \o f.payload)
           b == Bytes(f)
           r == parse_frames[buf \o wire].buf
<1>0. PICK k \in 1..Len(b), c \in Garbage : c # b[k] /\ Disturbs([b EXCEPT ![k] = c], k # Len(b))
  BY DEF PutDamaged
<1> DEFINE x == [b EXCEPT ![Len(b)] = c]
<1>1. /\ wire' = wire \o x /\ UNCHANGED <<buf, made, heard>>
      /\ c \in Nat /\ c # b[Len(b)]
  BY <1>0, TelemetryAssumption DEF Disturbs
<1>2. f \in Frames /\ Fits(f) /\ crc \in Nat
  <2>1. f \in SentFrames
    BY DEF SentFrames, PlainFrames
  <2>2. QED
    BY <2>1, SentFits
<1>3. b = BytesWith(f, crc)
  BY DEF Bytes, BytesWith
<1> HIDE DEF f, crc, b
<1>4. b \in Seq(Nat) /\ Len(b) >= 4 /\ b[Len(b)] = crc
  BY <1>2, <1>3, LineIsSound, OneFrame
<1>5. x = BytesWith(f, c) /\ x \in Seq(Nat)
  <2> DEFINE front == <<AddrFc, Len(<<f.type>> \o f.payload) + 1>> \o (<<f.type>> \o f.payload)
             y == front \o <<c>>
  <2>1. front \in Seq(Nat)
    <3>1. f.type \in Nat /\ f.payload \in Seq(Nat) /\ AddrFc \in Nat
      BY <1>2, TelemetryAssumption DEF Frames
    <3>2. <<f.type>> \o f.payload \in Seq(Nat)
      BY <3>1, ConcatProperties
    <3>3. <<AddrFc, Len(<<f.type>> \o f.payload) + 1>> \in Seq(Nat)
      BY <3>1, <3>2
    <3>4. QED
      BY <3>2, <3>3, ConcatProperties
  <2>2. b = front \o <<crc>>
    BY <1>3 DEF BytesWith
  <2> HIDE DEF front
  <2>3. b = Append(front, crc) /\ y = Append(front, c)
    BY <1>1, <1>2, <2>1, <2>2, AppendIsConcat
  <2>4. x = y
    <3>0. crc \in Nat /\ c \in Nat /\ Len(front) \in Nat
      BY <1>1, <1>2, <2>1
    <3>1. /\ y \in Seq(Nat) /\ Len(y) = Len(front) + 1 /\ y[Len(front) + 1] = c
          /\ \A i \in 1..Len(front) : y[i] = front[i]
      BY <2>1, <2>3, <3>0, AppendProperties
    <3>2. /\ b \in Seq(Nat) /\ Len(b) = Len(front) + 1 /\ b[Len(front) + 1] = crc
          /\ \A i \in 1..Len(front) : b[i] = front[i]
      BY <2>1, <2>3, <3>0, AppendProperties
    <3> HIDE DEF y
    <3>3. Len(b) \in 1..Len(b) /\ x = [b EXCEPT ![Len(b)] = c]
      BY <3>0, <3>2
    <3>4. /\ x \in Seq(Nat) /\ Len(x) = Len(b)
          /\ \A i \in 1..Len(b) : x[i] = IF i = Len(b) THEN c ELSE b[i]
      BY <3>0, <3>2, <3>3, ExceptSeq
    <3> HIDE DEF x
    <3>5. ASSUME NEW i \in 1..Len(x)
          PROVE  x[i] = y[i]
      <4>1. i = Len(front) + 1 \/ i \in 1..Len(front)
        BY <3>0, <3>2, <3>4
      <4>2. QED
        BY <3>0, <3>1, <3>2, <3>4, <4>1
    <3>6. Len(x) = Len(y)
      BY <3>1, <3>2, <3>4
    <3>7. QED
      BY <3>1, <3>4, <3>5, <3>6, SeqEqual
  <2>5. y = BytesWith(f, c)
    BY DEF y, front, BytesWith
  <2>6. y \in Seq(Nat)
    BY <1>1, <2>1, <2>3, AppendProperties
  <2>7. QED
    BY <2>4, <2>5, <2>6
<1>6. buf \o wire \in Seq(Nat)
  BY ConcatProperties DEF StreamInv
<1>7. r \in Seq(Nat) /\ Quiet(r)
  BY <1>6, ParseTypes DEF StreamInv, Parsed
<1>8. c \in Nat /\ c # crc
  BY <1>1, <1>4
<1> HIDE DEF r, x
<1>9. Parse(r \o x, <<>>, <<>>)
  <2>1. crc = Crc(<<f.type>> \o f.payload)
    BY DEF crc
  <2>2. QED
    BY <1>2, <1>5, <1>7, <1>8, <2>1, LineIsSound, FrameBehindNoise
<1>10. <<>> \in Seq(Frames) /\ <<>> \in Seq(Nat) /\ Quiet(<<>>) /\ made \o <<>> = made
  BY ConcatEmptySeq DEF StreamInv, Quiet
<1>11. made' = made \o <<>>
  BY <1>1, <1>10
<1>12. QED
  BY <1>1, <1>5, <1>9, <1>10, <1>11, LineGrows DEF r

\* A chunk moves from the line to the buffer: what was found and what is still
\* to be found stay the same together, and so does what is left in the end.
LEMMA ReadKeeps ==
    ASSUME LineTypes, NEW n \in 1..Chunk, Read(n)
    PROVE  /\ LineTypes' /\ OneParse' = OneParse
           /\ parse_frames[buf' \o wire'].buf = parse_frames[buf \o wire].buf
           /\ parse_frames[buf'].frames = <<>>
<1> DEFINE c == SubSeq(wire, 1, n)
           d == SubSeq(wire, n + 1, Len(wire))
           b == buf \o c
           p == parse_frames[b]
           q == parse_frames[p.buf \o d]
<1>0. wire \in Seq(Nat) /\ buf \in Seq(Nat) /\ heard \in Seq(Frames) /\ made \in Seq(Frames)
  BY DEF LineTypes
<1>1. /\ buf' = p.buf /\ heard' = heard \o p.frames /\ wire' = d /\ made' = made
      /\ n <= Len(wire)
  BY DEF Read
<1>2. c \in Seq(Nat) /\ d \in Seq(Nat) /\ wire = c \o d
  <2>1. n \in 0..Len(wire)
    BY <1>0, <1>1
  <2>2. QED
    BY <1>0, <2>1, CutAt
<1> HIDE DEF c, d
<1>3. b \in Seq(Nat) /\ buf \o wire = b \o d
  <2>1. b \in Seq(Nat)
    BY <1>0, <1>2, ConcatProperties
  <2>2. buf \o (c \o d) = (buf \o c) \o d
    BY <1>0, <1>2, BytesAssociate
  <2>3. QED
    BY <1>2, <2>1, <2>2
<1> HIDE DEF b
<1>4. p \in Parsed /\ p.frames \in Seq(Frames) /\ p.buf \in Seq(Nat) /\ Waiting(p.buf)
  BY <1>3, ParseTypes, ParseSettles DEF Parsed
<1>5. Parse(b \o d, p.frames \o q.frames, q.buf)
  BY <1>2, <1>3, ParseInPieces
<1>6. q.frames \in Seq(Frames)
  <2>1. p.buf \o d \in Seq(Nat)
    BY <1>2, <1>4, ConcatProperties
  <2>2. QED
    BY <2>1, ParseTypes DEF Parsed
<1>7. parse_frames[p.buf].frames = <<>>
  BY <1>4, ParseWaits DEF Parse
<1>8. p.buf \o d = buf' \o wire'
  BY <1>1
<1> HIDE DEF p, q
<1>9. heard \o (p.frames \o q.frames) = (heard \o p.frames) \o q.frames
  <2>1. heard \in Seq(Frames) /\ p.frames \in Seq(Frames) /\ q.frames \in Seq(Frames)
    BY <1>0, <1>4, <1>6
  <2>2. QED
    BY <2>1, FramesAssociate
<1>10. q = parse_frames[buf' \o wire']
  BY <1>8 DEF q
<1>11. OneParse' = OneParse
  <2>1. OneParse' = heard' \o q.frames
    BY <1>10 DEF OneParse
  <2>2. OneParse = heard \o (p.frames \o q.frames)
    BY <1>3, <1>5 DEF OneParse, Parse
  <2>3. QED
    BY <1>1, <1>9, <2>1, <2>2
<1>12. heard \o p.frames \in Seq(Frames)
  BY <1>0, <1>4, ConcatProperties
<1>13. LineTypes'
  BY <1>0, <1>1, <1>2, <1>4, <1>12 DEF LineTypes
<1>14. QED
  BY <1>1, <1>3, <1>5, <1>7, <1>10, <1>11, <1>13 DEF Parse

\* So it keeps what is known of the line.
LEMMA ReadStream ==
    ASSUME StreamInv, NEW n \in 1..Chunk, Read(n)
    PROVE  StreamInv'
<1>1. LineTypes
  BY DEF StreamInv, LineTypes
<1>2. /\ LineTypes' /\ OneParse' = OneParse
      /\ parse_frames[buf' \o wire'].buf = parse_frames[buf \o wire].buf
      /\ parse_frames[buf'].frames = <<>>
  BY <1>1, ReadKeeps
<1>3. made' = made
  BY DEF Read
<1>4. made = OneParse /\ OneParse' = heard' \o parse_frames[buf' \o wire'].frames
  BY DEF StreamInv, OneParse
<1>5. QED
  BY <1>2, <1>3, <1>4 DEF StreamInv, LineTypes

\* A new line, with nothing on it.
LEMMA EmptyLine ==
    ASSUME wire' = <<>>, buf' = <<>>, made' = <<>>, heard' = <<>>
    PROVE  StreamInv'
<1>1. <<>> \in Seq(Nat) /\ Len(<<>>) = 0 /\ <<>> \in Seq(Frames)
  BY EmptySeq
<1>2. parse_frames[<<>>].frames = <<>> /\ parse_frames[<<>>].buf = <<>>
  BY ParseEmpty DEF Parse
<1>3. <<>> \o <<>> = <<>>
  BY ConcatEmptySeq, <1>1
<1>4. Quiet(<<>>)
  BY DEF Quiet
<1>5. QED
  BY <1>1, <1>2, <1>3, <1>4 DEF StreamInv

\* The craft counts its positions up to the bound.
LEMMA FixesStep ==
    ASSUME fixes \in Positions, [Next]_vars
    PROVE  fixes' \in Positions
<1>1. fixes' = fixes \/ (fixes < MaxFixes /\ fixes' = fixes + 1)
  BY DEF Next, Begin, Open, PeerLeaves, Unwire, Close, Unhook, Activate, Drop, PutPlain, PutFix,
      PutGarbage, PutDamaged, Disturbs, Read, RecvMessage, RecvHeartbeat, RecvOwnHeartbeat,
      RecvBattery, RecvNoFix, RecvFix, RecvPosition, RecvAck, RecvText, RecvOther, Callback,
      Unheard, OnPacket, OnGps, OnAttitude, OnHeartbeat, OnNotice, OnSilent, Hears, Emit, vars
<1>2. QED
  BY <1>1, TelemetryAssumption DEF Positions, NoFix

\* What the craft and the faults of its line add to the wire are bytes.
LEMMA WireTypes ==
    ASSUME LineTypes, fixes \in Positions, PutPlain \/ PutFix \/ PutGarbage \/ PutDamaged
    PROVE  /\ \E x \in Seq(Nat) : wire' = wire \o x
           /\ \E g \in Seq(Frames) : made' = made \o g
           /\ UNCHANGED <<buf, heard>>
<1>1. ASSUME NEW f \in SentFrames
      PROVE  f \in Frames /\ Bytes(f) \in Seq(Nat)
  <2> DEFINE crc == Crc(<<f.type>> \o f.payload)
  <2>1. f \in Frames /\ Fits(f) /\ crc \in Nat
    BY SentFits
  <2>2. Bytes(f) = BytesWith(f, crc)
    BY DEF Bytes, BytesWith
  <2> HIDE DEF crc
  <2>3. BytesWith(f, crc) \in Seq(Nat)
    BY <2>1, LineIsSound, OneFrame
  <2>4. QED
    BY <2>1, <2>2, <2>3
<1>2. ASSUME NEW f \in SentFrames, Puts(f)
      PROVE  /\ \E x \in Seq(Nat) : wire' = wire \o x
             /\ \E g \in Seq(Frames) : made' = made \o g
             /\ UNCHANGED <<buf, heard>>
  <2>1. f \in Frames /\ Bytes(f) \in Seq(Nat) /\ <<f>> \in Seq(Frames)
    BY <1>1
  <2>2. Append(made, f) = made \o <<f>>
    BY <2>1, AppendIsConcat DEF LineTypes
  <2>3. wire' = wire \o Bytes(f) /\ made' = made \o <<f>> /\ UNCHANGED <<buf, heard>>
    BY <1>2, <2>2 DEF Puts
  <2>4. QED
    BY <2>1, <2>3
<1>3. ASSUME NEW x \in Seq(Nat), NEW h, Disturbs(x, h)
      PROVE  /\ \E y \in Seq(Nat) : wire' = wire \o y
             /\ \E g \in Seq(Frames) : made' = made \o g
             /\ UNCHANGED <<buf, heard>>
  <2>1. made \o <<>> = made /\ <<>> \in Seq(Frames)
    BY ConcatEmptySeq DEF LineTypes
  <2>2. wire' = wire \o x /\ made' = made /\ UNCHANGED <<buf, heard>>
    BY <1>3 DEF Disturbs
  <2>3. QED
    BY <2>1, <2>2
<1>4. CASE PutPlain
  BY <1>2, <1>4 DEF PutPlain, SentFrames
<1>5. CASE PutFix
  <2>1. fixes + 1 \in Positions /\ Puts(GpsFrame(fixes + 1))
    BY <1>5, TelemetryAssumption DEF PutFix, Positions, NoFix
  <2>2. QED
    BY <1>2, <2>1 DEF SentFrames
<1>6. CASE PutGarbage
  <2>1. PICK g \in Garbage : Disturbs(<<g>>, g \in MIN_FRAME_LEN..MaxLen)
    BY <1>6 DEF PutGarbage
  <2>2. <<g>> \in Seq(Nat)
    BY TelemetryAssumption
  <2>3. QED
    BY <1>3, <2>1, <2>2
<1>7. CASE PutDamaged
  <2> DEFINE b == Bytes(GpsFrame(NoFix))
  <2>1. PICK i \in 1..Len(b), g \in Garbage : Disturbs([b EXCEPT ![i] = g], i # Len(b))
    BY <1>7 DEF PutDamaged
  <2>2. GpsFrame(NoFix) \in SentFrames
    BY DEF SentFrames, PlainFrames
  <2>3. b \in Seq(Nat) /\ g \in Nat
    BY <1>1, <2>2, TelemetryAssumption
  <2> HIDE DEF b
  <2>4. [b EXCEPT ![i] = g] \in Seq(Nat)
    BY <2>1, <2>3, ExceptSeq
  <2>5. QED
    BY <1>3, <2>1, <2>4
<1>8. QED
  BY <1>4, <1>5, <1>6, <1>7

\* A new line has no bytes and no frames.
LEMMA NoBytes ==
    ASSUME wire' = <<>>, buf' = <<>>, made' = <<>>, heard' = <<>>
    PROVE  LineTypes'
BY EmptySeq DEF LineTypes

\* Bytes stay bytes.
LEMMA LineTypesStep ==
    ASSUME LineTypes, fixes \in Positions, [Next]_vars
    PROVE  LineTypes'
<1>1. CASE PutPlain \/ PutFix \/ PutGarbage \/ PutDamaged
  <2>1. PICK x \in Seq(Nat), g \in Seq(Frames) :
           wire' = wire \o x /\ made' = made \o g /\ UNCHANGED <<buf, heard>>
    BY <1>1, WireTypes
  <2>2. wire \o x \in Seq(Nat) /\ made \o g \in Seq(Frames)
    BY ConcatProperties DEF LineTypes
  <2>3. QED
    BY <2>1, <2>2 DEF LineTypes
<1>2. CASE \E n \in 1..Chunk : Read(n)
  BY <1>2, ReadKeeps
<1>3. CASE Drop
  BY <1>3, NoBytes DEF Drop
<1>4. CASE UNCHANGED <<wire, buf, made, heard>>
  BY <1>4 DEF LineTypes
<1>5. QED
  BY <1>1, <1>2, <1>3, <1>4
  DEF Next, Begin, Open, PeerLeaves, Unwire, Close, Unhook, Activate, RecvMessage, RecvHeartbeat,
      RecvOwnHeartbeat, RecvBattery, RecvNoFix, RecvFix, RecvPosition, RecvAck, RecvText,
      RecvOther, Recv, Callback, Unheard, OnPacket, OnGps, OnAttitude, OnHeartbeat, OnNotice,
      OnSilent, Hears, Emit, vars, lineVars

\* A line that could have cost a frame stays one.
LEMMA CleanStep ==
    ASSUME [Next]_vars, clean'
    PROVE  clean
BY DEF Next, Begin, Open, PeerLeaves, Unwire, Close, Unhook, Activate, Drop, PutPlain, PutFix, Puts,
      PutGarbage, PutDamaged, Disturbs, Read, RecvMessage, RecvHeartbeat,
      RecvOwnHeartbeat, RecvBattery, RecvNoFix, RecvFix, RecvPosition, RecvAck, RecvText,
      RecvOther, Recv, Callback, Unheard, OnPacket, OnGps, OnAttitude, OnHeartbeat, OnNotice,
      OnSilent, Hears, Emit, vars, lineVars

\* No step loses a frame or finds one that was not sent.
LEMMA StreamStep ==
    ASSUME StreamInv, fixes \in Positions, [Next]_vars, clean'
    PROVE  StreamInv'
<1>1. CASE PutPlain
  BY <1>1, PutsStream DEF PutPlain, SentFrames
<1>2. CASE PutFix
  <2>1. fixes + 1 \in Positions /\ Puts(GpsFrame(fixes + 1))
    BY <1>2, TelemetryAssumption DEF PutFix, Positions, NoFix
  <2>2. QED
    BY <2>1, PutsStream DEF SentFrames
<1>3. CASE PutGarbage
  BY <1>3, GarbageStream
<1>4. CASE PutDamaged
  BY <1>4, DamagedStream
<1>5. CASE \E n \in 1..Chunk : Read(n)
  BY <1>5, ReadStream
<1>6. CASE Drop
  BY <1>6, EmptyLine DEF Drop
<1>7. CASE UNCHANGED <<wire, buf, made, heard>>
  BY <1>7 DEF StreamInv
<1>8. QED
  BY <1>1, <1>2, <1>3, <1>4, <1>5, <1>6, <1>7
  DEF Next, Begin, Open, PeerLeaves, Unwire, Close, Unhook, Activate, RecvMessage, RecvHeartbeat,
      RecvOwnHeartbeat, RecvBattery, RecvNoFix, RecvFix, RecvPosition, RecvAck, RecvText,
      RecvOther, Recv, Callback, Unheard, OnPacket, OnGps, OnAttitude, OnHeartbeat, OnNotice,
      OnSilent, Hears, Emit, vars, lineVars

\* At first nothing was sent and nothing heard.
LEMMA InitStream == Init => StreamInv /\ fixes \in Positions
<1>1. <<>> \in Seq(Nat) /\ Len(<<>>) = 0 /\ <<>> \in Seq(Frames)
  BY EmptySeq
<1>2. parse_frames[<<>>].frames = <<>> /\ parse_frames[<<>>].buf = <<>>
  BY ParseEmpty DEF Parse
<1>3. <<>> \o <<>> = <<>> /\ Quiet(<<>>)
  BY ConcatEmptySeq, <1>1 DEF Quiet
<1>4. 0 \in Positions
  BY TelemetryAssumption DEF Positions, NoFix
<1>5. QED
  BY <1>1, <1>2, <1>3, <1>4 DEF Init, StreamInv

StreamFlow == LineTypes /\ fixes \in Positions /\ (clean => StreamInv)

\* So frames are neither lost nor made up at any time.
LEMMA LineInvariant == Spec => []StreamFlow
<1>1. Init => StreamFlow
  BY InitStream DEF StreamFlow, StreamInv, LineTypes
<1>2. StreamFlow /\ [Next]_vars => StreamFlow'
  BY StreamStep, FixesStep, LineTypesStep, CleanStep DEF StreamFlow
<1>3. QED
  BY <1>1, <1>2, PTL DEF Spec

\* Where a chunk ends costs no frame, whatever the line carries: only a read
\* takes bytes from the line of a controller that stays.
THEOREM CutsAreHarmless == Spec => CutsCostNothing
<1>1. ASSUME StreamFlow, [Next]_vars, kind' = kind, Len(wire') < Len(wire)
      PROVE  OneParse' = OneParse
  <2>1. LineTypes /\ fixes \in Positions
    BY <1>1 DEF StreamFlow
  <2>2. CASE PutPlain \/ PutFix \/ PutGarbage \/ PutDamaged
    <3>1. PICK x \in Seq(Nat) : wire' = wire \o x
      BY <2>1, <2>2, WireTypes
    <3>2. Len(wire') = Len(wire) + Len(x) /\ Len(wire) \in Nat /\ Len(x) \in Nat
      BY <2>1, <3>1, ConcatProperties DEF LineTypes
    <3>3. QED
      BY <1>1, <3>2
  <2>3. CASE \E n \in 1..Chunk : Read(n)
    BY <2>1, <2>3, ReadKeeps
  <2>4. CASE Drop
    BY <1>1, <2>4 DEF Drop
  <2>5. CASE UNCHANGED wire
    <3>1. Len(wire) \in Nat
      BY <2>1 DEF LineTypes
    <3>2. QED
      BY <1>1, <2>5, <3>1
  <2>6. QED
    BY <1>1, <2>2, <2>3, <2>4, <2>5
    DEF Next, Begin, Open, PeerLeaves, Unwire, Close, Unhook, Activate, RecvMessage, RecvHeartbeat,
        RecvOwnHeartbeat, RecvBattery, RecvNoFix, RecvFix, RecvPosition, RecvAck, RecvText,
        RecvOther, Recv, Callback, Unheard, OnPacket, OnGps, OnAttitude, OnHeartbeat, OnNotice,
        OnSilent, Hears, Emit, vars, lineVars
<1>2. StreamFlow /\ [Next]_vars =>
         [kind' = kind /\ Len(wire') < Len(wire) => OneParse' = OneParse]_vars
  BY <1>1
<1>3. QED
  BY <1>2, LineInvariant, PTL DEF Spec, CutsCostNothing

\* The read loop finds each intact frame once and in order, whatever the
\* chunks, and whatever noise that is no length and wrong checksums come
\* between.
THEOREM EveryFrameIsFound == Spec => []FramesSurvive
<1>1. StreamFlow => FramesSurvive
  <2> SUFFICES ASSUME StreamInv PROVE FramesSurvive
    BY DEF StreamFlow, FramesSurvive
  <2> DEFINE g == parse_frames[buf \o wire].frames
  <2>1. /\ wire \in Seq(Nat) /\ buf \in Seq(Nat) /\ heard \in Seq(Frames)
        /\ made = heard \o g
    BY DEF StreamInv
  <2>2. g \in Seq(Frames)
    <3>1. buf \o wire \in Seq(Nat)
      BY <2>1, ConcatProperties
    <3>2. QED
      BY <3>1, ParseTypes DEF Parsed
  <2>3. wire = <<>> => g = <<>>
    BY <2>1, ConcatEmptySeq DEF StreamInv
  <2> HIDE DEF g
  <2>4. Len(made) = Len(heard) + Len(g) /\ Len(heard) \in Nat /\ Len(g) \in Nat
    BY <2>1, <2>2, ConcatProperties
  <2>5. heard = SubSeq(made, 1, Len(heard))
    <3>1. CASE Len(heard) = 0
      <4>1. heard = <<>>
        BY <2>1, <3>1, EmptySeq
      <4>2. 1 \in Int /\ Len(heard) \in Int /\ Len(heard) < 1
        BY <3>1
      <4>3. QED
        BY <4>1, <4>2, SubSeqEmpty
    <3>2. CASE Len(heard) # 0
      <4>1. 1 \in 1..Len(heard) /\ Len(heard) \in 1..Len(heard)
        BY <2>4, <3>2
      <4>2. SubSeq(heard \o g, 1, Len(heard)) = SubSeq(heard, 1, Len(heard))
        BY <2>1, <2>2, <4>1, SubSeqOfConcat1
      <4>3. QED
        BY <2>1, <4>2, SubSeqFull
    <3>3. QED
      BY <3>1, <3>2
  <2>6. wire = <<>> => heard = made
    BY <2>1, <2>3, ConcatEmptySeq
  <2>7. Len(heard) <= Len(made)
    BY <2>4
  <2>8. QED
    BY <2>5, <2>6, <2>7 DEF FramesSurvive
<1>2. QED
  BY <1>1, LineInvariant, PTL

(***************************************************************************)
(* Lists whose positions rise.                                             *)
(***************************************************************************)

\* The positions of s (val gives each element's, 0 if it has none) are between
\* lo and hi and never go back.
Rises(s, val, lo, hi) ==
    \A i \in 1..Len(s) :
        val[s[i]] # 0 => /\ lo <= val[s[i]] /\ val[s[i]] <= hi
                         /\ \A j \in i..Len(s) : val[s[j]] # 0 => val[s[i]] <= val[s[j]]

\* Nothing rises between any bounds.
LEMMA RisesEmpty == \A val, lo, hi : Rises(<<>>, val, lo, hi)
BY DEF Rises

\* What rises between bounds rises between wider ones.
LEMMA RisesWider ==
    ASSUME NEW S, NEW s \in Seq(S), NEW val \in [S -> Nat],
           NEW lo \in Nat, NEW hi \in Nat, NEW lo2 \in Nat, NEW hi2 \in Nat,
           lo2 <= lo, hi <= hi2, Rises(s, val, lo, hi)
    PROVE  Rises(s, val, lo2, hi2)
<1>1. \A i \in 1..Len(s) : val[s[i]] \in Nat
  OBVIOUS
<1>2. QED
  BY <1>1 DEF Rises

\* Two lists, the second from where the first ends.
LEMMA RisesJoin ==
    ASSUME NEW S, NEW s \in Seq(S), NEW t \in Seq(S), NEW val \in [S -> Nat],
           NEW lo \in Nat, NEW m \in Nat, NEW hi \in Nat, lo <= m, m <= hi,
           Rises(s, val, lo, m), Rises(t, val, m, hi)
    PROVE  Rises(s \o t, val, lo, hi)
<1> DEFINE u == s \o t
<1>1. /\ Len(s) \in Nat /\ Len(t) \in Nat /\ Len(u) = Len(s) + Len(t)
      /\ \A i \in 1..Len(u) : u[i] = IF i <= Len(s) THEN s[i] ELSE t[i - Len(s)]
  BY ConcatProperties
<1>2. /\ \A i \in 1..Len(s) : val[s[i]] \in Nat
      /\ \A i \in 1..Len(t) : val[t[i]] \in Nat
  OBVIOUS
<1> HIDE DEF u
<1>3. ASSUME NEW i \in 1..Len(u), val[u[i]] # 0
      PROVE  lo <= val[u[i]] /\ val[u[i]] <= hi
  <2>1. CASE i <= Len(s)
    <3>1. i \in 1..Len(s) /\ u[i] = s[i]
      BY <1>1, <2>1
    <3>2. QED
      BY <1>2, <1>3, <3>1 DEF Rises
  <2>2. CASE ~(i <= Len(s))
    <3>1. i - Len(s) \in 1..Len(t) /\ u[i] = t[i - Len(s)]
      BY <1>1, <2>2
    <3>2. QED
      BY <1>2, <1>3, <3>1 DEF Rises
  <2>3. QED
    BY <2>1, <2>2
<1>4. ASSUME NEW i \in 1..Len(u), NEW j \in i..Len(u), val[u[i]] # 0, val[u[j]] # 0
      PROVE  val[u[i]] <= val[u[j]]
  <2>0. /\ i \in Nat /\ j \in Nat /\ i <= j /\ i \in 1..Len(u) /\ j \in 1..Len(u)
        /\ Len(s) \in Nat /\ Len(t) \in Nat /\ Len(u) = Len(s) + Len(t)
    BY <1>1
  <2>1. CASE j <= Len(s)
    <3>0. i \in 1..Len(s) /\ j \in i..Len(s) /\ i <= Len(s)
      BY <2>0, <2>1
    <3>1. i \in 1..Len(s) /\ j \in i..Len(s) /\ u[i] = s[i] /\ u[j] = s[j]
      BY <1>1, <2>0, <2>1, <3>0
    <3>2. QED
      BY <1>4, <3>1 DEF Rises
  <2>2. CASE i <= Len(s) /\ ~(j <= Len(s))
    <3>0. i \in 1..Len(s) /\ j - Len(s) \in 1..Len(t)
      BY <2>0, <2>2
    <3>1. u[i] = s[i] /\ u[j] = t[j - Len(s)]
      BY <1>1, <2>0, <2>2
    <3>2. val[s[i]] <= m /\ m <= val[t[j - Len(s)]]
      BY <1>4, <3>0, <3>1 DEF Rises
    <3>3. val[s[i]] \in Nat /\ val[t[j - Len(s)]] \in Nat
      BY <1>2, <3>0
    <3>4. \A x, y \in Nat : x <= m /\ m <= y => x <= y
      OBVIOUS
    <3>5. QED
      BY <3>1, <3>2, <3>3, <3>4
  <2>3. CASE ~(i <= Len(s))
    <3>0. /\ i - Len(s) \in 1..Len(t) /\ j - Len(s) \in (i - Len(s))..Len(t)
          /\ ~(j <= Len(s))
      BY <2>0, <2>3
    <3>1. /\ i - Len(s) \in 1..Len(t) /\ j - Len(s) \in (i - Len(s))..Len(t)
          /\ u[i] = t[i - Len(s)] /\ u[j] = t[j - Len(s)]
      BY <1>1, <2>0, <2>3, <3>0
    <3>2. QED
      BY <1>4, <3>1 DEF Rises
  <2>4. QED
    BY <2>0, <2>1, <2>2, <2>3
<1>5. QED
  BY <1>1, <1>3, <1>4 DEF Rises, u

\* A single position between the bounds rises.
LEMMA RisesOne ==
    ASSUME NEW S, NEW e \in S, NEW val \in [S -> Nat], NEW lo \in Nat, NEW hi \in Nat,
           val[e] = 0 \/ (lo <= val[e] /\ val[e] <= hi)
    PROVE  <<e>> \in Seq(S) /\ Rises(<<e>>, val, lo, hi)
<1>1. <<e>> \in Seq(S) /\ Len(<<e>>) = 1 /\ <<e>>[1] = e /\ val[e] \in Nat
  OBVIOUS
<1>2. \A i \in 1..1 : i = 1 /\ \A j \in i..1 : j = 1
  OBVIOUS
<1>3. QED
  BY <1>1, <1>2 DEF Rises

\* A list is two lists, the second of which starts where the first ends.
LEMMA RisesSplit ==
    ASSUME NEW S, NEW s \in Seq(S), NEW t \in Seq(S), NEW val \in [S -> Nat],
           NEW lo \in Nat, NEW hi \in Nat, lo <= hi, Rises(s \o t, val, lo, hi)
    PROVE  \E m \in lo..hi : Rises(s, val, lo, m) /\ Rises(t, val, m, hi)
<1> DEFINE u == s \o t
           v(i) == val[s[i]]
           T == {m \in lo..hi : \A i \in 1..Len(s) : v(i) # 0 => v(i) <= m}
<1>1. /\ Len(s) \in Nat /\ Len(t) \in Nat /\ Len(u) = Len(s) + Len(t)
      /\ \A i \in 1..Len(u) : u[i] = IF i <= Len(s) THEN s[i] ELSE t[i - Len(s)]
  BY ConcatProperties
<1>2. /\ \A i \in 1..Len(s) : val[s[i]] \in Nat
      /\ \A i \in 1..Len(t) : val[t[i]] \in Nat
  OBVIOUS
<1>a. \A i \in 1..Len(s) : i \in 1..Len(u) /\ u[i] = s[i]
  BY <1>1
<1>b. \A i \in 1..Len(t) : i + Len(s) \in 1..Len(u) /\ u[i + Len(s)] = t[i]
  <2>1. \A i \in 1..Len(t) :
           i + Len(s) \in 1..Len(u) /\ ~(i + Len(s) <= Len(s)) /\ i + Len(s) - Len(s) = i
    BY <1>1
  <2>2. QED
    BY <1>1, <2>1
<1>r. Rises(u, val, lo, hi)
  OBVIOUS
<1> HIDE DEF u
<1>3. \A i \in 1..Len(s) : v(i) # 0 => lo <= v(i) /\ v(i) <= hi
  BY <1>a, <1>r DEF Rises
<1>4. T \in SUBSET Nat /\ T # {}
  <2>1. hi \in T
    BY <1>3
  <2>2. lo..hi \subseteq Nat /\ T \subseteq lo..hi
    OBVIOUS
  <2> HIDE DEF T
  <2>3. QED
    BY <2>1, <2>2
<1>5. PICK m \in T : \A k \in T : m <= k
  BY <1>4, SmallestOf
<1>6. m \in Nat /\ lo <= m /\ m <= hi
  BY <1>5
<1>7. Rises(s, val, lo, m)
  <2>1. ASSUME NEW i \in 1..Len(s), NEW j \in i..Len(s), v(i) # 0, v(j) # 0
        PROVE  v(i) <= v(j)
    <3>1. j \in 1..Len(s) /\ j \in i..Len(u)
      BY <1>1
    <3>2. QED
      BY <1>a, <1>r, <2>1, <3>1 DEF Rises
  <2>2. QED
    BY <1>3, <1>5, <2>1 DEF Rises
\* m is lo or the position of an element of s
<1>8. m = lo \/ \E i \in 1..Len(s) : v(i) = m /\ v(i) # 0
  <2>1. SUFFICES ASSUME m # lo, \A i \in 1..Len(s) : v(i) # 0 => v(i) # m
                 PROVE  FALSE
    OBVIOUS
  <2>2. m - 1 \in lo..hi
    BY <1>6, <2>1
  <2>3. \A i \in 1..Len(s) : v(i) # 0 => v(i) <= m - 1
    BY <1>2, <1>5, <1>6, <2>1
  <2>4. m - 1 \in T
    BY <2>2, <2>3
  <2>5. m <= m - 1
    BY <1>5, <2>4
  <2>6. QED
    BY <1>6, <2>5
<1>9. Rises(t, val, m, hi)
  <2>1. ASSUME NEW i \in 1..Len(t), val[t[i]] # 0
        PROVE  m <= val[t[i]] /\ val[t[i]] <= hi
    <3>1. lo <= val[t[i]] /\ val[t[i]] <= hi
      BY <1>b, <1>r, <2>1 DEF Rises
    <3>2. ASSUME NEW k \in 1..Len(s), v(k) # 0
          PROVE  v(k) <= val[t[i]]
      <4>1. i + Len(s) \in k..Len(u) /\ k \in 1..Len(u)
        BY <1>1, <1>b
      <4>2. /\ u[k] = s[k] /\ u[i + Len(s)] = t[i]
            /\ val[u[k]] # 0 /\ val[u[i + Len(s)]] # 0
        BY <1>a, <1>b, <2>1, <3>2
      <4>3. val[u[k]] <= val[u[i + Len(s)]]
        BY <1>r, <4>1, <4>2 DEF Rises
      <4>4. QED
        BY <4>2, <4>3
    <3>3. QED
      BY <1>8, <3>1, <3>2
  <2>2. ASSUME NEW i \in 1..Len(t), NEW j \in i..Len(t), val[t[i]] # 0, val[t[j]] # 0
        PROVE  val[t[i]] <= val[t[j]]
    <3>1. j \in 1..Len(t) /\ i + Len(s) \in 1..Len(u) /\ j + Len(s) \in (i + Len(s))..Len(u)
      BY <1>1
    <3>2. QED
      BY <1>b, <1>r, <2>2, <3>1 DEF Rises
  <2>3. QED
    BY <2>1, <2>2 DEF Rises
<1>10. QED
  BY <1>6, <1>7, <1>9

(***************************************************************************)
(* What the frames of a chunk ask for.                                     *)
(***************************************************************************)

\* Callbacks: the packet callback, or the telemetry callback with a decoded
\* message; only a position has one.
AnyJobs ==
    [to : {"packet"}]
    \cup {j \in [to : {"telemetry"},
                 d : [type : {"gps", "attitude", "battery", "device_info", "heartbeat",
                              "command_ack", "statustext"},
                      pos : Nat, armed : BOOLEAN]] :
             j.d.type # "gps" => j.d.pos = NoFix}

\* The position of a frame and of a callback, 0 if there is none.
frameFix ==
    [f \in Frames |-> IF f.type = FRAME_GPS /\ Len(f.payload) >= 1 THEN f.payload[1] ELSE 0]
jobFix == [j \in AnyJobs |-> IF j.to = "telemetry" THEN j.d.pos ELSE 0]

\* The position of a frame and of a callback is a number.
LEMMA FixTypes == frameFix \in [Frames -> Nat] /\ jobFix \in [AnyJobs -> Nat]
<1>1. \A f \in Frames : Len(f.payload) >= 1 => f.payload[1] \in Nat
  <2>1. ASSUME NEW s \in Seq(Nat), Len(s) >= 1
        PROVE  s[1] \in Nat
    BY <2>1, 1 \in 1..Len(s)
  <2>2. QED
    BY <2>1 DEF Frames
<1>2. \A j \in AnyJobs : j.to = "telemetry" => j.d.pos \in Nat
  BY DEF AnyJobs
<1>3. QED
  BY <1>1, <1>2 DEF frameFix, jobFix

\* A frame asks for nothing, or for its own telemetry and its forwarding.
LEMMA CallsOfFrame ==
    ASSUME NEW f \in Frames
    PROVE  /\ Forwarding \in AnyJobs /\ jobFix[Forwarding] = 0
           /\ \/ Calls(f) = <<>>
              \/ \E j \in AnyJobs : Calls(f) = <<j, Forwarding>> /\ jobFix[j] = frameFix[f]
<1>1. Forwarding \in AnyJobs /\ jobFix[Forwarding] = 0
  <2>1. Forwarding \in AnyJobs /\ Forwarding.to # "telemetry"
    BY DEF Forwarding, AnyJobs
  <2>2. QED
    BY <2>1 DEF jobFix
<1>2. CASE ~Understood(f)
  BY <1>1, <1>2 DEF Calls
<1>3. CASE Understood(f)
  <2> DEFINE j == Telling(Decoded(f), Position(f), FALSE)
  <2>1. Position(f) = frameFix[f] /\ Position(f) \in Nat
    <3>1. f.type = FRAME_GPS => Len(f.payload) >= 1
      BY <1>3 DEF Understood, Decoded, FRAME_GPS, FRAME_DEVICE_INFO, FRAME_BATTERY, FRAME_ATTITUDE
    <3>2. Position(f) = frameFix[f]
      BY <3>1 DEF Position, frameFix, NoFix
    <3>3. QED
      BY <3>2, FixTypes
  <2>2. /\ Decoded(f) \in {"gps", "attitude", "battery", "device_info"}
        /\ Decoded(f) # "gps" => Position(f) = NoFix
    BY <1>3
    DEF Understood, Decoded, Position, FRAME_GPS, FRAME_DEVICE_INFO, FRAME_BATTERY, FRAME_ATTITUDE
  <2>3. j \in AnyJobs /\ j.to = "telemetry" /\ j.d.pos = Position(f)
    BY <2>1, <2>2 DEF Telling, AnyJobs
  <2>4. Calls(f) = <<j, Forwarding>>
    BY <1>3 DEF Calls
  <2> HIDE DEF j
  <2>5. jobFix[j] = frameFix[f]
    BY <2>1, <2>3 DEF jobFix
  <2>6. QED
    BY <1>1, <2>3, <2>4, <2>5
<1>4. QED
  BY <1>2, <1>3

\* The callbacks of a frame are told the position of the frame.
LEMMA CallsRise ==
    ASSUME NEW f \in Frames, NEW lo \in Nat, NEW hi \in Nat, lo <= hi,
           frameFix[f] = 0 \/ (lo <= frameFix[f] /\ frameFix[f] <= hi)
    PROVE  Calls(f) \in Seq(AnyJobs) /\ Rises(Calls(f), jobFix, lo, hi)
<1>1. CASE Calls(f) = <<>>
  BY <1>1, EmptySeq, RisesEmpty
<1>2. ASSUME NEW j \in AnyJobs, Calls(f) = <<j, Forwarding>>, jobFix[j] = frameFix[f]
      PROVE  Calls(f) \in Seq(AnyJobs) /\ Rises(Calls(f), jobFix, lo, hi)
  <2>1. <<j>> \in Seq(AnyJobs) /\ Rises(<<j>>, jobFix, lo, hi)
    BY <1>2, FixTypes, RisesOne
  <2>2. <<Forwarding>> \in Seq(AnyJobs) /\ Rises(<<Forwarding>>, jobFix, hi, hi)
    BY CallsOfFrame, FixTypes, RisesOne
  <2>3. <<j, Forwarding>> = <<j>> \o <<Forwarding>>
    BY <2>1, CallsOfFrame, AppendIsConcat
  <2>4. <<j>> \o <<Forwarding>> \in Seq(AnyJobs)
    BY <2>1, <2>2, ConcatProperties
  <2>5. Rises(<<j>> \o <<Forwarding>>, jobFix, lo, hi)
    <3> DEFINE s == <<j>>
               t == <<Forwarding>>
    <3>1. s \in Seq(AnyJobs) /\ Rises(s, jobFix, lo, hi)
      BY <2>1
    <3>2. t \in Seq(AnyJobs) /\ Rises(t, jobFix, hi, hi)
      BY <2>2
    <3> HIDE DEF s, t
    <3>3. Rises(s \o t, jobFix, lo, hi)
      BY <3>1, <3>2, FixTypes, RisesJoin
    <3>4. QED
      BY <3>3 DEF s, t
  <2>6. QED
    BY <1>2, <2>3, <2>4, <2>5
<1>3. QED
  BY <1>1, <1>2, CallsOfFrame

\* A row of frames is its first frame and the rest.
LEMMA FramesTail ==
    ASSUME NEW s \in Seq(Frames), s # <<>>
    PROVE  /\ Head(s) \in Frames /\ Tail(s) \in Seq(Frames) /\ Len(Tail(s)) < Len(s)
           /\ s = <<Head(s)>> \o Tail(s)
<1>1. Head(s) \in Frames /\ Tail(s) \in Seq(Frames) /\ Len(Tail(s)) = Len(s) - 1 /\ Len(s) \in Nat
  BY HeadTailProperties
<1>2. Len(s) >= 1
  BY <1>1, EmptySeq
<1>3. s = <<Head(s)>> \o Tail(s)
  <2>1. 1 \in 1..Len(s) /\ Len(s) \in 1..Len(s) /\ 1 + 1 = 2
    BY <1>1, <1>2
  <2>2. SubSeq(s, 1, Len(s)) = <<s[1]>> \o SubSeq(s, 1 + 1, Len(s))
    BY <2>1, SubSeqRecursiveFirst
  <2>3. SubSeq(s, 1, Len(s)) = s /\ Tail(s) = SubSeq(s, 2, Len(s)) /\ Head(s) = s[1]
    BY SubSeqFull, TailIsSubSeq
  <2>4. QED
    BY <2>1, <2>2, <2>3
<1>4. QED
  BY <1>1, <1>2, <1>3

\* The recursion of Callbacks is well-founded.
CallbacksWith(s, f) == IF s = <<>> THEN <<>> ELSE Calls(Head(s)) \o f[Tail(s)]

\* Callbacks satisfies its own equation.
LEMMA CallbacksUnfold ==
    \A s \in Seq(Frames) : Callbacks[s] = CallbacksWith(s, Callbacks)
<1> DEFINE S == Seq(Frames)
           T == Seq(AnyJobs)
           rank == [s \in S |-> Len(s)]
           step == [x \in S \X [S -> T] |-> CallbacksWith(x[1], x[2])]
<1>1. T # {}
  BY EmptySeq
<1>2. rank \in [S -> Nat] /\ \A s \in S : rank[s] = Len(s)
  OBVIOUS
<1>3. step \in [S \X [S -> T] -> T]
  <2>1. ASSUME NEW s \in S, NEW f \in [S -> T]
        PROVE  CallbacksWith(s, f) \in T
    <3>1. CASE s = <<>>
      BY <3>1, EmptySeq DEF CallbacksWith
    <3>2. CASE s # <<>>
      <4>1. Head(s) \in Frames /\ f[Tail(s)] \in T
        BY <3>2, FramesTail
      <4>2. frameFix[Head(s)] \in Nat
        BY <4>1, FixTypes
      <4>3. Calls(Head(s)) \in T
        BY <4>1, <4>2, CallsRise
      <4>4. QED
        BY <3>2, <4>1, <4>3, ConcatProperties DEF CallbacksWith
    <3>3. QED
      BY <3>1, <3>2
  <2>2. \A x \in S \X [S -> T] : CallbacksWith(x[1], x[2]) \in T
    BY <2>1
  <2>3. QED
    BY <2>2
<1>4. \A s \in S, f \in [S -> T] : step[<<s, f>>] = CallbacksWith(s, f)
  OBVIOUS
<1> HIDE DEF rank, step
<1>5. ASSUME NEW s \in S, NEW f \in [S -> T], NEW g \in [S -> T],
             \A t \in S : rank[t] < rank[s] => f[t] = g[t]
      PROVE  step[<<s, f>>] = step[<<s, g>>]
  <2>1. s # <<>> => f[Tail(s)] = g[Tail(s)]
    BY <1>2, <1>5, FramesTail
  <2>2. CallbacksWith(s, f) = CallbacksWith(s, g)
    BY <2>1 DEF CallbacksWith
  <2>3. QED
    BY <1>4, <2>2
<1>6. PICK f \in [S -> T] : \A s \in S : f[s] = step[<<s, f>>]
  <2> HIDE DEF S, T
  <2>1. Descends(step, rank, S, T)
    BY <1>5 DEF Descends
  <2>2. Recursion(step, rank, S, T)
    BY <1>1, <1>2, <1>3, <2>1 DEF Recursion
  <2>3. Solved(step, S, T)
    BY <2>2, RecursionDefines
  <2>4. QED
    BY <2>3 DEF Solved
<1>7. f = [s \in S |-> CallbacksWith(s, f)]
  BY <1>4, <1>6
<1> DEFINE IsCallbacks(c) == c = [s \in Seq(Frames) |-> CallbacksWith(s, c)]
<1>8. IsCallbacks(CHOOSE c : IsCallbacks(c))
  BY <1>7
<1>9. Callbacks = CHOOSE c : IsCallbacks(c)
  BY DEF Callbacks, CallbacksWith
<1>10. IsCallbacks(Callbacks)
  BY <1>8, <1>9
<1>11. QED
  BY <1>10

\* What frames ask for are callbacks.
LEMMA CallbacksTyped == \A s \in Seq(Frames) : Callbacks[s] \in Seq(AnyJobs)
<1> DEFINE S == Seq(Frames)
           G == {s \in S : Callbacks[s] \in Seq(AnyJobs)}
           rank == [s \in S |-> Len(s)]
<1>1. rank \in [S -> Nat] /\ \A s \in S : rank[s] = Len(s)
  OBVIOUS
<1> HIDE DEF rank
<1>2. ASSUME NEW s \in S, \A u \in S : rank[u] < rank[s] => u \in G
      PROVE  Callbacks[s] \in Seq(AnyJobs)
  <2>1. CASE s = <<>>
    BY <2>1, EmptySeq, CallbacksUnfold DEF CallbacksWith
  <2>2. CASE s # <<>>
    <3>1. Head(s) \in Frames /\ Tail(s) \in S /\ Len(Tail(s)) < Len(s)
      BY <2>2, FramesTail
    <3>2. Callbacks[Tail(s)] \in Seq(AnyJobs)
      BY <1>1, <1>2, <3>1
    <3>3. frameFix[Head(s)] \in Nat
      BY <3>1, FixTypes
    <3>4. Calls(Head(s)) \in Seq(AnyJobs)
      BY <3>1, <3>3, CallsRise
    <3>5. Callbacks[s] = Calls(Head(s)) \o Callbacks[Tail(s)]
      BY <2>2, CallbacksUnfold DEF CallbacksWith
    <3>6. QED
      BY <3>2, <3>4, <3>5, ConcatProperties
  <2>3. QED
    BY <2>1, <2>2
<1>3. \A s \in S : (\A u \in S : rank[u] < rank[s] => u \in G) => s \in G
  BY <1>2
<1>4. S \subseteq G
  <2> HIDE DEF S, G
  <2>1. QED
    BY <1>1, <1>3, RankInduction
<1>5. QED
  BY <1>4

\* The positions asked for are those of the frames, in their order.
LEMMA CallbacksRise ==
    ASSUME NEW s \in Seq(Frames), NEW lo \in Nat, NEW hi \in Nat, lo <= hi,
           Rises(s, frameFix, lo, hi)
    PROVE  Callbacks[s] \in Seq(AnyJobs) /\ Rises(Callbacks[s], jobFix, lo, hi)
<1> DEFINE Good(t, a) == Callbacks[t] \in Seq(AnyJobs) /\ Rises(Callbacks[t], jobFix, a, hi)
           G == {t \in Seq(Frames) : \A a \in 0..hi : Rises(t, frameFix, a, hi) => Good(t, a)}
           rank == [t \in Seq(Frames) |-> Len(t)]
<1>1. rank \in [Seq(Frames) -> Nat] /\ \A t \in Seq(Frames) : rank[t] = Len(t)
  OBVIOUS
<1> HIDE DEF rank
<1>2. ASSUME NEW t \in Seq(Frames), \A u \in Seq(Frames) : rank[u] < rank[t] => u \in G,
             NEW a \in 0..hi, Rises(t, frameFix, a, hi)
      PROVE  Good(t, a)
  <2>1. CASE t = <<>>
    <3>1. Callbacks[t] = <<>>
      BY <2>1, CallbacksUnfold DEF CallbacksWith
    <3>2. QED
      BY <3>1, EmptySeq, RisesEmpty
  <2>2. CASE t # <<>>
    <3> DEFINE h == Head(t)
               u == Tail(t)
    <3>1. h \in Frames /\ u \in Seq(Frames) /\ Len(u) < Len(t) /\ t = <<h>> \o u
      BY <2>2, FramesTail
    <3>2. Callbacks[t] = Calls(h) \o Callbacks[u]
      BY <2>2, CallbacksUnfold DEF CallbacksWith
    <3> HIDE DEF h, u
    <3>3. <<h>> \in Seq(Frames) /\ Len(<<h>>) = 1 /\ <<h>>[1] = h /\ a \in Nat /\ a <= hi
      BY <3>1
    <3>4. PICK m \in a..hi : Rises(<<h>>, frameFix, a, m) /\ Rises(u, frameFix, m, hi)
      BY <1>2, <3>1, <3>3, FixTypes, RisesSplit
    <3>5. m \in Nat /\ a <= m /\ m <= hi /\ m \in 0..hi
      BY <3>3, <3>4
    <3>6. Good(u, m)
      BY <1>1, <1>2, <3>1, <3>4, <3>5
    <3>7. frameFix[h] = 0 \/ (a <= frameFix[h] /\ frameFix[h] <= m)
      BY <3>3, <3>4 DEF Rises
    <3>8. Calls(h) \in Seq(AnyJobs) /\ Rises(Calls(h), jobFix, a, m)
      BY <3>1, <3>3, <3>5, <3>7, CallsRise
    <3>9. Calls(h) \o Callbacks[u] \in Seq(AnyJobs)
      BY <3>6, <3>8, ConcatProperties
    <3>10. Rises(Calls(h) \o Callbacks[u], jobFix, a, hi)
      BY <3>3, <3>5, <3>6, <3>8, FixTypes, RisesJoin
    <3>11. QED
      BY <3>2, <3>9, <3>10
  <2>3. QED
    BY <2>1, <2>2
<1> HIDE DEF Good
<1>3. \A t \in Seq(Frames) : (\A u \in Seq(Frames) : rank[u] < rank[t] => u \in G) => t \in G
  BY <1>2
<1> HIDE DEF G
<1> DEFINE S == Seq(Frames)
<1>4. S \subseteq G
  <2>1. rank \in [S -> Nat] /\ \A t \in S : (\A u \in S : rank[u] < rank[t] => u \in G) => t \in G
    BY <1>1, <1>3
  <2> HIDE DEF S
  <2>2. QED
    BY <2>1, RankInduction
<1>5. Good(s, lo)
  BY <1>4 DEF G
<1>6. QED
  BY <1>5 DEF Good

(***************************************************************************)
(* The way of a position.                                                  *)
(***************************************************************************)

\* One more element, and one less.
LEMMA RisesAppend ==
    ASSUME NEW S, NEW s \in Seq(S), NEW e \in S, NEW val \in [S -> Nat],
           NEW lo \in Nat, NEW m \in Nat, NEW hi \in Nat, lo <= m, m <= hi,
           Rises(s, val, lo, m), val[e] = 0 \/ (m <= val[e] /\ val[e] <= hi)
    PROVE  Append(s, e) \in Seq(S) /\ Rises(Append(s, e), val, lo, hi)
<1> DEFINE t == <<e>>
<1>1. t \in Seq(S) /\ Rises(t, val, m, hi)
  BY RisesOne
<1>2. Append(s, e) = s \o t
  BY AppendIsConcat
<1>3. Append(s, e) \in Seq(S)
  BY AppendProperties
<1> HIDE DEF t
<1>4. Rises(s \o t, val, lo, hi)
  BY <1>1, RisesJoin
<1>5. QED
  BY <1>2, <1>3, <1>4

\* Taking the first of a row that rises: the rest starts from it.
LEMMA RisesTail ==
    ASSUME NEW S, NEW s \in Seq(S), NEW val \in [S -> Nat], NEW lo \in Nat, NEW hi \in Nat,
           lo <= hi, Rises(s, val, lo, hi), s # <<>>
    PROVE  /\ Head(s) \in S /\ Tail(s) \in Seq(S)
           /\ IF val[Head(s)] = 0 THEN Rises(Tail(s), val, lo, hi)
              ELSE /\ lo <= val[Head(s)] /\ val[Head(s)] <= hi
                   /\ Rises(Tail(s), val, val[Head(s)], hi)
<1>1. Head(s) \in S /\ Tail(s) \in Seq(S) /\ Len(Tail(s)) = Len(s) - 1 /\ Len(s) \in Nat
  BY HeadTailProperties
<1>2. Len(s) >= 1
  BY <1>1, EmptySeq
<1> DEFINE t == Tail(s)
<1>3. \A i \in 1..Len(t) : t[i] = s[i + 1]
  <2>1. Tail(s) = SubSeq(s, 2, Len(s))
    BY TailIsSubSeq
  <2>2. 2 \in Int /\ Len(s) \in Int /\ \A i \in 2..Len(s) : s[i] \in S
    BY <1>1
  <2>3. \A i \in 1..(Len(s) - 2 + 1) : SubSeq(s, 2, Len(s))[i] = s[2 + i - 1]
    BY <2>2, SubSeqProperties
  <2>4. QED
    BY <1>1, <2>1, <2>3
<1> HIDE DEF t
<1>4. Head(s) = s[1] /\ 1 \in 1..Len(s)
  BY <1>1, <1>2
<1>5. \A i \in 1..Len(t) : i + 1 \in 1..Len(s) /\ \A j \in i..Len(t) : j \in 1..Len(t) /\ j + 1 \in (i + 1)..Len(s)
  BY <1>1 DEF t
<1>6. ASSUME NEW i \in 1..Len(t), NEW j \in i..Len(t), val[t[i]] # 0, val[t[j]] # 0
      PROVE  val[t[i]] <= val[t[j]]
  BY <1>3, <1>5, <1>6 DEF Rises
<1>7. ASSUME NEW i \in 1..Len(t), val[t[i]] # 0
      PROVE  lo <= val[t[i]] /\ val[t[i]] <= hi
  BY <1>3, <1>5, <1>7 DEF Rises
<1>8. CASE val[Head(s)] = 0
  BY <1>1, <1>6, <1>7, <1>8 DEF Rises, t
<1>9. CASE val[Head(s)] # 0
  <2>1. lo <= val[s[1]] /\ val[s[1]] <= hi
    BY <1>4, <1>9 DEF Rises
  <2>2. ASSUME NEW i \in 1..Len(t), val[t[i]] # 0
        PROVE  val[s[1]] <= val[t[i]]
    <3>1. i + 1 \in 1..Len(s)
      BY <1>5
    <3>2. QED
      BY <1>3, <1>4, <1>9, <2>2, <3>1 DEF Rises
  <2>3. Rises(t, val, val[s[1]], hi)
    BY <1>6, <1>7, <2>2 DEF Rises
  <2>4. QED
    BY <1>1, <1>4, <1>9, <2>1, <2>3 DEF t
<1>10. QED
  BY <1>8, <1>9

\* The frames that the read loop has yet to find on its line.
Unfound == parse_frames[buf \o wire].frames

\* What was sent is what was heard and what is still to be found.
LEMMA UnfoundTypes == StreamInv => Unfound \in Seq(Frames) /\ made = heard \o Unfound
<1> SUFFICES ASSUME StreamInv PROVE Unfound \in Seq(Frames) /\ made = heard \o Unfound
  OBVIOUS
<1>1. buf \o wire \in Seq(Nat)
  BY ConcatProperties DEF StreamInv
<1>2. QED
  BY <1>1, ParseTypes DEF Parsed, StreamInv, Unfound

\* Rows of frames that agree with the same front agree.
LEMMA FramesCancel ==
    ASSUME NEW s \in Seq(Frames), NEW t \in Seq(Frames), NEW u \in Seq(Frames), s \o t = s \o u
    PROVE  t = u
BY ConcatSimplifications

\* How what is sent and what is found change it.
LEMMA UnfoundStep ==
    ASSUME StreamInv, StreamInv'
    PROVE  /\ UNCHANGED <<made, heard>> => Unfound' = Unfound
           /\ \A f \in Frames :
                 made' = Append(made, f) /\ heard' = heard => Unfound' = Append(Unfound, f)
           /\ \A g \in Seq(Frames) :
                 heard' = heard \o g /\ made' = made => Unfound = g \o Unfound'
<1>1. /\ Unfound \in Seq(Frames) /\ made = heard \o Unfound
      /\ heard \in Seq(Frames) /\ made \in Seq(Frames)
  BY UnfoundTypes DEF StreamInv
<1>2. Unfound' \in Seq(Frames) /\ made' = heard' \o Unfound'
  <2>1. (buf \o wire)' \in Seq(Nat)
    BY ConcatProperties DEF StreamInv
  <2>2. QED
    BY <2>1, ParseTypes DEF Parsed, StreamInv, Unfound
<1>3. UNCHANGED <<made, heard>> => Unfound' = Unfound
  BY <1>1, <1>2, FramesCancel
<1>4. ASSUME NEW f \in Frames, made' = Append(made, f), heard' = heard
      PROVE  Unfound' = Append(Unfound, f)
  <2>1. made' = made \o <<f>> /\ Append(Unfound, f) = Unfound \o <<f>>
    BY <1>1, <1>4, AppendIsConcat
  <2>2. <<f>> \in Seq(Frames) /\ Unfound \o <<f>> \in Seq(Frames)
    BY <1>1, AppendProperties, AppendIsConcat
  <2>3. made' = heard \o (Unfound \o <<f>>)
    BY <1>1, <2>1, <2>2, FramesAssociate
  <2>4. heard \o Unfound' = heard \o (Unfound \o <<f>>)
    BY <1>2, <1>4, <2>3
  <2>5. QED
    BY <1>1, <1>2, <2>1, <2>2, <2>4, FramesCancel
<1>5. ASSUME NEW g \in Seq(Frames), heard' = heard \o g, made' = made
      PROVE  Unfound = g \o Unfound'
  <2>1. g \o Unfound' \in Seq(Frames)
    BY <1>2, <1>5, ConcatProperties
  <2>2. heard \o (g \o Unfound') = (heard \o g) \o Unfound'
    BY <1>1, <1>2, <1>5, FramesAssociate
  <2>3. heard \o Unfound = heard \o (g \o Unfound')
    BY <1>1, <1>2, <1>5, <2>2
  <2>4. QED
    BY <1>1, <2>1, <2>3, FramesCancel
<1>6. QED
  BY <1>3, <1>4, <1>5

\* Messages for the data channels: a position goes out on "telemetry" only.
AnyMessages == {m \in [ch : Channels, pos : Nat] : m.ch = "telemetry" <=> m.pos # NoFix}

queueFix == [m \in AnyMessages |-> m.pos]

\* The position in a message of GLib's queue is a number.
LEMMA QueueFixTypes == queueFix \in [AnyMessages -> Nat]
BY DEF queueFix, AnyMessages

\* Callbacks, messages and positions, whatever the line carries.
FlowTypes ==
    /\ queue \in Seq(AnyMessages) /\ jobs \in Seq(AnyJobs)
    /\ emitted \in Nat /\ last \in Nat

\* What was emitted, what waits in GLib's queue, the coordinator's last position,
\* what the read loop is about to tell it, what is still to be found on the
\* line, and the craft's last fix: no position goes back along this way.
FlowInv ==
    /\ queue \in Seq(AnyMessages) /\ jobs \in Seq(AnyJobs)
    /\ emitted \in Nat /\ last \in Nat /\ fixes \in Nat
    /\ emitted <= last
    /\ Rises(queue, queueFix, emitted, last)
    /\ \E m \in last..fixes : Rises(jobs, jobFix, last, m) /\ Rises(Unfound, frameFix, m, fixes)

\* Only a CRSF controller has a line.
LineInv == kind # "crsf" => wire = <<>> /\ buf = <<>>

\* Only a CRSF controller has bytes on the line or in the buffer.
LEMMA LineStep ==
    ASSUME LineInv, [Next]_vars
    PROVE  LineInv'
<1>1. CASE UNCHANGED <<kind, wire, buf>>
  BY <1>1 DEF LineInv
<1>2. CASE kind = "crsf" /\ UNCHANGED kind
  BY <1>2 DEF LineInv
<1>3. CASE Drop
  BY <1>3 DEF Drop, LineInv
<1>4. CASE \E k \in Kinds : Activate(k)
  BY <1>4 DEF Activate, LineInv, lineVars
<1>5. QED
  BY <1>1, <1>2, <1>3, <1>4
  DEF Next, Begin, Open, PeerLeaves, Unwire, Close, Unhook, PutPlain, PutFix, PutGarbage, PutDamaged,
      Puts, Disturbs, Read, RecvMessage, RecvHeartbeat, RecvOwnHeartbeat, RecvBattery, RecvNoFix,
      RecvFix, RecvPosition, RecvAck, RecvText, RecvOther, Recv, Callback, Unheard, OnPacket,
      OnGps, OnAttitude, OnHeartbeat, OnNotice, OnSilent, Hears, Emit, vars, lineVars

\* The craft sends a frame.
LEMMA PutsFlow ==
    ASSUME FlowInv, StreamInv, StreamInv', NEW f \in SentFrames, Puts(f), fixes' \in Nat,
           \/ frameFix[f] = 0 /\ fixes' = fixes
           \/ frameFix[f] = fixes + 1 /\ fixes' = fixes + 1
    PROVE  FlowInv'
<1>1. /\ UNCHANGED <<queue, jobs, emitted, last, heard>> /\ made' = Append(made, f)
  BY DEF Puts, coordVars, outVars
<1>2. f \in Frames
  BY SentFits
<1>3. Unfound' = Append(Unfound, f) /\ Unfound \in Seq(Frames)
  BY <1>1, <1>2, UnfoundStep, UnfoundTypes
<1>4. PICK m \in last..fixes : Rises(jobs, jobFix, last, m) /\ Rises(Unfound, frameFix, m, fixes)
  BY DEF FlowInv
<1>5. /\ m \in Nat /\ fixes \in Nat /\ m <= fixes /\ fixes <= fixes' /\ m \in last..fixes'
      /\ frameFix[f] = 0 \/ (fixes <= frameFix[f] /\ frameFix[f] <= fixes')
  BY <1>4 DEF FlowInv
<1>6. Rises(Append(Unfound, f), frameFix, m, fixes')
  BY <1>2, <1>3, <1>4, <1>5, FixTypes, RisesAppend
<1>7. Rises(Unfound', frameFix, m, fixes') /\ Rises(jobs', jobFix, last', m) /\ m \in last'..fixes'
  BY <1>1, <1>3, <1>4, <1>5, <1>6
<1>8. QED
  BY <1>1, <1>7 DEF FlowInv

\* A frame without a position keeps the order of positions.
LEMMA PutPlainFlow ==
    ASSUME FlowInv, StreamInv, StreamInv', PutPlain
    PROVE  FlowInv'
<1>1. PICK f \in PlainFrames : Puts(f) /\ UNCHANGED fixes
  BY DEF PutPlain
<1>2. f \in SentFrames /\ f \in Frames
  BY SentFits DEF SentFrames
<1>3. frameFix[f] = 0
  <2>1. CASE f \in [type : PlainTypes, payload : {<<1>>}]
    BY <1>2, <2>1, TelemetryAssumption DEF frameFix
  <2>2. CASE f = GpsFrame(NoFix)
    <3>1. f.payload[1] = 0
      BY <2>2 DEF GpsFrame, NoFix
    <3>2. QED
      BY <1>2, <3>1 DEF frameFix
  <2>3. CASE f = [type |-> FRAME_GPS, payload |-> <<>>]
    <3>1. ~(Len(f.payload) >= 1)
      BY <2>3
    <3>2. QED
      BY <1>2, <3>1 DEF frameFix
  <2>4. QED
    BY <2>1, <2>2, <2>3 DEF PlainFrames
<1>4. fixes' \in Nat /\ fixes' = fixes
  BY <1>1 DEF FlowInv
<1>5. QED
  BY <1>1, <1>2, <1>3, <1>4, PutsFlow

\* The craft's next position is not behind any on its way.
LEMMA PutFixFlow ==
    ASSUME FlowInv, StreamInv, StreamInv', fixes \in Positions, PutFix
    PROVE  FlowInv'
<1> DEFINE f == GpsFrame(fixes + 1)
<1>1. Puts(f) /\ fixes' = fixes + 1 /\ fixes \in Nat /\ fixes + 1 \in Positions
  BY TelemetryAssumption DEF PutFix, Positions, NoFix
<1>2. f \in SentFrames
  BY <1>1 DEF SentFrames
<1>3. f \in Frames
  BY <1>2, SentFits
<1>4. frameFix[f] = fixes + 1
  <2>1. f.type = FRAME_GPS /\ Len(f.payload) = 1 /\ f.payload[1] = fixes + 1
    BY DEF GpsFrame
  <2> HIDE DEF f
  <2>2. QED
    BY <1>3, <2>1 DEF frameFix
<1> HIDE DEF f
<1>5. QED
  BY <1>1, <1>2, <1>4, PutsFlow

\* A chunk is read: what it completes is what the next callbacks tell.
LEMMA ReadFlow ==
    ASSUME FlowInv, StreamInv, StreamInv', NEW n \in 1..Chunk, Read(n)
    PROVE  FlowInv'
<1> DEFINE g == parse_frames[buf \o SubSeq(wire, 1, n)].frames
<1>1. /\ UNCHANGED <<queue, emitted, last, fixes, made>>
      /\ heard' = heard \o g /\ jobs' = Callbacks[g]
  BY DEF Read, coordVars, outVars
<1>2. g \in Seq(Frames)
  <2>1. wire \in Seq(Nat) /\ buf \in Seq(Nat) /\ n <= Len(wire)
    BY DEF Read, StreamInv
  <2>2. SubSeq(wire, 1, n) \in Seq(Nat)
    <3>1. n \in 0..Len(wire)
      BY <2>1
    <3>2. QED
      BY <2>1, <3>1, CutAt
  <2>3. buf \o SubSeq(wire, 1, n) \in Seq(Nat)
    BY <2>1, <2>2, ConcatProperties
  <2>4. QED
    BY <2>3, ParseTypes DEF Parsed
<1> HIDE DEF g
<1>3. Unfound = g \o Unfound' /\ Unfound' \in Seq(Frames)
  <2>1. Unfound' \in Seq(Frames)
    <3>1. (buf \o wire)' \in Seq(Nat)
      BY ConcatProperties DEF StreamInv
    <3>2. QED
      BY <3>1, ParseTypes DEF Parsed, Unfound
  <2>2. QED
    BY <1>1, <1>2, <2>1, UnfoundStep
<1>4. PICK m \in last..fixes : Rises(Unfound, frameFix, m, fixes)
  BY DEF FlowInv
<1>5. m \in Nat /\ last \in Nat /\ fixes \in Nat /\ last <= m /\ m <= fixes
  BY <1>4 DEF FlowInv
<1>6. PICK k \in m..fixes : Rises(g, frameFix, m, k) /\ Rises(Unfound', frameFix, k, fixes)
  BY <1>2, <1>3, <1>4, <1>5, FixTypes, RisesSplit
<1>7. k \in Nat /\ m <= k /\ k \in last..fixes
  BY <1>5, <1>6
<1>8. jobs' \in Seq(AnyJobs) /\ Rises(jobs', jobFix, m, k)
  BY <1>1, <1>2, <1>5, <1>6, <1>7, CallbacksRise
<1>9. Rises(jobs', jobFix, last, k)
  BY <1>5, <1>7, <1>8, FixTypes, RisesWider
<1>10. QED
  BY <1>1, <1>6, <1>7, <1>8, <1>9 DEF FlowInv

\* An empty line and buffer have nothing to be found.
LEMMA EmptyUnfound == wire = <<>> /\ buf = <<>> => Unfound = <<>>
<1>1. <<>> \o <<>> = <<>>
  BY EmptySeq, ConcatEmptySeq
<1>2. QED
  BY <1>1, ParseEmpty DEF Unfound, Parse

\* A message of MAVLink has no position or a new one.
Tells(id, tells) ==
    /\ Recv(id, tells)
    /\ fixes' \in Nat
    /\ \/ fixes' = fixes /\ tells = <<>>
       \/ fixes' = fixes /\ \E j \in AnyJobs : tells = <<j>> /\ jobFix[j] = 0
       \/ fixes' = fixes + 1 /\ \E j \in AnyJobs : tells = <<j>> /\ jobFix[j] = fixes + 1

\* Then it keeps the order of positions.
LEMMA RecvFlow ==
    ASSUME FlowInv, LineInv, NEW id, NEW tells, Tells(id, tells)
    PROVE  FlowInv'
<1>0. /\ Recv(id, tells)
      /\ fixes' \in Nat
      /\ \/ fixes' = fixes /\ tells = <<>>
         \/ fixes' = fixes /\ \E j \in AnyJobs : tells = <<j>> /\ jobFix[j] = 0
         \/ fixes' = fixes + 1 /\ \E j \in AnyJobs : tells = <<j>> /\ jobFix[j] = fixes + 1
  BY DEF Tells
<1>1. /\ UNCHANGED <<queue, emitted, last, wire, buf>> /\ kind = "mavlink"
      /\ jobs' = IF Passes(id) THEN Append(tells, Forwarding) ELSE tells
  BY <1>0 DEF Recv, lineVars, coordVars, outVars
<1>2. Unfound = <<>> /\ Unfound' = <<>>
  <2>1. wire = <<>> /\ buf = <<>>
    BY <1>1 DEF LineInv
  <2>2. Unfound = <<>>
    BY <2>1, EmptyUnfound
  <2>3. QED
    BY <1>1, <2>2 DEF Unfound
<1>3. /\ last \in Nat /\ fixes \in Nat /\ last <= fixes /\ fixes' \in Nat
      /\ fixes <= fixes' /\ last <= fixes' /\ fixes' \in last..fixes'
  BY <1>0 DEF FlowInv
<1>4. tells \in Seq(AnyJobs) /\ Rises(tells, jobFix, last, fixes')
  <2>1. CASE tells = <<>>
    BY <2>1, EmptySeq, RisesEmpty
  <2>2. ASSUME NEW j \in AnyJobs, tells = <<j>>,
               jobFix[j] = 0 \/ (jobFix[j] = fixes + 1 /\ fixes' = fixes + 1)
        PROVE  tells \in Seq(AnyJobs) /\ Rises(tells, jobFix, last, fixes')
    <3>1. jobFix[j] = 0 \/ (last <= jobFix[j] /\ jobFix[j] <= fixes')
      BY <1>3, <2>2
    <3>2. QED
      BY <1>3, <2>2, <3>1, FixTypes, RisesOne
  <2>3. QED
    BY <1>0, <2>1, <2>2
<1>5. jobs' \in Seq(AnyJobs) /\ Rises(jobs', jobFix, last, fixes')
  <2>1. CASE Passes(id)
    <3>1. Forwarding \in AnyJobs /\ jobFix[Forwarding] = 0
      <4>1. Forwarding \in AnyJobs /\ Forwarding.to # "telemetry"
        BY DEF Forwarding, AnyJobs
      <4>2. QED
        BY <4>1 DEF jobFix
    <3>2. fixes' <= fixes'
      BY <1>3
    <3>3. /\ Append(tells, Forwarding) \in Seq(AnyJobs)
          /\ Rises(Append(tells, Forwarding), jobFix, last, fixes')
      BY <1>3, <1>4, <3>1, <3>2, FixTypes, RisesAppend
    <3>4. QED
      BY <1>1, <2>1, <3>3
  <2>2. CASE ~Passes(id)
    BY <1>1, <1>4, <2>2
  <2>3. QED
    BY <2>1, <2>2
<1>6. Rises(Unfound', frameFix, fixes', fixes')
  BY <1>2, RisesEmpty
<1>7. QED
  BY <1>1, <1>3, <1>5, <1>6 DEF FlowInv

\* A telemetry callback has the position it is made with.
LEMMA TellingOf ==
    ASSUME NEW t \in {"gps", "attitude", "battery", "device_info", "heartbeat", "command_ack",
                      "statustext"},
           NEW p \in Nat, NEW a \in BOOLEAN, t # "gps" => p = NoFix
    PROVE  Telling(t, p, a) \in AnyJobs /\ jobFix[Telling(t, p, a)] = p
<1> DEFINE j == Telling(t, p, a)
<1>1. j \in AnyJobs /\ j.to = "telemetry" /\ j.d.pos = p
  BY DEF Telling, AnyJobs
<1> HIDE DEF j
<1>2. jobFix[j] = p
  BY <1>1 DEF jobFix
<1>3. QED
  BY <1>1, <1>2 DEF j

\* A MAVLink message tells of no position or of the newest.
LEMMA RecvMessageTells ==
    ASSUME fixes \in Nat, RecvMessage
    PROVE  \E id, tells : Tells(id, tells)
<1>1. fixes + 1 \in Nat
  OBVIOUS
<1>2. ASSUME NEW id, NEW t \in {"battery", "heartbeat", "command_ack", "statustext", "gps"},
             NEW a \in BOOLEAN,
             Recv(id, <<>>) \/ Recv(id, <<Telling(t, NoFix, a)>>), UNCHANGED fixes
      PROVE  \E i, tells : Tells(i, tells)
  <2>1. NoFix = 0 /\ NoFix \in Nat
    BY DEF NoFix
  <2>2. Telling(t, NoFix, a) \in AnyJobs /\ jobFix[Telling(t, NoFix, a)] = 0
    BY <2>1, TellingOf
  <2>3. fixes' \in Nat /\ fixes' = fixes
    BY <1>2
  <2>4. CASE Recv(id, <<>>)
    <3>1. Tells(id, <<>>)
      BY <2>3, <2>4 DEF Tells
    <3>2. QED
      BY <3>1
  <2>5. CASE Recv(id, <<Telling(t, NoFix, a)>>)
    <3>1. Tells(id, <<Telling(t, NoFix, a)>>)
      BY <2>2, <2>3, <2>5 DEF Tells
    <3>2. QED
      BY <3>1
  <2>6. QED
    BY <1>2, <2>4, <2>5
<1>3. CASE RecvFix
  <2> DEFINE j == Telling("gps", fixes + 1, FALSE)
  <2>1. Recv(POSITION, <<j>>) /\ fixes' = fixes + 1
    BY <1>3 DEF RecvFix, RecvPosition
  <2>2. j \in AnyJobs /\ jobFix[j] = fixes + 1
    BY <1>1, TellingOf
  <2> HIDE DEF j
  <2>3. Tells(POSITION, <<j>>)
    BY <1>1, <2>1, <2>2 DEF Tells
  <2>4. QED
    BY <2>3
<1>4. ASSUME NEW b \in BOOLEAN, NEW i, RecvHeartbeat(b) \/ RecvOwnHeartbeat(b) \/ RecvBattery(i, b)
      PROVE  \E id, tells : Tells(id, tells)
  <2>1. UNCHANGED fixes
    BY <1>4 DEF RecvHeartbeat, RecvOwnHeartbeat, RecvBattery
  <2>2. CASE RecvHeartbeat(b)
    <3>1. \/ Recv(HEARTBEAT, <<>>)
          \/ Recv(HEARTBEAT, <<Telling("heartbeat", NoFix, b)>>)
      BY <2>2 DEF RecvHeartbeat
    <3>2. QED
      BY <1>2, <2>1, <3>1
  <2>3. CASE RecvOwnHeartbeat(b)
    <3>1. Recv(HEARTBEAT, <<>>)
      BY <2>3 DEF RecvOwnHeartbeat
    <3>2. QED
      BY <1>2, <2>1, <3>1
  <2>4. CASE RecvBattery(i, b)
    <3>1. \/ Recv(i, <<>>)
          \/ Recv(i, <<Telling("battery", NoFix, FALSE)>>)
      BY <2>4 DEF RecvBattery
    <3>2. QED
      BY <1>2, <2>1, <3>1
  <2>5. QED
    BY <1>4, <2>2, <2>3, <2>4
<1>5. CASE RecvNoFix \/ RecvAck \/ RecvText
  <2>1. /\ \/ Recv(POSITION, <<Telling("gps", NoFix, FALSE)>>)
           \/ Recv(ACK, <<Telling("command_ack", NoFix, FALSE)>>)
           \/ Recv(TEXT, <<Telling("statustext", NoFix, FALSE)>>)
        /\ UNCHANGED fixes
    BY <1>5 DEF RecvNoFix, RecvPosition, RecvAck, RecvText
  <2>2. QED
    BY <1>2, <2>1
<1>6. CASE \E id \in Others \cup Mute : RecvOther(id)
  <2>1. PICK id : Recv(id, <<>>) /\ UNCHANGED fixes
    BY <1>6 DEF RecvOther
  <2>2. QED
    BY <1>2, <2>1
<1>7. QED
  BY <1>3, <1>4, <1>5, <1>6 DEF RecvMessage

\* So it keeps the order of positions.
LEMMA RecvMessageFlow ==
    ASSUME FlowInv, LineInv, RecvMessage
    PROVE  FlowInv'
<1>1. fixes \in Nat
  BY DEF FlowInv
<1>2. QED
  BY <1>1, RecvMessageTells, RecvFlow

\* The next callback is taken off.
LEMMA JobsFlow ==
    ASSUME FlowInv, jobs # <<>>
    PROVE  /\ Head(jobs) \in AnyJobs /\ Tail(jobs) \in Seq(AnyJobs)
           /\ \E m \in last..fixes :
                 Rises(Tail(jobs), jobFix, last, m) /\ Rises(Unfound, frameFix, m, fixes)
           /\ LET v == jobFix[Head(jobs)]
              IN  v # 0 => /\ v \in Nat /\ last <= v
                           /\ \E m \in v..fixes :
                                 Rises(Tail(jobs), jobFix, v, m) /\ Rises(Unfound, frameFix, m, fixes)
<1> DEFINE v == jobFix[Head(jobs)]
           t == Tail(jobs)
<1>1. PICK m \in last..fixes : Rises(jobs, jobFix, last, m) /\ Rises(Unfound, frameFix, m, fixes)
  BY DEF FlowInv
<1>2. last \in Nat /\ fixes \in Nat /\ m \in Nat /\ last <= m /\ m <= fixes /\ jobs \in Seq(AnyJobs)
  BY <1>1 DEF FlowInv
<1>3. /\ Head(jobs) \in AnyJobs /\ t \in Seq(AnyJobs)
      /\ IF v = 0 THEN Rises(t, jobFix, last, m)
         ELSE last <= v /\ v <= m /\ Rises(t, jobFix, v, m)
  BY <1>1, <1>2, FixTypes, RisesTail
<1>4. v \in Nat
  BY <1>3, FixTypes
<1> HIDE DEF v, t
<1>5. CASE v = 0
  BY <1>1, <1>3, <1>5 DEF v, t
<1>6. CASE v # 0
  <2>1. last <= v /\ v <= m /\ Rises(t, jobFix, v, m) /\ m <= m /\ m \in v..fixes
    BY <1>2, <1>3, <1>4, <1>6
  <2>2. Rises(t, jobFix, last, m)
    BY <1>2, <1>3, <1>4, <2>1, FixTypes, RisesWider
  <2>3. QED
    BY <1>1, <1>3, <1>4, <2>1, <2>2 DEF v, t
<1>7. QED
  BY <1>5, <1>6

\* What is sent does not go back behind what waits.
LEMMA SendFlow ==
    ASSUME FlowInv, NEW ch \in Channels, NEW p \in Nat, NEW newest \in Nat, last <= newest,
           ch = "telemetry" <=> p # NoFix, p = 0 \/ (last <= p /\ p <= newest), Send(ch, p)
    PROVE  queue' \in Seq(AnyMessages) /\ Rises(queue', queueFix, emitted, newest)
<1> DEFINE e == [ch |-> ch, pos |-> p]
<1>1. e \in AnyMessages /\ queueFix[e] = p
  BY DEF AnyMessages, queueFix
<1>2. queue' = queue \/ queue' = Append(queue, e)
  BY DEF Send
<1> HIDE DEF e
<1>3. /\ queue \in Seq(AnyMessages) /\ Rises(queue, queueFix, emitted, last)
      /\ emitted \in Nat /\ last \in Nat /\ emitted <= last
  BY DEF FlowInv
<1>4. emitted <= emitted
  BY <1>3
<1>5. Rises(queue, queueFix, emitted, newest)
  BY <1>3, <1>4, QueueFixTypes, RisesWider
<1>6. /\ Append(queue, e) \in Seq(AnyMessages)
      /\ Rises(Append(queue, e), queueFix, emitted, newest)
  BY <1>1, <1>3, QueueFixTypes, RisesAppend
<1>7. QED
  BY <1>2, <1>3, <1>5, <1>6

\* A callback that runs hands its position on, to the queue and to _last_telemetry.
LEMMA CallbackFlow ==
    ASSUME FlowInv, Callback
    PROVE  FlowInv'
<1>1. /\ jobs # <<>> /\ jobs' = Tail(jobs) /\ UNCHANGED <<emitted, fixes, wire, buf>>
  BY DEF Callback, Unheard, OnPacket, OnGps, OnAttitude, OnHeartbeat, OnNotice, OnSilent, Hears,
      lineVars, outVars
<1>2. Unfound' = Unfound
  BY <1>1 DEF Unfound
<1>3. /\ Head(jobs) \in AnyJobs /\ Tail(jobs) \in Seq(AnyJobs)
      /\ emitted \in Nat /\ last \in Nat /\ fixes \in Nat /\ emitted <= last /\ last <= last
      /\ queue \in Seq(AnyMessages) /\ Rises(queue, queueFix, emitted, last)
  BY <1>1, JobsFlow DEF FlowInv
<1>4. ASSUME UNCHANGED last, queue' \in Seq(AnyMessages), Rises(queue', queueFix, emitted, last)
      PROVE  FlowInv'
  <2>1. PICK m \in last..fixes :
           Rises(Tail(jobs), jobFix, last, m) /\ Rises(Unfound, frameFix, m, fixes)
    BY <1>1, JobsFlow
  <2>2. Rises(jobs', jobFix, last', m) /\ Rises(Unfound', frameFix, m, fixes') /\ m \in last'..fixes'
    BY <1>1, <1>2, <1>4, <2>1
  <2>3. QED
    BY <1>1, <1>3, <1>4, <2>2 DEF FlowInv
<1>5. ASSUME UNCHANGED <<last, queue>>
      PROVE  FlowInv'
  BY <1>3, <1>4, <1>5
<1>6. ASSUME UNCHANGED last, NEW ch \in {"packet", "config"}, Send(ch, NoFix)
      PROVE  FlowInv'
  <2>1. ch \in Channels /\ ch # "telemetry" /\ NoFix \in Nat /\ NoFix = 0
    BY DEF Channels, NoFix
  <2>2. queue' \in Seq(AnyMessages) /\ Rises(queue', queueFix, emitted, last)
    BY <1>3, <1>6, <2>1, SendFlow
  <2>3. QED
    BY <1>4, <1>6, <2>2
<1>7. CASE OnGps
  <2>1. CASE decoded.pos = NoFix
    BY <1>5, <1>7, <2>1 DEF OnGps
  <2>2. CASE decoded.pos # NoFix
    <3> DEFINE v == jobFix[Head(jobs)]
    <3>1. v = decoded.pos
      BY <1>3, <1>7 DEF OnGps, Hears, decoded, jobFix
    <3>2. last' = v /\ Send("telemetry", v)
      BY <1>7, <2>2, <3>1 DEF OnGps
    <3>3. v # 0 /\ v # NoFix
      BY <2>2, <3>1 DEF NoFix
    <3>4. v \in Nat /\ last <= v /\ \E m \in v..fixes :
             Rises(Tail(jobs), jobFix, v, m) /\ Rises(Unfound, frameFix, m, fixes)
      BY <1>1, <3>3, JobsFlow
    <3> HIDE DEF v
    <3>5. v <= v /\ emitted <= v
      BY <1>3, <3>4
    <3>6. "telemetry" \in Channels
      BY DEF Channels
    <3>7. queue' \in Seq(AnyMessages) /\ Rises(queue', queueFix, emitted, v)
      BY <3>2, <3>3, <3>4, <3>5, <3>6, SendFlow
    <3>8. PICK m \in v..fixes :
             Rises(Tail(jobs), jobFix, v, m) /\ Rises(Unfound, frameFix, m, fixes)
      BY <3>4
    <3>9. /\ Rises(jobs', jobFix, last', m) /\ Rises(Unfound', frameFix, m, fixes')
          /\ m \in last'..fixes'
      BY <1>1, <1>2, <3>2, <3>8
    <3>10. QED
      BY <1>1, <1>3, <3>2, <3>4, <3>5, <3>7, <3>9 DEF FlowInv
  <2>3. QED
    BY <2>1, <2>2
<1>8. CASE OnAttitude
  <2>1. CASE last = NoFix
    BY <1>5, <1>8, <2>1 DEF OnAttitude, coordVars
  <2>2. CASE last # NoFix
    <3>1. Send("telemetry", last) /\ UNCHANGED last /\ "telemetry" \in Channels
      BY <1>8, <2>2 DEF OnAttitude, coordVars, Channels
    <3>2. queue' \in Seq(AnyMessages) /\ Rises(queue', queueFix, emitted, last)
      BY <1>3, <2>2, <3>1, SendFlow
    <3>3. QED
      BY <1>4, <3>1, <3>2
  <2>3. QED
    BY <2>1, <2>2
<1>9. CASE OnHeartbeat \/ OnNotice
  <2>1. Send("config", NoFix) /\ UNCHANGED last
    BY <1>9 DEF OnHeartbeat, OnNotice, coordVars
  <2>2. QED
    BY <1>6, <2>1
<1>10. CASE Unheard \/ OnSilent
  BY <1>5, <1>10 DEF Unheard, OnSilent, coordVars, outVars
<1>11. CASE OnPacket
  <2>1. UNCHANGED last /\ (UNCHANGED queue \/ Send("packet", NoFix))
    BY <1>11 DEF OnPacket, coordVars
  <2>2. QED
    BY <1>5, <1>6, <2>1
<1>12. QED
  BY <1>7, <1>8, <1>9, <1>10, <1>11 DEF Callback

\* GLib's thread emits the oldest message.
LEMMA EmitFlow ==
    ASSUME FlowInv, Emit
    PROVE  FlowInv' /\ emitted' >= emitted
<1> DEFINE v == queueFix[Head(queue)]
           t == Tail(queue)
<1>1. /\ queue \in Seq(AnyMessages) /\ queue # <<>> /\ Rises(queue, queueFix, emitted, last)
      /\ emitted \in Nat /\ last \in Nat /\ emitted <= last
      /\ UNCHANGED <<jobs, last, fixes, wire, buf>> /\ queue' = t
      /\ emitted' = IF Head(queue).ch = "telemetry" THEN Head(queue).pos ELSE emitted
  BY DEF FlowInv, Emit, lineVars, coordVars
<1>2. /\ Head(queue) \in AnyMessages /\ t \in Seq(AnyMessages)
      /\ IF v = 0 THEN Rises(t, queueFix, emitted, last)
         ELSE emitted <= v /\ v <= last /\ Rises(t, queueFix, v, last)
  BY <1>1, QueueFixTypes, RisesTail
<1>3. v \in Nat /\ v = Head(queue).pos /\ (Head(queue).ch = "telemetry" <=> v # 0)
  BY <1>2 DEF AnyMessages, queueFix, NoFix
<1> HIDE DEF v, t
<1>4. emitted' = IF v = 0 THEN emitted ELSE v
  BY <1>1, <1>3
<1>5. emitted' \in Nat /\ emitted' >= emitted /\ emitted' <= last /\ Rises(t, queueFix, emitted', last)
  BY <1>1, <1>2, <1>3, <1>4
<1>6. Unfound' = Unfound
  BY <1>1 DEF Unfound
<1>7. FlowInv'
  BY <1>1, <1>2, <1>5, <1>6 DEF FlowInv
<1>8. QED
  BY <1>5, <1>7

\* No step turns the order of positions, nor shows an older one.
LEMMA FlowStep ==
    ASSUME FlowInv, LineInv, StreamInv, StreamInv', fixes \in Positions, [Next]_vars
    PROVE  FlowInv' /\ (emitted' >= emitted)
<1>0. emitted \in Nat /\ emitted >= emitted
  BY DEF FlowInv
<1>1. CASE PutPlain \/ PutFix
  <2>1. emitted' = emitted
    BY <1>1 DEF PutPlain, PutFix, Puts, outVars
  <2>2. QED
    BY <1>0, <1>1, <2>1, PutPlainFlow, PutFixFlow
<1>2. CASE \E n \in 1..Chunk : Read(n)
  <2>1. emitted' = emitted
    BY <1>2 DEF Read, outVars
  <2>2. QED
    BY <1>0, <1>2, <2>1, ReadFlow
<1>3. CASE RecvMessage
  <2>1. emitted' = emitted
    BY <1>3 DEF RecvMessage, RecvHeartbeat, RecvOwnHeartbeat, RecvBattery, RecvNoFix,
      RecvFix, RecvPosition, RecvAck, RecvText, RecvOther, Recv, outVars
  <2>2. QED
    BY <1>0, <1>3, <2>1, RecvMessageFlow
<1>4. CASE Callback
  <2>1. emitted' = emitted
    BY <1>4 DEF Callback, Unheard, OnPacket, OnGps, OnAttitude, OnHeartbeat, OnNotice, OnSilent,
      Hears, outVars
  <2>2. QED
    BY <1>0, <1>4, <2>1, CallbackFlow
<1>5. CASE Emit
  BY <1>5, EmitFlow
<1>6. CASE Drop
  <2>1. /\ UNCHANGED <<queue, jobs, emitted, last, fixes>> /\ wire' = <<>> /\ buf' = <<>>
    BY <1>6 DEF Drop, outVars
  <2>2. Unfound' = <<>>
    <3>1. <<>> \o <<>> = <<>>
      BY EmptySeq, ConcatEmptySeq
    <3>2. QED
      BY <2>1, <3>1, ParseEmpty DEF Unfound, Parse
  <2>3. \A m : Rises(Unfound', frameFix, m, fixes')
    BY <2>2, RisesEmpty
  <2>4. QED
    BY <1>0, <2>1, <2>3 DEF FlowInv
<1>7. CASE UNCHANGED <<queue, jobs, emitted, last, fixes, made, heard>>
  <2>1. Unfound' = Unfound
    BY <1>7, UnfoundStep
  <2>2. QED
    BY <1>0, <1>7, <2>1 DEF FlowInv
<1>8. QED
  BY <1>1, <1>2, <1>3, <1>4, <1>5, <1>6, <1>7
  DEF Next, Begin, Open, PeerLeaves, Unwire, Close, Unhook, Activate, PutGarbage, PutDamaged, Disturbs,
      vars, lineVars, coordVars, outVars

\* A message that is sent is one.
LEMMA SendTypes ==
    ASSUME FlowTypes, NEW ch \in Channels, NEW p \in Nat, ch = "telemetry" <=> p # NoFix, Send(ch, p)
    PROVE  queue' \in Seq(AnyMessages)
<1> DEFINE e == [ch |-> ch, pos |-> p]
<1>1. e \in AnyMessages
  BY DEF AnyMessages
<1>2. queue' = queue \/ queue' = Append(queue, e)
  BY DEF Send
<1> HIDE DEF e
<1>3. QED
  BY <1>1, <1>2, AppendProperties DEF FlowTypes

\* Callbacks and messages keep their types, whatever the line carries.
LEMMA FlowTypesStep ==
    ASSUME FlowTypes, LineTypes, fixes \in Positions, [Next]_vars
    PROVE  FlowTypes'
<1>0. /\ queue \in Seq(AnyMessages) /\ jobs \in Seq(AnyJobs)
      /\ emitted \in Nat /\ last \in Nat
  BY DEF FlowTypes
<1>1. CASE \E n \in 1..Chunk : Read(n)
  <2>1. PICK n \in 1..Chunk : Read(n)
    BY <1>1
  <2> DEFINE g == parse_frames[buf \o SubSeq(wire, 1, n)].frames
  <2>2. UNCHANGED <<queue, emitted, last>> /\ jobs' = Callbacks[g] /\ n <= Len(wire)
    BY <2>1 DEF Read, coordVars, outVars
  <2>3. wire \in Seq(Nat) /\ buf \in Seq(Nat)
    BY DEF LineTypes
  <2>4. SubSeq(wire, 1, n) \in Seq(Nat)
    <3>1. n \in 0..Len(wire)
      BY <2>2, <2>3
    <3>2. QED
      BY <2>3, <3>1, CutAt
  <2>5. g \in Seq(Frames)
    <3>1. buf \o SubSeq(wire, 1, n) \in Seq(Nat)
      BY <2>3, <2>4, ConcatProperties
    <3>2. QED
      BY <3>1, ParseTypes DEF Parsed
  <2> HIDE DEF g
  <2>6. jobs' \in Seq(AnyJobs)
    BY <2>2, <2>5, CallbacksTyped
  <2>7. QED
    BY <1>0, <2>2, <2>6 DEF FlowTypes
<1>2. CASE RecvMessage
  <2>1. fixes \in Nat
    BY TelemetryAssumption DEF Positions, NoFix
  <2>2. PICK id, tells : Tells(id, tells)
    BY <1>2, <2>1, RecvMessageTells
  <2>3. tells \in Seq(AnyJobs)
    <3>1. tells = <<>> \/ \E j \in AnyJobs : tells = <<j>>
      BY <2>2 DEF Tells
    <3>2. \A j \in AnyJobs : <<j>> \in Seq(AnyJobs)
      OBVIOUS
    <3>3. <<>> \in Seq(AnyJobs)
      BY EmptySeq
    <3>4. QED
      BY <3>1, <3>2, <3>3
  <2>4. /\ UNCHANGED <<queue, emitted, last>>
        /\ jobs' = IF Passes(id) THEN Append(tells, Forwarding) ELSE tells
    BY <2>2 DEF Tells, Recv, coordVars, outVars
  <2>5. Forwarding \in AnyJobs
    BY DEF Forwarding, AnyJobs
  <2>6. Append(tells, Forwarding) \in Seq(AnyJobs)
    BY <2>3, <2>5, AppendProperties
  <2>7. QED
    BY <1>0, <2>3, <2>4, <2>6 DEF FlowTypes
<1>3. CASE Callback
  <2>1. jobs # <<>> /\ jobs' = Tail(jobs) /\ UNCHANGED emitted
    BY <1>3 DEF Callback, Unheard, OnPacket, OnGps, OnAttitude, OnHeartbeat, OnNotice, OnSilent,
       Hears, outVars
  <2>2. Head(jobs) \in AnyJobs /\ Tail(jobs) \in Seq(AnyJobs)
    BY <1>0, <2>1, HeadTailProperties
  <2>3. "telemetry" \in Channels /\ "config" \in Channels /\ "packet" \in Channels /\ NoFix \in Nat
    BY DEF Channels, NoFix
  <2>4. queue' \in Seq(AnyMessages) /\ last' \in Nat
    <3>1. CASE OnGps
      <4>1. Head(jobs).to = "telemetry"
        BY <3>1 DEF OnGps, Hears
      <4>2. decoded.pos \in Nat
        BY <2>2, <4>1 DEF decoded, AnyJobs
      <4>3. CASE decoded.pos = NoFix
        BY <1>0, <3>1, <4>3 DEF OnGps
      <4>4. CASE decoded.pos # NoFix
        <5>1. last' = decoded.pos /\ Send("telemetry", decoded.pos)
          BY <3>1, <4>4 DEF OnGps
        <5>2. QED
          BY <2>3, <4>2, <4>4, <5>1, SendTypes
      <4>5. QED
        BY <4>3, <4>4
    <3>2. CASE OnAttitude
      <4>1. /\ UNCHANGED last
            /\ UNCHANGED queue \/ (last # NoFix /\ Send("telemetry", last))
        BY <3>2 DEF OnAttitude, coordVars
      <4>2. QED
        BY <1>0, <2>3, <4>1, SendTypes
    <3>3. CASE OnHeartbeat \/ OnNotice
      <4>1. Send("config", NoFix) /\ UNCHANGED last
        BY <3>3 DEF OnHeartbeat, OnNotice, coordVars
      <4>2. QED
        BY <1>0, <2>3, <4>1, SendTypes
    <3>4. CASE Unheard \/ OnSilent
      BY <1>0, <3>4 DEF Unheard, OnSilent, coordVars, outVars
    <3>5. CASE OnPacket
      <4>1. UNCHANGED last /\ (UNCHANGED queue \/ Send("packet", NoFix))
        BY <3>5 DEF OnPacket, coordVars
      <4>2. QED
        BY <1>0, <2>3, <4>1, SendTypes
    <3>6. QED
      BY <1>3, <3>1, <3>2, <3>3, <3>4, <3>5 DEF Callback
  <2>5. QED
    BY <1>0, <2>1, <2>2, <2>4 DEF FlowTypes
<1>4. CASE Emit
  <2>1. /\ queue # <<>> /\ queue' = Tail(queue) /\ UNCHANGED <<jobs, last>>
        /\ emitted' \in {emitted, Head(queue).pos}
    BY <1>4 DEF Emit, coordVars
  <2>2. Head(queue) \in AnyMessages /\ Tail(queue) \in Seq(AnyMessages)
    BY <1>0, <2>1, HeadTailProperties
  <2>3. emitted' \in Nat
    BY <1>0, <2>1, <2>2 DEF AnyMessages
  <2>4. QED
    BY <1>0, <2>1, <2>2, <2>3 DEF FlowTypes
<1>5. CASE UNCHANGED <<queue, jobs, emitted, last>>
  BY <1>5 DEF FlowTypes
<1>6. QED
  BY <1>1, <1>2, <1>3, <1>4, <1>5
  DEF Next, Begin, Open, PeerLeaves, Unwire, Close, Unhook, Activate, Drop, PutPlain, PutFix, Puts,
      PutGarbage, PutDamaged, Disturbs, vars, coordVars, outVars

LineFlow ==
    /\ LineTypes /\ fixes \in Positions /\ LineInv /\ FlowTypes
    /\ clean => StreamInv /\ FlowInv

\* So positions are in order along the whole way at any time.
LEMMA FlowInvariant == Spec => []LineFlow
<1>1. Init => StreamInv /\ fixes \in Positions
  BY InitStream
<1>2. Init => LineInv /\ FlowInv
  <2> SUFFICES ASSUME Init PROVE LineInv /\ FlowInv
    OBVIOUS
  <2>1. Unfound = <<>>
    BY EmptyUnfound DEF Init
  <2>2. /\ queue = <<>> /\ jobs = <<>> /\ emitted = 0 /\ last = 0 /\ fixes = 0
        /\ wire = <<>> /\ buf = <<>>
    BY DEF Init, NoFix
  <2>3. 0 \in 0..0
    OBVIOUS
  <2>4. QED
    BY <2>1, <2>2, <2>3, EmptySeq, RisesEmpty DEF FlowInv, LineInv
<1>3. Init => LineFlow
  <2>1. StreamInv => LineTypes
    BY DEF StreamInv, LineTypes
  <2>2. FlowInv => FlowTypes
    BY DEF FlowInv, FlowTypes
  <2>3. QED
    BY <1>1, <1>2, <2>1, <2>2 DEF LineFlow
<1>4. LineFlow /\ [Next]_vars => LineFlow'
  BY StreamStep, FixesStep, LineStep, LineTypesStep, FlowTypesStep, CleanStep, FlowStep DEF LineFlow
<1>5. QED
  BY <1>3, <1>4, PTL DEF Spec

\* The positions emitted never go back, across frames, chunks, controllers,
\* sessions and overtaken teardowns, as long as no fault could be taken for a
\* header.
THEOREM EmittedPositionsAdvance == Spec => PositionsAdvance
<1>1. LineFlow /\ [Next]_vars => [clean => emitted' > emitted]_emitted
  <2> SUFFICES ASSUME LineFlow, [Next]_vars, clean, emitted' # emitted PROVE emitted' > emitted
    OBVIOUS
  <2>1. Emit
    BY DEF Next, Begin, Open, PeerLeaves, Unwire, Close, Unhook, Activate, Drop, PutPlain, PutFix, Puts,
       PutGarbage, PutDamaged, Disturbs, Read, RecvMessage, RecvHeartbeat, RecvOwnHeartbeat,
       RecvBattery, RecvNoFix, RecvFix, RecvPosition, RecvAck, RecvText, RecvOther, Recv, Callback,
       Unheard, OnPacket, OnGps, OnAttitude, OnHeartbeat, OnNotice, OnSilent, Hears, vars, outVars
  <2>2. FlowInv
    BY DEF LineFlow
  <2>3. emitted \in Nat /\ emitted' \in Nat /\ emitted' >= emitted
    BY <2>1, <2>2, EmitFlow DEF FlowInv
  <2>4. QED
    BY <2>3
<1>2. QED
  BY <1>1, FlowInvariant, PTL DEF Spec, PositionsAdvance

(***************************************************************************)
(* Types.                                                                  *)
(***************************************************************************)

\* The types of what is not already typed above, and the bound of the buffer.
RestTypes ==
    /\ phase \in {"off", "on", "unwired"}
    /\ chan \in [Channels -> {"new", "open", "closed"}]
    /\ {hook, tail, clean} \subseteq BOOLEAN
    /\ kind \in {"none", "crsf", "mavlink"}
    /\ last_armed \in BOOLEAN \cup {None}
    /\ armed \in BOOLEAN \cup {None}
    /\ told \in BOOLEAN \cup {None}
    /\ faults \in 0..MaxFaults
    /\ Len(buf) <= MaxLen + 1
    /\ phase = "off" => \A c \in Channels : chan[c] # "open"

\* The session and its channels.
LEMMA SessionTypes ==
    ASSUME RestTypes,
           Begin \/ PeerLeaves \/ Unwire \/ Close \/ Unhook \/ \E c \in Channels : Open(c)
    PROVE  RestTypes'
<1>1. /\ UNCHANGED <<kind, last_armed, armed, faults, buf, clean>>
      /\ told' \in {told, None}
      /\ hook' \in {hook, TRUE, FALSE} /\ tail' \in {tail, TRUE, FALSE}
  BY DEF Begin, PeerLeaves, Unwire, Close, Unhook, Open, mavVars, lineVars, coordVars
<1>2. CASE Begin \/ PeerLeaves \/ Close
  <2>1. /\ phase' \in {"off", "on", "unwired"}
        /\ \/ chan' = [c \in Channels |-> "new"] /\ phase' # "off"
           \/ chan' = [c \in Channels |-> "closed"]
    BY <1>2 DEF Begin, PeerLeaves, Close, RestTypes
  <2>2. {hook', tail', clean'} \subseteq BOOLEAN
    BY <1>1 DEF RestTypes
  <2>3. told' \in BOOLEAN \cup {None}
    BY <1>1 DEF RestTypes
  <2>4. chan' \in [Channels -> {"new", "open", "closed"}]
    BY <2>1
  <2>5. phase' = "off" => \A c \in Channels : chan'[c] # "open"
    BY <2>1
  <2>6. QED
    BY <1>1, <2>1, <2>2, <2>3, <2>4, <2>5 DEF RestTypes
<1>3. CASE Unwire \/ Unhook
  BY <1>1, <1>3 DEF Unwire, Unhook, RestTypes
<1>4. CASE \E c \in Channels : Open(c)
  <2>1. PICK c \in Channels : Open(c)
    BY <1>4
  <2>2. phase # "off" /\ phase' = phase /\ chan' = [chan EXCEPT ![c] = "open"]
    BY <2>1 DEF Open
  <2>3. QED
    BY <1>1, <2>2 DEF RestTypes
<1>5. QED
  BY <1>2, <1>3, <1>4

\* The controllers and their lines.
LEMMA ControllerTypes ==
    ASSUME RestTypes, LineTypes,
           \/ \E k \in Kinds : Activate(k)
           \/ Drop \/ PutPlain \/ PutFix \/ PutGarbage \/ PutDamaged
           \/ \E n \in 1..Chunk : Read(n)
           \/ RecvMessage
    PROVE  RestTypes'
<1> USE TelemetryAssumption
<1>1. UNCHANGED <<phase, chan, hook, tail, told>>
  BY DEF Activate, Drop, PutPlain, PutFix, PutGarbage, PutDamaged, Puts, Disturbs, Read,
      RecvMessage, RecvHeartbeat, RecvOwnHeartbeat, RecvBattery, RecvNoFix, RecvFix, RecvPosition,
      RecvAck, RecvText, RecvOther, Recv, sessionVars, coordVars
<1>2. CASE \E k \in Kinds : Activate(k)
  BY <1>1, <1>2 DEF Activate, RestTypes, lineVars, mavVars
<1>3. CASE Drop
  <2>1. /\ kind' = "none" /\ buf' = <<>> /\ faults' = 0 /\ last_armed' = None /\ armed' = None
        /\ clean' = clean
    BY <1>3 DEF Drop
  <2>2. Len(<<>>) <= MaxLen + 1 /\ 0 \in 0..MaxFaults
    OBVIOUS
  <2>3. QED
    BY <1>1, <2>1, <2>2 DEF RestTypes
<1>4. CASE PutPlain \/ PutFix
  BY <1>1, <1>4 DEF PutPlain, PutFix, Puts, RestTypes, mavVars
<1>5. CASE PutGarbage \/ PutDamaged
  <2>1. /\ faults < MaxFaults /\ faults' = faults + 1 /\ UNCHANGED <<kind, buf, last_armed, armed>>
        /\ clean' \in BOOLEAN
    BY <1>5 DEF PutGarbage, PutDamaged, Disturbs, mavVars
  <2>2. faults' \in 0..MaxFaults
    BY <2>1 DEF RestTypes
  <2>3. QED
    BY <1>1, <2>1, <2>2 DEF RestTypes
<1>6. ASSUME NEW n \in 1..Chunk, Read(n)
      PROVE  RestTypes'
  <2> DEFINE b == buf \o SubSeq(wire, 1, n)
  <2>1. UNCHANGED <<kind, faults, clean, last_armed, armed>> /\ buf' = parse_frames[b].buf
    BY <1>6 DEF Read, mavVars
  <2>2. b \in Seq(Nat)
    <3>1. wire \in Seq(Nat) /\ buf \in Seq(Nat) /\ n <= Len(wire)
      BY <1>6 DEF Read, LineTypes
    <3>2. n \in 0..Len(wire)
      BY <3>1
    <3>3. SubSeq(wire, 1, n) \in Seq(Nat)
      BY <3>1, <3>2, CutAt
    <3>4. QED
      BY <3>1, <3>3, ConcatProperties
  <2> HIDE DEF b
  <2>3. MaxLen \in Nat /\ MaxLen >= 3
    OBVIOUS
  <2>4. Len(parse_frames[b].buf) <= MaxLen + 1
    BY <2>2, <2>3, ParseBound
  <2>5. QED
    BY <1>1, <2>1, <2>4 DEF RestTypes
<1>7. CASE RecvMessage
  <2>1. UNCHANGED <<kind, faults, buf, clean>>
    BY <1>7 DEF RecvMessage, RecvHeartbeat, RecvOwnHeartbeat, RecvBattery, RecvNoFix, RecvFix,
      RecvPosition, RecvAck, RecvText, RecvOther, Recv, lineVars
  <2>2. last_armed' \in BOOLEAN \cup {None} /\ armed' \in BOOLEAN \cup {None}
    BY <1>7 DEF RecvMessage, RecvHeartbeat, RecvOwnHeartbeat, RecvBattery, RecvNoFix, RecvFix,
      RecvPosition, RecvAck, RecvText, RecvOther, RestTypes
  <2>3. QED
    BY <1>1, <2>1, <2>2 DEF RestTypes
<1>8. QED
  BY <1>2, <1>3, <1>4, <1>5, <1>6, <1>7

\* The callbacks, and GLib's thread.
LEMMA OutwardTypes ==
    ASSUME RestTypes, FlowTypes, Callback \/ Emit
    PROVE  RestTypes'
<1>1. UNCHANGED <<sessionVars, kind, last_armed, armed, faults, buf, clean>>
  BY DEF Callback, Unheard, OnPacket, OnGps, OnAttitude, OnHeartbeat, OnNotice, OnSilent, Hears,
      Emit, sessionVars, mavVars, lineVars
<1>2. told' \in BOOLEAN \cup {None}
  <2>1. CASE OnHeartbeat
    <3>1. /\ told' = IF chan["config"] = "open" THEN decoded.armed ELSE told
          /\ jobs # <<>> /\ Head(jobs).to = "telemetry"
      BY <2>1 DEF OnHeartbeat, Hears
    <3>2. Head(jobs) \in AnyJobs
      BY <3>1, HeadTailProperties DEF FlowTypes
    <3>3. decoded.armed \in BOOLEAN
      BY <3>1, <3>2 DEF decoded, AnyJobs
    <3>4. QED
      BY <3>1, <3>3 DEF RestTypes
  <2>2. CASE UNCHANGED told
    BY <2>2 DEF RestTypes
  <2>3. QED
    BY <2>1, <2>2
    DEF Callback, Unheard, OnPacket, OnGps, OnAttitude, OnNotice, OnSilent, Emit, coordVars
<1>3. QED
  BY <1>1, <1>2 DEF RestTypes, sessionVars

\* No step breaks the types of the variables one by one.
LEMMA RestTypesStep ==
    ASSUME RestTypes, LineFlow, [Next]_vars
    PROVE  RestTypes'
<1>1. LineTypes /\ FlowTypes
  BY DEF LineFlow
<1>2. CASE UNCHANGED vars
  BY <1>2 DEF vars, sessionVars, lineVars, mavVars, coordVars, RestTypes
<1>3. QED
  BY <1>1, <1>2, SessionTypes, ControllerTypes, OutwardTypes DEF Next

\* A sequence of things that happen to be in T.
LEMMA SeqOf ==
    ASSUME NEW S, NEW T, NEW s \in Seq(S), \A i \in 1..Len(s) : s[i] \in T
    PROVE  s \in Seq(T)
OBVIOUS

\* So everything has its type.
LEMMA TypesFollow ==
    ASSUME RestTypes, ThrottleInv, LineFlow
    PROVE  TypeOK
<1>1. LineTypes /\ FlowTypes /\ fixes \in 0..MaxFixes
  BY DEF LineFlow, Positions, NoFix
<1>2. jobs \in Seq(Jobs)
  <2>1. jobs \in Seq(AnyJobs)
    BY <1>1 DEF FlowTypes
  <2>2. AnyJobs \subseteq Jobs
    BY DEF AnyJobs, Jobs, Decodes
  <2>3. QED
    BY <2>1, <2>2, SeqOf
<1>3. queue \in Seq(Messages)
  <2>1. queue \in Seq(AnyMessages)
    BY <1>1 DEF FlowTypes
  <2>2. AnyMessages \subseteq Messages
    BY DEF AnyMessages, Messages
  <2>3. QED
    BY <2>1, <2>2, SeqOf
<1>4. QED
  BY <1>1, <1>2, <1>3 DEF TypeOK, RestTypes, ThrottleInv, LineTypes, FlowTypes

\* Every variable has its type, and the read loop's buffer never holds more
\* than the longest frame less one byte, whatever the line carries.
THEOREM TypeCorrect == Spec => []TypeOK
<1>1. Init => RestTypes
  <2> SUFFICES ASSUME Init PROVE RestTypes
    OBVIOUS
  <2>1. buf = <<>> /\ Len(<<>>) <= MaxLen + 1 /\ 0 \in 0..MaxFaults
    BY TelemetryAssumption DEF Init
  <2>2. QED
    BY <2>1 DEF Init, RestTypes
<1>2. RestTypes /\ LineFlow /\ [Next]_vars => RestTypes'
  BY RestTypesStep
<1>3. Init => ThrottleInv
  BY TelemetryAssumption DEF Init, ThrottleInv, Watching, Channels
<1>4. ThrottleInv /\ [Next]_vars => ThrottleInv'
  BY ThrottleStep
<1>5. RestTypes /\ ThrottleInv /\ LineFlow => TypeOK
  BY TypesFollow
<1>6. QED
  BY <1>1, <1>2, <1>3, <1>4, <1>5, FlowInvariant, PTL DEF Spec
==============================================================================
