--------------------------------- MODULE Relay ---------------------------------
(***************************************************************************)
(* The operator's packets on their way to the flight controller: the       *)
(* packet channel's callback on a webrtcbin thread, the coroutine it posts *)
(* to the loop, FCService.send, and what the controller does with them.    *)
(* MavlinkController hands each one to the thread pool; CrsfController     *)
(* keeps the last RC frame and its repeater writes it again and again,     *)
(* until no new one came for a while.                                      *)
(*                                                                         *)
(* Three kinds of thread interleave: one webrtcbin thread per session, the *)
(* loop (one callback at a time), and the workers of the pool.             *)
(***************************************************************************)
EXTENDS Naturals, Sequences, FiniteSets

CONSTANTS
    MaxSessions, \* bound of an instance: how many sessions there are
    MaxSent,     \* bound of an instance: how many packets the operators send
    Controllers, \* identities of controller objects (a dropped one is reused)
    Kinds,       \* the protocols in the field: mavlink, crsf
    Workers,     \* the threads of the default executor
    Timeout,     \* RC_FRAME_TIMEOUT_SECONDS, in ticks of the clock
    None

Sessions == 1..MaxSessions
Packets  == [s : Sessions, n : 1..MaxSent, rc : BOOLEAN]

ASSUME RelayAssumption ==
    /\ MaxSessions \in Nat
    /\ MaxSent \in Nat
    /\ Timeout \in Nat \ {0}
    /\ None \notin Controllers \cup Packets
    /\ None \notin [c : Controllers, n : Nat]
    /\ None \notin [p : Packets, quiet : 0..Timeout]
    /\ Kinds \subseteq {"mavlink", "crsf"}
    /\ IsFiniteSet(Workers)

VARIABLES
    session, \* the number of the last session that began
    live,    \* that session has not ended
    wired,   \* the sessions whose packet channel has its on_packet set
    sent,    \* how many packets the operators have sent
    hand,    \* per session: the packet its webrtcbin thread is delivering
    stage,   \* ... and how far it is: idle, tested, called
    posted,  \* the coroutines FCService.send(packet) the loop has yet to run
    slot,    \* FCService._controller
    kind,    \* per controller: kind
    state,   \* per controller: free (none), open, closing (_closed is set)
    frame,   \* per controller: CrsfController._latest_rc_frame
    age,     \* per controller: ticks since _last_rc_recv, up to Timeout, while
             \* there is a frame
    pool,    \* the executor's queue of writes
    busy,    \* per worker: the write it has taken
    taken,   \* history: how many packets were handed to the pool
    quiet,   \* history: ticks since any controller got an RC frame
    echo,    \* history: the last frame repeated, and quiet when it was
    late     \* history: per session, packets posted after it ended

linkVars  == <<session, live, wired>>
inVars    == <<sent, hand, stage, posted>>
objVars   == <<slot, kind, state>>
rcVars    == <<frame, age>>
poolVars  == <<pool, busy, taken>>
histVars  == <<quiet, echo, late>>
vars      == <<linkVars, inVars, objVars, rcVars, poolVars, histVars>>

Writes == [c : Controllers, n : Nat]

TypeOK ==
    /\ session \in 0..MaxSessions
    /\ live \in BOOLEAN
    /\ wired \in SUBSET Sessions
    /\ sent \in 0..MaxSent
    /\ hand \in [Sessions -> Packets \cup {None}]
    /\ stage \in [Sessions -> {"idle", "tested", "called"}]
    /\ posted \in Seq(Packets)
    /\ slot \in Controllers \cup {None}
    /\ kind \in [Controllers -> {"mavlink", "crsf"}]
    /\ state \in [Controllers -> {"free", "open", "closing"}]
    /\ frame \in [Controllers -> Packets \cup {None}]
    /\ age \in [Controllers -> 0..Timeout]
    /\ pool \in Seq(Writes)
    /\ busy \in [Workers -> Writes \cup {None}]
    /\ taken \in Nat
    /\ quiet \in 0..Timeout
    /\ echo = None \/ echo \in [p : Packets, quiet : 0..Timeout]
    /\ late \in [Sessions -> Nat]
    \* a thread that delivers has a packet
    /\ \A s \in Sessions : stage[s] # "idle" => hand[s] # None

Init ==
    /\ session = 0
    /\ live = FALSE
    /\ wired = {}
    /\ sent = 0
    /\ hand = [s \in Sessions |-> None]
    /\ stage = [s \in Sessions |-> "idle"]
    /\ posted = <<>>
    /\ slot = None
    /\ kind = [c \in Controllers |-> "mavlink"]
    /\ state = [c \in Controllers |-> "free"]
    /\ frame = [c \in Controllers |-> None]
    /\ age = [c \in Controllers |-> 0]
    /\ pool = <<>>
    /\ busy = [w \in Workers |-> None]
    /\ taken = 0
    /\ quiet = Timeout
    /\ echo = None
    /\ late = [s \in Sessions |-> 0]

-----------------------------------------------------------------------------
(* The sessions, and the packet channel's callback on its webrtcbin thread. *)

\* start_session of a new manager: on_packet = _forward_to_fc.
Wire ==
    /\ ~live
    /\ session < MaxSessions
    /\ session' = session + 1
    /\ live' = TRUE
    /\ wired' = wired \cup {session + 1}
    /\ UNCHANGED <<inVars, objVars, rcVars, poolVars, histVars>>

\* Mutant: only the flight controller's side is unwired.
MutantStayWired ==
    /\ live
    /\ live' = FALSE
    /\ UNCHANGED <<session, wired, inVars, objVars, rcVars, poolVars, histVars>>

\* end_session: on_packet = None.
Unwire ==
    /\ live
    /\ live' = FALSE
    /\ wired' = wired \ {session}
    /\ UNCHANGED <<session, inVars, objVars, rcVars, poolVars, histVars>>

\* A packet of session s arrives and passes the test of on_packet; one that
\* fails it, or is lost on the way, changes nothing.
Receive(s, rc) ==
    /\ stage[s] = "idle"
    /\ s \in wired
    /\ sent < MaxSent
    /\ sent' = sent + 1
    /\ hand' = [hand EXCEPT ![s] = [s |-> s, n |-> sent + 1, rc |-> rc]]
    /\ stage' = [stage EXCEPT ![s] = "tested"]
    /\ UNCHANGED <<linkVars, posted, objVars, rcVars, poolVars, histVars>>

\* self.on_packet(...) reads the attribute again: None(...) raises, is logged.
Call(s) ==
    /\ stage[s] = "tested"
    /\ stage' = [stage EXCEPT ![s] = IF s \in wired THEN "called" ELSE "idle"]
    /\ hand' = [hand EXCEPT ![s] = IF s \in wired THEN @ ELSE None]
    /\ UNCHANGED <<linkVars, sent, posted, objVars, rcVars, poolVars, histVars>>

\* _forward_to_fc: run_coroutine_threadsafe(fc_service.send(data), loop).
Forward(s) ==
    /\ stage[s] = "called"
    /\ posted' = Append(posted, hand[s])
    /\ hand' = [hand EXCEPT ![s] = None]
    /\ stage' = [stage EXCEPT ![s] = "idle"]
    /\ late' = [late EXCEPT ![s] = IF live /\ s = session THEN @ ELSE @ + 1]
    /\ UNCHANGED <<linkVars, sent, objVars, rcVars, poolVars, quiet, echo>>

-----------------------------------------------------------------------------
(* FCService.send on the loop: drop, hand to the pool, keep or write. *)

Next1 == Head(posted)

Accepts == slot # None /\ state[slot] = "open"

\* No controller, or one that is closed.
SendDropped ==
    /\ posted # <<>>
    /\ ~Accepts
    /\ posted' = Tail(posted)
    /\ UNCHANGED <<linkVars, sent, hand, stage, objVars, rcVars, poolVars, histVars>>

\* MavlinkController.send: to_thread(_safe_write, data).
SendMavlink ==
    /\ posted # <<>>
    /\ Accepts
    /\ kind[slot] = "mavlink"
    /\ posted' = Tail(posted)
    /\ taken' = taken + 1
    /\ pool' = Append(pool, [c |-> slot, n |-> taken + 1])
    /\ UNCHANGED <<linkVars, sent, hand, stage, objVars, rcVars, busy, histVars>>

\* CrsfController.send of an RC frame: kept, with the time it came.
SendRC ==
    /\ posted # <<>>
    /\ Accepts
    /\ kind[slot] = "crsf"
    /\ Next1.rc
    /\ posted' = Tail(posted)
    /\ frame' = [frame EXCEPT ![slot] = Next1]
    /\ age' = [age EXCEPT ![slot] = 0]
    /\ quiet' = 0
    /\ UNCHANGED <<linkVars, sent, hand, stage, objVars, poolVars, echo, late>>

\* Mutant: every packet counts as a sign of life of the operator.
MutantAnyPacketStamps ==
    /\ posted # <<>>
    /\ Accepts
    /\ kind[slot] = "crsf"
    /\ ~Next1.rc
    /\ posted' = Tail(posted)
    /\ age' = [age EXCEPT ![slot] = 0]
    /\ UNCHANGED <<linkVars, sent, hand, stage, objVars, frame, poolVars, histVars>>

\* CrsfController.send of another frame: written at once.
SendDirect ==
    /\ posted # <<>>
    /\ Accepts
    /\ kind[slot] = "crsf"
    /\ ~Next1.rc
    /\ posted' = Tail(posted)
    /\ UNCHANGED <<linkVars, sent, hand, stage, objVars, rcVars, poolVars, histVars>>

Send == SendDropped \/ SendMavlink \/ SendRC \/ SendDirect

-----------------------------------------------------------------------------
(* The repeater of CrsfController, the workers of the pool, the clock. *)

\* One round of _rc_pump_loop with a frame: an old one is thrown away.
Expire(c) ==
    /\ state[c] = "open"
    /\ frame[c] # None
    /\ age[c] = Timeout
    /\ frame' = [frame EXCEPT ![c] = None]
    /\ age' = [age EXCEPT ![c] = 0]
    /\ UNCHANGED <<linkVars, inVars, objVars, poolVars, histVars>>

\* Mutant: the repeater of a closed controller goes on.
MutantPumpGoesOn(c) ==
    /\ frame[c] # None
    /\ age[c] < Timeout
    /\ echo' = [p |-> frame[c], quiet |-> quiet]
    /\ UNCHANGED <<linkVars, inVars, objVars, rcVars, poolVars, quiet, late>>

\* ... and a fresh one is written.
Repeat(c) ==
    /\ state[c] = "open"
    /\ frame[c] # None
    /\ age[c] < Timeout
    /\ echo' = [p |-> frame[c], quiet |-> quiet]
    /\ UNCHANGED <<linkVars, inVars, objVars, rcVars, poolVars, quiet, late>>

\* Mutant: a thread of its own for every packet.
MutantThreadPerPacket(w) ==
    /\ busy[w] = None
    /\ \E i \in 1..Len(pool) :
          /\ busy' = [busy EXCEPT ![w] = pool[i]]
          /\ pool' = SubSeq(pool, 1, i - 1) \o SubSeq(pool, i + 1, Len(pool))
    /\ UNCHANGED <<linkVars, inVars, objVars, rcVars, taken, histVars>>

\* A worker takes the oldest write ...
Take(w) ==
    /\ busy[w] = None
    /\ pool # <<>>
    /\ busy' = [busy EXCEPT ![w] = Head(pool)]
    /\ pool' = Tail(pool)
    /\ UNCHANGED <<linkVars, inVars, objVars, rcVars, taken, histVars>>

\* ... and makes it, in vain if the connection was closed.
Write(w) ==
    /\ busy[w] # None
    /\ busy' = [busy EXCEPT ![w] = None]
    /\ UNCHANGED <<linkVars, inVars, objVars, rcVars, pool, taken, histVars>>

\* Mutant: the age of a frame is not compared with the timeout.
MutantAgesOn(t) == t + 1

\* Ages matter up to the timeout.
Later(t) == IF t < Timeout THEN t + 1 ELSE t

Tick ==
    /\ quiet < Timeout \/ \E c \in Controllers : frame[c] # None /\ age[c] < Timeout
    /\ quiet' = Later(quiet)
    /\ age' = [c \in Controllers |-> IF frame[c] = None THEN age[c] ELSE Later(age[c])]
    /\ UNCHANGED <<linkVars, inVars, objVars, frame, poolVars, echo, late>>

-----------------------------------------------------------------------------
(* The service's controllers come and go (FCService has the details). *)

\* No write is waiting for the object c stood for.
Unused(c) ==
    /\ \A i \in 1..Len(pool) : pool[i].c # c
    /\ \A w \in Workers : busy[w] # None => busy[w].c # c

\* _activate_controller: a new object, no RC frame yet.
Activate(c, k) ==
    /\ slot = None
    /\ state[c] = "free"
    /\ Unused(c)
    /\ slot' = c
    /\ kind' = [kind EXCEPT ![c] = k]
    /\ state' = [state EXCEPT ![c] = "open"]
    /\ UNCHANGED <<linkVars, inVars, rcVars, poolVars, histVars>>

\* The breaker of a MAVLink read loop sets _closed; the service still has it.
Break(c) ==
    /\ slot = c
    /\ state[c] = "open"
    /\ kind[c] = "mavlink"
    /\ state' = [state EXCEPT ![c] = "closing"]
    /\ UNCHANGED <<linkVars, inVars, slot, kind, rcVars, poolVars, histVars>>

\* _teardown_controller up to close(): _closed is set.
Drop(c) ==
    /\ slot = c
    /\ slot' = None
    /\ state' = [state EXCEPT ![c] = "closing"]
    /\ UNCHANGED <<linkVars, inVars, kind, rcVars, poolVars, histVars>>

\* close() has cancelled the repeater and closed the connection; nothing but
\* pending writes refers to the controller.
Shut(c) ==
    /\ state[c] = "closing"
    /\ slot # c
    /\ state' = [state EXCEPT ![c] = "free"]
    /\ kind' = [kind EXCEPT ![c] = "mavlink"]
    /\ frame' = [frame EXCEPT ![c] = None]
    /\ age' = [age EXCEPT ![c] = 0]
    /\ UNCHANGED <<linkVars, inVars, slot, poolVars, histVars>>

-----------------------------------------------------------------------------
Next ==
    \/ Wire \/ Unwire \/ Send \/ Tick
    \/ \E s \in Sessions : (\E rc \in BOOLEAN : Receive(s, rc)) \/ Call(s) \/ Forward(s)
    \/ \E c \in Controllers : Expire(c) \/ Repeat(c) \/ Break(c) \/ Drop(c) \/ Shut(c)
    \/ \E c \in Controllers, k \in Kinds : Activate(c, k)
    \/ \E w \in Workers : Take(w) \/ Write(w)

Spec == Init /\ [][Next]_vars

-----------------------------------------------------------------------------
(* Properties. *)

\* The repeater never writes a frame when no RC frame has come for the
\* timeout, whatever else the operator sends and whichever controllers and
\* sessions came and went: the flight controller sees the loss of the link.
FailSafe == echo # None => echo.quiet < Timeout

\* The frames the repeater writes never go back in what one operator sent,
\* across the thread, the loop's queue and a change of controllers.
RcNeverBack ==
    [][echo # None /\ echo'.p.s = echo.p.s => echo'.p.n >= echo.p.n]_echo

\* Writes of MAVLink packets may overtake each other, but a packet being
\* written has fewer older ones pending than the pool has workers.
BoundedReorder ==
    \A w \in Workers :
        busy[w] # None =>
            Cardinality({v \in Workers : busy[v] # None /\ busy[v].n < busy[w].n})
          + Cardinality({i \in 1..Len(pool) : pool[i].n < busy[w].n})
            < Cardinality(Workers)

\* end_session cuts the operator off: at most the packet its thread was
\* delivering reaches the loop afterwards.
CutOff == \A s \in Sessions : late[s] <= 1
==============================================================================
