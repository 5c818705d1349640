------------------------------ MODULE RelayProofs ------------------------------
(***************************************************************************)
(* Proofs about Relay, for any number of sessions, packets, controllers    *)
(* and workers and any timeout: the fail-safe of the repeater, the order   *)
(* of its frames, the cut at the end of a session, and the bound on how    *)
(* far the thread pool disorders the MAVLink packets.                      *)
(***************************************************************************)
EXTENDS Relay, FiniteSetTheorems, SequenceTheorems, TLAPS

(***************************************************************************)
(* Types.                                                                  *)
(***************************************************************************)

\* The bounds are numbers, the protocols two.
LEMMA Bounds ==
    /\ MaxSessions \in Nat /\ MaxSent \in Nat /\ Timeout \in Nat \ {0}
    /\ Kinds \subseteq {"mavlink", "crsf"}
  BY RelayAssumption

\* The initial states have the types.
LEMMA InitTypeOK == Init => TypeOK
<1> SUFFICES ASSUME Init PROVE TypeOK
  OBVIOUS
<1>1. session \in 0..MaxSessions /\ sent \in 0..MaxSent /\ quiet \in 0..Timeout /\ taken \in Nat
  BY RelayAssumption DEF Init
<1>2. age \in [Controllers -> 0..Timeout] /\ late \in [Sessions -> Nat]
  BY RelayAssumption DEF Init
<1>3. posted \in Seq(Packets) /\ pool \in Seq(Writes)
  BY DEF Init
<1>4. QED
  BY <1>1, <1>2, <1>3 DEF Init, TypeOK

\* Every step keeps the types.
LEMMA NextTypeOK ==
    ASSUME TypeOK, [Next]_vars
    PROVE  TypeOK'
<1> USE DEF TypeOK, linkVars, inVars, objVars, rcVars, poolVars, histVars
<1>1. CASE Wire \/ Unwire
  <2> HIDE DEF TypeOK
  <2>0. session \in 0..MaxSessions /\ live' \in BOOLEAN
    BY <1>1 DEF Wire, Unwire, TypeOK
  <2>1. session' \in 0..MaxSessions
    BY <1>1, <2>0, Bounds DEF Wire, Unwire
  <2>3. wired' \in SUBSET Sessions
    BY <1>1, Bounds DEF Wire, Unwire, Sessions, TypeOK
  <2>2. UNCHANGED <<inVars, objVars, rcVars, poolVars, histVars>>
    BY <1>1 DEF Wire, Unwire
  <2>4. QED
    BY <2>0, <2>1, <2>2, <2>3 DEF TypeOK
<1>2. CASE Send
  <2>1. posted # <<>> => posted[1] \in Packets /\ Head(posted) \in Packets /\ Tail(posted) \in Seq(Packets)
    OBVIOUS
  <2>2. CASE SendMavlink
    <3>1. [c |-> slot, n |-> taken + 1] \in Writes
      BY <2>2 DEF SendMavlink, Accepts, Writes
    <3>2. posted' \in Seq(Packets) /\ taken' \in Nat /\ pool' \in Seq(Writes)
      BY <2>1, <2>2, <3>1 DEF SendMavlink
    <3>3. UNCHANGED <<linkVars, sent, hand, stage, objVars, rcVars, busy, histVars>>
      BY <2>2 DEF SendMavlink
    <3>4. QED
      BY <3>2, <3>3
  <2>3. CASE SendRC
    <3>1. 0 \in 0..Timeout
      BY Bounds
    <3>2. frame' \in [Controllers -> Packets \cup {None}] /\ age' \in [Controllers -> 0..Timeout]
      BY <2>1, <2>3, <3>1 DEF SendRC, Next1
    <3>3. QED
      BY <2>1, <2>3, <3>1, <3>2 DEF SendRC
  <2>4. CASE SendDropped \/ SendDirect
    BY <2>1, <2>4 DEF SendDropped, SendDirect
  <2>5. QED
    BY <1>2, <2>2, <2>3, <2>4 DEF Send
<1>3. CASE Tick
  <2>1. \A t \in 0..Timeout : Later(t) \in 0..Timeout
    BY Bounds DEF Later
  <2>2. quiet' \in 0..Timeout /\ age' \in [Controllers -> 0..Timeout]
    BY <1>3, <2>1 DEF Tick
  <2>3. QED
    BY <1>3, <2>2 DEF Tick
<1>4. ASSUME NEW s \in Sessions, (\E rc \in BOOLEAN : Receive(s, rc)) \/ Call(s) \/ Forward(s)
      PROVE  TypeOK'
  <2>1. ASSUME NEW rc \in BOOLEAN, Receive(s, rc) PROVE TypeOK'
    <3>1. sent + 1 \in 1..MaxSent
      BY <2>1, Bounds DEF Receive
    <3>2. [s |-> s, n |-> sent + 1, rc |-> rc] \in Packets
      BY <3>1 DEF Packets
    <3>3. sent' = sent + 1 /\ sent' \in 0..MaxSent
      BY <2>1, <3>1, Bounds DEF Receive
    <3>4. hand' \in [Sessions -> Packets \cup {None}]
      BY <2>1, <3>2 DEF Receive
    <3>5. /\ stage' \in [Sessions -> {"idle", "tested", "called"}]
          /\ \A t \in Sessions : stage'[t] # "idle" => hand'[t] # None
      BY <2>1, <3>2, RelayAssumption DEF Receive
    <3>6. QED
      BY <2>1, <3>3, <3>4, <3>5 DEF Receive
  <2>2. CASE Call(s)
    BY <2>2 DEF Call
  <2>3. CASE Forward(s)
    BY <2>3 DEF Forward
  <2>4. QED
    BY <1>4, <2>1, <2>2, <2>3
<1>5. ASSUME NEW c \in Controllers, Expire(c) \/ Repeat(c) \/ Break(c) \/ Drop(c) \/ Shut(c)
      PROVE  TypeOK'
  <2>1. CASE Repeat(c)
    <3>1. [p |-> frame[c], quiet |-> quiet] \in [p : Packets, quiet : 0..Timeout]
      BY <2>1 DEF Repeat
    <3>2. QED
      BY <2>1, <3>1 DEF Repeat
  <2>2. CASE Expire(c) \/ Shut(c)
    <3>0. 0 \in 0..Timeout
      BY Bounds
    <3>1. age' \in [Controllers -> 0..Timeout]
      BY <2>2, <3>0 DEF Expire, Shut
    <3>4. frame' \in [Controllers -> Packets \cup {None}]
      BY <2>2 DEF Expire, Shut
    <3>2. state' \in [Controllers -> {"free", "open", "closing"}]
          /\ kind' \in [Controllers -> {"mavlink", "crsf"}]
      BY <2>2 DEF Expire, Shut
    <3>3. QED
      BY <2>2, <3>1, <3>2, <3>4 DEF Expire, Shut
  <2>3. QED
    BY <1>5, <2>1, <2>2 DEF Break, Drop
<1>6. ASSUME NEW c \in Controllers, NEW k \in Kinds, Activate(c, k)
      PROVE  TypeOK'
  BY <1>6, Bounds DEF Activate
<1>7. ASSUME NEW w \in Workers, Take(w) \/ Write(w)
      PROVE  TypeOK'
  <2>1. pool # <<>> => Head(pool) \in Writes /\ Tail(pool) \in Seq(Writes)
    OBVIOUS
  <2>2. pool' \in Seq(Writes) /\ busy' \in [Workers -> Writes \cup {None}]
    <3>1. CASE Take(w)
      BY <2>1, <3>1 DEF Take
    <3>2. CASE Write(w)
      BY <3>2 DEF Write
    <3>3. QED
      BY <1>7, <3>1, <3>2
  <2>3. UNCHANGED <<linkVars, inVars, objVars, rcVars, taken, histVars>>
    BY <1>7 DEF Take, Write
  <2>4. QED
    BY <2>2, <2>3
<1>8. CASE UNCHANGED vars
  BY <1>8 DEF vars
<1>9. QED
  BY <1>1, <1>2, <1>3, <1>4, <1>5, <1>6, <1>7, <1>8 DEF Next

\* The variables keep their types.
THEOREM TypeCorrect == Spec => []TypeOK
  BY InitTypeOK, NextTypeOK, PTL DEF Spec

(***************************************************************************)
(* The fail-safe.                                                          *)
(***************************************************************************)

\* No controller thinks its frame younger than the last frame that came.
AgeInv ==
    /\ \A c \in Controllers :
          /\ frame[c] # None => quiet <= age[c]
          /\ state[c] = "free" => frame[c] = None
    /\ FailSafe

\* Every step keeps the ages true.
LEMMA AgeStep ==
    ASSUME TypeOK, AgeInv, [Next]_vars
    PROVE  AgeInv'
<1>0. /\ quiet \in 0..Timeout /\ age \in [Controllers -> 0..Timeout] /\ Timeout \in Nat \ {0}
      /\ DOMAIN frame = Controllers /\ DOMAIN state = Controllers
  BY Bounds DEF TypeOK
<1> USE <1>0 DEF AgeInv, FailSafe, linkVars, inVars, objVars, rcVars, poolVars, histVars
<1>1. CASE Wire \/ Unwire
  BY <1>1 DEF Wire, Unwire
<1>2. CASE SendRC
  BY <1>2 DEF SendRC, Accepts
<1>3. CASE SendDropped \/ SendMavlink \/ SendDirect
  BY <1>3 DEF SendDropped, SendMavlink, SendDirect
<1>4. CASE Tick
  BY <1>4 DEF Tick, Later
<1>5. ASSUME NEW s \in Sessions, (\E rc \in BOOLEAN : Receive(s, rc)) \/ Call(s) \/ Forward(s)
      PROVE  AgeInv'
  BY <1>5 DEF Receive, Call, Forward
<1>6. ASSUME NEW c \in Controllers, Expire(c) \/ Break(c) \/ Drop(c) \/ Shut(c)
      PROVE  AgeInv'
  BY <1>6 DEF Expire, Break, Drop, Shut
<1>7. ASSUME NEW c \in Controllers, Repeat(c)
      PROVE  AgeInv'
  <2>1. quiet < Timeout
    BY <1>7 DEF Repeat
  <2>2. QED
    BY <1>7, <2>1 DEF Repeat
<1>8. ASSUME NEW c \in Controllers, NEW k \in Kinds, Activate(c, k)
      PROVE  AgeInv'
  BY <1>8 DEF Activate
<1>9. ASSUME NEW w \in Workers, Take(w) \/ Write(w)
      PROVE  AgeInv'
  BY <1>9 DEF Take, Write
<1>10. CASE UNCHANGED vars
  BY <1>10 DEF vars
<1>11. QED
  BY <1>1, <1>2, <1>3, <1>4, <1>5, <1>6, <1>7, <1>8, <1>9, <1>10 DEF Next, Send

\* No RC frame is repeated when none has come for the timeout.
THEOREM RepeaterFailsSafe == Spec => []FailSafe
<1>1. Init => AgeInv
  BY DEF Init, AgeInv, FailSafe
<1>2. AgeInv => FailSafe
  BY DEF AgeInv
<1>3. QED
  BY <1>1, <1>2, AgeStep, TypeCorrect, PTL DEF Spec

(***************************************************************************)
(* The cut at the end of a session.                                        *)
(***************************************************************************)

\* Only the live session is wired, and a session whose thread delivered
\* after its end delivers nothing more.
CutInv ==
    /\ \A s \in wired : live /\ s = session
    /\ live => session \in Sessions
    /\ \A s \in Sessions :
          /\ s > session => stage[s] = "idle"
          /\ late[s] # 0 =>
                late[s] = 1 /\ stage[s] = "idle" /\ s <= session /\ ~(live /\ s = session)

\* Every step keeps the cut.
LEMMA CutStep ==
    ASSUME TypeOK, CutInv, [Next]_vars
    PROVE  CutInv'
<1>0. /\ session \in Nat /\ live \in BOOLEAN /\ MaxSessions \in Nat
      /\ stage \in [Sessions -> {"idle", "tested", "called"}]
      /\ late \in [Sessions -> Nat]
  BY Bounds DEF TypeOK
<1> USE <1>0 DEF CutInv, Sessions, linkVars, inVars, objVars, rcVars, poolVars, histVars
<1>1. CASE Wire
  BY <1>1 DEF Wire
<1>2. CASE Unwire
  BY <1>2 DEF Unwire
<1>3. ASSUME NEW s \in Sessions, (\E rc \in BOOLEAN : Receive(s, rc)) \/ Call(s) \/ Forward(s)
      PROVE  CutInv'
  BY <1>3 DEF Receive, Call, Forward
<1>4. CASE UNCHANGED <<linkVars, stage, late>>
  BY <1>4
<1>5. CASE Send \/ Tick \/ UNCHANGED vars
  BY <1>4, <1>5 DEF Send, SendDropped, SendMavlink, SendRC, SendDirect, Tick, vars
<1>6. ASSUME NEW c \in Controllers, Expire(c) \/ Repeat(c) \/ Break(c) \/ Drop(c) \/ Shut(c)
      PROVE  UNCHANGED <<linkVars, stage, late>>
  BY <1>6 DEF Expire, Repeat, Break, Drop, Shut
<1>7. ASSUME NEW c \in Controllers, NEW k \in Kinds, Activate(c, k)
      PROVE  UNCHANGED <<linkVars, stage, late>>
  BY <1>7 DEF Activate
<1>8. ASSUME NEW w \in Workers, Take(w) \/ Write(w)
      PROVE  UNCHANGED <<linkVars, stage, late>>
  BY <1>8 DEF Take, Write
<1>9. QED
  BY <1>1, <1>2, <1>3, <1>4, <1>5, <1>6, <1>7, <1>8 DEF Next

\* After end_session at most one more packet of the session reaches the loop.
THEOREM EndCutsOff == Spec => []CutOff
<1>1. Init => CutInv
  BY Bounds DEF Init, CutInv, Sessions
<1>2. CutInv => CutOff
  BY DEF CutInv, CutOff
<1>3. QED
  BY <1>1, <1>2, CutStep, TypeCorrect, PTL DEF Spec

(***************************************************************************)
(* Order.                                                                  *)
(***************************************************************************)

\* What is left of a queue when its head is taken, and what is added to one.
LEMMA TailOf ==
    ASSUME NEW S, NEW q \in Seq(S), q # <<>>
    PROVE  /\ Len(q) \in Nat \ {0} /\ Len(Tail(q)) = Len(q) - 1
           /\ Head(q) = q[1]
           /\ \A i \in 1..Len(Tail(q)) : Tail(q)[i] = q[i + 1] /\ i + 1 \in 2..Len(q)
  OBVIOUS

\* Adding to a queue.
LEMMA AppendOf ==
    ASSUME NEW S, NEW q \in Seq(S), NEW e \in S
    PROVE  /\ Len(q) \in Nat /\ Len(Append(q, e)) = Len(q) + 1
           /\ Append(q, e)[Len(q) + 1] = e
           /\ \A i \in 1..Len(q) : Append(q, e)[i] = q[i]
  OBVIOUS

\* The queue of the pool is in order, and what the workers took came before it.
PoolInv ==
    /\ \A i \in 1..Len(pool) : pool[i].n <= taken
    /\ \A i, j \in 1..Len(pool) : i < j => pool[i].n < pool[j].n
    /\ \A w \in Workers : busy[w] # None =>
          busy[w].n <= taken /\ \A i \in 1..Len(pool) : busy[w].n < pool[i].n

\* Every step keeps the pool in order.
LEMMA PoolStep ==
    ASSUME TypeOK, PoolInv, [Next]_vars
    PROVE  PoolInv'
<1>0. pool \in Seq(Writes) /\ busy \in [Workers -> Writes \cup {None}] /\ taken \in Nat
  BY DEF TypeOK
<1>n. \A x \in Writes : x.n \in Nat /\ x # None
  BY RelayAssumption DEF Writes
<1>1. CASE SendMavlink
  <2>1. [c |-> slot, n |-> taken + 1] \in Writes
    BY <1>1, <1>0 DEF SendMavlink, Accepts, Writes, TypeOK
  <2> DEFINE e == [c |-> slot, n |-> taken + 1]
  <2>2. pool' = Append(pool, e) /\ taken' = taken + 1 /\ busy' = busy /\ e.n = taken + 1
    BY <1>1 DEF SendMavlink
  <2>3. /\ Len(pool) \in Nat /\ Len(pool') = Len(pool) + 1 /\ pool'[Len(pool) + 1] = e
        /\ \A i \in 1..Len(pool) : pool'[i] = pool[i] /\ pool[i].n \in Nat
    BY <2>1, <2>2, <1>0, <1>n, AppendOf
  <2> HIDE DEF e
  <2>4. QED
    BY <2>2, <2>3, <1>0, <1>n DEF PoolInv
<1>2. ASSUME NEW w \in Workers, Take(w)
      PROVE  PoolInv'
  <2>1. pool # <<>> /\ pool' = Tail(pool) /\ taken' = taken /\ busy' = [busy EXCEPT ![w] = Head(pool)]
    BY <1>2 DEF Take, histVars
  <2>2. /\ Len(pool) \in Nat \ {0} /\ Len(pool') = Len(pool) - 1 /\ Head(pool) = pool[1]
        /\ \A i \in 1..Len(pool') : pool'[i] = pool[i + 1] /\ i + 1 \in 2..Len(pool)
    BY <2>1, <1>0, TailOf
  <2>3. \A i \in 1..Len(pool') : pool[1].n < pool'[i].n
    BY <2>2 DEF PoolInv
  <2>4. QED
    BY <2>1, <2>2, <2>3, <1>0 DEF PoolInv
<1>3. ASSUME NEW w \in Workers, Write(w)
      PROVE  PoolInv'
  BY <1>3, <1>0 DEF Write, PoolInv
<1>4. CASE UNCHANGED poolVars
  BY <1>4 DEF PoolInv, poolVars
<1>5. CASE SendDropped \/ SendRC \/ SendDirect \/ Wire \/ Unwire \/ Tick \/ UNCHANGED vars
  BY <1>4, <1>5 DEF SendDropped, SendRC, SendDirect, Wire, Unwire, Tick, vars
<1>6. ASSUME NEW s \in Sessions, (\E rc \in BOOLEAN : Receive(s, rc)) \/ Call(s) \/ Forward(s)
      PROVE  UNCHANGED poolVars
  BY <1>6 DEF Receive, Call, Forward
<1>7. ASSUME NEW c \in Controllers, Expire(c) \/ Repeat(c) \/ Break(c) \/ Drop(c) \/ Shut(c)
      PROVE  UNCHANGED poolVars
  BY <1>7 DEF Expire, Repeat, Break, Drop, Shut
<1>8. ASSUME NEW c \in Controllers, NEW k \in Kinds, Activate(c, k)
      PROVE  UNCHANGED poolVars
  BY <1>8 DEF Activate
<1>9. QED
  BY <1>1, <1>2, <1>3, <1>4, <1>5, <1>6, <1>7, <1>8 DEF Next, Send

\* A pool in order disorders by less than its size.
LEMMA PoolBounds == TypeOK /\ PoolInv => BoundedReorder
<1> SUFFICES ASSUME TypeOK, PoolInv, NEW w \in Workers, busy[w] # None
             PROVE  Cardinality({v \in Workers : busy[v] # None /\ busy[v].n < busy[w].n})
                  + Cardinality({i \in 1..Len(pool) : pool[i].n < busy[w].n})
                    < Cardinality(Workers)
  BY DEF BoundedReorder
<1> DEFINE V == {v \in Workers : busy[v] # None /\ busy[v].n < busy[w].n}
<1>1. busy[w].n \in Nat
  BY DEF TypeOK, Writes
<1>2. {i \in 1..Len(pool) : pool[i].n < busy[w].n} = {}
  <2>0. pool \in Seq(Writes) /\ \A x \in Writes : x.n \in Nat
    BY DEF TypeOK, Writes
  <2>1. \A i \in 1..Len(pool) : pool[i].n \in Nat
    BY <2>0
  <2>3. \A i \in 1..Len(pool) : busy[w].n < pool[i].n
    BY DEF PoolInv
  <2>2. QED
    BY <1>1, <2>1, <2>3
<1>3. V \subseteq Workers \ {w}
  BY <1>1
<1>4. IsFiniteSet(Workers) /\ IsFiniteSet(Workers \ {w})
  BY RelayAssumption, FS_RemoveElement
<1>5. Cardinality(Workers) \in Nat /\ Cardinality(Workers \ {w}) = Cardinality(Workers) - 1
  BY <1>4, FS_RemoveElement, FS_CardinalityType
<1>6. Cardinality(V) \in Nat /\ Cardinality(V) <= Cardinality(Workers \ {w})
  BY <1>3, <1>4, FS_Subset, FS_CardinalityType
<1>7. Cardinality({}) = 0
  BY FS_EmptySet
<1> HIDE DEF V
<1>8. Cardinality(V) + 0 < Cardinality(Workers)
  BY <1>5, <1>6
<1>9. QED
  BY <1>2, <1>7, <1>8 DEF V

\* A packet being written has fewer older ones pending than there are workers.
THEOREM ReorderIsBounded == Spec => []BoundedReorder
<1>1. Init => PoolInv
  BY DEF Init, PoolInv
<1>2. QED
  BY <1>1, PoolStep, PoolBounds, TypeCorrect, PTL DEF Spec

\* p was sent before q, if one operator sent both.
Before(p, q) == p.s = q.s => p.n < q.n

\* Along the thread, the loop's queue, the frame a controller keeps and the
\* frame repeated last, the packets of one session are in the order sent.
OrderInv ==
    /\ \A s \in Sessions : hand[s] # None => hand[s].s = s /\ hand[s].n <= sent
    /\ \A i \in 1..Len(posted) :
          /\ posted[i].n <= sent
          /\ \A j \in 1..Len(posted) : i < j => Before(posted[i], posted[j])
          /\ \A s \in Sessions : hand[s] # None => Before(posted[i], hand[s])
    /\ \A c \in Controllers : state[c] = "open" => slot = c
    /\ \A c \in Controllers : frame[c] # None =>
          /\ frame[c].n <= sent
          /\ \A i \in 1..Len(posted) : Before(frame[c], posted[i])
          /\ \A s \in Sessions : hand[s] # None => Before(frame[c], hand[s])
    /\ echo # None =>
          /\ echo.p.n <= sent
          /\ \A i \in 1..Len(posted) : Before(echo.p, posted[i])
          /\ \A s \in Sessions : hand[s] # None => Before(echo.p, hand[s])
          /\ \A c \in Controllers :
                state[c] = "open" /\ frame[c] # None /\ echo.p.s = frame[c].s
                    => echo.p.n <= frame[c].n
    /\ \A c \in Controllers : state[c] = "free" => frame[c] = None

\* The numbers of packets are numbers.
LEMMA PacketNumbers ==
    /\ \A p \in Packets : p.n \in Nat /\ p # None
    /\ TypeOK => /\ sent \in Nat
                 /\ \A i \in 1..Len(posted) : posted[i] \in Packets
                 /\ \A s \in Sessions : hand[s] # None => hand[s] \in Packets
                 /\ \A c \in Controllers : frame[c] # None => frame[c] \in Packets
                 /\ echo # None => echo.p \in Packets
<1>1. \A p \in Packets : p.n \in Nat /\ p # None
  BY RelayAssumption DEF Packets
<1>2. ASSUME TypeOK PROVE \A i \in 1..Len(posted) : posted[i] \in Packets
  <2>1. posted \in Seq(Packets)
    BY <1>2 DEF TypeOK
  <2>2. QED
    BY <2>1
<1>3. TypeOK => sent \in Nat /\ (echo # None => echo.p \in Packets)
  BY DEF TypeOK
<1>4. QED
  BY <1>1, <1>2, <1>3 DEF TypeOK

\* The steps that move a packet keep the order.
LEMMA OrderStep ==
    ASSUME TypeOK, OrderInv, [Next]_vars
    PROVE  OrderInv'
<1>0. /\ sent \in Nat
      /\ \A p \in Packets : p.n \in Nat /\ p # None
      /\ \A i \in 1..Len(posted) : posted[i] \in Packets
      /\ \A s \in Sessions : hand[s] # None => hand[s] \in Packets
      /\ \A c \in Controllers : frame[c] # None => frame[c] \in Packets
      /\ echo # None => echo.p \in Packets
  BY PacketNumbers
<1>t. /\ posted \in Seq(Packets) /\ DOMAIN hand = Sessions /\ DOMAIN frame = Controllers
      /\ DOMAIN state = Controllers /\ \A s \in Sessions : stage[s] # "idle" => hand[s] # None
      /\ hand = [s \in Sessions |-> hand[s]] /\ frame = [c \in Controllers |-> frame[c]]
      /\ state = [c \in Controllers |-> state[c]]
  BY DEF TypeOK
<1>1. ASSUME NEW s \in Sessions, NEW rc \in BOOLEAN, Receive(s, rc)
      PROVE  OrderInv'
  <2>1. sent' = sent + 1 /\ hand' = [hand EXCEPT ![s] = [s |-> s, n |-> sent + 1, rc |-> rc]]
        /\ UNCHANGED <<posted, state, slot, frame, echo>>
    BY <1>1 DEF Receive, objVars, rcVars, histVars
  <2>2. /\ hand'[s].s = s /\ hand'[s].n = sent + 1
        /\ \A t \in Sessions : t # s => hand'[t] = hand[t]
    BY <2>1, <1>t
  <2>3. \A n \in Nat : n <= sent => n <= sent' /\ n < sent + 1
    BY <2>1, <1>0
  <2>4. \A i \in 1..Len(posted) : posted[i].n <= sent /\ posted[i].n \in Nat
    BY <1>0 DEF OrderInv
  <2>5. \A c \in Controllers : frame[c] # None => frame[c].n <= sent /\ frame[c].n \in Nat
    BY <1>0 DEF OrderInv
  <2>6. echo # None => echo.p.n <= sent /\ echo.p.n \in Nat
    BY <1>0 DEF OrderInv
  <2>7. \A p \in Packets : p.n <= sent => Before(p, hand'[s])
    BY <2>2, <2>3, <1>0 DEF Before
  <2>8. \A t \in Sessions : hand'[t] # None => hand'[t].s = t /\ hand'[t].n <= sent'
    <3>1. ASSUME NEW t \in Sessions, t # s, hand'[t] # None
          PROVE  hand'[t].s = t /\ hand'[t].n <= sent'
      BY <3>1, <2>2, <2>3, <1>0 DEF OrderInv
    <3>2. QED
      BY <3>1, <2>1, <2>2, <1>0
  <2>9. \A i \in 1..Len(posted') :
           /\ posted'[i].n <= sent'
           /\ \A t \in Sessions : hand'[t] # None => Before(posted'[i], hand'[t])
    BY <2>1, <2>2, <2>3, <2>4, <2>7, <1>0 DEF OrderInv
  <2>10. \A c \in Controllers : frame'[c] # None =>
           /\ frame'[c].n <= sent'
           /\ \A t \in Sessions : hand'[t] # None => Before(frame'[c], hand'[t])
    BY <2>1, <2>2, <2>3, <2>5, <2>7, <1>0 DEF OrderInv
  <2>11. echo' # None =>
           /\ echo'.p.n <= sent'
           /\ \A t \in Sessions : hand'[t] # None => Before(echo'.p, hand'[t])
    BY <2>1, <2>2, <2>3, <2>6, <2>7, <1>0 DEF OrderInv
  <2>12. QED
    BY <2>1, <2>8, <2>9, <2>10, <2>11 DEF OrderInv
<1>2. ASSUME NEW s \in Sessions, Call(s)
      PROVE  OrderInv'
  <2>1. UNCHANGED <<sent, posted, state, slot, frame, echo>>
    BY <1>2 DEF Call, objVars, rcVars, histVars
  <2>2. \A t \in Sessions : hand'[t] # None => hand'[t] = hand[t]
    BY <1>2, <1>t DEF Call
  <2>3. QED
    BY <2>1, <2>2 DEF OrderInv
<1>3. ASSUME NEW s \in Sessions, Forward(s)
      PROVE  OrderInv'
  <2>1. posted' = Append(posted, hand[s]) /\ hand' = [hand EXCEPT ![s] = None] /\ hand[s] # None
        /\ UNCHANGED <<sent, state, slot, frame, echo>>
    BY <1>3, <1>t DEF Forward, objVars, rcVars
  <2>2. /\ Len(posted) \in Nat /\ Len(posted') = Len(posted) + 1 /\ posted'[Len(posted) + 1] = hand[s]
        /\ \A i \in 1..Len(posted) : posted'[i] = posted[i]
    BY <2>1, <1>0, <1>t, AppendOf
  <2>3. \A i \in 1..Len(posted') : i \in 1..Len(posted) \/ i = Len(posted) + 1
    BY <2>2
  <2>4. \A t \in Sessions : hand'[t] # None => hand'[t] = hand[t] /\ t # s
    BY <2>1, <1>t
  <2>5. /\ hand[s].s = s /\ hand[s].n <= sent
        /\ \A i \in 1..Len(posted) : posted[i].n <= sent /\ Before(posted[i], hand[s])
        /\ \A i, j \in 1..Len(posted) : i < j => Before(posted[i], posted[j])
        /\ \A c \in Controllers : frame[c] # None => Before(frame[c], hand[s])
        /\ echo # None => Before(echo.p, hand[s])
    BY <2>1 DEF OrderInv
  <2>6. \A t \in Sessions : hand'[t] # None => Before(hand[s], hand[t])
    BY <2>4, <2>5 DEF OrderInv, Before
  <2>7. \A i \in 1..Len(posted') :
           /\ posted'[i].n <= sent
           /\ \A t \in Sessions : hand'[t] # None => Before(posted'[i], hand'[t])
    BY <2>2, <2>3, <2>4, <2>5, <2>6 DEF OrderInv
  <2>8. \A i, j \in 1..Len(posted') : i < j => Before(posted'[i], posted'[j])
    BY <2>2, <2>3, <2>5
  <2>9. /\ \A c \in Controllers : frame[c] # None =>
              \A i \in 1..Len(posted') : Before(frame[c], posted'[i])
        /\ echo # None => \A i \in 1..Len(posted') : Before(echo.p, posted'[i])
    BY <2>2, <2>3, <2>5 DEF OrderInv
  <2>10. QED
    BY <2>1, <2>4, <2>7, <2>8, <2>9 DEF OrderInv
<1>4. CASE Send
  <2>1. posted # <<>> /\ posted' = Tail(posted) /\ UNCHANGED <<sent, hand, state, slot, echo>>
    BY <1>4 DEF Send, SendDropped, SendMavlink, SendRC, SendDirect, objVars, histVars
  <2>2. /\ Len(posted) \in Nat \ {0} /\ Len(posted') = Len(posted) - 1 /\ Head(posted) = posted[1]
        /\ \A i \in 1..Len(posted') : posted'[i] = posted[i + 1] /\ i + 1 \in 2..Len(posted)
    BY <2>1, <1>t, TailOf
  <2>3. CASE SendRC
    <3>1. state[slot] = "open" /\ slot \in Controllers /\ frame' = [frame EXCEPT ![slot] = posted[1]]
      BY <2>2, <2>3, <1>t DEF SendRC, Accepts, Next1, TypeOK
    <3>2. /\ posted[1] \in Packets
          /\ \A i \in 1..Len(posted') : Before(posted[1], posted'[i])
          /\ \A t \in Sessions : hand[t] # None => Before(posted[1], hand[t])
          /\ posted[1].n <= sent
      BY <2>2, <1>0 DEF OrderInv
    <3>3. echo # None => Before(echo.p, posted[1])
      BY <2>2 DEF OrderInv
    <3>4. \A c \in Controllers : frame'[c] = frame[c] \/ frame'[c] = posted[1]
      BY <3>1, <1>t
    <3>5. \A c \in Controllers : state[c] = "open" => frame'[c] = posted[1]
      BY <3>1, <1>t DEF OrderInv
    <3>6. echo # None /\ echo.p.s = posted[1].s => echo.p.n <= posted[1].n
      BY <3>2, <3>3, <1>0 DEF Before
    <3>7. \A c \in Controllers : state[c] = "free" => frame'[c] = frame[c]
      BY <3>1, <1>t
    <3>8. \A c \in Controllers : frame'[c] # None =>
             /\ frame'[c].n <= sent
             /\ \A i \in 1..Len(posted') : Before(frame'[c], posted'[i])
             /\ \A t \in Sessions : hand[t] # None => Before(frame'[c], hand[t])
      <4>1. ASSUME NEW c \in Controllers, frame[c] # None
            PROVE  /\ frame[c].n <= sent
                   /\ \A i \in 1..Len(posted) : Before(frame[c], posted[i])
                   /\ \A t \in Sessions : hand[t] # None => Before(frame[c], hand[t])
        BY <4>1 DEF OrderInv
      <4>2. \A i \in 1..Len(posted') : i + 1 \in 1..Len(posted)
        BY <2>2
      <4>3. \A i \in 1..Len(posted') : posted'[i] = posted[i + 1]
        BY <2>2
      <4>4. ASSUME NEW c \in Controllers, frame[c] # None, NEW i \in 1..Len(posted')
            PROVE  Before(frame[c], posted'[i])
        BY <4>1, <4>2, <4>3, <4>4
      <4> HIDE DEF Before
      <4>5. QED
        BY <3>2, <3>4, <4>1, <4>4
    <3>9. /\ \A i \in 1..Len(posted') :
                /\ posted'[i].n <= sent
                /\ \A j \in 1..Len(posted') : i < j => Before(posted'[i], posted'[j])
                /\ \A t \in Sessions : hand[t] # None => Before(posted'[i], hand[t])
          /\ echo # None => \A i \in 1..Len(posted') : Before(echo.p, posted'[i])
      <4>1. ASSUME NEW i \in 1..Len(posted')
            PROVE  /\ posted'[i].n <= sent
                   /\ \A t \in Sessions : hand[t] # None => Before(posted'[i], hand[t])
                   /\ echo # None => Before(echo.p, posted'[i])
        BY <2>2 DEF OrderInv
      <4>2. ASSUME NEW i \in 1..Len(posted'), NEW j \in 1..Len(posted'), i < j
            PROVE  Before(posted'[i], posted'[j])
        <5>1. i + 1 \in 1..Len(posted) /\ j + 1 \in 1..Len(posted) /\ i + 1 < j + 1
          BY <2>2, <4>2
        <5>2. QED
          BY <2>2, <5>1 DEF OrderInv
      <4>3. QED
        BY <4>1, <4>2
    <3>10. QED
      BY <2>1, <3>5, <3>6, <3>7, <3>8, <3>9 DEF OrderInv
  <2>4. CASE frame' = frame
    BY <2>1, <2>2, <2>4 DEF OrderInv
  <2>5. QED
    BY <1>4, <2>3, <2>4 DEF Send, SendDropped, SendMavlink, SendDirect, rcVars
<1>5. ASSUME NEW c \in Controllers, Repeat(c)
      PROVE  OrderInv'
  <2>1. /\ state[c] = "open" /\ frame[c] # None /\ echo' = [p |-> frame[c], quiet |-> quiet]
        /\ UNCHANGED <<sent, hand, posted, slot, state, frame>>
    BY <1>5 DEF Repeat, inVars, objVars, rcVars
  <2>2. echo'.p = frame[c] /\ frame[c].n \in Nat
    BY <2>1, <1>0
  <2>3. \A d \in Controllers : state[d] = "open" => d = c
    BY <2>1 DEF OrderInv
  <2>4. /\ echo'.p.n <= sent
        /\ \A i \in 1..Len(posted) : Before(echo'.p, posted[i])
        /\ \A s \in Sessions : hand[s] # None => Before(echo'.p, hand[s])
    BY <2>1, <2>2 DEF OrderInv
  <2>5. \A d \in Controllers : state[d] = "open" => echo'.p.n <= frame[d].n
    BY <2>2, <2>3
  <2>6. QED
    BY <2>1, <2>4, <2>5 DEF OrderInv
<1>6. ASSUME NEW c \in Controllers, Expire(c) \/ Break(c) \/ Drop(c) \/ Shut(c)
      PROVE  OrderInv'
  BY <1>6, <1>t DEF Expire, Break, Drop, Shut, OrderInv, inVars, objVars, rcVars, histVars
<1>7. ASSUME NEW c \in Controllers, NEW k \in Kinds, Activate(c, k)
      PROVE  OrderInv'
  <2>1. UNCHANGED <<sent, hand, posted, frame, echo>> /\ state' = [state EXCEPT ![c] = "open"]
        /\ slot' = c /\ slot = None /\ frame[c] = None
    BY <1>7 DEF Activate, OrderInv, inVars, rcVars, histVars
  <2>2. \A d \in Controllers : state[d] # "open"
    BY <2>1, RelayAssumption DEF OrderInv
  <2>3. \A d \in Controllers : d # c => state'[d] = state[d]
    BY <2>1, <1>t
  <2>4. \A d \in Controllers : state'[d] = "open" => d = c
    BY <2>2, <2>3
  <2>5. \A d \in Controllers : state'[d] = "free" => frame[d] = None
    BY <2>1, <2>3 DEF OrderInv
  <2>6. QED
    BY <2>1, <2>4, <2>5 DEF OrderInv
<1>8. CASE UNCHANGED <<sent, hand, posted, slot, state, frame, echo>>
  BY <1>8 DEF OrderInv
<1>9. CASE Wire \/ Unwire \/ Tick \/ UNCHANGED vars
  BY <1>8, <1>9 DEF Wire, Unwire, Tick, vars, inVars, objVars, rcVars, histVars
<1>10. ASSUME NEW w \in Workers, Take(w) \/ Write(w)
       PROVE  UNCHANGED <<sent, hand, posted, slot, state, frame, echo>>
  BY <1>10 DEF Take, Write, inVars, objVars, rcVars, histVars
<1>11. QED
  BY <1>1, <1>2, <1>3, <1>4, <1>5, <1>6, <1>7, <1>8, <1>9, <1>10 DEF Next

\* A frame that is repeated is not older than the one repeated before it.
LEMMA EchoStep ==
    ASSUME OrderInv, TypeOK, [Next]_vars, echo' # echo, echo # None, echo'.p.s = echo.p.s
    PROVE  echo'.p.n >= echo.p.n
<1>1. PICK c \in Controllers : Repeat(c)
  BY DEF Next, Wire, Unwire, Send, SendDropped, SendMavlink, SendRC, SendDirect, Tick, Receive, Call,
     Forward, Expire, Break, Drop, Shut, Activate, Take, Write, histVars, vars
<1>2. echo'.p = frame[c] /\ state[c] = "open" /\ frame[c] # None
  BY <1>1 DEF Repeat
<1>3. echo.p.n <= frame[c].n /\ echo.p.n \in Nat /\ frame[c].n \in Nat
  BY <1>2, PacketNumbers DEF OrderInv
<1>4. QED
  BY <1>2, <1>3

\* What the flight controller is told of one operator's sticks never goes back.
THEOREM SticksNeverGoBack == Spec => RcNeverBack
<1>1. Init => OrderInv
  BY DEF Init, OrderInv
<1>2. OrderInv /\ TypeOK /\ [Next]_vars =>
          [echo # None /\ echo'.p.s = echo.p.s => echo'.p.n >= echo.p.n]_echo
  BY EchoStep
<1>3. QED
  BY <1>1, <1>2, OrderStep, TypeCorrect, PTL DEF Spec, RcNeverBack
==============================================================================
