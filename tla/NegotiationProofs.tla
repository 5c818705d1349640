--------------------------- MODULE NegotiationProofs ---------------------------
(***************************************************************************)
(* Proofs about Negotiation, for any number of sessions, stations, offers  *)
(* and candidates: a session that is over is silent, no station is sent    *)
(* an offer or a candidate twice or out of order.                          *)
(***************************************************************************)
EXTENDS Negotiation, TLAPS

(***************************************************************************)
(* Queues.                                                                 *)
(***************************************************************************)

\* Taking the head of a queue.
LEMMA TailOf ==
    ASSUME NEW S, NEW q \in Seq(S), q # <<>>
    PROVE  /\ Tail(q) \in Seq(S) /\ Head(q) \in S /\ Head(q) = q[1]
           /\ Len(q) \in Nat \ {0} /\ Len(Tail(q)) = Len(q) - 1
           /\ \A i \in 1..Len(Tail(q)) : Tail(q)[i] = q[i + 1] /\ i + 1 \in 1..Len(q)
  OBVIOUS

\* Adding to a queue.
LEMMA AppendOf ==
    ASSUME NEW S, NEW q \in Seq(S), NEW e \in S
    PROVE  /\ Append(q, e) \in Seq(S)
           /\ Len(q) \in Nat /\ Len(Append(q, e)) = Len(q) + 1
           /\ Append(q, e)[Len(q) + 1] = e
           /\ \A i \in 1..Len(q) : Append(q, e)[i] = q[i]
           /\ \A i \in 1..Len(Append(q, e)) : i \in 1..Len(q) \/ i = Len(q) + 1
  OBVIOUS

\* A queue that grows by something greater than all that is in it.
Ascending(q) == \A i, j \in DOMAIN q : i < j => q[i] < q[j]

\* A rising row with something greater behind it rises.
LEMMA AscendingAppend ==
    ASSUME NEW q \in Seq(Nat), Ascending(q), NEW n \in Nat, \A i \in DOMAIN q : q[i] < n
    PROVE  Ascending(Append(q, n))
<1> DEFINE r == Append(q, n)
<1>1. /\ DOMAIN q = 1..Len(q) /\ DOMAIN r = 1..Len(r) /\ Len(r) = Len(q) + 1
      /\ Len(q) \in Nat /\ r[Len(q) + 1] = n
      /\ \A i \in 1..Len(q) : r[i] = q[i]
  BY AppendOf
<1> HIDE DEF r
<1>2. SUFFICES ASSUME NEW i \in 1..Len(r), NEW j \in 1..Len(r), i < j
               PROVE  r[i] < r[j]
  BY <1>1 DEF Ascending, r
<1>3. i \in 1..Len(q) /\ (j \in 1..Len(q) \/ j = Len(q) + 1)
  BY <1>1, <1>2
<1>4. CASE j \in 1..Len(q)
  BY <1>1, <1>2, <1>3, <1>4 DEF Ascending
<1>5. CASE j = Len(q) + 1
  BY <1>1, <1>3, <1>5
<1>6. QED
  BY <1>3, <1>4, <1>5

(***************************************************************************)
(* Silence.                                                                *)
(***************************************************************************)

\* The pumps of every session but the current one have ended or never began.
PumpInv ==
    /\ peer \in Peers \cup {None}
    /\ offerPump \in [Peers -> Pump]
    /\ icePump \in [Peers -> Pump]
    /\ DOMAIN offersOut = Peers
    /\ DOMAIN iceOut = Peers
    /\ \A p \in Peers :
          peer # p => offerPump[p] \in {"none", "ended"} /\ icePump[p] \in {"none", "ended"}

\* Every step keeps the pumps of other peers ended.
LEMMA PumpInvStep ==
    ASSUME PumpInv, [Next]_vars
    PROVE  PumpInv'
<1> USE NegotiationAssumption DEF PumpInv, Pump
<1>1. CASE Start
  BY <1>1 DEF Start, StartSession
<1>2. CASE EndSession
  BY <1>2 DEF EndSession
<1>3. CASE Network \/ UNCHANGED vars
  BY <1>3 DEF Network, Answer, HandleSdp, ConnLost, Reconnect, vars, iceVars, offerVars, sessionVars
<1>4. CASE \E p \in Peers : Webrtc(p)
  BY <1>4 DEF Webrtc, NegotiationNeeded, OfferEmpty, OfferDescribed, OfferCreated, CandidateFound,
      CandidatePosted, iceVars, offerVars, sessionVars
<1>5. CASE \E p \in Peers : Pumps(p)
  BY <1>5 DEF Pumps, Put, IceTake, IceSent, OfferPoll, OfferSent, iceVars, offerVars, sessionVars
<1>6. QED
  BY <1>1, <1>2, <1>3, <1>4, <1>5 DEF Next

\* Only the current peer has pumps that run.
LEMMA PumpInvariant == Spec => []PumpInv
<1>1. Init => PumpInv
  BY DEF Init, PumpInv, Everywhere, Pump
<1>2. QED
  BY <1>1, PumpInvStep, PTL DEF Spec

\* Only the pumps of the current session send.
LEMMA SilentStep ==
    ASSUME PumpInv, [Next]_vars, NEW q \in Peers, peer # q
    PROVE  offersOut'[q] = offersOut[q] /\ iceOut'[q] = iceOut[q]
<1> USE DEF PumpInv
<1>1. CASE \E p \in Peers : Pumps(p)
  <2>1. PICK p \in Peers : Pumps(p)
    BY <1>1
  <2>2. CASE Put(p) \/ IceSent(p) \/ OfferSent(p)
    BY <2>2 DEF Put, IceSent, OfferSent, iceVars, offerVars
  <2>3. CASE IceTake(p)
    <3>1. p # q
      BY <2>3 DEF IceTake
    <3>2. QED
      BY <2>3, <3>1 DEF IceTake, offerVars
  <2>4. CASE OfferPoll(p)
    <3>1. p # q
      BY <2>4 DEF OfferPoll
    <3>2. QED
      BY <2>4, <3>1 DEF OfferPoll, iceVars
  <2>5. QED
    BY <2>1, <2>2, <2>3, <2>4 DEF Pumps
<1>2. CASE Start \/ EndSession \/ Network \/ UNCHANGED vars
  BY <1>2 DEF Start, StartSession, EndSession, Network, Answer, HandleSdp, ConnLost, Reconnect,
      vars, iceVars, offerVars
<1>3. CASE \E p \in Peers : Webrtc(p)
  BY <1>3 DEF Webrtc, NegotiationNeeded, OfferEmpty, OfferDescribed, OfferCreated, CandidateFound,
      CandidatePosted, iceVars, offerVars
<1>4. QED
  BY <1>1, <1>2, <1>3 DEF Next

\* Nothing is sent for a session that is over.
THEOREM SessionsEndInSilence == Spec => SilentOutsideSession
<1>1. PumpInv /\ [Next]_vars =>
        [\A p \in Peers :
            peer # p => offersOut'[p] = offersOut[p] /\ iceOut'[p] = iceOut[p]]_vars
  BY SilentStep
<1>2. QED
  BY PumpInvariant, <1>1, PTL DEF Spec, SilentOutsideSession

(***************************************************************************)
(* Order.                                                                  *)
(***************************************************************************)

\* The numbers of the offers: what was sent is not newer than offer_sdp, and
\* a waiting pump remembers an offer at least as new as any it sent.
OfferInv ==
    /\ gcs \in [Peers -> Gcs \cup {None}]
    /\ described \in [Peers -> Nat]
    /\ offer_sdp \in [Peers -> Nat]
    /\ sent \in [Peers -> Nat]
    /\ offersOut \in [Peers -> Seq(Nat)]
    /\ peer # None => gcs[peer] # None
    /\ \A p \in Peers :
          /\ offer_sdp[p] <= described[p]
          /\ sent[p] <= offer_sdp[p]
          /\ gcs[p] = None => offerPump[p] = "none"
          /\ \A i \in DOMAIN offersOut[p] :
                /\ offersOut[p][i] <= offer_sdp[p]
                /\ offerPump[p] \in {"none", "wait"} => offersOut[p][i] <= sent[p]

\* An offer goes out: it is newer than all before it.
LEMMA PollStep ==
    ASSUME PumpInv, OfferInv, OffersInOrder, NEW p \in Peers, OfferPoll(p)
    PROVE  OfferInv' /\ OffersInOrder'
<1> USE DEF OfferInv, OffersInOrder, PumpInv
<1>1. CASE conn = "open"
  <2>1. offersOut' = [offersOut EXCEPT ![p] = Append(offersOut[p], offer_sdp[p])]
    BY <1>1 DEF OfferPoll
  <2>2. offer_sdp[p] > sent[p] /\ offerPump[p] = "wait"
    BY DEF OfferPoll
  <2>3. \A i \in DOMAIN offersOut[p] : offersOut[p][i] < offer_sdp[p]
    BY <2>2
  <2>4. offersOut' \in [Peers -> Seq(Nat)]
    BY <2>1
  <2>5. ASSUME NEW q \in Peers, NEW i \in DOMAIN offersOut'[q]
        PROVE  \/ i \in DOMAIN offersOut[q] /\ offersOut'[q][i] = offersOut[q][i]
               \/ q = p /\ i = Len(offersOut[p]) + 1 /\ offersOut'[q][i] = offer_sdp[p]
    <3>1. CASE q = p
      BY <2>1, <2>5, <3>1
    <3>2. CASE q # p
      BY <2>1, <2>5, <3>2
    <3>3. QED
      BY <3>1, <3>2
  <2>6. OffersInOrder'
    <3> SUFFICES ASSUME NEW q \in Peers
                 PROVE  Ascending(offersOut'[q])
      BY DEF Ascending
    <3>1. Ascending(offersOut[q])
      BY DEF Ascending
    <3>2. CASE q = p
      <4>1. offersOut'[p] = Append(offersOut[p], offer_sdp[p])
        BY <2>1
      <4>2. offersOut[p] \in Seq(Nat) /\ offer_sdp[p] \in Nat
        OBVIOUS
      <4>3. QED
        BY <2>3, <3>1, <3>2, <4>1, <4>2, AscendingAppend
    <3>3. CASE q # p
      BY <2>1, <3>1, <3>3
    <3>4. QED
      BY <3>2, <3>3
  <2>7. OfferInv'
    <3>1. UNCHANGED <<gcs, described, offer_sdp, sent>>
      BY DEF OfferPoll, webrtcVars, sessionVars
    <3>2. offerPump' = [offerPump EXCEPT ![p] = "drain"]
      BY <1>1 DEF OfferPoll
    <3>3. gcs[p] # None
      BY <2>2
    <3>4. \A q \in Peers : gcs'[q] = None => offerPump'[q] = "none"
      BY <3>1, <3>2, <3>3
    <3>5. ASSUME NEW q \in Peers, NEW i \in DOMAIN offersOut'[q]
          PROVE  /\ offersOut'[q][i] <= offer_sdp'[q]
                 /\ offerPump'[q] \in {"none", "wait"} => offersOut'[q][i] <= sent'[q]
      <4>1. CASE i \in DOMAIN offersOut[q] /\ offersOut'[q][i] = offersOut[q][i]
        <5>1. offersOut'[q][i] <= offer_sdp'[q]
          BY <3>1, <4>1
        <5>2. CASE q = p
          BY <3>2, <5>1, <5>2
        <5>3. CASE q # p
          <6>1. offerPump'[q] = offerPump[q]
            BY <3>2, <5>3
          <6>2. QED
            BY <3>1, <4>1, <5>1, <6>1
        <5>4. QED
          BY <5>2, <5>3
      <4>2. CASE q = p /\ offersOut'[q][i] = offer_sdp[p]
        BY <3>1, <3>2, <4>2
      <4>3. QED
        BY <2>5, <4>1, <4>2
    <3>6. peer' = peer
      BY DEF OfferPoll, sessionVars
    <3>7. QED
      BY <2>4, <3>1, <3>4, <3>5, <3>6
  <2>8. QED
    BY <2>6, <2>7
<1>2. CASE conn # "open"
  BY <1>2 DEF OfferPoll, webrtcVars, sessionVars, Pump
<1>3. QED
  BY <1>1, <1>2

\* Every step keeps the sent offers in order and behind the current one.
LEMMA OfferInvStep ==
    ASSUME PumpInv, OfferInv, OffersInOrder, [Next]_vars
    PROVE  OfferInv' /\ OffersInOrder'
<1> USE NegotiationAssumption DEF PumpInv, Pump, OfferInv, OffersInOrder
<1>1. CASE \E p \in Peers : Pumps(p)
  <2>1. PICK p \in Peers : Pumps(p)
    BY <1>1
  <2>2. CASE OfferPoll(p)
    BY <2>2, PollStep
  <2>3. CASE OfferSent(p)
    <3>1. UNCHANGED <<gcs, described, offer_sdp, offersOut, peer>> /\ offerPump[p] = "drain"
      BY <2>3 DEF OfferSent, webrtcVars, sessionVars
    <3>3. /\ sent' \in [Peers -> Nat] /\ sent'[p] <= offer_sdp[p]
          /\ \A q \in Peers : q # p => sent'[q] = sent[q] /\ offerPump'[q] = offerPump[q]
          /\ sent'[p] = offer_sdp[p] \/ offerPump'[p] = "ended"
      <4>1. CASE conn = "open"
        <5>1. /\ sent' = [sent EXCEPT ![p] = offer_sdp[p]]
              /\ offerPump' = [offerPump EXCEPT ![p] = "wait"]
          BY <2>3, <4>1 DEF OfferSent
        <5>2. sent \in [Peers -> Nat] /\ offer_sdp[p] \in Nat
          OBVIOUS
        <5>3. sent'[p] = offer_sdp[p] /\ sent'[p] <= offer_sdp[p]
          BY <5>1, <5>2
        <5>4. QED
          BY <5>1, <5>2, <5>3
      <4>2. CASE conn # "open"
        <5>1. sent' = sent /\ offerPump' = [offerPump EXCEPT ![p] = "ended"]
          BY <2>3, <4>2 DEF OfferSent
        <5>2. QED
          BY <5>1
      <4>3. QED
        BY <4>1, <4>2
    <3>4. \A q \in Peers : sent'[q] <= offer_sdp[q] /\ (gcs[q] = None => offerPump'[q] = "none")
      BY <3>1, <3>3
    <3>5. \A q \in Peers : \A i \in DOMAIN offersOut[q] :
             offerPump'[q] \in {"none", "wait"} => offersOut[q][i] <= sent'[q]
      BY <3>1, <3>3
    <3>6. QED
      BY <3>1, <3>3, <3>4, <3>5
  <2>4. CASE Put(p) \/ IceTake(p) \/ IceSent(p)
    <3>1. UNCHANGED <<gcs, described, offer_sdp, offerPump, sent, offersOut, peer>>
      BY <2>4 DEF Put, IceTake, IceSent, webrtcVars, offerVars, sessionVars
    <3>2. QED
      BY <3>1
  <2>5. QED
    BY <2>1, <2>2, <2>3, <2>4 DEF Pumps
<1>2. CASE Start
  BY <1>2 DEF Start, StartSession
<1>3. CASE EndSession
  BY <1>3 DEF EndSession
<1>4. CASE Network \/ UNCHANGED vars
  BY <1>4 DEF Network, Answer, HandleSdp, ConnLost, Reconnect, vars, webrtcVars, offerVars,
      sessionVars
<1>5. CASE \E p \in Peers : Webrtc(p)
  <2>1. PICK p \in Peers : Webrtc(p)
    BY <1>5
  <2>2. CASE OfferDescribed(p)
    BY <2>2 DEF OfferDescribed, offerVars, sessionVars
  <2>3. CASE OfferCreated(p)
    BY <2>3 DEF OfferCreated, offerVars, sessionVars
  <2>4. CASE NegotiationNeeded(p) \/ OfferEmpty(p) \/ CandidateFound(p) \/ CandidatePosted(p)
    BY <2>4 DEF NegotiationNeeded, OfferEmpty, CandidateFound, CandidatePosted, offerVars,
        sessionVars
  <2>5. QED
    BY <2>1, <2>2, <2>3, <2>4 DEF Webrtc
<1>6. QED
  BY <1>1, <1>2, <1>3, <1>4, <1>5 DEF Next

\* No station is sent an offer twice, or an older one after a newer one.
THEOREM OffersGoOutInOrder == Spec => []OffersInOrder
<1>1. Init => PumpInv /\ OfferInv /\ OffersInOrder
  BY DEF Init, PumpInv, OfferInv, OffersInOrder, Everywhere, Pump
<1>2. PumpInv /\ OfferInv /\ OffersInOrder /\ [Next]_vars => (OfferInv /\ OffersInOrder)'
  BY OfferInvStep
<1>3. QED
  BY PumpInvariant, <1>1, <1>2, PTL DEF Spec

(***************************************************************************)
(* Types.                                                                  *)
(***************************************************************************)

\* The types of the variables, in the groups that change together.
WebrtcTypes ==
    /\ handlers \in [Peers -> BOOLEAN]
    /\ making \in [Peers -> BOOLEAN]
    /\ described \in [Peers -> Nat]
    /\ offer_sdp \in [Peers -> Nat]
    /\ emitting \in [Peers -> Nat]
    /\ found \in [Peers -> Nat]

IceTypes ==
    /\ posted \in [Peers -> Seq(Nat \ {0})]
    /\ queue \in [Peers -> Seq(Nat \ {0})]
    /\ icePump \in [Peers -> Pump]
    /\ iceOut \in [Peers -> Seq(Nat \ {0})]

OfferTypes ==
    /\ offerPump \in [Peers -> Pump]
    /\ sent \in [Peers -> Nat]
    /\ offersOut \in [Peers -> Seq(Nat \ {0})]

SessionTypes ==
    /\ conn \in {"open", "lost"}
    /\ peer \in Peers \cup {None}
    /\ gcs \in [Peers -> Gcs \cup {None}]

RemoteTypes ==
    /\ inbox \in Seq([gcs : Gcs, offer : Offer])
    /\ answer \in [Peers -> Offer \cup {NoAnswer}]

\* The types by the variables that change together ...
LEMMA TypeParts ==
    TypeOK <=> WebrtcTypes /\ IceTypes /\ OfferTypes /\ SessionTypes /\ RemoteTypes
  BY DEF TypeOK, WebrtcTypes, IceTypes, OfferTypes, SessionTypes, RemoteTypes

\* ... and the same after a step.
LEMMA TypePartsNext ==
    TypeOK' <=> WebrtcTypes' /\ IceTypes' /\ OfferTypes' /\ SessionTypes' /\ RemoteTypes'
  BY DEF TypeOK, WebrtcTypes, IceTypes, OfferTypes, SessionTypes, RemoteTypes

\* Variables that do not change keep their types.
LEMMA SameTypes ==
    /\ WebrtcTypes /\ UNCHANGED webrtcVars => WebrtcTypes'
    /\ IceTypes /\ UNCHANGED iceVars => IceTypes'
    /\ OfferTypes /\ UNCHANGED offerVars => OfferTypes'
    /\ SessionTypes /\ UNCHANGED sessionVars => SessionTypes'
    /\ RemoteTypes /\ UNCHANGED remoteVars => RemoteTypes'
<1>1. WebrtcTypes /\ UNCHANGED webrtcVars => WebrtcTypes'
  BY DEF WebrtcTypes, webrtcVars
<1>2. IceTypes /\ UNCHANGED iceVars => IceTypes'
  BY DEF IceTypes, iceVars
<1>3. OfferTypes /\ UNCHANGED offerVars => OfferTypes'
  BY DEF OfferTypes, offerVars
<1>4. SessionTypes /\ UNCHANGED sessionVars => SessionTypes'
  BY DEF SessionTypes, sessionVars
<1>5. RemoteTypes /\ UNCHANGED remoteVars => RemoteTypes'
  BY DEF RemoteTypes, remoteVars
<1>6. QED
  BY <1>1, <1>2, <1>3, <1>4, <1>5

\* The steps of webrtcbin keep the types.
LEMMA WebrtcTypeOK ==
    ASSUME TypeOK, NEW p \in Peers, Webrtc(p)
    PROVE  TypeOK'
<1>1. UNCHANGED <<offerVars, sessionVars, remoteVars>>
  BY DEF Webrtc, NegotiationNeeded, OfferEmpty, OfferDescribed, OfferCreated, CandidateFound,
     CandidatePosted
<1>2. CASE NegotiationNeeded(p) \/ OfferEmpty(p) \/ OfferDescribed(p) \/ OfferCreated(p)
  <2>1. UNCHANGED iceVars
    BY <1>2 DEF NegotiationNeeded, OfferEmpty, OfferDescribed, OfferCreated
  <2>2. UNCHANGED <<handlers, emitting, found>>
    BY <1>2 DEF NegotiationNeeded, OfferEmpty, OfferDescribed, OfferCreated
  <2>3. making' \in [Peers -> BOOLEAN]
    <3>1. \E b \in BOOLEAN : making' = [making EXCEPT ![p] = b] \/ making' = making
      BY <1>2 DEF NegotiationNeeded, OfferEmpty, OfferDescribed, OfferCreated
    <3>2. making \in [Peers -> BOOLEAN]
      BY DEF TypeOK
    <3>3. QED
      BY <3>1, <3>2
  <2>4. described' \in [Peers -> Nat] /\ offer_sdp' \in [Peers -> Nat]
    <3>1. described \in [Peers -> Nat] /\ offer_sdp \in [Peers -> Nat]
      BY DEF TypeOK
    <3>2. \/ UNCHANGED <<described, offer_sdp>>
          \/ described' = [described EXCEPT ![p] = @ + 1] /\ UNCHANGED offer_sdp
          \/ offer_sdp' = [offer_sdp EXCEPT ![p] = described[p]] /\ UNCHANGED described
      BY <1>2 DEF NegotiationNeeded, OfferEmpty, OfferDescribed, OfferCreated
    <3>3. QED
      BY <3>1, <3>2
  <2>5. WebrtcTypes'
    BY <2>2, <2>3, <2>4, TypeParts DEF WebrtcTypes
  <2>6. QED
    BY <1>1, <2>1, <2>5, TypeParts, TypePartsNext, SameTypes
<1>3. CASE CandidateFound(p)
  <2>1. WebrtcTypes' /\ UNCHANGED iceVars
    BY <1>3, TypeParts DEF CandidateFound, WebrtcTypes
  <2>2. QED
    BY <1>1, <2>1, TypeParts, TypePartsNext, SameTypes
<1>4. CASE CandidatePosted(p)
  <2>1. emitting[p] \in Nat \ {0} /\ WebrtcTypes'
    BY <1>4, TypeParts DEF CandidatePosted, WebrtcTypes
  <2>2. Append(posted[p], emitting[p]) \in Seq(Nat \ {0})
    BY <2>1, TypeParts, AppendOf DEF IceTypes
  <2>3. IceTypes'
    BY <1>4, <2>2, TypeParts DEF CandidatePosted, IceTypes
  <2>4. QED
    BY <1>1, <2>1, <2>3, TypeParts, TypePartsNext, SameTypes
<1>5. QED
  BY <1>2, <1>3, <1>4 DEF Webrtc

\* So do the steps of the loop's tasks.
LEMMA PumpsTypeOK ==
    ASSUME TypeOK, NEW p \in Peers, Pumps(p)
    PROVE  TypeOK'
<1>1. UNCHANGED <<webrtcVars, sessionVars, remoteVars>>
  BY DEF Pumps, Put, IceTake, IceSent, OfferPoll, OfferSent
<1>2. /\ posted[p] \in Seq(Nat \ {0}) /\ queue[p] \in Seq(Nat \ {0}) /\ iceOut[p] \in Seq(Nat \ {0})
      /\ offersOut[p] \in Seq(Nat \ {0}) /\ offer_sdp[p] \in Nat
  BY DEF TypeOK
<1>3. ASSUME UNCHANGED offerVars, IceTypes'
      PROVE  TypeOK'
  BY <1>1, <1>3, TypeParts, TypePartsNext, SameTypes
<1>4. CASE Put(p)
  <2>1. Head(posted[p]) \in Nat \ {0} /\ Tail(posted[p]) \in Seq(Nat \ {0})
    BY <1>2, <1>4, TailOf DEF Put
  <2>2. Append(queue[p], Head(posted[p])) \in Seq(Nat \ {0})
    BY <1>2, <2>1, AppendOf
  <2>3. IceTypes' /\ UNCHANGED offerVars
    BY <1>4, <2>1, <2>2, TypeParts DEF Put, IceTypes
  <2>4. QED
    BY <2>3, <1>3
<1>5. CASE IceTake(p)
  <2>1. Head(queue[p]) \in Nat \ {0} /\ Tail(queue[p]) \in Seq(Nat \ {0})
    BY <1>2, <1>5, TailOf DEF IceTake
  <2>2. Append(iceOut[p], Head(queue[p])) \in Seq(Nat \ {0})
    BY <1>2, <2>1, AppendOf
  <2>3. posted' = posted /\ queue' \in [Peers -> Seq(Nat \ {0})]
    BY <1>5, <2>1, TypeParts DEF IceTake, IceTypes
  <2>4. icePump' \in [Peers -> Pump]
    BY <1>5, TypeParts DEF IceTake, IceTypes, Pump
  <2>5. iceOut' \in [Peers -> Seq(Nat \ {0})]
    BY <1>5, <2>2, TypeParts DEF IceTake, IceTypes
  <2>6. UNCHANGED offerVars
    BY <1>5 DEF IceTake
  <2>7. QED
    BY <2>3, <2>4, <2>5, <2>6, <1>3, TypeParts DEF IceTypes
<1>6. CASE IceSent(p)
  <2>1. IceTypes' /\ UNCHANGED offerVars
    BY <1>6, TypeParts DEF IceSent, IceTypes, Pump
  <2>2. QED
    BY <2>1, <1>3
<1>7. CASE OfferPoll(p) \/ OfferSent(p)
  <2>1. UNCHANGED iceVars
    BY <1>7 DEF OfferPoll, OfferSent
  <2>2. OfferPoll(p) => Append(offersOut[p], offer_sdp[p]) \in Seq(Nat \ {0})
    BY <1>2, AppendOf DEF OfferPoll
  <2>3. OfferTypes'
    BY <1>2, <1>7, <2>2, TypeParts DEF OfferPoll, OfferSent, OfferTypes, Pump
  <2>4. QED
    BY <1>1, <2>1, <2>3, TypeParts, TypePartsNext, SameTypes
<1>8. QED
  BY <1>4, <1>5, <1>6, <1>7 DEF Pumps

\* An offer is answered by the station it was sent to: a session sends after it
\* began.
Begun == \A p \in Peers : gcs[p] = None => offersOut[p] = <<>>

\* So do the sessions, the stations and the connection.
LEMMA NetworkTypeOK ==
    ASSUME TypeOK, Begun, Start \/ EndSession \/ Network
    PROVE  TypeOK'
<1>1. CASE Start
  <2>1. PICK p \in Peers, g \in Gcs : StartSession(p, g)
    BY <1>1 DEF Start
  <2>2. WebrtcTypes' /\ SessionTypes'
    BY <2>1, TypeParts DEF StartSession, WebrtcTypes, SessionTypes
  <2>3. IceTypes' /\ OfferTypes'
    BY <2>1, TypeParts DEF StartSession, IceTypes, OfferTypes, Pump
  <2>4. UNCHANGED remoteVars
    BY <2>1 DEF StartSession
  <2>5. QED
    BY <2>2, <2>3, <2>4, TypeParts, TypePartsNext, SameTypes
<1>2. CASE EndSession
  <2>1. WebrtcTypes' /\ SessionTypes'
    BY <1>2, TypeParts DEF EndSession, WebrtcTypes, SessionTypes
  <2>2. IceTypes' /\ OfferTypes'
    BY <1>2, TypeParts DEF EndSession, IceTypes, OfferTypes, Pump
  <2>3. UNCHANGED remoteVars
    BY <1>2 DEF EndSession
  <2>4. QED
    BY <2>1, <2>2, <2>3, TypeParts, TypePartsNext, SameTypes
<1>3. CASE Network
  <2>1. UNCHANGED <<webrtcVars, iceVars, offerVars>>
    BY <1>3 DEF Network, Answer, HandleSdp, ConnLost, Reconnect
  <2>2. SessionTypes'
    BY <1>3, TypeParts DEF Network, Answer, HandleSdp, ConnLost, Reconnect, SessionTypes, sessionVars
  <2>3. RemoteTypes'
    <3>1. ASSUME NEW p \in Peers, NEW v \in 1..MaxOffers, Answer(p, v)
          PROVE  RemoteTypes'
      <4>1. gcs[p] \in Gcs
        BY <3>1, TypeParts DEF Answer, Begun, SessionTypes
      <4>2. [gcs |-> gcs[p], offer |-> [peer |-> p, v |-> v]] \in [gcs : Gcs, offer : Offer]
        BY <4>1 DEF Offer
      <4>3. inbox \in Seq([gcs : Gcs, offer : Offer]) /\ answer' = answer
        BY <3>1, TypeParts DEF Answer, RemoteTypes
      <4>4. inbox' \in Seq([gcs : Gcs, offer : Offer])
        BY <3>1, <4>2, <4>3, AppendOf DEF Answer
      <4>5. QED
        BY <4>3, <4>4, TypeParts DEF RemoteTypes
    <3>2. CASE HandleSdp
      <4>1. inbox \in Seq([gcs : Gcs, offer : Offer]) /\ inbox # <<>> /\ inbox' = Tail(inbox)
        BY <3>2, TypeParts DEF HandleSdp, RemoteTypes
      <4>2. Head(inbox) \in [gcs : Gcs, offer : Offer] /\ inbox' \in Seq([gcs : Gcs, offer : Offer])
        BY <4>1, TailOf
      <4>3. answer' \in [Peers -> Offer \cup {NoAnswer}]
        BY <3>2, <4>2, TypeParts DEF HandleSdp, RemoteTypes
      <4>4. QED
        BY <4>2, <4>3 DEF RemoteTypes
    <3>3. CASE ConnLost
      <4>1. <<>> \in Seq([gcs : Gcs, offer : Offer])
        OBVIOUS
      <4>2. inbox' = <<>> /\ answer' = answer
        BY <3>3 DEF ConnLost
      <4>3. QED
        BY <4>1, <4>2, TypeParts DEF RemoteTypes
    <3>4. CASE Reconnect
      BY <3>4, TypeParts, SameTypes DEF Reconnect
    <3>5. QED
      BY <1>3, <3>1, <3>2, <3>3, <3>4 DEF Network
  <2>4. QED
    BY <2>1, <2>2, <2>3, TypeParts, TypePartsNext, SameTypes
<1>4. QED
  BY <1>1, <1>2, <1>3

\* An offer is sent for the current session, which has begun.
LEMMA BegunStep ==
    ASSUME PumpInv, OfferInv, Begun, [Next]_vars
    PROVE  Begun'
<1> USE DEF Begun
<1>1. CASE Start
  BY <1>1 DEF Start, StartSession, OfferInv
<1>2. CASE EndSession \/ Network \/ UNCHANGED vars
  BY <1>2 DEF EndSession, Network, Answer, HandleSdp, ConnLost, Reconnect, vars, offerVars, sessionVars
<1>3. ASSUME NEW p \in Peers, Webrtc(p)
      PROVE  Begun'
  BY <1>3 DEF Webrtc, NegotiationNeeded, OfferEmpty, OfferDescribed, OfferCreated, CandidateFound,
     CandidatePosted, offerVars, sessionVars
<1>4. ASSUME NEW p \in Peers, Pumps(p)
      PROVE  Begun'
  <2>1. UNCHANGED gcs /\ (\A q \in Peers \ {p} : offersOut'[q] = offersOut[q])
    BY <1>4 DEF Pumps, Put, IceTake, IceSent, OfferPoll, OfferSent, offerVars, sessionVars, PumpInv
  <2>2. CASE OfferPoll(p)
    BY <2>1, <2>2, NegotiationAssumption DEF OfferPoll, OfferInv
  <2>3. CASE Put(p) \/ IceTake(p) \/ IceSent(p) \/ OfferSent(p)
    BY <2>1, <2>3 DEF Put, IceTake, IceSent, OfferSent, offerVars
  <2>4. QED
    BY <1>4, <2>2, <2>3 DEF Pumps
<1>5. QED
  BY <1>1, <1>2, <1>3, <1>4 DEF Next

\* What the two invariants of the offers say, in every state.
LEMMA OfferInvariant == Spec => [](PumpInv /\ OfferInv /\ Begun)
<1>1. Init => PumpInv /\ OfferInv /\ OffersInOrder /\ Begun
  BY DEF Init, PumpInv, OfferInv, OffersInOrder, Begun, Everywhere, Pump
<1>2. PumpInv /\ OfferInv /\ OffersInOrder /\ [Next]_vars => (OfferInv /\ OffersInOrder)'
  BY OfferInvStep
<1>3. PumpInv /\ OfferInv /\ Begun /\ [Next]_vars => Begun'
  BY BegunStep
<1>4. QED
  BY PumpInvariant, <1>1, <1>2, <1>3, PTL DEF Spec

\* The variables keep their types; an answer names a station and an offer.
THEOREM TypeCorrect == Spec => []TypeOK
<1>1. Init => TypeOK
  BY DEF Init, TypeOK, Everywhere, Pump
<1>2. ASSUME TypeOK, Begun, [Next]_vars
      PROVE  TypeOK'
  <2>1. CASE UNCHANGED vars
    BY <1>2, <2>1, TypeParts, TypePartsNext, SameTypes DEF vars
  <2>2. QED
    BY <1>2, <2>1, WebrtcTypeOK, PumpsTypeOK, NetworkTypeOK DEF Next
<1>3. QED
  BY <1>1, <1>2, OfferInvariant, PTL DEF Spec

(***************************************************************************)
(* Candidates.                                                             *)
(***************************************************************************)

\* A queue holds consecutive candidates, the first of them k + 1.
Numbered(q, k) == \A i \in 1..Len(q) : q[i] = k + i

\* One more candidate may be added at the end, and one taken at the front.
LEMMA NumberedAppend ==
    ASSUME NEW q \in Seq(Nat \ {0}), NEW k \in Nat, Numbered(q, k), NEW e \in Nat \ {0},
           e = k + Len(q) + 1
    PROVE  Numbered(Append(q, e), k)
  BY AppendOf DEF Numbered

\* Taking the head of numbers in a row leaves the numbers after it.
LEMMA NumberedTail ==
    ASSUME NEW q \in Seq(Nat \ {0}), NEW k \in Nat, Numbered(q, k), q # <<>>
    PROVE  Head(q) = k + 1 /\ Numbered(Tail(q), k + 1)
<1>1. Head(q) = k + 1
  <2>1. Head(q) = q[1] /\ 1 \in 1..Len(q)
    BY TailOf
  <2>2. QED
    BY <2>1 DEF Numbered
<1>2. ASSUME NEW i \in 1..Len(Tail(q))
      PROVE  Tail(q)[i] = k + 1 + i
  <2>1. Tail(q)[i] = q[i + 1] /\ i + 1 \in 1..Len(q)
    BY TailOf
  <2>2. q[i + 1] = k + (i + 1)
    BY <2>1 DEF Numbered
  <2>3. QED
    BY <2>1, <2>2
<1>3. QED
  BY <1>1, <1>2 DEF Numbered

\* How many candidates of p its station got, its queue and the loop's callbacks
\* hold.
Got(p) == Len(iceOut[p])
Queued(p) == Len(queue[p])
Posted(p) == Len(posted[p])

\* While p's pump has not ended its candidates, numbered as they were found,
\* are spread in this order over what its station got, the queue, the loop's
\* callbacks and the one webrtcbin's thread is handing over.
CandOf(p) ==
    /\ gcs[p] = None => icePump[p] = "none"
    /\ Numbered(iceOut[p], 0)
    /\ icePump[p] # "ended" =>
          /\ Numbered(queue[p], Got(p))
          /\ Numbered(posted[p], Got(p) + Queued(p))
          /\ emitting[p] = 0 => found[p] = Got(p) + Queued(p) + Posted(p)
          /\ emitting[p] # 0 =>
                /\ found[p] = Got(p) + Queued(p) + Posted(p) + 1
                /\ emitting[p] = found[p]

CandInv == \A p \in Peers : CandOf(p)

\* What CandOf reads of p.
CandVars(p) ==
    <<gcs[p], icePump[p], iceOut[p], queue[p], posted[p], emitting[p], found[p]>>

\* What leaves a session's candidates alone keeps the invariant of it.
LEMMA SameCand ==
    ASSUME NEW p \in Peers, CandOf(p), UNCHANGED CandVars(p)
    PROVE  CandOf(p)'
<1>1. /\ gcs'[p] = gcs[p] /\ icePump'[p] = icePump[p] /\ iceOut'[p] = iceOut[p]
      /\ queue'[p] = queue[p] /\ posted'[p] = posted[p] /\ emitting'[p] = emitting[p]
      /\ found'[p] = found[p]
  BY DEF CandVars
<1>2. Got(p)' = Got(p) /\ Queued(p)' = Queued(p) /\ Posted(p)' = Posted(p)
  BY <1>1 DEF Got, Queued, Posted
<1>3. QED
  BY <1>1, <1>2 DEF CandOf, Numbered

\* The types of what CandOf reads.
LEMMA CandTypes ==
    ASSUME TypeOK, NEW p \in Peers
    PROVE  /\ iceOut[p] \in Seq(Nat \ {0}) /\ queue[p] \in Seq(Nat \ {0})
           /\ posted[p] \in Seq(Nat \ {0}) /\ emitting[p] \in Nat /\ found[p] \in Nat
           /\ Got(p) \in Nat /\ Queued(p) \in Nat /\ Posted(p) \in Nat
<1>1. iceOut[p] \in Seq(Nat \ {0}) /\ queue[p] \in Seq(Nat \ {0}) /\ posted[p] \in Seq(Nat \ {0})
  BY TypeParts DEF IceTypes
<1>2. emitting[p] \in Nat /\ found[p] \in Nat
  BY TypeParts DEF WebrtcTypes
<1>3. Got(p) \in Nat /\ Queued(p) \in Nat /\ Posted(p) \in Nat
  BY <1>1 DEF Got, Queued, Posted
<1>4. QED
  BY <1>1, <1>2, <1>3

\* A step of p's thread, its pump or the loop leaves the other sessions alone.
LEMMA OtherCand ==
    ASSUME TypeOK, NEW p \in Peers, Webrtc(p) \/ Pumps(p), NEW q \in Peers, q # p
    PROVE  UNCHANGED CandVars(q)
<1>1. /\ icePump \in [Peers -> Pump] /\ DOMAIN iceOut = Peers /\ DOMAIN queue = Peers
      /\ DOMAIN posted = Peers /\ DOMAIN emitting = Peers /\ DOMAIN found = Peers
  BY DEF TypeOK
<1>2. UNCHANGED gcs
  BY DEF Webrtc, NegotiationNeeded, OfferEmpty, OfferDescribed, OfferCreated, CandidateFound,
     CandidatePosted, Pumps, Put, IceTake, IceSent, OfferPoll, OfferSent, sessionVars
<1>3. CASE Webrtc(p)
  <2>1. emitting'[q] = emitting[q] /\ found'[q] = found[q]
    BY <1>1, <1>3 DEF Webrtc, NegotiationNeeded, OfferEmpty, OfferDescribed, OfferCreated,
       CandidateFound, CandidatePosted
  <2>2. posted'[q] = posted[q] /\ UNCHANGED <<queue, icePump, iceOut>>
    BY <1>1, <1>3 DEF Webrtc, NegotiationNeeded, OfferEmpty, OfferDescribed, OfferCreated,
       CandidateFound, CandidatePosted, iceVars
  <2>3. QED
    BY <1>2, <2>1, <2>2 DEF CandVars
<1>4. CASE Pumps(p)
  <2>1. UNCHANGED <<emitting, found>>
    BY <1>4 DEF Pumps, Put, IceTake, IceSent, OfferPoll, OfferSent, webrtcVars
  <2>2. queue'[q] = queue[q] /\ posted'[q] = posted[q]
    BY <1>1, <1>4 DEF Pumps, Put, IceTake, IceSent, OfferPoll, OfferSent, iceVars
  <2>3. icePump'[q] = icePump[q] /\ iceOut'[q] = iceOut[q]
    BY <1>1, <1>4 DEF Pumps, Put, IceTake, IceSent, OfferPoll, OfferSent, iceVars
  <2>4. QED
    BY <1>2, <2>1, <2>2, <2>3 DEF CandVars
<1>5. QED
  BY <1>3, <1>4

\* A thread of webrtcbin hands candidates over in the order it finds them.
LEMMA WebrtcCand ==
    ASSUME TypeOK, NEW p \in Peers, CandOf(p), Webrtc(p)
    PROVE  CandOf(p)'
<1>t. /\ iceOut[p] \in Seq(Nat \ {0}) /\ queue[p] \in Seq(Nat \ {0})
      /\ posted[p] \in Seq(Nat \ {0}) /\ emitting[p] \in Nat /\ found[p] \in Nat
      /\ Got(p) \in Nat /\ Queued(p) \in Nat /\ Posted(p) \in Nat
  BY CandTypes
<1>1. CASE NegotiationNeeded(p) \/ OfferEmpty(p) \/ OfferDescribed(p) \/ OfferCreated(p)
  <2>1. UNCHANGED CandVars(p)
    BY <1>1 DEF NegotiationNeeded, OfferEmpty, OfferDescribed, OfferCreated, CandVars, iceVars,
       sessionVars
  <2>2. QED
    BY <2>1, SameCand
<1>2. CASE CandidateFound(p)
  <2>1. UNCHANGED <<gcs, icePump, iceOut, queue, posted>>
    BY <1>2 DEF CandidateFound, iceVars, sessionVars
  <2>2. emitting[p] = 0 /\ found'[p] = found[p] + 1 /\ emitting'[p] = found[p] + 1
    BY <1>2 DEF CandidateFound, TypeOK
  <2>g. Got(p)' = Got(p) /\ Queued(p)' = Queued(p) /\ Posted(p)' = Posted(p)
    BY <2>1 DEF Got, Queued, Posted
  <2>3. icePump[p] # "ended" => found'[p] = Got(p) + Queued(p) + Posted(p) + 1
    BY <2>2, <1>t DEF CandOf
  <2>4. emitting'[p] # 0 /\ emitting'[p] = found'[p]
    BY <2>2, <1>t
  <2>5. QED
    BY <2>1, <2>g, <2>3, <2>4 DEF CandOf, Numbered
<1>3. CASE CandidatePosted(p)
  <2>1. UNCHANGED <<gcs, icePump, iceOut, queue, found>>
    BY <1>3 DEF CandidatePosted, sessionVars
  <2>2. posted'[p] = Append(posted[p], emitting[p])
    BY <1>3 DEF CandidatePosted, TypeOK
  <2>3. emitting[p] # 0 /\ emitting'[p] = 0
    BY <1>3, <1>t DEF CandidatePosted, TypeOK
  <2>4. Posted(p)' = Posted(p) + 1
    BY <2>2, <2>3, <1>t, AppendOf DEF Posted
  <2>g. Got(p)' = Got(p) /\ Queued(p)' = Queued(p)
    BY <2>1 DEF Got, Queued
  <2>5. CASE icePump[p] = "ended"
    BY <2>1, <2>5, <2>g DEF CandOf, Numbered
  <2>6. CASE icePump[p] # "ended"
    <3>1. emitting[p] = Got(p) + Queued(p) + Posted(p) + 1 /\ emitting[p] = found[p]
      BY <2>3, <2>6, <1>t DEF CandOf
    <3>2. Numbered(posted[p], Got(p) + Queued(p))
      BY <2>6 DEF CandOf
    <3>3. Got(p) + Queued(p) \in Nat /\ emitting[p] \in Nat \ {0}
      BY <2>3, <1>t
    <3>4. Numbered(posted'[p], Got(p) + Queued(p))
      <4>1. emitting[p] = (Got(p) + Queued(p)) + Len(posted[p]) + 1
        BY <3>1 DEF Posted
      <4>2. posted[p] \in Seq(Nat \ {0})
        BY <1>t
      <4>3. Numbered(Append(posted[p], emitting[p]), Got(p) + Queued(p))
        BY <3>2, <3>3, <4>1, <4>2, NumberedAppend
      <4>4. QED
        BY <2>2, <4>3
    <3>5. found[p] = Got(p) + Queued(p) + Posted(p)'
      BY <2>4, <3>1, <1>t
    <3>6. QED
      BY <2>1, <2>3, <2>g, <3>4, <3>5 DEF CandOf, Numbered
  <2>7. QED
    BY <2>5, <2>6
<1>4. QED
  BY <1>1, <1>2, <1>3 DEF Webrtc

\* The loop queues them, and the pump sends them, in that order.
LEMMA PumpsCand ==
    ASSUME TypeOK, NEW p \in Peers, CandOf(p), Pumps(p)
    PROVE  CandOf(p)'
<1>t. /\ iceOut[p] \in Seq(Nat \ {0}) /\ queue[p] \in Seq(Nat \ {0})
      /\ posted[p] \in Seq(Nat \ {0}) /\ emitting[p] \in Nat /\ found[p] \in Nat
      /\ Got(p) \in Nat /\ Queued(p) \in Nat /\ Posted(p) \in Nat
  BY CandTypes
<1>1. UNCHANGED <<gcs, emitting, found>>
  BY DEF Pumps, Put, IceTake, IceSent, OfferPoll, OfferSent, webrtcVars, sessionVars
<1>2. CASE Put(p)
  <2>1. UNCHANGED <<icePump, iceOut>> /\ posted[p] # <<>>
    BY <1>2 DEF Put
  <2>2. queue'[p] = Append(queue[p], Head(posted[p])) /\ posted'[p] = Tail(posted[p])
    BY <1>2 DEF Put, TypeOK
  <2>3. Got(p)' = Got(p)
    BY <2>1 DEF Got
  <2>4. Head(posted[p]) \in Nat \ {0} /\ Posted(p)' = Posted(p) - 1 /\ Posted(p) \in Nat \ {0}
    BY <2>1, <2>2, <1>t, TailOf DEF Posted
  <2>5. Queued(p)' = Queued(p) + 1
    BY <2>2, <2>4, <1>t, AppendOf DEF Queued
  <2>6. CASE icePump[p] = "ended"
    BY <1>1, <2>1, <2>6 DEF CandOf, Numbered
  <2>7. CASE icePump[p] # "ended"
    <3>1. Numbered(queue[p], Got(p)) /\ Numbered(posted[p], Got(p) + Queued(p))
      BY <2>7 DEF CandOf
    <3>2. Got(p) + Queued(p) \in Nat
      BY <1>t
    <3>3. /\ Head(posted[p]) = Got(p) + Queued(p) + 1
          /\ Numbered(posted'[p], Got(p) + Queued(p) + 1)
      <4>1. posted[p] \in Seq(Nat \ {0}) /\ posted[p] # <<>>
        BY <2>1, <1>t
      <4>2. QED
        BY <2>2, <3>1, <3>2, <4>1, NumberedTail
    <3>4. Head(posted[p]) = Got(p) + Len(queue[p]) + 1
      BY <3>3 DEF Queued
    <3>5. Numbered(queue'[p], Got(p))
      BY <2>2, <2>4, <3>1, <3>4, <1>t, NumberedAppend
    <3>6. Got(p) + Queued(p) + 1 = Got(p) + Queued(p)'
      BY <2>5, <1>t
    <3>7. Got(p) + Queued(p)' + Posted(p)' = Got(p) + Queued(p) + Posted(p)
      BY <2>4, <2>5, <1>t
    <3>8. QED
      BY <1>1, <2>1, <2>3, <2>7, <3>3, <3>5, <3>6, <3>7 DEF CandOf, Numbered
  <2>8. QED
    BY <2>6, <2>7
<1>3. CASE IceTake(p)
  <2>1. icePump[p] = "wait" /\ queue[p] # <<>> /\ UNCHANGED posted
    BY <1>3 DEF IceTake
  <2>2. CASE conn = "open"
    <3>1. /\ iceOut'[p] = Append(iceOut[p], Head(queue[p])) /\ queue'[p] = Tail(queue[p])
          /\ icePump'[p] = "drain"
      BY <1>3, <2>2 DEF IceTake, TypeOK
    <3>2. /\ Numbered(iceOut[p], 0) /\ Numbered(queue[p], Got(p))
          /\ Numbered(posted[p], Got(p) + Queued(p)) /\ gcs[p] # None
      BY <2>1 DEF CandOf
    <3>3. Head(queue[p]) = Got(p) + 1 /\ Numbered(queue'[p], Got(p) + 1)
      <4>1. queue[p] \in Seq(Nat \ {0}) /\ queue[p] # <<>> /\ Got(p) \in Nat
        BY <2>1, <1>t
      <4>2. QED
        BY <3>1, <3>2, <4>1, NumberedTail
    <3>4. Head(queue[p]) \in Nat \ {0} /\ Queued(p)' = Queued(p) - 1 /\ Queued(p) \in Nat \ {0}
      BY <2>1, <3>1, <1>t, TailOf DEF Queued
    <3>5. Got(p)' = Got(p) + 1
      BY <3>1, <3>4, <1>t, AppendOf DEF Got
    <3>6. Head(queue[p]) = 0 + Len(iceOut[p]) + 1
      <4>1. Head(queue[p]) = 0 + Got(p) + 1
        BY <3>3, <1>t
      <4>2. QED
        BY <4>1 DEF Got
    <3>7. Numbered(iceOut'[p], 0)
      BY <3>1, <3>2, <3>4, <3>6, <1>t, NumberedAppend
    <3>8. Got(p)' + Queued(p)' = Got(p) + Queued(p) /\ Posted(p)' = Posted(p)
      <4>1. Got(p)' + Queued(p)' = Got(p) + Queued(p)
        BY <3>4, <3>5, <1>t
      <4>2. QED
        BY <2>1, <4>1 DEF Posted
    <3>9. QED
      BY <1>1, <2>1, <3>1, <3>2, <3>3, <3>5, <3>7, <3>8 DEF CandOf, Numbered
  <2>3. CASE conn # "open"
    <3>1. icePump'[p] = "ended" /\ UNCHANGED iceOut
      BY <1>3, <2>3 DEF IceTake, TypeOK
    <3>2. QED
      BY <1>1, <2>1, <3>1 DEF CandOf, Numbered
  <2>4. QED
    BY <2>2, <2>3
<1>4. CASE IceSent(p)
  <2>1. icePump[p] = "drain" /\ icePump'[p] \in {"wait", "ended"} /\ UNCHANGED <<iceOut, queue, posted>>
    BY <1>4 DEF IceSent, TypeOK
  <2>2. Got(p)' = Got(p) /\ Queued(p)' = Queued(p) /\ Posted(p)' = Posted(p)
    BY <2>1 DEF Got, Queued, Posted
  <2>3. QED
    BY <1>1, <2>1, <2>2 DEF CandOf, Numbered
<1>5. CASE OfferPoll(p) \/ OfferSent(p)
  <2>1. UNCHANGED CandVars(p)
    BY <1>1, <1>5 DEF OfferPoll, OfferSent, iceVars, CandVars
  <2>2. QED
    BY <2>1, SameCand
<1>6. QED
  BY <1>2, <1>3, <1>4, <1>5 DEF Pumps

\* The pump of a session that ends stops sending; one that begins has found
\* nothing yet.
LEMMA CandInvStep ==
    ASSUME TypeOK, OfferInv, CandInv, [Next]_vars
    PROVE  CandInv'
<1> SUFFICES ASSUME NEW q \in Peers
             PROVE  CandOf(q)'
  BY DEF CandInv
<1>0. CandOf(q)
  BY DEF CandInv
<1>1. CASE Start
  <2>1. PICK p \in Peers, g \in Gcs : StartSession(p, g)
    BY <1>1 DEF Start
  <2>2. UNCHANGED <<iceOut, queue, posted, emitting, found>>
    BY <2>1 DEF StartSession
  <2>3. CASE q = p
    <3>1. icePump[q] = "none"
      BY <1>0, <2>1, <2>3 DEF StartSession, CandOf
    <3>2. gcs'[q] # None /\ icePump'[q] = "wait"
      BY <2>1, <2>3, NegotiationAssumption DEF StartSession, TypeOK
    <3>3. Got(q)' = Got(q) /\ Queued(q)' = Queued(q) /\ Posted(q)' = Posted(q)
      BY <2>2 DEF Got, Queued, Posted
    <3>4. QED
      BY <1>0, <2>2, <3>1, <3>2, <3>3 DEF CandOf, Numbered
  <2>4. CASE q # p
    <3>1. gcs'[q] = gcs[q] /\ icePump'[q] = icePump[q]
      BY <2>1, <2>4 DEF StartSession, TypeOK
    <3>2. QED
      BY <1>0, <2>2, <3>1, SameCand DEF CandVars
  <2>5. QED
    BY <2>3, <2>4
<1>2. CASE EndSession
  <2>1. UNCHANGED <<gcs, iceOut, queue, posted, emitting, found>>
    BY <1>2 DEF EndSession
  <2>2. CASE q = peer
    <3>1. icePump'[q] = "ended" /\ gcs[q] # None
      BY <1>2, <2>2 DEF EndSession, TypeOK, OfferInv
    <3>2. QED
      BY <1>0, <2>1, <3>1 DEF CandOf, Numbered
  <2>3. CASE q # peer
    <3>1. icePump'[q] = icePump[q]
      BY <1>2, <2>3 DEF EndSession, TypeOK
    <3>2. QED
      BY <1>0, <2>1, <3>1, SameCand DEF CandVars
  <2>4. QED
    BY <2>2, <2>3
<1>3. CASE Network \/ UNCHANGED vars
  <2>1. UNCHANGED CandVars(q)
    BY <1>3 DEF Network, Answer, HandleSdp, ConnLost, Reconnect, vars, webrtcVars, iceVars,
       sessionVars, CandVars
  <2>2. QED
    BY <1>0, <2>1, SameCand
<1>4. CASE \E p \in Peers : Webrtc(p) \/ Pumps(p)
  <2>1. PICK p \in Peers : Webrtc(p) \/ Pumps(p)
    BY <1>4
  <2>2. QED
    BY <1>0, <2>1, OtherCand, SameCand, WebrtcCand, PumpsCand
<1>5. QED
  BY <1>1, <1>2, <1>3, <1>4 DEF Next

\* A station gets the candidates in the order they were found, without a gap.
THEOREM CandidatesGoOutInOrder == Spec => []CandidatesInOrder
<1>1. Init => CandInv
  BY DEF Init, CandInv, CandOf, Numbered, Got, Queued, Posted, Everywhere
<1>2. TypeOK /\ OfferInv /\ CandInv /\ [Next]_vars => CandInv'
  BY CandInvStep
<1>3. TypeOK /\ CandInv => CandidatesInOrder
  <2>1. SUFFICES ASSUME TypeOK, CandInv, NEW p \in Peers, NEW i \in DOMAIN iceOut[p]
                 PROVE  iceOut[p][i] = i
    BY DEF CandidatesInOrder
  <2>2. iceOut[p] \in Seq(Nat \ {0})
    BY <2>1, CandTypes
  <2>3. i \in 1..Len(iceOut[p]) /\ i \in Nat
    BY <2>1, <2>2
  <2>4. Numbered(iceOut[p], 0)
    BY <2>1 DEF CandInv, CandOf
  <2>5. iceOut[p][i] = 0 + i
    BY <2>3, <2>4 DEF Numbered
  <2>6. QED
    BY <2>3, <2>5
<1>4. QED
  BY <1>1, <1>2, <1>3, TypeCorrect, OfferInvariant, PTL DEF Spec
==============================================================================
