------------------------------ MODULE Negotiation ------------------------------
(***************************************************************************)
(* The signalling of one WebRTC session after another: the offers and ICE  *)
(* candidates webrtcbin makes in its own threads (PeerSession's handlers), *)
(* the two pumps of WebRTCManager that carry them to the signalling        *)
(* connection, the answers the operators send back, and end_session, which *)
(* cancels the pumps wherever they await.                                  *)
(*                                                                         *)
(* Steps of the loop's tasks run from one await to the next; SignalClient. *)
(* send hands the message to the connection before it awaits the drain.    *)
(* The steps of webrtcbin's threads fall anywhere between.  (Sessions that *)
(* other threads end are the subject of Coordinator.)                      *)
(***************************************************************************)
EXTENDS Naturals, Sequences, Functions

CONSTANTS
    Peers,      \* identities of PeerSession objects, each used once
    Gcs,        \* the operators' stations (gcs_id)
    MaxOffers,  \* bound: offers webrtcbin makes, in all sessions together
    MaxCands,   \* bound: local candidates it finds, in all sessions together
    MaxInbox,   \* bound: answers on their way to the board
    None

ASSUME NegotiationAssumption ==
    /\ None \notin Peers
    /\ None \notin Gcs
    /\ MaxOffers \in Nat
    /\ MaxCands \in Nat
    /\ MaxInbox \in Nat

VARIABLES
    conn,      \* the signalling connection: open or lost
    peer,      \* WebRTCManager._peer
    gcs,       \* per peer: gcs_id, None before its session
    handlers,  \* per peer: its webrtcbin signal handlers are connected
    making,    \* per peer: webrtcbin is making an offer
    described, \* per peer: webrtcbin's local description, 0 for none
    offer_sdp, \* per peer: offer_sdp, 0 for None
    emitting,  \* per peer: the candidate _on_ice_candidate is called with, or 0
    found,     \* per peer: how many candidates were found
    posted,    \* per peer: candidates handed to call_soon_threadsafe
    queue,     \* per peer: ice_candidates
    offerPump, \* per peer: where _pump_offer is
    sent,      \* per peer: its local variable sent
    icePump,   \* per peer: where _pump_ice is
    offersOut, \* per peer: the offers sent to its station, in order
    iceOut,    \* per peer: the candidates sent to its station, in order
    inbox,     \* answers on their way to the board, in order
    answer     \* per peer: the offer whose answer webrtcbin was last given

webrtcVars  == <<handlers, making, described, offer_sdp, emitting, found>>
iceVars     == <<posted, queue, icePump, iceOut>>
offerVars   == <<offerPump, sent, offersOut>>
sessionVars == <<conn, peer, gcs>>
remoteVars  == <<inbox, answer>>
vars == <<webrtcVars, iceVars, offerVars, sessionVars, remoteVars>>

Pump == {"none", "wait", "drain", "ended"}
Offer == [peer : Peers, v : 1..MaxOffers]
NoAnswer == [peer |-> None, v |-> 0]

TypeOK ==
    /\ conn \in {"open", "lost"}
    /\ peer \in Peers \cup {None}
    /\ gcs \in [Peers -> Gcs \cup {None}]
    /\ handlers \in [Peers -> BOOLEAN]
    /\ making \in [Peers -> BOOLEAN]
    /\ described \in [Peers -> Nat]
    /\ offer_sdp \in [Peers -> Nat]
    /\ emitting \in [Peers -> Nat]
    /\ found \in [Peers -> Nat]
    /\ posted \in [Peers -> Seq(Nat \ {0})]
    /\ queue \in [Peers -> Seq(Nat \ {0})]
    /\ offerPump \in [Peers -> Pump]
    /\ sent \in [Peers -> Nat]
    /\ icePump \in [Peers -> Pump]
    /\ offersOut \in [Peers -> Seq(Nat \ {0})]
    /\ iceOut \in [Peers -> Seq(Nat \ {0})]
    /\ inbox \in Seq([gcs : Gcs, offer : Offer])
    /\ answer \in [Peers -> Offer \cup {NoAnswer}]

Everywhere(x) == [p \in Peers |-> x]

Total(f) == FoldFunction(+, 0, f)

Init ==
    /\ conn = "open"
    /\ peer = None
    /\ gcs = Everywhere(None)
    /\ handlers = Everywhere(FALSE)
    /\ making = Everywhere(FALSE)
    /\ described = Everywhere(0)
    /\ offer_sdp = Everywhere(0)
    /\ emitting = Everywhere(0)
    /\ found = Everywhere(0)
    /\ posted = Everywhere(<<>>)
    /\ queue = Everywhere(<<>>)
    /\ offerPump = Everywhere("none")
    /\ sent = Everywhere(0)
    /\ icePump = Everywhere("none")
    /\ offersOut = Everywhere(<<>>)
    /\ iceOut = Everywhere(<<>>)
    /\ inbox = <<>>
    /\ answer = Everywhere(NoAnswer)

-----------------------------------------------------------------------------
(* start_session and end_session. *)

\* A session of any station, the one whose session has just ended among them.
StartSession(p, g) ==
    /\ conn = "open"
    /\ peer = None
    /\ gcs[p] = None
    /\ peer' = p
    /\ gcs' = [gcs EXCEPT ![p] = g]
    /\ handlers' = [handlers EXCEPT ![p] = TRUE]
    /\ offerPump' = [offerPump EXCEPT ![p] = "wait"]
    /\ icePump' = [icePump EXCEPT ![p] = "wait"]
    /\ UNCHANGED <<conn, making, described, offer_sdp, emitting, found, posted,
                   queue, sent, offersOut, iceOut, remoteVars>>

\* Mutant: the pumps are left to notice that the session is over.
MutantNoCancel ==
    /\ peer # None
    /\ peer' = None
    /\ handlers' = [handlers EXCEPT ![peer] = FALSE]
    /\ UNCHANGED <<conn, gcs, making, described, offer_sdp, emitting, found,
                   iceVars, offerVars, remoteVars>>

\* Mutant: the ICE pump is told to stop by an empty candidate in its queue.
MutantSentinel ==
    /\ peer # None
    /\ peer' = None
    /\ offerPump' = [offerPump EXCEPT ![peer] = "ended"]
    /\ queue' = [queue EXCEPT ![peer] = Append(@, 0)]
    /\ handlers' = [handlers EXCEPT ![peer] = FALSE]
    /\ UNCHANGED <<conn, gcs, making, described, offer_sdp, emitting, found,
                   posted, icePump, sent, offersOut, iceOut, remoteVars>>

EndSession ==
    /\ peer # None
    /\ peer' = None
    /\ offerPump' = [offerPump EXCEPT ![peer] = "ended"]
    /\ icePump' = [icePump EXCEPT ![peer] = "ended"]
    /\ handlers' = [handlers EXCEPT ![peer] = FALSE]
    /\ UNCHANGED <<conn, gcs, making, described, offer_sdp, emitting, found,
                   posted, queue, sent, offersOut, iceOut, remoteVars>>

-----------------------------------------------------------------------------
(* webrtcbin's threads. *)

\* on-negotiation-needed: create-offer.
NegotiationNeeded(p) ==
    /\ handlers[p]
    /\ ~making[p]
    /\ Total(described) < MaxOffers
    /\ making' = [making EXCEPT ![p] = TRUE]
    /\ UNCHANGED <<handlers, described, offer_sdp, emitting, found, iceVars,
                   offerVars, sessionVars, remoteVars>>

\* _on_offer_created, whether the session still lives or not: an empty reply
\* is ignored, an offer becomes the local description.
OfferEmpty(p) ==
    /\ making[p]
    /\ described[p] = offer_sdp[p]
    /\ making' = [making EXCEPT ![p] = FALSE]
    /\ UNCHANGED <<handlers, described, offer_sdp, emitting, found, iceVars,
                   offerVars, sessionVars, remoteVars>>

OfferDescribed(p) ==
    /\ making[p]
    /\ described[p] = offer_sdp[p]
    /\ Total(described) < MaxOffers
    /\ described' = [described EXCEPT ![p] = @ + 1]
    /\ UNCHANGED <<handlers, making, offer_sdp, emitting, found, iceVars,
                   offerVars, sessionVars, remoteVars>>

\* The end of _on_offer_created: the pump may see the offer.
OfferCreated(p) ==
    /\ described[p] # offer_sdp[p]
    /\ offer_sdp' = [offer_sdp EXCEPT ![p] = described[p]]
    /\ making' = [making EXCEPT ![p] = FALSE]
    /\ UNCHANGED <<handlers, described, emitting, found, iceVars, offerVars,
                   sessionVars, remoteVars>>

\* on-ice-candidate: gathering starts with the local description.
CandidateFound(p) ==
    /\ handlers[p]
    /\ described[p] > 0
    /\ emitting[p] = 0
    /\ Total(found) < MaxCands
    /\ found' = [found EXCEPT ![p] = @ + 1]
    /\ emitting' = [emitting EXCEPT ![p] = found'[p]]
    /\ UNCHANGED <<handlers, making, described, offer_sdp, iceVars, offerVars,
                   sessionVars, remoteVars>>

\* The end of _on_ice_candidate, which a close() does not stop.
CandidatePosted(p) ==
    /\ emitting[p] > 0
    /\ posted' = [posted EXCEPT ![p] = Append(@, emitting[p])]
    /\ emitting' = [emitting EXCEPT ![p] = 0]
    /\ UNCHANGED <<handlers, making, described, offer_sdp, found, queue, icePump,
                   iceOut, offerVars, sessionVars, remoteVars>>

Webrtc(p) ==
    \/ NegotiationNeeded(p) \/ OfferEmpty(p) \/ OfferDescribed(p)
    \/ OfferCreated(p) \/ CandidateFound(p) \/ CandidatePosted(p)

-----------------------------------------------------------------------------
(* The loop: the posted callbacks and the pumps. *)

\* ice_candidates.put_nowait.
Put(p) ==
    /\ posted[p] # <<>>
    /\ queue' = [queue EXCEPT ![p] = Append(@, Head(posted[p]))]
    /\ posted' = [posted EXCEPT ![p] = Tail(@)]
    /\ UNCHANGED <<webrtcVars, icePump, iceOut, offerVars, sessionVars, remoteVars>>

\* Mutant: candidates that come before the offer are dropped.
MutantNeedsOffer(p) ==
    /\ icePump[p] = "wait"
    /\ queue[p] # <<>>
    /\ queue' = [queue EXCEPT ![p] = Tail(@)]
    /\ IF conn = "open" /\ offersOut[p] # <<>>
       THEN /\ iceOut' = [iceOut EXCEPT ![p] = Append(@, Head(queue[p]))]
            /\ icePump' = [icePump EXCEPT ![p] = "drain"]
       ELSE UNCHANGED <<iceOut, icePump>>
    /\ UNCHANGED <<webrtcVars, posted, offerVars, sessionVars, remoteVars>>

\* _pump_ice: get() returns and send() writes, or raises and ends the pump.
IceTake(p) ==
    /\ icePump[p] = "wait"
    /\ queue[p] # <<>>
    /\ queue' = [queue EXCEPT ![p] = Tail(@)]
    /\ IF conn = "open"
       THEN /\ iceOut' = [iceOut EXCEPT ![p] = Append(@, Head(queue[p]))]
            /\ icePump' = [icePump EXCEPT ![p] = "drain"]
       ELSE /\ icePump' = [icePump EXCEPT ![p] = "ended"]
            /\ UNCHANGED iceOut
    /\ UNCHANGED <<webrtcVars, posted, offerVars, sessionVars, remoteVars>>

\* Mutant: the pump does not loop.
MutantOneCandidate(p) ==
    /\ icePump[p] = "drain"
    /\ icePump' = [icePump EXCEPT ![p] = "ended"]
    /\ UNCHANGED <<webrtcVars, posted, queue, iceOut, offerVars, sessionVars,
                   remoteVars>>

\* send() returns, or raises if the connection was lost; the loop goes on while
\* the session is this peer's.
IceSent(p) ==
    /\ icePump[p] = "drain"
    /\ icePump' = [icePump EXCEPT
                      ![p] = IF conn = "open" /\ peer = p THEN "wait" ELSE "ended"]
    /\ UNCHANGED <<webrtcVars, posted, queue, iceOut, offerVars, sessionVars,
                   remoteVars>>

\* _pump_offer wakes up to an offer it did not send: send() writes, or raises.
OfferPoll(p) ==
    /\ offerPump[p] = "wait"
    /\ peer = p
    /\ offer_sdp[p] # 0
    /\ offer_sdp[p] # sent[p]
    /\ IF conn = "open"
       THEN /\ offersOut' = [offersOut EXCEPT ![p] = Append(@, offer_sdp[p])]
            /\ offerPump' = [offerPump EXCEPT ![p] = "drain"]
       ELSE /\ offerPump' = [offerPump EXCEPT ![p] = "ended"]
            /\ UNCHANGED offersOut
    /\ UNCHANGED <<webrtcVars, iceVars, sent, sessionVars, remoteVars>>

\* Mutant: what was sent is not remembered.
MutantForget(p) ==
    /\ offerPump[p] = "drain"
    /\ offerPump' = [offerPump EXCEPT ![p] = IF conn = "open" THEN "wait" ELSE "ended"]
    /\ UNCHANGED <<webrtcVars, iceVars, sent, offersOut, sessionVars, remoteVars>>

\* send() returns and the pump remembers the offer it reads now, which need not
\* be the one it sent.
OfferSent(p) ==
    /\ offerPump[p] = "drain"
    /\ IF conn = "open"
       THEN /\ sent' = [sent EXCEPT ![p] = offer_sdp[p]]
            /\ offerPump' = [offerPump EXCEPT ![p] = "wait"]
       ELSE /\ offerPump' = [offerPump EXCEPT ![p] = "ended"]
            /\ UNCHANGED sent
    /\ UNCHANGED <<webrtcVars, iceVars, offersOut, sessionVars, remoteVars>>

Pumps(p) == Put(p) \/ IceTake(p) \/ IceSent(p) \/ OfferPoll(p) \/ OfferSent(p)

-----------------------------------------------------------------------------
(* The stations and the connection. *)

\* A station answers an offer it was sent.
Answer(p, v) ==
    /\ conn = "open"
    /\ Len(inbox) < MaxInbox
    /\ \E i \in DOMAIN offersOut[p] : offersOut[p][i] = v
    /\ inbox' = Append(inbox, [gcs |-> gcs[p], offer |-> [peer |-> p, v |-> v]])
    /\ UNCHANGED <<webrtcVars, iceVars, offerVars, sessionVars, answer>>

\* Mutant: no answer is expected before the pump has sent an offer.
MutantAfterSend(g) == peer # None /\ gcs[peer] = g /\ sent[peer] # 0

\* _guard: the message is for the active session's station.
Guard(g) == peer # None /\ gcs[peer] = g

\* _handle_sdp and apply_answer: webrtcbin is given the answer if the guard lets
\* the message through, for which session it was made or not.
HandleSdp ==
    /\ inbox # <<>>
    /\ inbox' = Tail(inbox)
    /\ answer' = IF Guard(Head(inbox).gcs)
                 THEN [answer EXCEPT ![peer] = Head(inbox).offer] ELSE answer
    /\ UNCHANGED <<webrtcVars, iceVars, offerVars, sessionVars>>

ConnLost ==
    /\ conn = "open"
    /\ conn' = "lost"
    /\ inbox' = <<>>
    /\ UNCHANGED <<webrtcVars, iceVars, offerVars, peer, gcs, answer>>

\* run() reconnects after its teardown.
Reconnect ==
    /\ conn = "lost"
    /\ peer = None
    /\ conn' = "open"
    /\ UNCHANGED <<webrtcVars, iceVars, offerVars, peer, gcs, remoteVars>>

Network ==
    \/ \E p \in Peers : \E v \in 1..MaxOffers : Answer(p, v)
    \/ HandleSdp \/ ConnLost \/ Reconnect

Start == \E p \in Peers, g \in Gcs : StartSession(p, g)

Next ==
    \/ Start \/ EndSession \/ Network
    \/ \E p \in Peers : Webrtc(p) \/ Pumps(p)

Spec == Init /\ [][Next]_vars

\* The loop runs its tasks, listen() among them, and webrtcbin's callbacks
\* return; nobody owes an offer, a candidate, an answer or the end of a session.
Fairness ==
    /\ WF_vars(HandleSdp)
    /\ \A p \in Peers :
          /\ WF_vars(Put(p))
          /\ WF_vars(IceTake(p) \/ IceSent(p))
          /\ WF_vars(OfferPoll(p) \/ OfferSent(p))
          /\ WF_vars(OfferCreated(p))
          /\ WF_vars(CandidatePosted(p))

FairSpec == Spec /\ Fairness

-----------------------------------------------------------------------------
(* Properties. *)

\* A station is never sent an offer again, nor an older one after a newer one.
OffersInOrder ==
    \A p \in Peers : \A i, j \in DOMAIN offersOut[p] :
        i < j => offersOut[p][i] < offersOut[p][j]

\* A station gets the candidates of its session in the order they were found,
\* without a gap.
CandidatesInOrder ==
    \A p \in Peers : \A i \in DOMAIN iceOut[p] : iceOut[p][i] = i

\* Nothing is sent for a session that was ended on the loop, though webrtcbin's
\* callbacks may still bring offers and candidates.
SilentOutsideSession ==
    [][\A p \in Peers :
          peer # p => offersOut'[p] = offersOut[p] /\ iceOut'[p] = iceOut[p]]_vars

\* A session that has an offer sends one.
OfferGoesOut ==
    \A p \in Peers :
        (peer = p /\ offer_sdp[p] > 0)
            ~> (offersOut[p] # <<>> \/ peer # p \/ conn = "lost")

\* Every candidate found reaches the station while session and connection last.
CandidatesGoOut ==
    \A p \in Peers : \A n \in 1..MaxCands :
        (peer = p /\ found[p] >= n)
            ~> (Len(iceOut[p]) >= n \/ peer # p \/ conn = "lost")

\* The pumps deliver both.
PumpsDeliver == OfferGoesOut /\ CandidatesGoOut

\* An answer to an offer of the live session is given to its webrtcbin while
\* session and connection last, also when it comes before send() has returned,
\* and whatever sessions the station had before.
AnswersApplied ==
    \A p \in Peers : \A v \in 1..MaxOffers :
        LET o == [peer |-> p, v |-> v]
        IN (peer = p /\ \E i \in DOMAIN inbox : inbox[i].offer = o)
               ~> (answer[p] = o \/ peer # p \/ conn = "lost")

\* Every change of the offer is sent: tests/test_webrtc/test_manager.py:142.
EveryChangeGoesOut ==
    \A p \in Peers : \A v \in 1..MaxOffers :
        (peer = p /\ offer_sdp[p] = v)
            ~> (\/ \E i \in DOMAIN offersOut[p] : offersOut[p][i] = v
                \/ offer_sdp[p] # v \/ peer # p \/ conn = "lost")
==============================================================================
