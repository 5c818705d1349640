\* Two sessions of one station.
CONSTANTS
    Peers = {p1, p2}
    Gcs = {g1}
    MaxOffers = 2
    MaxCands = 2
    MaxInbox = 1
    None = None
SPECIFICATION FairSpec
INVARIANTS TypeOK OffersInOrder CandidatesInOrder
PROPERTIES SilentOutsideSession PumpsDeliver AnswersApplied
CHECK_DEADLOCK FALSE
