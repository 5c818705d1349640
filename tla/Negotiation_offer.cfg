CONSTANTS
    Peers = {p1}
    Gcs = {g1}
    MaxOffers = 2
    MaxCands = 1
    MaxInbox = 1
    None = None
SPECIFICATION FairSpec
PROPERTY EveryChangeGoesOut
CHECK_DEADLOCK FALSE
