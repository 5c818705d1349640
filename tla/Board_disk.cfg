CONSTANTS
    MaxRegistered = 2
    MaxCrashes = 1
    Attempts = 2
    c1 = c1
    c2 = c2
    Cams = {c1, c2}
    Model <- MCModel
    Slots = {0, 1}
    Params = {0, 1}
    Rates = {1}
    DefaultRate = 1
    MaxEpoch = 1
    MaxMoves = 2
    Torn = Torn
    None = None
SPECIFICATION Spec
INVARIANTS TypeOK OneIdentity
PROPERTIES ChoiceSurvives 
\* A board without credentials and identity stops for good.
CHECK_DEADLOCK FALSE
