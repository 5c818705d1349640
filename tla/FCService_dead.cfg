CONSTANTS
    Controllers = {c1, c2}
    Kinds = {"mavlink", "crsf"}
    Sessions = {s1}
    Threshold = 2
    OpenFails = TRUE
    Elsewhere = {{"open"}}
    None = None
SPECIFICATION FairSpec
PROPERTY ReconnectsFC
