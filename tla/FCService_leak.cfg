CONSTANTS
    Controllers = {c1, c2}
    Kinds = {"mavlink", "crsf"}
    Sessions = {s1}
    Threshold = 2
    OpenFails = FALSE
    Elsewhere = {{"open"}}
    None = None
SPECIFICATION Spec
INVARIANT LinkReleased
