\* Two sessions and both protocols, with controllers that come and go.
CONSTANTS
    MaxSessions = 2
    MaxSent = 4
    Controllers = {k1, k2}
    Kinds = {"mavlink", "crsf"}
    Workers = {w1, w2}
    Timeout = 2
    None = None
SPECIFICATION Spec
INVARIANTS TypeOK FailSafe BoundedReorder CutOff
PROPERTIES RcNeverBack
