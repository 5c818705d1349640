\* Both protocols; opening the CRSF port may fail in start().  Sessions may be
\* ended by another thread, or the config channel opens on its own thread.
CONSTANTS
    Controllers = {c1, c2}
    Kinds = {"mavlink", "crsf"}
    Sessions = {s1, s2}
    Threshold = 3
    OpenFails = TRUE
    Elsewhere = {{"end"}, {"open"}}
    None = None
SPECIFICATION FairSpec
INVARIANTS TypeOK OneController FeedsTheSession ShownUnlessOvertaken StopLeavesNothing
PROPERTIES StopReturns ReconnectsWhileScanning LossNoticed LossTold
