\* One thread: every callback that tears a session down runs on the loop.  One of
\* the two devices cannot be calibrated.
CONSTANTS
    Pipelines = {p1, p2}
    Devices = {c1, c2}
    Uncalibrated = {c2}
    Loop = loop
    BusThreads = {}
    ChannelThreads = {}
    Steady = FALSE
    None = None
SPECIFICATION FairSpec
INVARIANTS TypeOK SessionConsistent NeverCrashes ShutdownClean
PROPERTIES CameraChangeNoticed Reconnects StopTerminates LeaseKept
