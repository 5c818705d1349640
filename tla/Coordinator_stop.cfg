\* stop() while the first connection attempt is under way.
CONSTANTS
    Pipelines = {p1}
    Devices = {c1}
    Uncalibrated = {}
    Loop = loop
    BusThreads = {}
    ChannelThreads = {}
    Steady = FALSE
    None = None
SPECIFICATION FairSpec
PROPERTY StopHonoured
