\* A pipeline error tears a session down while the next one is built.
CONSTANTS
    Pipelines = {p1, p2}
    Devices = {c1}
    Uncalibrated = {}
    Loop = loop
    BusThreads = {other}
    ChannelThreads = {other}
    Steady = TRUE
    None = None
SPECIFICATION Spec
INVARIANT CameraExclusive
SYMMETRY PipelineSymmetry
