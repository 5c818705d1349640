\* One thread besides the loop runs the callbacks of GLib and of webrtcbin.
CONSTANTS
    Pipelines = {p1, p2}
    Devices = {c1}
    Uncalibrated = {}
    Loop = loop
    BusThreads = {other}
    ChannelThreads = {other}
    Steady = TRUE
    None = None
SPECIFICATION Spec
INVARIANT CurrentNotStopped
SYMMETRY PipelineSymmetry
