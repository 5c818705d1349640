\* Both protocols; controllers and sessions that come and go; teardowns between
\* the callbacks of a read, and their tails in the next session; a CRSF line read
\* in any pieces, with noise and damage that may look like a header.
CONSTANTS
    Addresses = {0, 200, 236, 238}
    AddrFc = 200
    MaxLen = 4
    Crc <- MCCrc
    MaxFixes = 2
    MaxFrames = 2
    PlainTypes = {30}
    MaxFaults = 1
    MaxQueue = 1
    Kinds = {"mavlink", "crsf"}
    Garbage = {200, 4}
    Chunk = 3
    Others = {30, 24, 300}
    MaxMsgId = 300
    Ratio = 2
    None = None
SPECIFICATION Spec
INVARIANTS TypeOK ArmedTruthful NoStarvation FramesSurvive
PROPERTIES PositionsAdvance CutsCostNothing
