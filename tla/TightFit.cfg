\* A region fitted with a margin of less than 2%, at the zoom as it is rounded.
CONSTANTS
    PoseLimit = 1
    ZoomLimit = 0
    Latency <- OneNap
    SleepShows = TRUE
    ZoomShows = TRUE
    Modes = {"normal"}
    Faults = {}
    Clients = {a, b}
    Tools = {"snapshot", "move", "aim"}
    WakePolls = 3
    ZoomPolls = 3
    VerifyPolls = 3
    NoFrame = NoFrame
    MaxCalls = 4
    MaxFaults = 0
SPECIFICATION Spec
INVARIANTS WholeRegionFits
CHECK_DEADLOCK FALSE
