\* Another call moves the camera between a snapshot and the aim at it.
CONSTANTS
    PoseLimit = 1
    ZoomLimit = 0
    Latency <- OneNap
    SleepShows = TRUE
    ZoomShows = TRUE
    Modes = {"normal"}
    Faults = {}
    Clients = {a, b}
    Tools = {"snapshot", "move", "aim"}
    WakePolls = 3
    ZoomPolls = 3
    VerifyPolls = 3
    NoFrame = NoFrame
    MaxCalls = 4
    MaxFaults = 0
SPECIFICATION Spec
INVARIANTS NoStaleAim
CHECK_DEADLOCK FALSE
