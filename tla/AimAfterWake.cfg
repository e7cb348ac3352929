\* One client moves, sleeps, takes a new snapshot, which wakes the camera, and aims.
CONSTANTS
    PoseLimit = 1
    ZoomLimit = 0
    Latency <- OneNap
    SleepShows = TRUE
    ZoomShows = TRUE
    Modes = {"normal"}
    Faults = {}
    Clients = {a}
    Tools = {"snapshot", "move", "sleep", "aim"}
    WakePolls = 3
    ZoomPolls = 3
    VerifyPolls = 3
    NoFrame = NoFrame
    MaxCalls = 4
    MaxFaults = 0
SPECIFICATION Spec
INVARIANTS AimHits
CHECK_DEADLOCK FALSE
