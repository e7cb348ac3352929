\* One status read of ai_track fails.
CONSTANTS
    PoseLimit = 1
    ZoomLimit = 0
    Latency <- OneNap
    SleepShows = TRUE
    ZoomShows = TRUE
    Modes = {"normal"}
    Faults = {"eio"}
    Clients = {a}
    Tools = {"track"}
    WakePolls = 3
    ZoomPolls = 3
    VerifyPolls = 3
    NoFrame = NoFrame
    MaxCalls = 4
    MaxFaults = 1
SPECIFICATION Spec
INVARIANTS TrackLands
CHECK_DEADLOCK FALSE
