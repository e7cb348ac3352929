\* The camera is pulled out in the middle of a call.
CONSTANTS
    PoseLimit = 1
    ZoomLimit = 0
    Latency <- OneNap
    SleepShows = TRUE
    ZoomShows = TRUE
    Modes = {"normal"}
    Faults = {}
    Clients = {a}
    Tools = {"snapshot", "wake"}
    WakePolls = 3
    ZoomPolls = 3
    VerifyPolls = 3
    NoFrame = NoFrame
    MaxCalls = 4
    MaxFaults = 1
SPECIFICATION Spec
INVARIANTS LossIsReported
CHECK_DEADLOCK FALSE
