\* Two clients send the camera to sleep, wake it and switch its tracking.
CONSTANTS
    PoseLimit = 1
    ZoomLimit = 0
    Latency <- SlowWake
    SleepShows = TRUE
    ZoomShows = TRUE
    Modes = {"normal", "desk"}
    Faults = {}
    Clients = {a, b}
    Tools = {"snapshot", "move", "sleep", "wake", "track", "aim"}
    WakePolls = 3
    ZoomPolls = 3
    VerifyPolls = 3
    NoFrame = NoFrame
    MaxCalls = 5
    MaxFaults = 0
SPECIFICATION Spec
INVARIANTS NoFight AwakeForUse WakeHonest MatchedIsThere TrackLands
SYMMETRY Alike
CHECK_DEADLOCK FALSE
