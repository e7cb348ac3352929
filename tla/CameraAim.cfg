\* Two clients look, move, zoom and aim; nothing fails and nobody sleeps.
CONSTANTS
    PoseLimit = 2
    ZoomLimit = 3
    Latency <- SlowZoom
    SleepShows = TRUE
    ZoomShows = TRUE
    Modes = {"normal"}
    Faults = {}
    Clients = {a, b}
    Tools = {"snapshot", "move", "zoom", "aim", "fit"}
    WakePolls = 3
    ZoomPolls = 1
    VerifyPolls = 3
    NoFrame = NoFrame
    MaxCalls = 5
    MaxFaults = 0
SPECIFICATION Spec
INVARIANTS AimHits SettledIsThere ZoomReadsBack FitFits
SYMMETRY Alike
CHECK_DEADLOCK FALSE
