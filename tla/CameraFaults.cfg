\* Every tool, with failing ioctls, unplugs and replugs, and a status that
\* shows sleep late.
CONSTANTS
    PoseLimit = 1
    ZoomLimit = 1
    Latency <- OneNap
    SleepShows = FALSE
    ZoomShows = FALSE
    Modes = {"normal"}
    Faults = {"eio", "pipe", "denied"}
    Clients = {a}
    Tools = {"snapshot", "status", "wake", "sleep", "move", "position", "zoom", "track", "aim", "fit"}
    WakePolls = 2
    ZoomPolls = 2
    VerifyPolls = 2
    NoFrame = NoFrame
    MaxCalls = 3
    MaxFaults = 2
SPECIFICATION FairSpec
INVARIANTS TypeOK AnswerTellsDeeds
PROPERTIES EveryCallAnswered
CHECK_DEADLOCK FALSE
