\* No cancellation: the daemon is a serial server, and its threads together
\* are one worker.
CONSTANTS
    Calls = {c1, c2, c3}
    Workers = 2
    MayCancel = FALSE
    Windows = {w1, w2}
    MaxAttempts = 2
    None = None
SPECIFICATION DaemonSpec
INVARIANTS OneThread
PROPERTIES ImplementsSerialService ImplementsMedia
