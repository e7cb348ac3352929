\* Calls may be cancelled, and their threads outlive them.
CONSTANTS
    Calls = {c1, c2, c3, c4}
    Workers = 2
    MayCancel = TRUE
SPECIFICATION FairSpec
INVARIANTS TypeOK LockGuardsLive QueueIsWaiting
PROPERTIES FirstComeFirstServed EveryCallEnds
