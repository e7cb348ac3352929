\* Three preview windows, one after the other or not, and whatever calls.
CONSTANTS
    Windows = {w1, w2, w3}
    MaxAttempts = 4
    None = None
SPECIFICATION FairSpec
INVARIANTS TypeOK NothingLeaks SnapshotPersists ClipFallsBack CutIsNoticed SizeIsOwn EverySnapshotAims
PROPERTIES StopFreesStream MediaAnswered
