SPECIFICATION EffectsSpec
CONSTANTS
    Owners = {o1, o2}
    Ops = {"upload", "start", "complete", "publish", "unpublish", "delete"}
    Keys = {k1}
    NoKey = NoKey
    TaskTypes = {"transcode"}
    MaxReprocess = 0
    MaxRetry = 0
    Faults = {}
    KeepOriginal = FALSE
    Creator = creator
CONSTRAINT Explored
CHECK_DEADLOCK FALSE
SYMMETRY Symmetric
INVARIANTS TypeOK WatchableHasHLS EffectsTypeOK BrowserCatchesUp AccessFollowsRow
