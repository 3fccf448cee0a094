SPECIFICATION FairSpec
CONSTANTS
    Owners = {o1}
    Ops = {"upload", "start", "complete", "publish", "delete", "reprocess"}
    Keys = {k1}
    NoKey = NoKey
    TaskTypes = {"transcode"}
    MaxReprocess = 1
    MaxRetry = 1
    Faults = {"storage"}
    KeepOriginal = FALSE
CHECK_DEADLOCK FALSE
INVARIANTS FailureShows SuccessShows
PROPERTIES RefinesContract ProcessingEnds
