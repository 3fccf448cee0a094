SPECIFICATION CrashSpec
CONSTANTS
    Owners = {o1, o2}
    Ops = {"upload", "start", "complete", "update", "publish", "unpublish", "delete", "reprocess"}
    Keys = {k1, k2}
    NoKey = NoKey
    TaskTypes = {"transcode"}
    MaxReprocess = 1
    MaxRetry = 0
    Faults = {"save", "queue", "storage"}
    KeepOriginal = FALSE
CHECK_DEADLOCK FALSE
SYMMETRY Symmetric
CONSTRAINT Intact
INVARIANTS ErrorIsRetryable NoOrphanFile FacesHaveInput NoNilStorage
PROPERTIES RefinesContract
