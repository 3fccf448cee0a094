SPECIFICATION Spec
CONSTANTS
    Owners = {o1}
    Ops = {"upload", "start", "complete", "update", "publish", "unpublish", "delete", "reprocess"}
    Keys = {k1, k2}
    NoKey = NoKey
    TaskTypes = {"transcode"}
    MaxReprocess = 1
    MaxRetry = 0
    Faults = {"queue"}
    KeepOriginal = FALSE
CHECK_DEADLOCK FALSE
SYMMETRY Symmetric
INVARIANT StuckIsReprocessable
