SPECIFICATION Spec
CONSTANTS
    Requests = {r1, r2}
    Downloads = {}
    Tasks = {t1, t2}
    MaxRetry = 1
    QueueErrors = {}
    WorkerErrors = {"mux"}
    ReportSizes = {1}
    Dying = {}
CHECK_DEADLOCK FALSE
INVARIANT OwnReportFindsPending
