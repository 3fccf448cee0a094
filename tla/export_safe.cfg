SPECIFICATION Spec
CONSTANTS
    Requests = {r1, r2}
    Downloads = {d1}
    Tasks = {t1, t2}
    MaxRetry = 1
    QueueErrors = {"lost", "stored"}
    WorkerErrors = {"mux"}
    ReportSizes = {0, 1}
    Dying = {"request", "report", "delete"}
CHECK_DEADLOCK FALSE
SYMMETRY Symmetric
CONSTRAINT Explored
INVARIANTS OneExportAtATime ReadyIsBacked DownloadServes
PROPERTY RefinesContract
