---------------------------- MODULE StreamExport ----------------------------
(***************************************************************************)
(* The cached single-file export of ONE stream: the HTTP handlers that     *)
(* request and download it, the gRPC handler that records the worker's     *)
(* outcome, the export row they share, the asynq tasks between them and    *)
(* the deletion of the stream underneath.                                  *)
(*                                                                         *)
(* Every handler is a process of its own (a goroutine, possibly of another *)
(* replica) that takes one database, queue or storage call per step, so    *)
(* the steps of two handlers interleave.  The worker and asynq are not in  *)
(* this repository; they are modelled from how the code and its comments   *)
(* use them.  History variables record what the properties have to except: *)
(* a pending row that took another attempt's report, and handlers that     *)
(* ended between two calls.                                                *)
(*                                                                         *)
(* Abstracted: the ownership check (its refusal changes nothing), titles   *)
(* and file names, the mp4's bytes; a size is 0 or positive (1).           *)
(***************************************************************************)
EXTENDS Naturals, FiniteSets

CONSTANTS
    Requests,         \* goroutines that may run RequestStreamExport
    Downloads,        \* goroutines that may run OpenStreamDownload
    Tasks,            \* ids an export task can get: the bound on attempts
    MaxRetry,         \* asynq.MaxRetry of an export task
    QueueErrors,      \* how an enqueue may fail: "lost", "stored"
    WorkerErrors,     \* texts a worker's failure report may carry
    ReportSizes,      \* sizes a worker's success report may carry
    Dying             \* handlers that may end between two calls:
                      \* "request", "report", "delete"

ASSUME ExportConstants ==
    /\ MaxRetry \in Nat
    /\ QueueErrors \subseteq {"lost", "stored"}
    /\ WorkerErrors \subseteq {"", "mux"}
    /\ ReportSizes \subseteq {0, 1}
    /\ Dying \subseteq {"request", "report", "delete"}

VARIABLES
    row,      \* the stream_exports row of the stream
    object,   \* is there an mp4 under ExportObjectKey?
    stream,   \* the streams row: what the export code sees of its status
    del,      \* where DeleteStream is
    req,      \* where each request handler is
    dl,       \* where each download handler is, or how it ended
    task,     \* each asynq task: its stage and how many reruns it has left
    rpc,      \* each task's CompleteStreamExport call
    notice,   \* the last export event sent to the owner's websockets
    open,     \* history: the tasks queued for an export that have decided
              \* nothing yet, but for those whose enqueue was seen to fail
    misled,   \* history: has a pending row taken a report of another attempt?
    dropped,  \* history: was a request or report refused or cut off midway?
    cut       \* history: has a deletion ended after its removal of the folder?

historyVars == <<open, misled, dropped, cut>>
vars == <<row, object, stream, del, req, dl, task, rpc, notice, historyVars>>

NoRow     == [status |-> "none",    error |-> "",      size |-> 0]
Pending   == [status |-> "pending", error |-> "",      size |-> 0]
NotQueued == [status |-> "failed",  error |-> "queue", size |-> 0]

\* Statuses of the stream row the export code tells apart: neither ready nor
\* published, the two it accepts, and no live row.
StreamStates == {"busy", "ready", "published", "gone"}

\* Mutant: the error text is not looked at.
Outcome_IgnoreError(c) ==
    [status |-> "ready", error |-> "", size |-> c.size]

\* What CompleteStreamExport writes into a pending row.  Only the error text
\* decides: the request's Success flag never reaches the service.
Outcome(c) ==
    IF c.error # ""
    THEN [status |-> "failed", error |-> c.error, size |-> 0]
    ELSE [status |-> "ready",  error |-> "",      size |-> c.size]

Call(success, error, size) ==
    [pc |-> "sent", success |-> success, error |-> error, size |-> size]

NoCall == [pc |-> "idle", success |-> FALSE, error |-> "", size |-> 0]

Init ==
    /\ row = NoRow
    /\ object = FALSE
    /\ stream = "busy"
    /\ del = "idle"
    /\ req = [r \in Requests |-> "idle"]
    /\ dl = [d \in Downloads |-> "idle"]
    /\ task = [t \in Tasks |-> [stage |-> "none", reruns |-> MaxRetry]]
    /\ rpc = [t \in Tasks |-> NoCall]
    /\ notice = "none"
    /\ open = {}
    /\ misled = FALSE /\ dropped = FALSE /\ cut = FALSE

-----------------------------------------------------------------------------
(* RequestStreamExport.                                                    *)

requestOnly == <<object, stream, del, dl, rpc, notice>>

FreeTasks == {t \in Tasks : task[t].stage = "none"}
Working   == {r \in Requests : req[r] # "idle"}

\* The stream is read first: one that is missing, or not ready or published,
\* is refused.  Bound: a request starts only while a task id is left for it.
RequestBegin(r) ==
    /\ req[r] = "idle"
    /\ Cardinality(FreeTasks) > Cardinality(Working)
    /\ stream \in {"ready", "published"}
    /\ req' = [req EXCEPT ![r] = "lookup"]
    /\ UNCHANGED <<row, task, requestOnly, historyVars>>

\* The export row is read: a ready or pending one is simply answered.
RequestLookup(r) ==
    /\ req[r] = "lookup"
    /\ req' = [req EXCEPT ![r] = CASE row.status = "none"   -> "create"
                                   [] row.status = "failed" -> "reset"
                                   [] OTHER                 -> "idle"]
    /\ UNCHANGED <<row, task, requestOnly, historyVars>>

\* Create: the partial unique index on stream_id refuses a second row.
RequestCreate(r) ==
    /\ req[r] = "create"
    /\ \/ /\ row = NoRow
          /\ row' = Pending
          /\ req' = [req EXCEPT ![r] = "enqueue"]
       \/ /\ row # NoRow
          /\ req' = [req EXCEPT ![r] = "idle"]
          /\ UNCHANGED row
    /\ UNCHANGED <<task, requestOnly, historyVars>>

\* Mutant: the UPDATE has no status in its WHERE clause.
RequestReset_Unconditional(r) ==
    /\ req[r] = "reset"
    /\ row' = Pending
    /\ req' = [req EXCEPT ![r] = "enqueue"]
    /\ UNCHANGED <<task, requestOnly, historyVars>>

\* ResetFailed: one UPDATE ... WHERE status = 'failed'.
RequestReset(r) ==
    /\ req[r] = "reset"
    /\ \/ /\ row.status = "failed"
          /\ row' = Pending
          /\ req' = [req EXCEPT ![r] = "enqueue"]
       \/ /\ row.status # "failed"
          /\ req' = [req EXCEPT ![r] = "reread"]
          /\ UNCHANGED row
    /\ UNCHANGED <<task, requestOnly, historyVars>>

\* The loser of the reset reads the row again and answers with it.
RequestReread(r) ==
    /\ req[r] = "reread"
    /\ req' = [req EXCEPT ![r] = "idle"]
    /\ UNCHANGED <<row, task, requestOnly, historyVars>>

\* Store a task under a fresh id (exportTaskID carries a timestamp).
Store(t) ==
    /\ task[t].stage = "none"
    /\ task' = [task EXCEPT ![t].stage = "queued"]

RequestEnqueue(r) ==
    /\ req[r] = "enqueue"
    /\ \E t \in Tasks : Store(t) /\ open' = open \union {t}
    /\ req' = [req EXCEPT ![r] = "idle"]
    /\ UNCHANGED <<row, requestOnly, misled, dropped, cut>>

\* DistributeVideoExport returns an error: the task was not stored, or it was
\* and the answer of Redis got lost.
RequestEnqueueFails(r) ==
    /\ req[r] = "enqueue"
    /\ \/ "lost" \in QueueErrors /\ UNCHANGED task
       \/ "stored" \in QueueErrors /\ \E t \in Tasks : Store(t)
    /\ req' = [req EXCEPT ![r] = "compensate"]
    /\ UNCHANGED <<row, requestOnly, historyVars>>

\* Mutant: the queue's error is returned, the row left as it is.
RequestCompensate_Leaves(r) ==
    /\ req[r] = "compensate"
    /\ req' = [req EXCEPT ![r] = "idle"]
    /\ UNCHANGED <<row, task, requestOnly, historyVars>>

\* "drop the row back to a clean state": Save writes every column of the
\* handler's own copy, whatever the row holds by now.
RequestCompensate(r) ==
    /\ req[r] = "compensate"
    /\ row' = NotQueued
    /\ req' = [req EXCEPT ![r] = "idle"]
    /\ UNCHANGED <<task, requestOnly, historyVars>>

\* The handler has the pending row to itself: it has made it pending, and its
\* task is not queued yet.
RequestHolds(r) == req[r] \in {"enqueue", "compensate"}

\* The client goes away (the handler runs on c.Request.Context()), a database
\* call fails or the process dies: the handler returns between two calls.
RequestAbort(r) ==
    /\ "request" \in Dying
    /\ req[r] # "idle"
    /\ req' = [req EXCEPT ![r] = "idle"]
    /\ dropped' = (dropped \/ RequestHolds(r))
    /\ UNCHANGED <<row, task, requestOnly, open, misled, cut>>

RequestStep(r) ==
    \/ RequestLookup(r) \/ RequestCreate(r)
    \/ RequestReset(r) \/ RequestReread(r)
    \/ RequestEnqueue(r) \/ RequestEnqueueFails(r) \/ RequestCompensate(r)

-----------------------------------------------------------------------------
(* OpenStreamDownload: the stream, then the row, then the object.          *)

downloadOnly == <<row, object, stream, del, req, task, rpc, notice, historyVars>>

DownloadBegin(d) ==
    /\ dl[d] \in {"idle", "served", "broken"}
    /\ stream # "gone"
    /\ dl' = [dl EXCEPT ![d] = "row"]
    /\ UNCHANGED downloadOnly

\* No row, a pending and a failed one are three different refusals.
DownloadRow(d) ==
    /\ dl[d] = "row"
    /\ dl' = [dl EXCEPT ![d] = IF row.status = "ready" THEN "open" ELSE "idle"]
    /\ UNCHANGED downloadOnly

\* A missing or empty object is an internal error to the owner.
DownloadOpen(d) ==
    /\ dl[d] = "open"
    /\ dl' = [dl EXCEPT ![d] = IF object THEN "served" ELSE "broken"]
    /\ UNCHANGED downloadOnly

-----------------------------------------------------------------------------
(* The export worker and asynq (not in this repository).  A run of a task  *)
(* muxes the mp4 and reports; the call is synchronous, so a task has at    *)
(* most one call in flight.                                                *)

workerOnly == <<row, stream, del, req, dl, notice, historyVars>>

Reported(t) == rpc[t].pc \in {"replied", "errored"}

WorkerStart(t) ==
    /\ task[t].stage = "queued"
    /\ task' = [task EXCEPT ![t].stage = "running"]
    /\ UNCHANGED <<object, rpc, workerOnly>>

\* The mp4 is written under ExportObjectKey before success is reported.
WorkerSucceeds(t) ==
    /\ task[t].stage = "running"
    /\ object' = TRUE
    /\ task' = [task EXCEPT ![t].stage = "told"]
    /\ \E n \in ReportSizes : rpc' = [rpc EXCEPT ![t] = Call(TRUE, "", n)]
    /\ UNCHANGED workerOnly

WorkerFails(t) ==
    /\ task[t].stage = "running"
    /\ task' = [task EXCEPT ![t].stage = "told"]
    /\ \E e \in WorkerErrors : rpc' = [rpc EXCEPT ![t] = Call(FALSE, e, 0)]
    /\ UNCHANGED <<object, workerOnly>>

\* The run is over, its report having been answered.
WorkerReturns(t) ==
    /\ task[t].stage = "told"
    /\ Reported(t)
    /\ task' = [task EXCEPT ![t].stage = "done"]
    /\ UNCHANGED <<object, rpc, workerOnly>>

\* Or the run ends in error (the mux failed, or the report was refused):
\* asynq's error handler reports the task again, with a wrapped text ...
WorkerEndsInError(t) ==
    /\ task[t].stage = "told"
    /\ Reported(t)
    /\ rpc[t].pc = "errored" \/ ~rpc[t].success
    /\ task' = [task EXCEPT ![t].stage = "ended"]
    /\ rpc' = [rpc EXCEPT ![t] = Call(FALSE, "wrapped", 0)]
    /\ UNCHANGED <<object, workerOnly>>

\* Mutant: one rerun too many.
AsynqRequeue_OneMore(t) ==
    /\ task[t].stage = "ended"
    /\ Reported(t)
    /\ task' = [task EXCEPT ![t] = [stage |-> "queued", reruns |-> @.reruns - 1]]
    /\ UNCHANGED <<object, rpc, workerOnly>>

\* ... and then queues the task again while it has reruns left.
AsynqRequeue(t) ==
    /\ task[t].stage = "ended"
    /\ Reported(t)
    /\ task' = [task EXCEPT ![t] =
           IF @.reruns > 0 THEN [stage |-> "queued", reruns |-> @.reruns - 1]
                           ELSE [@ EXCEPT !.stage = "done"]]
    /\ UNCHANGED <<object, rpc, workerOnly>>

WorkerStep(t) ==
    \/ WorkerStart(t) \/ WorkerSucceeds(t) \/ WorkerFails(t)
    \/ WorkerReturns(t) \/ WorkerEndsInError(t) \/ AsynqRequeue(t)

-----------------------------------------------------------------------------
(* CompleteStreamExport: the gRPC handler and the service under it.        *)

reportOnly == <<object, stream, del, req, dl, task>>

Answer(t, pc) == rpc' = [rpc EXCEPT ![t].pc = pc]

\* The gRPC handler refuses a success without a size.
ReportRefused(t) ==
    /\ rpc[t].pc = "sent"
    /\ rpc[t].success /\ rpc[t].size = 0
    /\ Answer(t, "errored")
    /\ dropped' = TRUE
    /\ UNCHANGED <<row, notice, reportOnly, open, misled, cut>>

ReportAccepted(t) == rpc[t].pc = "sent" /\ ~(rpc[t].success /\ rpc[t].size = 0)

\* "Only a pending row has an outcome still to record."
Undecided(r) == r.status = "pending"

\* ReadByStream and the duplicate check; a missing row is ErrExportNotFound.
ReportRead(t) ==
    /\ ReportAccepted(t)
    /\ Answer(t, CASE row = NoRow     -> "errored"
                   [] Undecided(row)  -> "save"
                   [] OTHER           -> "replied")
    /\ misled' = (misled \/ (Undecided(row) /\ t \notin open))
    /\ UNCHANGED <<row, notice, reportOnly, open, dropped, cut>>

\* Save writes the whole row, whatever happened to it since the read.
ReportSave(t) ==
    /\ rpc[t].pc = "save"
    /\ row' = Outcome(rpc[t])
    /\ Answer(t, "notify")
    /\ open' = open \ {t}
    /\ UNCHANGED <<notice, reportOnly, misled, dropped, cut>>

\* Mutant: a failure is not announced.
ReportNotify_ReadyOnly(t) ==
    /\ rpc[t].pc = "notify"
    /\ notice' = IF Outcome(rpc[t]).status = "ready" THEN "ready" ELSE notice
    /\ Answer(t, "replied")
    /\ UNCHANGED <<row, reportOnly, historyVars>>

\* Both outcomes are announced, from the copy the handler saved.
ReportNotify(t) ==
    /\ rpc[t].pc = "notify"
    /\ notice' = Outcome(rpc[t]).status
    /\ Answer(t, "replied")
    /\ UNCHANGED <<row, reportOnly, historyVars>>

\* A database error, an expired deadline or a crash, before the write or
\* after it: the worker gets an error either way.
ReportAbort(t) ==
    /\ "report" \in Dying
    /\ rpc[t].pc \in {"sent", "save", "notify"}
    /\ Answer(t, "errored")
    /\ dropped' = TRUE
    /\ UNCHANGED <<row, notice, reportOnly, open, misled, cut>>

ReportStep(t) ==
    ReportRefused(t) \/ ReportRead(t) \/ ReportSave(t) \/ ReportNotify(t)

-----------------------------------------------------------------------------
(* The stream underneath.                                                  *)

streamOnly == <<row, req, dl, task, rpc, notice>>

\* Another handler moves the status (publish, unpublish, a worker's report).
StreamMoves ==
    /\ stream # "gone"
    /\ stream' \in {"busy", "ready", "published"}
    /\ UNCHANGED <<object, del, streamOnly, historyVars>>

\* DeleteStream refuses a published stream; it removes the folder
\* "processed/<id>", where the mp4 lives, only of a stream it read as ready.
DeleteBegin ==
    /\ del = "idle"
    /\ stream \in {"busy", "ready"}
    /\ del' = IF stream = "ready" THEN "folder" ELSE "row"
    /\ UNCHANGED <<object, stream, streamOnly, historyVars>>

DeleteFolder ==
    /\ del = "folder"
    /\ object' \in {FALSE, object}  \* an error is only logged
    /\ del' = "row"
    /\ UNCHANGED <<stream, streamOnly, historyVars>>

\* The export row is left behind.
DeleteRow ==
    /\ del = "row"
    /\ stream' = "gone"
    /\ del' = "done"
    /\ UNCHANGED <<object, streamOnly, historyVars>>

\* The handler dies, or repo.Delete fails.
DeleteAbort ==
    /\ "delete" \in Dying
    /\ del \in {"folder", "row"}
    /\ del' = "idle"
    /\ cut' = (cut \/ del = "row")
    /\ UNCHANGED <<object, stream, streamOnly, open, misled, dropped>>

-----------------------------------------------------------------------------

Next ==
    \/ \E r \in Requests : RequestBegin(r) \/ RequestStep(r) \/ RequestAbort(r)
    \/ \E d \in Downloads : DownloadBegin(d) \/ DownloadRow(d) \/ DownloadOpen(d)
    \/ \E t \in Tasks : WorkerStep(t) \/ ReportStep(t) \/ ReportAbort(t)
    \/ StreamMoves \/ DeleteBegin \/ DeleteFolder \/ DeleteRow \/ DeleteAbort

Spec == Init /\ [][Next]_vars

\* A handler that has started keeps going, the worker runs what is queued
\* (asynq.Timeout bounds a run) and a call it makes is served.
Fairness ==
    /\ \A r \in Requests : WF_vars(RequestStep(r))
    /\ \A t \in Tasks : WF_vars(WorkerStep(t)) /\ WF_vars(ReportStep(t))

FairSpec == Spec /\ Fairness

-----------------------------------------------------------------------------
(* Properties.                                                             *)

RowType ==
    [status : {"none", "pending", "ready", "failed"},
     error  : {"", "mux", "wrapped", "queue"},
     size   : {0, 1}]

TaskType ==
    [stage  : {"none", "queued", "running", "told", "ended", "done"},
     reruns : 0..MaxRetry]

CallType ==
    [pc      : {"idle", "sent", "save", "notify", "replied", "errored"},
     success : BOOLEAN,
     error   : {"", "mux", "wrapped"},
     size    : {0, 1}]

\* The state has the shape the code's types and constants allow.
TypeOK ==
    /\ row \in RowType
    /\ object \in BOOLEAN
    /\ stream \in StreamStates
    /\ del \in {"idle", "folder", "row", "done"}
    /\ req \in [Requests -> {"idle", "lookup", "create", "reset", "reread",
                             "enqueue", "compensate"}]
    /\ dl \in [Downloads -> {"idle", "row", "open", "served", "broken"}]
    /\ task \in [Tasks -> TaskType]
    /\ rpc \in [Tasks -> CallType]
    /\ notice \in {"none", "ready", "failed"}
    /\ open \subseteq Tasks
    /\ misled \in BOOLEAN /\ dropped \in BOOLEAN /\ cut \in BOOLEAN

\* A DeleteStream has got past the removal of the folder.
Deleted == del \in {"row", "done"} \/ cut

\* A ready row has an mp4 behind it, unless the stream is being deleted:
\* "the row is only the state of that object" (stream_export.go).
ReadyIsBacked == row.status = "ready" => row.size > 0 /\ (object \/ Deleted)

\* A download that saw a ready row finds the object, unless the stream was
\* deleted under it (OpenStreamDownload reads row and object separately).
DownloadServes == \A d \in Downloads : dl[d] = "broken" => Deleted

\* "One export at a time per stream is decided by the export row"
\* (DistributeVideoExport): no two tasks wait or run for exports of the stream
\* that are still to be decided, whoever races, dies or reports twice, until a
\* row takes the report of another attempt.
OneExportAtATime ==
    ~misled => \A t, u \in open :
        {task[t].stage, task[u].stage} \subseteq {"queued", "running"} => t = u

\* The call in flight is the one the first run of the task makes itself.
FirstReport(t) ==
    /\ task[t] = [stage |-> "told", reruns |-> MaxRetry]
    /\ rpc[t].pc \in {"sent", "save"}

\* "a retry resets the row to pending first, so its own report is never
\* swallowed by this guard" (CompleteStreamExport): an attempt's own report
\* finds the row waiting for it.
OwnReportFindsPending ==
    \A t \in Tasks : FirstReport(t) => row.status = "pending"

\* Some handler or task will still decide the pending row.
OnIt ==
    \/ \E r \in Requests : req[r] \in {"enqueue", "compensate"}
    \/ \E t \in Tasks :
          task[t].stage \in {"queued", "running"} \/ rpc[t].pc \in {"sent", "save"}

\* "one that is pending is not re-queued, because the worker is already on
\* it" (RequestStreamExport), unless a request or a report was cut off or refused.
PendingHasWorker == ~dropped /\ row.status = "pending" => OnIt

\* Both outcomes reach the owner ("A silent failure would leave the owner
\* watching a spinner"): what a handler decides to record is announced.
OutcomeIsAnnounced ==
    \A s \in {"ready", "failed"} :
        (\E t \in Tasks : rpc[t].pc = "save" /\ Outcome(rpc[t]).status = s)
            ~> notice = s \/ dropped

\* The promise to the owner: ExportContract, read off the row's status, which
\* promises nothing more once a row has taken another attempt's report.
Contract == INSTANCE ExportContract
                WITH status <- IF misled THEN "crossed" ELSE row.status
RefinesContract == Contract!Spec

\* A pending export is decided in the end: the owner's spinner stops.
PendingSettles == row.status = "pending" ~> row.status # "pending" \/ dropped

-----------------------------------------------------------------------------
(* Inductive invariants.                                                   *)

\* The right to decide the pending row: a request handler has it until it has
\* queued a task (or failed to), the task's attempt until an outcome is recorded.
\* It exists only while the row is pending, and nobody shares it, as long as no
\* row has taken another attempt's report.
OneHolder ==
    /\ \A r \in Requests : RequestHolds(r) => row.status = "pending" /\ open = {}
    /\ open # {} => row.status = "pending"
    /\ \A r, q \in Requests : RequestHolds(r) /\ RequestHolds(q) => r = q
    /\ \A t, u \in open : t = u
    /\ \A t \in Tasks : rpc[t].pc = "save" => t \in open

\* What makes a report trustworthy: a success in flight has its mp4 and, once
\* accepted, a size; a failure in flight says why.
TrueReports ==
    \A t \in Tasks :
        rpc[t].pc \in {"sent", "save"} =>
            /\ rpc[t].success <=> rpc[t].error = ""
            /\ rpc[t].success => object \/ Deleted
            /\ rpc[t].success /\ rpc[t].pc = "save" => rpc[t].size > 0

\* A download that is about to open the object still has it to open.
OpenIsBacked == \A d \in Downloads : dl[d] = "open" => object \/ Deleted

=============================================================================
