--------------------------- MODULE StreamLifecycle ---------------------------
(***************************************************************************)
(* The life of ONE stream: the streams row, the owner's HTTP handlers, the *)
(* workers' gRPC reports, the objects in storage and the asynq tasks.      *)
(*                                                                         *)
(* Every handler works the same way: it reads the whole row, checks and    *)
(* edits its own copy, calls storage and queues, and writes the whole copy *)
(* back.  A handler is a process (a goroutine, possibly of another         *)
(* replica); each database, storage or queue call is a step of its own,    *)
(* and the steps of two handlers interleave: nothing in the code orders    *)
(* them.  History variables record what the properties have to except: a   *)
(* write over a row the handler had not read, and a call that left storage *)
(* and row apart.                                                          *)
(*                                                                         *)
(* Abstracted: ownership checks (StreamHandler and Casbin decide before    *)
(* anything changes), titles and the other descriptive columns, progress   *)
(* percentages, metadata other than the rotation, notifications, events.   *)
(***************************************************************************)
EXTENDS Naturals, Sequences, FiniteSets

CONSTANTS
    Owners,        \* goroutines serving the owner's HTTP requests
    Ops,           \* the requests the owner makes
    Keys,          \* storage keys: the bound on uploads begun
    NoKey,
    TaskTypes,     \* task types an upload queues (all three in the code)
    MaxReprocess,  \* bound on tasks of one type queued by reprocessing
    MaxRetry,      \* asynq.MaxRetry of the processing tasks
    Faults,        \* the calls that may fail: "save", "queue", "storage"
    KeepOriginal   \* cfg.KeepOriginalFile

OwnerOps == {"upload", "start", "complete", "update", "publish", "unpublish",
             "delete", "reprocess", "faces"}

ASSUME LifecycleConstants ==
    /\ Ops \subseteq OwnerOps
    /\ NoKey \notin Keys
    /\ "transcode" \in TaskTypes
    /\ TaskTypes \subseteq {"transcode", "thumbnail", "faces"}
    /\ "faces" \in Ops => "faces" \in TaskTypes
    /\ MaxReprocess \in Nat /\ MaxRetry \in Nat
    /\ Faults \subseteq {"save", "queue", "storage"}
    /\ KeepOriginal \in BOOLEAN

\* <<k, 0>> is the fixed id the Distribute functions use for type k; the
\* Reprocess functions take fresh ones.
JobIds == TaskTypes \X (0..MaxReprocess)
NoJob  == <<"none", 0>>
Procs  == Owners \union JobIds

ASSUME OwnersAreNoTasks == Owners \intersect JobIds = {}

Statuses == {"draft", "uploading", "processing", "ready", "published", "error"}

\* One entry of streams.processing: absent, or its TaskID and Error columns.
NoEntry    == [there |-> FALSE, id |-> NoJob, failed |-> FALSE]
Entry(id)  == [there |-> TRUE,  id |-> id,    failed |-> FALSE]

VARIABLES
    row,    \* the streams row
    live,   \* deleted_at IS NULL
    files,  \* source objects in storage
    multis, \* multipart uploads begun and not completed
    hls,    \* the folder processed/<id>: "none", "built" or "removed"
    job,    \* each asynq task: its stage, input object (NoKey is the HLS
            \* playlist), reports still to make, reruns left
    hs,     \* each handler: operation, program counter, its copy of the row,
            \* the types it has yet to queue and the input it queues them with
    fresh,  \* history: the handlers since whose read no row was written
    stale,  \* history: has a handler saved or deleted a row it had not read?
    torn    \* history: has a handler left in storage what the row does not
            \* name, or taken from it what the row still needs?

vars == <<row, live, files, multis, hls, job, hs, fresh, stale, torn>>

Draft == [status |-> "draft", key |-> NoKey, rotated |-> FALSE, faces |-> FALSE,
          tasks |-> [k \in TaskTypes |-> NoEntry]]

Idle == [op |-> "none", pc |-> "idle", copy |-> Draft, todo |-> {}, input |-> NoKey]

Init ==
    /\ row = Draft
    /\ live = TRUE
    /\ files = {} /\ multis = {}
    /\ hls = "none"
    /\ job = [j \in JobIds |-> [stage |-> "none", key |-> NoKey,
                                calls |-> <<>>, reruns |-> MaxRetry]]
    /\ hs = [p \in Procs |-> Idle]
    /\ fresh = {} /\ stale = FALSE /\ torn = FALSE

-----------------------------------------------------------------------------
(* What the handlers check on, and do to, the row they read.               *)

Failed(r) == {k \in TaskTypes : r.tasks[k].failed}

\* Mutants: DeleteStream, or PublishStream, without its status check.
Allowed_DeletesPublished(op, r) ==
    CASE op \in {"upload", "start"} -> r.status = "draft"
      [] op = "complete"            -> r.status = "uploading"
      [] op = "update"              -> r.status # "published"
      [] op = "publish"             -> r.status = "ready"
      [] op = "unpublish"           -> r.status = "published"
      [] op = "reprocess"           -> Failed(r) # {} /\ r.key # NoKey
      [] op = "faces"               -> r.key # NoKey
      [] OTHER                      -> TRUE
Allowed_PublishesEarly(op, r) ==
    IF op = "publish" THEN r.status # "published"
                      ELSE Allowed_DeletesPublished(op, r)

\* A request is refused unless the row it reads allows it.
Allowed(op, r) ==
    CASE op \in {"upload", "start"} -> r.status = "draft"
      [] op = "complete"            -> r.status = "uploading"
      [] op \in {"update", "delete"} -> r.status # "published"
      [] op = "publish"             -> r.status = "ready"
      [] op = "unpublish"           -> r.status = "published"
      [] op = "reprocess"           -> Failed(r) # {} /\ r.key # NoKey
      [] op = "faces"               -> r.key # NoKey
      [] OTHER                      -> TRUE

\* Mutants: the status set by the wrong task type, or whatever it was.
MarkFailed_WrongType(r, k) ==
    [r EXCEPT !.tasks[k] = [@ EXCEPT !.there = TRUE, !.failed = TRUE],
              !.status = IF k # "transcode" /\ @ = "processing"
                         THEN "error" ELSE @]
MarkFailed_AnyStatus(r, k) ==
    [r EXCEPT !.tasks[k] = [@ EXCEPT !.there = TRUE, !.failed = TRUE],
              !.status = IF k = "transcode" THEN "error" ELSE @]

\* A transcode failure turns a processing stream into an error; any other
\* task only records its own.
MarkFailed(r, k) ==
    [r EXCEPT !.tasks[k] = [@ EXCEPT !.there = TRUE, !.failed = TRUE],
              !.status = IF k = "transcode" /\ @ = "processing"
                         THEN "error" ELSE @]

\* Any progress clears the task's error; faces are there when it is complete.
MarkStarted(r, k) ==
    [r EXCEPT !.tasks[k] = [@ EXCEPT !.there = TRUE, !.failed = FALSE]]

MarkDone(r, k) == [MarkStarted(r, k) EXCEPT !.faces = @ \/ k = "faces"]

\* The edits made before the first write.  k is the reporting task's type.
Edited(op, r, k) ==
    CASE op = "update"    -> [r EXCEPT !.rotated = TRUE]
      [] op = "publish"   -> [r EXCEPT !.status = "published"]
      [] op = "unpublish" -> [r EXCEPT !.status = "ready"]
      [] op = "ready"     -> [r EXCEPT !.status = "ready"]
      [] op = "failure"   -> MarkFailed(r, k)
      [] op = "started"   -> MarkStarted(r, k)
      [] op = "progress"  -> MarkDone(r, k)
      [] OTHER            -> r

\* Where a handler goes once the row has been read.
FirstStep(op) ==
    CASE op \in {"upload", "start", "complete"} -> "store"
      [] op = "delete"                          -> "source"
      [] op \in {"reprocess", "faces"}          -> "exists"
      [] OTHER                                  -> "save"

Busy == {p \in Procs : hs[p].pc \notin {"idle", "error"}}

storageVars == <<files, multis, hls>>
historyVars == <<fresh, stale, torn>>

\* Handler p goes on to its next call, or returns and forgets its copy.
Goto(p, pc) == hs' = [hs EXCEPT ![p].pc = pc]
Stop(p, pc) == hs' = [hs EXCEPT ![p] = [Idle EXCEPT !.pc = pc]]
Return(p, pc) == Stop(p, pc) /\ fresh' = fresh \ {p}

\* Read the row, check it, edit the copy.
Begin(p, op, k) ==
    /\ live /\ Allowed(op, row)
    /\ hs' = [hs EXCEPT ![p] = [op    |-> op, pc |-> FirstStep(op),
                                copy  |-> Edited(op, row, k), todo |-> {},
                                input |-> row.key]]
    /\ fresh' = fresh \union {p}

OwnerBegin(p) ==
    /\ hs[p].pc = "idle"
    /\ \E op \in Ops : Begin(p, op, "none")
    /\ UNCHANGED <<row, live, storageVars, job, stale, torn>>

\* A deletion that has removed the source and has not yet removed the row.
Undermines(p) == hs[p].op = "delete" /\ hs[p].pc \in {"folder", "tasks", "row"}

\* An upload whose object or multipart upload no row names yet, or a deletion
\* whose row has lost its source: what p leaves behind if it ends here.
HalfDone(p) == \/ hs[p].op \in {"upload", "start"} /\ hs[p].pc \in {"save", "write"}
               \/ Undermines(p) /\ live

-----------------------------------------------------------------------------
(* Uploads.                                                                *)

FreshKeys == {key \in Keys : /\ key \notin files \union multis
                             /\ key # row.key
                             /\ \A p \in Procs : hs[p].copy.key # key
                             /\ \A j \in JobIds : job[j].key # key}

\* Mutant: UploadVideo forgets to record the storage info.
StoreNew_NoStorageInfo(p) ==
    /\ hs[p].pc = "store" /\ hs[p].op \in {"upload", "start"}
    /\ \E key \in FreshKeys :
          /\ IF hs[p].op = "upload"
             THEN files' = files \union {key} /\ UNCHANGED multis
             ELSE multis' = multis \union {key} /\ UNCHANGED files
          /\ hs' = [hs EXCEPT ![p].pc = "save", ![p].input = key,
                              ![p].copy.status = IF hs[p].op = "upload"
                                                 THEN "processing"
                                                 ELSE "uploading"]
    /\ UNCHANGED <<row, live, hls, job, historyVars>>

\* The object or the multipart upload is made under a key of its own, then
\* the copy gets key and status; new metadata replaces the old.
StoreNew(p) ==
    /\ hs[p].pc = "store" /\ hs[p].op \in {"upload", "start"}
    /\ \E key \in FreshKeys :
          /\ IF hs[p].op = "upload"
             THEN files' = files \union {key} /\ UNCHANGED multis
             ELSE multis' = multis \union {key} /\ UNCHANGED files
          /\ hs' = [hs EXCEPT ![p].pc = "save",
                              ![p].copy.key = key,
                              ![p].input = key,
                              ![p].copy.rotated = FALSE,
                              ![p].copy.status = IF hs[p].op = "upload"
                                                 THEN "processing"
                                                 ELSE "uploading"]
    /\ UNCHANGED <<row, live, hls, job, historyVars>>

\* CompleteMultipart joins the parts, also behind the back of a deletion that
\* has looked for the object already; its answer may be an error all the same.
StoreComplete(p) ==
    /\ hs[p].pc = "store" /\ hs[p].op = "complete"
    /\ hs[p].copy.key \in multis
    /\ multis' = multis \ {hs[p].copy.key}
    /\ files' = files \union {hs[p].copy.key}
    /\ torn' = (torn \/ ~live \/ \E q \in Procs : Undermines(q))
    /\ \/ /\ hs' = [hs EXCEPT ![p].pc = "save", ![p].copy.status = "processing"]
          /\ UNCHANGED fresh
       \/ "storage" \in Faults /\ Return(p, "idle")
    /\ UNCHANGED <<row, live, hls, job, stale>>

\* An upload that is not open is an error.
StoreRefused(p) ==
    /\ hs[p].pc = "store" /\ hs[p].op = "complete"
    /\ hs[p].copy.key \notin multis
    /\ Return(p, "idle")
    /\ UNCHANGED <<row, live, storageVars, job, stale, torn>>

-----------------------------------------------------------------------------
(* repo.Update: a First that refuses a missing row, then a Save that       *)
(* writes every column and, if no live row matches any more, inserts it.   *)

\* The caller gets an error: a worker notices, the owner's browser just shows it.
Refused(p) == IF p \in JobIds THEN "error" ELSE "idle"

SaveCheck(p) ==
    /\ hs[p].pc = "save"
    /\ live
    /\ Goto(p, "write")
    /\ UNCHANGED <<row, live, storageVars, job, historyVars>>

\* Mutant: the source is dropped after a failed transcode too.
AfterWrite_DropsFailed(p) ==
    CASE hs[p].op \in {"upload", "complete"}  -> "enqueue"
      [] hs[p].op \in {"ready", "failure"} /\ ~KeepOriginal  -> "drop"
      [] OTHER                                -> "idle"

\* Where a handler goes once its copy is written.
AfterWrite(p) ==
    CASE hs[p].op \in {"upload", "complete"}  -> "enqueue"
      [] hs[p].op = "ready" /\ ~KeepOriginal  -> "drop"
      [] OTHER                                -> "idle"

SaveWrite(p) ==
    /\ hs[p].pc = "write"
    /\ row' = hs[p].copy
    /\ live' = TRUE
    /\ stale' = (stale \/ p \notin fresh)
    /\ CASE AfterWrite(p) = "enqueue" ->
              /\ hs' = [hs EXCEPT ![p].pc = "enqueue", ![p].todo = TaskTypes]
              /\ fresh' = {p}
         [] AfterWrite(p) = "drop" -> Goto(p, "drop") /\ fresh' = {p}
         [] OTHER                  -> Stop(p, "idle") /\ fresh' = {}
    /\ UNCHANGED <<storageVars, job, torn>>

SaveRefused(p) ==
    /\ \/ hs[p].pc = "save" /\ ~live
       \/ hs[p].pc \in {"save", "write"} /\ "save" \in Faults
    /\ Return(p, Refused(p))

\* Mutant: UploadVideo leaves its object behind.
SaveFails_NoCleanup(p) ==
    /\ SaveRefused(p)
    /\ UNCHANGED <<row, live, storageVars, job, stale, torn>>

\* The row is gone or the write fails: an upload takes its object or
\* multipart upload back.
SaveFails(p) ==
    /\ SaveRefused(p)
    /\ files'  = IF hs[p].op = "upload" THEN files \ {hs[p].copy.key} ELSE files
    /\ multis' = IF hs[p].op = "start" THEN multis \ {hs[p].copy.key} ELSE multis
    /\ UNCHANGED <<row, live, hls, job, stale, torn>>

\* The removal fails as well, which nobody looks at.
SaveFailsDirty(p) ==
    /\ SaveRefused(p)
    /\ HalfDone(p) /\ "storage" \in Faults
    /\ torn' = TRUE
    /\ UNCHANGED <<row, live, storageVars, job, stale>>

-----------------------------------------------------------------------------
(* Queueing.                                                               *)

\* The handlers queue transcode, then thumbnail, then faces.
NextType(todo) ==
    IF "transcode" \in todo THEN "transcode"
    ELSE IF "thumbnail" \in todo THEN "thumbnail" ELSE "faces"

\* A fixed id is refused while asynq still holds it; a fresh one never is.
FreeIds(p, k) ==
    IF hs[p].op \in {"upload", "complete"}
    THEN {j \in {<<k, 0>>} : job[j].stage \in {"none", "succeeded"}}
    ELSE {j \in {k} \X (1..MaxReprocess) : job[j].stage = "none"}

\* Record the outcome of one enqueue in the copy; after the last one the
\* upload handlers write a second time ("finish"), the others for the first.
Record(p, k, entry) ==
    LET h == hs[p]
        left == h.todo \ {k}
        last == left = {}
    IN hs' = [hs EXCEPT ![p] = [
          op    |-> IF last /\ h.op \in {"upload", "complete"} THEN "finish" ELSE h.op,
          pc    |-> IF last THEN "save" ELSE "enqueue",
          copy  |-> [h.copy EXCEPT
                        !.tasks[k] = entry,
                        !.status = IF last /\ h.op = "reprocess" /\ @ = "error"
                                   THEN "processing" ELSE @],
          todo  |-> left,
          input |-> h.input]]

Stores(p, j) ==
    job' = [job EXCEPT ![j] = [stage |-> "queued", calls |-> <<>>,
                               key |-> hs[p].input, reruns |-> MaxRetry]]

Enqueue(p) ==
    /\ hs[p].pc = "enqueue"
    /\ LET k == NextType(hs[p].todo) IN
       \E j \in FreeIds(p, k) : Stores(p, j) /\ Record(p, k, Entry(j))
    /\ UNCHANGED <<row, live, storageVars, historyVars>>

\* The queue answers with an error, having stored the task or not.  The upload
\* handlers log it and go on with a nil TaskID; the others return, whatever
\* they have queued already.
EnqueueFails(p) ==
    /\ hs[p].pc = "enqueue"
    /\ LET k == NextType(hs[p].todo) IN
       /\ \/ ("queue" \in Faults \/ FreeIds(p, k) = {}) /\ UNCHANGED job
          \/ "queue" \in Faults /\ \E j \in FreeIds(p, k) : Stores(p, j)
       /\ IF hs[p].op \in {"upload", "complete"}
          THEN Record(p, k, Entry(NoJob)) /\ UNCHANGED fresh
          ELSE Return(p, "idle")
    /\ UNCHANGED <<row, live, storageVars, stale, torn>>

\* ReprocessStream insists on the source, enqueueFaces falls back to the HLS.
SourceExists(p) ==
    /\ hs[p].pc = "exists"
    /\ LET faces == hs[p].op = "faces"
           there == hs[p].copy.key \in files
       IN IF there \/ (faces /\ hls = "built")
          THEN /\ hs' = [hs EXCEPT
                   ![p].pc = "enqueue",
                   ![p].input = IF there THEN hs[p].copy.key ELSE NoKey,
                   ![p].todo = IF faces THEN {"faces"} ELSE Failed(hs[p].copy)]
               /\ UNCHANGED fresh
          ELSE Return(p, "idle")
    /\ UNCHANGED <<row, live, storageVars, job, stale, torn>>

-----------------------------------------------------------------------------
(* DeleteStream, and the source's removal once the stream is ready.        *)

\* The source goes first, then, of a stream read as ready, the HLS folder,
\* then the tasks of one read as processing.
AfterSource(r) == CASE r.status = "ready" /\ r.key # NoKey -> "folder"
                    [] r.status = "processing"            -> "tasks"
                    [] OTHER                              -> "row"

DeleteSource(p) ==
    /\ hs[p].pc = "source"
    /\ files' = files \ {hs[p].copy.key}
    /\ Goto(p, AfterSource(hs[p].copy))
    /\ UNCHANGED <<row, live, multis, hls, job, historyVars>>

\* A failed removal of the source ends the deletion before anything is gone.
DeleteSourceFails(p) ==
    /\ hs[p].pc = "source"
    /\ hs[p].copy.key # NoKey /\ "storage" \in Faults
    /\ Return(p, "idle")
    /\ UNCHANGED <<row, live, storageVars, job, stale, torn>>

\* An error of DeleteFolder is only logged.
DeleteFolder(p) ==
    /\ hs[p].pc = "folder"
    /\ \/ hls' = IF hls = "built" THEN "removed" ELSE hls
       \/ "storage" \in Faults /\ UNCHANGED hls
    /\ Goto(p, "row")
    /\ UNCHANGED <<row, live, files, multis, job, historyVars>>

\* Mutant: one rerun too many.
Again_OneMore(task, last) ==
    IF task.reruns >= 0
    THEN [task EXCEPT !.stage = "queued", !.calls = <<>>, !.reruns = @ - 1]
    ELSE [task EXCEPT !.stage = last, !.calls = <<>>]

\* A task whose run failed is queued again while it has reruns left.
Again(task, last) ==
    IF task.reruns > 0
    THEN [task EXCEPT !.stage = "queued", !.calls = <<>>, !.reruns = @ - 1]
    ELSE [task EXCEPT !.stage = last, !.calls = <<>>]

\* TerminateTask publishes a cancellation, which fails a running task at best:
\* one that is still queued is not taken off the queue.
Cancellable(r) ==
    {j \in JobIds : /\ \E k \in TaskTypes : r.tasks[k].id = j
                    /\ job[j].stage \in {"running", "reporting", "failing"}
                    /\ hs[j].pc = "idle"}

TerminateTasks(p) ==
    /\ hs[p].pc = "tasks"
    /\ \E hit \in SUBSET Cancellable(hs[p].copy) :
          job' = [j \in JobIds |-> IF j \in hit THEN Again(job[j], "cancelled")
                                                ELSE job[j]]
    /\ Goto(p, "row")
    /\ UNCHANGED <<row, live, storageVars, historyVars>>

\* repo.Delete refuses a missing row but does not look at the status again.
DeleteRow(p) ==
    /\ hs[p].pc = "row"
    /\ live' = FALSE
    /\ stale' = (stale \/ (live /\ p \notin fresh))
    /\ Stop(p, "idle") /\ fresh' = {}
    /\ UNCHANGED <<row, storageVars, job, torn>>

\* Or it fails, with the source and the folder gone.
DeleteRowFails(p) ==
    /\ hs[p].pc = "row" /\ "save" \in Faults
    /\ torn' = (torn \/ live)
    /\ Return(p, "idle")
    /\ UNCHANGED <<row, live, storageVars, job, stale>>

\* Mutant: the HLS goes with the source.
DropSource_AndFolder(p) ==
    /\ hs[p].pc = "drop"
    /\ files' = files \ {hs[p].copy.key}
    /\ hls' = "removed"
    /\ Return(p, "idle")
    /\ UNCHANGED <<row, live, multis, job, stale, torn>>

\* UpdateStreamStatus(ready) drops the source after the write.  It ignores the
\* error of GetStorageInfo: without a key it dereferences nil and panics.
DropSource(p) ==
    /\ hs[p].pc = "drop"
    /\ IF hs[p].copy.key = NoKey
       THEN Return(p, "error") /\ UNCHANGED files
       ELSE /\ Return(p, "idle")
            /\ \/ files' = files \ {hs[p].copy.key}
               \/ "storage" \in Faults /\ UNCHANGED files
    /\ UNCHANGED <<row, live, multis, hls, job, stale, torn>>

\* A call fails where the code has nothing to take back, the client goes away
\* or the process dies: the handler ends between two calls.
Abort(p) ==
    /\ hs[p].pc \notin {"idle", "error"}
    /\ torn' = (torn \/ HalfDone(p))
    /\ Return(p, Refused(p))
    /\ UNCHANGED <<row, live, storageVars, job, stale>>

HandlerStep(p) ==
    \/ StoreNew(p) \/ StoreComplete(p) \/ StoreRefused(p)
    \/ SaveCheck(p) \/ SaveWrite(p) \/ SaveFails(p) \/ SaveFailsDirty(p)
    \/ Enqueue(p) \/ EnqueueFails(p) \/ SourceExists(p)
    \/ DeleteSource(p) \/ DeleteSourceFails(p) \/ DeleteFolder(p)
    \/ TerminateTasks(p) \/ DeleteRow(p) \/ DeleteRowFails(p)
    \/ DropSource(p)

-----------------------------------------------------------------------------
(* The workers and asynq (not in this repository): a run reads its input,  *)
(* makes its object and reports over gRPC, one call at a time.             *)

JobMoves(j, stage, calls) ==
    job' = [job EXCEPT ![j].stage = stage, ![j].calls = calls]

\* A run may report that it has started.
WorkerStart(j) ==
    /\ job[j].stage = "queued"
    /\ \E calls \in {<<>>, <<"started">>} : JobMoves(j, "running", calls)
    /\ UNCHANGED <<row, live, storageVars, hs, historyVars>>

Working(j) == job[j].stage = "running" /\ job[j].calls = <<>> /\ hs[j].pc = "idle"

Readable(j) == job[j].key \in files \/ (job[j].key = NoKey /\ hls = "built")

\* A transcode writes the HLS before it reports anything.
WorkerSucceeds(j) ==
    /\ Working(j)
    /\ Readable(j)
    /\ IF j[1] = "transcode"
       THEN hls' = "built" /\ JobMoves(j, "reporting", <<"metadata", "progress", "ready">>)
       ELSE UNCHANGED hls /\ JobMoves(j, "reporting", <<"progress">>)
    /\ UNCHANGED <<row, live, files, multis, hs, historyVars>>

WorkerFails(j) ==
    /\ Working(j)
    /\ JobMoves(j, "failing", <<"failure">>)
    /\ UNCHANGED <<row, live, storageVars, hs, historyVars>>

\* The next report: UpdateStreamMetadata, -Processing or -Status.
WorkerCalls(j) ==
    /\ job[j].stage \in {"running", "reporting", "failing"}
    /\ hs[j].pc = "idle" /\ job[j].calls # <<>>
    /\ \/ Begin(j, Head(job[j].calls), j[1])
       \/ ~live /\ Return(j, "error")
    /\ JobMoves(j, job[j].stage, Tail(job[j].calls))
    /\ UNCHANGED <<row, live, storageVars, stale, torn>>

Rerun(j, last) == job' = [job EXCEPT ![j] = Again(@, last)]

\* All reports were answered.
WorkerEnds(j) ==
    /\ hs[j].pc = "idle" /\ job[j].calls = <<>>
    /\ \/ job[j].stage = "reporting" /\ JobMoves(j, "succeeded", <<>>)
       \/ job[j].stage = "failing" /\ Rerun(j, "failed")
    /\ UNCHANGED <<row, live, storageVars, hs, historyVars>>

\* A report was refused: the run ends in error.
WorkerGivesUp(j) ==
    /\ hs[j].pc = "error"
    /\ Rerun(j, "lost")
    /\ Return(j, "idle")
    /\ UNCHANGED <<row, live, storageVars, stale, torn>>

WorkerStep(j) ==
    \/ WorkerStart(j) \/ WorkerSucceeds(j) \/ WorkerFails(j)
    \/ WorkerCalls(j) \/ WorkerEnds(j) \/ WorkerGivesUp(j)

-----------------------------------------------------------------------------

Next ==
    \/ \E p \in Owners : OwnerBegin(p)
    \/ \E p \in Procs : HandlerStep(p)
    \/ \E j \in JobIds : WorkerStep(j)

Spec == Init /\ [][Next]_vars

\* The same, with handlers that end between two calls.
CrashNext == Next \/ \E p \in Procs : Abort(p)
CrashSpec == Init /\ [][CrashNext]_vars

\* A handler that has begun runs on, and the workers run what is queued.
FairSpec ==
    /\ Spec
    /\ \A p \in Procs : WF_vars(HandlerStep(p))
    /\ \A j \in JobIds : WF_vars(WorkerStep(j))

-----------------------------------------------------------------------------
(* Properties.                                                             *)

RowType ==
    [status : Statuses, key : Keys \union {NoKey},
     rotated : BOOLEAN, faces : BOOLEAN,
     tasks : [TaskTypes -> [there : BOOLEAN, id : JobIds \union {NoJob},
                            failed : BOOLEAN]]]

Reports == {"started", "metadata", "progress", "ready", "failure"}
Calls == {<<>>, <<"started">>, <<"failure">>, <<"progress">>, <<"ready">>,
          <<"progress", "ready">>, <<"metadata", "progress", "ready">>}

JobType ==
    [stage  : {"none", "queued", "running", "reporting", "failing",
               "succeeded", "failed", "lost", "cancelled"},
     key    : Keys \union {NoKey},
     calls  : Calls,
     reruns : 0..MaxRetry]

HandlerType ==
    [op    : OwnerOps \union Reports \union {"none", "finish"},
     pc    : {"idle", "error", "store", "exists", "enqueue", "save", "write",
              "source", "folder", "tasks", "row", "drop"},
     copy  : RowType,
     todo  : SUBSET TaskTypes,
     input : Keys \union {NoKey}]

\* The state has the shape the code's types and constants allow: no enqueue
\* without a type to queue, no task rerun more often than asynq.MaxRetry.
TypeOK ==
    /\ row \in RowType
    /\ live \in BOOLEAN
    /\ files \subseteq Keys /\ multis \subseteq Keys
    /\ hls \in {"none", "built", "removed"}
    /\ job \in [JobIds -> JobType]
    /\ hs \in [Procs -> HandlerType]
    /\ fresh \subseteq Procs /\ stale \in BOOLEAN /\ torn \in BOOLEAN
    /\ \A p \in Procs : hs[p].pc = "enqueue" => hs[p].todo # {}

Watchable == {"ready", "published"}

\* Nobody is shown a stream before its HLS exists: neither the row nor the
\* copy a handler is about to write is watchable before a transcode ended.
\* Holds whatever interleaves, since "ready" starts with a worker's report.
WatchableHasHLS ==
    /\ row.status \in Watchable => hls # "none"
    /\ \A p \in Procs : hs[p].copy.status \in Watchable => hls # "none"

\* What the two above need to be inductive: a reprocess that was let in has
\* something to queue, and "ready" is reported of a built HLS only.
ReprocessHasWork ==
    \A p \in Procs :
        /\ hs[p].op = "faces" => "faces" \in TaskTypes
        /\ hs[p].pc = "exists" =>
              \/ hs[p].op = "faces"
              \/ hs[p].op = "reprocess" /\ Failed(hs[p].copy) # {}

ReadyCalls == {<<"ready">>, <<"progress", "ready">>, <<"metadata", "progress", "ready">>}
ReadyIsReported == \A j \in JobIds : job[j].calls \in ReadyCalls => hls # "none"

\* The tasks queued or running for the stream.
Pending(k) ==
    {j \in JobIds : /\ j[1] = k
                    /\ job[j].stage \in {"queued", "running", "reporting", "failing"}}

Quiet == Busy = {} /\ live

\* Every Save and every deletion was made by a handler that had read the row
\* as it was, and no handler left storage and row apart.  All that the
\* properties below except.
Intact == ~stale /\ ~torn

\* "a failed transcode task sets the stream status to error" (README): once
\* asynq has given up on the only transcode, the row shows it.
FailureShows ==
    Intact /\ Quiet /\ Pending("transcode") = {}
    /\ (\E j \in JobIds : j[1] = "transcode" /\ job[j].stage = "failed")
    /\ (\A j \in JobIds : j[1] = "transcode" => job[j].stage \in {"none", "failed"})
        => row.status = "error"

\* A transcode whose reports were all accepted leaves the stream watchable,
\* unless another one failed after it: no later report takes that back.
SuccessShows ==
    Intact /\ Quiet
    /\ (\E j \in JobIds : j[1] = "transcode" /\ job[j].stage = "succeeded")
    /\ Pending("transcode") = {}
        => row.status \in Watchable

\* A stream in error can be reprocessed: its source is kept until a transcode
\* has succeeded (ReprocessStream answers ErrSourceFileMissing otherwise), also
\* when a deletion, a late report and a reprocessing meet.
ErrorIsRetryable == Intact /\ Quiet /\ row.status = "error" => row.key \in files

\* Face detection can be asked for as long as a stream can be watched: when
\* UpdateStreamStatus drops the source, the HLS enqueueFaces falls back to is
\* there, and a deletion that takes the HLS takes the row too.
FacesHaveInput ==
    Intact /\ Quiet /\ row.status \in Watchable => row.key \in files \/ hls = "built"

\* Between handlers storage holds no source object the row does not name: an
\* upload that loses to another, or to a deletion, takes its object back.
NoOrphanFile ==
    Intact /\ Busy = {} => files \subseteq (IF live THEN {row.key} ELSE {})

\* UpdateStreamStatus never meets a ready stream without storage info (it
\* would dereference the nil that GetStorageInfo returned) but for a Save of a
\* draft over an upload.
NoNilStorage ==
    ~stale => \A p \in Procs : hs[p].pc = "drop" => hs[p].copy.key # NoKey

\* "re-enqueues the failed/absent tasks" (README): a stream that is stuck in
\* processing with no task left to report on it can be reprocessed.
StuckIsReprocessable ==
    Quiet /\ row.status = "processing" /\ (\A k \in TaskTypes : Pending(k) = {})
        => Allowed("reprocess", row)

\* The stream follows StreamContract, which says nothing more once a handler has
\* saved or deleted a row that is no longer the one it read: every departure
\* from the documented lifecycle begins with such a step.
Contract == INSTANCE StreamContract
                WITH status <- IF stale THEN "overwritten"
                                ELSE IF live THEN row.status ELSE "deleted"
RefinesContract == Contract!Spec

\* A stream with a transcode on it does not stay in processing: it becomes
\* watchable, fails or goes, unless the task's reports were refused for good, a
\* deletion cut it off or a Save wrote over another's.
ProcessingEnds ==
    live /\ row.status = "processing" /\ Pending("transcode") # {}
        ~> \/ ~live \/ row.status # "processing" \/ stale
           \/ \E j \in JobIds : j[1] = "transcode" /\ job[j].stage \in {"lost", "cancelled"}

=============================================================================
