# stream-service in TLA+

A specification of `stream-service` (Go: HTTP API, gRPC server for the workers,
Postgres, MinIO, asynq queues, websocket hub), model-checked with TLC and, for
all but one of the safety properties of its passing runs, proved with TLAPS. `PROJECT.json` maps every
definition to the source lines it stands for and lists the runs, the mutants that
break each property, the findings and the hazards.

Short names for source files: *service* = `internal/service/stream_service_impl.go`,
*handlers* = `internal/delivery/http/handlers/stream_handler.go`, *grpc* =
`internal/delivery/grpc/stream_handler.go`, *repo* / *export repo* =
`internal/repository/stream_repository_impl.go` / `stream_export_repository_impl.go`,
*queue* = `internal/queue/task_distributor_impl.go`, *export queue* =
`internal/queue/export_task_distributor.go`, *hub* = `internal/wss/hub_impl.go`.

## 1. Inventory

| Component | State | Operations | Talks to |
|---|---|---|---|
| Stream service | none of its own: the `streams` row | create, update, publish, unpublish, delete, upload, multipart start/part/complete, reprocess, faces, three reports | repo, storage, queue, hub |
| Single-file export | `stream_exports` row, `processed/<id>/video.mp4` | request, state, download, complete | export repo, export queue, storage, hub, grpc |
| Repositories | Postgres tables, soft-deleted | read, `Update` = `First` + `Save` of every column, `Delete` = `First` + delete; `ResetFailed` is one conditional UPDATE; a partial unique index on the export's stream | - |
| Queues | Redis (asynq): transcode, thumbnail, faces (DB 2), events (3), export (4) | distribute (fixed ids), reprocess (fresh ids), terminate | workers |
| Workers (not in the repository) | their tasks | read the source or HLS, write objects, report over gRPC; asynq re-runs a failed task once | grpc, storage |
| Object storage | MinIO objects and multipart uploads | upload, download, exists, delete, delete folder, init/part/complete/abort multipart | - |
| Hub | per replica: user -> slice of connections | register, unregister, send | browsers |
| HLS playback | none | `GetHLS`, `GetFileByKey`, neighbour fallback | repo, storage |
| Catalogue and face batch | none | list pages (count, then select), faces for up to 100 streams in one request | repo, storage, queue |
| Policies (identity-service) | who may read, write, delete a stream | added by create, removed by delete, asked by the middleware | service |
| Tokens, DTOs, activity events, metrics, configuration | see PROJECT.json | stateless or fire-and-forget | - |

**What is hard.** No handler holds a lock or a transaction. Every one reads a
whole row, decides on its copy, makes slow calls, and writes the *whole* copy
back; the HTTP handlers of one owner, three workers' reports and other replicas
do so at the same time. Workers and asynq deliver reports twice or late, re-run
failed tasks, and lose answers. Row, queue and storage are three systems with no
common transaction, so an operation may stop between any two of them. The hub
shares slices across an unlock.

**What makes each component correct.** Export: the row tells the truth about the
mp4, an attempt is decided once and by its own report, only one attempt exists at
a time, a spinner ends, and what the owner is told is what happened. Lifecycle:
the status follows the documented order, failures and successes show, what is in
error can be retried, what can be watched has an HLS, no object is left over. Hub: the slice is the open connections, a send meets real
connections and reaches those that stay. Playback: what is served is in order
and refused only if nothing is there. Effects: once all is
quiet the browser shows the row, and the policies are those of a stream that is
there, or gone. Multipart: an upload that is shown as running can be finished,
the file is whole and is the one the tasks read, and nothing is left behind in
storage. Library: a list walked page by page skips and repeats nothing that
stays in it, and a batch answers once for each id.

## 2. Modules

| Module | Models | State -> code | Actions -> code |
|---|---|---|---|
| `ExportContract` | what the export promises its owner | `status` = status shown by `GET /stream/:id/export` | Request, Decide; Cross = a pending row takes another attempt's report, after which nothing is promised |
| `StreamExport` | one stream's export | `row` export row; `object` the mp4; `stream`, `del` the stream row and `DeleteStream`; `req`, `dl` handler goroutines; `task`, `rpc` asynq tasks and their gRPC call; `notice` last websocket event | one per database, queue or storage call of `RequestStreamExport`, `OpenStreamDownload`, `CompleteStreamExport`, `DeleteStream`; worker and asynq as environment |
| `StreamContract` | the lifecycle the README draws | `status` | Upload, Complete, Finish, Reprocess, Recover, Publish, Unpublish, Delete; Overwrite = a handler writes over what it has not read, after which nothing is promised |
| `StreamLifecycle` | one stream through its whole life | `row`, `live` (soft delete), `files`, `multis`, `hls`, `job` (tasks), `hs` (each handler with *its copy of the row*) | `Begin` = read + check + edit; then one action per call: `StoreNew`, `StoreComplete`, `SaveCheck`/`SaveWrite` (the two statements of `repo.Update`), `Enqueue`, `SourceExists`, `DeleteSource`, `DeleteFolder`, `TerminateTasks`, `DeleteRow`, `DropSource`; each call that can fail also as a failure (`StoreRefused`, `SaveFails`, `SaveFailsDirty`, `EnqueueFails`, `DeleteSourceFails`, `DeleteRowFails`); `Abort`; workers as environment |
| `StreamEffects` | `StreamLifecycle` with what its handlers do after the write | `after` the calls each handler has still to make; `policies`, `cascade`, `notice`, `shown` what they leave outside | each action of `StreamLifecycle` with the effects it owes; `AddPolicy`, `RemovePolicy`, `CascadeFaces`, `Notify` one call each, `EffectFails` (logged), `EffectsDie`; the browser as environment |
| `MultipartUpload` | the multipart upload of one draft, with its parts | `row`, `live`; `open`, `stored`, `object` in storage; `tab` what each browser tab knows; `puts` part requests in flight; `hs` handlers with the row they read and their copy | `StartStreamUpload`, `UploadPart`, `CompleteStreamUpload` (with `QueueTask` per task type), `DeleteStream`, one action per call; the calls that fail, clean-ups included |
| `StreamLibrary` | the operations on many streams | `row` of each stream, `input` in storage; `walk` a client's walk through a list; `batch` the turns of `ProcessFacesBatch` with its snapshot; `stayed`, `came`, `gone` history | `repo.List` as `WalkCount` and `WalkSelect`; the batch's read, and per turn check, enqueue, `First`, `Save`; other handlers as single steps |
| `WssHub` | one user's connections | `heap` backing arrays, `slice` header in the map, `moving` the mutex and the slot `append` is shifting, `conn`, `send` | Register, Unregister element by element, send element by element |
| `HlsServing` | one request for `seg_<n>.ts` | `row`, `stored` segments, `deleting`, `get` (program counter, loop index, what was merged) | GetHLS, GetFileByKey, Download, one turn of the loop, its end; owner, worker and transcoder as single steps |
| `MC*` | - | symmetry sets and, as `Explored`, the bound on what a run explores | - |
| `StreamExport_proofs`, `StreamLifecycle_proofs`, `StreamOverlap_proofs` (the lifecycle with handlers that overlap, fail and die), `StreamEffects_proofs`, `MultipartUpload_proofs`, `StreamLibrary_proofs`, `WssHub_proofs`, `HlsServing_proofs` | theorems (section 4) | - | - |

`StreamEffects` extends `StreamLifecycle` and takes its actions as they are.
`StreamExport`, `HlsServing`, `MultipartUpload` and `StreamLibrary` contain only
as much of the stream's status and deletion as they read; `StreamLifecycle` has
all of it. The contracts are
instantiated (`Contract == INSTANCE ... WITH status <- ...`) and checked as
properties: the mapping is the row's status, with a soft-deleted row mapped to
`"deleted"`.

Abstractions common to all: one stream, but for `StreamLibrary` (rows and object
keys of different streams are disjoint); ownership checks, which refuse before
anything changes, but for the batch, which reports them; titles, tags, progress
percentages, names and sizes beyond "zero or not"; logs, metrics, activity
events. In `MultipartUpload` a tab names its upload, key and upload id, and an
ETag is the content of the part; storage follows the S3 rules (a part replaces the
one of its number, the join is refused unless the upload is open, the numbers
ascend and the ETags are the stored ones). `UpdateStreamMetadata` is modelled through the rotation, the one column it
shares with the owner; since the others do not appear, "unchanged" there says
nothing about duration or format. A call that fails with nothing to undo ends
the handler where it is, as does a request context that is cancelled or a process
that dies: `Abort`, a step of `StreamLifecycle`'s `CrashNext` and of
`StreamEffects`, and the handlers named in the constant `Dying` of `StreamExport`.
`Next` is the same without it; `life_live` and `life_stuck` use that one.

**History variables.** The environment is the deployed one throughout: handlers
overlap, die between two calls, and their calls fail, clean-ups included; workers
report twice. What the code then cannot keep is not kept out of the model but
recorded there, at the step where it happens, and a property says after which of
these it no longer speaks:

| Variable | Becomes true, or is added to, when |
|---|---|
| `StreamLifecycle`: `stale` (with `fresh`, the handlers since whose read no row was written) | a handler saves a row that is not the one it read, or deletes one |
| `torn` | a handler leaves storage and row apart: a clean-up fails after a failed write (service:483, :845), a deletion fails or dies after the source went (service:305-335), parts are joined behind a deletion's back |
| `StreamExport`: `misled` (with `open`, the tasks queued for an export that have decided nothing yet) | a pending row takes the report of another attempt |
| `dropped`, `cut` | a request that holds the pending row, or a report, is refused or cut off; a deletion ends after its removal of the folder |
| `StreamEffects`: `lost`, `unheard`, `revived` | a policy call or the cascade is left undone; a notice dies, fails or is sent by a replica without the websocket; a `Save` brings a deleted row back |
| `MultipartUpload`: `clobbered`, `mishaps` | a `Save` goes over another's; "closed": the parts are joined and the row does not say so; "leaked": an abort fails; "gutted": a deletion fails after the object went; a task type: the queue refused that task |

## 3. Runs

Passing runs (bounds in parentheses):

| Run | Question | Shows |
|---|---|---|
| `export_safe` (2 requests, 1 download, 2 tasks, 1 rerun each) | lost and ambiguous enqueues, second reports, reruns, successes without a size, requests, reports and deletions that die anywhere | `OneExportAtATime`, `ReadyIsBacked`, `DownloadServes`; refines `ExportContract` |
| `export_live` (2 requests, 2 tasks, 1 rerun each) | fair handlers and workers, second reports, lost and ambiguous enqueues | `TypeOK`, `PendingHasWorker`, `PendingSettles`, `OutcomeIsAnnounced` |
| `life_overlap` (2 owners, 2 keys, the transcode, 1 reprocess) | all of an owner's operations and the reports overlapping, dying anywhere, with failing writes, queue, storage and clean-ups | `ErrorIsRetryable`, `NoOrphanFile`, `FacesHaveInput`, `NoNilStorage`; refines `StreamContract` |
| `life_effects` (2 owners, 1 key, the transcode; policies, notices, cascade) | what survives any interleaving and any death between two calls, and what the effects after the writes add up to | `TypeOK`, `WatchableHasHLS`, `EffectsTypeOK`, `BrowserCatchesUp`, `AccessFollowsRow` |
| `life_live` (1 owner, 1 key, 1 rerun, 1 reprocess) | fair handlers and workers, reruns by asynq, failing storage, reports that overlap requests | `FailureShows`, `SuccessShows`, `ProcessingEnds`; refines `StreamContract` |
| `hub` (4 connections, 2 sends) | appends, removals and sends on shared arrays | `TypeOK`, `SliceIsOpenConns`, `NeverNil` |
| `hls` (5 segments, radius 3) | playback under writes and deletion | `TypeOK`, `InPlaybackOrder`, `MissingOnlyIfAlone` |
| `multipart` (2 tabs, 2 files of 2 parts, 2 complete requests) | tabs that race, parts late, repeated and out of order, a deletion, and every write, enqueue, join, abort and removal failing | `TypeOK`, `UploadingIsOpen`, `FileBehindRow`, `NothingLeftBehind`, `OwnPartsAreTaken` |
| `library` (3 streams, 3 lists, a batch of 2, 2 changes by others) | walking a list while it changes; a batch on a snapshot | `TypeOK`, `WalkMissesNothing`, `PagesAddUp`, `BatchAnswersEach` |

Runs in which TLC finds the code at odds with a sentence of the repository:

| Run | Sentence | What happens |
|---|---|---|
| `export_retry_swallowed` | a retry's "own report is never swallowed by this guard" (service:704-709) | the late error-handler report of the failed attempt settles the retry's row |
| `life_stuck` | reprocessing "re-enqueues the failed/absent tasks" (README:83) | an entry whose enqueue failed carries no error, so it is refused |
| `hub_missed` | "tells the owner's open websocket connections how it went" (service:693-694) | a removal shifts the array under the send |

**What the properties except, and what happens there.** The exceptions are the
history variables of section 2; each stands for a behaviour of the code that
nothing in it repairs, and dropping it from the property lets TLC show that
behaviour. Where a sentence of the repository says otherwise it is quoted.

- `dropped` (`PendingHasWorker`, `PendingSettles`, `OutcomeIsAnnounced`): a request
  that ends between the row and the queue (service:599) leaves a pending row
  without a task, and later requests are answered with it; service:540-542 says
  that a pending one "is not re-queued, because the worker is already on it". So
  does a report that is cut off, or a success the gRPC handler refuses for its
  size, unless asynq's error handler reports once more.
- `misled` (`OneExportAtATime`, the contract): asynq runs again a failed task that
  the owner has already retried, and a task whose enqueue seemed to fail runs
  beside the retry's; the report of either settles the retry's row. This is the
  behaviour `export_retry_swallowed` finds. While it has not happened at most one
  undecided attempt exists, whatever else is reported twice.
- `cut` (`ReadyIsBacked`, `DownloadServes`): the folder with the mp4 goes before the
  rows; a deletion that ends there leaves a ready export without its file.
- `stale` (the contract, `NoNilStorage`, and all properties under `Intact`):
  `repo.Update` writes a whole row read earlier (repo:70). An edit can undo a failure
  report, a publish can slip between `DeleteStream`'s check and its delete, a handler
  that passed `Update`'s existence check brings a deleted row back, of two uploads
  of one draft one `Save` wins and the other's object stays, and a title saved over
  an upload makes the row a draft again, so that the transcode's "ready" asks it
  for its storage info and dereferences nil (service:417). A metadata report that
  read the row before the owner's edit writes the older rotation back
  (service:1006-1012), where src/README.md:113-115 says it "preserves a saved
  rotation".
- `torn` (`ErrorIsRetryable`, `FacesHaveInput`, `NoOrphanFile`, `FailureShows`,
  `SuccessShows`, with `stale`: `Intact`): the clean-up of a failed upload is
  tried once, on the same context, and its error dropped (service:483, :845); when
  `repo.Delete` fails (service:333-335) source and folder are gone and the row is
  there, in error without a source or watchable without an HLS.
- `unheard`, `lost`, `revived` (`BrowserCatchesUp`, `AccessFollowsRow`): failed calls
  are logged and not repeated; each replica has a hub of its own (routes.go:87) and
  the deployment runs up to five, so that a notice sent by another replica reaches
  nobody; a row brought back by a `Save` has no policies left.
- `clobbered` (`FileBehindRow`, `NothingLeftBehind`): two tabs that both read the
  draft both begin an upload, the later row wins, the other upload stays open, and
  if it had been completed its tasks hold the fixed ids, so that the row's own file
  gets none.
- the mishaps: after a join that went unsaid, by a failed write (service:937) or a
  lost answer (service:921-928), the row still says uploading and no request gets
  the stream out of it; an abort that fails leaves the upload in storage; of each
  task type the queue refused (service:941-975, logged only) `FileBehindRow` asks no
  task. And neither property of storage speaks of deleted streams: `DeleteStream`
  removes the object but aborts no upload, and a complete request that joins after
  that removal leaves its object behind.

Restrictions of the environment, rather than exceptions, are few:

- failure reports carry a text (`WorkerErrors` without `""`), as the comment of the
  protocol asks. With `""` in it `ReadyIsBacked` fails: only the text tells a failure
  from a success (grpc:156), not the request's `success`;
- in `export_live` nobody dies (`Dying = {}`) and every mp4 has a size: its
  properties except everything after `dropped`;
- lists are sorted by creation. With `Sorts = {"status"}` both walk properties fail:
  rows of one status have no order of their own (repo:135), so the pages of a walk
  may skip one and repeat another. That offsets above 10000 are refused
  (handlers:117, 224) is not modelled: no bounded walk gets there;
- the request for faces, and the thumbnail and faces tasks of an upload, are in no
  run of `StreamLifecycle`; the theorems cover them.

Also seen while modelling, without a property: two attempts' websocket notices may
arrive in the other order than they were saved (service:728). The comments of the
HLS fallback speak of the "direct neighbours" of a missing segment (service:1324-1326)
and of "walking outwards until a run of missing segments ends" (service:1352-1354);
the loop (service:1368-1390) goes from three before to three behind and merges
everything stored there, across gaps, so no property states what a player should
get, only that it is in order and not empty if anything is there. STREAM_READY is sent by `PublishStream` only
(service:382), where README:148 has it "when processing finishes"; the transcoder's
"ready" is announced as STREAM_UPDATED. `BrowserCatchesUp` treats both alike.
`StartStreamUpload` sends nothing, so another tab goes on showing a draft. A batch
saves each row as it was when the batch began: an edit, a publication or a faces
result in between is undone, and a row deleted in between comes back
(service:1238, repo:70). A limit of zero is answered with `limit: 0` and up to fifty
rows (repo:120).

**Bounds.** Two requests are what it takes for one to lose the row to the other;
a third adds only another loser. Two export tasks with one rerun each
(`asynq.MaxRetry(1)`) make four attempts, two of them begun by the owner, so that a
stale report can meet a row reset after its own attempt. Two owners and the tasks'
own handlers overlap three deep in `life_overlap`; two storage keys let two uploads
race; one reprocess is one id more than the fixed one. asynq's rerun of a processing
task (`MaxRetry = 1`) is in `life_live`. `CONSTRAINT`s (`Explored`, and `Intact` in
`life_overlap`) cut a run off where its properties have nothing more to say, that is
at the states whose history variables they all except: `~misled` and `~cut`,
`~stale` and `~torn`, `~revived` and not both kinds of lost effect; in `multipart` at
most one mishap, none together with `clobbered`, and two parts in flight. The theorems
have no such bound. `life_effects` adds up to four calls after each write, and
makes room for them by leaving out reprocessing, edits and the second task type,
which owe the effects of the operations that are in, and the failing calls, which
end a handler as `HandlerDies` does. Two tabs with two parts each
are the least with an order among parts and a race among uploads; two complete
requests are a retried one. Three streams and pages of one or two rows have a page
that begins, ends or lies between those a change touches; two changes take a
stream out and back in, or move two; a batch of two has a turn before and after a
failure, with a stream of somebody else and one not yet created among its ids. Four connections make the slice grow through capacities 1, 2 and 4,
that is through both branches of `append`, and put elements on both sides of a
removal. Five segments with radius 3 put the missing one at the start, in the
middle, at the end and beyond, so that the loop is cut off on either side, not at
all, and runs past the last segment. `CHECK_DEADLOCK FALSE` everywhere: all bounded
instances end when their tasks, keys, connections or the one request are used up.
Symmetry is used in safety runs only.

**Fairness.** `StreamExport!Fairness`: weak fairness of each handler's steps (a
goroutine keeps running; its calls have deadlines), of each task (asynq runs what
is queued and `asynq.Timeout` bounds a run) and of each call it makes. Nothing is
assumed of the owner: requests, downloads and deletions need never happen.
`StreamLifecycle!FairSpec`: the same, weak fairness of `HandlerStep` for each handler
and of `WorkerStep` for each task; no handler waits for another, so no stronger
fairness is needed. Neither lets a handler die: after that nothing continues, as
`dropped` says of the export and `"lost"` tasks of the lifecycle. `WssHub`, `HlsServing`,
`StreamEffects`, `MultipartUpload` and `StreamLibrary` state no liveness: what must
come about there is stated of the states in which everybody has finished.

## 4. Proofs

All theorems hold for every value of the constants that satisfies the modules'
`ASSUME`s; additional assumptions are in the theorem. Every invariant, action
property and refinement that a passing run checks is the conclusion of one, but
for `FailureShows`. The statements carry the exceptions of section 3: "until" below
names them.

| Theorem | Statement | Extra assumptions | Argument |
|---|---|---|---|
| `StreamExport_proofs!TypeCorrect` | `[]TypeOK` | - | inductive as it stands |
| `ReadyBacked`, `DownloadFinds` | `[]ReadyIsBacked`, `[]DownloadServes` | failure reports carry a text | `BackedInv`: also every success report in flight has its mp4 and, once accepted, a size (`TrueReports`), and a download about to open has an object or a deletion under way (`OpenIsBacked`). Without `TrueReports` a report may turn the row ready with nothing behind it. |
| `OneAtATime` | `[]OneExportAtATime` | none: second reports, reruns, ambiguous enqueues and deaths included | `OnceInv`: until a report is `misled`, the right to decide a pending row has one holder (`OneHolder`), a handler until it has queued or given up, then a task until it has recorded an outcome; what reports twice after that has lost the right |
| `KeepsContract` | `Spec => Contract!Spec` | none | until then only the holder of the pending row writes it, so each write is a Request, a Decide or a stutter; the step that misleads is a Cross |
| `PendingIsWorkedOn` | `[]PendingHasWorker` | none | until a request or report is `dropped`, a pending row loses nobody without being decided |
| `StreamLifecycle_proofs!TypeCorrect`, `Watchables` | `CrashSpec => []TypeOK`, `CrashSpec => []WatchableHasHLS` | none: overlap, faults and crashes included | `Invariant`: together with `ReadyIsReported` (a run that has "ready" still to report has built the HLS) and `ReprocessHasWork` (an admitted reprocess has something to queue, which the types need) |
| `StreamOverlap_proofs!FollowsContract`, `StorageInfoThere`, `SuccessesShow` | `CrashSpec => Contract!Spec`, `[]NoNilStorage`, `[]SuccessShows` | none | `ReadsInv` (below), until a write is `stale` |
| `NothingOrphaned`, `ErrorsAreRetryable`, `FacesFindInput` | `CrashSpec => []NoOrphanFile`, `[]ErrorIsRetryable`, `[]FacesHaveInput` | none | `OverlapInv` (below), until a write is `stale` or storage and row are `torn` apart |
| `StreamEffects_proofs!EffectsTypeCorrect`, `EffectsKeepTypes`, `EffectsWatchables` | `EffectsSpec => []EffectsTypeOK`, `[]TypeOK`, `[]WatchableHasHLS` | none | a step of `EffectsSpec` is one of `CrashSpec` or leaves the lifecycle alone, so `Invariant` holds; `EffectsTyped`: what is still to do is a tail of one of the code's three lists, and nobody does any before its last write |
| `AccessFollows` | `[]AccessFollowsRow` | none | `AccessInv`: no deletion begins before the creation has added its last policy, after which one handler removes them; how many it has removed is told by what it has still to do |
| `BrowserShows` | `[]BrowserCatchesUp` | none | `BrowserInv`: a status the browser does not show has been announced, or some handler has still to announce it, until a notice is `unheard` |
| `MultipartUpload_proofs!TypeCorrect`, `FilesAreBehindRows`, `NothingIsLeft`, `AcknowledgedIsTaken` | `[]TypeOK`, `[]FileBehindRow`, `[]NothingLeftBehind`, `OwnPartsAreTaken` | none | one invariant in parts: what a tab was told is stored (`PartsKept`); an upload is open from its start until it is joined (`Uploads`); until a `Save` writes over another's there is one upload but for the leaked ones (`OneUpload`), its file stays whole (`FilesJoined`) and each of its tasks is queued, about to be, or was refused (`TasksQueued`) |
| `UploadingStaysOpen` | `[]UploadingIsOpen` | none | the same, with the property itself |
| `StreamLibrary_proofs!TypeCorrect`, `BatchAnswers` | `[]TypeOK`, `[]BatchAnswersEach` | none | `BatchKept`: the ids behind the turn are the processed and the failed ones, and only the turn's own may be queued without being either |
| `WalkMisses`, `WalkAddsUp` | `[]WalkMissesNothing`, `[]PagesAddUp` | lists sorted by creation | `NothingPassed`: who has not been seen has at least as many ahead in the list as the walk has taken, so the next offset does not pass them; `NothingTwice`: who lies beyond the offset is older than all that was seen; `TotalKept`. The offset is a position and the list a set: the argument is about cardinalities. |
| `WssHub_proofs!SendsMeetConnections` | `[]NeverNil` | none | every slot below a header ever taken holds a connection: appends write behind the header, removals move connections, nothing is cleared |
| `TypeCorrect`, `SliceFollowsConns` | `[]TypeOK`, `[]SliceIsOpenConns` | none | `SliceKept`: while Unregister moves the tail down, the slots but the one it fills next hold each open connection once; that the length is their number follows from the bijection |
| `HlsServing_proofs!PlaysForwards`, `MissesOnlyAlone` | `[]InPlaybackOrder`, `[]MissingOnlyIfAlone` | none | `Walked`, a loop invariant: the merge ascends and stays below the index `i`, and holds every kept segment the index has passed |
| `TypeCorrect` | `[]TypeOK` | none | with `Ranged`: the walk begins `maxRadius` before the missing segment and merges nothing beyond `maxRadius` after it |

**The lifecycle, with handlers that overlap.** None of its properties is inductive:
what a `Save` may do to the row depends on what its handler read, possibly long
ago. `ReadsInv` separates the two cases. Of *any* handler it says what survives the
others' writes (`HandlerFits`: its copy names the row's key or none, or, of a new
upload, a key of its own; it works past the upload only of a row that is past it);
of a *fresh* one, since whose read nobody wrote, that what it writes next may follow
the row (`FreshFits`). Together with the shapes of handlers and tasks (`Shaped`,
`JobFits`), with keys that no two uploads share (`KeysApart`) and with what the row
owes to the reports it has taken (`JobsShow`), every step that is not `stale` keeps
them, and each is a step of the contract. `StorageFits` adds storage: what is there
is the row's or a new upload's, a row in processing or error has its source, and an
HLS is gone only while a deletion has still to remove the row (`Undermined`), which
is what a failing or dying deletion turns into `torn`. TLC checked the invariants on
small instances before they were proved.

**Assumptions.** The modules' `ASSUME`s say what the code's identifiers are:
finite sets, owners that are no task ids, streams numbered in the order of their
creation. The table has two extra ones, restrictions of section 3:
without them TLC finds the property broken, by the behaviour described there.

**Model-checked only.** `FailureShows`: that asynq has given up on the only transcode
and no other was ever queued is a fact about the whole past of the tasks, for which
the invariant above has no part yet. Liveness: `PendingSettles`, `OutcomeIsAnnounced`
and `ProcessingEnds` rest on fairness, hence on ENABLED, which the prover does not
handle. The three runs that find a counterexample need no proof. No module a theorem is
about uses RECURSIVE operators; what recursion over data would compute for every
input could not be proved, and the loops of the code are modelled as steps.

## 5. Not modelled, and why

- Tokens, DTO mapping, request validation beyond what the batch answers with:
  decided before anything changes, by libraries or stateless code.
- Activity events: enqueued where the notices are sent, logged when they fail, and
  read by nothing in this repository.
- The text search, the status filter and the sort by title of the lists: they
  select and order as the filters that are modelled do. The title's truncation in
  `downloadFileName` is formatting.
- What is left in storage after a deletion: nothing in the code cleans up, so
  there is no property to state beyond the counterexamples of section 3.
- Two goroutines in one connection's `WriteJSON`: the library's state, not the hub's.
- Metrics, configuration, migrations, startup, generated code and mocks: no state
  of the program's own. `KEEP_ORIGINAL_FILE` is a constant of `StreamLifecycle`, a
  shutdown is its `Abort`.

## 6. Plan

Modelled, checked and proved: `StreamExport` and `StreamLifecycle` with their
contracts, `WssHub`, `HlsServing`, `StreamEffects`, `MultipartUpload`,
`StreamLibrary`. What would say more, in this order:

1. A proof of `FailureShows` with overlapping handlers: what the row owes to the
   failures it was told, as `JobsShow` has it for the successes.
2. What still holds after a `Save` that was `stale`: which properties a later,
   fresh write restores.
3. The composition of the export with the lifecycle's deletion, for what is left
   in storage afterwards.

## 7. Running

`tlc -workers 2 -config <run>.cfg MC<Module>.tla`, for the configurations named
`export_*` (`MCStreamExport`), `life_effects` (`MCStreamEffects`), the other `life_*`
(`MCStreamLifecycle`), `hub*` (`MCWssHub`), `hls` (`MCHlsServing`), `multipart`
(`MCMultipartUpload`) and `library` (`MCStreamLibrary`); `tlapm <Module>_proofs.tla` for the proofs. The longest
runs, `export_live`, `life_serial` and `library`, take between one and two minutes.
