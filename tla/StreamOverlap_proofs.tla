------------------------ MODULE StreamOverlap_proofs ------------------------
(***************************************************************************)
(* Proofs about StreamLifecycle with handlers that overlap, fail and die   *)
(* in any way: what holds of the row and of storage until a handler saves  *)
(* over a row it has not read, or leaves storage and row apart.            *)
(***************************************************************************)
EXTENDS StreamLifecycle_proofs

-----------------------------------------------------------------------------
(* The inductive invariant.                                                *)

\* What StreamContract allows a status to become, and to stay.
Follows(a, b) ==
    \/ a = b
    \/ <<a, b>> \in {<<"draft", "uploading">>, <<"draft", "processing">>,
                     <<"uploading", "processing">>, <<"processing", "ready">>,
                     <<"processing", "error">>, <<"error", "processing">>,
                     <<"error", "ready">>, <<"ready", "published">>,
                     <<"published", "ready">>}

Transcode(j) == j[1] = "transcode"

\* The upload of r is complete.
Beyond(r) == r.status \notin {"draft", "uploading"}

\* A row names an object unless it is a draft, and no transcode failed before
\* the upload was complete.
RowFits(r) ==
    /\ r.key = NoKey <=> r.status = "draft"
    /\ r.tasks["transcode"].failed => Beyond(r)

\* An upload whose key no row names yet.
Newborn(h) == h.op \in {"upload", "start"} /\ h.pc \in {"save", "write"}

\* Which operation is where, and what it is about to write.
Shaped(h) ==
    /\ h.pc = "store" => h.op \in {"upload", "start", "complete"}
    /\ h.pc \in {"source", "folder", "tasks", "row"} => h.op = "delete"
    /\ h.pc = "exists" => h.op \in {"reprocess", "faces"}
    /\ h.pc = "enqueue" => h.op \in {"upload", "complete", "reprocess", "faces"}
    /\ h.pc = "drop" => h.op = "ready"
    /\ h.pc \in {"save", "write"} => h.op # "delete"
    /\ h.op = "ready" => h.copy.status = "ready"
    /\ h.op \in {"upload", "complete"} /\ h.pc \in {"save", "write"}
           => h.copy.status = "processing"
    /\ h.op = "start" /\ h.pc \in {"save", "write"} => h.copy.status = "uploading"

\* What any handler knows of the row r, however long ago it read it.
HandlerFits(h, r) ==
    /\ IF Newborn(h) THEN h.copy.key \notin {NoKey, r.key}
                     ELSE h.copy.key \in {NoKey, r.key}
    /\ h.copy.tasks["transcode"].failed => Beyond(r)
    /\ h.op = "ready" => Beyond(r)
    /\ h.pc = "exists" => r.status # "draft"
    /\ h.pc = "enqueue" =>
          /\ r.status # "draft"
          /\ h.op \in {"upload", "complete"} \/ "transcode" \in h.todo => Beyond(r)
    /\ h.pc = "drop" => r.status \in Watchable /\ h.copy.key # NoKey

\* What it knows as long as nobody has written the row since.
FreshFits(h, r) ==
    /\ h.pc \notin {"idle", "error"}
    /\ ~Newborn(h) => h.copy.key = r.key
    /\ IF h.pc \in {"save", "write"}
       THEN RowFits(h.copy) /\ Follows(r.status, h.copy.status)
       ELSE h.copy.status = r.status
    /\ h.pc \in {"save", "write"} /\ h.copy.status = "processing" /\ ~Beyond(r)
           => h.op \in {"upload", "complete"}
    /\ h.op \in {"upload", "start"} /\ h.pc # "enqueue" => r.status = "draft"
    /\ h.op = "complete" /\ h.pc # "enqueue" => r.status = "uploading"
    /\ h.op = "delete" => r.status # "published"

\* A transcode reports "ready" last, and has succeeded when that was taken.
JobFits(t, transcode) ==
    /\ t.calls \in ReadyCalls => transcode
    /\ transcode /\ t.stage = "reporting" => t.calls \in ReadyCalls \union {<<>>}

\* The "ready" report of the handler h was refused, is under way or was taken.
Heard(h, r) == \/ h.pc = "error"
               \/ h.pc \in {"save", "write"} /\ h.op = "ready"
               \/ r.status \in Watchable

JobShows(t, h, r, transcode) ==
    /\ h.pc # "idle" => t.stage # "none"
    /\ t.stage # "none" => r.status # "draft" /\ (transcode => Beyond(r))
    /\ transcode /\ t.stage = "reporting" /\ t.calls = <<>> => Heard(h, r)
    /\ transcode /\ t.stage = "succeeded" => r.status \in Watchable

\* Some deletion has removed the source and not yet the row.
Undermined == \E p \in Procs : Undermines(p)
\* An upload whose object no row names yet.
NewUpload(h) == h.op = "upload" /\ h.pc \in {"save", "write"}

\* Nobody has written over a row he had not read: the row, the copies and the
\* tasks agree.
HandlersFit ==
    ~stale =>
      /\ RowFits(row)
      /\ \A p \in Procs : HandlerFits(hs[p], row)
      /\ \A p \in fresh : live /\ FreshFits(hs[p], row)

JobsShow ==
    ~stale => \A j \in JobIds : JobShows(job[j], hs[j], row, Transcode(j))

\* And nobody has left storage and row apart: they agree as well.
StorageFits ==
    Intact =>
      /\ \A f \in files : \/ live /\ f = row.key
                          \/ \E p \in Procs : NewUpload(hs[p]) /\ hs[p].copy.key = f
      /\ \A p \in Procs : NewUpload(hs[p]) => hs[p].copy.key \in files
      /\ live /\ row.status \in {"processing", "error"} => row.key \in files \/ Undermined
      /\ live /\ hls = "removed" => Undermined
      /\ \A p \in fresh : hs[p].pc \in {"folder", "tasks", "row"} => row.key \notin files
      /\ \A p \in fresh : hs[p].op = "complete" /\ hs[p].pc \in {"save", "write"}
                             => row.key \in files \/ Undermined

\* Two uploads never share a key.
KeysApart ==
    \A p, q \in Procs : Newborn(hs[p]) /\ Newborn(hs[q]) /\ p # q
                           => hs[p].copy.key # hs[q].copy.key

ReadsInv ==
    /\ \A p \in Procs : Shaped(hs[p])
    /\ \A j \in JobIds : JobFits(job[j], Transcode(j))
    /\ KeysApart
    /\ HandlersFit /\ JobsShow

OverlapInv == ReadsInv /\ StorageFits

-----------------------------------------------------------------------------
(* What a step does to the handler that makes it.                          *)

LEMMA TypesOf == IInv => /\ row \in RowType /\ live \in BOOLEAN
                         /\ files \subseteq Keys /\ multis \subseteq Keys
                         /\ hls \in {"none", "built", "removed"}
                         /\ job \in [JobIds -> JobType]
                         /\ hs \in [Procs -> HandlerType]
                         /\ fresh \subseteq Procs
BY DEF IInv, TypeOK

LEMMA TypesOfNext == IInv' => /\ row' \in RowType /\ job' \in [JobIds -> JobType]
                              /\ hs' \in [Procs -> HandlerType]
                              /\ fresh' \subseteq Procs
BY DEF IInv, TypeOK

LEMMA GotoReads ==
    ASSUME IInv, NEW p \in Procs, NEW pc, Goto(p, pc)
    PROVE  \E h : /\ hs' = [hs EXCEPT ![p] = h] /\ h.pc = pc /\ h.op = hs[p].op
                  /\ h.copy = hs[p].copy /\ h.todo = hs[p].todo
<1>1. hs \in [Procs -> HandlerType] /\ hs[p] \in HandlerType
  BY TypesOf
<1> WITNESS [hs[p] EXCEPT !.pc = pc]
<1> QED
  BY <1>1 DEF Goto, HandlerType

LEMMA StopReads ==
    ASSUME NEW p \in Procs, NEW pc, Stop(p, pc)
    PROVE  \E h : /\ hs' = [hs EXCEPT ![p] = h] /\ h.pc = pc /\ h.op = "none"
                  /\ h.copy = Draft
<1> WITNESS [Idle EXCEPT !.pc = pc]
<1> QED
  BY DEF Stop, Idle

\* The copy after an enqueue, and where the handler goes then.
Records(h, p, k, entry) ==
    /\ h.todo = hs[p].todo \ {k}
    /\ h.pc = IF h.todo = {} THEN "save" ELSE "enqueue"
    /\ h.op = IF h.todo = {} /\ hs[p].op \in {"upload", "complete"}
              THEN "finish" ELSE hs[p].op
    /\ h.copy.key = hs[p].copy.key
    /\ h.copy.status = IF /\ h.todo = {} /\ hs[p].op = "reprocess"
                          /\ hs[p].copy.status = "error"
                       THEN "processing" ELSE hs[p].copy.status
    /\ h.copy.tasks = [hs[p].copy.tasks EXCEPT ![k] = entry]

LEMMA RecordReads ==
    ASSUME IInv, NEW p \in Procs, NEW k \in TaskTypes, NEW entry \in EntryType,
           Record(p, k, entry)
    PROVE  \E h : hs' = [hs EXCEPT ![p] = h] /\ Records(h, p, k, entry)
<1>1. hs \in [Procs -> HandlerType] /\ hs[p].copy \in RowType
  BY TypesOf DEF HandlerType
<1> DEFINE left == hs[p].todo \ {k}
           pc == IF left = {} THEN "save" ELSE "enqueue"
           op == IF left = {} /\ hs[p].op \in {"upload", "complete"}
                 THEN "finish" ELSE hs[p].op
           status == IF left = {} /\ hs[p].op = "reprocess" /\ hs[p].copy.status = "error"
                     THEN "processing" ELSE hs[p].copy.status
           copy == [hs[p].copy EXCEPT !.tasks[k] = entry, !.status = status]
<1>2. hs' = [hs EXCEPT ![p] = [op |-> op, pc |-> pc, copy |-> copy, todo |-> left,
                               input |-> hs[p].input]]
  BY Zenon DEF Record
<1>3. /\ copy.key = hs[p].copy.key /\ copy.status = status
      /\ copy.tasks = [hs[p].copy.tasks EXCEPT ![k] = entry]
  BY <1>1 DEF RowType
<1> HIDE DEF left, pc, op, status, copy
<1> WITNESS [op |-> op, pc |-> pc, copy |-> copy, todo |-> left, input |-> hs[p].input]
<1> QED
  BY <1>2, <1>3 DEF left, pc, op, status, Records

\* The object or multipart upload is made and its key is in the copy.
LEMMA StoreReads ==
    ASSUME IInv, NEW p \in Procs, StoreNew(p)
    PROVE  \E h, key :
              /\ hs' = [hs EXCEPT ![p] = h]
              /\ key \in FreshKeys
              /\ h.pc = "save" /\ h.op = hs[p].op /\ h.op \in {"upload", "start"}
              /\ h.copy.key = key /\ h.copy.tasks = hs[p].copy.tasks
              /\ h.copy.status = IF h.op = "upload" THEN "processing" ELSE "uploading"
              /\ files' = IF h.op = "upload" THEN files \union {key} ELSE files
<1>1. hs \in [Procs -> HandlerType] /\ hs[p] \in HandlerType /\ hs[p].copy \in RowType
  BY TypesOf DEF HandlerType
<1>2. PICK key \in FreshKeys :
        /\ IF hs[p].op = "upload"
           THEN files' = files \union {key} /\ UNCHANGED multis
           ELSE multis' = multis \union {key} /\ UNCHANGED files
        /\ hs' = [hs EXCEPT ![p].pc = "save",
                            ![p].copy.key = key,
                            ![p].input = key,
                            ![p].copy.rotated = FALSE,
                            ![p].copy.status = IF hs[p].op = "upload"
                                               THEN "processing"
                                               ELSE "uploading"]
  BY DEF StoreNew
<1> DEFINE status == IF hs[p].op = "upload" THEN "processing" ELSE "uploading"
           copy == [hs[p].copy EXCEPT !.key = key, !.rotated = FALSE, !.status = status]
           h == [hs[p] EXCEPT !.pc = "save", !.copy = copy, !.input = key]
<1>3. hs' = [hs EXCEPT ![p] = h]
  BY <1>1, <1>2, ZenonT(60)
<1>4. copy.key = key /\ copy.tasks = hs[p].copy.tasks /\ copy.status = status
  BY <1>1 DEF RowType
<1> HIDE DEF copy, status
<1>5. h.pc = "save" /\ h.op = hs[p].op /\ h.copy = copy
  BY <1>1 DEF HandlerType
<1>6. hs[p].op \in {"upload", "start"}
  BY DEF StoreNew
<1> HIDE DEF h
<1> QED
  BY <1>2, <1>3, <1>4, <1>5, <1>6 DEF status

\* The parts are joined.
LEMMA CompleteReads ==
    ASSUME IInv, NEW p \in Procs, hs[p].op = "complete",
           hs' = [hs EXCEPT ![p].pc = "save", ![p].copy.status = "processing"]
    PROVE  \E h : /\ hs' = [hs EXCEPT ![p] = h]
                  /\ h.pc = "save" /\ h.op = "complete"
                  /\ h.copy.key = hs[p].copy.key /\ h.copy.tasks = hs[p].copy.tasks
                  /\ h.copy.status = "processing"
<1>1. hs \in [Procs -> HandlerType] /\ hs[p] \in HandlerType /\ hs[p].copy \in RowType
  BY TypesOf DEF HandlerType
<1> DEFINE copy == [hs[p].copy EXCEPT !.status = "processing"]
<1> WITNESS [hs[p] EXCEPT !.pc = "save", !.copy = copy]
<1> QED
  BY <1>1 DEF HandlerType, RowType

\* The source was looked for and found, or for faces the HLS.
LEMMA ExistsReads ==
    ASSUME IInv, NEW p \in Procs, SourceExists(p), hs'[p].pc = "enqueue"
    PROVE  \E h : /\ hs' = [hs EXCEPT ![p] = h]
                  /\ h.pc = "enqueue" /\ h.op = hs[p].op /\ h.copy = hs[p].copy
                  /\ h.todo = IF h.op = "faces" THEN {"faces"} ELSE Failed(h.copy)
<1>1. hs \in [Procs -> HandlerType] /\ hs[p] \in HandlerType
  BY TypesOf
<1> DEFINE input == IF hs[p].copy.key \in files THEN hs[p].copy.key ELSE NoKey
           todo == IF hs[p].op = "faces" THEN {"faces"} ELSE Failed(hs[p].copy)
           h == [hs[p] EXCEPT !.pc = "enqueue", !.input = input, !.todo = todo]
<1>2. hs' = [hs EXCEPT ![p].pc = "enqueue", ![p].input = input, ![p].todo = todo]
  <2>1. ~Return(p, "idle")
    BY <1>1 DEF Return, Stop, Idle
  <2> QED
    BY <2>1 DEF SourceExists
<1>3. hs' = [hs EXCEPT ![p] = h]
  BY <1>1, <1>2 DEF HandlerType
<1>4. h.pc = "enqueue" /\ h.op = hs[p].op /\ h.copy = hs[p].copy /\ h.todo = todo
  BY <1>1 DEF HandlerType
<1> HIDE DEF h
<1> QED
  BY <1>3, <1>4

\* The copy becomes the row.
LEMMA WriteReads ==
    ASSUME IInv, NEW p \in Procs, SaveWrite(p)
    PROVE  \E h : /\ hs' = [hs EXCEPT ![p] = h]
                  /\ h.pc = AfterWrite(p) /\ h.pc \in {"enqueue", "drop", "idle"}
                  /\ IF h.pc = "idle" THEN h.op = "none" /\ h.copy = Draft
                                      ELSE h.op = hs[p].op /\ h.copy = hs[p].copy
                  /\ fresh' = IF h.pc = "idle" THEN {} ELSE {p}
<1>1. hs \in [Procs -> HandlerType] /\ hs[p] \in HandlerType
  BY TypesOf
<1>2. AfterWrite(p) \in {"enqueue", "drop", "idle"}
  BY DEF AfterWrite
<1>3. CASE AfterWrite(p) = "enqueue"
  <2>1. hs' = [hs EXCEPT ![p].pc = "enqueue", ![p].todo = TaskTypes] /\ fresh' = {p}
    BY <1>3 DEF SaveWrite
  <2> WITNESS [hs[p] EXCEPT !.pc = "enqueue", !.todo = TaskTypes]
  <2> QED
    BY <1>1, <1>3, <2>1 DEF HandlerType
<1>4. CASE AfterWrite(p) = "drop"
  BY <1>4, GotoReads DEF SaveWrite
<1>5. CASE AfterWrite(p) = "idle"
  BY <1>5, StopReads DEF SaveWrite
<1> QED
  BY <1>2, <1>3, <1>4, <1>5

\* A task that is run again, or not.
LEMMA AgainReads ==
    ASSUME NEW t \in JobType, NEW last
    PROVE  Again(t, last).stage \in {"queued", last} /\ Again(t, last).calls = <<>>
<1>1. CASE t.reruns > 0
  BY <1>1 DEF Again, JobType
<1>2. CASE ~(t.reruns > 0)
  BY <1>2 DEF Again, JobType
<1> QED
  BY <1>1, <1>2

\* What a request or report changes in the copy before it is written.
LEMMA EditsOf ==
    ASSUME NEW r \in RowType, NEW op, NEW k, Allowed(op, r)
    PROVE  /\ Edited(op, r, k).key = r.key
           /\ op \notin {"update", "publish", "unpublish", "ready", "failure",
                           "started", "progress"}
                 => Edited(op, r, k) = r
           /\ op \in {"update", "started", "progress"} => Edited(op, r, k).status = r.status
           /\ op = "publish" => r.status = "ready" /\ Edited(op, r, k).status = "published"
           /\ op = "unpublish" => r.status = "published" /\ Edited(op, r, k).status = "ready"
           /\ op = "ready" => Edited(op, r, k).status = "ready"
           /\ op = "failure" => Edited(op, r, k).status =
                 IF k = "transcode" /\ r.status = "processing" THEN "error" ELSE r.status
           /\ Edited(op, r, k).tasks["transcode"].failed =>
                 r.tasks["transcode"].failed \/ (op = "failure" /\ k = "transcode")
<1>1. "transcode" \in TaskTypes /\ r.tasks \in [TaskTypes -> EntryType]
  BY LifecycleConstants DEF RowType, EntryType
<1>2. CASE op = "failure"
  <2>1. /\ MarkFailed(r, k).key = r.key
        /\ MarkFailed(r, k).status =
             IF k = "transcode" /\ r.status = "processing" THEN "error" ELSE r.status
    BY DEF MarkFailed, RowType
  <2> DEFINE entry == [r.tasks[k] EXCEPT !.there = TRUE, !.failed = TRUE]
  <2>2. MarkFailed(r, k).tasks = [r.tasks EXCEPT ![k] = entry]
    BY DEF MarkFailed, RowType
  <2>3. k = "transcode" => entry.failed
    BY <1>1 DEF EntryType
  <2> HIDE DEF entry
  <2>4. MarkFailed(r, k).tasks["transcode"] =
            IF k = "transcode" THEN entry ELSE r.tasks["transcode"]
    BY <1>1, <2>2
  <2> QED
    BY <1>2, <2>1, <2>3, <2>4 DEF Edited
<1>3. CASE op \in {"started", "progress"}
  <2>1. /\ MarkStarted(r, k).key = r.key /\ MarkDone(r, k).key = r.key
        /\ MarkStarted(r, k).status = r.status /\ MarkDone(r, k).status = r.status
        /\ MarkDone(r, k).tasks = MarkStarted(r, k).tasks
    BY DEF MarkStarted, MarkDone, RowType
  <2> DEFINE entry == [r.tasks[k] EXCEPT !.there = TRUE, !.failed = FALSE]
  <2>2. MarkStarted(r, k).tasks = [r.tasks EXCEPT ![k] = entry]
    BY DEF MarkStarted, RowType
  <2>3. k = "transcode" => ~entry.failed
    BY <1>1 DEF EntryType
  <2> HIDE DEF entry
  <2>4. MarkStarted(r, k).tasks["transcode"] =
            IF k = "transcode" THEN entry ELSE r.tasks["transcode"]
    BY <1>1, <2>2
  <2> QED
    BY <1>3, <2>1, <2>3, <2>4 DEF Edited
<1>4. CASE op \notin {"failure", "started", "progress"}
  BY <1>4 DEF Edited, Allowed, RowType
<1> QED
  BY <1>2, <1>3, <1>4

LEMMA BeginReads ==
    ASSUME NEW p \in Procs, NEW op, NEW k, Begin(p, op, k)
    PROVE  \E h : /\ hs' = [hs EXCEPT ![p] = h]
                  /\ h.op = op /\ h.pc = FirstStep(op) /\ h.copy = Edited(op, row, k)
                  /\ h.todo = {}
<1> WITNESS [op |-> op, pc |-> FirstStep(op), copy |-> Edited(op, row, k), todo |-> {},
             input |-> row.key]
<1> QED
  BY DEF Begin

\* A task moves to another stage.
LEMMA JobMovesReads ==
    ASSUME IInv, NEW j \in JobIds, NEW stage, NEW calls, JobMoves(j, stage, calls)
    PROVE  /\ \A i \in JobIds : i # j => job'[i] = job[i]
           /\ job'[j].stage = stage /\ job'[j].calls = calls
BY TypesOf DEF JobMoves, JobType

-----------------------------------------------------------------------------
(* A handler moves, the row stays.                                         *)

\* Handler p becomes h, which fits the row as it is.
Sits(p, h) ==
    /\ hs' = [hs EXCEPT ![p] = h]
    /\ Shaped(h)
    /\ ~stale => HandlerFits(h, row)
    /\ ~stale /\ p \in fresh' => live /\ FreshFits(h, row)
    /\ \A q \in Procs : q # p /\ Newborn(h) /\ Newborn(hs[q]) => hs[q].copy.key # h.copy.key

\* The row stays, and nobody else has read it.
RowStays(p) ==
    /\ row' = row /\ fresh' \subseteq fresh \union {p}
    /\ ~stale' => ~stale
    /\ live' = live \/ fresh' = {}

LEMMA HandlersMove ==
    ASSUME IInv, ReadsInv, NEW p \in Procs, NEW h, Sits(p, h), RowStays(p)
    PROVE  (\A q \in Procs : Shaped(hs[q]))' /\ KeysApart' /\ HandlersFit'
<1>1. hs \in [Procs -> HandlerType] /\ fresh \subseteq Procs
  BY TypesOf
<1>2. hs'[p] = h /\ \A q \in Procs : q # p => hs'[q] = hs[q]
  BY <1>1 DEF Sits
<1>3. \A q \in Procs : Shaped(hs'[q])
  BY <1>2 DEF Sits, ReadsInv
<1>4. KeysApart'
  BY <1>2 DEF Sits, ReadsInv, KeysApart
<1>5. ASSUME ~stale'
      PROVE  /\ RowFits(row')
             /\ \A q \in Procs : HandlerFits(hs'[q], row')
             /\ \A q \in fresh' : live' /\ FreshFits(hs'[q], row')
  <2>1. /\ ~stale /\ RowFits(row)
        /\ \A q \in Procs : HandlerFits(hs[q], row)
        /\ \A q \in fresh : live /\ FreshFits(hs[q], row)
    BY <1>5 DEF RowStays, ReadsInv, HandlersFit
  <2>2. \A q \in fresh' : q # p => q \in fresh
    BY DEF RowStays
  <2> QED
    BY <1>1, <1>2, <2>1, <2>2 DEF Sits, RowStays
<1> QED
  BY <1>3, <1>4, <1>5 DEF HandlersFit

\* A task that is queued or run again has nothing to report.
TasksStay ==
    \A j \in JobIds :
        \/ job'[j] = job[j]
        \/ /\ job'[j].stage \notin {"none", "reporting", "succeeded"} /\ job'[j].calls \notin ReadyCalls
           /\ \/ job[j].stage # "none"
              \/ ~stale => row.status # "draft" /\ (Transcode(j) => Beyond(row))

\* What became of a "ready" report stays heard.
LEMMA TasksMove ==
    ASSUME IInv, ReadsInv, NEW p \in Procs, NEW h, hs' = [hs EXCEPT ![p] = h],
           row' = row, ~stale' => ~stale, TasksStay, p \in JobIds => hs[p].pc # "idle",
           p \in JobIds /\ ~stale /\ Heard(hs[p], row) => Heard(h, row)
    PROVE  (\A j \in JobIds : JobFits(job[j], Transcode(j)))' /\ JobsShow'
<1>1. hs \in [Procs -> HandlerType]
  BY TypesOf
<1>2. hs'[p] = h /\ \A q \in Procs : q # p => hs'[q] = hs[q]
  BY <1>1
<1>3. \A j \in JobIds : j \in Procs
  BY DEF Procs
<1>4. ASSUME ~stale', NEW j \in JobIds
      PROVE  JobShows(job'[j], hs'[j], row', Transcode(j))
  <2>1. JobShows(job[j], hs[j], row, Transcode(j)) /\ ~stale
    BY <1>4 DEF ReadsInv, JobsShow
  <2>2. /\ Heard(hs[j], row) => Heard(hs'[j], row)
        /\ hs'[j].pc # "idle" => hs[j].pc # "idle"
    BY <1>2, <1>3, <2>1
  <2>3. CASE job'[j] = job[j]
    BY <2>1, <2>2, <2>3 DEF JobShows
  <2>4. CASE job'[j] # job[j]
    BY <2>1, <2>4 DEF JobShows, TasksStay
  <2> QED
    BY <2>3, <2>4
<1>5. ASSUME NEW j \in JobIds PROVE JobFits(job'[j], Transcode(j))
  BY DEF ReadsInv, TasksStay, JobFits
<1> QED
  BY <1>4, <1>5 DEF JobsShow, Transcode

\* The two together.
LEMMA ReadsMove ==
    ASSUME IInv, ReadsInv, NEW p \in Procs, NEW h, Sits(p, h), RowStays(p), TasksStay,
           p \in JobIds => hs[p].pc # "idle",
           p \in JobIds /\ ~stale /\ Heard(hs[p], row) => Heard(h, row)
    PROVE  ReadsInv'
BY HandlersMove, TasksMove DEF Sits, RowStays, ReadsInv

\* A handler that returns knows nothing.
LEMMA StopSits ==
    ASSUME IInv, ReadsInv, NEW p \in Procs, NEW pc \in {"idle", "error"}, Stop(p, pc),
           p \notin fresh'
    PROVE  \E h : Sits(p, h) /\ h.pc = pc /\ h.op = "none"
<1>1. PICK h : /\ hs' = [hs EXCEPT ![p] = h] /\ h.pc = pc /\ h.op = "none"
               /\ h.copy = Draft
  BY StopReads
<1>2. Draft.key = NoKey /\ ~Draft.tasks["transcode"].failed
  BY LifecycleConstants DEF Draft, NoEntry
<1>3. Shaped(h) /\ ~Newborn(h) /\ HandlerFits(h, row)
  BY <1>1, <1>2 DEF Shaped, Newborn, HandlerFits
<1> QED
  BY <1>1, <1>3 DEF Sits

LEMMA GotoSits ==
    ASSUME IInv, ReadsInv, NEW p \in Procs, NEW pc, Goto(p, pc), fresh' = fresh,
           \/ hs[p].pc = "save" /\ pc = "write"
           \/ hs[p].pc \in {"source", "folder", "tasks"} /\ pc \in {"folder", "tasks", "row"}
    PROVE  \E h : /\ Sits(p, h) /\ h.pc = pc /\ h.op = hs[p].op
                  /\ h.copy = hs[p].copy
<1>1. PICK h : /\ hs' = [hs EXCEPT ![p] = h] /\ h.pc = pc /\ h.op = hs[p].op
               /\ h.copy = hs[p].copy /\ h.todo = hs[p].todo
  BY GotoReads
<1>2. Shaped(hs[p]) /\ (~stale => HandlerFits(hs[p], row))
      /\ (~stale /\ p \in fresh => live /\ FreshFits(hs[p], row))
  BY DEF ReadsInv, HandlersFit
<1>3. Newborn(h) <=> Newborn(hs[p])
  BY <1>1, <1>2 DEF Newborn
<1>4. Shaped(h)
  BY <1>1, <1>2 DEF Shaped
<1>5. ~stale => HandlerFits(h, row)
  BY <1>1, <1>2, <1>3 DEF HandlerFits
<1>6. ~stale /\ p \in fresh => live /\ FreshFits(h, row)
  BY <1>1, <1>2, <1>3 DEF FreshFits
<1>7. \A q \in Procs : q # p /\ Newborn(h) /\ Newborn(hs[q]) => hs[q].copy.key # h.copy.key
  BY <1>1, <1>3 DEF ReadsInv, KeysApart
<1> QED
  BY <1>1, <1>4, <1>5, <1>6, <1>7 DEF Sits

\* Recording an enqueue, and finding the source.
LEMMA RecordSits ==
    ASSUME IInv, ReadsInv, NEW p \in Procs, NEW k \in TaskTypes, NEW entry \in EntryType,
           ~entry.failed, hs[p].pc = "enqueue", Record(p, k, entry), fresh' = fresh
    PROVE  \E h : /\ Sits(p, h) /\ h.pc \in {"save", "enqueue"} /\ ~NewUpload(h)
                  /\ h.op \in {"delete", "complete"} => h.pc = "enqueue"
<1>1. PICK h : hs' = [hs EXCEPT ![p] = h] /\ Records(h, p, k, entry)
  BY RecordReads
<1>2. Shaped(hs[p]) /\ (~stale => RowFits(row) /\ HandlerFits(hs[p], row))
      /\ (~stale /\ p \in fresh => live /\ FreshFits(hs[p], row))
  BY DEF ReadsInv, HandlersFit
<1>3. hs[p].op \in {"upload", "complete", "reprocess", "faces"}
  BY <1>2 DEF Shaped
<1>4. /\ h.pc \in {"save", "enqueue"}
      /\ h.op \in {"upload", "complete", "finish", "reprocess", "faces"}
      /\ h.op \in {"upload", "complete"} => h.pc = "enqueue"
      /\ h.copy.key = hs[p].copy.key
      /\ h.copy.status = hs[p].copy.status \/ h.copy.status = "processing"
      /\ h.pc = "enqueue" => h.op = hs[p].op /\ h.copy.status = hs[p].copy.status
                             /\ h.todo \subseteq hs[p].todo
      /\ \/ h.copy.status = hs[p].copy.status
         \/ h.copy.status = "processing" /\ hs[p].copy.status = "error"
  BY <1>1, <1>3 DEF Records
<1>5. h.copy.tasks["transcode"].failed => hs[p].copy.tasks["transcode"].failed
  <2>1. "transcode" \in TaskTypes /\ hs[p].copy.tasks \in [TaskTypes -> EntryType]
    BY LifecycleConstants, TypesOf DEF HandlerType, RowType, EntryType
  <2>2. h.copy.tasks = [hs[p].copy.tasks EXCEPT ![k] = entry]
    BY <1>1 DEF Records
  <2> QED
    BY <2>1, <2>2
<1>6. ~Newborn(h) /\ ~Newborn(hs[p])
  BY <1>4 DEF Newborn
<1>7. Shaped(h)
  BY <1>3, <1>4 DEF Shaped
<1>8. ~stale => HandlerFits(h, row)
  BY <1>2, <1>4, <1>5, <1>6 DEF HandlerFits
<1>9. ~stale /\ p \in fresh => live /\ FreshFits(h, row)
  <2> SUFFICES ASSUME ~stale, p \in fresh PROVE FreshFits(h, row)
    BY <1>2
  <2>1. hs[p].copy.status = row.status /\ hs[p].copy.key = row.key /\ row.status # "draft"
    BY <1>2, <1>6 DEF HandlerFits, FreshFits
  <2>2. RowFits(h.copy)
    BY <1>2, <1>4, <1>5, <2>1 DEF RowFits, HandlerFits, Beyond
  <2>3. Follows(row.status, h.copy.status)
    BY <1>4, <2>1 DEF Follows
  <2>4. h.copy.status = "processing" => Beyond(row)
    BY <1>4, <2>1 DEF Beyond
  <2> QED
    BY <1>4, <1>6, <2>1, <2>2, <2>3, <2>4 DEF FreshFits
<1> QED
  BY <1>1, <1>4, <1>6, <1>7, <1>8, <1>9 DEF Sits, NewUpload

LEMMA ExistsSits ==
    ASSUME IInv, ReadsInv, NEW p \in Procs, SourceExists(p), hs'[p].pc = "enqueue", fresh' = fresh
    PROVE  \E h : Sits(p, h) /\ h.pc = "enqueue"
<1>1. PICK h : /\ hs' = [hs EXCEPT ![p] = h]
               /\ h.pc = "enqueue" /\ h.op = hs[p].op /\ h.copy = hs[p].copy
               /\ h.todo = IF h.op = "faces" THEN {"faces"} ELSE Failed(h.copy)
  BY ExistsReads
<1>2. Shaped(hs[p]) /\ (~stale => HandlerFits(hs[p], row)) /\ hs[p].pc = "exists"
      /\ (~stale /\ p \in fresh => live /\ FreshFits(hs[p], row))
  BY DEF ReadsInv, HandlersFit, SourceExists
<1>3. h.op \in {"reprocess", "faces"} /\ ~Newborn(h) /\ ~Newborn(hs[p])
  BY <1>1, <1>2 DEF Shaped, Newborn
<1>4. Shaped(h)
  BY <1>1, <1>3 DEF Shaped
<1>5. "transcode" \in h.todo => h.copy.tasks["transcode"].failed
  BY <1>1 DEF Failed
<1>6. ~stale => HandlerFits(h, row)
  BY <1>1, <1>2, <1>3, <1>5 DEF HandlerFits
<1>7. ~stale /\ p \in fresh => live /\ FreshFits(h, row)
  BY <1>1, <1>2, <1>3 DEF FreshFits
<1> QED
  BY <1>1, <1>3, <1>4, <1>6, <1>7 DEF Sits

\* A new key belongs to nobody else.
LEMMA StoreSits ==
    ASSUME IInv, ReadsInv, NEW p \in Procs, StoreNew(p)
    PROVE  \E h : /\ Sits(p, h) /\ h.pc = "save" /\ h.op = hs[p].op
                  /\ h.op \in {"upload", "start"} /\ h.copy.key \in FreshKeys
                  /\ files' = IF h.op = "upload" THEN files \union {h.copy.key} ELSE files
<1>1. PICK h, key :
              /\ hs' = [hs EXCEPT ![p] = h]
              /\ key \in FreshKeys
              /\ h.pc = "save" /\ h.op = hs[p].op /\ h.op \in {"upload", "start"}
              /\ h.copy.key = key /\ h.copy.tasks = hs[p].copy.tasks
              /\ h.copy.status = IF h.op = "upload" THEN "processing" ELSE "uploading"
              /\ files' = IF h.op = "upload" THEN files \union {key} ELSE files
  BY StoreReads
<1>2. /\ (~stale => HandlerFits(hs[p], row)) /\ hs[p].pc = "store" /\ fresh' = fresh
      /\ (~stale /\ p \in fresh => live /\ FreshFits(hs[p], row))
  BY DEF ReadsInv, HandlersFit, StoreNew, historyVars
<1>3. /\ key # NoKey /\ key # row.key /\ Newborn(h)
      /\ \A q \in Procs : hs[q].copy.key # key
  BY <1>1, LifecycleConstants DEF FreshKeys, Newborn
<1>4. Shaped(h)
  BY <1>1 DEF Shaped
<1>5. ~stale => HandlerFits(h, row)
  BY <1>1, <1>2, <1>3 DEF HandlerFits
<1>6. ~stale /\ p \in fresh => live /\ FreshFits(h, row)
  <2> SUFFICES ASSUME ~stale, p \in fresh PROVE FreshFits(h, row)
    BY <1>2
  <2>1. row.status = "draft" /\ ~h.copy.tasks["transcode"].failed
    BY <1>1, <1>2 DEF FreshFits, HandlerFits, Beyond
  <2>2. RowFits(h.copy) /\ Follows(row.status, h.copy.status)
    BY <1>1, <1>3, <2>1 DEF RowFits, Follows
  <2> QED
    BY <1>1, <1>3, <2>1, <2>2 DEF FreshFits
<1>7. Sits(p, h)
  BY <1>1, <1>2, <1>3, <1>4, <1>5, <1>6 DEF Sits
<1> QED
  BY <1>1, <1>7

LEMMA CompleteSits ==
    ASSUME IInv, ReadsInv, NEW p \in Procs, hs[p].pc = "store", hs[p].op = "complete",
           hs' = [hs EXCEPT ![p].pc = "save", ![p].copy.status = "processing"],
           fresh' = fresh
    PROVE  \E h : /\ Sits(p, h) /\ h.pc = "save" /\ h.op = "complete"
                  /\ h.copy.key = hs[p].copy.key
<1>1. PICK h : /\ hs' = [hs EXCEPT ![p] = h]
               /\ h.pc = "save" /\ h.op = "complete"
               /\ h.copy.key = hs[p].copy.key /\ h.copy.tasks = hs[p].copy.tasks
               /\ h.copy.status = "processing"
  BY CompleteReads
<1>2. /\ (~stale => RowFits(row) /\ HandlerFits(hs[p], row))
      /\ (~stale /\ p \in fresh => live /\ FreshFits(hs[p], row))
  BY DEF ReadsInv, HandlersFit
<1>3. ~Newborn(h) /\ ~Newborn(hs[p])
  BY <1>1 DEF Newborn
<1>4. Shaped(h)
  BY <1>1 DEF Shaped
<1>5. ~stale => HandlerFits(h, row)
  BY <1>1, <1>2, <1>3 DEF HandlerFits
<1>6. ~stale /\ p \in fresh => live /\ FreshFits(h, row)
  <2> SUFFICES ASSUME ~stale, p \in fresh PROVE FreshFits(h, row)
    BY <1>2
  <2>1. row.status = "uploading" /\ h.copy.key = row.key
    BY <1>1, <1>2, <1>3 DEF FreshFits
  <2>2. RowFits(h.copy) /\ Follows(row.status, h.copy.status)
    BY <1>1, <1>2, <2>1 DEF RowFits, Follows, Beyond
  <2> QED
    BY <1>1, <1>3, <2>1, <2>2 DEF FreshFits
<1> QED
  BY <1>1, <1>3, <1>4, <1>5, <1>6 DEF Sits

\* A report comes of a task that the row has long been past.
LEMMA BeginSits ==
    ASSUME IInv, ReadsInv, NEW p \in Procs, NEW op \in OwnerOps \union Reports, NEW k,
           Begin(p, op, k),
           op \in Reports /\ ~stale => row.status # "draft",
           op = "ready" \/ (op = "failure" /\ k = "transcode") => (~stale => Beyond(row))
    PROVE  \E h : /\ Sits(p, h) /\ h.op = op /\ h.pc = FirstStep(op)
                  /\ h.pc \in {"store", "source", "exists", "save"}
                  /\ h.pc = "save" => op \notin {"upload", "complete", "delete"}
<1>1. PICK h : /\ hs' = [hs EXCEPT ![p] = h]
               /\ h.op = op /\ h.pc = FirstStep(op) /\ h.copy = Edited(op, row, k)
               /\ h.todo = {}
  BY BeginReads
<1>2. live /\ Allowed(op, row) /\ row \in RowType /\ (~stale => RowFits(row))
  BY TypesOf DEF Begin, ReadsInv, HandlersFit
<1> DEFINE copy == Edited(op, row, k)
<1>3. /\ copy.key = row.key
      /\ op \notin {"update", "publish", "unpublish", "ready", "failure", "started", "progress"}
            => copy = row
      /\ op \in {"update", "started", "progress"} => copy.status = row.status
      /\ op = "publish" => row.status = "ready" /\ copy.status = "published"
      /\ op = "unpublish" => row.status = "published" /\ copy.status = "ready"
      /\ op = "ready" => copy.status = "ready"
      /\ op = "failure" => copy.status =
            IF k = "transcode" /\ row.status = "processing" THEN "error" ELSE row.status
      /\ copy.tasks["transcode"].failed =>
            row.tasks["transcode"].failed \/ (op = "failure" /\ k = "transcode")
  BY <1>2, EditsOf
<1>4. h.copy = copy
  BY <1>1
<1> HIDE DEF copy
<1>5. FirstStep(op) = IF op \in {"upload", "start", "complete"} THEN "store"
                      ELSE IF op = "delete" THEN "source"
                      ELSE IF op \in {"reprocess", "faces"} THEN "exists" ELSE "save"
  BY DEF FirstStep
<1>6. ~Newborn(h)
  BY <1>1, <1>5 DEF Newborn
<1>7. Shaped(h)
  BY <1>1, <1>3, <1>4, <1>5 DEF Shaped
<1>8. ~stale /\ copy.tasks["transcode"].failed => Beyond(row)
  BY <1>2, <1>3 DEF RowFits
<1>9. ~stale /\ op \in {"reprocess", "faces"} => row.status # "draft"
  BY <1>2 DEF Allowed, RowFits
<1>10. ~stale => HandlerFits(h, row)
  BY <1>1, <1>3, <1>4, <1>5, <1>6, <1>8, <1>9 DEF HandlerFits
<1>11. ~stale => FreshFits(h, row)
  <2> SUFFICES ASSUME ~stale PROVE FreshFits(h, row)
    OBVIOUS
  <2>1. CASE FirstStep(op) = "save"
    <3>1. op \in {"update", "publish", "unpublish"} \union Reports
      BY <1>5, <2>1 DEF OwnerOps
    <3>2. Follows(row.status, copy.status)
      <4>1. row.status \in Statuses
        BY <1>2 DEF RowType
      <4> QED
        BY <1>3, <3>1, <4>1 DEF Follows, Beyond, Reports, Statuses
    <3>3. copy.status = "draft" <=> row.status = "draft"
      BY <1>3, <3>1 DEF Beyond, Reports
    <3>4. Beyond(row) => Beyond(copy)
      BY <1>3, <3>1 DEF Beyond, Reports
    <3>5. RowFits(copy)
      BY <1>2, <1>3, <1>8, <3>3, <3>4 DEF RowFits
    <3>6. copy.status = "processing" => Beyond(row)
      BY <1>3, <3>1 DEF Beyond, Reports
    <3> QED
      BY <1>1, <1>3, <1>4, <1>5, <1>6, <2>1, <3>1, <3>2, <3>5, <3>6 DEF FreshFits, Reports
  <2>2. CASE FirstStep(op) # "save"
    <3>1. op \in {"upload", "start", "complete", "delete", "reprocess", "faces"}
      BY <1>5, <2>2
    <3>2. copy = row
      BY <1>3, <3>1
    <3>3. /\ op \in {"upload", "start"} => row.status = "draft"
          /\ op = "complete" => row.status = "uploading"
          /\ op = "delete" => row.status # "published"
      BY <1>2 DEF Allowed
    <3> QED
      BY <1>1, <1>4, <1>5, <1>6, <2>2, <3>2, <3>3 DEF FreshFits
  <2> QED
    BY <2>1, <2>2
<1> QED
  BY <1>1, <1>2, <1>5, <1>6, <1>7, <1>10, <1>11 DEF Sits

-----------------------------------------------------------------------------
(* The row, the copies and the tasks agree: one lemma per kind of step.    *)

LEMMA ReadsInit == Init => ReadsInv
<1> SUFFICES ASSUME Init PROVE ReadsInv
  OBVIOUS
<1>1. \A p \in Procs : hs[p] = Idle
  BY DEF Init
<1>2. /\ Draft.key = NoKey /\ ~Draft.tasks["transcode"].failed /\ Draft.status = "draft"
      /\ row = Draft
  BY LifecycleConstants DEF Draft, NoEntry, Init
<1>3. Shaped(Idle) /\ ~Newborn(Idle) /\ HandlerFits(Idle, Draft) /\ RowFits(Draft)
  BY <1>2 DEF Idle, Shaped, Newborn, HandlerFits, RowFits
<1>4. \A j \in JobIds : job[j].stage = "none" /\ job[j].calls = <<>>
  BY DEF Init
<1>5. \A j \in JobIds : JobFits(job[j], Transcode(j)) /\ JobShows(job[j], hs[j], row, Transcode(j))
  BY <1>1, <1>4, CallsApart DEF JobFits, JobShows, Idle, Procs
<1>6. fresh = {}
  BY DEF Init
<1> QED
  BY <1>1, <1>2, <1>3, <1>5, <1>6 DEF ReadsInv, KeysApart, HandlersFit, JobsShow

\* Returning, with nothing left to be heard.
LEMMA StopKeeps ==
    ASSUME IInv, ReadsInv, NEW p \in Procs, NEW pc \in {"idle", "error"}, Stop(p, pc),
           p \notin fresh', RowStays(p), TasksStay,
           p \in JobIds => hs[p].pc # "idle",
           \/ pc = "error" \/ p \notin JobIds \/ hs[p].pc \notin {"error", "save", "write"}
    PROVE  ReadsInv'
<1>1. PICK h : Sits(p, h) /\ h.pc = pc
  BY StopSits
<1>2. p \in JobIds /\ ~stale /\ Heard(hs[p], row) => Heard(h, row)
  BY <1>1 DEF Heard
<1> QED
  BY <1>1, <1>2, ReadsMove

LEMMA ReturnKeeps ==
    ASSUME IInv, ReadsInv, NEW p \in Procs, NEW pc \in {"idle", "error"}, Return(p, pc),
           row' = row, live' = live, ~stale' => ~stale, TasksStay,
           p \in JobIds => hs[p].pc # "idle",
           \/ pc = "error" \/ p \notin JobIds \/ hs[p].pc \notin {"error", "save", "write"}
    PROVE  ReadsInv'
BY StopKeeps DEF Return, RowStays

LEMMA StoreKeeps ==
    ASSUME IInv, ReadsInv, NEW p \in Procs, StoreNew(p) \/ StoreComplete(p) \/ StoreRefused(p)
    PROVE  ReadsInv'
<1>1. /\ row' = row /\ live' = live /\ job' = job /\ stale' = stale
      /\ hs[p].pc = "store"
  BY DEF StoreNew, StoreComplete, StoreRefused, historyVars
<1>2. TasksStay /\ (fresh' = fresh => RowStays(p))
  BY <1>1 DEF TasksStay, RowStays
<1>3. CASE Return(p, "idle")
  BY <1>1, <1>2, <1>3, ReturnKeeps
<1>4. CASE StoreNew(p)
  <2>1. PICK h : Sits(p, h)
    BY <1>4, StoreSits
  <2>2. fresh' = fresh
    BY <1>4 DEF StoreNew, historyVars
  <2>3. Heard(hs[p], row) => Heard(h, row)
    BY <1>1 DEF Heard
  <2> QED
    BY <1>1, <1>2, <2>1, <2>2, <2>3, ReadsMove
<1>5. CASE /\ StoreComplete(p) /\ fresh' = fresh
           /\ hs' = [hs EXCEPT ![p].pc = "save", ![p].copy.status = "processing"]
  <2>1. PICK h : Sits(p, h)
    BY <1>5, CompleteSits DEF StoreComplete
  <2>2. Heard(hs[p], row) => Heard(h, row)
    BY <1>1 DEF Heard
  <2> QED
    BY <1>1, <1>2, <1>5, <2>1, <2>2, ReadsMove
<1> QED
  BY <1>3, <1>4, <1>5 DEF StoreComplete, StoreRefused

LEMMA SaveKeeps ==
    ASSUME IInv, ReadsInv, NEW p \in Procs, SaveCheck(p) \/ SaveFails(p) \/ SaveFailsDirty(p)
    PROVE  ReadsInv'
<1>1. row' = row /\ live' = live /\ job' = job /\ stale' = stale
  BY DEF SaveCheck, SaveFails, SaveFailsDirty, historyVars
<1>2. TasksStay /\ (fresh' = fresh => RowStays(p))
  BY <1>1 DEF TasksStay, RowStays
<1>3. CASE SaveCheck(p)
  <2>1. hs[p].pc = "save" /\ Goto(p, "write") /\ fresh' = fresh
    BY <1>3 DEF SaveCheck, historyVars
  <2>2. PICK h : Sits(p, h) /\ h.pc = "write" /\ h.op = hs[p].op
    BY <2>1, GotoSits
  <2>3. Heard(hs[p], row) => Heard(h, row)
    BY <2>1, <2>2 DEF Heard
  <2> QED
    BY <1>2, <2>1, <2>2, <2>3, ReadsMove
<1>4. CASE SaveFails(p) \/ SaveFailsDirty(p)
  <2>1. Return(p, Refused(p)) /\ Refused(p) \in {"idle", "error"}
        /\ (Refused(p) = "error" \/ p \notin JobIds) /\ hs[p].pc # "idle"
    BY <1>4 DEF SaveFails, SaveFailsDirty, SaveRefused, Refused
  <2> QED
    BY <1>1, <1>2, <2>1, ReturnKeeps
<1> QED
  BY <1>3, <1>4

\* A task goes on the queue only when the row is past what it works on.
LEMMA QueueKeeps ==
    ASSUME IInv, ReadsInv, NEW p \in Procs,
           Enqueue(p) \/ EnqueueFails(p) \/ SourceExists(p)
    PROVE  ReadsInv'
<1>1. /\ row' = row /\ live' = live /\ stale' = stale
      /\ hs[p].pc \in {"enqueue", "exists"}
      /\ Shaped(hs[p]) /\ (~stale => HandlerFits(hs[p], row))
      /\ job \in [JobIds -> JobType] /\ hs[p] \in HandlerType
  BY TypesOf DEF Enqueue, EnqueueFails, SourceExists, historyVars, ReadsInv, HandlersFit
<1>2. job' = job => TasksStay
  BY DEF TasksStay
<1>3. fresh' = fresh => RowStays(p)
  BY <1>1 DEF RowStays
<1> DEFINE k == NextType(hs[p].todo)
<1>4. hs[p].pc = "enqueue" => k \in hs[p].todo /\ k \in TaskTypes
  BY <1>1, NextTypeLeft DEF IInv, TypeOK, HandlerType
<1>5. ASSUME hs[p].pc = "enqueue", NEW j \in FreeIds(p, k), Stores(p, j) PROVE TasksStay /\ j \in JobIds
  <2>1. j \in JobIds /\ j[1] = k
    BY <1>4, <1>5, LifecycleConstants DEF FreeIds, JobIds
  <2>2. ~stale => row.status # "draft" /\ (Transcode(j) => Beyond(row))
    BY <1>1, <1>4, <1>5, <2>1 DEF HandlerFits, Transcode
  <2>3. /\ job'[j].stage = "queued" /\ job'[j].calls = <<>>
        /\ \A i \in JobIds : i # j => job'[i] = job[i]
    BY <1>1, <1>5, <2>1 DEF Stores
  <2> QED
    BY <2>1, <2>2, <2>3, CallsApart DEF TasksStay
<1>6. ASSUME hs[p].pc = "enqueue", NEW entry \in EntryType, ~entry.failed,
             Record(p, k, entry), fresh' = fresh, TasksStay
      PROVE  ReadsInv'
  <2>1. PICK h : Sits(p, h)
    BY <1>4, <1>6, RecordSits
  <2>2. Heard(hs[p], row) => Heard(h, row)
    BY <1>6 DEF Heard
  <2> QED
    BY <1>3, <1>6, <2>1, <2>2, ReadsMove
<1>7. ASSUME NEW id \in JobIds \union {NoJob} PROVE Entry(id) \in EntryType /\ ~Entry(id).failed
  BY EntryTypes DEF Entry
<1>8. CASE Enqueue(p)
  <2>1. PICK j \in FreeIds(p, k) : Stores(p, j) /\ Record(p, k, Entry(j))
    BY <1>8 DEF Enqueue
  <2>2. fresh' = fresh /\ hs[p].pc = "enqueue"
    BY <1>8 DEF Enqueue, historyVars
  <2>3. TasksStay /\ j \in JobIds
    BY <1>5, <2>1, <2>2
  <2> HIDE DEF k
  <2> QED
    BY <1>6, <1>7, <2>1, <2>2, <2>3
<1>9. CASE EnqueueFails(p)
  <2>1. TasksStay /\ hs[p].pc = "enqueue"
    BY <1>2, <1>5, <1>9 DEF EnqueueFails
  <2>2. CASE Record(p, k, Entry(NoJob)) /\ fresh' = fresh
    BY <1>6, <1>7, <2>1, <2>2
  <2>3. CASE Return(p, "idle")
    BY <1>1, <2>1, <2>3, ReturnKeeps
  <2> QED
    BY <1>9, <2>2, <2>3 DEF EnqueueFails
<1>10. CASE SourceExists(p)
  <2>1. job' = job
    BY <1>10 DEF SourceExists
  <2>2. CASE Return(p, "idle")
    BY <1>1, <1>2, <2>1, <2>2, ReturnKeeps
  <2>3. CASE fresh' = fresh /\ ~Return(p, "idle")
    <3>1. hs'[p].pc = "enqueue"
      <4>1. hs \in [Procs -> HandlerType]
        BY TypesOf
      <4> QED
        BY <1>10, <2>3, <4>1 DEF SourceExists, HandlerType
    <3>2. PICK h : Sits(p, h)
      BY <1>10, <2>3, <3>1, ExistsSits
    <3>3. Heard(hs[p], row) => Heard(h, row)
      BY <1>1 DEF Heard
    <3> QED
      BY <1>1, <1>2, <1>3, <2>1, <2>3, <3>2, <3>3, ReadsMove
  <2> QED
    BY <1>10, <2>2, <2>3 DEF SourceExists
<1> QED
  BY <1>8, <1>9, <1>10

LEMMA DeleteKeeps ==
    ASSUME IInv, ReadsInv, NEW p \in Procs,
           \/ DeleteSource(p) \/ DeleteSourceFails(p) \/ DeleteFolder(p)
           \/ TerminateTasks(p) \/ DeleteRow(p) \/ DeleteRowFails(p)
           \/ DropSource(p) \/ Abort(p)
    PROVE  ReadsInv'
<1>1. /\ job \in [JobIds -> JobType] /\ Shaped(hs[p])
      /\ ~stale => HandlerFits(hs[p], row)
  BY TypesOf DEF ReadsInv, HandlersFit
<1>2. job' = job => TasksStay
  BY DEF TasksStay
<1>3. CASE DeleteSource(p) \/ DeleteFolder(p) \/ TerminateTasks(p)
  <2>1. /\ row' = row /\ live' = live /\ stale' = stale /\ fresh' = fresh
        /\ hs[p].pc \in {"source", "folder", "tasks"}
        /\ \E pc \in {"folder", "tasks", "row"} : Goto(p, pc)
    BY <1>3 DEF DeleteSource, DeleteFolder, TerminateTasks, AfterSource, historyVars
  <2>2. PICK pc \in {"folder", "tasks", "row"} : Goto(p, pc)
    BY <2>1
  <2>3. PICK h : Sits(p, h)
    BY <2>1, <2>2, GotoSits
  <2>4. TasksStay
    <3>1. CASE DeleteSource(p) \/ DeleteFolder(p)
      BY <1>2, <3>1 DEF DeleteSource, DeleteFolder
    <3>2. CASE TerminateTasks(p)
      <4>1. PICK hit \in SUBSET Cancellable(hs[p].copy) :
              job' = [j \in JobIds |-> IF j \in hit THEN Again(job[j], "cancelled")
                                                    ELSE job[j]]
        BY <3>2 DEF TerminateTasks
      <4>2. ASSUME NEW j \in hit
            PROVE  /\ job[j].stage # "none" /\ Again(job[j], "cancelled").calls = <<>>
                   /\ Again(job[j], "cancelled").stage \in {"queued", "cancelled"}
        BY <1>1, <4>1, AgainReads DEF Cancellable
      <4> QED
        BY <4>1, <4>2, CallsApart DEF TasksStay
    <3> QED
      BY <1>3, <3>1, <3>2
  <2>5. Heard(hs[p], row) => Heard(h, row)
    BY <2>1 DEF Heard
  <2> QED
    BY <2>1, <2>3, <2>4, <2>5, ReadsMove DEF RowStays
<1>4. CASE DeleteRow(p)
  <2>1. /\ Stop(p, "idle") /\ fresh' = {} /\ row' = row /\ job' = job /\ hs[p].pc = "row"
        /\ ~stale' => ~stale
    BY <1>4 DEF DeleteRow
  <2> QED
    BY <1>2, <2>1, StopKeeps DEF RowStays
<1>5. CASE DeleteSourceFails(p) \/ DeleteRowFails(p)
  <2>1. /\ Return(p, "idle") /\ row' = row /\ live' = live /\ job' = job /\ stale' = stale
        /\ hs[p].pc \in {"source", "row"}
    BY <1>5 DEF DeleteSourceFails, DeleteRowFails
  <2> QED
    BY <1>2, <2>1, ReturnKeeps
<1>6. CASE DropSource(p)
  <2>1. /\ Return(p, "idle") \/ Return(p, "error")
        /\ row' = row /\ live' = live /\ job' = job /\ stale' = stale
        /\ hs[p].pc = "drop"
    BY <1>6 DEF DropSource
  <2> QED
    BY <1>2, <2>1, ReturnKeeps
<1>7. CASE Abort(p)
  <2>1. /\ Return(p, Refused(p)) /\ Refused(p) \in {"idle", "error"}
        /\ Refused(p) = "error" \/ p \notin JobIds
        /\ hs[p].pc # "idle"
        /\ row' = row /\ live' = live /\ job' = job /\ stale' = stale
    BY <1>7 DEF Abort, Refused
  <2> QED
    BY <1>2, <2>1, ReturnKeeps
<1> QED
  BY <1>3, <1>4, <1>5, <1>6, <1>7

\* What a legal write leaves true.
LEMMA FollowsOn ==
    ASSUME NEW r, NEW s, Follows(r.status, s.status)
    PROVE  /\ r.status # "draft" => s.status # "draft"
           /\ Beyond(r) => Beyond(s)
           /\ r.status \in Watchable => s.status \in Watchable
BY DEF Follows, Beyond, Watchable

LEMMA WriteKeeps == ASSUME IInv, ReadsInv, NEW p \in Procs, SaveWrite(p) PROVE ReadsInv'
<1>1. PICK h : /\ hs' = [hs EXCEPT ![p] = h]
               /\ h.pc = AfterWrite(p) /\ h.pc \in {"enqueue", "drop", "idle"}
               /\ IF h.pc = "idle" THEN h.op = "none" /\ h.copy = Draft
                                   ELSE h.op = hs[p].op /\ h.copy = hs[p].copy
               /\ fresh' = IF h.pc = "idle" THEN {} ELSE {p}
  BY WriteReads
<1>2. /\ hs \in [Procs -> HandlerType] /\ hs[p].pc = "write" /\ row' = hs[p].copy
      /\ live' = TRUE /\ job' = job /\ (~stale' => ~stale /\ p \in fresh)
  BY TypesOf DEF SaveWrite
<1>3. hs'[p] = h /\ \A q \in Procs : q # p => hs'[q] = hs[q]
  BY <1>1, <1>2
<1>4. /\ Shaped(hs[p])
      /\ h.pc = "enqueue" => h.op \in {"upload", "complete"}
      /\ h.pc = "drop" => h.op = "ready"
  BY <1>1 DEF ReadsInv, AfterWrite
<1>5. Shaped(h) /\ ~Newborn(h)
  BY <1>1, <1>4 DEF Shaped, Newborn, Draft
<1>6. \A q \in Procs : Shaped(hs'[q])
  BY <1>3, <1>5 DEF ReadsInv
<1>7. KeysApart'
  BY <1>3, <1>5 DEF ReadsInv, KeysApart
<1>8. \A j \in JobIds : JobFits(job'[j], Transcode(j))
  BY <1>2 DEF ReadsInv
<1>9. ASSUME ~stale'
      PROVE  /\ RowFits(row')
             /\ \A q \in Procs : HandlerFits(hs'[q], row')
             /\ \A q \in fresh' : live' /\ FreshFits(hs'[q], row')
             /\ \A j \in JobIds : JobShows(job'[j], hs'[j], row', Transcode(j))
  <2>1. /\ ~stale /\ RowFits(row) /\ FreshFits(hs[p], row) /\ HandlerFits(hs[p], row)
        /\ \A q \in Procs : HandlerFits(hs[q], row)
        /\ \A j \in JobIds : JobShows(job[j], hs[j], row, Transcode(j))
    BY <1>2, <1>9 DEF ReadsInv, HandlersFit, JobsShow
  <2>2. RowFits(row') /\ Follows(row.status, row'.status)
    BY <1>2, <2>1 DEF FreshFits
  <2>3. IF Newborn(hs[p]) THEN row.key = NoKey ELSE row'.key = row.key
    BY <1>2, <2>1 DEF FreshFits, RowFits, Newborn
  <2>4. ASSUME NEW q \in Procs, q # p PROVE HandlerFits(hs[q], row')
    <3>1. HandlerFits(hs[q], row)
      BY <2>1
    <3>2. IF Newborn(hs[q]) THEN hs[q].copy.key \notin {NoKey, row'.key}
                            ELSE hs[q].copy.key \in {NoKey, row'.key}
      <4>1. CASE Newborn(hs[p])
        BY <1>2, <2>3, <2>4, <3>1, <4>1 DEF HandlerFits, ReadsInv, KeysApart
      <4>2. CASE ~Newborn(hs[p])
        BY <2>3, <3>1, <4>2 DEF HandlerFits
      <4> QED
        BY <4>1, <4>2
    <3>3. /\ row.status # "draft" => row'.status # "draft"
          /\ Beyond(row) => Beyond(row')
          /\ row.status \in Watchable => row'.status \in Watchable
      BY <2>2, FollowsOn
    <3> QED
      BY <3>1, <3>2, <3>3 DEF HandlerFits
  <2>5. HandlerFits(h, row')
    <3>1. CASE h.pc = "idle"
      <4>1. Draft.key = NoKey /\ ~Draft.tasks["transcode"].failed
        BY LifecycleConstants DEF Draft, NoEntry
      <4> QED
        BY <1>1, <1>5, <3>1, <4>1 DEF HandlerFits
    <3>2. CASE h.pc = "enqueue"
      <4>1. row'.status = "processing" /\ h.copy = row'
        BY <1>1, <1>2, <1>4, <3>2 DEF Shaped
      <4> QED
        BY <1>4, <1>5, <2>2, <3>2, <4>1 DEF HandlerFits, RowFits, Beyond
    <3>3. CASE h.pc = "drop"
      <4>1. row'.status = "ready" /\ h.copy = row'
        BY <1>1, <1>2, <1>4, <3>3 DEF Shaped
      <4> QED
        BY <1>4, <1>5, <2>2, <3>3, <4>1 DEF HandlerFits, RowFits, Beyond, Watchable
    <3> QED
      BY <1>1, <3>1, <3>2, <3>3
  <2>6. h.pc # "idle" => FreshFits(h, row')
    BY <1>1, <1>2, <1>4, <1>5 DEF FreshFits
  <2>7. ASSUME NEW j \in JobIds
        PROVE  JobShows(job'[j], hs'[j], row', Transcode(j))
    <3>1. JobShows(job[j], hs[j], row, Transcode(j)) /\ job'[j] = job[j] /\ j \in Procs
      BY <1>2, <2>1 DEF Procs
    <3>2. /\ row.status # "draft" => row'.status # "draft"
          /\ Beyond(row) => Beyond(row')
          /\ row.status \in Watchable => row'.status \in Watchable
      BY <2>2, FollowsOn
    <3>3. Heard(hs[j], row) => Heard(hs'[j], row')
      <4>1. CASE j = p
        <5>1. hs[p].op = "ready" => row'.status \in Watchable
          BY <1>2, <1>4 DEF Shaped, Watchable
        <5> QED
          BY <1>2, <3>2, <4>1, <5>1 DEF Heard
      <4>2. CASE j # p
        BY <1>3, <3>1, <3>2, <4>2 DEF Heard
      <4> QED
        BY <4>1, <4>2
    <3>4. hs'[j].pc # "idle" => hs[j].pc # "idle"
      BY <1>2, <1>3, <3>1
    <3> QED
      BY <3>1, <3>2, <3>3, <3>4 DEF JobShows
  <2> QED
    BY <1>1, <1>2, <1>3, <2>2, <2>4, <2>5, <2>6, <2>7
<1> QED
  BY <1>6, <1>7, <1>8, <1>9 DEF ReadsInv, HandlersFit, JobsShow, Transcode

LEMMA OwnerBeginKeeps == ASSUME IInv, ReadsInv, NEW p \in Owners, OwnerBegin(p) PROVE ReadsInv'
<1>1. PICK op \in Ops : Begin(p, op, "none")
  BY DEF OwnerBegin
<1>2. /\ p \in Procs /\ p \notin JobIds /\ op \in OwnerOps
      /\ op \notin Reports
  BY LifecycleConstants, OwnersAreNoTasks DEF Procs, OwnerOps, Reports
<1>3. PICK h : Sits(p, h)
  BY <1>1, <1>2, BeginSits DEF Reports
<1>4. row' = row /\ live' = live /\ job' = job /\ stale' = stale /\ fresh' = fresh \union {p}
  BY <1>1 DEF OwnerBegin, Begin
<1> QED
  BY <1>2, <1>3, <1>4, ReadsMove DEF RowStays, TasksStay

\* The last report of a transcode is "ready".
LEMMA ReadyLast ==
    ASSUME NEW c \in ReadyCalls
    PROVE  /\ Tail(c) \in ReadyCalls \union {<<>>}
           /\ Tail(c) = <<>> => Head(c) = "ready"
<1>1. CASE c = <<"ready">>
  BY <1>1
<1>2. CASE c = <<"progress", "ready">>
  BY <1>2 DEF ReadyCalls
<1>3. CASE c = <<"metadata", "progress", "ready">>
  BY <1>3 DEF ReadyCalls
<1> QED
  BY <1>1, <1>2, <1>3 DEF ReadyCalls

LEMMA WorkerKeeps == ASSUME IInv, ReadsInv, NEW j \in JobIds, WorkerStep(j) PROVE ReadsInv'
<1>1. /\ job \in [JobIds -> JobType] /\ hs \in [Procs -> HandlerType] /\ j \in Procs
      /\ JobFits(job[j], Transcode(j))
      /\ ~stale => JobShows(job[j], hs[j], row, Transcode(j))
      /\ row' = row /\ live' = live /\ stale' = stale
  BY TypesOf DEF Procs, ReadsInv, JobsShow, WorkerStep, WorkerStart, WorkerSucceeds,
     WorkerFails, WorkerCalls, WorkerEnds, WorkerGivesUp, historyVars
\* The handlers stay, a task moves to where nothing is heard of it.
<1>2. ASSUME hs' = hs, fresh' = fresh, \A i \in JobIds : i # j => job'[i] = job[i],
             JobFits(job'[j], Transcode(j)),
             ~stale => JobShows(job'[j], hs[j], row, Transcode(j))
      PROVE  ReadsInv'
  BY <1>1, <1>2 DEF ReadsInv, HandlersFit, JobsShow, KeysApart, Newborn, Transcode
<1>3. ASSUME NEW stage \in {"running", "failing"},
             NEW calls \in {<<>>, <<"started">>, <<"failure">>}, JobMoves(j, stage, calls),
             hs' = hs, fresh' = fresh, job[j].stage # "none"
      PROVE  ReadsInv'
  <2>1. /\ job'[j].stage = stage /\ job'[j].calls = calls
        /\ \A i \in JobIds : i # j => job'[i] = job[i]
    BY <1>3, JobMovesReads
  <2>2. JobFits(job'[j], Transcode(j)) /\ (~stale => JobShows(job'[j], hs[j], row, Transcode(j)))
    BY <1>1, <1>3, <2>1, CallsApart DEF JobFits, JobShows
  <2> QED
    BY <1>2, <1>3, <2>1, <2>2
<1>4. CASE WorkerStart(j) \/ WorkerFails(j)
  <2>1. hs' = hs /\ fresh' = fresh /\ job[j].stage # "none"
    BY <1>4 DEF WorkerStart, WorkerFails, Working, historyVars
  <2> QED
    BY <1>3, <1>4, <2>1 DEF WorkerStart, WorkerFails
<1>5. CASE WorkerSucceeds(j)
  <2>1. hs' = hs /\ fresh' = fresh /\ job[j].stage # "none"
    BY <1>5 DEF WorkerSucceeds, Working, historyVars
  <2>2. PICK calls : /\ JobMoves(j, "reporting", calls)
                     /\ calls = IF Transcode(j) THEN <<"metadata", "progress", "ready">>
                                                ELSE <<"progress">>
    BY <1>5 DEF WorkerSucceeds, Transcode
  <2>3. /\ job'[j].stage = "reporting" /\ job'[j].calls = calls
        /\ \A i \in JobIds : i # j => job'[i] = job[i]
    BY <2>2, JobMovesReads
  <2>4. /\ Transcode(j) => calls \in ReadyCalls /\ calls # <<>>
        /\ ~Transcode(j) => calls \notin ReadyCalls
    BY <2>2, CallsApart DEF ReadyCalls
  <2>5. JobFits(job'[j], Transcode(j)) /\ (~stale => JobShows(job'[j], hs[j], row, Transcode(j)))
    BY <1>1, <2>1, <2>3, <2>4 DEF JobFits, JobShows
  <2> QED
    BY <1>2, <2>1, <2>3, <2>5
<1>6. CASE WorkerEnds(j)
  <2>1. hs' = hs /\ fresh' = fresh /\ hs[j].pc = "idle" /\ job[j].calls = <<>>
    BY <1>6 DEF WorkerEnds, historyVars
  <2>2. CASE job[j].stage = "reporting" /\ JobMoves(j, "succeeded", <<>>)
    <3>1. /\ job'[j].stage = "succeeded" /\ job'[j].calls = <<>>
          /\ \A i \in JobIds : i # j => job'[i] = job[i]
      BY <2>2, JobMovesReads
    <3>2. JobFits(job'[j], Transcode(j)) /\ (~stale => JobShows(job'[j], hs[j], row, Transcode(j)))
      BY <1>1, <2>1, <2>2, <3>1, CallsApart DEF JobFits, JobShows, Heard
    <3> QED
      BY <1>2, <2>1, <3>1, <3>2
  <2>3. CASE job[j].stage = "failing" /\ Rerun(j, "failed")
    <3>1. /\ job'[j].stage \in {"queued", "failed"} /\ job'[j].calls = <<>>
          /\ \A i \in JobIds : i # j => job'[i] = job[i]
      BY <1>1, <2>3, AgainReads DEF Rerun
    <3>2. JobFits(job'[j], Transcode(j)) /\ (~stale => JobShows(job'[j], hs[j], row, Transcode(j)))
      BY <1>1, <2>3, <3>1, CallsApart DEF JobFits, JobShows
    <3> QED
      BY <1>2, <2>1, <3>1, <3>2
  <2> QED
    BY <1>6, <2>2, <2>3 DEF WorkerEnds
<1>7. CASE WorkerGivesUp(j)
  <2>1. Return(j, "idle") /\ Rerun(j, "lost") /\ hs[j].pc = "error"
    BY <1>7 DEF WorkerGivesUp
  <2>2. /\ job'[j].stage \in {"queued", "lost"} /\ job'[j].calls = <<>>
        /\ \A i \in JobIds : i # j => job'[i] = job[i]
    BY <1>1, <2>1, AgainReads DEF Rerun
  <2>3. PICK h : Sits(j, h)
    BY <1>1, <2>1, StopSits DEF Return
  <2>4. RowStays(j)
    BY <1>1, <2>1 DEF Return, RowStays
  <2>5. (\A p \in Procs : Shaped(hs[p]))' /\ KeysApart' /\ HandlersFit'
    BY <1>1, <2>3, <2>4, HandlersMove
  <2>6. \A i \in JobIds : JobFits(job'[i], Transcode(i))
    BY <2>2, CallsApart DEF ReadsInv, JobFits
  <2>7. ASSUME ~stale', NEW i \in JobIds PROVE JobShows(job'[i], hs'[i], row', Transcode(i))
    <3>1. JobShows(job[i], hs[i], row, Transcode(i)) /\ i \in Procs
      BY <1>1, <2>7 DEF ReadsInv, JobsShow, Procs
    <3>2. CASE i # j
      BY <1>1, <2>2, <2>3, <3>1, <3>2 DEF Sits
    <3>3. CASE i = j
      BY <1>1, <2>1, <2>2, <3>1, <3>3 DEF JobShows
    <3> QED
      BY <3>2, <3>3
  <2> QED
    BY <2>5, <2>6, <2>7 DEF ReadsInv, JobsShow, Transcode
<1>8. CASE WorkerCalls(j)
  <2> DEFINE op == Head(job[j].calls)
             left == Tail(job[j].calls)
  <2>1. /\ job[j].stage \in {"running", "reporting", "failing"} /\ job[j].calls # <<>>
        /\ JobMoves(j, job[j].stage, left) /\ job[j].calls \in Calls
        /\ Begin(j, op, j[1]) \/ Return(j, "error")
    BY <1>1, <1>8 DEF WorkerCalls, JobType
  <2>2. /\ op \in Reports
        /\ left \in ReadyCalls \/ op = "ready" => job[j].calls \in ReadyCalls
        /\ job[j].calls \in ReadyCalls =>
              left \in ReadyCalls \union {<<>>} /\ (left = <<>> => op = "ready")
    BY <2>1, CallsLeft, ReadyLast
  <2> HIDE DEF op, left
  <2>3. /\ job'[j].stage = job[j].stage /\ job'[j].calls = left
        /\ \A i \in JobIds : i # j => job'[i] = job[i]
    BY <2>1, JobMovesReads
  <2>4. /\ ~stale => row.status # "draft" /\ (Transcode(j) => Beyond(row))
        /\ op = "ready" => Transcode(j)
    BY <1>1, <2>1, <2>2 DEF JobShows, JobFits
  <2>5. \E h : /\ Sits(j, h) /\ RowStays(j)
               /\ h.pc = "error" \/ (h.pc = "save" /\ h.op = op)
    <3>1. CASE Begin(j, op, j[1])
      <4>1. PICK h : Sits(j, h) /\ h.op = op /\ h.pc = FirstStep(op)
        BY <1>1, <2>2, <2>4, <3>1, BeginSits DEF Transcode
      <4>2. FirstStep(op) = "save"
        BY <2>2 DEF FirstStep, Reports
      <4> QED
        BY <1>1, <3>1, <4>1, <4>2 DEF Begin, RowStays
    <3>2. CASE Return(j, "error")
      BY <1>1, <3>2, StopSits DEF Return, RowStays
    <3> QED
      BY <2>1, <3>1, <3>2
  <2>6. PICK h : /\ Sits(j, h) /\ RowStays(j)
                 /\ h.pc = "error" \/ (h.pc = "save" /\ h.op = op)
    BY <2>5
  <2>7. (\A p \in Procs : Shaped(hs[p]))' /\ KeysApart' /\ HandlersFit'
    BY <1>1, <2>6, HandlersMove
  <2>8. ASSUME NEW i \in JobIds PROVE JobFits(job'[i], Transcode(i))
    <3>1. JobFits(job'[j], Transcode(j))
      BY <1>1, <2>1, <2>2, <2>3 DEF JobFits
    <3>2. i # j => JobFits(job'[i], Transcode(i))
      BY <2>3 DEF ReadsInv
    <3> QED
      BY <3>1, <3>2
  <2>9. ASSUME ~stale', NEW i \in JobIds PROVE JobShows(job'[i], hs'[i], row', Transcode(i))
    <3>1. JobShows(job[i], hs[i], row, Transcode(i)) /\ i \in Procs
      BY <1>1, <2>9 DEF ReadsInv, JobsShow, Procs
    <3>2. CASE i # j
      BY <1>1, <2>3, <2>6, <3>1, <3>2 DEF Sits
    <3>3. CASE i = j
      <4>1. hs'[j] = h
        BY <1>1, <2>6 DEF Sits
      <4>2. Transcode(j) /\ job[j].stage = "reporting" /\ left = <<>> => Heard(h, row)
        BY <1>1, <2>1, <2>2, <2>6 DEF JobFits, Heard
      <4> QED
        BY <1>1, <2>1, <2>3, <3>1, <3>3, <4>1, <4>2 DEF JobShows
    <3> QED
      BY <3>2, <3>3
  <2> QED
    BY <2>7, <2>8, <2>9 DEF ReadsInv, JobsShow, Transcode
<1> QED
  BY <1>4, <1>5, <1>6, <1>7, <1>8 DEF WorkerStep

LEMMA ReadsStep == ASSUME IInv, ReadsInv, [CrashNext]_vars PROVE ReadsInv'
<1>1. CASE UNCHANGED vars
  BY <1>1 DEF vars, ReadsInv, HandlersFit, JobsShow, KeysApart, Newborn
<1>2. ASSUME NEW p \in Owners, OwnerBegin(p) PROVE ReadsInv'
  BY <1>2, OwnerBeginKeeps
<1>3. ASSUME NEW p \in Procs, HandlerStep(p) PROVE ReadsInv'
  BY <1>3, StoreKeeps, SaveKeeps, WriteKeeps, QueueKeeps, DeleteKeeps DEF HandlerStep
<1>4. ASSUME NEW p \in Procs, Abort(p) PROVE ReadsInv'
  BY <1>4, DeleteKeeps
<1>5. ASSUME NEW j \in JobIds, WorkerStep(j) PROVE ReadsInv'
  BY <1>5, WorkerKeeps
<1> QED
  BY <1>1, <1>2, <1>3, <1>4, <1>5 DEF CrashNext, Next

LEMMA ReadsInvariant == CrashSpec => []ReadsInv
<1> QED
  BY ReadsInit, ReadsStep, Invariant, PTL DEF CrashSpec

-----------------------------------------------------------------------------
(* Until a handler saves over a row it has not read, the stream lives as   *)
(* StreamContract says.                                                    *)

Shown == IF stale THEN "overwritten" ELSE IF live THEN row.status ELSE "deleted"

LEMMA StatusMoves ==
    ASSUME NEW a, NEW b, Follows(a, b),
           row.status = a, row'.status = b, live, live', ~stale, ~stale'
    PROVE  [Contract!Next]_Shown
BY DEF Shown, Follows, Contract!Next, Contract!Moves, Contract!Upload, Contract!Complete,
       Contract!Finish, Contract!Reprocess, Contract!Recover, Contract!Publish,
       Contract!Unpublish, Contract!Delete

LEMMA ContractStep ==
    ASSUME IInv, ReadsInv, [CrashNext]_vars
    PROVE  [Contract!Next]_Shown
<1>1. ASSUME NEW p \in Procs, SaveWrite(p), ~stale' PROVE [Contract!Next]_Shown
  <2>1. ~stale /\ p \in fresh /\ hs[p].pc = "write"
    BY <1>1 DEF SaveWrite
  <2>2. live /\ Follows(row.status, hs[p].copy.status)
    BY <2>1 DEF ReadsInv, HandlersFit, FreshFits
  <2>3. row'.status = hs[p].copy.status /\ live'
    BY <1>1 DEF SaveWrite
  <2> QED
    BY <1>1, <2>1, <2>2, <2>3, StatusMoves
<1>2. ASSUME NEW p \in Procs, DeleteRow(p), ~stale' PROVE [Contract!Next]_Shown
  <2>1. ~stale /\ hs[p].pc = "row" /\ (live => p \in fresh)
    BY <1>2 DEF DeleteRow
  <2>2. row' = row /\ live' = FALSE
    BY <1>2 DEF DeleteRow
  <2>3. CASE ~live
    BY <1>2, <2>1, <2>2, <2>3 DEF Shown
  <2>4. CASE live
    <3>1. row.status # "published" /\ row.status \in Statuses
      BY <2>1, <2>4 DEF ReadsInv, HandlersFit, FreshFits, Shaped, IInv, TypeOK, RowType
    <3> QED
      BY <1>2, <2>1, <2>2, <2>4, <3>1
         DEF Shown, Statuses, Contract!Next, Contract!Moves, Contract!Delete
  <2> QED
    BY <2>3, <2>4
<1>3. \/ UNCHANGED <<row, live, stale>>
      \/ \E p \in Procs : SaveWrite(p) \/ DeleteRow(p)
  BY ZenonT(60)
     DEF CrashNext, Next, OwnerBegin, HandlerStep, WorkerStep, StoreNew, StoreComplete,
         StoreRefused, SaveCheck, SaveFails, SaveFailsDirty, Enqueue, EnqueueFails,
         SourceExists, DeleteSource, DeleteSourceFails, DeleteFolder, TerminateTasks,
         DeleteRowFails, DropSource, Abort, WorkerStart, WorkerSucceeds, WorkerFails,
         WorkerCalls, WorkerEnds, WorkerGivesUp, vars, historyVars
<1>4. ASSUME stale' PROVE [Contract!Next]_Shown
  <2>1. Shown' = "overwritten"
    BY <1>4 DEF Shown
  <2>2. CASE Shown = "overwritten"
    BY <2>1, <2>2
  <2>3. CASE Shown # "overwritten"
    BY <2>1, <2>3 DEF Shown, Contract!Next, Contract!Overwrite
  <2> QED
    BY <2>2, <2>3
<1>5. CASE UNCHANGED <<row, live, stale>>
  BY <1>5 DEF Shown
<1> QED
  BY <1>1, <1>2, <1>3, <1>4, <1>5

\* What GET .../status answers follows StreamContract, for any number of owners'
\* requests, tasks and reruns, however they overlap, whichever calls fail and
\* wherever a handler dies, until one saves over a row it has not read.
THEOREM FollowsContract == CrashSpec => RefinesContract
<1>1. Init => Contract!Init
  BY DEF Init, Draft, Contract!Init
<1>2. IInv /\ ReadsInv /\ [CrashNext]_vars
          => [Contract!Next]_(IF stale THEN "overwritten"
                              ELSE IF live THEN row.status ELSE "deleted")
  BY ContractStep DEF Shown
<1> QED
  BY <1>1, <1>2, Invariant, ReadsInvariant, PTL DEF CrashSpec, RefinesContract, Contract!Spec

-----------------------------------------------------------------------------
(* What follows for the reports.                                           *)

\* UpdateStreamStatus dereferences no missing storage info.
THEOREM StorageInfoThere == CrashSpec => []NoNilStorage
<1>1. ReadsInv => NoNilStorage
  BY DEF ReadsInv, HandlersFit, HandlerFits, NoNilStorage
<1> QED
  BY <1>1, ReadsInvariant, PTL

\* A transcode whose reports were all accepted leaves the stream watchable,
\* whatever other reports, requests and reruns came between.
THEOREM SuccessesShow == CrashSpec => []SuccessShows
<1>1. ReadsInv => SuccessShows
  BY DEF ReadsInv, JobsShow, JobShows, SuccessShows, Transcode, Intact
<1> QED
  BY <1>1, ReadsInvariant, PTL

-----------------------------------------------------------------------------
(* Storage and the row agree.                                              *)

Undoing(h) == h.op = "delete" /\ h.pc \in {"folder", "tasks", "row"}
Joined(h)  == h.op = "complete" /\ h.pc \in {"save", "write"}

\* A step of p that touches neither the row nor the source objects, and leaves
\* its upload or deletion as it was unless it leaves row and storage apart.
Calm(p, h) ==
    /\ hs' = [hs EXCEPT ![p] = h]
    /\ row' = row /\ live' = live /\ files' = files /\ fresh' \subseteq fresh \union {p}
    /\ Intact' =>
          /\ Intact
          /\ IF NewUpload(hs[p]) THEN NewUpload(h) /\ h.copy.key = hs[p].copy.key
                                 ELSE ~NewUpload(h)
          /\ live /\ Undoing(hs[p]) => Undoing(h)
          /\ live /\ hls' = "removed" => hls = "removed" \/ Undoing(h)
          /\ p \in fresh' /\ Undoing(h) => p \in fresh /\ Undoing(hs[p])
          /\ p \in fresh' /\ Joined(h) => p \in fresh /\ Joined(hs[p])

LEMMA CalmStorage ==
    ASSUME IInv, ReadsInv, ReadsInv', StorageFits, NEW p \in Procs, NEW h, Calm(p, h)
    PROVE  StorageFits'
<1>1. hs'[p] = h /\ \A q \in Procs : q # p => hs'[q] = hs[q]
  BY TypesOf DEF Calm
<1> SUFFICES ASSUME Intact' PROVE StorageFits'
  BY DEF StorageFits
<1>2. Intact
  BY DEF Calm
<1>3. \A f \in files' : \/ live' /\ f = row'.key
                        \/ \E q \in Procs : NewUpload(hs'[q]) /\ hs'[q].copy.key = f
  BY <1>1, <1>2 DEF Calm, StorageFits
<1>4. \A q \in Procs : NewUpload(hs'[q]) => hs'[q].copy.key \in files'
  BY <1>1, <1>2 DEF Calm, StorageFits
<1>5. live /\ Undermined => Undermined'
  <2>1. ASSUME NEW q \in Procs, live, Undoing(hs[q]) PROVE Undoing(hs'[q])
    BY <1>1, <2>1 DEF Calm
  <2> QED
    BY <2>1 DEF Undermined, Undermines, Undoing
<1>6. live' /\ row'.status \in {"processing", "error"} => row'.key \in files' \/ Undermined'
  BY <1>2, <1>5 DEF Calm, StorageFits
<1>7. live' /\ hls' = "removed" => Undermined'
  <2>1. live' /\ hls' = "removed" => hls = "removed" \/ Undoing(hs'[p])
    BY <1>1 DEF Calm
  <2>2. Undoing(hs'[p]) => Undermined'
    BY DEF Undermined, Undermines, Undoing
  <2> QED
    BY <1>2, <1>5, <2>1, <2>2 DEF Calm, StorageFits
<1>8. \A q \in fresh' : Undoing(hs'[q]) => q \in fresh /\ Undoing(hs[q])
  BY <1>1, TypesOf DEF Calm
<1>9. \A q \in fresh' : Joined(hs'[q]) => q \in fresh /\ Joined(hs[q])
  BY <1>1, TypesOf DEF Calm
<1>10. \A q \in fresh' : hs'[q].pc \in {"folder", "tasks", "row"} => row'.key \notin files'
  <2> TAKE q \in fresh'
  <2>1. q \in Procs
    BY TypesOf DEF Calm
  <2>2. Shaped(hs'[q])
    BY <2>1 DEF ReadsInv
  <2> QED
    BY <1>2, <1>8, <2>2 DEF Calm, StorageFits, Shaped, Undoing
<1>11. \A q \in fresh' : Joined(hs'[q]) => row'.key \in files' \/ Undermined'
  <2> TAKE q \in fresh'
  <2>1. HAVE Joined(hs'[q])
  <2>2. q \in fresh /\ Joined(hs[q])
    BY <1>9, <2>1
  <2>3. row.key \in files \/ Undermined
    BY <1>2, <2>2 DEF StorageFits, Joined
  <2>4. live
    BY <1>2, <2>2 DEF Intact, ReadsInv, HandlersFit
  <2> QED
    BY <1>5, <2>3, <2>4 DEF Calm
<1> QED
  BY <1>3, <1>4, <1>6, <1>7, <1>10, <1>11 DEF StorageFits, NewUpload, Joined

\* A handler that returns with nothing half done.
LEMMA ReturnStorage ==
    ASSUME IInv, ReadsInv, ReadsInv', StorageFits, NEW p \in Procs, NEW pc \in {"idle", "error"},
           Return(p, pc), row' = row, live' = live, files' = files, hls' = hls,
           Intact' => Intact /\ ~HalfDone(p)
    PROVE  StorageFits'
<1>1. PICK h : hs' = [hs EXCEPT ![p] = h] /\ h.pc = pc /\ h.op = "none"
  BY StopReads DEF Return
<1>2. ~NewUpload(h) /\ ~Undoing(h) /\ ~Joined(h)
  BY <1>1 DEF NewUpload, Undoing, Joined
<1>3. Intact' => ~NewUpload(hs[p]) /\ ~(live /\ Undoing(hs[p]))
  BY DEF HalfDone, NewUpload, Undermines, Undoing
<1>4. Calm(p, h)
  BY <1>1, <1>2, <1>3 DEF Calm, Return
<1> QED
  BY <1>4, CalmStorage


\* An object is made under a key nobody knows.
LEMMA NewStorage ==
    ASSUME IInv, ReadsInv, ReadsInv', StorageFits, NEW p \in Procs, StoreNew(p)
    PROVE  StorageFits'
<1>1. PICK h : /\ Sits(p, h) /\ h.pc = "save" /\ h.op = hs[p].op
               /\ h.op \in {"upload", "start"} /\ h.copy.key \in FreshKeys
               /\ files' = IF h.op = "upload" THEN files \union {h.copy.key} ELSE files
  BY StoreSits
<1>2. /\ row' = row /\ live' = live /\ hls' = hls /\ fresh' = fresh /\ stale' = stale
      /\ torn' = torn /\ hs[p].pc = "store"
  BY DEF StoreNew, historyVars
<1>3. hs'[p] = h /\ \A q \in Procs : q # p => hs'[q] = hs[q]
  BY <1>1, TypesOf DEF Sits
<1>4. CASE h.op = "start"
  <2>1. Calm(p, h)
    BY <1>1, <1>2, <1>4 DEF Calm, Sits, NewUpload, Undoing, Joined, Intact
  <2> QED
    BY <2>1, CalmStorage
<1>5. CASE h.op = "upload"
  <2> SUFFICES ASSUME Intact' PROVE StorageFits'
    BY DEF StorageFits
  <2>1. Intact
    BY <1>2 DEF Intact
  <2>2. files' = files \union {h.copy.key} /\ h.copy.key # row.key
    BY <1>1, <1>5 DEF FreshKeys
  <2>3. NewUpload(h) /\ ~NewUpload(hs[p]) /\ ~Undoing(hs[p]) /\ ~Undoing(h) /\ ~Joined(h)
    BY <1>1, <1>2, <1>5 DEF NewUpload, Undoing, Joined
  <2>4. \A f \in files' : \/ live' /\ f = row'.key
                          \/ \E q \in Procs : NewUpload(hs'[q]) /\ hs'[q].copy.key = f
    BY <1>2, <1>3, <2>1, <2>2, <2>3 DEF StorageFits
  <2>5. \A q \in Procs : NewUpload(hs'[q]) => hs'[q].copy.key \in files'
    BY <1>3, <2>1, <2>2 DEF StorageFits
  <2>6. Undermined => Undermined'
    BY <1>3, <2>3 DEF Undermined, Undermines, Undoing
  <2>7. live' /\ row'.status \in {"processing", "error"} => row'.key \in files' \/ Undermined'
    BY <1>2, <2>1, <2>2, <2>6 DEF StorageFits
  <2>8. live' /\ hls' = "removed" => Undermined'
    BY <1>2, <2>1, <2>6 DEF StorageFits
  <2>9. \A q \in fresh' : hs'[q].pc \in {"folder", "tasks", "row"} => row'.key \notin files'
    BY <1>1, <1>2, <1>3, <2>1, <2>2, TypesOf DEF StorageFits
  <2>10. \A q \in fresh' : hs'[q].op = "complete" /\ hs'[q].pc \in {"save", "write"}
                                => row'.key \in files' \/ Undermined'
    BY <1>2, <1>3, <1>5, <2>1, <2>2, <2>6, TypesOf DEF StorageFits
  <2> QED
    BY <2>4, <2>5, <2>7, <2>8, <2>9, <2>10 DEF StorageFits
<1> QED
  BY <1>1, <1>4, <1>5

\* The parts are joined under the key the row names, with no deletion about.
LEMMA CompleteStorage ==
    ASSUME IInv, ReadsInv, ReadsInv', StorageFits, NEW p \in Procs, StoreComplete(p)
    PROVE  StorageFits'
<1> SUFFICES ASSUME Intact' PROVE StorageFits'
  BY DEF StorageFits
<1>1. /\ row' = row /\ live' = live /\ hls' = hls /\ hs[p].pc = "store" /\ hs[p].op = "complete"
      /\ files' = files \union {hs[p].copy.key} /\ hs[p].copy.key \in multis
      /\ Intact /\ live /\ \A q \in Procs : ~Undermines(q)
      /\ fresh' \subseteq fresh
  BY DEF StoreComplete, Intact, Return
<1>2. hs[p].copy.key \in Keys
  BY <1>1, TypesOf
<1>3. HandlerFits(hs[p], row) /\ ~Newborn(hs[p])
  BY <1>1 DEF ReadsInv, HandlersFit, Intact, Newborn
<1>4. hs[p].copy.key = row.key
  BY <1>2, <1>3, LifecycleConstants DEF HandlerFits
<1>5. PICK h : hs' = [hs EXCEPT ![p] = h] /\ h.op # "upload" /\ ~Undoing(h)
  <2>1. CASE Return(p, "idle")
    <3>1. PICK h : hs' = [hs EXCEPT ![p] = h] /\ h.op = "none"
      BY <2>1, StopReads DEF Return
    <3> QED
      BY <3>1 DEF Undoing
  <2>2. CASE hs' = [hs EXCEPT ![p].pc = "save", ![p].copy.status = "processing"]
    <3>1. PICK h : hs' = [hs EXCEPT ![p] = h] /\ h.op = "complete"
      BY <1>1, <2>2, CompleteReads
    <3> QED
      BY <3>1 DEF Undoing
  <2> QED
    BY <2>1, <2>2 DEF StoreComplete
<1>6. hs'[p] = h /\ \A q \in Procs : q # p => hs'[q] = hs[q]
  BY <1>5, TypesOf
<1>7. \A q \in Procs : ~Undoing(hs'[q]) /\ Shaped(hs'[q])
  BY <1>1, <1>5, <1>6 DEF Undermines, Undoing, ReadsInv
<1>8. ~NewUpload(hs[p]) /\ ~NewUpload(h)
  BY <1>1, <1>5 DEF NewUpload
<1>9. \A f \in files' : \/ live' /\ f = row'.key
                        \/ \E q \in Procs : NewUpload(hs'[q]) /\ hs'[q].copy.key = f
  BY <1>1, <1>4, <1>6, <1>8 DEF StorageFits
<1>10. \A q \in Procs : NewUpload(hs'[q]) => hs'[q].copy.key \in files'
  BY <1>1, <1>6, <1>8 DEF StorageFits
<1>11. row'.key \in files' /\ hls' # "removed"
  BY <1>1, <1>4 DEF StorageFits, Undermined
<1>12. \A q \in fresh' : hs'[q].pc \notin {"folder", "tasks", "row"}
  BY <1>1, <1>7, TypesOf DEF Undoing, Shaped
<1> QED
  BY <1>9, <1>10, <1>11, <1>12 DEF StorageFits

\* Objects are removed: not one that an upload or the row still counts on.
LEMMA RemovedStorage ==
    ASSUME IInv, ReadsInv, ReadsInv', StorageFits, NEW p \in Procs, NEW h, NEW key,
           hs' = [hs EXCEPT ![p] = h], row' = row, live' = live, files' = files \ {key},
           fresh' \subseteq fresh \union {p}, hls' = hls,
           ~NewUpload(h), ~Joined(h),
           Intact' =>
              /\ Intact
              /\ NewUpload(hs[p]) => key = hs[p].copy.key
              /\ \A q \in Procs : q # p /\ NewUpload(hs[q]) => key # hs[q].copy.key
              /\ \/ key # row.key /\ ~Undoing(h) /\ ~Undoing(hs[p])
                 \/ Undoing(h) /\ (p \in fresh' => key = row.key)
                 \/ row.status \in Watchable /\ ~Undoing(h) /\ ~Undoing(hs[p])
    PROVE  StorageFits'
<1> SUFFICES ASSUME Intact' PROVE StorageFits'
  BY DEF StorageFits
<1>1. hs'[p] = h /\ \A q \in Procs : q # p => hs'[q] = hs[q]
  BY TypesOf
<1>2. \A f \in files' : \/ live' /\ f = row'.key
                        \/ \E q \in Procs : NewUpload(hs'[q]) /\ hs'[q].copy.key = f
  <2> TAKE f \in files'
  <2>1. CASE live /\ f = row.key
    BY <2>1
  <2>2. CASE \E q \in Procs : NewUpload(hs[q]) /\ hs[q].copy.key = f
    <3>1. PICK q \in Procs : NewUpload(hs[q]) /\ hs[q].copy.key = f
      BY <2>2
    <3>2. q # p
      BY <3>1
    <3> QED
      BY <1>1, <3>1, <3>2
  <2> QED
    BY <2>1, <2>2 DEF StorageFits
<1>3. \A q \in Procs : NewUpload(hs'[q]) => hs'[q].copy.key \in files'
  BY <1>1 DEF StorageFits
<1>4. Undermined => Undermined'
  BY <1>1 DEF Undermined, Undermines, Undoing
<1>5. Undoing(h) => Undermined'
  BY <1>1 DEF Undermined, Undermines, Undoing
<1>6. live' /\ row'.status \in {"processing", "error"} => row'.key \in files' \/ Undermined'
  BY <1>4, <1>5 DEF StorageFits, Watchable
<1>7. live' /\ hls' = "removed" => Undermined'
  BY <1>4 DEF StorageFits
<1>8. \A q \in fresh' : hs'[q].pc \in {"folder", "tasks", "row"} => row'.key \notin files'
  <2> TAKE q \in fresh'
  <2>1. Shaped(hs'[q])
    BY TypesOf DEF ReadsInv
  <2>2. CASE q # p
    BY <1>1, <2>2, TypesOf DEF StorageFits
  <2>3. CASE q = p
    BY <1>1, <2>1, <2>3 DEF Shaped, Undoing
  <2> QED
    BY <2>2, <2>3
<1>9. \A q \in fresh' : Joined(hs'[q]) => row'.key \in files' \/ Undermined'
  <2> TAKE q \in fresh'
  <2>1. HAVE Joined(hs'[q])
  <2>2. q # p /\ q \in fresh /\ q \in Procs /\ Joined(hs[q])
    BY <1>1, <2>1, TypesOf
  <2>3. row.key \in files \/ Undermined
    BY <2>2 DEF StorageFits, Joined
  <2>4. row.status = "uploading"
    BY <2>2 DEF ReadsInv, HandlersFit, FreshFits, Joined, Intact
  <2> QED
    BY <1>4, <1>5, <2>3, <2>4 DEF Watchable
<1> QED
  BY <1>2, <1>3, <1>6, <1>7, <1>8, <1>9 DEF StorageFits, Joined


LEMMA SaveStorage ==
    ASSUME IInv, ReadsInv, ReadsInv', StorageFits, NEW p \in Procs,
           SaveCheck(p) \/ SaveFails(p) \/ SaveFailsDirty(p)
    PROVE  StorageFits'
<1>1. CASE SaveCheck(p)
  <2>1. /\ hs[p].pc = "save" /\ Goto(p, "write") /\ fresh' = fresh /\ row' = row
        /\ live' = live /\ files' = files /\ hls' = hls /\ stale' = stale /\ torn' = torn
    BY <1>1 DEF SaveCheck, historyVars, storageVars
  <2>2. PICK h : hs' = [hs EXCEPT ![p] = h] /\ h.pc = "write" /\ h.op = hs[p].op
                 /\ h.copy = hs[p].copy
    BY <2>1, GotoReads
  <2>3. Calm(p, h)
    BY <2>1, <2>2 DEF Calm, NewUpload, Undoing, Joined, Intact
  <2> QED
    BY <2>3, CalmStorage
<1>2. CASE SaveFailsDirty(p)
  BY <1>2 DEF SaveFailsDirty, StorageFits, Intact
<1>3. CASE SaveFails(p)
  <2>1. /\ Return(p, Refused(p)) /\ Refused(p) \in {"idle", "error"}
        /\ hs[p].pc \in {"save", "write"} /\ row' = row /\ live' = live /\ hls' = hls
        /\ (Intact' <=> Intact)
    BY <1>3 DEF SaveFails, SaveRefused, Refused, Intact
  <2>2. CASE hs[p].op = "upload"
    <3>1. PICK h : hs' = [hs EXCEPT ![p] = h] /\ h.op = "none"
      BY <2>1, StopReads DEF Return
    <3>2. files' = files \ {hs[p].copy.key}
      BY <1>3, <2>2 DEF SaveFails
    <3>3. NewUpload(hs[p]) /\ Newborn(hs[p]) /\ ~Undoing(hs[p])
      BY <2>1, <2>2 DEF NewUpload, Newborn, Undoing
    <3>4. Intact' => hs[p].copy.key # row.key
      BY <2>1, <3>3 DEF Intact, ReadsInv, HandlersFit, HandlerFits
    <3>5. \A q \in Procs : q # p /\ NewUpload(hs[q]) => hs[p].copy.key # hs[q].copy.key
      BY <3>3 DEF ReadsInv, KeysApart, NewUpload, Newborn
    <3>6. ~NewUpload(h) /\ ~Joined(h) /\ ~Undoing(h)
      BY <3>1 DEF NewUpload, Joined, Undoing
    <3>7. fresh' \subseteq fresh \union {p}
      BY <2>1 DEF Return
    <3> QED
      BY <2>1, <3>1, <3>2, <3>3, <3>4, <3>5, <3>6, <3>7, RemovedStorage
  <2>3. CASE hs[p].op # "upload"
    <3>1. files' = files /\ (hs[p].op = "start" \/ ~HalfDone(p))
      BY <1>3, <2>1, <2>3 DEF SaveFails, HalfDone, Undermines
    <3>2. CASE hs[p].op # "start"
      BY <2>1, <3>1, <3>2, ReturnStorage
    <3>3. CASE hs[p].op = "start"
      <4>1. PICK h : hs' = [hs EXCEPT ![p] = h] /\ h.op = "none"
        BY <2>1, StopReads DEF Return
      <4>2. Calm(p, h)
        BY <2>1, <3>1, <3>3, <4>1 DEF Calm, NewUpload, Undoing, Joined, Return
      <4> QED
        BY <4>2, CalmStorage
    <3> QED
      BY <3>2, <3>3
  <2> QED
    BY <2>2, <2>3
<1> QED
  BY <1>1, <1>2, <1>3

LEMMA WriteStorage ==
    ASSUME IInv, ReadsInv, ReadsInv', StorageFits, NEW p \in Procs, SaveWrite(p)
    PROVE  StorageFits'
<1> SUFFICES ASSUME Intact' PROVE StorageFits'
  BY DEF StorageFits
<1>1. PICK h : /\ hs' = [hs EXCEPT ![p] = h]
               /\ h.pc \in {"enqueue", "drop", "idle"}
               /\ fresh' = IF h.pc = "idle" THEN {} ELSE {p}
  BY WriteReads
<1>2. /\ hs[p].pc = "write" /\ row' = hs[p].copy /\ live' = TRUE /\ files' = files
      /\ hls' = hls /\ Intact /\ p \in fresh
  BY DEF SaveWrite, Intact, storageVars
<1>3. hs'[p] = h /\ \A q \in Procs : q # p => hs'[q] = hs[q]
  BY <1>1, TypesOf
<1>4. /\ live /\ FreshFits(hs[p], row) /\ Shaped(hs[p]) /\ RowFits(row)
      /\ HandlerFits(hs[p], row)
  BY <1>2 DEF ReadsInv, HandlersFit, Intact
<1>5. ~Undoing(hs[p]) /\ ~Undoing(h) /\ ~NewUpload(h)
  BY <1>1, <1>2 DEF Undoing, NewUpload
<1>6. Undermined => Undermined'
  BY <1>3, <1>5 DEF Undermined, Undermines, Undoing
<1>7. \A q \in Procs : NewUpload(hs'[q]) => hs'[q].copy.key \in files'
  BY <1>2, <1>3, <1>5 DEF StorageFits
<1>8. live' /\ hls' = "removed" => Undermined'
  BY <1>2, <1>4, <1>6 DEF StorageFits
<1>9. \A q \in fresh' : hs'[q].pc \notin {"folder", "tasks", "row", "save", "write"}
  BY <1>1, <1>3
<1>10. /\ \A f \in files' : \/ f = row'.key
                            \/ \E q \in Procs : NewUpload(hs'[q]) /\ hs'[q].copy.key = f
       /\ row'.status \in {"processing", "error"} => row'.key \in files' \/ Undermined'
  \* The row gets its key: nothing else is in storage.
  <2>1. CASE Newborn(hs[p])
    <3>1. row.key = NoKey /\ row.key \notin files
      BY <1>2, <1>4, <2>1, TypesOf, LifecycleConstants DEF FreshFits, RowFits, Newborn
    <3>2. \A f \in files' : \E q \in Procs : NewUpload(hs[q]) /\ hs[q].copy.key = f
      BY <1>2, <3>1 DEF StorageFits
    <3>3. hs[p].op = "upload" => hs[p].copy.key \in files
      BY <1>2 DEF StorageFits, NewUpload
    <3>4. hs[p].op # "upload" => row'.status = "uploading"
      BY <1>2, <1>4, <2>1 DEF Shaped, Newborn
    <3> QED
      BY <1>2, <1>3, <3>2, <3>3, <3>4
  \* The row keeps its key, and with it its object.
  <2>2. CASE ~Newborn(hs[p])
    <3>1. row'.key = row.key /\ ~NewUpload(hs[p])
      BY <1>2, <1>4, <2>2 DEF FreshFits, Newborn, NewUpload
    <3>2. \A f \in files' : \/ f = row'.key
                            \/ \E q \in Procs : NewUpload(hs'[q]) /\ hs'[q].copy.key = f
      BY <1>2, <1>3, <3>1 DEF StorageFits
    <3>3. ASSUME row'.status \in {"processing", "error"}
          PROVE  row.status \in {"processing", "error"} \/ Joined(hs[p])
      <4>1. Follows(row.status, row'.status)
        BY <1>2, <1>4 DEF FreshFits
      <4>2. row'.status = "processing" /\ row.status \in {"draft", "uploading"}
                => hs[p].op = "complete"
        BY <1>2, <1>4, <2>2 DEF FreshFits, Beyond, Newborn
      <4> QED
        BY <1>2, <3>3, <4>1, <4>2 DEF Follows, Joined
    <3>4. row'.status \in {"processing", "error"} => row.key \in files \/ Undermined
      BY <1>2, <1>4, <3>3 DEF StorageFits, Joined
    <3> QED
      BY <1>2, <1>6, <3>1, <3>2, <3>4
  <2> QED
    BY <2>1, <2>2
<1> QED
  BY <1>2, <1>7, <1>8, <1>9, <1>10 DEF StorageFits

LEMMA QueueStorage ==
    ASSUME IInv, ReadsInv, ReadsInv', StorageFits, NEW p \in Procs,
           Enqueue(p) \/ EnqueueFails(p) \/ SourceExists(p)
    PROVE  StorageFits'
<1>1. /\ row' = row /\ live' = live /\ files' = files /\ hls' = hls
      /\ hs[p].pc \in {"enqueue", "exists"} /\ (Intact' <=> Intact)
  BY DEF Enqueue, EnqueueFails, SourceExists, storageVars, historyVars, Intact
<1>2. ~NewUpload(hs[p]) /\ ~Undoing(hs[p]) /\ ~HalfDone(p)
  BY <1>1 DEF NewUpload, Undoing, HalfDone, Undermines
<1>3. CASE Return(p, "idle")
  BY <1>1, <1>2, <1>3, ReturnStorage
<1>4. ASSUME NEW h, hs' = [hs EXCEPT ![p] = h], h.pc \in {"enqueue", "save"},
             fresh' = fresh, ~NewUpload(h), ~Joined(h)
      PROVE  StorageFits'
  <2>1. Calm(p, h)
    BY <1>1, <1>2, <1>4 DEF Calm, Undoing
  <2> QED
    BY <2>1, CalmStorage
<1> DEFINE k == NextType(hs[p].todo)
<1>5. ASSUME NEW entry \in EntryType, ~entry.failed, hs[p].pc = "enqueue",
             Record(p, k, entry), fresh' = fresh
      PROVE  StorageFits'
  <2>1. k \in TaskTypes
    BY <1>5, NextTypeLeft, TypesOf DEF IInv, TypeOK, HandlerType
  <2>2. PICK h : /\ Sits(p, h) /\ h.pc \in {"save", "enqueue"} /\ ~NewUpload(h)
                 /\ h.op \in {"delete", "complete"} => h.pc = "enqueue"
    BY <1>5, <2>1, RecordSits
  <2>3. ~Joined(h)
    BY <2>2 DEF Joined
  <2> QED
    BY <1>4, <1>5, <2>2, <2>3 DEF Sits
<1>6. ASSUME NEW id \in JobIds \union {NoJob} PROVE Entry(id) \in EntryType /\ ~Entry(id).failed
  BY EntryTypes DEF Entry
<1>7. CASE Enqueue(p)
  <2>1. PICK j \in FreeIds(p, k) : Stores(p, j) /\ Record(p, k, Entry(j))
    BY <1>7 DEF Enqueue
  <2>2. fresh' = fresh /\ hs[p].pc = "enqueue"
    BY <1>7 DEF Enqueue, historyVars
  <2>3. k \in TaskTypes
    BY <2>2, NextTypeLeft, TypesOf DEF IInv, TypeOK, HandlerType
  <2>4. j \in JobIds
    BY <2>1, <2>3, StoresType
  <2> HIDE DEF k
  <2> QED
    BY <1>5, <1>6, <2>1, <2>2, <2>4
<1>8. CASE EnqueueFails(p)
  <2>1. hs[p].pc = "enqueue" /\ \/ Return(p, "idle")
                                \/ Record(p, k, Entry(NoJob)) /\ fresh' = fresh
    BY <1>8 DEF EnqueueFails
  <2> HIDE DEF k
  <2> QED
    BY <1>3, <1>5, <1>6, <2>1
<1>9. CASE SourceExists(p)
  <2>1. CASE fresh' = fresh /\ ~Return(p, "idle")
    <3>1. hs'[p].pc = "enqueue"
      BY <1>9, <2>1, TypesOf DEF SourceExists, HandlerType
    <3>2. PICK h : Sits(p, h) /\ h.pc = "enqueue"
      BY <1>9, <2>1, <3>1, ExistsSits
    <3>3. ~NewUpload(h) /\ ~Joined(h)
      BY <3>2 DEF NewUpload, Joined
    <3> QED
      BY <1>4, <2>1, <3>2, <3>3 DEF Sits
  <2> QED
    BY <1>3, <1>9, <2>1 DEF SourceExists
<1> QED
  BY <1>7, <1>8, <1>9

LEMMA DeleteStorage ==
    ASSUME IInv, ReadsInv, ReadsInv', StorageFits, NEW p \in Procs,
           \/ DeleteSource(p) \/ DeleteSourceFails(p) \/ DeleteFolder(p)
           \/ TerminateTasks(p) \/ DeleteRow(p) \/ DeleteRowFails(p)
    PROVE  StorageFits'
<1>1. Shaped(hs[p]) /\ hs[p].pc \in {"source", "folder", "tasks", "row"}
  BY DEF ReadsInv, DeleteSource, DeleteSourceFails, DeleteFolder, TerminateTasks,
         DeleteRow, DeleteRowFails
<1>2. hs[p].op = "delete" /\ ~NewUpload(hs[p]) /\ ~Newborn(hs[p])
  BY <1>1 DEF Shaped, NewUpload, Newborn
<1>3. CASE DeleteSource(p)
  <2>1. /\ Goto(p, AfterSource(hs[p].copy)) /\ files' = files \ {hs[p].copy.key}
        /\ row' = row /\ live' = live /\ hls' = hls /\ fresh' = fresh /\ (Intact' <=> Intact)
    BY <1>3 DEF DeleteSource, historyVars, Intact
  <2>2. PICK h : hs' = [hs EXCEPT ![p] = h] /\ h.pc = AfterSource(hs[p].copy) /\ h.op = hs[p].op
    BY <2>1, GotoReads
  <2>3. Undoing(h) /\ ~NewUpload(h) /\ ~Joined(h)
    BY <1>2, <2>2 DEF AfterSource, Undoing, NewUpload, Joined
  <2>4. ASSUME Intact
        PROVE  /\ \A q \in Procs : q # p /\ NewUpload(hs[q]) => hs[p].copy.key # hs[q].copy.key
               /\ p \in fresh' => hs[p].copy.key = row.key
    BY <1>2, <2>1, <2>4
       DEF Intact, ReadsInv, HandlersFit, HandlerFits, FreshFits, NewUpload, Newborn
  <2> QED
    BY <1>2, <2>1, <2>2, <2>3, <2>4, RemovedStorage
<1>4. CASE DeleteSourceFails(p)
  <2>1. /\ Return(p, "idle") /\ row' = row /\ live' = live /\ files' = files /\ hls' = hls
        /\ (Intact' <=> Intact) /\ hs[p].pc = "source"
    BY <1>4 DEF DeleteSourceFails, storageVars, Intact
  <2>2. ~HalfDone(p)
    BY <2>1 DEF HalfDone, Undermines
  <2> QED
    BY <2>1, <2>2, ReturnStorage
<1>5. CASE DeleteFolder(p) \/ TerminateTasks(p)
  <2>1. /\ Goto(p, "row") /\ row' = row /\ live' = live /\ files' = files /\ fresh' = fresh
        /\ (Intact' <=> Intact) /\ hs[p].pc \in {"folder", "tasks"}
    BY <1>5 DEF DeleteFolder, TerminateTasks, storageVars, historyVars, Intact
  <2>2. PICK h : hs' = [hs EXCEPT ![p] = h] /\ h.pc = "row" /\ h.op = hs[p].op
    BY <2>1, GotoReads
  <2>3. Undoing(hs[p]) /\ Undoing(h) /\ ~NewUpload(h) /\ ~Joined(h)
    BY <1>2, <2>1, <2>2 DEF Undoing, NewUpload, Joined
  <2>4. Calm(p, h)
    BY <1>2, <2>1, <2>2, <2>3 DEF Calm
  <2> QED
    BY <2>4, CalmStorage
<1>6. CASE DeleteRow(p)
  <2> SUFFICES ASSUME Intact' PROVE StorageFits'
    BY DEF StorageFits
  <2>1. /\ Stop(p, "idle") /\ fresh' = {} /\ row' = row /\ ~live' /\ files' = files
        /\ Intact /\ (live => p \in fresh) /\ hs[p].pc = "row"
    BY <1>6 DEF DeleteRow, storageVars, Intact
  <2>2. PICK h : hs' = [hs EXCEPT ![p] = h] /\ h.op = "none"
    BY <2>1, StopReads
  <2>3. hs'[p] = h /\ ~NewUpload(h) /\ \A q \in Procs : q # p => hs'[q] = hs[q]
    BY <2>2, TypesOf DEF NewUpload
  <2>4. live => row.key \notin files
    BY <2>1 DEF StorageFits
  <2>5. \A f \in files' : \E q \in Procs : NewUpload(hs'[q]) /\ hs'[q].copy.key = f
    BY <1>2, <2>1, <2>3, <2>4 DEF StorageFits
  <2>6. \A q \in Procs : NewUpload(hs'[q]) => hs'[q].copy.key \in files'
    BY <2>1, <2>3 DEF StorageFits
  <2> QED
    BY <2>1, <2>5, <2>6 DEF StorageFits
<1>7. CASE DeleteRowFails(p)
  <2>1. /\ Return(p, "idle") /\ row' = row /\ live' = live /\ files' = files /\ hls' = hls
        /\ (Intact' => Intact /\ ~live) /\ hs[p].pc = "row"
    BY <1>7 DEF DeleteRowFails, storageVars, Intact
  <2>2. Intact' => ~HalfDone(p)
    BY <1>2, <2>1 DEF HalfDone
  <2> QED
    BY <2>1, <2>2, ReturnStorage
<1> QED
  BY <1>3, <1>4, <1>5, <1>6, <1>7

LEMMA DropStorage ==
    ASSUME IInv, ReadsInv, ReadsInv', StorageFits, NEW p \in Procs, DropSource(p) \/ Abort(p)
    PROVE  StorageFits'
<1>1. CASE DropSource(p)
  <2>1. /\ row' = row /\ live' = live /\ hls' = hls /\ hs[p].pc = "drop"
        /\ (Intact' <=> Intact)
        /\ files' = files \/ files' = files \ {hs[p].copy.key}
    BY <1>1 DEF DropSource, Intact
  <2>2. PICK pc \in {"idle", "error"} : Return(p, pc)
    BY <1>1 DEF DropSource
  <2>3. ~HalfDone(p) /\ ~NewUpload(hs[p]) /\ ~Newborn(hs[p]) /\ ~Undoing(hs[p])
    BY <2>1 DEF HalfDone, NewUpload, Newborn, Undermines, Undoing
  <2>4. CASE files' = files
    BY <2>1, <2>2, <2>3, <2>4, ReturnStorage
  <2>5. CASE files' = files \ {hs[p].copy.key}
    <3>1. PICK h : hs' = [hs EXCEPT ![p] = h] /\ h.op = "none"
      BY <2>2, StopReads DEF Return
    <3>2. ~NewUpload(h) /\ ~Joined(h) /\ ~Undoing(h) /\ fresh' \subseteq fresh \union {p}
      BY <2>2, <3>1 DEF NewUpload, Joined, Undoing, Return
    <3>3. ASSUME Intact
          PROVE  /\ row.status \in Watchable
                 /\ \A q \in Procs : q # p /\ NewUpload(hs[q])
                                         => hs[p].copy.key # hs[q].copy.key
      BY <2>1, <2>3, <3>3 DEF Intact, ReadsInv, HandlersFit, HandlerFits, NewUpload, Newborn
    <3> QED
      BY <2>1, <2>3, <2>5, <3>1, <3>2, <3>3, RemovedStorage
  <2> QED
    BY <2>1, <2>4, <2>5
<1>2. CASE Abort(p)
  <2>1. /\ Return(p, Refused(p)) /\ Refused(p) \in {"idle", "error"}
        /\ row' = row /\ live' = live /\ files' = files /\ hls' = hls
        /\ (Intact' => Intact /\ ~HalfDone(p))
    BY <1>2 DEF Abort, Refused, storageVars, Intact
  <2> QED
    BY <2>1, ReturnStorage
<1> QED
  BY <1>1, <1>2

LEMMA BeginStorage ==
    ASSUME IInv, ReadsInv, ReadsInv', StorageFits, NEW p \in Procs, NEW op, NEW k,
           Begin(p, op, k), hs[p].pc = "idle",
           row' = row, live' = live, files' = files, hls' = hls, Intact' <=> Intact
    PROVE  StorageFits'
<1>1. PICK h : hs' = [hs EXCEPT ![p] = h] /\ h.op = op /\ h.pc = FirstStep(op)
  BY BeginReads
<1>2. ~NewUpload(h) /\ ~Undoing(h) /\ ~Joined(h)
  BY <1>1 DEF FirstStep, NewUpload, Undoing, Joined
<1>3. ~NewUpload(hs[p]) /\ ~Undoing(hs[p])
  BY DEF NewUpload, Undoing
<1>4. Calm(p, h)
  BY <1>1, <1>2, <1>3 DEF Calm, Begin
<1> QED
  BY <1>4, CalmStorage

LEMMA WorkerStorage ==
    ASSUME IInv, ReadsInv, ReadsInv', StorageFits, NEW j \in JobIds, WorkerStep(j)
    PROVE  StorageFits'
<1>1. /\ j \in Procs /\ row' = row /\ live' = live /\ files' = files
      /\ hls' = hls \/ hls' = "built"
      /\ (Intact' <=> Intact)
  BY DEF Procs, WorkerStep, WorkerStart, WorkerSucceeds, WorkerFails, WorkerCalls,
         WorkerEnds, WorkerGivesUp, storageVars, historyVars, Intact
<1>2. CASE hs' = hs /\ fresh' = fresh
  <2>1. hs' = [hs EXCEPT ![j] = hs[j]]
    BY <1>1, <1>2, TypesOf
  <2>2. Calm(j, hs[j])
    BY <1>1, <1>2, <2>1 DEF Calm
  <2> QED
    BY <1>1, <2>2, CalmStorage
<1>3. CASE WorkerCalls(j)
  <2>1. /\ hs[j].pc = "idle" /\ hls' = hls
        /\ Begin(j, Head(job[j].calls), j[1]) \/ Return(j, "error")
    BY <1>3 DEF WorkerCalls, storageVars
  <2>2. ~HalfDone(j)
    BY <2>1 DEF HalfDone, Undermines
  <2> QED
    BY <1>1, <2>1, <2>2, BeginStorage, ReturnStorage
<1>4. CASE WorkerGivesUp(j)
  <2>1. hs[j].pc = "error" /\ hls' = hls /\ Return(j, "idle")
    BY <1>4 DEF WorkerGivesUp, storageVars
  <2>2. ~HalfDone(j)
    BY <2>1 DEF HalfDone, Undermines
  <2> QED
    BY <1>1, <2>1, <2>2, ReturnStorage
<1> QED
  BY <1>2, <1>3, <1>4 DEF WorkerStep, WorkerStart, WorkerSucceeds, WorkerFails, WorkerEnds,
                          historyVars

LEMMA StorageInit == Init => StorageFits
<1> SUFFICES ASSUME Init PROVE StorageFits
  OBVIOUS
<1>1. \A p \in Procs : hs[p].op = "none"
  BY DEF Init, Idle
<1>2. /\ files = {} /\ fresh = {} /\ hls = "none" /\ row.status = "draft"
  BY DEF Init, Draft
<1> QED
  BY <1>1, <1>2 DEF NewUpload, StorageFits

LEMMA StorageStep ==
    ASSUME IInv, ReadsInv, ReadsInv', StorageFits, [CrashNext]_vars PROVE StorageFits'
<1>1. CASE UNCHANGED vars
  BY <1>1 DEF vars, StorageFits, Intact, Undermined, Undermines, NewUpload
<1>2. ASSUME NEW p \in Owners, OwnerBegin(p) PROVE StorageFits'
  <2>1. PICK op \in Ops : Begin(p, op, "none")
    BY <1>2 DEF OwnerBegin
  <2>2. /\ p \in Procs /\ hs[p].pc = "idle" /\ row' = row /\ live' = live
        /\ files' = files /\ hls' = hls /\ (Intact' <=> Intact)
    BY <1>2 DEF OwnerBegin, Procs, storageVars, Intact
  <2> QED
    BY <2>1, <2>2, BeginStorage
<1>3. ASSUME NEW p \in Procs, HandlerStep(p) PROVE StorageFits'
  <2>1. CASE StoreRefused(p)
    <3>1. /\ Return(p, "idle") /\ row' = row /\ live' = live /\ files' = files /\ hls' = hls
          /\ (Intact' <=> Intact) /\ hs[p].pc = "store"
      BY <2>1 DEF StoreRefused, storageVars, Intact
    <3>2. ~HalfDone(p)
      BY <3>1 DEF HalfDone, Undermines
    <3> QED
      BY <3>1, <3>2, ReturnStorage
  <2> QED
    BY <1>3, <2>1, NewStorage, CompleteStorage, SaveStorage, WriteStorage, QueueStorage,
       DeleteStorage, DropStorage DEF HandlerStep
<1>4. ASSUME NEW p \in Procs, Abort(p) PROVE StorageFits'
  BY <1>4, DropStorage
<1>5. ASSUME NEW j \in JobIds, WorkerStep(j) PROVE StorageFits'
  BY <1>5, WorkerStorage
<1> QED
  BY <1>1, <1>2, <1>3, <1>4, <1>5 DEF CrashNext, Next

LEMMA OverlapInvariant == CrashSpec => []OverlapInv
<1>1. IInv /\ ReadsInv /\ ReadsInv' /\ StorageFits /\ [CrashNext]_vars => StorageFits'
  BY StorageStep
<1> QED
  BY <1>1, StorageInit, Invariant, ReadsInvariant, PTL DEF CrashSpec, OverlapInv

\* Between handlers storage holds nothing the row does not name, unless a call
\* that should have taken it away failed or was never made.
THEOREM NothingOrphaned == CrashSpec => []NoOrphanFile
<1>1. IInv /\ OverlapInv => NoOrphanFile
  <2> SUFFICES ASSUME IInv, OverlapInv, Intact, Busy = {}
               PROVE  files \subseteq (IF live THEN {row.key} ELSE {})
    BY DEF NoOrphanFile
  <2>1. \A q \in Procs : ~NewUpload(hs[q])
    BY DEF Busy, NewUpload
  <2> QED
    BY <2>1 DEF OverlapInv, StorageFits
<1> QED
  BY <1>1, Invariant, OverlapInvariant, PTL

\* A stream in error still has its source, whatever deletions, uploads and
\* reports overlapped on the way.
THEOREM ErrorsAreRetryable == CrashSpec => []ErrorIsRetryable
<1>1. OverlapInv => ErrorIsRetryable
  <2> SUFFICES ASSUME OverlapInv, Intact, Busy = {}, live, row.status = "error"
               PROVE  row.key \in files
    BY DEF ErrorIsRetryable, Quiet
  <2>1. ~Undermined
    BY DEF Busy, Undermined, Undermines
  <2> QED
    BY <2>1 DEF OverlapInv, StorageFits
<1> QED
  BY <1>1, OverlapInvariant, PTL

\* A stream that can be watched still has its source or its HLS.
THEOREM FacesFindInput == CrashSpec => []FacesHaveInput
<1>1. IInv /\ OverlapInv => FacesHaveInput
  <2> SUFFICES ASSUME IInv, OverlapInv, Intact, Busy = {}, live, row.status \in Watchable
               PROVE  hls = "built"
    BY DEF FacesHaveInput, Quiet
  <2>1. ~Undermined
    BY DEF Busy, Undermined, Undermines
  <2>2. hls # "removed"
    BY <2>1 DEF OverlapInv, StorageFits
  <2>3. hls # "none"
    BY DEF IInv, WatchableHasHLS
  <2> QED
    BY <2>2, <2>3, TypesOf
<1> QED
  BY <1>1, Invariant, OverlapInvariant, PTL

=============================================================================
