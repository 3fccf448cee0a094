----------------------- MODULE StreamLifecycle_proofs -----------------------
(***************************************************************************)
(* Proofs about StreamLifecycle, for every number of handlers, tasks and   *)
(* keys, every fault and every interleaving.                               *)
(***************************************************************************)
EXTENDS StreamLifecycle, TLAPS

-----------------------------------------------------------------------------
(* The operators of the model.                                             *)

\* A processing entry that names a task is an entry.
EntryType == [there : BOOLEAN, id : JobIds \union {NoJob}, failed : BOOLEAN]

LEMMA EntryTypes ==
    /\ NoEntry \in EntryType
    /\ \A id \in JobIds \union {NoJob} : Entry(id) \in EntryType
BY DEF EntryType, NoEntry, Entry

LEMMA DraftType == Draft \in RowType /\ Draft.status = "draft"
BY EntryTypes DEF Draft, RowType, EntryType, Statuses

LEMMA IdleType ==
    ASSUME NEW pc \in {"idle", "error"}
    PROVE  /\ [Idle EXCEPT !.pc = pc] \in HandlerType
           /\ [Idle EXCEPT !.pc = pc].pc = pc
           /\ [Idle EXCEPT !.pc = pc].op = "none"
           /\ [Idle EXCEPT !.pc = pc].copy = Draft
BY DraftType DEF Idle, HandlerType

\* A report's edits of the processing array give a row.
LEMMA RowTasks ==
    ASSUME NEW r \in RowType, NEW k, NEW b \in BOOLEAN
    PROVE  [r.tasks EXCEPT ![k] = [@ EXCEPT !.there = TRUE, !.failed = b]]
               \in [TaskTypes -> EntryType]
<1>1. r.tasks \in [TaskTypes -> EntryType]
  BY DEF RowType, EntryType
<1>2. CASE k \in TaskTypes
  <2>1. r.tasks[k] \in EntryType
    BY <1>1, <1>2
  <2>2. [r.tasks[k] EXCEPT !.there = TRUE, !.failed = b] \in EntryType
    BY <2>1 DEF EntryType
  <2> QED
    BY <1>1, <1>2, <2>2
<1>3. CASE k \notin TaskTypes
  BY <1>1, <1>3
<1> QED
  BY <1>2, <1>3

LEMMA MarkFailedType ==
    ASSUME NEW r \in RowType, NEW k
    PROVE  /\ MarkFailed(r, k) \in RowType
           /\ MarkFailed(r, k).status \in Watchable => r.status \in Watchable
<1> DEFINE tasks == [r.tasks EXCEPT ![k] = [@ EXCEPT !.there = TRUE, !.failed = TRUE]]
           status == IF k = "transcode" /\ r.status = "processing"
                     THEN "error" ELSE r.status
<1>1. tasks \in [TaskTypes -> EntryType]
  BY RowTasks
<1>2. MarkFailed(r, k) = [r EXCEPT !.tasks = tasks, !.status = status]
  BY DEF MarkFailed, RowType
<1>3. status \in Statuses /\ (status \in Watchable => r.status \in Watchable)
  BY DEF RowType, Statuses, Watchable
<1> HIDE DEF tasks, status
<1> QED
  BY <1>1, <1>2, <1>3 DEF RowType, EntryType

LEMMA MarkDoneType ==
    ASSUME NEW r \in RowType, NEW k
    PROVE  /\ MarkStarted(r, k) \in RowType /\ MarkDone(r, k) \in RowType
           /\ MarkStarted(r, k).status = r.status /\ MarkDone(r, k).status = r.status
<1> DEFINE tasks == [r.tasks EXCEPT ![k] = [@ EXCEPT !.there = TRUE, !.failed = FALSE]]
           faces == r.faces \/ k = "faces"
<1>1. tasks \in [TaskTypes -> EntryType]
  BY RowTasks
<1>2. MarkStarted(r, k) = [r EXCEPT !.tasks = tasks]
  BY DEF MarkStarted, RowType
<1>3. MarkDone(r, k) = [r EXCEPT !.tasks = tasks, !.faces = faces]
  BY <1>2 DEF MarkDone, RowType
<1>4. faces \in BOOLEAN
  BY DEF RowType
<1> HIDE DEF tasks, faces
<1> QED
  BY <1>1, <1>2, <1>3, <1>4 DEF RowType, EntryType

\* The copy a handler goes on with is a row, and one that was not watchable
\* becomes so by a "ready" report only.
LEMMA EditedType ==
    ASSUME NEW r \in RowType, NEW op, NEW k, Allowed(op, r)
    PROVE  /\ Edited(op, r, k) \in RowType
           /\ Edited(op, r, k).status \in Watchable
                 => r.status \in Watchable \/ op = "ready"
<1>1. CASE op = "failure"
  BY <1>1, MarkFailedType DEF Edited
<1>2. CASE op \in {"started", "progress"}
  BY <1>2, MarkDoneType DEF Edited
<1>3. CASE op \notin {"failure", "started", "progress"}
  BY <1>3 DEF Edited, Allowed, RowType, Statuses, Watchable
<1> QED
  BY <1>1, <1>2, <1>3

\* The type queued next is one of those left.
LEMMA NextTypeLeft ==
    ASSUME NEW todo \in SUBSET TaskTypes, todo # {}
    PROVE  NextType(todo) \in todo
<1>1. TaskTypes \subseteq {"transcode", "thumbnail", "faces"}
  BY LifecycleConstants
<1> QED
  BY <1>1 DEF NextType

\* A list of reports loses its head.
LEMMA OneLeft ==
    ASSUME NEW x \in Reports
    PROVE  <<x>> # <<>> /\ Head(<<x>>) = x /\ Tail(<<x>>) = <<>>
OBVIOUS

LEMMA CallsLeft ==
    ASSUME NEW c \in Calls, c # <<>>
    PROVE  /\ Head(c) \in Reports
           /\ Tail(c) \in Calls
           /\ Tail(c) \in ReadyCalls \/ Head(c) = "ready" => c \in ReadyCalls
<1>1. CASE \E x \in Reports : c = <<x>>
  <2>1. PICK x \in Reports : c = <<x>>
    BY <1>1
  <2>2. Head(c) = x /\ Tail(c) = <<>>
    BY <2>1, OneLeft
  <2>3. <<>> \in Calls /\ <<>> \notin ReadyCalls
    BY DEF Calls, ReadyCalls
  <2>4. <<"ready">> \in ReadyCalls
    BY DEF ReadyCalls
  <2> QED
    BY <2>1, <2>2, <2>3, <2>4
<1>2. CASE c = <<"progress", "ready">>
  BY <1>2 DEF Calls, ReadyCalls, Reports
<1>3. CASE c = <<"metadata", "progress", "ready">>
  BY <1>3 DEF Calls, ReadyCalls, Reports
<1> QED
  BY <1>1, <1>2, <1>3 DEF Calls, Reports

LEMMA CallsApart ==
    /\ {<<>>, <<"started">>, <<"failure">>, <<"progress">>} \subseteq Calls
    /\ <<"metadata", "progress", "ready">> \in Calls
    /\ <<>> \notin ReadyCalls /\ <<"failure">> \notin ReadyCalls
    /\ <<"started">> \notin ReadyCalls /\ <<"progress">> \notin ReadyCalls
BY DEF Calls, ReadyCalls

\* A rerun keeps a task's type and leaves it no report to make.
LEMMA AgainType ==
    ASSUME NEW t \in JobType, NEW last \in {"failed", "lost", "cancelled"}
    PROVE  Again(t, last) \in JobType /\ Again(t, last).calls = <<>>
<1>1. MaxRetry \in Nat
  BY LifecycleConstants
<1>2. <<>> \in Calls
  BY CallsApart
<1>3. CASE t.reruns > 0
  <2>1. Again(t, last) = [t EXCEPT !.stage = "queued", !.calls = <<>>, !.reruns = @ - 1]
    BY <1>3 DEF Again
  <2>2. t.reruns - 1 \in 0..MaxRetry
    BY <1>1, <1>3 DEF JobType
  <2> QED
    BY <1>2, <2>1, <2>2 DEF JobType
<1>4. CASE ~(t.reruns > 0)
  BY <1>2, <1>4 DEF Again, JobType
<1> QED
  BY <1>3, <1>4

-----------------------------------------------------------------------------
(* The inductive invariant: types, and the two facts WatchableHasHLS needs. *)

IInv == TypeOK /\ ReprocessHasWork /\ WatchableHasHLS /\ ReadyIsReported

\* What TypeOK says of the history.
HistoryType == fresh \subseteq Procs /\ stale \in BOOLEAN /\ torn \in BOOLEAN

\* What IInv says of one handler.
Sound(h) ==
    /\ h \in HandlerType
    /\ h.pc = "enqueue" => h.todo # {}
    /\ h.op = "faces" => "faces" \in TaskTypes
    /\ h.pc = "exists" => \/ h.op = "faces"
                          \/ h.op = "reprocess" /\ Failed(h.copy) # {}
    /\ h.copy.status \in Watchable => hls # "none"

LEMMA SoundHandlers == IInv <=> /\ row \in RowType /\ live \in BOOLEAN
                                /\ files \subseteq Keys /\ multis \subseteq Keys
                                /\ hls \in {"none", "built", "removed"}
                                /\ job \in [JobIds -> JobType]
                                /\ hs \in [Procs -> HandlerType]
                                /\ \A p \in Procs : Sound(hs[p])
                                /\ row.status \in Watchable => hls # "none"
                                /\ ReadyIsReported /\ HistoryType
BY DEF HistoryType, IInv, TypeOK, ReprocessHasWork, WatchableHasHLS, Sound

\* A handler that returns is sound, and one that goes on to a call which asks
\* nothing of it stays so.
LEMMA SoundMoves ==
    ASSUME NEW h, Sound(h)
    PROVE  /\ \A pc \in {"idle", "error"} : Sound([Idle EXCEPT !.pc = pc])
           /\ \A pc \in {"save", "write", "source", "folder", "tasks", "row",
                         "drop", "idle", "error"} :
                 Sound([h EXCEPT !.pc = pc])
<1>1. ASSUME NEW pc \in {"idle", "error"}
      PROVE  Sound([Idle EXCEPT !.pc = pc])
  <2>1. "draft" \notin Watchable
    BY DEF Watchable
  <2> QED
    BY <2>1, IdleType, DraftType DEF Sound
<1>2. ASSUME NEW pc \in {"save", "write", "source", "folder", "tasks", "row",
                         "drop", "idle", "error"}
      PROVE  Sound([h EXCEPT !.pc = pc])
  BY DEF Sound, HandlerType
<1> QED
  BY <1>1, <1>2

\* One handler moves and stays sound, the rest of the state keeps its part.
LEMMA HandlerMoves ==
    ASSUME IInv, NEW p \in Procs, NEW h, Sound(h),
           hs' = [hs EXCEPT ![p] = h],
           hls' \in {"none", "built", "removed"}, hls # "none" => hls' # "none",
           row' \in RowType, row'.status \in Watchable => hls # "none",
           live' \in BOOLEAN, files' \subseteq Keys, multis' \subseteq Keys,
           job' \in [JobIds -> JobType],
           \A j \in JobIds : job'[j].calls \in ReadyCalls => hls' # "none",
           HistoryType'
    PROVE  IInv'
<1>1. hs \in [Procs -> HandlerType] /\ \A q \in Procs : Sound(hs[q])
  BY SoundHandlers
<1>2. h \in HandlerType
  BY DEF Sound
<1>3. hs' \in [Procs -> HandlerType] /\ \A q \in Procs : Sound(hs'[q])
  BY <1>1, <1>2
<1>4. TypeOK'
  BY <1>3 DEF TypeOK, HistoryType, IInv, Sound
<1>5. ReprocessHasWork' /\ WatchableHasHLS' /\ ReadyIsReported'
  BY <1>3 DEF ReprocessHasWork, WatchableHasHLS, ReadyIsReported, Sound
<1> QED
  BY <1>4, <1>5 DEF IInv

\* The same for the handlers that leave row, folder and tasks alone.
LEMMA HandlerOnly ==
    ASSUME IInv, NEW p \in Procs, NEW h, Sound(h),
           hs' = [hs EXCEPT ![p] = h], UNCHANGED <<row, live, hls, job>>,
           files' \subseteq Keys, multis' \subseteq Keys, HistoryType'
    PROVE  IInv'
BY HandlerMoves DEF IInv, TypeOK, WatchableHasHLS, ReadyIsReported

\* Going on or returning, and nothing else.
LEMMA Goes ==
    ASSUME IInv, NEW p \in Procs,
           \/ \E pc \in {"idle", "error"} : Stop(p, pc)
           \/ \E pc \in {"save", "write", "source", "folder", "tasks", "row",
                          "drop", "idle", "error"} : Goto(p, pc)
    PROVE  \E h : Sound(h) /\ hs' = [hs EXCEPT ![p] = h]
<1>1. Sound(hs[p]) /\ hs \in [Procs -> HandlerType]
  BY SoundHandlers
<1>2. CASE \E pc \in {"idle", "error"} : Stop(p, pc)
  BY <1>1, <1>2, SoundMoves DEF Stop
<1>3. CASE \E pc \in {"save", "write", "source", "folder", "tasks", "row",
                        "drop", "idle", "error"} : Goto(p, pc)
  <2>1. PICK pc \in {"save", "write", "source", "folder", "tasks", "row",
                     "drop", "idle", "error"} : Goto(p, pc)
    BY <1>3
  <2>2. hs' = [hs EXCEPT ![p] = [hs[p] EXCEPT !.pc = pc]]
    BY <1>1, <2>1 DEF Goto
  <2> QED
    BY <1>1, <2>2, SoundMoves
<1> QED
  BY <1>2, <1>3

-----------------------------------------------------------------------------
(* One lemma per kind of step.                                             *)

\* Every step but its own bookkeeping leaves the history a history.
LEMMA HistoryKept ==
    ASSUME IInv, [CrashNext]_vars
    PROVE  HistoryType'
<1> USE DEF HistoryType
<1>1. HistoryType
  BY SoundHandlers
<1>2. Owners \subseteq Procs /\ JobIds \subseteq Procs
  BY DEF Procs
<1>3. CASE \E p \in Owners : OwnerBegin(p)
  BY <1>1, <1>2, <1>3, Zenon DEF OwnerBegin, Begin
<1>4. ASSUME NEW p \in Procs, HandlerStep(p) \/ Abort(p) PROVE HistoryType'
  <2>1. fresh' \in {fresh, fresh \ {p}, {p}, {}}
    <3>1. CASE StoreNew(p) \/ StoreComplete(p) \/ StoreRefused(p)
      BY <3>1 DEF StoreNew, StoreComplete, StoreRefused, Return, historyVars
    <3>2. CASE SaveCheck(p) \/ SaveWrite(p) \/ SaveFails(p) \/ SaveFailsDirty(p)
      BY <3>2 DEF SaveCheck, SaveWrite, SaveFails, SaveFailsDirty, SaveRefused,
                  Return, historyVars
    <3>3. CASE Enqueue(p) \/ EnqueueFails(p) \/ SourceExists(p)
      BY <3>3 DEF Enqueue, EnqueueFails, SourceExists, Return, historyVars
    <3>4. CASE \/ DeleteSource(p) \/ DeleteSourceFails(p) \/ DeleteFolder(p)
               \/ TerminateTasks(p) \/ DeleteRow(p) \/ DeleteRowFails(p)
               \/ DropSource(p) \/ Abort(p)
      BY <3>4 DEF DeleteSource, DeleteSourceFails, DeleteFolder, TerminateTasks,
                  DeleteRow, DeleteRowFails, DropSource, Abort, Return, historyVars
    <3> QED
      BY <1>4, <3>1, <3>2, <3>3, <3>4 DEF HandlerStep
  <2>2. stale' \in BOOLEAN /\ torn' \in BOOLEAN
    <3>1. CASE StoreNew(p) \/ StoreComplete(p) \/ StoreRefused(p)
      BY <1>1, <3>1, Zenon DEF StoreNew, StoreComplete, StoreRefused, historyVars
    <3>2. CASE SaveCheck(p) \/ SaveWrite(p) \/ SaveFails(p) \/ SaveFailsDirty(p)
      BY <1>1, <3>2, Zenon DEF SaveCheck, SaveWrite, SaveFails, SaveFailsDirty, historyVars
    <3>3. CASE Enqueue(p) \/ EnqueueFails(p) \/ SourceExists(p)
      BY <1>1, <3>3, Zenon DEF Enqueue, EnqueueFails, SourceExists, historyVars
    <3>4. CASE \/ DeleteSource(p) \/ DeleteSourceFails(p) \/ DeleteFolder(p)
               \/ TerminateTasks(p) \/ DeleteRow(p) \/ DeleteRowFails(p)
               \/ DropSource(p) \/ Abort(p)
      BY <1>1, <3>4, Zenon DEF DeleteSource, DeleteSourceFails, DeleteFolder,
                  TerminateTasks, DeleteRow, DeleteRowFails, DropSource, Abort,
                  historyVars
    <3> QED
      BY <1>4, <3>1, <3>2, <3>3, <3>4 DEF HandlerStep
  <2> QED
    BY <1>1, <2>1, <2>2
<1>5. ASSUME NEW j \in JobIds, WorkerStep(j) PROVE HistoryType'
  BY <1>1, <1>2, <1>5, Zenon DEF WorkerStep, WorkerStart, WorkerSucceeds, WorkerFails,
     WorkerCalls, WorkerEnds, WorkerGivesUp, Begin, Return, historyVars
<1>6. CASE UNCHANGED vars
  BY <1>1, <1>6 DEF vars
<1> QED
  BY <1>3, <1>4, <1>5, <1>6 DEF CrashNext, Next

LEMMA InitInv == Init => IInv
<1> SUFFICES ASSUME Init PROVE IInv
  OBVIOUS
<1>1. MaxRetry \in Nat
  BY LifecycleConstants
<1>2. [stage |-> "none", key |-> NoKey, calls |-> <<>>, reruns |-> MaxRetry] \in JobType
  BY <1>1, CallsApart DEF JobType
<1>3. Sound(Idle)
  BY IdleType, DraftType DEF Idle, Sound, HandlerType, Watchable
<1>4. row.status \notin Watchable /\ row \in RowType
  BY DraftType DEF Init, Watchable
<1>5. job \in [JobIds -> JobType] /\ ReadyIsReported
  BY <1>2, CallsApart DEF Init, ReadyIsReported
<1>6. hs \in [Procs -> HandlerType] /\ \A p \in Procs : Sound(hs[p])
  BY <1>3 DEF Init, Sound
<1>7. /\ live \in BOOLEAN /\ hls \in {"none", "built", "removed"}
      /\ files \subseteq Keys /\ multis \subseteq Keys
  BY DEF Init
<1>8. HistoryType
  BY DEF Init, HistoryType
<1> QED
  BY <1>4, <1>5, <1>6, <1>7, <1>8, SoundHandlers

\* A request or report is let in.  Only a "ready" report, which needs a built
\* HLS, edits an unwatchable copy into a watchable one.
LEMMA BeginSound ==
    ASSUME IInv, NEW p \in Procs, NEW op \in OwnerOps \union Reports, NEW k,
           Begin(p, op, k), op \in OwnerOps => op \in Ops,
           op = "ready" => hls # "none"
    PROVE  \E h : Sound(h) /\ hs' = [hs EXCEPT ![p] = h]
<1> DEFINE h == [op |-> op, pc |-> FirstStep(op), copy |-> Edited(op, row, k),
                 todo |-> {}, input |-> row.key]
<1>1. hs' = [hs EXCEPT ![p] = h] /\ Allowed(op, row)
  BY DEF Begin
<1>2. row \in RowType /\ (row.status \in Watchable => hls # "none")
  BY DEF IInv, TypeOK, WatchableHasHLS
<1>3. /\ Edited(op, row, k) \in RowType
      /\ Edited(op, row, k).status \in Watchable => hls # "none"
  BY <1>1, <1>2, EditedType
<1>4. FirstStep(op) \in {"store", "source", "exists", "save"}
  BY DEF FirstStep
<1>5. h \in HandlerType
  BY <1>2, <1>3, <1>4 DEF HandlerType, RowType
<1>6. op = "faces" => "faces" \in TaskTypes
  BY LifecycleConstants DEF OwnerOps
<1>7. FirstStep(op) = "exists" =>
         \/ op = "faces"
         \/ op = "reprocess" /\ Failed(Edited(op, row, k)) # {}
  <2>1. CASE op = "reprocess"
    BY <1>1, <2>1 DEF Allowed, Edited
  <2>2. CASE op # "reprocess"
    BY <2>2 DEF FirstStep
  <2> QED
    BY <2>1, <2>2
<1>8. Sound(h)
  BY <1>3, <1>4, <1>5, <1>6, <1>7 DEF Sound
<1> QED
  BY <1>1, <1>8

LEMMA OwnerBeginInv ==
    ASSUME IInv, HistoryType', NEW p \in Owners, OwnerBegin(p) PROVE IInv'
<1>1. PICK op \in Ops : Begin(p, op, "none")
  BY DEF OwnerBegin
<1>2. op \in OwnerOps /\ op # "ready" /\ p \in Procs
  BY LifecycleConstants DEF OwnerOps, Procs
<1>3. PICK h : Sound(h) /\ hs' = [hs EXCEPT ![p] = h]
  BY <1>1, <1>2, BeginSound
<1> QED
  BY <1>2, <1>3, HandlerOnly DEF OwnerBegin, storageVars, IInv, TypeOK

\* An upload's new object, and the joining of its parts.
LEMMA StoreInv ==
    ASSUME IInv, HistoryType', NEW p \in Procs,
           StoreNew(p) \/ StoreComplete(p) \/ StoreRefused(p)
    PROVE  IInv'
<1>1. Sound(hs[p]) /\ hs \in [Procs -> HandlerType] /\ hs[p] \in HandlerType
      /\ files \subseteq Keys /\ multis \subseteq Keys
  BY SoundHandlers
<1>2. CASE StoreNew(p)
  <2>1. PICK key \in FreshKeys :
          /\ IF hs[p].op = "upload"
             THEN files' = files \union {key} /\ UNCHANGED multis
             ELSE multis' = multis \union {key} /\ UNCHANGED files
          /\ hs' = [hs EXCEPT ![p].pc = "save",
                              ![p].copy.key = key,
                              ![p].input = key,
                              ![p].copy.rotated = FALSE,
                              ![p].copy.status = IF hs[p].op = "upload"
                                                 THEN "processing"
                                                 ELSE "uploading"]
    BY <1>2 DEF StoreNew
  <2>2. key \in Keys
    BY DEF FreshKeys
  <2> DEFINE copy == [hs[p].copy EXCEPT !.key = key, !.rotated = FALSE,
                        !.status = IF hs[p].op = "upload" THEN "processing"
                                                          ELSE "uploading"]
             h == [hs[p] EXCEPT !.pc = "save", !.copy = copy, !.input = key]
  <2>3. copy \in RowType /\ copy.status \notin Watchable
    BY <1>1, <2>2 DEF HandlerType, RowType, Statuses, Watchable
  <2>4. hs' = [hs EXCEPT ![p] = h]
    BY <2>1, <1>1, ZenonT(60) DEF h, copy
  <2> HIDE DEF copy
  <2>5. Sound(h)
    BY <1>1, <2>2, <2>3, ZenonT(60) DEF Sound, HandlerType
  <2>6. UNCHANGED <<row, live, hls, job>>
    BY <1>2 DEF StoreNew
  <2>7. files' \subseteq Keys /\ multis' \subseteq Keys
    BY <1>1, <2>1, <2>2
  <2> HIDE DEF h
  <2> QED
    BY <2>4, <2>5, <2>6, <2>7, HandlerOnly
<1>3. CASE StoreComplete(p)
  <2> DEFINE copy == [hs[p].copy EXCEPT !.status = "processing"]
             h == [hs[p] EXCEPT !.pc = "save", !.copy = copy]
  <2>1. copy \in RowType /\ copy.status \notin Watchable
    BY <1>1 DEF HandlerType, RowType, Statuses, Watchable
  <2>2. multis' \subseteq Keys /\ files' \subseteq Keys /\ UNCHANGED <<row, live, hls, job>>
    BY <1>1, <1>3 DEF StoreComplete
  <2>3. CASE hs' = [hs EXCEPT ![p].pc = "save", ![p].copy.status = "processing"]
    <3>1. hs' = [hs EXCEPT ![p] = h]
      BY <1>1, <2>3 DEF HandlerType, RowType
    <3> HIDE DEF copy
    <3>2. Sound(h)
      BY <1>1, <2>1, ZenonT(60) DEF Sound, HandlerType
    <3> HIDE DEF h
    <3> QED
      BY <2>2, <3>1, <3>2, HandlerOnly
  <2>4. CASE Return(p, "idle")
    <3>1. PICK g : Sound(g) /\ hs' = [hs EXCEPT ![p] = g]
      BY <2>4, Goes DEF Return
    <3> QED
      BY <2>2, <3>1, HandlerOnly
  <2> QED
    BY <1>3, <2>3, <2>4 DEF StoreComplete
<1>4. CASE StoreRefused(p)
  <2>1. PICK g : Sound(g) /\ hs' = [hs EXCEPT ![p] = g]
    BY <1>4, Goes DEF StoreRefused, Return
  <2> QED
    BY <1>1, <1>4, <2>1, HandlerOnly DEF StoreRefused, storageVars
<1> QED
  BY <1>2, <1>3, <1>4

\* Checking, writing, failing to write.
LEMMA SaveInv ==
    ASSUME IInv, HistoryType', NEW p \in Procs,
           SaveCheck(p) \/ SaveWrite(p) \/ SaveFails(p) \/ SaveFailsDirty(p)
    PROVE  IInv'
<1>1. /\ Sound(hs[p]) /\ hs \in [Procs -> HandlerType] /\ hs[p] \in HandlerType
      /\ files \subseteq Keys /\ multis \subseteq Keys
      /\ hls \in {"none", "built", "removed"}
      /\ job \in [JobIds -> JobType] /\ ReadyIsReported
  BY SoundHandlers
<1>2. CASE SaveCheck(p)
  <2>1. PICK h : Sound(h) /\ hs' = [hs EXCEPT ![p] = h]
    BY <1>2, Goes DEF SaveCheck
  <2> QED
    BY <1>1, <1>2, <2>1, HandlerOnly DEF SaveCheck, storageVars
<1>3. CASE SaveWrite(p)
  <2>1. /\ hs[p].copy \in RowType
        /\ hs[p].copy.status \in Watchable => hls # "none"
    BY <1>1 DEF HandlerType, Sound
  <2>2. row' = hs[p].copy /\ live' = TRUE /\ UNCHANGED <<files, multis, hls, job>>
    BY <1>3 DEF SaveWrite, storageVars
  <2>3. \E h : Sound(h) /\ hs' = [hs EXCEPT ![p] = h]
    <3>1. CASE AfterWrite(p) = "enqueue"
      <4> DEFINE h == [hs[p] EXCEPT !.pc = "enqueue", !.todo = TaskTypes]
      <4>1. hs' = [hs EXCEPT ![p].pc = "enqueue", ![p].todo = TaskTypes]
        BY <1>3, <3>1 DEF SaveWrite
      <4>2. hs' = [hs EXCEPT ![p] = h]
        BY <1>1, <4>1 DEF HandlerType
      <4>3. TaskTypes # {}
        BY LifecycleConstants
      <4>4. Sound(h)
        BY <1>1, <4>3 DEF Sound, HandlerType
      <4> QED
        BY <4>2, <4>4
    <3>2. CASE AfterWrite(p) = "drop"
      BY <1>3, <3>2, Goes DEF SaveWrite
    <3>3. CASE AfterWrite(p) \notin {"enqueue", "drop"}
      BY <1>3, <3>3, Goes DEF SaveWrite
    <3> QED
      BY <3>1, <3>2, <3>3
  <2>4. PICK h : Sound(h) /\ hs' = [hs EXCEPT ![p] = h]
    BY <2>3
  <2>5. \A j \in JobIds : job'[j].calls \in ReadyCalls => hls' # "none"
    BY <1>1, <2>2 DEF ReadyIsReported
  <2> QED
    BY <1>1, <2>1, <2>2, <2>4, <2>5, HandlerMoves
<1>4. CASE SaveFails(p) \/ SaveFailsDirty(p)
  <2>1. Refused(p) \in {"idle", "error"}
    BY DEF Refused
  <2>2. PICK h : Sound(h) /\ hs' = [hs EXCEPT ![p] = h]
    BY <1>4, <2>1, Goes DEF SaveFails, SaveFailsDirty, SaveRefused, Return
  <2>3. /\ files' \subseteq Keys /\ multis' \subseteq Keys
        /\ UNCHANGED <<row, live, hls, job>>
    BY <1>1, <1>4 DEF SaveFails, SaveFailsDirty, storageVars
  <2> QED
    BY <2>2, <2>3, HandlerOnly
<1> QED
  BY <1>2, <1>3, <1>4

\* Recording an enqueue leaves a type to queue, or goes on to the write.
LEMMA RecordSound ==
    ASSUME IInv, NEW p \in Procs, NEW k \in TaskTypes, NEW entry \in EntryType,
           Record(p, k, entry)
    PROVE  \E h : Sound(h) /\ hs' = [hs EXCEPT ![p] = h]
<1>1. Sound(hs[p]) /\ hs \in [Procs -> HandlerType] /\ hs[p] \in HandlerType
  BY SoundHandlers
<1> DEFINE left == hs[p].todo \ {k}
           pc == IF left = {} THEN "save" ELSE "enqueue"
           op == IF left = {} /\ hs[p].op \in {"upload", "complete"}
                 THEN "finish" ELSE hs[p].op
           status == IF left = {} /\ hs[p].op = "reprocess" /\ hs[p].copy.status = "error"
                     THEN "processing" ELSE hs[p].copy.status
           copy == [hs[p].copy EXCEPT !.tasks[k] = entry, !.status = status]
           h == [op |-> op, pc |-> pc, copy |-> copy, todo |-> left,
                 input |-> hs[p].input]
<1>2. hs' = [hs EXCEPT ![p] = h]
  BY Zenon DEF Record
<1>3. copy \in RowType /\ (copy.status \in Watchable => hs[p].copy.status \in Watchable)
  <2>1. hs[p].copy \in RowType
    BY <1>1 DEF HandlerType
  <2>2. [hs[p].copy.tasks EXCEPT ![k] = entry] \in [TaskTypes -> EntryType]
    BY <2>1 DEF RowType, EntryType
  <2>3. status \in Statuses /\ (status \in Watchable => hs[p].copy.status \in Watchable)
    BY <2>1 DEF RowType, Statuses, Watchable
  <2>4. copy = [hs[p].copy EXCEPT !.tasks = [hs[p].copy.tasks EXCEPT ![k] = entry],
                                  !.status = status]
    BY <2>1 DEF RowType
  <2> HIDE DEF status
  <2> QED
    BY <2>1, <2>2, <2>3, <2>4 DEF RowType, EntryType
<1>4. /\ left \in SUBSET TaskTypes /\ (pc = "enqueue" => left # {})
      /\ pc \in {"save", "enqueue"}
      /\ hs[p].input \in Keys \union {NoKey}
      /\ op \in OwnerOps \union Reports \union {"none", "finish"}
      /\ op = "faces" => hs[p].op = "faces"
  BY <1>1 DEF HandlerType
<1> HIDE DEF left, pc, op, copy
<1>5. h \in HandlerType
  BY <1>3, <1>4 DEF HandlerType
<1>6. Sound(h)
  BY <1>1, <1>3, <1>4, <1>5 DEF Sound
<1> HIDE DEF h
<1> QED
  BY <1>2, <1>6

\* A task the queue has stored is a task, and has no report to make yet.
LEMMA StoresType ==
    ASSUME IInv, NEW p \in Procs, NEW k \in TaskTypes, NEW j \in FreeIds(p, k), Stores(p, j)
    PROVE  /\ j \in JobIds
           /\ job' \in [JobIds -> JobType]
           /\ \A i \in JobIds : job'[i].calls \in ReadyCalls => job[i].calls \in ReadyCalls
<1>1. job \in [JobIds -> JobType] /\ hs[p] \in HandlerType
  BY SoundHandlers
<1>2. MaxReprocess \in Nat /\ MaxRetry \in Nat
  BY LifecycleConstants
<1>3. j \in JobIds
  BY <1>2 DEF FreeIds, JobIds
<1> DEFINE t == [stage |-> "queued", calls |-> <<>>, key |-> hs[p].input,
                 reruns |-> MaxRetry]
<1>4. t \in JobType /\ t.calls \notin ReadyCalls
  BY <1>1, <1>2, CallsApart DEF JobType, HandlerType
<1>5. job' = [job EXCEPT ![j] = t]
  BY DEF Stores
<1> HIDE DEF t
<1> QED
  BY <1>1, <1>3, <1>4, <1>5

\* The queue takes a task, or refuses it; a source that is missing is looked
\* for before anything is queued.
LEMMA EnqueueInv ==
    ASSUME IInv, HistoryType', NEW p \in Procs,
           Enqueue(p) \/ EnqueueFails(p) \/ SourceExists(p)
    PROVE  IInv'
<1>1. /\ Sound(hs[p]) /\ hs \in [Procs -> HandlerType] /\ hs[p] \in HandlerType
      /\ files \subseteq Keys /\ multis \subseteq Keys /\ live \in BOOLEAN
      /\ hls \in {"none", "built", "removed"}
      /\ row \in RowType /\ (row.status \in Watchable => hls # "none")
      /\ job \in [JobIds -> JobType] /\ ReadyIsReported
  BY SoundHandlers
<1> DEFINE k == NextType(hs[p].todo)
<1>2. hs[p].pc = "enqueue" => k \in TaskTypes
  BY <1>1, NextTypeLeft DEF Sound, HandlerType
<1>3. CASE Enqueue(p)
  <2>1. PICK j \in FreeIds(p, k) : Stores(p, j) /\ Record(p, k, Entry(j))
    BY <1>3 DEF Enqueue
  <2>2. hs[p].pc = "enqueue" /\ UNCHANGED <<row, live, files, multis, hls>>
    BY <1>3 DEF Enqueue, storageVars
  <2>3. /\ j \in JobIds /\ job' \in [JobIds -> JobType]
        /\ \A i \in JobIds : job'[i].calls \in ReadyCalls => hls' # "none"
    BY <1>1, <1>2, <2>1, <2>2, StoresType DEF ReadyIsReported
  <2>4. PICK h : Sound(h) /\ hs' = [hs EXCEPT ![p] = h]
    BY <1>2, <2>1, <2>2, <2>3, EntryTypes, RecordSound
  <2> QED
    BY <1>1, <2>2, <2>3, <2>4, HandlerMoves
<1>4. CASE EnqueueFails(p)
  <2>1. hs[p].pc = "enqueue" /\ UNCHANGED <<row, live, files, multis, hls>>
    BY <1>4 DEF EnqueueFails, storageVars
  <2>2. \E h : Sound(h) /\ hs' = [hs EXCEPT ![p] = h]
    <3>1. CASE Return(p, "idle")
      BY <3>1, Goes DEF Return
    <3>2. CASE Record(p, k, Entry(NoJob))
      BY <1>2, <2>1, <3>2, EntryTypes, RecordSound
    <3> QED
      BY <1>4, <3>1, <3>2 DEF EnqueueFails
  <2>3. /\ job' \in [JobIds -> JobType]
        /\ \A i \in JobIds : job'[i].calls \in ReadyCalls => hls' # "none"
    <3>1. CASE UNCHANGED job
      BY <1>1, <2>1, <3>1 DEF ReadyIsReported
    <3>2. CASE \E j \in FreeIds(p, k) : Stores(p, j)
      BY <1>1, <1>2, <2>1, <3>2, StoresType DEF ReadyIsReported
    <3> QED
      BY <1>4, <3>1, <3>2 DEF EnqueueFails
  <2> QED
    BY <1>1, <2>1, <2>2, <2>3, HandlerMoves
<1>5. CASE SourceExists(p)
  <2>1. \E h : Sound(h) /\ hs' = [hs EXCEPT ![p] = h]
    <3> DEFINE there == hs[p].copy.key \in files
               todo == IF hs[p].op = "faces" THEN {"faces"} ELSE Failed(hs[p].copy)
               input == IF there THEN hs[p].copy.key ELSE NoKey
               h == [hs[p] EXCEPT !.pc = "enqueue", !.input = input, !.todo = todo]
    <3>1. CASE Return(p, "idle")
      BY <3>1, Goes DEF Return
    <3>2. CASE hs' = [hs EXCEPT ![p].pc = "enqueue", ![p].input = input,
                                ![p].todo = todo]
      <4>1. hs' = [hs EXCEPT ![p] = h]
        BY <1>1, <3>2 DEF HandlerType
      <4>2. hs[p].pc = "exists"
        BY <1>5 DEF SourceExists
      <4>3. todo \in SUBSET TaskTypes /\ todo # {}
        BY <1>1, <4>2 DEF Sound, Failed
      <4>4. input \in Keys \union {NoKey}
        BY <1>1 DEF HandlerType, RowType
      <4> HIDE DEF todo, input
      <4>5. Sound(h)
        BY <1>1, <4>3, <4>4 DEF Sound, HandlerType
      <4> QED
        BY <4>1, <4>5
    <3> QED
      BY <1>5, <3>1, <3>2 DEF SourceExists
  <2> QED
    BY <1>1, <1>5, <2>1, HandlerOnly DEF SourceExists, storageVars
<1> QED
  BY <1>3, <1>4, <1>5

\* A deletion's calls, the source's removal, a handler cut short.
LEMMA DeleteInv ==
    ASSUME IInv, HistoryType', NEW p \in Procs,
           \/ DeleteSource(p) \/ DeleteSourceFails(p) \/ DeleteFolder(p)
           \/ TerminateTasks(p) \/ DeleteRow(p) \/ DeleteRowFails(p)
           \/ DropSource(p) \/ Abort(p)
    PROVE  IInv'
<1>1. /\ files \subseteq Keys /\ multis \subseteq Keys /\ live \in BOOLEAN
      /\ hls \in {"none", "built", "removed"}
      /\ row \in RowType /\ (row.status \in Watchable => hls # "none")
      /\ job \in [JobIds -> JobType] /\ ReadyIsReported
  BY SoundHandlers
<1>2. CASE DeleteSource(p)
  <2>1. AfterSource(hs[p].copy) \in {"folder", "tasks", "row"}
    BY DEF AfterSource
  <2>2. PICK h : Sound(h) /\ hs' = [hs EXCEPT ![p] = h]
    BY <1>2, <2>1, Goes DEF DeleteSource
  <2> QED
    BY <1>1, <1>2, <2>2, HandlerOnly DEF DeleteSource
<1>3. CASE DeleteFolder(p)
  <2>1. PICK h : Sound(h) /\ hs' = [hs EXCEPT ![p] = h]
    BY <1>3, Goes DEF DeleteFolder
  <2>2. /\ hls' \in {"none", "built", "removed"} /\ (hls # "none" => hls' # "none")
        /\ UNCHANGED <<row, live, files, multis, job>>
    BY <1>1, <1>3 DEF DeleteFolder
  <2>3. \A j \in JobIds : job'[j].calls \in ReadyCalls => hls' # "none"
    BY <1>1, <2>2 DEF ReadyIsReported
  <2> QED
    BY <1>1, <2>1, <2>2, <2>3, HandlerMoves
<1>4. CASE TerminateTasks(p)
  <2>1. PICK h : Sound(h) /\ hs' = [hs EXCEPT ![p] = h]
    BY <1>4, Goes DEF TerminateTasks
  <2>2. UNCHANGED <<row, live, files, multis, hls>>
    BY <1>4 DEF TerminateTasks, storageVars
  <2>3. PICK hit \in SUBSET Cancellable(hs[p].copy) :
          job' = [j \in JobIds |-> IF j \in hit THEN Again(job[j], "cancelled")
                                                ELSE job[j]]
    BY <1>4 DEF TerminateTasks
  <2>4. /\ job' \in [JobIds -> JobType]
        /\ \A j \in JobIds : job'[j].calls \in ReadyCalls
                               => job[j].calls \in ReadyCalls
    <3>1. ASSUME NEW j \in JobIds
          PROVE  /\ Again(job[j], "cancelled") \in JobType
                 /\ Again(job[j], "cancelled").calls \notin ReadyCalls
      BY <1>1, AgainType, CallsApart
    <3> QED
      BY <1>1, <2>3, <3>1
  <2> QED
    BY <1>1, <2>1, <2>2, <2>4, HandlerMoves DEF ReadyIsReported
<1>5. CASE DeleteRow(p)
  <2>1. PICK h : Sound(h) /\ hs' = [hs EXCEPT ![p] = h]
    BY <1>5, Goes DEF DeleteRow
  <2>2. live' = FALSE /\ UNCHANGED <<row, files, multis, hls, job>>
    BY <1>5 DEF DeleteRow, storageVars
  <2> QED
    BY <1>1, <2>1, <2>2, HandlerMoves DEF ReadyIsReported
<1>6. CASE DropSource(p)
  <2>1. PICK h : Sound(h) /\ hs' = [hs EXCEPT ![p] = h]
    BY <1>6, Goes DEF DropSource, Return
  <2> QED
    BY <1>1, <1>6, <2>1, HandlerOnly DEF DropSource
<1>7. CASE Abort(p)
  <2>1. Refused(p) \in {"idle", "error"}
    BY DEF Refused
  <2>2. PICK h : Sound(h) /\ hs' = [hs EXCEPT ![p] = h]
    BY <1>7, <2>1, Goes DEF Abort, Return
  <2> QED
    BY <1>1, <1>7, <2>2, HandlerOnly DEF Abort, storageVars
<1>8. CASE DeleteSourceFails(p) \/ DeleteRowFails(p)
  <2>1. PICK h : Sound(h) /\ hs' = [hs EXCEPT ![p] = h]
    BY <1>8, Goes DEF DeleteSourceFails, DeleteRowFails, Return
  <2> QED
    BY <1>1, <1>8, <2>1, HandlerOnly DEF DeleteSourceFails, DeleteRowFails, storageVars
<1> QED
  BY <1>2, <1>3, <1>4, <1>5, <1>6, <1>7, <1>8

\* A task moves to another stage, with the given reports still to make.
LEMMA JobMovesType ==
    ASSUME IInv, NEW j \in JobIds,
           NEW stage \in {"running", "reporting", "failing", "succeeded"},
           NEW calls \in Calls, JobMoves(j, stage, calls)
    PROVE  /\ job' \in [JobIds -> JobType]
           /\ \A i \in JobIds : job'[i].calls \in ReadyCalls =>
                 \/ i = j /\ calls \in ReadyCalls
                 \/ i # j /\ job[i].calls \in ReadyCalls
<1>1. job \in [JobIds -> JobType]
  BY DEF IInv, TypeOK
<1> DEFINE t == [job[j] EXCEPT !.stage = stage, !.calls = calls]
<1>2. job' = [job EXCEPT ![j] = t]
  BY <1>1 DEF JobMoves, JobType
<1>3. t \in JobType /\ t.calls = calls
  BY <1>1 DEF JobType
<1> HIDE DEF t
<1> QED
  BY <1>1, <1>2, <1>3

\* A task's run ended in error.
LEMMA RerunType ==
    ASSUME IInv, NEW j \in JobIds, NEW last \in {"failed", "lost"}, Rerun(j, last)
    PROVE  /\ job' \in [JobIds -> JobType]
           /\ \A i \in JobIds : job'[i].calls \in ReadyCalls
                                  => job[i].calls \in ReadyCalls
<1>1. job \in [JobIds -> JobType]
  BY DEF IInv, TypeOK
<1>2. Again(job[j], last) \in JobType /\ Again(job[j], last).calls \notin ReadyCalls
  BY <1>1, AgainType, CallsApart
<1>3. job' = [job EXCEPT ![j] = Again(job[j], last)]
  BY DEF Rerun
<1> QED
  BY <1>1, <1>2, <1>3

LEMMA WorkerInv ==
    ASSUME IInv, HistoryType', NEW j \in JobIds, WorkerStep(j) PROVE IInv'
<1>1. /\ files \subseteq Keys /\ multis \subseteq Keys /\ live \in BOOLEAN
      /\ hls \in {"none", "built", "removed"}
      /\ row \in RowType /\ (row.status \in Watchable => hls # "none")
      /\ job \in [JobIds -> JobType] /\ ReadyIsReported
      /\ hs \in [Procs -> HandlerType] /\ j \in Procs /\ Sound(hs[j])
  BY SoundHandlers DEF Procs
<1>2. hs = [hs EXCEPT ![j] = hs[j]]
  BY <1>1
<1>3. CASE WorkerStart(j)
  <2>1. /\ \E calls \in {<<>>, <<"started">>} : JobMoves(j, "running", calls)
        /\ UNCHANGED <<row, live, files, multis, hls, hs>>
    BY <1>3 DEF WorkerStart, storageVars
  <2>2. /\ job' \in [JobIds -> JobType]
        /\ \A i \in JobIds : job'[i].calls \in ReadyCalls => hls' # "none"
    BY <1>1, <2>1, CallsApart, JobMovesType DEF ReadyIsReported
  <2> QED
    BY <1>1, <1>2, <2>1, <2>2, HandlerMoves
<1>4. CASE WorkerSucceeds(j)
  <2>1. UNCHANGED <<row, live, files, multis, hs>>
    BY <1>4 DEF WorkerSucceeds
  <2>2. \/ /\ hls' = "built"
           /\ JobMoves(j, "reporting", <<"metadata", "progress", "ready">>)
        \/ UNCHANGED hls /\ JobMoves(j, "reporting", <<"progress">>)
    BY <1>4 DEF WorkerSucceeds
  <2>3. /\ hls' \in {"none", "built", "removed"} /\ (hls # "none" => hls' # "none")
        /\ job' \in [JobIds -> JobType]
        /\ \A i \in JobIds : job'[i].calls \in ReadyCalls => hls' # "none"
    <3>1. CASE hls' = "built" /\ JobMoves(j, "reporting", <<"metadata", "progress", "ready">>)
      BY <1>1, <3>1, CallsApart, JobMovesType
    <3>2. CASE UNCHANGED hls /\ JobMoves(j, "reporting", <<"progress">>)
      BY <1>1, <3>2, CallsApart, JobMovesType DEF ReadyIsReported
    <3> QED
      BY <2>2, <3>1, <3>2
  <2> QED
    BY <1>1, <1>2, <2>1, <2>3, HandlerMoves
<1>5. CASE WorkerFails(j)
  <2>1. JobMoves(j, "failing", <<"failure">>) /\ UNCHANGED <<row, live, files, multis, hls, hs>>
    BY <1>5 DEF WorkerFails, storageVars
  <2>2. /\ job' \in [JobIds -> JobType]
        /\ \A i \in JobIds : job'[i].calls \in ReadyCalls => hls' # "none"
    BY <1>1, <2>1, CallsApart, JobMovesType DEF ReadyIsReported
  <2> QED
    BY <1>1, <1>2, <2>1, <2>2, HandlerMoves
<1>6. CASE WorkerCalls(j)
  <2>1. /\ job[j].stage \in {"running", "reporting", "failing"} /\ job[j].calls # <<>>
        /\ JobMoves(j, job[j].stage, Tail(job[j].calls))
        /\ UNCHANGED <<row, live, files, multis, hls>>
    BY <1>6 DEF WorkerCalls, storageVars
  <2>2. job[j].calls \in Calls
    BY <1>1 DEF JobType
  <2> DEFINE op == Head(job[j].calls)
             left == Tail(job[j].calls)
  <2>3. op \in Reports /\ left \in Calls
        /\ (left \in ReadyCalls \/ op = "ready" => job[j].calls \in ReadyCalls)
    BY <2>1, <2>2, CallsLeft
  <2>4. Begin(j, op, j[1]) \/ Return(j, "error")
    BY <1>6 DEF WorkerCalls
  <2> HIDE DEF op, left
  <2>5. op = "ready" => hls # "none"
    BY <1>1, <2>3 DEF ReadyIsReported
  <2>6. op \notin OwnerOps
    BY <2>3 DEF Reports, OwnerOps
  <2>7. PICK h : Sound(h) /\ hs' = [hs EXCEPT ![j] = h]
    BY <1>1, <2>3, <2>4, <2>5, <2>6, BeginSound, Goes DEF Return
  <2>8. /\ job' \in [JobIds -> JobType]
        /\ \A i \in JobIds : job'[i].calls \in ReadyCalls => hls' # "none"
    <3>1. JobMoves(j, job[j].stage, left)
      BY <2>1 DEF left
    <3> QED
      BY <1>1, <2>1, <2>3, <3>1, JobMovesType DEF ReadyIsReported
  <2> QED
    BY <1>1, <2>1, <2>7, <2>8, HandlerMoves
<1>7. CASE WorkerEnds(j)
  <2>1. UNCHANGED <<row, live, files, multis, hls, hs>>
    BY <1>7 DEF WorkerEnds, storageVars
  <2>2. JobMoves(j, "succeeded", <<>>) \/ Rerun(j, "failed")
    BY <1>7 DEF WorkerEnds
  <2>3. /\ job' \in [JobIds -> JobType]
        /\ \A i \in JobIds : job'[i].calls \in ReadyCalls => hls' # "none"
    BY <1>1, <2>1, <2>2, CallsApart, JobMovesType, RerunType DEF ReadyIsReported
  <2> QED
    BY <1>1, <1>2, <2>1, <2>3, HandlerMoves
<1>8. CASE WorkerGivesUp(j)
  <2>1. /\ Rerun(j, "lost") /\ Return(j, "idle")
        /\ UNCHANGED <<row, live, files, multis, hls>>
    BY <1>8 DEF WorkerGivesUp, storageVars
  <2>2. PICK h : Sound(h) /\ hs' = [hs EXCEPT ![j] = h]
    BY <1>1, <2>1, Goes DEF Return
  <2>3. /\ job' \in [JobIds -> JobType]
        /\ \A i \in JobIds : job'[i].calls \in ReadyCalls => hls' # "none"
    BY <1>1, <2>1, RerunType DEF ReadyIsReported
  <2> QED
    BY <1>1, <2>1, <2>2, <2>3, HandlerMoves
<1> QED
  BY <1>3, <1>4, <1>5, <1>6, <1>7, <1>8 DEF WorkerStep

-----------------------------------------------------------------------------
(* The theorems.                                                           *)

\* Every step keeps the invariant, the end of a handler between two calls included.
LEMMA StepInv == IInv /\ [CrashNext]_vars => IInv'
<1> SUFFICES ASSUME IInv, [CrashNext]_vars PROVE IInv'
  OBVIOUS
<1>0. HistoryType'
  BY HistoryKept
<1>1. CASE \E p \in Owners : OwnerBegin(p)
  BY <1>0, <1>1, OwnerBeginInv
<1>2. CASE \E p \in Procs : HandlerStep(p) \/ Abort(p)
  BY <1>0, <1>2, StoreInv, SaveInv, EnqueueInv, DeleteInv DEF HandlerStep
<1>3. CASE \E j \in JobIds : WorkerStep(j)
  BY <1>0, <1>3, WorkerInv
<1>4. CASE UNCHANGED vars
  BY <1>4 DEF vars, IInv, TypeOK, ReprocessHasWork, WatchableHasHLS, ReadyIsReported
<1> QED
  BY <1>1, <1>2, <1>3, <1>4 DEF CrashNext, Next

\* However handlers and workers interleave, fail and die: rows, copies and tasks
\* keep their types, a reprocess that ReprocessStream admits has something to
\* queue, and "ready" is reported, and watchable written, only with an HLS built.
THEOREM Invariant == CrashSpec => []IInv
<1> QED
  BY InitInv, StepInv, PTL DEF CrashSpec

\* No handler writes a row, and no queue holds a task, the code's types rule
\* out; in particular asynq reruns no task more often than it may.
THEOREM TypeCorrect == CrashSpec => []TypeOK
<1>1. IInv => TypeOK
  BY DEF IInv
<1> QED
  BY <1>1, Invariant, PTL

\* Whatever overlaps, fails or crashes: no stream is shown before a transcode
\* built its HLS.
THEOREM Watchables == CrashSpec => []WatchableHasHLS
<1>1. IInv => WatchableHasHLS
  BY DEF IInv
<1> QED
  BY <1>1, Invariant, PTL

=============================================================================
