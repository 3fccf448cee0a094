------------------------- MODULE StreamExport_proofs -------------------------
(***************************************************************************)
(* Proofs about StreamExport, for every number of handlers and tasks.      *)
(***************************************************************************)
EXTENDS StreamExport, TLAPS

-----------------------------------------------------------------------------
(* Type correctness, whatever the environment does.                        *)

\* The rows the handlers write are rows.
LEMMA RowValues == NoRow \in RowType /\ Pending \in RowType /\ NotQueued \in RowType
BY DEF NoRow, Pending, NotQueued, RowType

\* None of them is ready.
LEMMA RowStatuses ==
    NoRow.status = "none" /\ Pending.status = "pending" /\ NotQueued.status = "failed"
BY DEF NoRow, Pending, NotQueued

\* The calls the worker makes are calls.
LEMMA CallValues ==
    /\ NoCall \in CallType
    /\ \A b \in BOOLEAN, e \in {"", "mux", "wrapped"}, n \in {0, 1} :
          Call(b, e, n) \in CallType
BY DEF NoCall, Call, CallType

\* What a handler saves is a row, and its notice is one of the two outcomes.
LEMMA OutcomeType ==
    ASSUME NEW c \in CallType
    PROVE  Outcome(c) \in RowType /\ Outcome(c).status \in {"ready", "failed"}
BY DEF Outcome, CallType, RowType

\* Moving a call's program counter keeps the calls' types.
LEMMA AnswerType ==
    ASSUME TypeOK, NEW t \in Tasks,
           NEW pc \in {"save", "notify", "replied", "errored"}, Answer(t, pc)
    PROVE  rpc' \in [Tasks -> CallType]
BY ZenonT(60) DEF TypeOK, CallType, Answer

\* Moving a task to another stage keeps the tasks' types.
LEMMA StageType ==
    ASSUME TypeOK, NEW t \in Tasks,
           NEW s \in {"queued", "running", "told", "ended", "done"},
           task' = [task EXCEPT ![t].stage = s]
    PROVE  task' \in [Tasks -> TaskType]
BY DEF TypeOK, TaskType

\* The initial state is well typed.
LEMMA InitType == Init => TypeOK
<1> SUFFICES ASSUME Init PROVE TypeOK
  OBVIOUS
<1>1. [stage |-> "none", reruns |-> MaxRetry] \in TaskType
  <2>1. MaxRetry \in Nat
    BY ExportConstants
  <2> QED
    BY <2>1 DEF TaskType
<1> QED
  BY <1>1, RowValues, CallValues DEF Init, TypeOK, StreamStates

\* A request handler's step keeps the types.
LEMMA RequestType ==
    ASSUME TypeOK, NEW r \in Requests,
           RequestBegin(r) \/ RequestStep(r) \/ RequestAbort(r)
    PROVE  TypeOK'
<1> USE DEF TypeOK, requestOnly, historyVars
<1>1. CASE RequestBegin(r)
  BY <1>1 DEF RequestBegin
<1>2. CASE RequestLookup(r)
  BY <1>2 DEF RequestLookup
<1>3. CASE RequestCreate(r)
  BY <1>3, RowValues DEF RequestCreate
<1>4. CASE RequestReset(r)
  BY <1>4, RowValues DEF RequestReset
<1>5. CASE RequestReread(r)
  BY <1>5 DEF RequestReread
<1>6. CASE RequestEnqueue(r)
  <2>1. task' \in [Tasks -> TaskType]
    BY <1>6, StageType DEF RequestEnqueue, Store
  <2> QED
    BY <1>6, <2>1 DEF RequestEnqueue
<1>7. CASE RequestEnqueueFails(r)
  <2>1. task' \in [Tasks -> TaskType]
    BY <1>7, StageType DEF RequestEnqueueFails, Store
  <2> QED
    BY <1>7, <2>1 DEF RequestEnqueueFails
<1>8. CASE RequestCompensate(r)
  BY <1>8, RowValues DEF RequestCompensate
<1>9. CASE RequestAbort(r)
  BY <1>9 DEF RequestAbort
<1> QED
  BY <1>1, <1>2, <1>3, <1>4, <1>5, <1>6, <1>7, <1>8, <1>9 DEF RequestStep

\* A step of the worker or of asynq keeps the types.
LEMMA WorkerType ==
    ASSUME TypeOK, NEW t \in Tasks, WorkerStep(t)
    PROVE  TypeOK'
<1> USE DEF historyVars
<1>1. CASE WorkerStart(t)
  BY <1>1, StageType DEF WorkerStart, workerOnly, TypeOK
<1>2. CASE WorkerSucceeds(t)
  <2>1. PICK n \in ReportSizes : rpc' = [rpc EXCEPT ![t] = Call(TRUE, "", n)]
    BY <1>2 DEF WorkerSucceeds
  <2>2. Call(TRUE, "", n) \in CallType
    BY CallValues, ExportConstants
  <2>3. rpc' \in [Tasks -> CallType]
    BY <2>1, <2>2 DEF TypeOK
  <2> QED
    BY <1>2, <2>3, StageType DEF WorkerSucceeds, workerOnly, TypeOK
<1>3. CASE WorkerFails(t)
  <2>1. PICK e \in WorkerErrors : rpc' = [rpc EXCEPT ![t] = Call(FALSE, e, 0)]
    BY <1>3 DEF WorkerFails
  <2>2. Call(FALSE, e, 0) \in CallType
    BY CallValues, ExportConstants
  <2>3. rpc' \in [Tasks -> CallType]
    BY <2>1, <2>2 DEF TypeOK
  <2> QED
    BY <1>3, <2>3, StageType DEF WorkerFails, workerOnly, TypeOK
<1>4. CASE WorkerReturns(t)
  BY <1>4, StageType DEF WorkerReturns, workerOnly, TypeOK
<1>5. CASE WorkerEndsInError(t)
  <2>1. rpc' = [rpc EXCEPT ![t] = Call(FALSE, "wrapped", 0)]
    BY <1>5 DEF WorkerEndsInError
  <2>2. Call(FALSE, "wrapped", 0) \in CallType
    BY CallValues
  <2>3. rpc' \in [Tasks -> CallType]
    BY <2>1, <2>2 DEF TypeOK
  <2> QED
    BY <1>5, <2>3, StageType DEF WorkerEndsInError, workerOnly, TypeOK
<1>6. CASE AsynqRequeue(t)
  <2>1. task[t] \in TaskType /\ MaxRetry \in Nat
    BY ExportConstants DEF TypeOK
  <2>2. [task[t] EXCEPT !.stage = "done"] \in TaskType
    BY <2>1 DEF TaskType
  <2>3. ASSUME task[t].reruns > 0
        PROVE  [stage |-> "queued", reruns |-> task[t].reruns - 1] \in TaskType
    <3>1. task[t].reruns - 1 \in 0..MaxRetry
      BY <2>1, <2>3 DEF TaskType
    <3> QED
      BY <3>1 DEF TaskType
  <2>4. task' \in [Tasks -> TaskType]
    BY <1>6, <2>2, <2>3 DEF AsynqRequeue, TypeOK
  <2> QED
    BY <1>6, <2>4 DEF AsynqRequeue, workerOnly, TypeOK
<1> QED
  BY <1>1, <1>2, <1>3, <1>4, <1>5, <1>6 DEF WorkerStep

\* A step of the gRPC report handler keeps the types.
LEMMA ReportType ==
    ASSUME TypeOK, NEW t \in Tasks, ReportStep(t) \/ ReportAbort(t)
    PROVE  TypeOK'
<1> USE DEF reportOnly, historyVars
<1>1. CASE ReportRefused(t)
  BY <1>1, AnswerType DEF ReportRefused, TypeOK
<1>2. CASE ReportRead(t)
  <2>1. rpc' \in [Tasks -> CallType]
    BY <1>2, AnswerType DEF ReportRead
  <2> QED
    BY <1>2, <2>1 DEF ReportRead, TypeOK
<1>3. CASE ReportSave(t)
  BY <1>3, AnswerType, OutcomeType DEF ReportSave, TypeOK
<1>4. CASE ReportNotify(t)
  BY <1>4, AnswerType, OutcomeType DEF ReportNotify, TypeOK
<1>5. CASE ReportAbort(t)
  BY <1>5, AnswerType DEF ReportAbort, TypeOK
<1> QED
  BY <1>1, <1>2, <1>3, <1>4, <1>5 DEF ReportStep

\* Every step keeps the types.
LEMMA NextType == TypeOK /\ [Next]_vars => TypeOK'
<1> SUFFICES ASSUME TypeOK, [Next]_vars PROVE TypeOK'
  OBVIOUS
<1>1. CASE \E r \in Requests : RequestBegin(r) \/ RequestStep(r) \/ RequestAbort(r)
  BY <1>1, RequestType
<1>2. CASE \E d \in Downloads : DownloadBegin(d) \/ DownloadRow(d) \/ DownloadOpen(d)
  BY <1>2 DEF TypeOK, DownloadBegin, DownloadRow, DownloadOpen, downloadOnly, historyVars
<1>3. CASE \E t \in Tasks : WorkerStep(t) \/ ReportStep(t) \/ ReportAbort(t)
  BY <1>3, WorkerType, ReportType
<1>4. CASE StreamMoves \/ DeleteBegin \/ DeleteFolder \/ DeleteRow \/ DeleteAbort
  BY <1>4 DEF TypeOK, StreamStates, streamOnly, historyVars,
              StreamMoves, DeleteBegin, DeleteFolder, DeleteRow, DeleteAbort
<1>5. CASE UNCHANGED vars
  BY <1>5 DEF TypeOK, vars, historyVars
<1> QED
  BY <1>1, <1>2, <1>3, <1>4, <1>5 DEF Next

\* The state of the export always has the shape the code gives it.
THEOREM TypeCorrect == Spec => []TypeOK
BY InitType, NextType, PTL DEF Spec

-----------------------------------------------------------------------------
(* A ready row has its mp4, whatever is reported twice, retried or cut off *)
(* midway, as long as a failure says why.                                  *)

BackedInv == ReadyIsBacked /\ TrueReports /\ OpenIsBacked /\ DownloadServes

\* A request handler never makes the row ready.
LEMMA BackedRequest ==
    ASSUME BackedInv, NEW r \in Requests,
           RequestBegin(r) \/ RequestStep(r) \/ RequestAbort(r)
    PROVE  BackedInv'
<1>1. /\ UNCHANGED requestOnly /\ cut' = cut
      /\ row' = row \/ row' = Pending \/ row' = NotQueued
  BY DEF historyVars, RequestBegin, RequestStep, RequestLookup, RequestCreate, RequestReset,
         RequestReread, RequestEnqueue, RequestEnqueueFails, RequestCompensate,
         RequestAbort, requestOnly
<1>2. ReadyIsBacked'
  <2>1. row'.status = "ready" => row' = row
    BY <1>1, RowStatuses
  <2> QED
    BY <1>1, <2>1 DEF BackedInv, ReadyIsBacked, Deleted, requestOnly
<1>3. TrueReports'
  BY <1>1 DEF BackedInv, TrueReports, Deleted, requestOnly
<1>4. OpenIsBacked' /\ DownloadServes'
  BY <1>1 DEF BackedInv, OpenIsBacked, DownloadServes, Deleted, requestOnly
<1> QED
  BY <1>2, <1>3, <1>4 DEF BackedInv

\* A download opens the object only after a ready row.
LEMMA BackedDownload ==
    ASSUME TypeOK, BackedInv, NEW d \in Downloads,
           DownloadBegin(d) \/ DownloadRow(d) \/ DownloadOpen(d)
    PROVE  BackedInv'
<1>1. UNCHANGED downloadOnly /\ cut' = cut
  BY DEF DownloadBegin, DownloadRow, DownloadOpen, downloadOnly, historyVars
<1>2. ReadyIsBacked' /\ TrueReports'
  BY <1>1 DEF BackedInv, ReadyIsBacked, TrueReports, Deleted, downloadOnly
<1>3. OpenIsBacked' /\ DownloadServes'
  BY <1>1 DEF BackedInv, ReadyIsBacked, OpenIsBacked, DownloadServes, Deleted,
              downloadOnly, TypeOK, DownloadBegin, DownloadRow, DownloadOpen
<1> QED
  BY <1>2, <1>3 DEF BackedInv

\* The worker writes the mp4 before it reports success.
LEMMA BackedWorker ==
    ASSUME "" \notin WorkerErrors,
           TypeOK, BackedInv, NEW t \in Tasks, WorkerStep(t)
    PROVE  BackedInv'
<1>1. UNCHANGED workerOnly /\ cut' = cut /\ (object => object')
  <2>1. UNCHANGED workerOnly /\ cut' = cut
    BY DEF workerOnly, historyVars, WorkerStep, WorkerStart, WorkerSucceeds, WorkerFails, WorkerReturns,
           WorkerEndsInError, AsynqRequeue
  <2>2. object => object'
    BY DEF WorkerStep, WorkerStart, WorkerSucceeds, WorkerFails, WorkerReturns,
           WorkerEndsInError, AsynqRequeue
  <2> QED
    BY <2>1, <2>2
<1>2. ReadyIsBacked'
  BY <1>1 DEF BackedInv, ReadyIsBacked, Deleted, workerOnly
<1>3. OpenIsBacked' /\ DownloadServes'
  BY <1>1 DEF BackedInv, OpenIsBacked, DownloadServes, Deleted, workerOnly
<1>4. TrueReports'
  <2> USE DEF BackedInv, TrueReports, Deleted, workerOnly, TypeOK
  <2>1. CASE UNCHANGED rpc
    BY <1>1, <2>1
  <2>2. CASE WorkerSucceeds(t)
    <3>1. PICK n \in ReportSizes : rpc' = [rpc EXCEPT ![t] = Call(TRUE, "", n)]
      BY <2>2 DEF WorkerSucceeds
    <3> QED
      BY <1>1, <2>2, <3>1 DEF WorkerSucceeds, Call
  <2>3. CASE WorkerFails(t)
    <3>1. PICK e \in WorkerErrors : rpc' = [rpc EXCEPT ![t] = Call(FALSE, e, 0)]
      BY <2>3 DEF WorkerFails
    <3>2. e # ""
      BY <3>1
    <3> QED
      BY <1>1, <3>1, <3>2 DEF Call
  <2>4. CASE WorkerEndsInError(t)
    BY <1>1, <2>4 DEF WorkerEndsInError, Call
  <2> QED
    BY <2>1, <2>2, <2>3, <2>4
       DEF WorkerStep, WorkerStart, WorkerReturns, AsynqRequeue
<1> QED
  BY <1>2, <1>3, <1>4 DEF BackedInv

\* Only a success with a size, or a reason for the failure, is recorded.
LEMMA BackedReport ==
    ASSUME TypeOK, BackedInv, NEW t \in Tasks, ReportStep(t) \/ ReportAbort(t)
    PROVE  BackedInv'
<1>1. UNCHANGED reportOnly /\ cut' = cut
  BY DEF historyVars, ReportStep, ReportRefused, ReportRead, ReportSave, ReportNotify, ReportAbort
<1>2. OpenIsBacked' /\ DownloadServes'
  BY <1>1 DEF BackedInv, OpenIsBacked, DownloadServes, Deleted, reportOnly
<1>3. ReadyIsBacked'
  <2>1. CASE ReportSave(t)
    <3>1. rpc[t].pc = "save" /\ row' = Outcome(rpc[t])
      BY <2>1 DEF ReportSave
    <3>2. row'.status = "ready" =>
             rpc[t].success /\ row'.size = rpc[t].size
      BY <3>1 DEF Outcome, BackedInv, TrueReports
    <3>3. rpc[t].success => rpc[t].size > 0 /\ (object \/ Deleted)
      BY <3>1 DEF BackedInv, TrueReports
    <3> QED
      BY <1>1, <3>2, <3>3 DEF ReadyIsBacked, Deleted, reportOnly
  <2>2. CASE UNCHANGED row
    BY <1>1, <2>2 DEF BackedInv, ReadyIsBacked, Deleted, reportOnly
  <2> QED
    BY <2>1, <2>2 DEF ReportStep, ReportRefused, ReportRead, ReportNotify, ReportAbort
<1>4. TrueReports'
  <2>1. PICK pc : Answer(t, pc) /\ (pc = "save" => ReportRead(t)) /\ pc # "sent"
    BY DEF ReportStep, ReportRefused, ReportRead, ReportSave, ReportNotify, ReportAbort
  <2>2. /\ rpc' = [rpc EXCEPT ![t].pc = pc]
        /\ rpc \in [Tasks -> CallType]
    BY <2>1 DEF Answer, TypeOK
  <2>3. CASE pc = "save"
    <3>1. rpc[t].pc = "sent" /\ (rpc[t].success => rpc[t].size # 0)
      BY <2>1, <2>3 DEF ReportRead, ReportAccepted
    <3>2. rpc[t].size \in {0, 1}
      BY <2>2 DEF CallType
    <3>3. rpc[t].success => rpc[t].size > 0
      BY <3>1, <3>2
    <3> QED
      BY <1>1, <2>2, <2>3, <3>1, <3>3
         DEF BackedInv, TrueReports, Deleted, reportOnly, CallType
  <2>4. CASE pc # "save"
    BY <1>1, <2>1, <2>2, <2>4
       DEF BackedInv, TrueReports, Deleted, reportOnly, CallType
  <2> QED
    BY <2>3, <2>4
<1> QED
  BY <1>2, <1>3, <1>4 DEF BackedInv

\* The folder with the mp4 goes only when the stream's row follows.
LEMMA BackedDelete ==
    ASSUME BackedInv,
           StreamMoves \/ DeleteBegin \/ DeleteFolder \/ DeleteRow \/ DeleteAbort
    PROVE  BackedInv'
<1>1. /\ UNCHANGED streamOnly
      /\ object \/ Deleted => (object \/ Deleted)'
      /\ Deleted => Deleted'
  <2> USE DEF streamOnly, historyVars, Deleted
  <2>1. CASE StreamMoves
    BY <2>1 DEF StreamMoves
  <2>2. CASE DeleteBegin
    BY <2>2 DEF DeleteBegin
  <2>3. CASE DeleteFolder
    BY <2>3 DEF DeleteFolder
  <2>4. CASE DeleteRow
    BY <2>4 DEF DeleteRow
  <2>5. CASE DeleteAbort
    BY <2>5 DEF DeleteAbort
  <2> QED
    BY <2>1, <2>2, <2>3, <2>4, <2>5
<1>2. ReadyIsBacked'
  BY <1>1 DEF BackedInv, ReadyIsBacked, streamOnly
<1>3. TrueReports'
  BY <1>1 DEF BackedInv, TrueReports, streamOnly
<1>4. OpenIsBacked' /\ DownloadServes'
  BY <1>1 DEF BackedInv, OpenIsBacked, DownloadServes, streamOnly
<1> QED
  BY <1>2, <1>3, <1>4 DEF BackedInv

\* Every step keeps what stands behind a ready row.
LEMMA BackedStep ==
    ASSUME "" \notin WorkerErrors,
           TypeOK, BackedInv, [Next]_vars
    PROVE  BackedInv'
<1>1. CASE UNCHANGED vars
  BY <1>1 DEF vars, historyVars, BackedInv, ReadyIsBacked, TrueReports, OpenIsBacked,
              DownloadServes, Deleted
<1> QED
  BY <1>1, BackedRequest, BackedDownload, BackedWorker, BackedReport,
     BackedDelete DEF Next

\* Nothing is ready, reported or being downloaded at the start.
LEMMA BackedInit == Init => BackedInv
<1> SUFFICES ASSUME Init PROVE BackedInv
  OBVIOUS
<1>1. ReadyIsBacked
  BY DEF Init, NoRow, ReadyIsBacked
<1>2. TrueReports
  BY DEF Init, NoCall, TrueReports
<1>3. OpenIsBacked /\ DownloadServes
  BY DEF Init, OpenIsBacked, DownloadServes
<1> QED
  BY <1>1, <1>2, <1>3 DEF BackedInv

\* A ready row is backed by an mp4 until the stream is deleted.
THEOREM ReadyBacked ==
    ASSUME "" \notin WorkerErrors
    PROVE  Spec => []ReadyIsBacked
<1>1. TypeOK /\ BackedInv /\ [Next]_vars => BackedInv'
  BY BackedStep
<1>2. BackedInv => ReadyIsBacked
  BY DEF BackedInv
<1> QED
  BY <1>1, <1>2, BackedInit, TypeCorrect, PTL DEF Spec

\* A download that saw a ready row finds its object, unless the stream is
\* deleted under it.
THEOREM DownloadFinds ==
    ASSUME "" \notin WorkerErrors
    PROVE  Spec => []DownloadServes
<1>1. TypeOK /\ BackedInv /\ [Next]_vars => BackedInv'
  BY BackedStep
<1>2. BackedInv => DownloadServes
  BY DEF BackedInv
<1> QED
  BY <1>1, <1>2, BackedInit, TypeCorrect, PTL DEF Spec

-----------------------------------------------------------------------------
(* The right to decide the row passes from hand to hand: from the handler  *)
(* that made the row pending to the attempt it queued, until a row takes   *)
(* the report of another attempt.                                          *)

OnceInv == ~misled => OneHolder

\* At the start nobody may decide anything.
LEMMA OnceInit == Init => OnceInv
<1> SUFFICES ASSUME Init PROVE OneHolder
  BY DEF OnceInv
<1>1. \A r \in Requests : ~RequestHolds(r)
  BY DEF Init, RequestHolds
<1>2. open = {} /\ \A t \in Tasks : rpc[t].pc = "idle"
  BY DEF Init, NoCall
<1> QED
  BY <1>1, <1>2 DEF OneHolder

\* Nobody gains the right: it stays with one holder, and with the row.
LEMMA HolderKept ==
    ASSUME OneHolder, row' = row, open' = open,
           \A r \in Requests : RequestHolds(r)' => RequestHolds(r),
           \A t \in Tasks : rpc'[t].pc = "save" => rpc[t].pc = "save"
    PROVE  OneHolder'
BY DEF OneHolder

\* A request handler takes the right with the row, and hands it to its task.
LEMMA OnceRequest ==
    ASSUME TypeOK, OneHolder, NEW r \in Requests,
           RequestBegin(r) \/ RequestStep(r) \/ RequestAbort(r)
    PROVE  OneHolder'
<1>1. /\ rpc' = rpc
      /\ req \in [Requests -> {"idle", "lookup", "create", "reset", "reread",
                               "enqueue", "compensate"}]
      /\ \A t \in Tasks : rpc[t].pc = "save" => open # {}
  BY DEF RequestBegin, RequestStep, RequestLookup, RequestCreate, RequestReset,
         RequestReread, RequestEnqueue, RequestEnqueueFails, RequestCompensate,
         RequestAbort, requestOnly, TypeOK, OneHolder
<1>2. CASE RequestBegin(r) \/ RequestLookup(r) \/ RequestReread(r) \/ RequestAbort(r)
           \/ RequestEnqueueFails(r)
  <2>1. row' = row /\ open' = open
    BY <1>2 DEF RequestBegin, RequestLookup, RequestReread, RequestAbort,
                RequestEnqueueFails, historyVars
  <2>2. \A q \in Requests : RequestHolds(q)' => RequestHolds(q)
    BY <1>1, <1>2 DEF RequestBegin, RequestLookup, RequestReread, RequestAbort,
                      RequestEnqueueFails, RequestHolds
  <2> QED
    BY <1>1, <2>1, <2>2, HolderKept
<1>3. CASE RequestCreate(r) \/ RequestReset(r)
  <2>1. open' = open
    BY <1>3 DEF RequestCreate, RequestReset, historyVars
  <2>2. CASE row.status # "pending" /\ row' = Pending /\ req' = [req EXCEPT ![r] = "enqueue"]
    <3>1. open = {} /\ \A q \in Requests : ~RequestHolds(q)
      BY <2>2 DEF OneHolder
    <3>2. \A q \in Requests : RequestHolds(q)' => q = r
      BY <1>1, <2>2, <3>1 DEF RequestHolds
    <3> QED
      BY <1>1, <2>1, <2>2, <3>1, <3>2, RowStatuses DEF OneHolder
  <2>3. CASE row' = row /\ (req' = [req EXCEPT ![r] = "idle"] \/ req' = [req EXCEPT ![r] = "reread"])
    <3>1. \A q \in Requests : RequestHolds(q)' => RequestHolds(q)
      BY <1>1, <2>3 DEF RequestHolds
    <3> QED
      BY <1>1, <2>1, <2>3, <3>1, HolderKept
  <2> QED
    BY <1>3, <2>2, <2>3, RowStatuses DEF RequestCreate, RequestReset
<1>4. CASE RequestEnqueue(r)
  <2>1. PICK t \in Tasks : open' = open \union {t}
    BY <1>4 DEF RequestEnqueue
  <2>2. row' = row /\ RequestHolds(r) /\ req' = [req EXCEPT ![r] = "idle"]
    BY <1>4 DEF RequestEnqueue, RequestHolds
  <2>3. open = {} /\ row.status = "pending" /\ \A q \in Requests : ~RequestHolds(q)'
    BY <1>1, <2>2 DEF OneHolder, RequestHolds
  <2> QED
    BY <1>1, <2>1, <2>2, <2>3 DEF OneHolder
<1>5. CASE RequestCompensate(r)
  <2>1. RequestHolds(r) /\ req' = [req EXCEPT ![r] = "idle"] /\ open' = open
    BY <1>5 DEF RequestCompensate, RequestHolds, historyVars
  <2>2. open' = {} /\ \A q \in Requests : ~RequestHolds(q)'
    BY <1>1, <2>1 DEF OneHolder, RequestHolds
  <2> QED
    BY <1>1, <2>1, <2>2 DEF OneHolder
<1> QED
  BY <1>2, <1>3, <1>4, <1>5 DEF RequestStep

\* The worker and asynq make and answer calls; none of them decides anything.
LEMMA OnceWorker ==
    ASSUME TypeOK, OneHolder, NEW t \in Tasks, WorkerStep(t)
    PROVE  OneHolder'
<1>1. UNCHANGED workerOnly /\ rpc \in [Tasks -> CallType]
  BY DEF WorkerStep, WorkerStart, WorkerSucceeds, WorkerFails, WorkerReturns,
         WorkerEndsInError, AsynqRequeue, TypeOK
<1>2. \A u \in Tasks : rpc'[u].pc = "save" => rpc[u].pc = "save"
  <2>1. CASE rpc' = rpc
    BY <2>1
  <2>2. ASSUME NEW b, NEW e, NEW n, rpc' = [rpc EXCEPT ![t] = Call(b, e, n)]
        PROVE  \A u \in Tasks : rpc'[u].pc = "save" => rpc[u].pc = "save"
    BY <1>1, <2>2 DEF Call
  <2>3. CASE WorkerSucceeds(t)
    BY <2>2, <2>3 DEF WorkerSucceeds
  <2>4. CASE WorkerFails(t)
    BY <2>2, <2>4 DEF WorkerFails
  <2>5. CASE WorkerEndsInError(t)
    BY <2>2, <2>5 DEF WorkerEndsInError
  <2> QED
    BY <2>1, <2>3, <2>4, <2>5 DEF WorkerStep, WorkerStart, WorkerReturns, AsynqRequeue
<1> QED
  BY <1>1, <1>2, HolderKept DEF RequestHolds, workerOnly, historyVars

\* A report is let in only with the right, and recording the outcome spends it.
LEMMA OnceReport ==
    ASSUME TypeOK, OneHolder, NEW t \in Tasks, ReportStep(t) \/ ReportAbort(t), ~misled'
    PROVE  OneHolder'
<1>1. UNCHANGED reportOnly /\ rpc \in [Tasks -> CallType]
  BY DEF ReportStep, ReportRefused, ReportRead, ReportSave, ReportNotify, ReportAbort, TypeOK
<1>2. \A r \in Requests : RequestHolds(r)' <=> RequestHolds(r)
  BY <1>1 DEF RequestHolds, reportOnly
<1>3. PICK pc : Answer(t, pc) /\ (pc = "save" => ReportRead(t))
  BY DEF ReportStep, ReportRefused, ReportRead, ReportSave, ReportNotify, ReportAbort
<1>4. rpc'[t].pc = pc /\ \A u \in Tasks : u # t => rpc'[u] = rpc[u]
  BY <1>1, <1>3 DEF Answer, CallType
<1>5. CASE ReportRead(t)
  <2>1. row' = row /\ open' = open
    BY <1>5 DEF ReportRead
  <2>2. rpc'[t].pc = "save" => t \in open
    <3>1. row = NoRow => ~Undecided(row)
      BY RowStatuses DEF Undecided
    <3>2. rpc'[t].pc = "save" => Undecided(row)
      BY <1>1, <1>5, <3>1 DEF ReportRead, Answer, CallType
    <3> QED
      BY <1>5, <3>2 DEF ReportRead
  <2> QED
    BY <1>2, <1>4, <2>1, <2>2 DEF OneHolder
<1>6. CASE ReportSave(t)
  <2>1. rpc[t].pc = "save" /\ open' = open \ {t} /\ pc # "save"
    BY <1>1, <1>4, <1>6 DEF ReportSave, Answer, CallType
  <2>2. t \in open /\ open' = {} /\ \A r \in Requests : ~RequestHolds(r)
    BY <2>1 DEF OneHolder
  <2>3. \A u \in Tasks : rpc'[u].pc # "save"
    BY <1>4, <2>1, <2>2 DEF OneHolder
  <2> QED
    BY <1>2, <2>2, <2>3 DEF OneHolder
<1>7. CASE ~ReportRead(t) /\ ~ReportSave(t)
  <2>1. row' = row /\ open' = open /\ pc # "save"
    BY <1>3, <1>7 DEF ReportStep, ReportRefused, ReportNotify, ReportAbort, historyVars
  <2>2. \A u \in Tasks : rpc'[u].pc = "save" => rpc[u].pc = "save"
    BY <1>4, <2>1
  <2> QED
    BY <1>2, <2>1, <2>2, HolderKept
<1> QED
  BY <1>5, <1>6, <1>7

\* Every step keeps the right with one holder.
LEMMA OnceStep == ASSUME TypeOK, OnceInv, [Next]_vars PROVE OnceInv'
<1> SUFFICES ASSUME ~misled' PROVE OneHolder'
  BY DEF OnceInv
<1>1. ~misled
  BY DEF Next, vars, historyVars, RequestBegin, RequestStep, RequestLookup, RequestCreate,
         RequestReset, RequestReread, RequestEnqueue, RequestEnqueueFails, RequestCompensate,
         RequestAbort, DownloadBegin, DownloadRow, DownloadOpen, downloadOnly,
         WorkerStep, WorkerStart, WorkerSucceeds, WorkerFails, WorkerReturns,
         WorkerEndsInError, AsynqRequeue, workerOnly, ReportStep, ReportRefused, ReportRead,
         ReportSave, ReportNotify, ReportAbort, StreamMoves, DeleteBegin, DeleteFolder,
         DeleteRow, DeleteAbort
<1>2. OneHolder
  BY <1>1 DEF OnceInv
<1> USE DEF OneHolder, RequestHolds
<1>3. CASE \E d \in Downloads : DownloadBegin(d) \/ DownloadRow(d) \/ DownloadOpen(d)
  BY <1>2, <1>3 DEF DownloadBegin, DownloadRow, DownloadOpen, downloadOnly, historyVars
<1>4. CASE StreamMoves \/ DeleteBegin \/ DeleteFolder \/ DeleteRow \/ DeleteAbort
  BY <1>2, <1>4 DEF streamOnly, historyVars, StreamMoves, DeleteBegin, DeleteFolder, DeleteRow,
                    DeleteAbort
<1>5. CASE UNCHANGED vars
  BY <1>2, <1>5 DEF vars, historyVars
<1> QED
  BY <1>2, <1>3, <1>4, <1>5, OnceRequest, OnceWorker, OnceReport DEF Next

\* The invariant holds throughout.
LEMMA OnceInvariant == Spec => []OnceInv
<1>1. TypeOK /\ OnceInv /\ [Next]_vars => OnceInv'
  BY OnceStep
<1> QED
  BY <1>1, OnceInit, TypeCorrect, PTL DEF Spec

\* No two export tasks of the stream wait or run for an undecided export at
\* once, whoever races, reports twice, is rerun, fails or dies, until a row
\* takes the report of another attempt.
THEOREM OneAtATime == Spec => []OneExportAtATime
<1>1. OnceInv => OneExportAtATime
  BY DEF OnceInv, OneHolder, OneExportAtATime
<1> QED
  BY <1>1, OnceInvariant, PTL

-----------------------------------------------------------------------------
(* The export keeps its contract.                                          *)

Shown == IF misled THEN "crossed" ELSE row.status

\* A request makes an absent or failed export pending, or undoes its own.
LEMMA ContractRequest ==
    ASSUME OnceInv, NEW r \in Requests,
           RequestBegin(r) \/ RequestStep(r) \/ RequestAbort(r)
    PROVE  [Contract!Next]_Shown
<1> USE DEF Shown, Contract!Next, Contract!Request, Contract!Decide
<1>0. misled' = misled
  BY DEF RequestBegin, RequestStep, RequestLookup, RequestCreate, RequestReset,
         RequestReread, RequestEnqueue, RequestEnqueueFails, RequestCompensate,
         RequestAbort, historyVars
<1>1. CASE RequestCreate(r)
  BY <1>0, <1>1, RowStatuses DEF RequestCreate
<1>2. CASE RequestReset(r)
  BY <1>0, <1>2, RowStatuses DEF RequestReset
<1>3. CASE RequestCompensate(r)
  <2>1. ~misled => row.status = "pending"
    BY <1>3 DEF RequestCompensate, OnceInv, OneHolder, RequestHolds
  <2> QED
    BY <1>0, <1>3, <2>1, RowStatuses DEF RequestCompensate
<1>4. CASE UNCHANGED row
  BY <1>0, <1>4
<1> QED
  BY <1>1, <1>2, <1>3, <1>4
     DEF RequestBegin, RequestStep, RequestLookup, RequestReread,
         RequestEnqueue, RequestEnqueueFails, RequestAbort

\* A report decides a pending export, or is mistaken for one that may.
LEMMA ContractReport ==
    ASSUME TypeOK, OnceInv, NEW t \in Tasks, ReportStep(t) \/ ReportAbort(t)
    PROVE  [Contract!Next]_Shown
<1>1. CASE ReportSave(t)
  <2>1. ~misled => row.status = "pending"
    BY <1>1 DEF ReportSave, OnceInv, OneHolder
  <2>2. row'.status \in {"ready", "failed"} /\ misled' = misled
    BY <1>1, OutcomeType DEF ReportSave, TypeOK
  <2> QED
    BY <2>1, <2>2 DEF Shown, Contract!Next, Contract!Decide
<1>2. CASE ReportRead(t)
  BY <1>2 DEF Shown, ReportRead, Undecided, Contract!Next, Contract!Cross
<1>3. CASE UNCHANGED <<row, misled>>
  BY <1>3 DEF Shown
<1> QED
  BY <1>1, <1>2, <1>3
     DEF ReportStep, ReportRefused, ReportNotify, ReportAbort, historyVars

\* Nothing else touches the row.
LEMMA ContractStep ==
    ASSUME TypeOK, OnceInv, [Next]_vars
    PROVE  [Contract!Next]_Shown
<1>0. CASE UNCHANGED <<row, misled>>
  BY <1>0 DEF Shown
<1>1. CASE \E d \in Downloads : DownloadBegin(d) \/ DownloadRow(d) \/ DownloadOpen(d)
  BY <1>0, <1>1 DEF DownloadBegin, DownloadRow, DownloadOpen, downloadOnly, historyVars
<1>2. CASE \E t \in Tasks : WorkerStep(t)
  BY <1>0, <1>2 DEF WorkerStep, WorkerStart, WorkerSucceeds, WorkerFails, WorkerReturns,
                    WorkerEndsInError, AsynqRequeue, workerOnly, historyVars
<1>3. CASE StreamMoves \/ DeleteBegin \/ DeleteFolder \/ DeleteRow \/ DeleteAbort
  BY <1>0, <1>3 DEF streamOnly, historyVars, StreamMoves, DeleteBegin, DeleteFolder, DeleteRow,
                    DeleteAbort
<1>4. CASE UNCHANGED vars
  BY <1>0, <1>4 DEF vars, historyVars
<1> QED
  BY <1>1, <1>2, <1>3, <1>4, ContractRequest, ContractReport DEF Next

\* What the owner sees follows ExportContract: a pending export is decided
\* once and a ready one stands, until a row takes the report of another attempt.
THEOREM KeepsContract == Spec => RefinesContract
<1>1. Init => Contract!Init
  BY RowStatuses DEF Init, Contract!Init
<1>2. TypeOK /\ OnceInv /\ [Next]_vars
          => [Contract!Next]_(IF misled THEN "crossed" ELSE row.status)
  BY ContractStep DEF Shown
<1> QED
  BY <1>1, <1>2, OnceInvariant, TypeCorrect, PTL
     DEF Spec, RefinesContract, Contract!Spec

-----------------------------------------------------------------------------
(* A pending row has somebody to decide it, even when a failed enqueue has *)
(* stored its task or a run reports twice, until a request or a report is  *)
(* refused or cut off midway.                                              *)

\* The task still has a report to make that may decide the row.
TaskHolds(t) ==
    task[t].stage \in {"queued", "running"} \/ rpc[t].pc \in {"sent", "save"}

\* Whoever is on it stays, or the row is pending no more.
LEMMA StaysOnIt ==
    ASSUME PendingHasWorker, row' = row \/ row'.status # "pending",
           ~dropped' => ~dropped,
           \A r \in Requests : req[r] \in {"enqueue", "compensate"}
               => req'[r] \in {"enqueue", "compensate"},
           \A t \in Tasks : TaskHolds(t) => TaskHolds(t)'
    PROVE  PendingHasWorker'
BY DEF PendingHasWorker, OnIt, TaskHolds

\* The handler that makes the row pending, or has it to decide, goes on to its
\* enqueue, which hands it to a task, or to the compensation.
LEMMA OnItRequest ==
    ASSUME TypeOK, PendingHasWorker, NEW r \in Requests,
           RequestBegin(r) \/ RequestStep(r) \/ RequestAbort(r)
    PROVE  PendingHasWorker'
<1>1. rpc' = rpc /\ req \in [Requests -> {"idle", "lookup", "create", "reset", "reread",
                                          "enqueue", "compensate"}]
                /\ task \in [Tasks -> TaskType]
  BY DEF RequestBegin, RequestStep, RequestLookup, RequestCreate, RequestReset,
         RequestReread, RequestEnqueue, RequestEnqueueFails, RequestCompensate,
         RequestAbort, requestOnly, TypeOK
<1>0. ~dropped' => ~dropped
  BY DEF RequestBegin, RequestStep, RequestLookup, RequestCreate, RequestReset,
         RequestReread, RequestEnqueue, RequestEnqueueFails, RequestCompensate,
         RequestAbort, historyVars
<1>2. CASE RequestBegin(r) \/ RequestLookup(r) \/ RequestReread(r) \/ RequestAbort(r)
  <2>1. row' = row /\ task' = task
    BY <1>2 DEF RequestBegin, RequestLookup, RequestReread, RequestAbort
  <2>2. \A q \in Requests : q # r => req'[q] = req[q]
    BY <1>1, <1>2 DEF RequestBegin, RequestLookup, RequestReread, RequestAbort
  <2>3. ~dropped' => req[r] \notin {"enqueue", "compensate"}
    BY <1>2 DEF RequestBegin, RequestLookup, RequestReread, RequestAbort, RequestHolds
  <2>4. CASE dropped'
    BY <2>4 DEF PendingHasWorker
  <2>5. CASE ~dropped'
    BY <1>0, <1>1, <2>1, <2>2, <2>3, <2>5, StaysOnIt DEF TaskHolds
  <2> QED
    BY <2>4, <2>5
<1>3. CASE RequestCreate(r) \/ RequestReset(r)
  <2>1. CASE req' = [req EXCEPT ![r] = "enqueue"]
    BY <1>1, <2>1 DEF PendingHasWorker, OnIt
  <2>2. CASE row' = row /\ req'[r] \in {"idle", "reread"}
    <3>1. /\ task' = task /\ req[r] \notin {"enqueue", "compensate"}
          /\ \A q \in Requests : q # r => req'[q] = req[q]
      BY <1>1, <1>3 DEF RequestCreate, RequestReset
    <3> QED
      BY <1>0, <1>1, <2>2, <3>1, StaysOnIt DEF TaskHolds
  <2> QED
    BY <1>1, <1>3, <2>1, <2>2 DEF RequestCreate, RequestReset
<1>4. CASE RequestEnqueue(r)
  <2>1. PICK t \in Tasks : Store(t)
    BY <1>4 DEF RequestEnqueue
  <2>2. task'[t].stage = "queued"
    BY <1>1, <2>1 DEF Store, TaskType
  <2> QED
    BY <2>2 DEF PendingHasWorker, OnIt
<1>5. CASE RequestEnqueueFails(r)
  BY <1>1, <1>5 DEF RequestEnqueueFails, PendingHasWorker, OnIt
<1>6. CASE RequestCompensate(r)
  BY <1>6, RowStatuses DEF RequestCompensate, PendingHasWorker
<1> QED
  BY <1>2, <1>3, <1>4, <1>5, <1>6 DEF RequestStep

\* A task that is queued runs, and one that runs reports.
LEMMA OnItWorker ==
    ASSUME TypeOK, PendingHasWorker, NEW t \in Tasks, WorkerStep(t)
    PROVE  PendingHasWorker'
<1>1. /\ UNCHANGED workerOnly
      /\ task \in [Tasks -> TaskType] /\ rpc \in [Tasks -> CallType]
  BY DEF WorkerStep, WorkerStart, WorkerSucceeds, WorkerFails, WorkerReturns,
         WorkerEndsInError, AsynqRequeue, TypeOK
<1>2. \A u \in Tasks : u # t => task'[u] = task[u] /\ rpc'[u] = rpc[u]
  BY <1>1 DEF WorkerStep, WorkerStart, WorkerSucceeds, WorkerFails, WorkerReturns,
              WorkerEndsInError, AsynqRequeue
<1>3. TaskHolds(t) => TaskHolds(t)'
  <2>1. CASE WorkerStart(t)
    BY <1>1, <2>1 DEF WorkerStart, TaskHolds, TaskType
  <2>2. CASE WorkerSucceeds(t)
    <3>1. PICK n \in ReportSizes : rpc' = [rpc EXCEPT ![t] = Call(TRUE, "", n)]
      BY <2>2 DEF WorkerSucceeds
    <3> QED
      BY <1>1, <3>1 DEF TaskHolds, Call
  <2>3. CASE WorkerFails(t)
    <3>1. PICK e \in WorkerErrors : rpc' = [rpc EXCEPT ![t] = Call(FALSE, e, 0)]
      BY <2>3 DEF WorkerFails
    <3> QED
      BY <1>1, <3>1 DEF TaskHolds, Call
  <2>4. CASE WorkerReturns(t) \/ WorkerEndsInError(t) \/ AsynqRequeue(t)
    <3>1. ~TaskHolds(t)
      BY <2>4 DEF WorkerReturns, WorkerEndsInError, AsynqRequeue, Reported, TaskHolds
    <3> QED
      BY <3>1
  <2> QED
    BY <2>1, <2>2, <2>3, <2>4 DEF WorkerStep
<1> QED
  BY <1>1, <1>2, <1>3, StaysOnIt DEF TaskHolds, workerOnly, historyVars

\* A report is turned down only once the row is decided.
LEMMA OnItReport ==
    ASSUME TypeOK, PendingHasWorker, NEW t \in Tasks, ReportStep(t) \/ ReportAbort(t), ~dropped'
    PROVE  PendingHasWorker'
<1>1. UNCHANGED reportOnly /\ rpc \in [Tasks -> CallType] /\ dropped' = dropped
  BY DEF ReportStep, ReportRefused, ReportRead, ReportSave, ReportNotify, ReportAbort, TypeOK,
         historyVars
<1>2. PICK pc : Answer(t, pc)
  BY DEF ReportStep, ReportRefused, ReportRead, ReportSave, ReportNotify, ReportAbort
<1>3. rpc'[t].pc = pc /\ \A u \in Tasks : u # t => rpc'[u] = rpc[u]
  BY <1>1, <1>2 DEF Answer, CallType
<1>4. CASE row'.status # "pending"
  BY <1>4 DEF PendingHasWorker
<1>5. CASE row'.status = "pending"
  <2>1. ~ReportSave(t) /\ row' = row
    <3>1. ASSUME ReportSave(t) PROVE FALSE
      BY <1>1, <1>5, <3>1, OutcomeType DEF ReportSave
    <3> QED
      BY <3>1 DEF ReportStep, ReportRefused, ReportRead, ReportNotify, ReportAbort
  <2>2. ~ReportRefused(t) /\ ~ReportAbort(t)
    BY DEF ReportRefused, ReportAbort
  <2>3. CASE ReportRead(t)
    <3>1. rpc'[t].pc = "save"
      BY <1>1, <1>5, <2>1, <2>3, RowStatuses DEF ReportRead, Answer, Undecided, CallType
    <3> QED
      BY <3>1 DEF PendingHasWorker, OnIt
  <2>4. CASE ReportNotify(t)
    <3>1. TaskHolds(t) => TaskHolds(t)'
      BY <1>1, <2>4 DEF ReportNotify, TaskHolds, reportOnly
    <3> QED
      BY <1>1, <1>3, <2>1, <3>1, StaysOnIt DEF TaskHolds, reportOnly
  <2> QED
    BY <2>1, <2>2, <2>3, <2>4 DEF ReportStep
<1> QED
  BY <1>4, <1>5

LEMMA OnItStep == ASSUME TypeOK, PendingHasWorker, [Next]_vars PROVE PendingHasWorker'
<1> SUFFICES ASSUME ~dropped' PROVE PendingHasWorker'
  BY DEF PendingHasWorker
<1>1. CASE \E r \in Requests : RequestBegin(r) \/ RequestStep(r) \/ RequestAbort(r)
  BY <1>1, OnItRequest
<1>2. CASE \E t \in Tasks : WorkerStep(t) \/ ReportStep(t) \/ ReportAbort(t)
  BY <1>2, OnItWorker, OnItReport
<1>3. CASE UNCHANGED <<row, req, task, rpc, dropped>>
  BY <1>3, StaysOnIt DEF TaskHolds
<1>4. CASE UNCHANGED vars
  BY <1>3, <1>4 DEF vars, historyVars
<1>5. CASE \E d \in Downloads : DownloadBegin(d) \/ DownloadRow(d) \/ DownloadOpen(d)
  BY <1>3, <1>5 DEF DownloadBegin, DownloadRow, DownloadOpen, downloadOnly, historyVars
<1>6. CASE StreamMoves \/ DeleteBegin \/ DeleteFolder \/ DeleteRow \/ DeleteAbort
  BY <1>3, <1>6 DEF streamOnly, historyVars, StreamMoves, DeleteBegin, DeleteFolder, DeleteRow,
                    DeleteAbort
<1> QED
  BY <1>1, <1>2, <1>4, <1>5, <1>6 DEF Next

\* "One that is pending is not re-queued, because the worker is already on it"
\* (RequestStreamExport), however often runs report or fail and whatever the
\* queue answers, until a request or a report is refused or cut off midway.
THEOREM PendingIsWorkedOn == Spec => []PendingHasWorker
<1>1. Init => PendingHasWorker
  BY RowStatuses DEF Init, PendingHasWorker
<1>2. TypeOK /\ PendingHasWorker /\ [Next]_vars => PendingHasWorker'
  BY OnItStep
<1> QED
  BY <1>1, <1>2, TypeCorrect, PTL DEF Spec

=============================================================================
