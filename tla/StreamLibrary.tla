---------------------------- MODULE StreamLibrary ----------------------------
(***************************************************************************)
(* The operations on many streams: a client that walks a list page by page *)
(* (GET /stream, GET /stream/own) and a batch that asks for face detection *)
(* (POST /stream/faces/batch), while the streams are created, published,   *)
(* edited and deleted.  A page is two statements, a count and a select;    *)
(* the batch reads all its rows at once and then writes them back one by   *)
(* one, each as a whole, in the turns of its loop.                         *)
(*                                                                         *)
(* Streams are numbered in the order of their creation.  Other handlers    *)
(* are single steps here (StreamLifecycle has theirs).  Abstracted: the    *)
(* text search, the status filter of the own list and the sort by title,   *)
(* which select and order like the ones modelled, and the handlers'        *)
(* refusal of an offset above 10000: the lists walked here stay shorter.   *)
(***************************************************************************)
EXTENDS Naturals, Sequences, FiniteSets

CONSTANTS
    Streams,      \* ids 1..n in the order of creation
    Mine,         \* the streams of the user who asks
    IsAdmin,
    Kinds,        \* the lists walked: "own", "undetected" (own, faces_detected
                  \* = false) and "public"
    Sorts,        \* what they are sorted by: "created_at" or "status"
    Limits,       \* the limits asked for
    DefaultLimit, \* what repo.List takes for a limit of zero (50)
    Batches,      \* the sequences of ids a batch is asked for
    MaxBatch,     \* MaxFacesBatchSize
    MaxChanges    \* bound on the steps of other handlers

ASSUME LibraryConstants ==
    /\ IsFiniteSet(Streams) /\ Streams = 1..Cardinality(Streams)
    /\ Mine \subseteq Streams /\ IsAdmin \in BOOLEAN
    /\ Kinds \subseteq {"own", "undetected", "public"}
    /\ Sorts \subseteq {"created_at", "status"}
    /\ Limits \subseteq Nat /\ DefaultLimit \in Nat \ {0}
    /\ Batches \subseteq Seq(Streams)
    /\ MaxBatch \in Nat /\ MaxChanges \in Nat

VARIABLES
    row,     \* each streams row: is it there, status, public, faces detected
    input,   \* the streams whose source or HLS is in storage
    changes, \* steps other handlers have taken
    walk,    \* the walk: list, sort, limit, program counter, last total, what it saw
    stayed,  \* history: the streams in the list ever since the walk began
    came,    \* history: some stream came into the list during the walk
    gone,    \* history: some stream left it during the walk
    batch,   \* the batch: program counter, ids, snapshot, turn, its answer
    queued   \* streams for which the batch queued a faces task

walkVars  == <<walk, stayed, came, gone>>
batchVars == <<batch, queued>>
vars == <<row, input, changes, walkVars, batchVars>>

Row(there, status) ==
    [there |-> there, status |-> status, public |-> TRUE, faces |-> FALSE]
Absent == Row(FALSE, "draft")

NoWalk  == [kind |-> "own", sort |-> "created_at", limit |-> 0, pc |-> "idle",
            total |-> 0, seen |-> <<>>]
NoBatch == [pc |-> "idle", ids |-> <<>>, copy |-> [s \in Streams |-> Absent],
            turn |-> 1, processed |-> <<>>, failed |-> <<>>]

\* Some streams are there and processed; the rest is yet to be created.
Init ==
    /\ \E made \in 0..Cardinality(Streams) :
          row \in {r \in [Streams -> {Absent, Row(TRUE, "ready"), Row(TRUE, "published")}] :
                     \A s \in Streams : r[s].there <=> s <= made}
    /\ input = {s \in Streams : row[s].there}
    /\ changes = 0
    /\ walk = NoWalk /\ stayed = {} /\ came = FALSE /\ gone = FALSE
    /\ batch = NoBatch /\ queued = {}

-----------------------------------------------------------------------------
(* The lists.                                                              *)

\* The Where clauses of repo.List; a soft-deleted row never matches.
Listed(kind, r) ==
    {s \in Streams :
        /\ r[s].there
        /\ CASE kind = "own"        -> s \in Mine
             [] kind = "undetected" -> s \in Mine /\ ~r[s].faces
             [] kind = "public"     -> r[s].public /\ r[s].status = "published"}

\* Does ORDER BY put s before t?  Descending, as is the default.
Before(sort, r, s, t) ==
    IF sort = "created_at" THEN s > t
    ELSE \/ r[s].status = "ready" /\ r[t].status \in {"published", "draft"}
         \/ r[s].status = "published" /\ r[t].status = "draft"

\* Mutant: the select without its ORDER BY.
Orders_None(sort, S, r) ==
    {o \in [1..Cardinality(S) -> S] : {o[i] : i \in DOMAIN o} = S}

\* Rows that compare equal come in any order, and in another one the next time.
Orders(sort, S, r) ==
    {o \in [1..Cardinality(S) -> S] :
        /\ {o[i] : i \in DOMAIN o} = S
        /\ \A i, j \in DOMAIN o : i < j => ~Before(sort, r, o[j], o[i])}

PageSize(limit) == IF limit = 0 THEN DefaultLimit ELSE limit

Page(order, limit, offset) ==
    SubSeq(order, offset + 1,
           IF offset + PageSize(limit) < Len(order) THEN offset + PageSize(limit)
                                                    ELSE Len(order))

WalkBegin ==
    /\ walk.pc = "idle"
    /\ \E kind \in Kinds, sort \in Sorts, limit \in Limits :
          walk' = [NoWalk EXCEPT !.kind = kind, !.sort = sort, !.limit = limit,
                                 !.pc = "count"]
          /\ stayed' = Listed(kind, row)
    /\ UNCHANGED <<row, input, changes, came, gone, batchVars>>

\* Mutant: the count is taken of the limited query.
WalkCount_Limited ==
    /\ walk.pc = "count"
    /\ LET n == Cardinality(Listed(walk.kind, row)) IN
       walk' = [walk EXCEPT !.pc = "select",
                            !.total = IF n < PageSize(walk.limit) THEN n
                                      ELSE PageSize(walk.limit)]
    /\ UNCHANGED <<row, input, changes, stayed, came, gone, batchVars>>

WalkCount ==
    /\ walk.pc = "count"
    /\ walk' = [walk EXCEPT !.pc = "select",
                            !.total = Cardinality(Listed(walk.kind, row))]
    /\ UNCHANGED <<row, input, changes, stayed, came, gone, batchVars>>

\* The client asks on from where its pages end, until one is empty.
WalkSelect ==
    /\ walk.pc = "select"
    /\ \E order \in Orders(walk.sort, Listed(walk.kind, row), row) :
          LET page == Page(order, walk.limit, Len(walk.seen)) IN
          walk' = [walk EXCEPT !.seen = @ \o page,
                               !.pc = IF page = <<>> THEN "done" ELSE "count"]
    /\ UNCHANGED <<row, input, changes, stayed, came, gone, batchVars>>

-----------------------------------------------------------------------------
(* The streams change.                                                     *)

Watched == walk.pc \in {"count", "select"}

\* The rows become r; note what the walker's list gained and lost.
Become(r) ==
    /\ row' = r
    /\ LET was == Listed(walk.kind, row)
           is  == Listed(walk.kind, r)
       IN IF Watched
          THEN /\ stayed' = stayed \intersect is
               /\ came' = (came \/ ~(is \subseteq was))
               /\ gone' = (gone \/ ~(was \subseteq is))
          ELSE UNCHANGED <<stayed, came, gone>>
    /\ UNCHANGED walk

OtherHandler(r, i) ==
    /\ changes < MaxChanges
    /\ changes' = changes + 1
    /\ Become(r)
    /\ input' = i
    /\ UNCHANGED batchVars

Create ==
    \E s \in Streams :
        /\ \A t \in Streams : row[t].there => t < s
        /\ \A t \in 1..(s - 1) : row[t] # Absent
        /\ row[s] = Absent
        /\ OtherHandler([row EXCEPT ![s] = Row(TRUE, "draft")], input)

Process(s) ==
    /\ row[s].there /\ row[s].status = "draft"
    /\ OtherHandler([row EXCEPT ![s].status = "ready"], input \union {s})

Publish(s) ==
    /\ row[s].there /\ row[s].status = "ready"
    /\ OtherHandler([row EXCEPT ![s].status = "published"], input)

Unpublish(s) ==
    /\ row[s].there /\ row[s].status = "published"
    /\ OtherHandler([row EXCEPT ![s].status = "ready"], input)

\* UpdateStream; visibility is the column the lists look at.
Hide(s) ==
    /\ row[s].there /\ row[s].status # "published"
    /\ OtherHandler([row EXCEPT ![s].public = ~@], input)

FacesDone(s) ==
    /\ row[s].there /\ s \in input /\ ~row[s].faces
    /\ OtherHandler([row EXCEPT ![s].faces = TRUE], input)

Remove(s) ==
    /\ row[s].there /\ row[s].status # "published"
    /\ OtherHandler([row EXCEPT ![s].there = FALSE], input \ {s})

-----------------------------------------------------------------------------
(* ProcessFacesBatch.                                                      *)

Distinct(ids) == \A i, j \in DOMAIN ids : ids[i] = ids[j] => i = j

\* Validate, then ReadMany: the rows that are there, all at one moment.
BatchBegin ==
    /\ batch.pc = "idle"
    /\ \E ids \in Batches :
          /\ ids # <<>> /\ Len(ids) <= MaxBatch /\ Distinct(ids)
          /\ batch' = [NoBatch EXCEPT !.pc = "turn", !.ids = ids, !.copy = row]
    /\ UNCHANGED <<row, input, changes, walkVars, queued>>

Current == batch.ids[batch.turn]

\* A draft has none yet.
HasStorageInfo(r) == r.status # "draft"

\* The turn ends with a failure and its reason, or with success.
NextTurn(b) ==
    LET last == b.turn = Len(b.ids)
    IN [b EXCEPT !.turn = @ + 1,
                 !.pc = IF last THEN "done" ELSE "turn",
                 !.copy = IF last THEN NoBatch.copy ELSE @]
Fail(reason) ==
    batch' = NextTurn([batch EXCEPT !.failed = Append(@, <<Current, reason>>)])

\* Mutant: a stream of somebody else is reported and processed all the same.
BatchTurn_NoContinue ==
    /\ batch.pc = "turn"
    /\ LET r == batch.copy[Current] IN
       \/ ~r.there /\ Fail("not found")
       \/ r.there /\ Fail("error")
       \/ r.there /\ HasStorageInfo(r) /\ Current \notin input /\ Fail("source missing")
       \/ /\ r.there /\ HasStorageInfo(r) /\ Current \in input
          /\ batch' = [batch EXCEPT !.pc = "enqueue",
                          !.failed = IF Current \in Mine \/ IsAdmin THEN @
                                     ELSE Append(@, <<Current, "forbidden">>)]
    /\ UNCHANGED <<row, input, changes, walkVars, queued>>

\* Judged on the snapshot but for the input, which is looked for in storage; a
\* look that fails is an error like a missing storage info.
BatchTurn ==
    /\ batch.pc = "turn"
    /\ LET r == batch.copy[Current]
           mayAsk == r.there /\ (Current \in Mine \/ IsAdmin)
       IN \/ ~r.there /\ Fail("not found")
          \/ r.there /\ ~mayAsk /\ Fail("forbidden")
          \/ mayAsk /\ Fail("error")
          \/ mayAsk /\ HasStorageInfo(r) /\ Current \notin input /\ Fail("source missing")
          \/ /\ mayAsk /\ HasStorageInfo(r) /\ Current \in input
             /\ batch' = [batch EXCEPT !.pc = "enqueue"]
    /\ UNCHANGED <<row, input, changes, walkVars, queued>>

\* Mutant: an enqueue that failed is logged only.
BatchEnqueue_Ignored ==
    /\ batch.pc = "enqueue"
    /\ batch' = [batch EXCEPT !.pc = "check"]
    /\ \/ queued' = queued \union {Current}
       \/ UNCHANGED queued
    /\ UNCHANGED <<row, input, changes, walkVars>>

BatchEnqueue ==
    /\ batch.pc = "enqueue"
    /\ \/ queued' = queued \union {Current} /\ batch' = [batch EXCEPT !.pc = "check"]
       \/ Fail("error") /\ UNCHANGED queued
    /\ UNCHANGED <<row, input, changes, walkVars>>

\* repo.Update finds the row, or fails.
BatchCheck ==
    /\ batch.pc = "check"
    /\ IF row[Current].there THEN batch' = [batch EXCEPT !.pc = "write"]
                             ELSE Fail("error")
    /\ UNCHANGED <<row, input, changes, walkVars, queued>>

\* The whole row is written as the snapshot has it, or the write fails.
BatchWrite ==
    /\ batch.pc = "write"
    /\ \/ /\ Become([row EXCEPT ![Current] = batch.copy[Current]])
          /\ batch' = NextTurn([batch EXCEPT !.processed = Append(@, Current)])
       \/ Fail("error") /\ UNCHANGED <<row, walkVars>>
    /\ UNCHANGED <<input, changes, queued>>

-----------------------------------------------------------------------------

Next ==
    \/ WalkBegin \/ WalkCount \/ WalkSelect
    \/ Create
    \/ \E s \in Streams : \/ Process(s) \/ Publish(s) \/ Unpublish(s) \/ Hide(s)
                          \/ FacesDone(s) \/ Remove(s)
    \/ BatchBegin \/ BatchTurn \/ BatchEnqueue \/ BatchCheck \/ BatchWrite

Spec == Init /\ [][Next]_vars

-----------------------------------------------------------------------------
(* Properties.                                                             *)

Reasons == {"not found", "forbidden", "source missing", "error"}

\* The state has the shape the code's types allow, and between two turns the
\* batch has answered for the turns behind it.
TypeOK ==
    /\ row \in [Streams -> [there : BOOLEAN, status : {"draft", "ready", "published"},
                            public : BOOLEAN, faces : BOOLEAN]]
    /\ input \subseteq Streams /\ changes \in 0..MaxChanges
    /\ walk.pc \in {"idle", "count", "select", "done"}
    /\ walk.total \in 0..Cardinality(Streams) /\ walk.seen \in Seq(Streams)
    /\ stayed \subseteq Streams /\ came \in BOOLEAN /\ gone \in BOOLEAN
    /\ batch.pc \in {"idle", "turn", "enqueue", "check", "write", "done"}
    /\ batch.failed \in Seq(Streams \X Reasons)
    /\ Len(batch.processed) + Len(batch.failed) = batch.turn - 1
    /\ queued \subseteq Streams

Saw(s) == \E i \in DOMAIN walk.seen : walk.seen[i] = s

\* A walk misses no stream that was in the list all the while, unless one
\* before it left: what comes in only pushes the others back.
WalkMissesNothing ==
    walk.pc = "done" /\ ~gone => \A s \in stayed : Saw(s)

\* The pages of a walk add up to the list: no stream is shown twice unless
\* another came in before it, and the total the list answers with, whatever the
\* limit, is what its pages held if the list did not change between them.
PagesAddUp ==
    ~came => /\ Distinct(walk.seen)
             /\ walk.pc = "done" /\ ~gone => walk.total = Len(walk.seen)

\* "partial-success body {processed, failed}" (README): each id is answered
\* for once, a processed one has its task, and a task was queued for one
\* reported as failed only where writing the row failed after the enqueue.
BatchAnswersEach ==
    batch.pc = "done" =>
        LET failed == {f[1] : f \in {batch.failed[i] : i \in DOMAIN batch.failed}}
            processed == {batch.processed[i] : i \in DOMAIN batch.processed}
        IN /\ processed \intersect failed = {}
           /\ processed \union failed = {batch.ids[i] : i \in DOMAIN batch.ids}
           /\ processed \subseteq queued
           /\ \A s \in queued \ processed :
                 \E i \in DOMAIN batch.failed : batch.failed[i] = <<s, "error">>

=============================================================================
