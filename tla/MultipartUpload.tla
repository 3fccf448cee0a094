--------------------------- MODULE MultipartUpload ---------------------------
(***************************************************************************)
(* The multipart upload of one draft, with its parts: the owner's browser  *)
(* tabs begin an upload, send the parts of a file in parallel, again where *)
(* an answer was lost, and ask for the parts to be joined; DeleteStream    *)
(* may run meanwhile.  StreamLifecycle has the same three handlers without *)
(* parts, tabs and upload ids.                                             *)
(*                                                                         *)
(* A tab begins one upload, so the upload, its key and its id are named by *)
(* the tab.  The ETag of a part is its content: the part of the file.      *)
(* Storage is S3: a part replaces the one of its number, and the join is   *)
(* refused unless the upload is open, the numbers ascend and every ETag is *)
(* that of the part stored.                                                *)
(***************************************************************************)
EXTENDS Naturals, Sequences

CONSTANTS
    Tabs,         \* the browser tabs of the owner
    NoTab,
    Files,        \* what they may upload
    Parts,        \* the number of parts of a file
    Joiners,      \* goroutines serving the complete requests: their bound
    Faults        \* the calls that may fail: "save", "queue", "storage"

ASSUME UploadConstants ==
    /\ NoTab \notin Tabs
    /\ Parts \in Nat \ {0}
    /\ Faults \subseteq {"save", "queue", "storage"}

PartNumbers == 1..Parts
NoPart      == <<"none", 0>>
Whole(file) == [n \in PartNumbers |-> <<file, n>>]
NoFile      == [n \in PartNumbers |-> NoPart]

TaskTypes == {"transcode", "thumbnail", "faces"}

Start(t)    == <<"start", t>>
Complete(g) == <<"complete", g>>
Delete      == <<"delete", NoTab>>

Starts    == {Start(t) : t \in Tabs}
Completes == {Complete(g) : g \in Joiners}
Handlers  == Starts \union Completes \union {Delete}

VARIABLES
    row,       \* the streams row: status and the upload its storage info names
    live,      \* deleted_at IS NULL
    open,      \* multipart uploads open in storage
    stored,    \* the parts storage holds of each upload
    object,    \* the object made of each upload
    tab,       \* each tab: its file, does it know its upload id, and the
               \* parts acknowledged to it, in the order of the answers
    puts,      \* part requests that passed the checks, not yet stored
    hs,        \* each handler: program counter, the tab that asked, the row as
               \* the handler knows it, its copy
    queued,    \* of each type, the upload its task was queued for
    clobbered, \* history: did a Save write over what its handler had not read?
    mishaps    \* history: the calls that failed and that nothing made up for

storageVars == <<open, stored, object>>
historyVars == <<clobbered, mishaps>>
vars == <<row, live, storageVars, tab, puts, hs, queued, historyVars>>

At(pc, t, r) == [pc |-> pc, tab |-> t, read |-> r, copy |-> r]
Draft == [status |-> "draft", upload |-> NoTab]

Init ==
    /\ row = Draft /\ live = TRUE
    /\ open = {}
    /\ stored = [t \in Tabs |-> NoFile]
    /\ object = [t \in Tabs |-> NoFile]
    /\ tab \in [Tabs -> [file : Files, knows : {FALSE}, acked : {<<>>}]]
    /\ puts = {}
    /\ hs = [h \in Handlers |-> At("idle", NoTab, Draft)]
    /\ queued = [k \in TaskTypes |-> NoTab]
    /\ clobbered = FALSE /\ mishaps = {}

Goto(h, pc) == hs' = [hs EXCEPT ![h].pc = pc]
Return(h) == hs' = [hs EXCEPT ![h] = At("over", NoTab, Draft)]

\* What cannot be made up for: an upload is "closed" and the row does not say
\* so, "leaked" as its abort failed, or "gutted" by a deletion that then failed;
\* a task of some type was not queued.
Mishaps == {"closed", "leaked", "gutted"} \union TaskTypes
Note(what) == mishaps' = mishaps \union {what}

\* Every handler reads the row first.
Begin(h, t, status, pc) ==
    /\ hs[h].pc = "idle"
    /\ live /\ row.status \in status
    /\ hs' = [hs EXCEPT ![h] = At(pc, t, row)]
    /\ UNCHANGED <<row, live, storageVars, tab, puts, queued, historyVars>>

-----------------------------------------------------------------------------
(* repo.Update: the row must exist, then the whole copy is saved, inserting *)
(* the row again if it has been deleted since.                             *)

SaveCheck(h) ==
    /\ \/ hs[h].pc = "check" /\ Goto(h, "write")
       \/ hs[h].pc = "recheck" /\ Goto(h, "rewrite")
    /\ live
    /\ UNCHANGED <<row, live, storageVars, tab, puts, queued, historyVars>>

\* CompleteStreamUpload goes on to queue its tasks; StartStreamUpload answers
\* its tab, whose request may have been given up.
SaveWrite(h) ==
    /\ hs[h].pc \in {"write", "rewrite"}
    /\ row' = hs[h].copy
    /\ live' = TRUE
    /\ clobbered' = (clobbered \/ ~live \/ row # hs[h].read)
    /\ IF h \in Completes /\ hs[h].pc = "write"
       THEN hs' = [hs EXCEPT ![h] = At("transcode", hs[h].tab, hs[h].copy)]
       ELSE Return(h)
    /\ \/ h \in Starts /\ tab' = [tab EXCEPT ![h[2]].knows = TRUE]
       \/ UNCHANGED tab
    /\ UNCHANGED <<storageVars, puts, queued, mishaps>>

SaveRefused(h) ==
    /\ \/ hs[h].pc \in {"check", "recheck"} /\ ~live
       \/ hs[h].pc \in {"check", "recheck", "write", "rewrite"} /\ "save" \in Faults
    /\ Return(h)

\* Mutant: StartStreamUpload leaves the upload it has just begun.
SaveFails_NoAbort(h) ==
    /\ SaveRefused(h)
    /\ UNCHANGED <<row, live, storageVars, tab, puts, queued, historyVars>>

\* StartStreamUpload aborts its upload and drops the error of that.
\* CompleteStreamUpload just returns: after the join, before the row says so.
SaveFails(h) ==
    /\ SaveRefused(h)
    /\ \/ h \in Starts /\ open' = open \ {h[2]} /\ UNCHANGED mishaps
       \/ h \in Starts /\ "storage" \in Faults /\ UNCHANGED open /\ Note("leaked")
       \/ /\ h \in Completes /\ UNCHANGED open
          /\ IF hs[h].pc \in {"check", "write"} THEN Note("closed") ELSE UNCHANGED mishaps
    /\ UNCHANGED <<row, live, stored, object, tab, puts, queued, clobbered>>

-----------------------------------------------------------------------------
(* StartStreamUpload.                                                      *)

StartBegin(t) == Begin(Start(t), t, {"draft"}, "store")

\* Mutant: the row is saved without the storage info.
InitMultipart_NoStorageInfo(t) ==
    /\ hs[Start(t)].pc = "store"
    /\ open' = open \union {t}
    /\ hs' = [hs EXCEPT ![Start(t)].pc = "check",
                        ![Start(t)].copy.status = "uploading"]
    /\ UNCHANGED <<row, live, stored, object, tab, puts, queued, historyVars>>

\* A multipart upload under a key of its own; key and upload id go into the row.
InitMultipart(t) ==
    /\ hs[Start(t)].pc = "store"
    /\ open' = open \union {t}
    /\ hs' = [hs EXCEPT ![Start(t)].pc = "check",
                        ![Start(t)].copy = [status |-> "uploading", upload |-> t]]
    /\ UNCHANGED <<row, live, stored, object, tab, puts, queued, historyVars>>

-----------------------------------------------------------------------------
(* UploadPart: the checks, then the PUT.                                   *)

PartBegin(t, n) ==
    /\ tab[t].knows
    /\ live /\ row.status = "uploading" /\ row.upload = t
    /\ puts' = puts \union {<<t, n>>}
    /\ UNCHANGED <<row, live, storageVars, tab, hs, queued, historyVars>>

Numbers(s) == {s[i] : i \in DOMAIN s}

\* A request that finds the upload closed fails; the answer of one that does
\* not may be lost, and the tab sends the part again.
PartStore(t, n) ==
    /\ <<t, n>> \in puts
    /\ puts' = puts \ {<<t, n>>}
    /\ IF t \in open
       THEN /\ stored' = [stored EXCEPT ![t][n] = <<tab[t].file, n>>]
            /\ \/ /\ n \notin Numbers(tab[t].acked)
                  /\ tab' = [tab EXCEPT ![t].acked = Append(@, n)]
               \/ UNCHANGED tab
       ELSE UNCHANGED <<stored, tab>>
    /\ UNCHANGED <<row, live, open, object, hs, queued, historyVars>>

-----------------------------------------------------------------------------
(* CompleteStreamUpload.                                                   *)

\* The tab has all its parts acknowledged.  The request names no upload: the
\* one completed is the one the row names.
CompleteBegin(t, g) ==
    /\ Len(tab[t].acked) = Parts
    /\ Begin(Complete(g), t, {"uploading"}, "store")

Ascending(s) == \A i, j \in DOMAIN s : i < j => s[i] < s[j]

\* Mutant: the parts are joined in the order the tab lists them.
Sorted_AsListed(s) == s

\* Mutant: the conversion to the client library's parts stops one short.
Sorted_OneShort(s) ==
    SubSeq(CHOOSE p \in [DOMAIN s -> Numbers(s)] : Ascending(p), 1, Len(s) - 1)

Sorted(s) == CHOOSE p \in [DOMAIN s -> Numbers(s)] : Ascending(p)

\* The ETags in t's request are those of its own file.
Accepts(u, t, list) ==
    /\ u \in open
    /\ Ascending(list)
    /\ \A i \in DOMAIN list : stored[u][list[i]] = <<tab[t].file, list[i]>>

Joined(u, list) ==
    [n \in PartNumbers |-> IF n \in Numbers(list) THEN stored[u][n] ELSE NoPart]

\* Mutant: the row is saved without its new status.
CompleteStore_KeepsStatus(g) ==
    LET h == Complete(g)
        u == hs[h].copy.upload
        list == Sorted(tab[hs[h].tab].acked)
    IN /\ hs[h].pc = "store"
       /\ IF Accepts(u, hs[h].tab, list)
          THEN /\ open' = open \ {u}
               /\ object' = [object EXCEPT ![u] = Joined(u, list)]
               /\ Goto(h, "check")
          ELSE Return(h) /\ UNCHANGED <<open, object>>
       /\ UNCHANGED <<row, live, stored, tab, puts, queued, historyVars>>

\* The parts are joined, in the order of their numbers, into the object of the
\* upload the row names; a refusal is answered to the tab.  So may a join be.
CompleteStore(g) ==
    LET h == Complete(g)
        u == hs[h].copy.upload
        list == Sorted(tab[hs[h].tab].acked)
    IN /\ hs[h].pc = "store"
       /\ IF Accepts(u, hs[h].tab, list)
          THEN /\ open' = open \ {u}
               /\ object' = [object EXCEPT ![u] = Joined(u, list)]
               /\ \/ /\ hs' = [hs EXCEPT ![h].pc = "check",
                                         ![h].copy.status = "processing"]
                     /\ UNCHANGED mishaps
                  \/ "storage" \in Faults /\ Return(h) /\ Note("closed")
          ELSE Return(h) /\ UNCHANGED <<open, object, mishaps>>
       /\ UNCHANGED <<row, live, stored, tab, puts, queued, clobbered>>

AfterQueue(k) == CASE k = "transcode" -> "thumbnail"
                   [] k = "thumbnail" -> "faces"
                   [] k = "faces"     -> "recheck"

\* Mutant: the faces task is left to the thumbnail's.
QueueTask_Skips(g, k) ==
    LET h == Complete(g) IN
    /\ hs[h].pc = k
    /\ IF queued[k] = NoTab /\ k # "faces"
       THEN queued' = [queued EXCEPT ![k] = hs[h].copy.upload]
       ELSE UNCHANGED queued
    /\ Goto(h, AfterQueue(k))
    /\ UNCHANGED <<row, live, storageVars, tab, puts, historyVars>>

\* One task of each type, under an id made of the stream's: while asynq holds
\* it, it is not queued again.  That, like any error of the queue, is only
\* logged; the task may be there all the same.
QueueTask(g, k) ==
    LET h == Complete(g) IN
    /\ hs[h].pc = k
    /\ \/ /\ queued' = [queued EXCEPT ![k] = IF @ = NoTab THEN hs[h].copy.upload ELSE @]
          /\ UNCHANGED mishaps
       \/ "queue" \in Faults /\ UNCHANGED queued /\ Note(k)
    /\ Goto(h, AfterQueue(k))
    /\ UNCHANGED <<row, live, storageVars, tab, puts, clobbered>>

-----------------------------------------------------------------------------
(* DeleteStream of a stream that is uploading or processing.               *)

DeleteBegin == Begin(Delete, NoTab, {"draft", "uploading", "processing"}, "source")

\* The object goes, if there is one; an open upload is not aborted.
DeleteSource ==
    /\ hs[Delete].pc = "source"
    /\ object' = [t \in Tabs |-> IF t = hs[Delete].copy.upload THEN NoFile
                                                               ELSE object[t]]
    /\ Goto(Delete, "row")
    /\ UNCHANGED <<row, live, open, stored, tab, puts, queued, historyVars>>

\* An error of storage ends the deletion before anything is gone.
DeleteSourceFails ==
    /\ hs[Delete].pc = "source" /\ "storage" \in Faults
    /\ Return(Delete)
    /\ UNCHANGED <<row, live, storageVars, tab, puts, queued, historyVars>>

DeleteRow ==
    /\ hs[Delete].pc = "row"
    /\ live' = FALSE
    /\ Return(Delete)
    /\ UNCHANGED <<row, storageVars, tab, puts, queued, historyVars>>

\* Or it fails, with the object gone.
DeleteRowFails ==
    /\ hs[Delete].pc = "row" /\ "save" \in Faults
    /\ Return(Delete)
    /\ Note("gutted")
    /\ UNCHANGED <<row, live, storageVars, tab, puts, queued, clobbered>>

-----------------------------------------------------------------------------

Next ==
    \/ \E t \in Tabs : StartBegin(t) \/ InitMultipart(t)
    \/ \E t \in Tabs, n \in PartNumbers : PartBegin(t, n) \/ PartStore(t, n)
    \/ \E t \in Tabs, g \in Joiners : CompleteBegin(t, g)
    \/ \E g \in Joiners : CompleteStore(g) \/ \E k \in TaskTypes : QueueTask(g, k)
    \/ \E h \in Starts \union Completes :
          SaveCheck(h) \/ SaveWrite(h) \/ SaveFails(h)
    \/ DeleteBegin \/ DeleteSource \/ DeleteSourceFails
    \/ DeleteRow \/ DeleteRowFails

Spec == Init /\ [][Next]_vars

-----------------------------------------------------------------------------
(* Properties.                                                             *)

RowType  == [status : {"draft", "uploading", "processing"}, upload : Tabs \union {NoTab}]
FileType == [PartNumbers -> (Files \X PartNumbers) \union {NoPart}]
Pcs == {"idle", "store", "check", "write", "recheck", "rewrite",
        "source", "row", "over"} \union TaskTypes

\* The state has the shape the code's types allow: a stream that is no draft
\* has the storage info the handlers unmarshal.
TypeOK ==
    /\ row \in RowType /\ live \in BOOLEAN
    /\ row.status # "draft" => row.upload # NoTab
    /\ open \subseteq Tabs
    /\ stored \in [Tabs -> FileType] /\ object \in [Tabs -> FileType]
    /\ \A t \in Tabs :
          /\ tab[t].file \in Files /\ tab[t].knows \in BOOLEAN
          /\ tab[t].acked \in Seq(PartNumbers)
    /\ puts \subseteq Tabs \X PartNumbers
    /\ hs \in [Handlers -> [pc : Pcs, tab : Tabs \union {NoTab}, read : RowType, copy : RowType]]
    /\ queued \in [TaskTypes -> Tabs \union {NoTab}]
    /\ clobbered \in BOOLEAN /\ mishaps \subseteq Mishaps

Busy == {h \in Handlers : hs[h].pc \notin {"idle", "over"}}

\* A stream shown as uploading can still be completed: its upload is open, or
\* the handler that closed it is about to say so.  Whatever overlaps, since a
\* Save of "uploading" brings its own upload; a retried complete request
\* cannot close an upload twice.  Not once a join went unsaid.
UploadingIsOpen ==
    live /\ row.status = "uploading" /\ "closed" \notin mishaps =>
        \/ row.upload \in open
        \/ \E h \in Completes : /\ hs[h].pc \in {"check", "write"}
                                /\ hs[h].copy.upload = row.upload

\* What a tab has been told is stored is accepted, in whatever order the parts
\* were answered, repeated or late: a complete request that gets no further, for
\* the upload of the tab that asks, leaves it joined.
OwnPartsAreTaken ==
    [][\A h \in Completes :
          hs[h].pc = "store" /\ hs'[h].pc = "over"
              => hs[h].copy.upload # hs[h].tab \/ hs[h].tab \notin open']_vars

\* A stream in processing has the whole file behind it, and a task of each type
\* that reads it unless the queue refused that one, whatever requests raced:
\* unless a Save wrote over another's (two tabs that both read the draft) or a
\* deletion failed halfway.
FileBehindRow ==
    /\ live /\ row.status = "processing"
    /\ ~clobbered /\ "gutted" \notin mishaps /\ hs[Delete].pc # "row"
    => /\ object[row.upload] = Whole(tab[row.upload].file)
       /\ Busy = {} => \A k \in TaskTypes \ mishaps : queued[k] = row.upload

\* Of a stream that exists, storage holds nothing it does not name: no open
\* upload but the one it is uploading, no object but its file.  DeleteStream,
\* a Save over another's and a failed abort do leave such uploads behind.
NothingLeftBehind ==
    live /\ Busy = {} /\ ~clobbered /\ "leaked" \notin mishaps =>
        /\ open \subseteq (IF row.status = "uploading" THEN {row.upload} ELSE {})
        /\ \A t \in Tabs : object[t] # NoFile => row.upload = t

=============================================================================
