----------------------- MODULE MultipartUpload_proofs -----------------------
(***************************************************************************)
(* Proofs about MultipartUpload, for every number of tabs, files, parts    *)
(* and complete requests, every fault and every interleaving.              *)
(***************************************************************************)
EXTENDS MultipartUpload, FiniteSetTheorems, TLAPS

-----------------------------------------------------------------------------
(* The inductive invariant, in parts.                                      *)

TabType     == [file : Files, knows : BOOLEAN, acked : Seq(PartNumbers)]
HandlerType == [pc : Pcs, tab : Tabs \union {NoTab}, read : RowType, copy : RowType]

\* The handler has read the row; it has joined the parts.
Reading == {"store", "check", "write", "recheck", "rewrite"} \union TaskTypes
Joining == Reading \ {"store"}

\* A start goes from the draft to its own upload.
StartSound(t, h) ==
    /\ h.pc \in {"idle", "store", "check", "write", "over"}
    /\ h.read = Draft
    /\ h.copy = IF h.pc \in {"check", "write"}
                THEN [status |-> "uploading", upload |-> t] ELSE Draft

\* A complete request that queues has the task of type k before it, or behind.
Ahead(k) == IF k = "transcode" THEN {"transcode"}
            ELSE IF k = "thumbnail" THEN {"transcode", "thumbnail"} ELSE TaskTypes
Past(k) == (TaskTypes \ Ahead(k)) \union {"recheck", "rewrite"}

\* A complete request keeps to the upload the row named when it read it.
CompleteSound(h) ==
    \/ h.pc \in {"idle", "over"} /\ h.copy = Draft
    \/ /\ h.pc \in Reading /\ h.tab \in Tabs
       /\ h.copy.upload \in Tabs /\ h.read.upload = h.copy.upload
       /\ h.copy.status = IF h.pc = "store" THEN "uploading" ELSE "processing"

DataTyped ==
    /\ row \in RowType /\ live \in BOOLEAN
    /\ row.status = "draft" => row = Draft
    /\ row.status # "draft" => row.upload # NoTab
    /\ open \subseteq Tabs
    /\ stored \in [Tabs -> FileType] /\ object \in [Tabs -> FileType]
    /\ tab \in [Tabs -> TabType]
    /\ puts \subseteq Tabs \X PartNumbers
    /\ queued \in [TaskTypes -> Tabs \union {NoTab}]
    /\ clobbered \in BOOLEAN /\ mishaps \subseteq Mishaps

HandlersTyped ==
    /\ hs \in [Handlers -> HandlerType]
    /\ \A t \in Tabs : StartSound(t, hs[Start(t)])
    /\ \A g \in Joiners : CompleteSound(hs[Complete(g)])
    /\ hs[Delete].pc \in {"idle", "source", "row", "over"}

Typed == DataTyped /\ HandlersTyped

\* No part is acknowledged twice, and storage has what is acknowledged: parts
\* of the tab's own file, of which the object is made whole or not at all.
TabParts(t) ==
    /\ \A i, j \in DOMAIN tab[t].acked :
          tab[t].acked[i] = tab[t].acked[j] => i = j
    /\ \A i \in DOMAIN tab[t].acked :
          stored[t][tab[t].acked[i]] = <<tab[t].file, tab[t].acked[i]>>
    /\ \A n \in PartNumbers : stored[t][n] \in {NoPart, <<tab[t].file, n>>}
    /\ object[t] \in {NoFile, Whole(tab[t].file)}

PartsKept ==
    /\ \A t \in Tabs : TabParts(t)
    /\ \A g \in Joiners : hs[Complete(g)].pc = "store"
          => Len(tab[hs[Complete(g)].tab].acked) = Parts

\* An upload is open from the time its start has begun it, and the row or a
\* copy names it only when that start is over; what has been joined is closed.
Uploads ==
    /\ \A t \in Tabs :
          /\ hs[Start(t)].pc \in {"check", "write"} => t \in open
          /\ t \in open => hs[Start(t)].pc \in {"check", "write", "over"}
          /\ row.upload = t => hs[Start(t)].pc = "over"
          /\ \A g \in Joiners :
                hs[Complete(g)].copy.upload = t => hs[Start(t)].pc = "over"
    /\ row.status = "processing" => row.upload \notin open
    /\ \A g \in Joiners :
          hs[Complete(g)].pc \in Joining => hs[Complete(g)].copy.upload \notin open

\* Until a Save writes over another's, there is one upload: the row's.
OneUpload ==
    ~clobbered =>
        /\ \A g \in Joiners : hs[Complete(g)].pc \in Reading
              => hs[Complete(g)].copy.upload = row.upload
        /\ \A k \in TaskTypes : queued[k] \in {NoTab, row.upload}
        /\ \A t \in Tabs :
              /\ t \in open => \/ hs[Start(t)].pc \in {"check", "write"}
                               \/ row.upload = t
                               \/ "leaked" \in mishaps
              /\ object[t] # NoFile => row.upload = t

\* Until DeleteStream removes it, the file joined stays whole.
Intact == live /\ ~clobbered /\ "gutted" \notin mishaps /\ hs[Delete].pc # "row"

FilesJoined ==
    Intact =>
        /\ row.status = "processing"
              => object[row.upload] = Whole(tab[row.upload].file)
        /\ \A g \in Joiners : hs[Complete(g)].pc \in Joining =>
              object[hs[Complete(g)].copy.upload]
                  = Whole(tab[hs[Complete(g)].copy.upload].file)

\* A row in processing has each task queued, or a handler about to, or the
\* queue has refused it.
TasksQueued ==
    \A k \in TaskTypes \ mishaps :
        /\ row.status = "processing" =>
              queued[k] # NoTab \/ \E g \in Joiners : hs[Complete(g)].pc \in Ahead(k)
        /\ \A g \in Joiners : hs[Complete(g)].pc \in Past(k) => queued[k] # NoTab

IInv == Typed /\ PartsKept /\ Uploads /\ OneUpload /\ FilesJoined /\ TasksQueued

-----------------------------------------------------------------------------
(* The operators of the model.                                             *)

\* Handlers of different kinds, tabs and goroutines are different handlers.
LEMMA HandlersApart ==
    /\ \A t \in Tabs : /\ Start(t) \in Handlers /\ Start(t) \in Starts
                       /\ Start(t) \notin Completes /\ Start(t)[2] = t
                       /\ Start(t) # Delete
    /\ \A g \in Joiners : /\ Complete(g) \in Handlers /\ Complete(g) \in Completes
                          /\ Complete(g) \notin Starts /\ Complete(g) # Delete
    /\ Delete \in Handlers
    /\ \A s, t \in Tabs : Start(s) = Start(t) => s = t
    /\ \A f, g \in Joiners : Complete(f) = Complete(g) => f = g
    /\ \A t \in Tabs, g \in Joiners : Start(t) # Complete(g)
    /\ \A h \in Starts : \E t \in Tabs : h = Start(t)
    /\ \A h \in Completes : \E g \in Joiners : h = Complete(g)
    /\ \A h \in Handlers : h \in Starts \/ h \in Completes \/ h = Delete
BY DEF Handlers, Starts, Completes, Start, Complete, Delete

LEMMA DraftType ==
    Draft \in RowType /\ Draft.status = "draft" /\ Draft.upload = NoTab
BY DEF Draft, RowType

\* A part is no missing part, and a whole file no missing file.
LEMMA WholeFiles ==
    ASSUME NEW f \in Files
    PROVE  /\ \A n \in PartNumbers : <<f, n>> # NoPart
           /\ Whole(f) \in FileType /\ NoFile \in FileType
           /\ Whole(f) # NoFile
<1>1. Parts \in Nat \ {0}
  BY UploadConstants
<1>2. \A n \in PartNumbers : n # 0
  BY <1>1 DEF PartNumbers
<1>3. \A n \in PartNumbers : <<f, n>> # NoPart
  BY <1>2 DEF NoPart
<1>4. Whole(f) \in FileType /\ NoFile \in FileType
  BY DEF Whole, NoFile, FileType
<1>5. 1 \in PartNumbers
  BY <1>1 DEF PartNumbers
<1>6. Whole(f)[1] = <<f, 1>> /\ NoFile[1] = NoPart
  BY <1>5 DEF Whole, NoFile
<1> QED
  BY <1>3, <1>4, <1>5, <1>6

\* As many different numbers as there are parts are all of them.
LEMMA AllAcked ==
    ASSUME NEW s \in Seq(PartNumbers),
           \A i, j \in DOMAIN s : s[i] = s[j] => i = j
    PROVE  /\ Len(s) <= Parts
           /\ Len(s) = Parts <=> Numbers(s) = PartNumbers
<1>1. Parts \in Nat /\ Len(s) \in Nat /\ DOMAIN s = 1..Len(s)
  BY UploadConstants
<1>2. \A n \in Nat : IsFiniteSet(1..n) /\ Cardinality(1..n) = n
  <2> SUFFICES ASSUME NEW n \in Nat PROVE IsFiniteSet(1..n) /\ Cardinality(1..n) = n
    OBVIOUS
  <2>1. /\ IsFiniteSet(1..n)
        /\ Cardinality(1..n) = IF 1 > n THEN 0 ELSE n - 1 + 1
    BY FS_Interval
  <2> QED
    BY <2>1
<1>3. s \in Injection(DOMAIN s, PartNumbers)
  BY DEF Injection, IsInjective
<1>4. /\ Len(s) <= Parts
      /\ Len(s) = Parts <=> s \in Surjection(DOMAIN s, PartNumbers)
  <2>1. /\ IsFiniteSet(PartNumbers) /\ Cardinality(PartNumbers) = Parts
        /\ IsFiniteSet(DOMAIN s) /\ Cardinality(DOMAIN s) = Len(s)
    BY <1>1, <1>2 DEF PartNumbers
  <2> QED
    BY <1>3, <2>1, FS_Injection
<1>5. s \in Surjection(DOMAIN s, PartNumbers) <=> Numbers(s) = PartNumbers
  BY DEF Surjection, Numbers
<1> QED
  BY <1>4, <1>5

\* Sorted gives the numbers of all parts in ascending order.
LEMMA SortedAll ==
    ASSUME NEW s \in Seq(PartNumbers), Len(s) = Parts, Numbers(s) = PartNumbers
    PROVE  /\ DOMAIN Sorted(s) = PartNumbers
           /\ Ascending(Sorted(s))
           /\ Numbers(Sorted(s)) = PartNumbers
<1> DEFINE id == [n \in PartNumbers |-> n]
           p == Sorted(s)
<1>1. Parts \in Nat /\ DOMAIN s = PartNumbers
  BY UploadConstants DEF PartNumbers
<1>2. id \in [DOMAIN s -> Numbers(s)] /\ Ascending(id)
  BY <1>1 DEF Ascending, PartNumbers
<1>3. p \in [PartNumbers -> PartNumbers] /\ Ascending(p)
  BY <1>1, <1>2 DEF Sorted
<1> HIDE DEF p
<1>4. \A i, j \in PartNumbers : p[i] = p[j] => i = j
  BY <1>1, <1>3 DEF Ascending, PartNumbers
<1>5. p \in Seq(PartNumbers) /\ Len(p) = Parts
  BY <1>1, <1>3 DEF PartNumbers
<1>6. Numbers(p) = PartNumbers
  BY <1>3, <1>4, <1>5, AllAcked
<1> QED
  BY <1>3, <1>6 DEF p

-----------------------------------------------------------------------------
(* One handler moves.                                                      *)

LEMMA StartMoves ==
    ASSUME HandlersTyped, NEW t \in Tabs, NEW m \in HandlerType, StartSound(t, m),
           hs' = [hs EXCEPT ![Start(t)] = m]
    PROVE  /\ HandlersTyped'
           /\ hs'[Start(t)] = m
           /\ \A s \in Tabs : s # t => hs'[Start(s)] = hs[Start(s)]
           /\ \A g \in Joiners : hs'[Complete(g)] = hs[Complete(g)]
           /\ hs'[Delete] = hs[Delete]
BY HandlersApart DEF HandlersTyped

LEMMA CompleteMoves ==
    ASSUME HandlersTyped, NEW g \in Joiners, NEW m \in HandlerType, CompleteSound(m),
           hs' = [hs EXCEPT ![Complete(g)] = m]
    PROVE  /\ HandlersTyped'
           /\ hs'[Complete(g)] = m
           /\ \A f \in Joiners : f # g => hs'[Complete(f)] = hs[Complete(f)]
           /\ \A t \in Tabs : hs'[Start(t)] = hs[Start(t)]
           /\ hs'[Delete] = hs[Delete]
BY HandlersApart DEF HandlersTyped

LEMMA DeleteMoves ==
    ASSUME HandlersTyped, NEW m \in HandlerType,
           m.pc \in {"idle", "source", "row", "over"},
           hs' = [hs EXCEPT ![Delete] = m]
    PROVE  /\ HandlersTyped'
           /\ hs'[Delete] = m
           /\ \A t \in Tabs : hs'[Start(t)] = hs[Start(t)]
           /\ \A g \in Joiners : hs'[Complete(g)] = hs[Complete(g)]
BY HandlersApart DEF HandlersTyped

LEMMA TypedIsTypeOK == Typed => TypeOK
BY DEF Typed, DataTyped, HandlersTyped, TypeOK, TabType, HandlerType

\* The handler's new record, where a step changes a field or two of the old.
LEMMA Moved ==
    ASSUME hs \in [Handlers -> HandlerType], NEW h \in Handlers
    PROVE  /\ \A pc : Goto(h, pc) => hs' = [hs EXCEPT ![h] = [hs[h] EXCEPT !.pc = pc]]
           /\ Return(h) => hs' = [hs EXCEPT ![h] = At("over", NoTab, Draft)]
           /\ hs[h] \in HandlerType
BY DEF Goto, Return

LEMMA AtType ==
    ASSUME NEW pc \in Pcs, NEW t \in Tabs \union {NoTab}, NEW r \in RowType
    PROVE  /\ At(pc, t, r) \in HandlerType
           /\ At(pc, t, r).pc = pc /\ At(pc, t, r).tab = t
           /\ At(pc, t, r).read = r /\ At(pc, t, r).copy = r
BY DEF At, HandlerType

\* A step that takes no complete request past a task, nor away from one.
LEMMA Stays ==
    ASSUME TasksQueued, queued' = queued, mishaps \subseteq mishaps', row' = row,
           \A g \in Joiners :
              \/ hs'[Complete(g)] = hs[Complete(g)]
              \/ /\ \A k \in TaskTypes : hs[Complete(g)].pc \notin Ahead(k)
                 /\ \A k \in TaskTypes : hs'[Complete(g)].pc \in Past(k)
                                             => hs[Complete(g)].pc \in Past(k)
    PROVE  TasksQueued'
<1> SUFFICES ASSUME NEW k \in TaskTypes, k \notin mishaps'
             PROVE  /\ row.status = "processing" =>
                          queued[k] # NoTab \/ \E g \in Joiners : hs'[Complete(g)].pc \in Ahead(k)
                    /\ \A g \in Joiners : hs'[Complete(g)].pc \in Past(k) => queued[k] # NoTab
  BY DEF TasksQueued
<1>1. k \notin mishaps
  OBVIOUS
<1>2. \A g \in Joiners : hs'[Complete(g)].pc \in Past(k) => queued[k] # NoTab
  BY <1>1 DEF TasksQueued
<1>3. ASSUME row.status = "processing", queued[k] = NoTab
      PROVE  \E g \in Joiners : hs'[Complete(g)].pc \in Ahead(k)
  <2>1. PICK g \in Joiners : hs[Complete(g)].pc \in Ahead(k)
    BY <1>1, <1>3 DEF TasksQueued
  <2> QED
    BY <2>1
<1> QED
  BY <1>2, <1>3

-----------------------------------------------------------------------------
(* One lemma per kind of step.                                             *)

LEMMA InitInv == Init => IInv
<1> SUFFICES ASSUME Init PROVE IInv
  OBVIOUS
<1> DEFINE idle == At("idle", NoTab, Draft)
<1>1. /\ idle \in HandlerType /\ idle.pc = "idle"
      /\ idle.read = Draft /\ idle.copy = Draft
  <2>1. "idle" \in Pcs /\ NoTab \in Tabs \union {NoTab}
    BY DEF Pcs
  <2> QED
    BY <2>1, AtType, DraftType
<1>2. \A h \in Handlers : hs[h] = idle
  BY DEF Init
<1>3. /\ \A t \in Tabs : hs[Start(t)] = idle
      /\ \A g \in Joiners : hs[Complete(g)] = idle
      /\ hs[Delete] = idle
  BY <1>2, HandlersApart
<1>4. tab \in [Tabs -> TabType] /\ \A t \in Tabs : tab[t].acked = <<>>
  <2>1. <<>> \in Seq(PartNumbers)
    OBVIOUS
  <2>2. [file : Files, knows : {FALSE}, acked : {<<>>}] \subseteq TabType
    BY <2>1 DEF TabType
  <2> QED
    BY <2>2 DEF Init
<1>5. NoFile \in FileType
  BY DEF NoFile, FileType
<1>6. hs \in [Handlers -> HandlerType]
  BY <1>1 DEF Init
<1> HIDE DEF idle
<1>7. DataTyped
  BY <1>4, <1>5, DraftType DEF Init, DataTyped
<1>8. HandlersTyped
  BY <1>1, <1>3, <1>6 DEF HandlersTyped, StartSound, CompleteSound
<1>9. PartsKept
  BY <1>1, <1>3, <1>4 DEF Init, PartsKept, TabParts, NoFile
<1>10. Uploads /\ OneUpload /\ FilesJoined /\ TasksQueued
  BY <1>1, <1>3, DraftType, UploadConstants
     DEF Init, Uploads, OneUpload, FilesJoined, Intact, TasksQueued, Joining, Reading,
         Past, TaskTypes
<1> QED
  BY <1>7, <1>8, <1>9, <1>10 DEF IInv, Typed

LEMMA StartBeginInv == ASSUME IInv, NEW t \in Tabs, StartBegin(t) PROVE IInv'
<1> DEFINE m == At("store", t, row)
<1>1. /\ hs[Start(t)].pc = "idle" /\ row = Draft
      /\ hs' = [hs EXCEPT ![Start(t)] = m]
      /\ UNCHANGED <<row, live, open, stored, object, tab, puts, queued, clobbered, mishaps>>
  BY DEF StartBegin, Begin, IInv, Typed, DataTyped, storageVars, historyVars
<1>2. m \in HandlerType /\ m.pc = "store" /\ StartSound(t, m)
  BY <1>1, AtType, DraftType DEF Pcs, StartSound
<1> HIDE DEF m
<1>3. /\ HandlersTyped'
      /\ hs'[Start(t)] = m
      /\ \A s \in Tabs : s # t => hs'[Start(s)] = hs[Start(s)]
      /\ \A g \in Joiners : hs'[Complete(g)] = hs[Complete(g)]
      /\ hs'[Delete] = hs[Delete]
  BY <1>1, <1>2, StartMoves DEF IInv, Typed
<1>4. DataTyped' /\ PartsKept'
  BY <1>1, <1>3 DEF IInv, Typed, DataTyped, PartsKept, TabParts
<1>5. Uploads'
  BY <1>1, <1>2, <1>3 DEF IInv, Uploads
<1>6. OneUpload' /\ FilesJoined' /\ TasksQueued'
  BY <1>1, <1>2, <1>3 DEF IInv, OneUpload, FilesJoined, Intact, TasksQueued
<1> QED
  BY <1>3, <1>4, <1>5, <1>6 DEF IInv, Typed

\* The upload begun is open, and nothing has named it before.
LEMMA InitMultipartInv == ASSUME IInv, NEW t \in Tabs, InitMultipart(t) PROVE IInv'
<1> DEFINE copy == [status |-> "uploading", upload |-> t]
           m == [hs[Start(t)] EXCEPT !.pc = "check", !.copy = copy]
<1>1. /\ hs \in [Handlers -> HandlerType] /\ hs[Start(t)] \in HandlerType
      /\ StartSound(t, hs[Start(t)])
  BY HandlersApart DEF IInv, Typed, HandlersTyped
<1>2. /\ hs[Start(t)].pc = "store" /\ open' = open \union {t}
      /\ UNCHANGED <<row, live, stored, object, tab, puts, queued, clobbered, mishaps>>
  BY DEF InitMultipart, historyVars
<1>3. hs' = [hs EXCEPT ![Start(t)] = m]
  BY <1>1, ZenonT(60) DEF InitMultipart
<1>4. m \in HandlerType /\ m.pc = "check" /\ StartSound(t, m)
  <2>1. copy \in RowType /\ "check" \in Pcs
    BY DEF RowType, Pcs
  <2> QED
    BY <1>1, <2>1 DEF HandlerType, StartSound
<1> HIDE DEF m
<1>5. /\ HandlersTyped'
      /\ hs'[Start(t)] = m
      /\ \A s \in Tabs : s # t => hs'[Start(s)] = hs[Start(s)]
      /\ \A g \in Joiners : hs'[Complete(g)] = hs[Complete(g)]
      /\ hs'[Delete] = hs[Delete]
  BY <1>3, <1>4, StartMoves DEF IInv, Typed
<1>6. DataTyped' /\ PartsKept'
  BY <1>2, <1>5 DEF IInv, Typed, DataTyped, PartsKept, TabParts
<1>7. Uploads'
  <2>1. /\ row.upload # t
        /\ \A g \in Joiners : hs[Complete(g)].copy.upload # t
    BY <1>2 DEF IInv, Uploads
  <2>2. \A g \in Joiners : hs[Complete(g)].pc \in Joining
           => hs[Complete(g)].copy.upload \notin open'
    BY <1>2, <2>1 DEF IInv, Uploads
  <2> QED
    BY <1>2, <1>4, <1>5, <2>1, <2>2 DEF IInv, Uploads
<1>8. OneUpload' /\ FilesJoined' /\ TasksQueued'
  BY <1>2, <1>4, <1>5 DEF IInv, OneUpload, FilesJoined, Intact, TasksQueued
<1> QED
  BY <1>5, <1>6, <1>7, <1>8 DEF IInv, Typed

\* A part stored is the tab's own; acknowledged once, in the order stored.
LEMMA PartInv ==
    ASSUME IInv, NEW t \in Tabs, NEW n \in PartNumbers,
           PartBegin(t, n) \/ PartStore(t, n)
    PROVE  IInv'
<1> DEFINE own == <<tab[t].file, n>>
<1>1. /\ UNCHANGED <<row, live, open, object, hs, queued, clobbered, mishaps>>
      /\ puts' \subseteq Tabs \X PartNumbers
  BY DEF PartBegin, PartStore, IInv, Typed, DataTyped, storageVars, historyVars
<1>2. /\ tab \in [Tabs -> TabType] /\ tab[t] \in TabType
      /\ stored \in [Tabs -> FileType] /\ TabParts(t)
  BY DEF IInv, Typed, DataTyped, PartsKept
<1>3. \/ UNCHANGED stored
      \/ stored' = [stored EXCEPT ![t][n] = own]
  BY DEF PartBegin, PartStore, storageVars, historyVars
<1>4. \/ UNCHANGED tab
      \/ /\ n \notin Numbers(tab[t].acked)
         /\ tab' = [tab EXCEPT ![t].acked = Append(@, n)]
         /\ stored' = [stored EXCEPT ![t][n] = own]
  BY DEF PartBegin, PartStore
<1>5. /\ stored' \in [Tabs -> FileType]
      /\ \A s \in Tabs : s # t => stored'[s] = stored[s]
      /\ \A k \in PartNumbers : \/ stored'[t][k] = stored[t][k]
                                \/ k = n /\ stored'[t][k] = own
  <2>1. own \in Files \X PartNumbers
    BY <1>2 DEF TabType
  <2>2. stored[t] \in FileType
    BY <1>2
  <2>3. [stored[t] EXCEPT ![n] = own] \in FileType
    BY <2>1, <2>2 DEF FileType
  <2>4. stored' \in {stored, [stored EXCEPT ![t] = [stored[t] EXCEPT ![n] = own]]}
    BY <1>2, <1>3
  <2> HIDE DEF own
  <2>5. \A k \in PartNumbers :
           [stored[t] EXCEPT ![n] = own][k] = IF k = n THEN own ELSE stored[t][k]
    BY <2>2 DEF FileType
  <2>6. CASE stored' = stored
    BY <1>2, <2>6
  <2>7. CASE stored' = [stored EXCEPT ![t] = [stored[t] EXCEPT ![n] = own]]
    <3>1. stored' \in [Tabs -> FileType] /\ stored'[t] = [stored[t] EXCEPT ![n] = own]
      BY <1>2, <2>3, <2>7
    <3>2. \A s \in Tabs : s # t => stored'[s] = stored[s]
      BY <1>2, <2>7
    <3> QED
      BY <2>5, <3>1, <3>2
  <2> QED
    BY <2>4, <2>6, <2>7
<1> DEFINE acked == tab[t].acked
<1>6. acked \in Seq(PartNumbers) /\ Len(acked) \in Nat /\ DOMAIN acked = 1..Len(acked)
  BY <1>2 DEF TabType
<1>7. /\ tab' \in [Tabs -> TabType]
      /\ \A s \in Tabs : tab'[s].file = tab[s].file
      /\ \A s \in Tabs : s # t => tab'[s] = tab[s]
      /\ tab'[t].acked \in {acked, Append(acked, n)}
      /\ tab'[t].acked # acked => n \notin Numbers(acked) /\ stored'[t][n] = own
  <2>1. Append(acked, n) \in Seq(PartNumbers)
    BY <1>6
  <2>2. CASE UNCHANGED tab
    BY <1>2, <2>2
  <2>3. CASE ~UNCHANGED tab
    <3>1. /\ n \notin Numbers(acked) /\ stored'[t][n] = own
          /\ tab' = [tab EXCEPT ![t] = [@ EXCEPT !.acked = Append(acked, n)]]
      BY <1>2, <1>4, <2>3 DEF FileType
    <3>2. [tab[t] EXCEPT !.acked = Append(acked, n)] \in TabType
      BY <1>2, <2>1 DEF TabType
    <3> HIDE DEF acked
    <3> QED
      BY <1>2, <3>1, <3>2 DEF TabType
  <2> QED
    BY <2>2, <2>3
<1>8. DataTyped' /\ HandlersTyped'
  BY <1>1, <1>5, <1>7 DEF IInv, Typed, DataTyped, HandlersTyped
<1>9. TabParts(t)'
  <2>1. tab'[t].file = tab[t].file /\ object'[t] = object[t]
    BY <1>1, <1>7
  <2>2. \A k \in PartNumbers : stored'[t][k] \in {NoPart, <<tab[t].file, k>>}
    BY <1>2, <1>5 DEF TabParts
  <2>3. \A i \in DOMAIN acked :
           acked[i] \in PartNumbers /\ stored'[t][acked[i]] = <<tab[t].file, acked[i]>>
    <3> SUFFICES ASSUME NEW i \in DOMAIN acked
                 PROVE  /\ acked[i] \in PartNumbers
                        /\ stored'[t][acked[i]] = <<tab[t].file, acked[i]>>
      OBVIOUS
    <3>1. acked[i] \in PartNumbers
      BY <1>6
    <3>2. stored[t][acked[i]] = <<tab[t].file, acked[i]>>
      BY <1>2 DEF TabParts
    <3> QED
      BY <1>5, <3>1, <3>2
  <2>4. \A i, j \in DOMAIN acked : acked[i] = acked[j] => i = j
    BY <1>2 DEF TabParts
  <2>5. CASE tab'[t].acked = acked
    BY <1>2, <2>1, <2>2, <2>3, <2>5 DEF TabParts
  <2>6. CASE tab'[t].acked # acked
    <3> DEFINE more == Append(acked, n)
    <3>1. more = tab'[t].acked /\ n \notin Numbers(acked) /\ stored'[t][n] = own
      BY <1>7, <2>6
    <3>2. /\ DOMAIN more = 1..(Len(acked) + 1)
          /\ \A i \in DOMAIN acked : more[i] = acked[i]
          /\ more[Len(acked) + 1] = n
      BY <1>6
    <3>3. \A i \in DOMAIN acked : acked[i] # n
      BY <3>1 DEF Numbers
    <3> HIDE DEF more, acked
    <3>4. \A i, j \in DOMAIN more : more[i] = more[j] => i = j
      BY <1>6, <2>4, <3>2, <3>3
    <3>5. \A i \in DOMAIN more : stored'[t][more[i]] = <<tab[t].file, more[i]>>
      BY <1>6, <2>3, <3>1, <3>2
    <3> QED
      BY <1>2, <2>1, <2>2, <3>1, <3>4, <3>5 DEF TabParts
  <2> QED
    BY <2>5, <2>6
<1>10. PartsKept'
  <2>1. \A s \in Tabs : TabParts(s)'
    <3>1. ASSUME NEW s \in Tabs, s # t PROVE TabParts(s)'
      <4>1. stored'[s] = stored[s] /\ tab'[s] = tab[s] /\ object' = object /\ TabParts(s)
        BY <1>1, <1>5, <1>7, <3>1 DEF IInv, PartsKept
      <4> QED
        BY <4>1 DEF TabParts
    <3> QED
      BY <1>9, <3>1
  <2>2. ASSUME NEW g \in Joiners, hs[Complete(g)].pc = "store",
               tab'[hs[Complete(g)].tab] # tab[hs[Complete(g)].tab]
        PROVE  FALSE
    <3>1. CompleteSound(hs[Complete(g)]) /\ Len(tab[hs[Complete(g)].tab].acked) = Parts
      BY <2>2 DEF IInv, Typed, HandlersTyped, PartsKept
    <3>2. hs[Complete(g)].tab = t
      BY <1>7, <2>2, <3>1 DEF CompleteSound, Reading
    <3>3. Numbers(acked) = PartNumbers
      BY <1>2, <1>6, <3>1, <3>2, AllAcked DEF TabParts
    <3>4. tab'[t].acked = acked
      BY <1>7, <3>3
    <3> QED
      BY <1>4, <2>2, <3>2, <3>3
  <2> QED
    BY <1>1, <2>1, <2>2 DEF IInv, PartsKept
<1>11. Uploads' /\ OneUpload' /\ TasksQueued'
  BY <1>1 DEF IInv, Uploads, OneUpload, TasksQueued
<1>12. FilesJoined'
  <2>1. row.status = "processing" => row.upload \in Tabs
    BY DEF IInv, Typed, DataTyped, RowType
  <2>2. \A g \in Joiners : hs[Complete(g)].pc \in Joining
                            => hs[Complete(g)].copy.upload \in Tabs
    BY DEF IInv, Typed, HandlersTyped, CompleteSound, Joining, Reading, TaskTypes
  <2>3. \A s \in Tabs : tab'[s].file = tab[s].file
    BY <1>7
  <2> QED
    BY <1>1, <2>1, <2>2, <2>3 DEF IInv, FilesJoined, Intact
<1> QED
  BY <1>8, <1>10, <1>11, <1>12 DEF IInv, Typed

\* A complete request that is let in has read an upload, and has all its parts.
LEMMA CompleteBeginInv ==
    ASSUME IInv, NEW t \in Tabs, NEW g \in Joiners, CompleteBegin(t, g)
    PROVE  IInv'
<1> DEFINE m == At("store", t, row)
<1>1. /\ hs[Complete(g)].pc = "idle" /\ row.status = "uploading"
      /\ Len(tab[t].acked) = Parts
      /\ hs' = [hs EXCEPT ![Complete(g)] = m]
      /\ UNCHANGED <<row, live, open, stored, object, tab, puts, queued, clobbered, mishaps>>
  BY DEF CompleteBegin, Begin, storageVars, historyVars
<1>2. row \in RowType /\ row.upload \in Tabs
  BY <1>1 DEF IInv, Typed, DataTyped, RowType
<1>3. /\ m \in HandlerType /\ m.pc = "store" /\ m.tab = t /\ m.copy = row
      /\ CompleteSound(m)
  BY <1>1, <1>2, AtType DEF Pcs, CompleteSound, Reading
<1> HIDE DEF m
<1>4. /\ HandlersTyped'
      /\ hs'[Complete(g)] = m
      /\ \A f \in Joiners : f # g => hs'[Complete(f)] = hs[Complete(f)]
      /\ \A s \in Tabs : hs'[Start(s)] = hs[Start(s)]
      /\ hs'[Delete] = hs[Delete]
  BY <1>1, <1>3, CompleteMoves DEF IInv, Typed
<1>5. /\ "store" \notin Joining
      /\ \A k \in TaskTypes : "store" \notin Past(k) /\ "idle" \notin Ahead(k)
  BY DEF Joining, Past, Ahead, TaskTypes
<1>6. DataTyped' /\ PartsKept'
  BY <1>1, <1>3, <1>4 DEF IInv, Typed, DataTyped, PartsKept, TabParts
<1>7. Uploads' /\ OneUpload'
  BY <1>1, <1>3, <1>4, <1>5 DEF IInv, Uploads, OneUpload
<1>8. FilesJoined'
  BY <1>1, <1>3, <1>4, <1>5 DEF IInv, FilesJoined, Intact
<1>9. TasksQueued'
  BY <1>1, <1>3, <1>4, <1>5, Stays DEF IInv
<1> QED
  BY <1>4, <1>6, <1>7, <1>8, <1>9 DEF IInv, Typed

\* What the request of a tab that has all its parts joins is a whole file.
LEMMA JoinedWhole ==
    ASSUME IInv, NEW t \in Tabs, NEW u \in Tabs, Len(tab[t].acked) = Parts
    PROVE  LET list == Sorted(tab[t].acked)
           IN  /\ Accepts(u, t, list) => Joined(u, list) = Whole(tab[u].file)
               /\ t \in open => Accepts(t, t, list)
<1> DEFINE acked == tab[t].acked
           list == Sorted(acked)
<1>1. acked \in Seq(PartNumbers) /\ tab[u].file \in Files /\ TabParts(t) /\ TabParts(u)
  BY DEF IInv, Typed, DataTyped, TabType, PartsKept
<1>2. Numbers(acked) = PartNumbers
  BY <1>1, AllAcked DEF TabParts
<1>3. /\ DOMAIN list = PartNumbers /\ Ascending(list)
      /\ Numbers(list) = PartNumbers
  BY <1>1, <1>2, SortedAll
<1>4. \A n \in PartNumbers : stored[t][n] = <<tab[t].file, n>>
  <2> SUFFICES ASSUME NEW n \in PartNumbers PROVE stored[t][n] = <<tab[t].file, n>>
    OBVIOUS
  <2>1. PICK i \in DOMAIN acked : acked[i] = n
    BY <1>2 DEF Numbers
  <2> QED
    BY <1>1, <2>1 DEF TabParts
<1> HIDE DEF list
<1>5. ASSUME t \in open PROVE Accepts(t, t, list)
  BY <1>3, <1>4, <1>5 DEF Accepts, Numbers
<1>6. ASSUME Accepts(u, t, list) PROVE Joined(u, list) = Whole(tab[u].file)
  <2>1. ASSUME NEW n \in PartNumbers PROVE stored[u][n] = <<tab[u].file, n>>
    <3>1. stored[u][n] = <<tab[t].file, n>>
      BY <1>3, <1>6 DEF Accepts, Numbers
    <3>2. stored[u][n] \in {NoPart, <<tab[u].file, n>>} /\ <<tab[t].file, n>> # NoPart
      <4>1. tab[t].file \in Files
        BY DEF IInv, Typed, DataTyped, TabType
      <4> QED
        BY <1>1, <4>1, WholeFiles DEF TabParts
    <3> QED
      BY <3>1, <3>2
  <2> QED
    BY <1>3, <2>1 DEF Joined, Whole
<1> QED
  BY <1>5, <1>6 DEF list

\* The join closes the row's upload and makes its file; a refusal ends the
\* request and nothing else.
LEMMA CompleteStoreInv ==
    ASSUME IInv, NEW g \in Joiners, CompleteStore(g)
    PROVE  IInv'
<1> DEFINE h == hs[Complete(g)]
           u == h.copy.upload
           list == Sorted(tab[h.tab].acked)
<1>1. /\ h.pc = "store" /\ UNCHANGED <<row, live, stored, tab, puts, queued, clobbered>>
      /\ mishaps \subseteq mishaps' /\ mishaps' \subseteq Mishaps
  BY DEF CompleteStore, Note, Mishaps, IInv, Typed, DataTyped
<1>2. /\ hs \in [Handlers -> HandlerType] /\ h \in HandlerType
      /\ h.tab \in Tabs /\ u \in Tabs /\ h.copy.status = "uploading"
      /\ h.read.upload = u
  BY <1>1, HandlersApart DEF IInv, Typed, HandlersTyped, CompleteSound, Reading
<1>3. /\ object \in [Tabs -> FileType] /\ tab[u].file \in Files
      /\ Len(tab[h.tab].acked) = Parts
  BY <1>1, <1>2 DEF IInv, Typed, DataTyped, TabType, PartsKept
<1>4. /\ "store" \in Reading /\ "store" \notin Joining
      /\ "check" \in Joining /\ "check" \in Reading /\ "check" \in Pcs
      /\ "over" \notin Joining /\ "over" \notin Reading /\ "over" \in Pcs
      /\ \A k : /\ "over" \notin Past(k) /\ "store" \notin Ahead(k)
                /\ "check" \notin Past(k)
  BY DEF Reading, Joining, Pcs, Past, Ahead, TaskTypes
<1>5. CASE Accepts(u, h.tab, list)
  <2> DEFINE said == [h EXCEPT !.pc = "check",
                               !.copy = [@ EXCEPT !.status = "processing"]]
             unsaid == At("over", NoTab, Draft)
  <2>1. /\ open' = open \ {u}
        /\ object' = [object EXCEPT ![u] = Joined(u, list)]
        /\ \/ hs' = [hs EXCEPT ![Complete(g)].pc = "check",
                               ![Complete(g)].copy.status = "processing"]
           \/ hs' = [hs EXCEPT ![Complete(g)] = unsaid]
    BY <1>5 DEF CompleteStore, Return
  <2>2. \E r \in {said, unsaid} : hs' = [hs EXCEPT ![Complete(g)] = r]
    <3>1. CASE hs' = [hs EXCEPT ![Complete(g)].pc = "check",
                                ![Complete(g)].copy.status = "processing"]
      <4>1. hs' = [hs EXCEPT ![Complete(g)] = said]
        BY <1>2, <3>1, ZenonT(60)
      <4> QED
        BY <4>1
    <3>2. CASE hs' = [hs EXCEPT ![Complete(g)] = unsaid]
      BY <3>2
    <3> QED
      BY <2>1, <3>1, <3>2
  <2>3. object' = [object EXCEPT ![u] = Whole(tab[u].file)]
    BY <1>2, <1>3, <1>5, <2>1, JoinedWhole
  <2>0. PICK m \in {said, unsaid} : hs' = [hs EXCEPT ![Complete(g)] = m]
    BY <2>2
  <2>13. /\ said \in HandlerType /\ said.pc = "check" /\ said.copy.upload = u
         /\ CompleteSound(said)
    BY <1>1, <1>2, <1>4 DEF HandlerType, RowType, CompleteSound, Reading
  <2>14. /\ unsaid \in HandlerType /\ unsaid.pc = "over" /\ unsaid.copy = Draft
         /\ CompleteSound(unsaid)
    BY <1>4, AtType, DraftType DEF CompleteSound
  <2> HIDE DEF said, unsaid
  <2>4. /\ m \in HandlerType /\ CompleteSound(m)
        /\ \/ m.pc = "check" /\ m.copy.upload = u
           \/ m.pc = "over" /\ m.copy = Draft
    BY <2>0, <2>13, <2>14
  <2> HIDE DEF list
  <2>5. /\ HandlersTyped'
        /\ hs'[Complete(g)] = m
        /\ \A f \in Joiners : f # g => hs'[Complete(f)] = hs[Complete(f)]
        /\ \A s \in Tabs : hs'[Start(s)] = hs[Start(s)]
        /\ hs'[Delete] = hs[Delete]
    BY <2>0, <2>4, CompleteMoves DEF IInv, Typed
  <2>6. /\ object' \in [Tabs -> FileType] /\ object'[u] = Whole(tab[u].file)
        /\ \A s \in Tabs : s # u => object'[s] = object[s]
    BY <1>2, <1>3, <2>3, WholeFiles
  <2>7. DataTyped'
    BY <1>1, <2>1, <2>6 DEF IInv, Typed, DataTyped
  <2>8. PartsKept'
    <3>1. ASSUME NEW s \in Tabs PROVE TabParts(s)'
      <4>1. TabParts(s)
        BY DEF IInv, PartsKept
      <4> QED
        BY <1>1, <2>6, <4>1 DEF TabParts
    <3> QED
      BY <1>1, <2>4, <2>5, <3>1 DEF IInv, PartsKept
  <2>9. Uploads'
    <3>1. hs[Start(u)].pc = "over"
      BY <1>2 DEF IInv, Uploads
    <3>2. ASSUME NEW t \in Tabs
          PROVE  /\ hs'[Start(t)].pc \in {"check", "write"} => t \in open'
                 /\ t \in open' => hs'[Start(t)].pc \in {"check", "write", "over"}
                 /\ row.upload = t => hs'[Start(t)].pc = "over"
                 /\ \A f \in Joiners :
                       hs'[Complete(f)].copy.upload = t => hs'[Start(t)].pc = "over"
      <4>1. /\ hs[Start(t)].pc \in {"check", "write"} => t \in open
            /\ t \in open => hs[Start(t)].pc \in {"check", "write", "over"}
            /\ row.upload = t => hs[Start(t)].pc = "over"
            /\ \A f \in Joiners :
                  hs[Complete(f)].copy.upload = t => hs[Start(t)].pc = "over"
        BY DEF IInv, Uploads
      <4> HIDE DEF u
      <4>2. \A f \in Joiners :
               \/ hs'[Complete(f)].copy.upload = hs[Complete(f)].copy.upload
               \/ hs'[Complete(f)].copy.upload = NoTab
        BY <2>4, <2>5, DraftType DEF u
      <4> QED
        BY <2>1, <2>5, <3>1, <4>1, <4>2, UploadConstants
    <3>3. \A f \in Joiners : hs'[Complete(f)].pc \in Joining
                                => hs'[Complete(f)].copy.upload \notin open'
      <4>1. \A f \in Joiners : hs[Complete(f)].pc \in Joining
                                  => hs[Complete(f)].copy.upload \notin open
        BY DEF IInv, Uploads
      <4>2. open' = open \ {u} /\ (m.pc \in Joining => m.copy.upload = u)
        BY <1>4, <2>1, <2>4
      <4> HIDE DEF u
      <4> SUFFICES ASSUME NEW f \in Joiners, hs'[Complete(f)].pc \in Joining
                   PROVE  hs'[Complete(f)].copy.upload \notin open'
        OBVIOUS
      <4>3. CASE f = g
        BY <2>5, <4>2, <4>3
      <4>4. CASE f # g
        BY <2>5, <4>1, <4>2, <4>4
      <4> QED
        BY <4>3, <4>4
    <3> QED
      BY <1>1, <2>1, <3>2, <3>3 DEF IInv, Uploads
  <2>10. OneUpload'
    <3>1. ~clobbered => u = row.upload
      BY <1>1, <1>4 DEF IInv, OneUpload
    <3> QED
      BY <1>1, <1>4, <2>1, <2>4, <2>5, <2>6, <3>1 DEF IInv, OneUpload
  <2>11. FilesJoined'
    <3>1. row.status = "processing" => row.upload \in Tabs
      BY DEF IInv, Typed, DataTyped, RowType
    <3>2. \A f \in Joiners : hs[Complete(f)].pc \in Joining
                              => hs[Complete(f)].copy.upload \in Tabs
      BY DEF IInv, Typed, HandlersTyped, CompleteSound, Joining, Reading, TaskTypes
    <3> QED
      BY <1>1, <1>4, <2>4, <2>5, <2>6, <3>1, <3>2 DEF IInv, FilesJoined, Intact
  <2>12. TasksQueued'
    BY <1>1, <1>4, <2>4, <2>5, Stays DEF IInv
  <2> QED
    BY <2>5, <2>7, <2>8, <2>9, <2>10, <2>11, <2>12 DEF IInv, Typed
<1>6. CASE ~Accepts(u, h.tab, list)
  <2> DEFINE m == At("over", NoTab, Draft)
  <2>1. /\ hs' = [hs EXCEPT ![Complete(g)] = m]
        /\ UNCHANGED <<open, object, mishaps>>
    BY <1>6 DEF CompleteStore, Return
  <2>2. m \in HandlerType /\ m.pc = "over" /\ m.copy = Draft /\ CompleteSound(m)
    BY <1>4, AtType, DraftType DEF CompleteSound
  <2> HIDE DEF m
  <2>3. /\ HandlersTyped'
        /\ hs'[Complete(g)] = m
        /\ \A f \in Joiners : f # g => hs'[Complete(f)] = hs[Complete(f)]
        /\ \A s \in Tabs : hs'[Start(s)] = hs[Start(s)]
        /\ hs'[Delete] = hs[Delete]
    BY <2>1, <2>2, CompleteMoves DEF IInv, Typed
  <2>4. DataTyped' /\ PartsKept'
    BY <1>1, <2>1, <2>2, <2>3 DEF IInv, Typed, DataTyped, PartsKept, TabParts
  <2>5. Uploads'
    BY <1>1, <1>4, <2>1, <2>2, <2>3, DraftType, UploadConstants DEF IInv, Uploads
  <2>6. OneUpload'
    BY <1>1, <1>4, <2>1, <2>2, <2>3 DEF IInv, OneUpload
  <2>7. FilesJoined'
    BY <1>1, <1>4, <2>1, <2>2, <2>3 DEF IInv, FilesJoined, Intact
  <2>8. TasksQueued'
    BY <1>1, <1>4, <2>2, <2>3, Stays DEF IInv
  <2> QED
    BY <2>3, <2>4, <2>5, <2>6, <2>7, <2>8 DEF IInv, Typed
<1> QED
  BY <1>5, <1>6

\* A task reads the upload that was joined, and is queued from now on, unless
\* the queue refused it.
LEMMA QueueTaskInv ==
    ASSUME IInv, NEW g \in Joiners, NEW k \in TaskTypes, QueueTask(g, k)
    PROVE  IInv'
<1> DEFINE h == hs[Complete(g)]
           next == AfterQueue(k)
           m == [h EXCEPT !.pc = next]
<1>1. /\ h.pc = k /\ UNCHANGED <<row, live, open, stored, object, tab, puts, clobbered>>
      /\ \/ /\ queued' = [queued EXCEPT ![k] = IF @ = NoTab THEN h.copy.upload ELSE @]
            /\ mishaps' = mishaps
         \/ queued' = queued /\ mishaps' = mishaps \union {k}
  BY DEF QueueTask, storageVars, Note
<1>2. h \in HandlerType /\ CompleteSound(h) /\ h.copy.upload \in Tabs
  BY <1>1, HandlersApart DEF IInv, Typed, HandlersTyped, CompleteSound, Reading, TaskTypes
<1>3. hs' = [hs EXCEPT ![Complete(g)] = m]
  BY HandlersApart, Moved DEF QueueTask, IInv, Typed, HandlersTyped
<1>4. /\ k \in Reading /\ k \in Joining /\ next \in Reading /\ next \in Joining
      /\ next \in Pcs /\ next \notin {"store", "idle", "over"}
  BY DEF Reading, Joining, Pcs, AfterQueue, TaskTypes
<1>5. /\ \A j \in TaskTypes : j # k => (k \in Ahead(j) => next \in Ahead(j))
      /\ \A j \in TaskTypes : j # k => (next \in Past(j) => k \in Past(j))
  BY DEF AfterQueue, TaskTypes, Ahead, Past
<1> HIDE DEF next
<1>6. /\ m \in HandlerType /\ m.pc = next /\ m.copy = h.copy /\ m.tab = h.tab
      /\ CompleteSound(m)
  <2>1. h.tab \in Tabs /\ h.read.upload = h.copy.upload /\ h.copy.status = "processing"
    BY <1>1, <1>2 DEF CompleteSound, TaskTypes
  <2> QED
    BY <1>2, <1>4, <2>1 DEF HandlerType, CompleteSound
<1> HIDE DEF m
<1>7. /\ HandlersTyped'
      /\ hs'[Complete(g)] = m
      /\ \A f \in Joiners : f # g => hs'[Complete(f)] = hs[Complete(f)]
      /\ \A s \in Tabs : hs'[Start(s)] = hs[Start(s)]
      /\ hs'[Delete] = hs[Delete]
  BY <1>3, <1>6, CompleteMoves DEF IInv, Typed
<1>8. /\ mishaps \subseteq mishaps' /\ mishaps' \subseteq Mishaps
      /\ queued' \in [TaskTypes -> Tabs \union {NoTab}]
      /\ \A j \in TaskTypes : j # k => queued'[j] = queued[j]
      /\ queued'[k] \in {queued[k], h.copy.upload}
      /\ k \in mishaps' \/ queued'[k] # NoTab
  BY <1>1, <1>2, UploadConstants DEF IInv, Typed, DataTyped, Mishaps
<1>9. DataTyped' /\ PartsKept'
  <2>1. DataTyped'
    BY <1>1, <1>8 DEF IInv, Typed, DataTyped
  <2>2. PartsKept'
    BY <1>1, <1>4, <1>6, <1>7 DEF IInv, PartsKept, TabParts
  <2> QED
    BY <2>1, <2>2
<1>10. Uploads'
  <2>1. \A f \in Joiners : hs'[Complete(f)].copy = hs[Complete(f)].copy
    BY <1>6, <1>7
  <2>2. \A f \in Joiners : hs'[Complete(f)].pc \in Joining => hs[Complete(f)].pc \in Joining
    BY <1>1, <1>4, <1>6, <1>7
  <2> QED
    BY <1>1, <1>7, <2>1, <2>2 DEF IInv, Uploads
<1>11. OneUpload'
  <2>1. \A f \in Joiners : hs'[Complete(f)].pc \in Reading => hs[Complete(f)].pc \in Reading
    BY <1>1, <1>4, <1>6, <1>7
  <2>2. \A f \in Joiners : hs'[Complete(f)].copy = hs[Complete(f)].copy
    BY <1>6, <1>7
  <2>3. ~clobbered => h.copy.upload = row.upload
    BY <1>1, <1>4 DEF IInv, OneUpload
  <2>4. ~clobbered => \A j \in TaskTypes : queued'[j] \in {NoTab, row.upload}
    BY <1>8, <2>3 DEF IInv, OneUpload
  <2> HIDE DEF h
  <2> QED
    BY <1>1, <1>7, <1>8, <2>1, <2>2, <2>4 DEF IInv, OneUpload
<1>12. FilesJoined'
  BY <1>1, <1>4, <1>6, <1>7, <1>8 DEF IInv, FilesJoined, Intact
<1>13. TasksQueued'
  <2> SUFFICES ASSUME NEW j \in TaskTypes, j \notin mishaps'
               PROVE  /\ row.status = "processing" => queued'[j] # NoTab
                           \/ \E f \in Joiners : hs'[Complete(f)].pc \in Ahead(j)
                      /\ \A f \in Joiners : hs'[Complete(f)].pc \in Past(j)
                                               => queued'[j] # NoTab
    BY <1>1 DEF TasksQueued
  <2>1. CASE j = k
    BY <1>8, <2>1
  <2>2. CASE j # k
    <3>1. j \notin mishaps /\ queued'[j] = queued[j]
      BY <1>8, <2>2
    <3>2. \A f \in Joiners : /\ hs[Complete(f)].pc \in Ahead(j) => hs'[Complete(f)].pc \in Ahead(j)
                             /\ hs'[Complete(f)].pc \in Past(j) => hs[Complete(f)].pc \in Past(j)
      BY <1>1, <1>5, <1>6, <1>7, <2>2
    <3> QED
      BY <3>1, <3>2 DEF IInv, TasksQueued
  <2> QED
    BY <2>1, <2>2
<1> QED
  BY <1>7, <1>9, <1>10, <1>11, <1>12, <1>13 DEF IInv, Typed

\* The row is there: the save goes on.
LEMMA SaveCheckInv ==
    ASSUME IInv, NEW h \in Starts \union Completes, SaveCheck(h)
    PROVE  IInv'
<1>1. /\ \/ hs[h].pc = "check" /\ Goto(h, "write")
         \/ hs[h].pc = "recheck" /\ Goto(h, "rewrite")
      /\ UNCHANGED <<row, live, open, stored, object, tab, puts, queued, clobbered, mishaps>>
  BY DEF SaveCheck, storageVars, historyVars
<1>2. hs \in [Handlers -> HandlerType]
  BY DEF IInv, Typed, HandlersTyped
<1>3. CASE h \in Starts
  <2>1. PICK t \in Tabs : h = Start(t)
    BY <1>3, HandlersApart
  <2> DEFINE m == [hs[h] EXCEPT !.pc = "write"]
  <2>2. StartSound(t, hs[h]) /\ hs[h] \in HandlerType /\ h \in Handlers
    BY <2>1, HandlersApart DEF IInv, Typed, HandlersTyped
  <2>3. hs[h].pc = "check" /\ hs' = [hs EXCEPT ![h] = m]
    BY <1>1, <1>2, <2>2, Moved DEF StartSound
  <2>4. m \in HandlerType /\ m.pc = "write" /\ StartSound(t, m)
    BY <2>2, <2>3 DEF HandlerType, Pcs, StartSound
  <2> HIDE DEF m
  <2>5. /\ HandlersTyped'
        /\ hs'[Start(t)] = m
        /\ \A s \in Tabs : s # t => hs'[Start(s)] = hs[Start(s)]
        /\ \A g \in Joiners : hs'[Complete(g)] = hs[Complete(g)]
        /\ hs'[Delete] = hs[Delete]
    BY <2>1, <2>3, <2>4, StartMoves DEF IInv, Typed
  <2>6. DataTyped' /\ PartsKept'
    BY <1>1, <2>5 DEF IInv, Typed, DataTyped, PartsKept, TabParts
  <2>7. Uploads'
    BY <1>1, <2>1, <2>3, <2>4, <2>5 DEF IInv, Uploads
  <2>8. OneUpload' /\ FilesJoined' /\ TasksQueued'
    BY <1>1, <2>1, <2>3, <2>4, <2>5 DEF IInv, OneUpload, FilesJoined, Intact, TasksQueued
  <2> QED
    BY <2>5, <2>6, <2>7, <2>8 DEF IInv, Typed
<1>4. CASE h \in Completes
  <2>1. PICK g \in Joiners : h = Complete(g)
    BY <1>4, HandlersApart
  <2> DEFINE pc == IF hs[h].pc = "check" THEN "write" ELSE "rewrite"
             m == [hs[h] EXCEPT !.pc = pc]
  <2>2. CompleteSound(hs[h]) /\ hs[h] \in HandlerType /\ h \in Handlers
    BY <2>1, HandlersApart DEF IInv, Typed, HandlersTyped
  <2>3. hs[h].pc \in {"check", "recheck"} /\ hs' = [hs EXCEPT ![h] = m]
    BY <1>1, <1>2, <2>2, Moved
  <2>4. pc \in {"write", "rewrite"} /\ (pc = "rewrite" => hs[h].pc = "recheck")
    BY <2>3
  <2> HIDE DEF pc
  <2>5. /\ m \in HandlerType /\ m.pc = pc /\ m.copy = hs[h].copy
        /\ CompleteSound(m)
    BY <2>2, <2>3, <2>4 DEF HandlerType, Pcs, CompleteSound, Reading
  <2> HIDE DEF m
  <2>6. /\ HandlersTyped'
        /\ hs'[Complete(g)] = m
        /\ \A f \in Joiners : f # g => hs'[Complete(f)] = hs[Complete(f)]
        /\ \A s \in Tabs : hs'[Start(s)] = hs[Start(s)]
        /\ hs'[Delete] = hs[Delete]
    BY <2>1, <2>3, <2>5, CompleteMoves DEF IInv, Typed
  <2>7. /\ hs[h].pc \in Joining /\ hs[h].pc \in Reading
        /\ \A k \in TaskTypes : hs[h].pc \notin Ahead(k) /\ (pc \in Past(k) => hs[h].pc \in Past(k))
    BY <2>3, <2>4 DEF Joining, Reading, Ahead, Past, TaskTypes
  <2>8. DataTyped' /\ PartsKept'
    BY <1>1, <2>4, <2>5, <2>6 DEF IInv, Typed, DataTyped, PartsKept, TabParts
  <2>9. Uploads'
    BY <1>1, <2>1, <2>5, <2>6, <2>7 DEF IInv, Uploads
  <2>10. OneUpload' /\ FilesJoined'
    BY <1>1, <2>1, <2>5, <2>6, <2>7 DEF IInv, OneUpload, FilesJoined, Intact
  <2>11. TasksQueued'
    BY <1>1, <2>1, <2>5, <2>6, <2>7, Stays DEF IInv
  <2> QED
    BY <2>6, <2>8, <2>9, <2>10, <2>11 DEF IInv, Typed
<1> QED
  BY <1>3, <1>4

\* A start that saves leaves its open upload to the row.
LEMMA StartWriteInv ==
    ASSUME IInv, NEW t \in Tabs, SaveWrite(Start(t))
    PROVE  IInv'
<1> DEFINE h == hs[Start(t)]
           m == At("over", NoTab, Draft)
           copy == [status |-> "uploading", upload |-> t]
<1>1. h \in HandlerType /\ StartSound(t, h) /\ Start(t) \notin Completes
  BY HandlersApart DEF IInv, Typed, HandlersTyped
<1>2. /\ h.pc = "write" /\ h.copy = copy /\ h.read = Draft
      /\ row' = copy /\ live' = TRUE
      /\ clobbered' = (clobbered \/ ~live \/ row # Draft)
      /\ hs' = [hs EXCEPT ![Start(t)] = m]
      /\ UNCHANGED <<open, stored, object, puts, queued, mishaps>>
  BY <1>1 DEF SaveWrite, Return, storageVars, historyVars, StartSound
<1>3. /\ tab' \in [Tabs -> TabType]
      /\ \A s \in Tabs : tab'[s].file = tab[s].file /\ tab'[s].acked = tab[s].acked
  <2>1. tab \in [Tabs -> TabType]
    BY DEF IInv, Typed, DataTyped
  <2>2. tab' = tab \/ tab' = [tab EXCEPT ![t] = [@ EXCEPT !.knows = TRUE]]
    BY <2>1, HandlersApart DEF SaveWrite
  <2>3. /\ tab[t] \in TabType /\ [tab[t] EXCEPT !.knows = TRUE] \in TabType
        /\ [tab[t] EXCEPT !.knows = TRUE].file = tab[t].file
        /\ [tab[t] EXCEPT !.knows = TRUE].acked = tab[t].acked
    BY <2>1 DEF TabType
  <2> QED
    BY <2>1, <2>2, <2>3
<1>4. m \in HandlerType /\ m.pc = "over" /\ StartSound(t, m)
  BY AtType, DraftType DEF Pcs, StartSound
<1> HIDE DEF m
<1>5. /\ HandlersTyped'
      /\ hs'[Start(t)] = m
      /\ \A s \in Tabs : s # t => hs'[Start(s)] = hs[Start(s)]
      /\ \A g \in Joiners : hs'[Complete(g)] = hs[Complete(g)]
      /\ hs'[Delete] = hs[Delete]
  BY <1>2, <1>4, StartMoves DEF IInv, Typed
<1>6. copy \in RowType /\ copy.status = "uploading" /\ copy.upload = t /\ t # NoTab
  BY UploadConstants DEF RowType
<1> HIDE DEF copy
<1>7. DataTyped'
  BY <1>2, <1>3, <1>6 DEF IInv, Typed, DataTyped
<1>8. PartsKept'
  <2>1. ASSUME NEW s \in Tabs PROVE TabParts(s)'
    <3>1. TabParts(s)
      BY DEF IInv, PartsKept
    <3> QED
      BY <1>2, <1>3, <3>1 DEF TabParts
  <2>2. \A g \in Joiners : hs[Complete(g)].pc = "store" => hs[Complete(g)].tab \in Tabs
    BY DEF IInv, Typed, HandlersTyped, CompleteSound
  <2> QED
    BY <1>3, <1>5, <2>1, <2>2 DEF IInv, PartsKept
<1>9. Uploads'
  BY <1>2, <1>4, <1>5, <1>6 DEF IInv, Uploads
<1>10. OneUpload'
  <2> SUFFICES ASSUME ~clobbered' PROVE OneUpload'
    BY DEF OneUpload
  <2>1. ~clobbered /\ live /\ row.upload = NoTab
    BY <1>2, DraftType DEF IInv, Typed, DataTyped
  <2>2. \A g \in Joiners : hs[Complete(g)].pc \notin Reading
    BY <2>1, UploadConstants
       DEF IInv, Typed, HandlersTyped, OneUpload, CompleteSound, Reading, TaskTypes
  <2>3. \A k \in TaskTypes : queued[k] = NoTab
    BY <2>1 DEF IInv, OneUpload
  <2>4. \A s \in Tabs : /\ object[s] = NoFile
                        /\ s \in open => \/ hs[Start(s)].pc \in {"check", "write"}
                                         \/ "leaked" \in mishaps
    BY <2>1, UploadConstants DEF IInv, OneUpload
  <2> QED
    BY <1>2, <1>4, <1>5, <1>6, <2>2, <2>3, <2>4 DEF OneUpload
<1>11. FilesJoined'
  <2>1. \A g \in Joiners : hs[Complete(g)].pc \in Joining
                            => hs[Complete(g)].copy.upload \in Tabs
    BY DEF IInv, Typed, HandlersTyped, CompleteSound, Joining, Reading, TaskTypes
  <2>2. Intact' => Intact
    BY <1>2, <1>5 DEF Intact, IInv, Typed, DataTyped
  <2>3. row'.status = "uploading"
    BY <1>2, <1>6
  <2> QED
    BY <1>2, <1>3, <1>5, <2>1, <2>2, <2>3 DEF IInv, FilesJoined
<1>12. TasksQueued'
  BY <1>2, <1>5, <1>6 DEF IInv, TasksQueued
<1> QED
  BY <1>5, <1>7, <1>8, <1>9, <1>10, <1>11, <1>12 DEF IInv, Typed

\* A complete request that saves leaves the row its upload, in processing.
LEMMA CompleteWriteInv ==
    ASSUME IInv, NEW g \in Joiners, SaveWrite(Complete(g))
    PROVE  IInv'
<1> DEFINE h == hs[Complete(g)]
           m == IF h.pc = "write" THEN At("transcode", h.tab, h.copy)
                                  ELSE At("over", NoTab, Draft)
<1>1. /\ h \in HandlerType /\ CompleteSound(h)
      /\ Complete(g) \in Completes /\ Complete(g) \notin Starts
  BY HandlersApart DEF IInv, Typed, HandlersTyped
<1>2. /\ h.pc \in {"write", "rewrite"}
      /\ row' = h.copy /\ live' = TRUE
      /\ clobbered' = (clobbered \/ ~live \/ row # h.read)
      /\ hs' = [hs EXCEPT ![Complete(g)] = m]
      /\ UNCHANGED <<open, stored, object, tab, puts, queued, mishaps>>
  BY <1>1 DEF SaveWrite, Return, storageVars, historyVars
<1>3. /\ h.tab \in Tabs /\ h.copy \in RowType /\ h.copy.upload \in Tabs
      /\ h.copy.status = "processing" /\ h.read.upload = h.copy.upload
      /\ h.pc \in Reading /\ h.pc \in Joining
  BY <1>1, <1>2 DEF CompleteSound, HandlerType, Reading, Joining
<1>4. /\ m \in HandlerType
      /\ h.pc = "write" => m.pc = "transcode" /\ m.copy = h.copy /\ m.tab = h.tab /\ m.read = h.copy
      /\ h.pc # "write" => m.pc = "over" /\ m.copy = Draft
  <2>1. CASE h.pc = "write"
    <3>1. "transcode" \in Pcs
      BY DEF Pcs, TaskTypes
    <3> QED
      BY <1>3, <2>1, <3>1, AtType
  <2>2. CASE h.pc # "write"
    <3>1. "over" \in Pcs
      BY DEF Pcs
    <3> QED
      BY <2>2, <3>1, AtType, DraftType
  <2> QED
    BY <2>1, <2>2
<1> HIDE DEF m
<1>5. CompleteSound(m)
  BY <1>3, <1>4 DEF CompleteSound, Reading, TaskTypes
<1>6. /\ HandlersTyped'
      /\ hs'[Complete(g)] = m
      /\ \A f \in Joiners : f # g => hs'[Complete(f)] = hs[Complete(f)]
      /\ \A s \in Tabs : hs'[Start(s)] = hs[Start(s)]
      /\ hs'[Delete] = hs[Delete]
  BY <1>2, <1>4, <1>5, CompleteMoves DEF IInv, Typed
<1>7. /\ "transcode" \in Reading /\ "transcode" \in Joining
      /\ "over" \notin Reading /\ "over" \notin Joining
      /\ \A k \in TaskTypes : /\ "transcode" \in Ahead(k) /\ "transcode" \notin Past(k)
                              /\ "over" \notin Past(k) /\ "rewrite" \in Past(k)
                              /\ "write" \notin Ahead(k)
  BY DEF Reading, Joining, TaskTypes, Ahead, Past
<1>8. DataTyped'
  BY <1>2, <1>3, UploadConstants DEF IInv, Typed, DataTyped
<1>9. PartsKept'
  BY <1>2, <1>4, <1>6 DEF IInv, PartsKept, TabParts
<1>10. Uploads'
  <2>1. hs[Start(h.copy.upload)].pc = "over" /\ h.copy.upload \notin open
    BY <1>3 DEF IInv, Uploads
  <2>2. \A f \in Joiners : hs'[Complete(f)].copy.upload = hs[Complete(f)].copy.upload
                           \/ hs'[Complete(f)].copy = Draft
    BY <1>4, <1>6
  <2>3. \A f \in Joiners : hs'[Complete(f)].pc \in Joining => hs'[Complete(f)].copy.upload \notin open
    BY <1>4, <1>6, <1>7, <2>1 DEF IInv, Uploads
  <2> HIDE DEF h
  <2> QED
    BY <1>2, <1>6, <2>1, <2>2, <2>3, DraftType, UploadConstants DEF IInv, Uploads
<1>11. OneUpload'
  <2> SUFFICES ASSUME ~clobbered' PROVE OneUpload'
    BY DEF OneUpload
  <2>1. ~clobbered /\ live /\ row.upload = h.copy.upload
    BY <1>2, <1>3 DEF IInv, Typed, DataTyped
  <2>2. \A f \in Joiners : hs'[Complete(f)].pc \in Reading => hs'[Complete(f)].copy.upload = row.upload
    BY <1>3, <1>4, <1>6, <1>7, <2>1 DEF IInv, OneUpload
  <2> HIDE DEF h
  <2> QED
    BY <1>2, <1>6, <2>1, <2>2 DEF IInv, OneUpload
<1>12. FilesJoined'
  <2> SUFFICES ASSUME Intact PROVE FilesJoined'
    BY <1>2, <1>6 DEF FilesJoined, Intact
  <2>1. object[h.copy.upload] = Whole(tab[h.copy.upload].file)
    BY <1>3 DEF IInv, FilesJoined
  <2>2. \A f \in Joiners : hs'[Complete(f)].pc \in Joining =>
              object[hs'[Complete(f)].copy.upload]
                  = Whole(tab[hs'[Complete(f)].copy.upload].file)
    BY <1>4, <1>6, <1>7, <2>1 DEF IInv, FilesJoined
  <2> QED
    BY <1>2, <2>1, <2>2 DEF FilesJoined
<1>13. TasksQueued'
  <2>1. \A k \in TaskTypes \ mishaps :
           queued[k] # NoTab \/ \E f \in Joiners : hs'[Complete(f)].pc \in Ahead(k)
    <3>1. CASE h.pc = "write"
      BY <1>4, <1>6, <1>7, <3>1
    <3>2. CASE h.pc = "rewrite"
      BY <1>7, <3>2 DEF IInv, TasksQueued
    <3> QED
      BY <1>2, <3>1, <3>2
  <2>2. \A k \in TaskTypes : \A f \in Joiners :
           hs'[Complete(f)].pc \in Past(k) => hs'[Complete(f)] = hs[Complete(f)]
    BY <1>4, <1>6, <1>7
  <2> QED
    BY <1>2, <2>1, <2>2 DEF IInv, TasksQueued
<1> QED
  BY <1>6, <1>8, <1>9, <1>10, <1>11, <1>12, <1>13 DEF IInv, Typed

\* A save that fails ends its handler; a start closes its upload first.
LEMMA SaveFailsInv ==
    ASSUME IInv, NEW h \in Starts \union Completes, SaveFails(h)
    PROVE  IInv'
<1> DEFINE m == At("over", NoTab, Draft)
<1>1. /\ hs[h].pc \in {"check", "recheck", "write", "rewrite"}
      /\ hs' = [hs EXCEPT ![h] = m]
      /\ \/ h \in Starts /\ open' = open \ {h[2]}
         \/ h \in Starts /\ open' = open /\ "leaked" \in mishaps'
         \/ h \in Completes /\ open' = open
      /\ mishaps \subseteq mishaps' /\ mishaps' \subseteq Mishaps
      /\ UNCHANGED <<row, live, stored, object, tab, puts, queued, clobbered>>
  BY DEF SaveFails, SaveRefused, Return, Note, Mishaps, IInv, Typed, DataTyped
<1>2. /\ m \in HandlerType /\ m.pc = "over" /\ m.copy = Draft
      /\ CompleteSound(m) /\ \A t \in Tabs : StartSound(t, m)
  BY AtType, DraftType DEF Pcs, StartSound, CompleteSound
<1> HIDE DEF m
<1>3. CASE h \in Starts
  <2>1. PICK t \in Tabs : h = Start(t)
    BY <1>3, HandlersApart
  <2>2. open' = open \ {t} \/ (open' = open /\ "leaked" \in mishaps')
    BY <1>1, <1>3, <2>1, HandlersApart
  <2>3. /\ HandlersTyped'
        /\ hs'[Start(t)] = m
        /\ \A s \in Tabs : s # t => hs'[Start(s)] = hs[Start(s)]
        /\ \A g \in Joiners : hs'[Complete(g)] = hs[Complete(g)]
        /\ hs'[Delete] = hs[Delete]
    BY <1>1, <1>2, <2>1, StartMoves DEF IInv, Typed
  <2>4. DataTyped' /\ PartsKept'
    BY <1>1, <2>2, <2>3 DEF IInv, Typed, DataTyped, PartsKept, TabParts
  <2>5. Uploads'
    BY <1>1, <1>2, <2>1, <2>2, <2>3 DEF IInv, Uploads
  <2>6. OneUpload'
    BY <1>1, <1>2, <2>2, <2>3 DEF IInv, OneUpload
  <2>7. FilesJoined' /\ TasksQueued'
    BY <1>1, <2>3 DEF IInv, FilesJoined, Intact, TasksQueued
  <2> QED
    BY <2>3, <2>4, <2>5, <2>6, <2>7 DEF IInv, Typed
<1>4. CASE h \in Completes
  <2>1. PICK g \in Joiners : h = Complete(g)
    BY <1>4, HandlersApart
  <2>2. open' = open
    BY <1>1, <2>1, HandlersApart
  <2>3. /\ HandlersTyped'
        /\ hs'[Complete(g)] = m
        /\ \A f \in Joiners : f # g => hs'[Complete(f)] = hs[Complete(f)]
        /\ \A s \in Tabs : hs'[Start(s)] = hs[Start(s)]
        /\ hs'[Delete] = hs[Delete]
    BY <1>1, <1>2, <2>1, CompleteMoves DEF IInv, Typed
  <2>4. /\ "over" \notin Reading /\ "over" \notin Joining
        /\ \A k \in TaskTypes : "over" \notin Past(k) /\ hs[h].pc \notin Ahead(k)
    BY <1>1 DEF Reading, Joining, Past, Ahead, TaskTypes
  <2>5. DataTyped' /\ PartsKept'
    BY <1>1, <1>2, <2>2, <2>3 DEF IInv, Typed, DataTyped, PartsKept, TabParts
  <2>6. Uploads'
    BY <1>1, <1>2, <2>2, <2>3, <2>4, DraftType, UploadConstants DEF IInv, Uploads
  <2>7. OneUpload' /\ FilesJoined'
    BY <1>1, <1>2, <2>2, <2>3, <2>4 DEF IInv, OneUpload, FilesJoined, Intact
  <2>8. TasksQueued'
    BY <1>1, <1>2, <2>1, <2>3, <2>4, Stays DEF IInv
  <2> QED
    BY <2>3, <2>5, <2>6, <2>7, <2>8 DEF IInv, Typed
<1> QED
  BY <1>3, <1>4

\* DeleteStream removes an object while it is under way, and the row at last.
LEMMA DeleteInv ==
    ASSUME IInv,
           DeleteBegin \/ DeleteSource \/ DeleteSourceFails \/ DeleteRow \/ DeleteRowFails
    PROVE  IInv'
<1>1. /\ hs \in [Handlers -> HandlerType] /\ Delete \in Handlers
      /\ hs[Delete] \in HandlerType /\ row \in RowType
      /\ object \in [Tabs -> FileType]
  BY HandlersApart DEF IInv, Typed, DataTyped, HandlersTyped
<1>2. CASE DeleteBegin
  <2> DEFINE m == At("source", NoTab, row)
  <2>1. /\ hs[Delete].pc = "idle" /\ hs' = [hs EXCEPT ![Delete] = m]
        /\ UNCHANGED <<row, live, open, stored, object, tab, puts, queued, clobbered, mishaps>>
    BY <1>2 DEF DeleteBegin, Begin, storageVars, historyVars
  <2>2. m \in HandlerType /\ m.pc = "source"
    <3>1. "source" \in Pcs
      BY DEF Pcs
    <3>2. NoTab \in Tabs \union {NoTab}
      OBVIOUS
    <3> QED
      BY <1>1, <3>1, <3>2, AtType
  <2> HIDE DEF m
  <2>3. /\ HandlersTyped'
        /\ hs'[Delete] = m
        /\ \A t \in Tabs : hs'[Start(t)] = hs[Start(t)]
        /\ \A g \in Joiners : hs'[Complete(g)] = hs[Complete(g)]
    BY <2>1, <2>2, DeleteMoves DEF IInv, Typed
  <2>4. DataTyped' /\ PartsKept' /\ Uploads'
    <3>1. DataTyped' /\ PartsKept'
      BY <2>1, <2>3 DEF IInv, Typed, DataTyped, PartsKept, TabParts
    <3>2. Uploads'
      BY <2>1, <2>3 DEF IInv, Uploads
    <3> QED
      BY <3>1, <3>2
  <2>5. OneUpload' /\ FilesJoined' /\ TasksQueued'
    BY <2>1, <2>2, <2>3 DEF IInv, OneUpload, FilesJoined, Intact, TasksQueued
  <2> QED
    BY <2>3, <2>4, <2>5 DEF IInv, Typed
<1>3. CASE DeleteSource
  <2> DEFINE m == [hs[Delete] EXCEPT !.pc = "row"]
  <2>1. /\ hs' = [hs EXCEPT ![Delete] = m]
        /\ UNCHANGED <<row, live, open, stored, tab, puts, queued, clobbered, mishaps>>
    BY <1>1, <1>3, Moved DEF DeleteSource, historyVars
  <2>2. m \in HandlerType /\ m.pc = "row"
    BY <1>1 DEF HandlerType, Pcs
  <2> HIDE DEF m
  <2>3. /\ HandlersTyped'
        /\ hs'[Delete] = m
        /\ \A t \in Tabs : hs'[Start(t)] = hs[Start(t)]
        /\ \A g \in Joiners : hs'[Complete(g)] = hs[Complete(g)]
    BY <2>1, <2>2, DeleteMoves DEF IInv, Typed
  <2>4. /\ object' \in [Tabs -> FileType]
        /\ \A t \in Tabs : object'[t] \in {NoFile, object[t]}
    <3>1. NoFile \in FileType
      BY DEF NoFile, FileType
    <3> QED
      BY <1>1, <1>3, <3>1 DEF DeleteSource
  <2>5. DataTyped' /\ Uploads' /\ TasksQueued'
    BY <2>1, <2>3, <2>4 DEF IInv, Typed, DataTyped, Uploads, TasksQueued
  <2>6. PartsKept'
    <3>1. ASSUME NEW s \in Tabs PROVE TabParts(s)'
      <4>1. TabParts(s)
        BY DEF IInv, PartsKept
      <4> QED
        BY <2>1, <2>4, <4>1 DEF TabParts
    <3> QED
      BY <2>1, <2>3, <3>1 DEF IInv, PartsKept
  <2>7. OneUpload' /\ FilesJoined'
    BY <2>1, <2>2, <2>3, <2>4 DEF IInv, OneUpload, FilesJoined, Intact
  <2> QED
    BY <2>3, <2>5, <2>6, <2>7 DEF IInv, Typed
<1>4. CASE DeleteSourceFails \/ DeleteRow \/ DeleteRowFails
  <2> DEFINE m == At("over", NoTab, Draft)
  <2>1. /\ hs' = [hs EXCEPT ![Delete] = m]
        /\ UNCHANGED <<row, open, stored, object, tab, puts, queued, clobbered>>
        /\ live' \in {live, FALSE} /\ live' \in BOOLEAN
        /\ mishaps \subseteq mishaps' /\ mishaps' \subseteq Mishaps
        /\ hs[Delete].pc = "row" => ~live' \/ "gutted" \in mishaps'
    BY <1>4 DEF DeleteSourceFails, DeleteRow, DeleteRowFails, Return, Note, Mishaps,
                storageVars, historyVars, IInv, Typed, DataTyped
  <2>2. m \in HandlerType /\ m.pc = "over"
    BY AtType, DraftType DEF Pcs
  <2> HIDE DEF m
  <2>3. /\ HandlersTyped'
        /\ hs'[Delete] = m
        /\ \A t \in Tabs : hs'[Start(t)] = hs[Start(t)]
        /\ \A g \in Joiners : hs'[Complete(g)] = hs[Complete(g)]
    BY <2>1, <2>2, DeleteMoves DEF IInv, Typed
  <2>4. DataTyped' /\ PartsKept' /\ Uploads'
    <3>1. DataTyped' /\ PartsKept'
      BY <2>1, <2>3 DEF IInv, Typed, DataTyped, PartsKept, TabParts
    <3>2. Uploads'
      BY <2>1, <2>3 DEF IInv, Uploads
    <3> QED
      BY <3>1, <3>2
  <2>5. OneUpload' /\ TasksQueued'
    <3>1. OneUpload'
      BY <2>1, <2>3 DEF IInv, OneUpload
    <3>2. TasksQueued'
      BY <2>1, <2>3, Stays DEF IInv
    <3> QED
      BY <3>1, <3>2
  <2>6. FilesJoined'
    <3>1. Intact' => Intact
      BY <2>1 DEF Intact
    <3> QED
      BY <2>1, <2>3, <3>1 DEF IInv, FilesJoined
  <2> QED
    BY <2>3, <2>4, <2>5, <2>6 DEF IInv, Typed
<1> QED
  BY <1>2, <1>3, <1>4

LEMMA Step == IInv /\ [Next]_vars => IInv'
<1> SUFFICES ASSUME IInv, [Next]_vars PROVE IInv'
  OBVIOUS
<1>1. ASSUME NEW t \in Tabs, StartBegin(t) \/ InitMultipart(t) PROVE IInv'
  BY <1>1, StartBeginInv, InitMultipartInv
<1>2. ASSUME NEW t \in Tabs, NEW n \in PartNumbers, PartBegin(t, n) \/ PartStore(t, n)
      PROVE  IInv'
  BY <1>2, PartInv
<1>3. ASSUME NEW t \in Tabs, NEW g \in Joiners, CompleteBegin(t, g) PROVE IInv'
  BY <1>3, CompleteBeginInv
<1>4. ASSUME NEW g \in Joiners, CompleteStore(g) \/ \E k \in TaskTypes : QueueTask(g, k)
      PROVE  IInv'
  BY <1>4, CompleteStoreInv, QueueTaskInv
<1>5. ASSUME NEW h \in Starts \union Completes,
             SaveCheck(h) \/ SaveWrite(h) \/ SaveFails(h)
      PROVE  IInv'
  <2>1. CASE SaveCheck(h) \/ SaveFails(h)
    BY <2>1, SaveCheckInv, SaveFailsInv
  <2>2. CASE SaveWrite(h)
    BY <2>2, HandlersApart, StartWriteInv, CompleteWriteInv
  <2> QED
    BY <1>5, <2>1, <2>2
<1>6. CASE DeleteBegin \/ DeleteSource \/ DeleteSourceFails \/ DeleteRow \/ DeleteRowFails
  BY <1>6, DeleteInv
<1>7. CASE UNCHANGED vars
  BY <1>7 DEF vars, storageVars, historyVars, IInv, Typed, DataTyped, HandlersTyped, PartsKept,
              TabParts, Uploads, OneUpload, FilesJoined, Intact, TasksQueued
<1> QED
  BY <1>1, <1>2, <1>3, <1>4, <1>5, <1>6, <1>7 DEF Next

LEMMA Invariant == Spec => []IInv
BY InitInv, Step, PTL DEF Spec

-----------------------------------------------------------------------------
(* The theorems.                                                           *)

\* Every state has the shape the code's types allow; a row that is no draft
\* has the storage info UploadPart and CompleteStreamUpload unmarshal.
THEOREM TypeCorrect == Spec => []TypeOK
<1>1. IInv => TypeOK
  BY TypedIsTypeOK DEF IInv
<1> QED
  BY <1>1, Invariant, PTL

\* A stream CompleteStreamUpload has put in processing has its whole file in
\* storage and, of each type the queue took, a task queued that reads it, unless
\* two starts both read the draft or a deletion failed halfway.
THEOREM FilesAreBehindRows == Spec => []FileBehindRow
<1>1. IInv => FileBehindRow
  <2> SUFFICES ASSUME IInv, Intact, row.status = "processing"
               PROVE  /\ object[row.upload] = Whole(tab[row.upload].file)
                      /\ Busy = {} => \A k \in TaskTypes \ mishaps : queued[k] = row.upload
    BY DEF FileBehindRow, Intact
  <2>1. object[row.upload] = Whole(tab[row.upload].file)
    BY DEF IInv, FilesJoined
  <2>2. ASSUME Busy = {}, NEW k \in TaskTypes \ mishaps PROVE queued[k] = row.upload
    <3>1. \A g \in Joiners : hs[Complete(g)].pc \notin Ahead(k)
      BY <2>2, HandlersApart DEF Busy, Ahead, TaskTypes
    <3>2. queued[k] # NoTab
      BY <3>1 DEF IInv, TasksQueued
    <3> QED
      BY <3>2 DEF IInv, OneUpload, Intact
  <2> QED
    BY <2>1, <2>2
<1> QED
  BY <1>1, Invariant, PTL

\* CompleteStreamUpload closes what it joins, StartStreamUpload aborts what it
\* cannot save: of a stream that exists, storage keeps nothing else, unless
\* that abort failed too or a Save wrote over another's.
THEOREM NothingIsLeft == Spec => []NothingLeftBehind
<1>1. IInv => NothingLeftBehind
  <2> SUFFICES ASSUME IInv, live, Busy = {}, ~clobbered, "leaked" \notin mishaps
               PROVE  /\ \A t \in open : row.status = "uploading" /\ t = row.upload
                      /\ \A t \in Tabs : object[t] # NoFile => row.upload = t
    BY DEF NothingLeftBehind
  <2>1. ASSUME NEW t \in open
        PROVE  row.status = "uploading" /\ t = row.upload
    <3>1. t \in Tabs /\ hs[Start(t)].pc \notin {"check", "write"}
      BY HandlersApart DEF IInv, Typed, DataTyped, Busy
    <3>2. t = row.upload /\ row.status # "processing"
      BY <3>1 DEF IInv, OneUpload, Uploads
    <3>3. row.status # "draft"
      BY <3>1, <3>2, DraftType, UploadConstants DEF IInv, Typed, DataTyped
    <3> QED
      BY <3>2, <3>3 DEF IInv, Typed, DataTyped, RowType
  <2> QED
    BY <2>1 DEF IInv, OneUpload
<1> QED
  BY <1>1, Invariant, PTL

-----------------------------------------------------------------------------
(* A stream shown as uploading can be completed.                           *)

\* What keeps it so while neither the row nor its existence changes.
LEMMA StaysCompletable ==
    ASSUME UploadingIsOpen, UNCHANGED <<row, live>>, mishaps \subseteq mishaps',
           live /\ row.status = "uploading" =>
              /\ row.upload \in open =>
                    \/ row.upload \in open'
                    \/ \E g \in Joiners : /\ hs'[Complete(g)].pc = "check"
                                          /\ hs'[Complete(g)].copy.upload = row.upload
              /\ \A g \in Joiners : hs[Complete(g)].pc \in {"check", "write"}
                    => /\ hs'[Complete(g)].pc \in {"check", "write"}
                       /\ hs'[Complete(g)].copy = hs[Complete(g)].copy
    PROVE  UploadingIsOpen'
<1> SUFFICES ASSUME live, row.status = "uploading", "closed" \notin mishaps
             PROVE  \/ row.upload \in open'
                    \/ \E g \in Joiners : /\ hs'[Complete(g)].pc \in {"check", "write"}
                                          /\ hs'[Complete(g)].copy.upload = row.upload
  BY HandlersApart DEF UploadingIsOpen
<1>1. CASE row.upload \in open
  BY <1>1
<1>2. CASE row.upload \notin open
  <2>1. PICK g \in Joiners : /\ hs[Complete(g)].pc \in {"check", "write"}
                             /\ hs[Complete(g)].copy.upload = row.upload
    BY <1>2, HandlersApart DEF UploadingIsOpen
  <2> QED
    BY <2>1
<1> QED
  BY <1>1, <1>2

\* The handlers of complete requests none of whose records moves.
LEMMA CompletesStay ==
    ASSUME IInv, UploadingIsOpen, UNCHANGED <<row, live>>, open \subseteq open',
           mishaps \subseteq mishaps',
           \A g \in Joiners : hs[Complete(g)].pc \in {"check", "write"}
                                => hs'[Complete(g)] = hs[Complete(g)]
    PROVE  UploadingIsOpen'
BY StaysCompletable

\* A handler other than this one keeps its record.
LEMMA OthersStay ==
    ASSUME IInv, NEW h \in Handlers, NEW m, hs' = [hs EXCEPT ![h] = m]
    PROVE  hs'[h] = m /\ \A q \in Handlers : q # h => hs'[q] = hs[q]
BY DEF IInv, Typed, HandlersTyped

LEMMA UploadingIsOpenStep ==
    ASSUME IInv, UploadingIsOpen, [Next]_vars
    PROVE  UploadingIsOpen'
<1>0. hs \in [Handlers -> HandlerType]
  BY DEF IInv, Typed, HandlersTyped
<1>1. ASSUME NEW t \in Tabs, StartBegin(t) \/ InitMultipart(t)
      PROVE  UploadingIsOpen'
  <2>1. /\ \E m : hs' = [hs EXCEPT ![Start(t)] = m]
        /\ open \subseteq open' /\ UNCHANGED <<row, live, mishaps>>
    <3>1. CASE StartBegin(t)
      BY <3>1 DEF StartBegin, Begin, storageVars, historyVars
    <3>2. CASE InitMultipart(t)
      BY <3>2, ZenonT(60) DEF InitMultipart, historyVars
    <3> QED
      BY <1>1, <3>1, <3>2
  <2>2. \A g \in Joiners : hs'[Complete(g)] = hs[Complete(g)]
    BY <2>1, OthersStay, HandlersApart
  <2> QED
    BY <2>1, <2>2, CompletesStay
<1>2. ASSUME NEW t \in Tabs, NEW n \in PartNumbers, PartBegin(t, n) \/ PartStore(t, n)
      PROVE  UploadingIsOpen'
  BY <1>2, CompletesStay DEF PartBegin, PartStore, storageVars, historyVars
<1>3. ASSUME NEW t \in Tabs, NEW g \in Joiners, CompleteBegin(t, g)
      PROVE  UploadingIsOpen'
  <2>1. /\ hs' = [hs EXCEPT ![Complete(g)] = At("store", t, row)]
        /\ hs[Complete(g)].pc = "idle" /\ UNCHANGED <<row, live, open, mishaps>>
    BY <1>3 DEF CompleteBegin, Begin, storageVars, historyVars
  <2>2. \A f \in Joiners : f # g => hs'[Complete(f)] = hs[Complete(f)]
    BY <2>1, OthersStay, HandlersApart
  <2> QED
    BY <2>1, <2>2, CompletesStay
<1>4. ASSUME NEW g \in Joiners, CompleteStore(g)
      PROVE  UploadingIsOpen'
  <2> DEFINE u == hs[Complete(g)].copy.upload
             list == Sorted(tab[hs[Complete(g)].tab].acked)
  <2>1. /\ hs[Complete(g)].pc = "store" /\ UNCHANGED <<row, live>>
        /\ mishaps \subseteq mishaps'
        /\ \/ open' = open
           \/ "closed" \in mishaps'
           \/ /\ open' = open \ {u}
              /\ hs' = [hs EXCEPT ![Complete(g)].pc = "check",
                                  ![Complete(g)].copy.status = "processing"]
    BY <1>4 DEF CompleteStore, Note
  <2>2. \A f \in Joiners : f # g => hs'[Complete(f)] = hs[Complete(f)]
    BY <1>0, <1>4, HandlersApart DEF CompleteStore, Return
  <2>3. CASE open' = open
    BY <2>1, <2>2, <2>3, CompletesStay
  <2>5. CASE "closed" \in mishaps'
    BY <2>5 DEF UploadingIsOpen
  <2>4. CASE /\ open' = open \ {u}
             /\ hs' = [hs EXCEPT ![Complete(g)].pc = "check",
                                 ![Complete(g)].copy.status = "processing"]
    <3>1. hs[Complete(g)] \in HandlerType
      BY <1>0, HandlersApart
    <3>2. hs'[Complete(g)].pc = "check" /\ hs'[Complete(g)].copy.upload = u
      BY <1>0, <2>4, <3>1, HandlersApart DEF HandlerType, RowType
    <3> HIDE DEF u
    <3> QED
      BY <2>1, <2>2, <2>4, <3>2, StaysCompletable
  <2> QED
    BY <2>1, <2>3, <2>4, <2>5
<1>5. ASSUME NEW g \in Joiners, NEW k \in TaskTypes, QueueTask(g, k)
      PROVE  UploadingIsOpen'
  <2>1. /\ hs[Complete(g)].pc \in TaskTypes /\ UNCHANGED <<row, live, open>>
        /\ \E m : hs' = [hs EXCEPT ![Complete(g)] = m]
        /\ mishaps \subseteq mishaps'
    BY <1>0, <1>5, Moved, HandlersApart DEF QueueTask, storageVars, Note
  <2>3. "check" \notin TaskTypes /\ "write" \notin TaskTypes
    BY DEF TaskTypes
  <2>2. \A f \in Joiners : f # g => hs'[Complete(f)] = hs[Complete(f)]
    BY <2>1, OthersStay, HandlersApart
  <2> QED
    BY <2>1, <2>2, <2>3, CompletesStay
<1>6. ASSUME NEW h \in Starts \union Completes, SaveCheck(h)
      PROVE  UploadingIsOpen'
  <2>1. h \in Handlers
    BY HandlersApart
  <2>2. /\ UNCHANGED <<row, live, open, mishaps>>
        /\ \/ hs[h].pc = "check" /\ Goto(h, "write")
           \/ hs[h].pc = "recheck" /\ Goto(h, "rewrite")
    BY <1>6 DEF SaveCheck, storageVars, historyVars
  <2>3. \/ hs[h].pc = "check" /\ hs' = [hs EXCEPT ![h] = [hs[h] EXCEPT !.pc = "write"]]
        \/ hs[h].pc = "recheck" /\ hs' = [hs EXCEPT ![h] = [hs[h] EXCEPT !.pc = "rewrite"]]
    BY <1>0, <2>1, <2>2, Moved
  <2>4. \A q \in Handlers : q # h => hs'[q] = hs[q]
    BY <2>1, <2>3, OthersStay
  <2>5. hs[h].pc \in {"check", "write"} => hs'[h].pc = "write" /\ hs'[h].copy = hs[h].copy
    BY <1>0, <2>1, <2>3 DEF HandlerType
  <2>6. \A g \in Joiners : hs[Complete(g)].pc \in {"check", "write"}
           => /\ hs'[Complete(g)].pc \in {"check", "write"}
              /\ hs'[Complete(g)].copy = hs[Complete(g)].copy
    BY <2>4, <2>5, HandlersApart
  <2> QED
    BY <2>2, <2>6, StaysCompletable
<1>7. ASSUME NEW h \in Starts \union Completes, SaveWrite(h)
      PROVE  UploadingIsOpen'
  <2>1. CASE h \in Starts
    <3>1. PICK t \in Tabs : h = Start(t)
      BY <2>1, HandlersApart
    <3>2. StartSound(t, hs[h]) /\ t \in open
      BY <1>7, <3>1 DEF IInv, Typed, HandlersTyped, Uploads, SaveWrite, StartSound
    <3>3. row'.upload = t /\ open' = open
      BY <1>7, <3>2 DEF SaveWrite, StartSound, storageVars, historyVars
    <3> QED
      BY <3>2, <3>3 DEF UploadingIsOpen
  <2>2. CASE h \in Completes
    <3>1. PICK g \in Joiners : h = Complete(g)
      BY <2>2, HandlersApart
    <3>2. row'.status = "processing"
      BY <1>7, <3>1 DEF IInv, Typed, HandlersTyped, SaveWrite, CompleteSound
    <3> QED
      BY <3>2 DEF UploadingIsOpen
  <2> QED
    BY <2>1, <2>2
<1>8. ASSUME NEW h \in Starts \union Completes, SaveFails(h)
      PROVE  UploadingIsOpen'
  <2>1. /\ UNCHANGED <<row, live>> /\ hs' = [hs EXCEPT ![h] = At("over", NoTab, Draft)]
        /\ mishaps \subseteq mishaps'
        /\ \/ h \in Starts /\ open' \in {open, open \ {h[2]}}
           \/ /\ h \in Completes /\ open' = open
              /\ hs[h].pc \in {"check", "write"} => "closed" \in mishaps'
    BY <1>8 DEF SaveFails, SaveRefused, Return, Note
  <2>2. CASE h \in Starts
    <3>1. PICK t \in Tabs : h = Start(t)
      BY <2>2, HandlersApart
    <3>2. \A g \in Joiners : hs'[Complete(g)] = hs[Complete(g)]
      BY <2>1, <3>1, OthersStay, HandlersApart
    <3>3. hs[h].pc # "over"
      BY <1>8 DEF SaveFails, SaveRefused
    <3>4. row.upload # t /\ open' \in {open, open \ {t}}
      BY <2>1, <2>2, <3>1, <3>3, HandlersApart DEF IInv, Uploads
    <3> QED
      BY <2>1, <3>2, <3>4, StaysCompletable
  <2>3. CASE h \in Completes
    <3>1. PICK g \in Joiners : h = Complete(g)
      BY <2>3, HandlersApart
    <3>2. \A f \in Joiners : f # g => hs'[Complete(f)] = hs[Complete(f)]
      BY <2>1, <3>1, OthersStay, HandlersApart
    <3>3. open' = open /\ (hs[h].pc \in {"check", "write"} => "closed" \in mishaps')
      BY <2>1, <3>1, HandlersApart
    <3>4. CASE "closed" \in mishaps'
      BY <3>4 DEF UploadingIsOpen
    <3>5. CASE hs[h].pc \notin {"check", "write"}
      BY <2>1, <3>1, <3>2, <3>3, <3>5, CompletesStay
    <3> QED
      BY <3>3, <3>4, <3>5
  <2> QED
    BY <1>8, <2>2, <2>3
<1>9. CASE DeleteBegin \/ DeleteSource \/ DeleteSourceFails \/ DeleteRow \/ DeleteRowFails
  <2>1. CASE DeleteRow
    BY <2>1 DEF DeleteRow, UploadingIsOpen
  <2>2. CASE DeleteBegin \/ DeleteSource \/ DeleteSourceFails \/ DeleteRowFails
    <3>1. UNCHANGED <<row, live, open>> /\ mishaps \subseteq mishaps'
      BY <2>2 DEF DeleteBegin, Begin, DeleteSource, DeleteSourceFails, DeleteRowFails,
                  Note, storageVars, historyVars
    <3>2. \E m : hs' = [hs EXCEPT ![Delete] = m]
      BY <1>0, <2>2, Moved, HandlersApart
         DEF DeleteBegin, Begin, DeleteSource, DeleteSourceFails, DeleteRowFails
    <3>3. \A g \in Joiners : hs'[Complete(g)] = hs[Complete(g)]
      BY <3>2, OthersStay, HandlersApart
    <3> QED
      BY <3>1, <3>3, CompletesStay
  <2> QED
    BY <1>9, <2>1, <2>2
<1>10. CASE UNCHANGED vars
  BY <1>10 DEF vars, storageVars, historyVars, UploadingIsOpen
<1> QED
  BY <1>1, <1>2, <1>3, <1>4, <1>5, <1>6, <1>7, <1>8, <1>9, <1>10 DEF Next

\* A stream shown as uploading can be completed, unless an upload was closed
\* and the row does not say so: CompleteStreamUpload cannot close one twice,
\* and StartStreamUpload aborts none that a row names.
THEOREM UploadingStaysOpen == Spec => []UploadingIsOpen
<1>1. Init => UploadingIsOpen
  BY DraftType DEF Init, UploadingIsOpen
<1>2. IInv /\ UploadingIsOpen /\ [Next]_vars => UploadingIsOpen'
  BY UploadingIsOpenStep
<1> QED
  BY <1>1, <1>2, Invariant, PTL DEF Spec

-----------------------------------------------------------------------------
(* What a tab has been told is stored is accepted.                         *)

\* A complete request at storage moves on by its own step only.
LEMMA AtStore ==
    ASSUME IInv, NEW g \in Joiners, hs[Complete(g)].pc = "store",
           hs'[Complete(g)].pc = "over", Next
    PROVE  CompleteStore(g)
<1>0. hs \in [Handlers -> HandlerType] /\ Complete(g) \in Handlers
  BY HandlersApart DEF IInv, Typed, HandlersTyped
<1>1. ASSUME NEW h \in Handlers, h # Complete(g), NEW m, hs' = [hs EXCEPT ![h] = m]
      PROVE  FALSE
  BY <1>0, <1>1
<1>2. ASSUME NEW t \in Tabs, StartBegin(t) \/ InitMultipart(t) PROVE FALSE
  <2>1. \E m : hs' = [hs EXCEPT ![Start(t)] = m]
    <3>1. CASE StartBegin(t)
      BY <3>1 DEF StartBegin, Begin
    <3>2. CASE InitMultipart(t)
      BY <3>2, ZenonT(60) DEF InitMultipart
    <3> QED
      BY <1>2, <3>1, <3>2
  <2> QED
    BY <1>1, <2>1, HandlersApart
<1>3. ASSUME NEW t \in Tabs, NEW n \in PartNumbers, PartBegin(t, n) \/ PartStore(t, n)
      PROVE  FALSE
  BY <1>3 DEF PartBegin, PartStore
<1>4. ASSUME NEW t \in Tabs, NEW f \in Joiners, CompleteBegin(t, f) PROVE FALSE
  <2>1. /\ hs[Complete(f)].pc = "idle"
        /\ \E m : hs' = [hs EXCEPT ![Complete(f)] = m]
    BY <1>4 DEF CompleteBegin, Begin
  <2> QED
    BY <1>1, <2>1, HandlersApart
<1>5. ASSUME NEW f \in Joiners, CompleteStore(f) PROVE f = g
  BY <1>0, <1>5, HandlersApart DEF CompleteStore, Return
<1>6. ASSUME NEW f \in Joiners, NEW k \in TaskTypes, QueueTask(f, k) PROVE FALSE
  <2>1. /\ hs[Complete(f)].pc # "store"
        /\ \E m : hs' = [hs EXCEPT ![Complete(f)] = m]
    BY <1>0, <1>6, Moved, HandlersApart DEF QueueTask, TaskTypes
  <2> QED
    BY <1>1, <2>1, HandlersApart
<1>7. ASSUME NEW h \in Starts \union Completes,
             SaveCheck(h) \/ SaveWrite(h) \/ SaveFails(h)
      PROVE  FALSE
  <2>1. h \in Handlers /\ hs[h].pc # "store"
    BY <1>7, HandlersApart DEF SaveCheck, SaveWrite, SaveFails, SaveRefused
  <2>2. \E m : hs' = [hs EXCEPT ![h] = m]
    BY <1>0, <1>7, <2>1, Moved DEF SaveCheck, SaveWrite, SaveFails, SaveRefused
  <2> QED
    BY <1>1, <2>1, <2>2
<1>8. CASE DeleteBegin \/ DeleteSource \/ DeleteSourceFails \/ DeleteRow \/ DeleteRowFails
  <2>1. \E m : hs' = [hs EXCEPT ![Delete] = m]
    BY <1>0, <1>8, Moved, HandlersApart
       DEF DeleteBegin, Begin, DeleteSource, DeleteSourceFails, DeleteRow, DeleteRowFails
  <2> QED
    BY <1>1, <2>1, HandlersApart
<1> QED
  BY <1>2, <1>3, <1>4, <1>5, <1>6, <1>7, <1>8 DEF Next

\* CompleteMultipartUpload refuses a tab whose parts are all acknowledged, in
\* whatever order it got the answers, only when its upload has been joined.
THEOREM AcknowledgedIsTaken == Spec => OwnPartsAreTaken
<1> DEFINE A == \A h \in Completes :
                   hs[h].pc = "store" /\ hs'[h].pc = "over"
                       => hs[h].copy.upload # hs[h].tab \/ hs[h].tab \notin open'
<1>1. IInv /\ [Next]_vars => [A]_vars
  <2> SUFFICES ASSUME IInv, Next, NEW h \in Completes,
                      hs[h].pc = "store", hs'[h].pc = "over",
                      hs[h].copy.upload = hs[h].tab, hs[h].tab \in open'
               PROVE  FALSE
    OBVIOUS
  <2>1. PICK g \in Joiners : h = Complete(g)
    BY HandlersApart
  <2>2. CompleteStore(g)
    BY <2>1, AtStore
  <2> DEFINE t == hs[h].tab
             list == Sorted(tab[t].acked)
  <2>3. t \in Tabs /\ Len(tab[t].acked) = Parts
    BY <2>1 DEF IInv, Typed, HandlersTyped, CompleteSound, PartsKept
  <2>4. /\ ~Accepts(t, t, list) => open' = open
        /\ Accepts(t, t, list) => open' = open \ {t}
    BY <2>1, <2>2 DEF CompleteStore
  <2>5. t \in open => Accepts(t, t, list)
    BY <2>3, JoinedWhole
  <2> QED
    BY <2>4, <2>5
<1> QED
  BY <1>1, Invariant, PTL DEF Spec, OwnPartsAreTaken

=============================================================================
