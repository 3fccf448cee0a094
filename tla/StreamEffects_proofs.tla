------------------------ MODULE StreamEffects_proofs ------------------------
(***************************************************************************)
(* Proofs about StreamEffects, for every number of handlers, tasks and     *)
(* keys, every fault of a call and every effect that is lost.  The row and *)
(* its handlers are those of StreamLifecycle, and so is their invariant.   *)
(***************************************************************************)
EXTENDS StreamEffects, StreamLifecycle_proofs

-----------------------------------------------------------------------------
(* The inductive invariant, in parts.                                      *)

\* What is left of the effects of a creation and of a deletion.
Add2    == <<Effect("add", "read"), Effect("add", "delete")>>
Add3    == <<Effect("add", "delete")>>
Forget2 == <<Effect("remove", "read"), Effect("remove", "write"), Effect("remove", "delete")>>
Forget3 == <<Effect("remove", "write"), Effect("remove", "delete")>>
Forget4 == <<Effect("remove", "delete")>>

Grants  == {CreateEffects, Add2, Add3, <<>>}
Forgets == {DeleteEffects, Forget2, Forget3, Forget4}
Tellings == {Notified, <<>>}

\* One handler: a request that has ended keeps nothing, the second write is a
\* write, and StartStreamUpload writes "uploading".
Apart(h) ==
    /\ h.pc \in {"idle", "error"} => h.op = "none"
    /\ h.op = "finish" => h.pc \in {"save", "write"}
    /\ h.op = "start" => \/ h.pc = "store"
                         \/ h.pc \in {"save", "write"} /\ h.copy.status = "uploading"

Deleting(h) == h.pc \in {"source", "folder", "tasks", "row"}

Untold(h) == \/ h.pc = "drop" \/ h.op = "finish"
             \/ h.pc = "enqueue" /\ h.op \in {"upload", "complete"}

EffectsTyped ==
    /\ after \in [Procs \union {Creator} -> Grants \union Forgets \union Tellings]
    /\ after[Creator] \in Grants
    /\ \A p \in Procs : after[p] \in Forgets \union Tellings
    /\ \A p \in Procs : after[p] # <<>> => hs[p].pc = "idle"
    /\ policies \subseteq Acts
    /\ cascade \in BOOLEAN /\ notice \in BOOLEAN
    /\ shown \in Statuses \union {"deleted"}
    /\ lost \in BOOLEAN /\ unheard \in BOOLEAN /\ revived \in BOOLEAN
    /\ \A p \in Procs : Apart(hs[p])

\* How far the creation is with adding, the deletion with removing.
Granting == \/ after[Creator] = CreateEffects /\ policies = {}
            \/ after[Creator] = Add2 /\ policies = {"write"}
            \/ after[Creator] = Add3 /\ policies = {"write", "read"}
            \/ after[Creator] = <<>> /\ policies = Acts

Forgetting(p) ==
    \/ after[p] = DeleteEffects /\ policies = Acts /\ ~cascade
    \/ after[p] = Forget2 /\ policies = Acts /\ cascade
    \/ after[p] = Forget3 /\ policies = {"write", "delete"} /\ cascade
    \/ after[p] = Forget4 /\ policies = {"delete"} /\ cascade

\* No deletion begins before the creation has added its last policy; then one
\* handler, the one that deleted the row, removes them.
AccessInv ==
    ~lost /\ ~revived =>
        /\ \A p \in Procs : Deleting(hs[p]) => after[Creator] = <<>>
        /\ live => /\ Granting /\ ~cascade
                   /\ \A p \in Procs : after[p] \in Tellings
        /\ ~live => /\ after[Creator] = <<>>
                    /\ \/ /\ policies = {} /\ cascade
                          /\ \A p \in Procs : after[p] \in Tellings
                       \/ \E p \in Procs :
                             /\ Forgetting(p)
                             /\ \A q \in Procs \ {p} : after[q] \in Tellings

\* While every notice has reached the browser, a status it does not show has
\* been announced to it, or a handler has still to do so.
BrowserInv ==
    ~unheard /\ live /\ row.status # "uploading" /\ shown # row.status
        => \/ notice
           \/ \E p \in Procs : after[p] = Notified \/ Untold(hs[p])

-----------------------------------------------------------------------------
(* The lists of effects.                                                   *)

LEMMA AddLists ==
    /\ Head(CreateEffects) = Effect("add", "write") /\ Tail(CreateEffects) = Add2
    /\ Head(Add2) = Effect("add", "read") /\ Tail(Add2) = Add3
    /\ Head(Add3) = Effect("add", "delete") /\ Tail(Add3) = <<>>
    /\ CreateEffects # <<>> /\ Add2 # <<>> /\ Add3 # <<>>
BY DEF CreateEffects, Add2, Add3

LEMMA ForgetLists ==
    /\ Head(DeleteEffects) = Effect("cascade", "none") /\ Tail(DeleteEffects) = Forget2
    /\ Head(Forget2) = Effect("remove", "read") /\ Tail(Forget2) = Forget3
    /\ Head(Forget3) = Effect("remove", "write") /\ Tail(Forget3) = Forget4
    /\ Head(Forget4) = Effect("remove", "delete") /\ Tail(Forget4) = <<>>
    /\ DeleteEffects # <<>> /\ Forget2 # <<>> /\ Forget3 # <<>> /\ Forget4 # <<>>
    /\ Head(Notified) = Effect("notify", "none") /\ Tail(Notified) = <<>> /\ Notified # <<>>
BY DEF DeleteEffects, Forget2, Forget3, Forget4, Notified

LEMMA EffectFields == \A do, act : Effect(do, act).do = do /\ Effect(do, act).act = act
BY DEF Effect

\* What is due tells whose list it is, and every list loses its head.
LEMMA DueLists ==
    ASSUME NEW list \in Grants \union Forgets \union Tellings, list # <<>>
    PROVE  /\ list \in Grants <=> Head(list).do = "add"
           /\ list = DeleteEffects <=> Head(list).do = "cascade"
           /\ list \in {Forget2, Forget3, Forget4} <=> Head(list).do = "remove"
           /\ list = Notified <=> Head(list).do = "notify"
           /\ list \in Grants => Tail(list) \in Grants
           /\ list \in Forgets => Tail(list) \in Forgets \union Tellings
           /\ list \in Tellings => Tail(list) = <<>>
<1> DEFINE do == Head(list).do
<1>1. CASE list \in {CreateEffects, Add2, Add3}
  <2>1. do = "add" /\ Tail(list) \in Grants
    BY <1>1, AddLists, EffectFields DEF Grants
  <2> QED
    BY <1>1, <2>1, ForgetLists, EffectFields DEF Grants, Forgets, Tellings
<1>2. CASE list = DeleteEffects
  <2>1. do = "cascade" /\ Tail(list) \in Forgets
    BY <1>2, ForgetLists, EffectFields DEF Forgets
  <2> QED
    BY <1>2, <2>1, AddLists, ForgetLists, EffectFields DEF Grants, Forgets, Tellings
<1>3. CASE list \in {Forget2, Forget3, Forget4}
  <2>1. do = "remove" /\ Tail(list) \in Forgets \union Tellings
    BY <1>3, ForgetLists, EffectFields DEF Forgets, Tellings
  <2> QED
    BY <1>3, <2>1, AddLists, ForgetLists, EffectFields DEF Grants, Forgets, Tellings
<1>4. CASE list = Notified
  <2>1. do = "notify" /\ Tail(list) = <<>>
    BY <1>4, ForgetLists, EffectFields
  <2> QED
    BY <1>4, <2>1, AddLists, ForgetLists, EffectFields DEF Grants, Forgets, Tellings
<1> QED
  BY <1>1, <1>2, <1>3, <1>4 DEF Grants, Forgets, Tellings

-----------------------------------------------------------------------------
(* What a step does to its handler.                                        *)

\* A handler that returns.
LEMMA Returns ==
    ASSUME NEW p \in Procs, NEW pc \in {"idle", "error"}, Return(p, pc) \/ Stop(p, pc)
    PROVE  \E h : /\ hs' = [hs EXCEPT ![p] = h] /\ h.pc = pc /\ h.op = "none"
                  /\ Apart(h) /\ ~Deleting(h) /\ ~Untold(h)
<1> DEFINE h == [Idle EXCEPT !.pc = pc]
<1>1. hs' = [hs EXCEPT ![p] = h]
  BY DEF Return, Stop
<1>2. h.pc = pc /\ h.op = "none"
  BY IdleType
<1> HIDE DEF h
<1> QED
  BY <1>1, <1>2 DEF Apart, Deleting, Untold

\* A request or a report that begins.
LEMMA Begins ==
    ASSUME NEW p \in Procs, NEW op \in OwnerOps \union Reports, NEW k, Begin(p, op, k)
    PROVE  /\ live
           /\ \E h : /\ hs' = [hs EXCEPT ![p] = h] /\ Apart(h)
                     /\ Deleting(h) => op = "delete"
<1> DEFINE h == [op |-> op, pc |-> FirstStep(op), copy |-> Edited(op, row, k),
                 todo |-> {}, input |-> row.key]
<1>1. hs' = [hs EXCEPT ![p] = h] /\ live
  BY DEF Begin
<1>2. h.op = op /\ h.pc = FirstStep(op)
  OBVIOUS
<1> HIDE DEF h
<1>3. /\ FirstStep(op) \in {"store", "source", "exists", "save"}
      /\ FirstStep(op) = "source" => op = "delete"
      /\ op = "start" => FirstStep(op) = "store"
  BY DEF FirstStep
<1>4. op \notin {"finish", "none"}
  BY DEF OwnerOps, Reports
<1> QED
  BY <1>1, <1>2, <1>3, <1>4 DEF Apart, Deleting

\* Recording an enqueue: a handler that has to tell still has.
LEMMA RecordGoesOn ==
    ASSUME NEW p \in Procs, NEW k, NEW entry, Record(p, k, entry),
           Apart(hs[p]), hs[p].pc = "enqueue"
    PROVE  \E h : /\ hs' = [hs EXCEPT ![p] = h] /\ Apart(h) /\ ~Deleting(h)
                  /\ h.pc # "idle"
                  /\ Untold(hs[p]) => Untold(h)
<1> DEFINE last == hs[p].todo \ {k} = {}
           op == IF last /\ hs[p].op \in {"upload", "complete"} THEN "finish" ELSE hs[p].op
           pc == IF last THEN "save" ELSE "enqueue"
           status == IF last /\ hs[p].op = "reprocess" /\ hs[p].copy.status = "error"
                     THEN "processing" ELSE hs[p].copy.status
           copy == [hs[p].copy EXCEPT !.tasks[k] = entry, !.status = status]
           h == [op |-> op, pc |-> pc, copy |-> copy, todo |-> hs[p].todo \ {k},
                 input |-> hs[p].input]
<1>1. hs' = [hs EXCEPT ![p] = h]
  BY Zenon DEF Record
<1>2. h.op = op /\ h.pc = pc
  OBVIOUS
<1>3. hs[p].op \notin {"start", "finish"}
  BY DEF Apart
<1>4. /\ pc \in {"save", "enqueue"}
      /\ op \in {"finish", hs[p].op} /\ (op = "finish" => pc = "save")
      /\ hs[p].op \in {"upload", "complete"} => \/ op = "finish"
                                                \/ pc = "enqueue" /\ op = hs[p].op
  BY <1>3
<1> HIDE DEF h, op, pc
<1>5. Apart(h) /\ ~Deleting(h) /\ h.pc # "idle"
  BY <1>2, <1>3, <1>4 DEF Apart, Deleting
<1>6. Untold(hs[p]) => Untold(h)
  BY <1>2, <1>3, <1>4 DEF Untold
<1> QED
  BY <1>1, <1>5, <1>6

\* A call that leaves the row alone.
LEMMA GoesOn ==
    ASSUME NEW p \in Procs, Apart(hs[p]), hs \in [Procs -> HandlerType],
           \/ StoreNew(p) \/ StoreComplete(p) \/ StoreRefused(p) \/ SaveCheck(p)
           \/ Enqueue(p) \/ EnqueueFails(p) \/ SourceExists(p)
           \/ DeleteSource(p) \/ DeleteSourceFails(p) \/ DeleteFolder(p)
           \/ TerminateTasks(p) \/ DeleteRowFails(p)
    PROVE  /\ row' = row /\ live' = live /\ hs[p].pc \notin {"idle", "error"}
           /\ \E h : /\ hs' = [hs EXCEPT ![p] = h] /\ Apart(h)
                     /\ Deleting(h) => Deleting(hs[p])
                     /\ Untold(hs[p]) => Untold(h)
<1>0. hs[p] \in HandlerType
  OBVIOUS
<1>1. CASE StoreNew(p)
  <2>1. PICK key \in FreshKeys :
          hs' = [hs EXCEPT ![p].pc = "save", ![p].copy.key = key, ![p].input = key,
                           ![p].copy.rotated = FALSE,
                           ![p].copy.status = IF hs[p].op = "upload"
                                              THEN "processing" ELSE "uploading"]
    BY <1>1 DEF StoreNew
  <2> DEFINE status == IF hs[p].op = "upload" THEN "processing" ELSE "uploading"
             h == [hs[p] EXCEPT !.pc = "save", !.copy.key = key, !.input = key,
                                !.copy.rotated = FALSE, !.copy.status = status]
  <2>2. hs' = [hs EXCEPT ![p] = h]
    BY <2>1
  <2>3. /\ h.pc = "save" /\ h.op = hs[p].op /\ h.copy.status = status
        /\ hs[p].pc = "store" /\ hs[p].op \in {"upload", "start"}
    BY <1>0, <1>1 DEF StoreNew, HandlerType, RowType
  <2> HIDE DEF h
  <2>4. Apart(h) /\ ~Deleting(h) /\ ~Untold(hs[p])
    BY <2>3 DEF Apart, Deleting, Untold
  <2> QED
    BY <1>1, <2>2, <2>3, <2>4 DEF StoreNew
<1>2. CASE StoreComplete(p)
  <2>1. /\ hs[p].pc = "store" /\ hs[p].op = "complete" /\ row' = row /\ live' = live
        /\ ~Untold(hs[p])
    BY <1>2 DEF StoreComplete, Untold
  <2>2. CASE hs' = [hs EXCEPT ![p].pc = "save", ![p].copy.status = "processing"]
    <3> DEFINE h == [hs[p] EXCEPT !.pc = "save", !.copy.status = "processing"]
    <3>1. hs' = [hs EXCEPT ![p] = h]
      BY <2>2
    <3>2. h.pc = "save" /\ h.op = "complete"
      BY <1>0, <2>1 DEF HandlerType
    <3> HIDE DEF h
    <3>3. Apart(h) /\ ~Deleting(h)
      BY <3>2 DEF Apart, Deleting
    <3> QED
      BY <2>1, <3>1, <3>3
  <2>3. CASE Return(p, "idle")
    BY <2>1, <2>3, Returns
  <2> QED
    BY <1>2, <2>2, <2>3 DEF StoreComplete
<1>3. ASSUME NEW pc \in {"write", "folder", "tasks", "row"}, Goto(p, pc)
      PROVE  \E h : /\ hs' = [hs EXCEPT ![p] = h]
                    /\ h.pc = pc /\ h.op = hs[p].op /\ h.copy = hs[p].copy
  <2> DEFINE h == [hs[p] EXCEPT !.pc = pc]
  <2>1. hs' = [hs EXCEPT ![p] = h]
    BY <1>3 DEF Goto
  <2>2. h.pc = pc /\ h.op = hs[p].op /\ h.copy = hs[p].copy
    BY <1>0 DEF HandlerType
  <2> QED
    BY <2>1, <2>2
<1>4. CASE SaveCheck(p)
  <2>1. hs[p].pc = "save" /\ row' = row /\ live' = live
    BY <1>4 DEF SaveCheck
  <2>2. PICK h : /\ hs' = [hs EXCEPT ![p] = h]
                 /\ h.pc = "write" /\ h.op = hs[p].op /\ h.copy = hs[p].copy
    BY <1>3, <1>4 DEF SaveCheck
  <2>3. Apart(h) /\ ~Deleting(h) /\ (Untold(hs[p]) => Untold(h))
    BY <2>1, <2>2 DEF Apart, Deleting, Untold
  <2> QED
    BY <2>1, <2>2, <2>3
<1>5. CASE Enqueue(p) \/ EnqueueFails(p)
  <2>1. hs[p].pc = "enqueue" /\ row' = row /\ live' = live
    BY <1>5 DEF Enqueue, EnqueueFails
  <2>2. CASE \E k, entry : Record(p, k, entry)
    BY <2>1, <2>2, RecordGoesOn
  <2>3. CASE Return(p, "idle") /\ hs[p].op \notin {"upload", "complete"}
    <3>1. ~Untold(hs[p])
      BY <2>1, <2>3 DEF Untold, Apart
    <3> QED
      BY <2>1, <2>3, <3>1, Returns
  <2> QED
    BY <1>5, <2>2, <2>3 DEF Enqueue, EnqueueFails
<1>6. CASE SourceExists(p)
  <2>1. hs[p].pc = "exists" /\ row' = row /\ live' = live /\ ~Untold(hs[p])
    BY <1>6 DEF SourceExists, Untold, Apart
  <2>2. CASE Return(p, "idle")
    BY <2>1, <2>2, Returns
  <2>3. ASSUME NEW input, NEW todo,
               hs' = [hs EXCEPT ![p].pc = "enqueue", ![p].input = input, ![p].todo = todo]
        PROVE  \E h : hs' = [hs EXCEPT ![p] = h] /\ Apart(h) /\ ~Deleting(h)
    <3> DEFINE h == [hs[p] EXCEPT !.pc = "enqueue", !.input = input, !.todo = todo]
    <3>1. hs' = [hs EXCEPT ![p] = h]
      BY <2>3
    <3>2. h.pc = "enqueue" /\ h.op = hs[p].op /\ h.op \notin {"start", "finish"}
      BY <1>0, <2>1 DEF HandlerType, Apart
    <3> HIDE DEF h
    <3>3. Apart(h) /\ ~Deleting(h)
      BY <3>2 DEF Apart, Deleting
    <3> QED
      BY <3>1, <3>3
  <2>4. CASE ~Return(p, "idle")
    <3> DEFINE faces == hs[p].op = "faces"
               input == IF hs[p].copy.key \in files THEN hs[p].copy.key ELSE NoKey
               todo == IF faces THEN {"faces"} ELSE Failed(hs[p].copy)
    <3>1. hs' = [hs EXCEPT ![p].pc = "enqueue", ![p].input = input, ![p].todo = todo]
      BY <1>6, <2>4 DEF SourceExists
    <3> HIDE DEF input, todo
    <3> QED
      BY <2>1, <2>3, <3>1
  <2> QED
    BY <2>2, <2>4
<1>7. CASE DeleteSource(p) \/ DeleteFolder(p) \/ TerminateTasks(p)
  <2>1. /\ hs[p].pc \in {"source", "folder", "tasks"} /\ row' = row /\ live' = live
        /\ Deleting(hs[p]) /\ ~Untold(hs[p]) /\ hs[p].op \notin {"start", "finish"}
    BY <1>7 DEF DeleteSource, DeleteFolder, TerminateTasks, Deleting, Untold, Apart
  <2>2. AfterSource(hs[p].copy) \in {"folder", "tasks", "row"}
    BY DEF AfterSource
  <2>3. \E pc \in {"folder", "tasks", "row"} : Goto(p, pc)
    BY <1>7, <2>2 DEF DeleteSource, DeleteFolder, TerminateTasks
  <2>4. PICK h : /\ hs' = [hs EXCEPT ![p] = h]
                 /\ h.pc \in {"folder", "tasks", "row"} /\ h.op = hs[p].op
    BY <1>3, <2>3
  <2>5. Apart(h)
    BY <2>1, <2>4 DEF Apart
  <2> QED
    BY <2>1, <2>4, <2>5
<1>8. CASE StoreRefused(p) \/ DeleteSourceFails(p) \/ DeleteRowFails(p)
  <2>1. /\ hs[p].pc \in {"store", "source", "row"} /\ row' = row /\ live' = live
        /\ Return(p, "idle")
    BY <1>8 DEF StoreRefused, DeleteSourceFails, DeleteRowFails
  <2>2. ~Untold(hs[p])
    BY <2>1 DEF Untold, Apart
  <2> QED
    BY <2>1, <2>2, Returns
<1> QED
  BY <1>1, <1>2, <1>4, <1>5, <1>6, <1>7, <1>8

\* A write of the row: what is to be told of it is due at once, or later.
LEMMA Writes ==
    ASSUME NEW p \in Procs, Apart(hs[p]), hs \in [Procs -> HandlerType], SaveWrite(p)
    PROVE  /\ hs[p].pc = "write" /\ row' = hs[p].copy /\ live' = TRUE
           /\ \E h : /\ hs' = [hs EXCEPT ![p] = h] /\ Apart(h) /\ ~Deleting(h)
                     /\ h.pc # "idle" => Untold(h)
           /\ hs[p].op = "start" => row'.status = "uploading"
<1>1. /\ hs[p].pc = "write" /\ row' = hs[p].copy /\ live' = TRUE
      /\ hs[p] \in HandlerType
      /\ hs[p].op = "start" => row'.status = "uploading"
  BY DEF SaveWrite, Apart
<1>2. CASE AfterWrite(p) = "enqueue"
  <2> DEFINE h == [hs[p] EXCEPT !.pc = "enqueue", !.todo = TaskTypes]
  <2>1. hs[p].op \in {"upload", "complete"}
    BY <1>2 DEF AfterWrite
  <2>2. hs' = [hs EXCEPT ![p] = h]
    BY <1>2 DEF SaveWrite
  <2>3. h.pc = "enqueue" /\ h.op = hs[p].op
    BY <1>1 DEF HandlerType
  <2> HIDE DEF h
  <2>4. Apart(h) /\ ~Deleting(h) /\ Untold(h)
    BY <2>1, <2>3 DEF Apart, Deleting, Untold
  <2> QED
    BY <1>1, <2>2, <2>4
<1>3. CASE AfterWrite(p) = "drop"
  <2> DEFINE h == [hs[p] EXCEPT !.pc = "drop"]
  <2>1. hs[p].op = "ready"
    BY <1>3 DEF AfterWrite
  <2>2. hs' = [hs EXCEPT ![p] = h]
    BY <1>3 DEF SaveWrite, Goto
  <2>3. h.pc = "drop" /\ h.op = "ready"
    BY <1>1, <2>1 DEF HandlerType
  <2> HIDE DEF h
  <2>4. Apart(h) /\ ~Deleting(h) /\ Untold(h)
    BY <2>3 DEF Apart, Deleting, Untold
  <2> QED
    BY <1>1, <2>2, <2>4
<1>4. CASE AfterWrite(p) \notin {"enqueue", "drop"}
  <2>1. Stop(p, "idle")
    BY <1>4 DEF SaveWrite
  <2>2. PICK h : hs' = [hs EXCEPT ![p] = h] /\ h.pc = "idle" /\ Apart(h) /\ ~Deleting(h)
    BY <2>1, Returns
  <2> QED
    BY <1>1, <2>2
<1> QED
  BY <1>2, <1>3, <1>4

\* A worker's step: it reports only when the last report was answered.
LEMMA WorkerMoves ==
    ASSUME IInv, NEW j \in JobIds, Apart(hs[j]), WorkerStep(j)
    PROVE  /\ row' = row /\ live' = live
           /\ \E h : /\ hs' = [hs EXCEPT ![j] = h] /\ Apart(h)
                     /\ h = hs[j] \/ ~Deleting(h)
                     /\ Untold(hs[j]) => Untold(h)
<1>1. j \in Procs /\ job[j].calls \in Calls /\ hs \in [Procs -> HandlerType]
  BY DEF Procs, IInv, TypeOK, JobType
<1>2. row' = row /\ live' = live
  BY DEF WorkerStep, WorkerStart, WorkerSucceeds, WorkerFails, WorkerCalls, WorkerEnds,
         WorkerGivesUp
<1>3. CASE WorkerStart(j) \/ WorkerSucceeds(j) \/ WorkerFails(j) \/ WorkerEnds(j)
  <2>1. hs' = hs
    BY <1>3 DEF WorkerStart, WorkerSucceeds, WorkerFails, WorkerEnds
  <2>2. hs' = [hs EXCEPT ![j] = hs[j]]
    BY <1>1, <2>1
  <2> QED
    BY <1>2, <2>2
<1>4. hs[j].pc \in {"idle", "error"} => ~Untold(hs[j])
  BY DEF Untold, Apart
<1>5. CASE WorkerCalls(j)
  <2>1. hs[j].pc = "idle" /\ job[j].calls # <<>>
    BY <1>5 DEF WorkerCalls
  <2>2. Head(job[j].calls) \in Reports
    BY <1>1, <2>1, CallsLeft
  <2>3. \/ Begin(j, Head(job[j].calls), j[1]) \/ Return(j, "error")
    BY <1>5 DEF WorkerCalls
  <2>4. "delete" \notin Reports
    BY DEF Reports
  <2> QED
    BY <1>1, <1>2, <1>4, <2>1, <2>2, <2>3, <2>4, Begins, Returns
<1>6. CASE WorkerGivesUp(j)
  <2>1. Return(j, "idle") /\ hs[j].pc = "error"
    BY <1>6 DEF WorkerGivesUp
  <2> QED
    BY <1>1, <1>2, <1>4, <2>1, Returns
<1> QED
  BY <1>3, <1>5, <1>6 DEF WorkerStep

-----------------------------------------------------------------------------
(* The steps.                                                              *)

EffectsIInv == EffectsTyped /\ AccessInv /\ BrowserInv

\* A step of a handler that neither writes the row nor leaves an effect to do.
LEMMA QuietStep ==
    ASSUME IInv, EffectsIInv, NEW p \in Procs, NEW h, hs' = [hs EXCEPT ![p] = h],
           Apart(h), after[p] = <<>>, after' = after,
           UNCHANGED <<row, live, policies, cascade, browserVars, lost, revived>>,
           unheard' \in BOOLEAN, unheard => unheard',
           Deleting(h) => Deleting(hs[p]) \/ (live /\ "delete" \in policies),
           Untold(hs[p]) => Untold(h) \/ unheard'
    PROVE  EffectsIInv'
<1>1. /\ hs \in [Procs -> HandlerType] /\ hs'[p] = h
      /\ \A q \in Procs \ {p} : hs'[q] = hs[q]
  BY DEF IInv, TypeOK
<1>2. EffectsTyped'
  BY <1>1 DEF EffectsIInv, EffectsTyped, browserVars
<1>3. AccessInv'
  <2> SUFFICES ASSUME ~lost, ~revived PROVE AccessInv'
    BY DEF AccessInv
  <2>1. "delete" \in policies /\ live => after[Creator] = <<>>
    BY DEF EffectsIInv, AccessInv, Granting
  <2>2. \A q \in Procs : Deleting(hs'[q]) => after[Creator] = <<>>
    BY <1>1, <2>1 DEF EffectsIInv, AccessInv
  <2> QED
    BY <2>2 DEF EffectsIInv, AccessInv, Granting, Forgetting, browserVars
<1>4. BrowserInv'
  <2> SUFFICES ASSUME ~unheard' PROVE BrowserInv'
    BY DEF BrowserInv
  <2>1. \A q \in Procs : Untold(hs[q]) => Untold(hs'[q])
    BY <1>1
  <2> QED
    BY <2>1 DEF EffectsIInv, BrowserInv, browserVars
<1> QED
  BY <1>2, <1>3, <1>4 DEF EffectsIInv

\* Untold is what StreamEffects calls Unannounced.
LEMMA Unsaid == \A p : Unannounced(p) <=> Untold(hs[p])
BY DEF Unannounced, Untold

\* A step that leaves handler p nothing to do, when it had nothing to do.
LEMMA ThenNothing ==
    ASSUME EffectsTyped, NEW p \in Procs, hs[p].pc # "idle", Then(p, <<>>)
    PROVE  after[p] = <<>> /\ after' = after
<1>1. after[p] = <<>>
  BY DEF EffectsTyped
<1> QED
  BY <1>1 DEF Then, EffectsTyped

LEMMA RequestStep ==
    ASSUME IInv, EffectsIInv, NEW p \in Owners, OwnerRequest(p) PROVE EffectsIInv'
<1>1. p \in Procs /\ after[p] = <<>> /\ hs[p].pc = "idle" /\ Apart(hs[p])
  BY DEF Procs, OwnerRequest, EffectsIInv, EffectsTyped
<1>2. PICK op \in Ops : Needed(op) \subseteq policies /\ Begin(p, op, "none")
  BY DEF OwnerRequest
<1>3. op \in OwnerOps \union Reports
  BY LifecycleConstants
<1>4. live /\ \E h : /\ hs' = [hs EXCEPT ![p] = h] /\ Apart(h)
                     /\ Deleting(h) => op = "delete"
  BY <1>1, <1>2, <1>3, Begins
<1>5. op = "delete" => "delete" \in policies
  BY <1>2 DEF Needed
<1>6. ~Untold(hs[p])
  BY <1>1 DEF Untold, Apart
<1>7. UNCHANGED <<row, live, policies, cascade, browserVars, revived, lost, unheard, after>>
  BY DEF OwnerRequest, effectVars
<1>8. unheard \in BOOLEAN
  BY DEF EffectsIInv, EffectsTyped
<1> QED
  BY <1>1, <1>4, <1>5, <1>6, <1>7, <1>8, QuietStep

LEMMA GoesOnStep ==
    ASSUME IInv, EffectsIInv, NEW p \in Procs, HandlerGoesOn(p) PROVE EffectsIInv'
<1>1. Apart(hs[p]) /\ hs \in [Procs -> HandlerType] /\ unheard \in BOOLEAN
  BY DEF EffectsIInv, EffectsTyped, IInv, TypeOK
<1>2. /\ row' = row /\ live' = live /\ hs[p].pc \notin {"idle", "error"}
      /\ \E h : /\ hs' = [hs EXCEPT ![p] = h] /\ Apart(h)
                /\ Deleting(h) => Deleting(hs[p])
                /\ Untold(hs[p]) => Untold(h)
  BY <1>1, GoesOn DEF HandlerGoesOn
<1>3. Then(p, <<>>) /\ UNCHANGED <<lost, unheard, revived>>
  BY DEF HandlerGoesOn
<1>4. after[p] = <<>> /\ after' = after
  BY <1>2, <1>3, ThenNothing DEF EffectsIInv
<1>5. UNCHANGED <<policies, cascade, browserVars>>
  BY <1>3 DEF Then
<1> QED
  BY <1>1, <1>2, <1>3, <1>4, <1>5, QuietStep

\* The notice of a handler that ends untold is not heard.
LEMMA FailStep ==
    ASSUME IInv, EffectsIInv, NEW p \in Procs, FailUntold(p) \/ HandlerDies(p) PROVE EffectsIInv'
<1>1. hs[p].pc \notin {"idle", "error"} /\ unheard \in BOOLEAN
  BY DEF FailUntold, HandlerDies, SaveFails, SaveFailsDirty, SaveRefused, Abort,
         EffectsIInv, EffectsTyped
<1>2. Return(p, Refused(p)) /\ UNCHANGED <<row, live>>
  BY DEF FailUntold, HandlerDies, SaveFails, SaveFailsDirty, SaveRefused, Abort
<1>3. Refused(p) \in {"idle", "error"}
  BY DEF Refused
<1>4. PICK h : hs' = [hs EXCEPT ![p] = h] /\ Apart(h) /\ ~Deleting(h)
  BY <1>2, <1>3, Returns
<1>5. after[p] = <<>>
  BY <1>1 DEF EffectsIInv, EffectsTyped
<1>6. after' = after /\ UNCHANGED <<policies, cascade, browserVars, lost, revived>>
  <2>1. CASE FailUntold(p)
    BY <1>1, <2>1, ThenNothing DEF FailUntold, Then, EffectsIInv
  <2>2. CASE HandlerDies(p)
    BY <2>2 DEF HandlerDies
  <2> QED
    BY <2>1, <2>2
<1>7. unheard' = (unheard \/ Untold(hs[p]))
  BY Unsaid DEF FailUntold, HandlerDies
<1>8. unheard' \in BOOLEAN /\ (unheard => unheard') /\ (Untold(hs[p]) => unheard')
  BY <1>7
<1> QED
  BY <1>2, <1>4, <1>5, <1>6, <1>8, QuietStep

LEMMA WorkerRunsStep ==
    ASSUME IInv, EffectsIInv, NEW j \in JobIds, WorkerRuns(j) PROVE EffectsIInv'
<1>1. j \in Procs /\ Apart(hs[j]) /\ unheard \in BOOLEAN
  BY DEF Procs, EffectsIInv, EffectsTyped
<1>2. /\ row' = row /\ live' = live
      /\ \E h : /\ hs' = [hs EXCEPT ![j] = h] /\ Apart(h)
                /\ h = hs[j] \/ ~Deleting(h)
                /\ Untold(hs[j]) => Untold(h)
  BY <1>1, WorkerMoves DEF WorkerRuns
<1>3. /\ after[j] = <<>> /\ after' = after
      /\ UNCHANGED <<policies, cascade, browserVars, lost, unheard, revived>>
  BY DEF WorkerRuns, effectVars
<1> QED
  BY <1>1, <1>2, <1>3, QuietStep

\* The row is written, and announced by this handler, now or later.
LEMMA WriteStep ==
    ASSUME IInv, EffectsIInv, NEW p \in Procs, WriteThenTell(p) PROVE EffectsIInv'
<1>1. /\ hs \in [Procs -> HandlerType] /\ hs[p] \in HandlerType /\ Apart(hs[p])
  BY DEF EffectsIInv, EffectsTyped, IInv, TypeOK
<1>2. /\ hs[p].pc = "write" /\ row' = hs[p].copy /\ live' = TRUE
      /\ hs[p].op = "start" => row'.status = "uploading"
  BY <1>1, Writes DEF WriteThenTell
<1>3. PICK h : /\ hs' = [hs EXCEPT ![p] = h] /\ Apart(h) /\ ~Deleting(h)
               /\ h.pc # "idle" => Untold(h)
  BY <1>1, Writes DEF WriteThenTell
<1>4. hs'[p] = h /\ \A q \in Procs \ {p} : hs'[q] = hs[q]
  BY <1>1, <1>3
<1> DEFINE due == IF h.pc = "idle" /\ hs[p].op # "start" THEN Notified ELSE <<>>
<1>5. /\ after' = [after EXCEPT ![p] = due]
      /\ UNCHANGED <<policies, cascade, browserVars, lost, unheard>>
      /\ revived' = (revived \/ ~live)
  BY <1>4 DEF WriteThenTell, Then
<1>6. due \in Tellings /\ (due # <<>> => h.pc = "idle") /\ after[p] = <<>> /\ p # Creator
  BY <1>2, CreatorIsNoHandler DEF Tellings, EffectsIInv, EffectsTyped
<1>7. /\ after'[p] = due /\ \A q \in Procs \union {Creator} : q # p => after'[q] = after[q]
      /\ after'[Creator] = after[Creator]
  BY <1>5, <1>6 DEF EffectsIInv, EffectsTyped
<1>8. EffectsTyped'
  <2>1. after' \in [Procs \union {Creator} -> Grants \union Forgets \union Tellings]
    BY <1>5, <1>6 DEF EffectsIInv, EffectsTyped
  <2>2. revived' \in BOOLEAN /\ lost' \in BOOLEAN /\ unheard' \in BOOLEAN
    BY <1>5 DEF EffectsIInv, EffectsTyped, IInv, TypeOK
  <2>3. \A q \in Procs : Apart(hs'[q])
    BY <1>3, <1>4 DEF EffectsIInv, EffectsTyped
  <2>4. \A q \in Procs : after'[q] \in Forgets \union Tellings
    BY <1>6, <1>7 DEF EffectsIInv, EffectsTyped
  <2>5. \A q \in Procs : after'[q] # <<>> => hs'[q].pc = "idle"
    BY <1>4, <1>6, <1>7 DEF EffectsIInv, EffectsTyped
  <2> QED
    BY <1>5, <1>7, <2>1, <2>2, <2>3, <2>4, <2>5 DEF EffectsIInv, EffectsTyped, browserVars
<1>9. AccessInv'
  <2> SUFFICES ASSUME ~lost, ~revived, live PROVE AccessInv'
    BY <1>5 DEF AccessInv
  <2>1. \A q \in Procs : Deleting(hs'[q]) => after'[Creator] = <<>>
    BY <1>3, <1>4, <1>7 DEF EffectsIInv, AccessInv
  <2>2. Granting' /\ ~cascade' /\ \A q \in Procs : after'[q] \in Tellings
    BY <1>5, <1>6, <1>7 DEF EffectsIInv, AccessInv, Granting
  <2> QED
    BY <1>2, <2>1, <2>2 DEF AccessInv
<1>10. BrowserInv'
  <2>1. CASE h.pc = "idle" /\ hs[p].op # "start"
    BY <1>7, <2>1 DEF BrowserInv
  <2>2. CASE h.pc = "idle" /\ hs[p].op = "start"
    BY <1>2, <2>2 DEF BrowserInv
  <2>3. CASE h.pc # "idle"
    BY <1>3, <1>4, <2>3 DEF BrowserInv
  <2> QED
    BY <2>1, <2>2, <2>3
<1> QED
  BY <1>8, <1>9, <1>10 DEF EffectsIInv

\* The source is dropped and the "ready" told, or the handler panics.
LEMMA DropStep ==
    ASSUME IInv, EffectsIInv, NEW p \in Procs, DropThenTell(p) PROVE EffectsIInv'
<1>1. hs \in [Procs -> HandlerType] /\ unheard \in BOOLEAN
  BY DEF EffectsIInv, EffectsTyped, IInv, TypeOK
<1>2. PICK pc \in {"idle", "error"} : Return(p, pc)
  BY DEF DropThenTell, DropSource
<1>3. PICK h : /\ hs' = [hs EXCEPT ![p] = h] /\ h.pc = pc
               /\ Apart(h) /\ ~Deleting(h) /\ ~Untold(h)
  BY <1>2, Returns
<1>4. hs'[p] = h /\ \A q \in Procs \ {p} : hs'[q] = hs[q]
  BY <1>1, <1>3
<1> DEFINE due == IF pc = "idle" THEN Notified ELSE <<>>
<1>5. /\ after' = [after EXCEPT ![p] = due] /\ hs[p].pc = "drop"
      /\ UNCHANGED <<row, live, policies, cascade, browserVars, lost, revived>>
      /\ unheard' = (unheard \/ pc = "error")
  BY <1>3, <1>4 DEF DropThenTell, DropSource, Then
<1>6. due \in Tellings /\ (due # <<>> => h.pc = "idle") /\ after[p] = <<>> /\ p # Creator
  BY <1>3, <1>5, CreatorIsNoHandler DEF Tellings, EffectsIInv, EffectsTyped
<1>7. /\ after'[p] = due /\ \A q \in Procs \union {Creator} : q # p => after'[q] = after[q]
      /\ after'[Creator] = after[Creator]
  BY <1>5, <1>6 DEF EffectsIInv, EffectsTyped
<1>8. EffectsTyped'
  <2>1. after' \in [Procs \union {Creator} -> Grants \union Forgets \union Tellings]
    BY <1>5, <1>6 DEF EffectsIInv, EffectsTyped
  <2>2. unheard' \in BOOLEAN
    BY <1>5 DEF EffectsIInv, EffectsTyped
  <2>3. \A q \in Procs : Apart(hs'[q])
    BY <1>3, <1>4 DEF EffectsIInv, EffectsTyped
  <2>4. \A q \in Procs : after'[q] \in Forgets \union Tellings
    BY <1>6, <1>7 DEF EffectsIInv, EffectsTyped
  <2>5. \A q \in Procs : after'[q] # <<>> => hs'[q].pc = "idle"
    BY <1>4, <1>6, <1>7 DEF EffectsIInv, EffectsTyped
  <2> QED
    BY <1>5, <1>7, <2>1, <2>2, <2>3, <2>4, <2>5 DEF EffectsIInv, EffectsTyped, browserVars
<1>9. AccessInv'
  <2> SUFFICES ASSUME ~lost, ~revived PROVE AccessInv'
    BY <1>5 DEF AccessInv
  <2>1. \A q \in Procs : Deleting(hs'[q]) => after'[Creator] = <<>>
    BY <1>3, <1>4, <1>7 DEF EffectsIInv, AccessInv
  <2>2. \A q \in Procs : after[q] \in Tellings => after'[q] \in Tellings
    BY <1>6, <1>7
  <2>3. \A q \in Procs : Forgetting(q) => q # p
    BY <1>6, ForgetLists DEF Forgetting
  <2>4. \A q \in Procs : Forgetting(q) => Forgetting(q)'
    BY <1>5, <1>7, <2>3 DEF Forgetting
  <2>5. Granting => Granting'
    BY <1>5, <1>7 DEF Granting
  <2> QED
    BY <1>5, <1>7, <2>1, <2>2, <2>4, <2>5 DEF EffectsIInv, AccessInv
<1>10. BrowserInv'
  <2>1. CASE pc = "idle"
    BY <1>7, <2>1 DEF BrowserInv
  <2>2. CASE pc = "error"
    BY <1>5, <2>2 DEF BrowserInv
  <2> QED
    BY <2>1, <2>2
<1> QED
  BY <1>8, <1>9, <1>10 DEF EffectsIInv

\* The handler that deletes the row is the one that forgets the stream; one
\* that finds it gone has nothing to forget.
LEMMA DeleteStep ==
    ASSUME IInv, EffectsIInv, NEW p \in Procs, DeleteThenForget(p) PROVE EffectsIInv'
<1>1. hs \in [Procs -> HandlerType] /\ hs[p].pc = "row" /\ live \in BOOLEAN
  BY DEF IInv, TypeOK, DeleteThenForget, DeleteRow
<1>2. Stop(p, "idle") /\ row' = row /\ live' = FALSE
  BY DEF DeleteThenForget, DeleteRow
<1>3. PICK h : /\ hs' = [hs EXCEPT ![p] = h] /\ h.pc = "idle"
               /\ Apart(h) /\ ~Deleting(h) /\ ~Untold(h)
  BY <1>2, Returns
<1>4. hs'[p] = h /\ \A q \in Procs \ {p} : hs'[q] = hs[q]
  BY <1>1, <1>3
<1> DEFINE due == IF live THEN DeleteEffects ELSE <<>>
<1>5. /\ after' = [after EXCEPT ![p] = due]
      /\ UNCHANGED <<policies, cascade, browserVars, lost, unheard, revived>>
  BY DEF DeleteThenForget, Then
<1>6. due \in Forgets \union Tellings /\ after[p] = <<>> /\ p # Creator
  BY <1>1, CreatorIsNoHandler DEF Forgets, Tellings, EffectsIInv, EffectsTyped
<1>7. /\ after'[p] = due /\ \A q \in Procs \union {Creator} : q # p => after'[q] = after[q]
      /\ after'[Creator] = after[Creator]
  BY <1>5, <1>6 DEF EffectsIInv, EffectsTyped
<1>8. EffectsTyped'
  <2>1. after' \in [Procs \union {Creator} -> Grants \union Forgets \union Tellings]
    BY <1>5, <1>6 DEF EffectsIInv, EffectsTyped
  <2>2. \A q \in Procs : Apart(hs'[q])
    BY <1>3, <1>4 DEF EffectsIInv, EffectsTyped
  <2>3. \A q \in Procs : after'[q] \in Forgets \union Tellings
    BY <1>6, <1>7 DEF EffectsIInv, EffectsTyped
  <2>4. \A q \in Procs : after'[q] # <<>> => hs'[q].pc = "idle"
    BY <1>3, <1>4, <1>7 DEF EffectsIInv, EffectsTyped
  <2> QED
    BY <1>5, <1>7, <2>1, <2>2, <2>3, <2>4 DEF EffectsIInv, EffectsTyped, browserVars
<1>9. AccessInv'
  <2> SUFFICES ASSUME ~lost, ~revived PROVE AccessInv'
    BY <1>5 DEF AccessInv
  <2>1. after[Creator] = <<>>
    BY <1>1 DEF EffectsIInv, AccessInv, Deleting
  <2>2. CASE live
    <3>1. policies = Acts /\ ~cascade
      BY <2>1, <2>2, AddLists DEF EffectsIInv, AccessInv, Granting
    <3>2. Forgetting(p)'
      BY <1>5, <1>7, <2>2, <3>1 DEF Forgetting
    <3>3. \A q \in Procs \ {p} : after'[q] \in Tellings
      BY <1>7, <2>2 DEF EffectsIInv, AccessInv
    <3> QED
      BY <1>2, <1>7, <2>1, <3>2, <3>3 DEF AccessInv
  <2>3. CASE ~live
    <3>1. after' = after
      BY <1>5, <1>6, <2>3 DEF EffectsIInv, EffectsTyped
    <3> QED
      BY <1>2, <1>5, <2>1, <2>3, <3>1 DEF EffectsIInv, AccessInv, Forgetting
  <2> QED
    BY <2>2, <2>3
<1>10. BrowserInv'
  BY <1>2 DEF BrowserInv
<1> QED
  BY <1>8, <1>9, <1>10 DEF EffectsIInv

\* A handler dies between two effects: they are lost.
LEMMA EffectsDieStep ==
    ASSUME IInv, EffectsIInv, NEW p \in Procs \union {Creator}, EffectsDie(p)
    PROVE  IInv' /\ EffectsIInv'
<1>1. hs \in [Procs -> HandlerType]
  BY DEF IInv, TypeOK
<1>2. /\ after[p] # <<>> /\ Lose(p) /\ after' = [after EXCEPT ![p] = <<>>]
      /\ UNCHANGED <<row, live, files, multis, hls, job, fresh, stale, torn>>
      /\ UNCHANGED <<policies, cascade, browserVars, revived>>
      /\ IF p = Creator THEN UNCHANGED hs ELSE Stop(p, Refused(p))
  BY DEF EffectsDie, storageVars, historyVars
<1>3. IInv'
  <2>1. CASE p = Creator
    BY <1>2, <2>1 DEF IInv, TypeOK, ReprocessHasWork, WatchableHasHLS, ReadyIsReported
  <2>2. CASE p # Creator
    <3>1. Refused(p) \in {"idle", "error"} /\ p \in Procs
      BY <2>2 DEF Refused
    <3>2. PICK h : Sound(h) /\ hs' = [hs EXCEPT ![p] = h]
      BY <1>2, <2>2, <3>1, Goes
    <3>3. files' \subseteq Keys /\ multis' \subseteq Keys /\ HistoryType'
      BY <1>2 DEF IInv, TypeOK, HistoryType
    <3> QED
      BY <1>2, <3>1, <3>2, <3>3, HandlerOnly
  <2> QED
    BY <2>1, <2>2
<1>4. EffectsTyped'
  <2>1. after' \in [Procs \union {Creator} -> Grants \union Forgets \union Tellings]
    BY <1>2 DEF EffectsIInv, EffectsTyped, Tellings
  <2>2. /\ after'[p] = <<>> /\ p \in Procs \union {Creator}
        /\ \A q \in Procs \union {Creator} : q # p => after'[q] = after[q]
    BY <1>2 DEF EffectsIInv, EffectsTyped
  <2>3. after'[Creator] \in Grants /\ \A q \in Procs : after'[q] \in Forgets \union Tellings
    BY <2>2 DEF EffectsIInv, EffectsTyped, Grants, Tellings
  <2>4. \A q \in Procs : Apart(hs'[q]) /\ (after'[q] # <<>> => hs'[q].pc = "idle")
    <3>1. CASE p = Creator
      BY <1>2, <2>2, <3>1 DEF EffectsIInv, EffectsTyped
    <3>2. CASE p # Creator
      <4>1. Refused(p) \in {"idle", "error"} /\ p \in Procs
        BY <3>2 DEF Refused
      <4>2. PICK h : hs' = [hs EXCEPT ![p] = h] /\ Apart(h)
        BY <1>2, <3>2, <4>1, Returns
      <4>3. hs'[p] = h /\ \A q \in Procs \ {p} : hs'[q] = hs[q]
        BY <1>1, <4>1, <4>2
      <4> QED
        BY <2>2, <4>2, <4>3 DEF EffectsIInv, EffectsTyped
    <3> QED
      BY <3>1, <3>2
  <2>5. lost' \in BOOLEAN /\ unheard' \in BOOLEAN
    BY <1>2 DEF Lose, EffectsIInv, EffectsTyped
  <2> QED
    BY <1>2, <2>1, <2>3, <2>4, <2>5 DEF EffectsIInv, EffectsTyped, browserVars
<1>5. /\ after[p] \in Grants \union Forgets \union Tellings /\ after'[p] = <<>>
      /\ \A q \in Procs \union {Creator} : q # p => after'[q] = after[q]
      /\ after[Creator] \in Grants
      /\ Creator \in Procs \union {Creator}
  BY <1>2 DEF EffectsIInv, EffectsTyped
<1>6. /\ \A q \in Procs : ~Deleting(hs'[q]) \/ hs'[q] = hs[q]
      /\ \A q \in Procs : Untold(hs[q]) => Untold(hs'[q])
  <2>1. CASE p = Creator
    BY <1>2, <2>1
  <2>2. CASE p # Creator
    <3>1. Refused(p) \in {"idle", "error"} /\ p \in Procs
      BY <2>2 DEF Refused
    <3>2. PICK h : hs' = [hs EXCEPT ![p] = h] /\ ~Deleting(h)
      BY <1>2, <2>2, <3>1, Returns
    <3>3. hs'[p] = h /\ \A q \in Procs \ {p} : hs'[q] = hs[q]
      BY <1>1, <3>1, <3>2
    <3>4. ~Untold(hs[p])
      BY <1>2, <3>1 DEF EffectsIInv, EffectsTyped, Apart, Untold
    <3> QED
      BY <3>2, <3>3, <3>4
  <2> QED
    BY <2>1, <2>2
<1>7. AccessInv'
  <2> SUFFICES ASSUME ~lost', ~revived PROVE AccessInv'
    BY <1>2 DEF AccessInv
  <2>1. ~lost /\ Head(after[p]).do = "notify" /\ after[p] = Notified
    BY <1>2, <1>5, DueLists DEF Lose, EffectsIInv, EffectsTyped
  <2>8. after[p] \notin Grants
    BY <1>2, <1>5, <2>1, DueLists
  <2>2. p # Creator /\ after'[Creator] = after[Creator]
    <3>1. p # Creator
      BY <1>5, <2>8
    <3> QED
      BY <1>5, <3>1
  <2>3. \A q \in Procs : after[q] \in Tellings => after'[q] \in Tellings
    BY <1>5 DEF Tellings
  <2>4. \A q \in Procs : Forgetting(q) => q # p
    BY <2>1, ForgetLists, EffectFields DEF Forgetting
  <2>5. \A q \in Procs : Forgetting(q) => Forgetting(q)'
    BY <1>2, <1>5, <2>4 DEF Forgetting
  <2>6. Granting => Granting'
    BY <1>2, <2>2 DEF Granting
  <2>7. \A q \in Procs : Deleting(hs'[q]) => after[Creator] = <<>>
    BY <1>2, <1>6, <2>1 DEF EffectsIInv, AccessInv
  <2> QED
    BY <1>2, <2>1, <2>2, <2>3, <2>5, <2>6, <2>7 DEF EffectsIInv, AccessInv
<1>8. BrowserInv'
  <2> SUFFICES ASSUME ~unheard' PROVE BrowserInv'
    BY DEF BrowserInv
  <2>1. ~unheard /\ after[p] # Notified
    BY <1>2, <1>5, DueLists DEF Lose
  <2>2. \A q \in Procs : after[q] = Notified => after'[q] = Notified
    BY <1>5, <2>1
  <2> QED
    BY <1>2, <1>6, <2>1, <2>2 DEF EffectsIInv, BrowserInv, browserVars
<1> QED
  BY <1>3, <1>4, <1>7, <1>8 DEF EffectsIInv

\* An effect is done, or fails: its list loses its head.
LEMMA DueTyped ==
    ASSUME IInv, EffectsIInv, NEW p \in Procs \union {Creator}, NEW do, Due(p, do),
           policies' \subseteq Acts, cascade' \in BOOLEAN, notice' \in BOOLEAN,
           lost' \in BOOLEAN, unheard' \in BOOLEAN, UNCHANGED <<shown, revived>>
    PROVE  /\ EffectsTyped'
           /\ after[p] # <<>> /\ Head(after[p]).do = do /\ after'[p] = Tail(after[p])
           /\ \A q \in Procs \union {Creator} : q # p => after'[q] = after[q]
           /\ UNCHANGED <<row, live, hs>>
           /\ after[p] \in Grants \union Forgets \union Tellings
           /\ Creator \notin Procs /\ after[Creator] \in Grants
<1>1. /\ after[p] # <<>> /\ Head(after[p]).do = do /\ after' = [after EXCEPT ![p] = Tail(@)]
      /\ UNCHANGED <<row, live, hs>>
      /\ after[p] \in Grants \union Forgets \union Tellings
      /\ Creator \notin Procs /\ after[Creator] \in Grants
  BY CreatorIsNoHandler DEF Due, vars, EffectsIInv, EffectsTyped
<1>2. /\ after'[p] = Tail(after[p])
      /\ \A q \in Procs \union {Creator} : q # p => after'[q] = after[q]
  BY <1>1 DEF EffectsIInv, EffectsTyped
<1>3. /\ Tail(after[p]) \in Grants \union Forgets \union Tellings
      /\ p = Creator => Tail(after[p]) \in Grants
      /\ p \in Procs => Tail(after[p]) \in Forgets \union Tellings
  <2>1. /\ after[p] \in Grants => Tail(after[p]) \in Grants
        /\ after[p] \in Forgets => Tail(after[p]) \in Forgets \union Tellings
        /\ after[p] \in Tellings => Tail(after[p]) = <<>>
    BY <1>1, DueLists
  <2>2. <<>> \in Tellings
    BY DEF Tellings
  <2> QED
    BY <1>1, <2>1, <2>2 DEF EffectsIInv, EffectsTyped
<1>4. after' \in [Procs \union {Creator} -> Grants \union Forgets \union Tellings]
  BY <1>1, <1>3 DEF EffectsIInv, EffectsTyped
<1>5. EffectsTyped'
  BY <1>1, <1>2, <1>3, <1>4 DEF EffectsIInv, EffectsTyped
<1> QED
  BY <1>1, <1>2, <1>5

\* The next policy of the creation is added.
LEMMA AddStep ==
    ASSUME IInv, EffectsIInv, NEW p \in Procs \union {Creator}, AddPolicy(p) PROVE EffectsIInv'
<1> DEFINE act == Head(after[p]).act
<1>1. /\ Due(p, "add") /\ policies' = policies \union {act}
      /\ UNCHANGED <<cascade, notice, shown, lost, unheard, revived>>
  BY DEF AddPolicy, browserVars
<1>2. /\ after[p] # <<>> /\ Head(after[p]).do = "add"
      /\ after[p] \in Grants \union Forgets \union Tellings
  BY <1>1 DEF Due, EffectsIInv, EffectsTyped
<1>3. after[p] \in {CreateEffects, Add2, Add3}
  BY <1>2, DueLists DEF Grants
<1>4. act \in Acts
  BY <1>3, AddLists, EffectFields DEF Acts
<1>5. /\ EffectsTyped' /\ after'[p] = Tail(after[p])
      /\ \A q \in Procs \union {Creator} : q # p => after'[q] = after[q]
      /\ UNCHANGED <<row, live, hs>> /\ Creator \notin Procs
  <2>1. /\ policies' \subseteq Acts /\ cascade' \in BOOLEAN /\ notice' \in BOOLEAN
        /\ lost' \in BOOLEAN /\ unheard' \in BOOLEAN /\ UNCHANGED <<shown, revived>>
    BY <1>1, <1>4 DEF EffectsIInv, EffectsTyped
  <2> QED
    BY <1>1, <2>1, DueTyped
<1>6. p = Creator
  <2>1. after[p] \notin Forgets \union Tellings
    BY <1>2, <1>3, DueLists, ForgetLists, EffectFields DEF Forgets, Tellings
  <2> QED
    BY <2>1 DEF EffectsIInv, EffectsTyped
<1>7. \A q \in Procs : after'[q] = after[q]
  BY <1>5, <1>6
<1>8. AccessInv'
  <2> SUFFICES ASSUME ~lost, ~revived PROVE AccessInv'
    BY <1>1 DEF AccessInv
  <2>1. live /\ Granting /\ ~cascade /\ \A q \in Procs : after[q] \in Tellings
    BY <1>2, <1>6 DEF EffectsIInv, AccessInv, IInv, TypeOK
  <2>2. after[Creator] # <<>>
    BY <1>2, <1>6
  <2>3. Granting'
    <3>1. CASE after[Creator] = CreateEffects /\ policies = {}
      BY <1>1, <1>5, <1>6, <3>1, AddLists, EffectFields DEF Granting
    <3>2. CASE after[Creator] = Add2 /\ policies = {"write"}
      BY <1>1, <1>5, <1>6, <3>2, AddLists, EffectFields DEF Granting
    <3>3. CASE after[Creator] = Add3 /\ policies = {"write", "read"}
      BY <1>1, <1>5, <1>6, <3>3, AddLists, EffectFields DEF Granting, Acts
    <3> QED
      BY <2>1, <2>2, <3>1, <3>2, <3>3 DEF Granting
  <2>4. \A q \in Procs : ~Deleting(hs[q])
    BY <2>2 DEF EffectsIInv, AccessInv
  <2> QED
    BY <1>1, <1>5, <1>7, <2>1, <2>3, <2>4 DEF AccessInv
<1>9. BrowserInv'
  BY <1>1, <1>5, <1>7 DEF EffectsIInv, BrowserInv
<1> QED
  BY <1>5, <1>8, <1>9 DEF EffectsIInv

\* The next step of forgetting a stream.
LEMMA ForgetStep ==
    ASSUME IInv, EffectsIInv, NEW p \in Procs \union {Creator}, RemovePolicy(p) \/ CascadeFaces(p)
    PROVE  EffectsIInv'
<1>1. /\ UNCHANGED <<notice, shown, lost, unheard, revived>>
      /\ \/ /\ Due(p, "remove") /\ policies' = policies \ {Head(after[p]).act}
            /\ cascade' = cascade
         \/ Due(p, "cascade") /\ policies' = policies /\ cascade' = TRUE
  BY DEF RemovePolicy, CascadeFaces, browserVars
<1>2. PICK do \in {"remove", "cascade"} : Due(p, do)
  BY <1>1
<1>3. /\ EffectsTyped' /\ after'[p] = Tail(after[p])
      /\ \A q \in Procs \union {Creator} : q # p => after'[q] = after[q]
      /\ UNCHANGED <<row, live, hs>> /\ Creator \notin Procs
      /\ after[p] # <<>> /\ Head(after[p]).do = do
      /\ after[p] \in Grants \union Forgets \union Tellings /\ after[Creator] \in Grants
  <2>1. /\ policies' \subseteq Acts /\ cascade' \in BOOLEAN /\ notice' \in BOOLEAN
        /\ lost' \in BOOLEAN /\ unheard' \in BOOLEAN /\ UNCHANGED <<shown, revived>>
    BY <1>1 DEF EffectsIInv, EffectsTyped
  <2> QED
    BY <1>2, <2>1, DueTyped
<1>4. after[p] \in Forgets /\ after[p] \notin Grants \union Tellings
  BY <1>3, DueLists, ForgetLists, EffectFields DEF Forgets, Tellings
<1>5. p \in Procs /\ p # Creator
  BY <1>3, <1>4
<1>6. AccessInv'
  <2> SUFFICES ASSUME ~lost, ~revived PROVE AccessInv'
    BY <1>1 DEF AccessInv
  <2>1. ~live /\ after[Creator] = <<>>
    BY <1>4, <1>5 DEF EffectsIInv, AccessInv, IInv, TypeOK
  <2>2. Forgetting(p) /\ \A q \in Procs \ {p} : after[q] \in Tellings
    <3>1. PICK r \in Procs : Forgetting(r) /\ \A q \in Procs \ {r} : after[q] \in Tellings
      BY <1>4, <1>5, <2>1 DEF EffectsIInv, AccessInv
    <3>2. r = p
      BY <1>4, <1>5, <3>1
    <3> QED
      BY <3>1, <3>2
  <2>3. \A q \in Procs \ {p} : after'[q] \in Tellings
    BY <1>3, <2>2
  <2>4. \/ Forgetting(p)'
        \/ policies' = {} /\ cascade' /\ after'[p] \in Tellings
    <3>1. after'[p] = Tail(after[p])
      BY <1>3
    <3>2. CASE after[p] = DeleteEffects /\ policies = Acts /\ ~cascade
      <4>1. Head(after[p]).do = "cascade" /\ Tail(after[p]) = Forget2
        BY <3>2, ForgetLists, EffectFields
      <4>2. policies' = policies /\ cascade'
        BY <1>1, <4>1 DEF Due
      <4> QED
        BY <3>1, <3>2, <4>1, <4>2 DEF Forgetting
    <3>3. ASSUME after[p] \in {Forget2, Forget3, Forget4}
          PROVE  policies' = policies \ {Head(after[p]).act} /\ cascade' = cascade
      <4>1. Head(after[p]).do = "remove"
        BY <3>3, ForgetLists, EffectFields
      <4> QED
        BY <1>1, <4>1 DEF Due
    <3>4. CASE after[p] = Forget2 /\ policies = Acts /\ cascade
      <4>1. Head(after[p]).act = "read" /\ Tail(after[p]) = Forget3
        BY <3>4, ForgetLists, EffectFields
      <4>2. policies' = {"write", "delete"} /\ cascade'
        BY <3>3, <3>4, <4>1 DEF Acts
      <4> QED
        BY <3>1, <4>1, <4>2 DEF Forgetting
    <3>5. CASE after[p] = Forget3 /\ policies = {"write", "delete"} /\ cascade
      <4>1. Head(after[p]).act = "write" /\ Tail(after[p]) = Forget4
        BY <3>5, ForgetLists, EffectFields
      <4>2. policies' = {"delete"} /\ cascade'
        BY <3>3, <3>5, <4>1
      <4> QED
        BY <3>1, <4>1, <4>2 DEF Forgetting
    <3>6. CASE after[p] = Forget4 /\ policies = {"delete"} /\ cascade
      <4>1. Head(after[p]).act = "delete" /\ Tail(after[p]) = <<>>
        BY <3>6, ForgetLists, EffectFields
      <4>2. policies' = {} /\ cascade'
        BY <3>3, <3>6, <4>1
      <4> QED
        BY <3>1, <4>1, <4>2 DEF Tellings
    <3> QED
      BY <2>2, <3>2, <3>4, <3>5, <3>6 DEF Forgetting
  <2>5. after'[Creator] = <<>> /\ ~live'
    BY <1>3, <1>5, <2>1
  <2> QED
    BY <1>5, <2>3, <2>4, <2>5 DEF AccessInv
<1>7. BrowserInv'
  <2>1. after[p] # Notified
    BY <1>4 DEF Tellings
  <2>2. \A q \in Procs : after[q] = Notified => after'[q] = Notified
    BY <1>3, <2>1
  <2> QED
    BY <1>1, <1>3, <2>2 DEF EffectsIInv, BrowserInv
<1> QED
  BY <1>3, <1>6, <1>7 DEF EffectsIInv

\* The notice reaches the browser.
LEMMA NotifyStep ==
    ASSUME IInv, EffectsIInv, NEW p \in Procs \union {Creator}, Notify(p)
    PROVE  EffectsIInv'
<1>1. /\ Due(p, "notify") /\ notice' = TRUE
      /\ UNCHANGED <<policies, cascade, shown, lost, unheard, revived>>
  BY DEF Notify
<1>2. /\ EffectsTyped' /\ after'[p] = Tail(after[p])
      /\ \A q \in Procs \union {Creator} : q # p => after'[q] = after[q]
      /\ UNCHANGED <<row, live, hs>> /\ Creator \notin Procs
      /\ after[p] # <<>> /\ Head(after[p]).do = "notify"
      /\ after[p] \in Grants \union Forgets \union Tellings /\ after[Creator] \in Grants
  <2>1. /\ policies' \subseteq Acts /\ cascade' \in BOOLEAN /\ notice' \in BOOLEAN
        /\ lost' \in BOOLEAN /\ unheard' \in BOOLEAN /\ UNCHANGED <<shown, revived>>
    BY <1>1 DEF EffectsIInv, EffectsTyped
  <2> QED
    BY <1>1, <2>1, DueTyped
<1>3. after[p] = Notified /\ after[p] \notin Grants \union Forgets
  BY <1>2, DueLists, ForgetLists, EffectFields DEF Forgets
<1>4. p \in Procs /\ after'[p] = <<>> /\ after'[Creator] = after[Creator]
  BY <1>2, <1>3, ForgetLists
<1>5. AccessInv'
  <2> SUFFICES ASSUME ~lost, ~revived PROVE AccessInv'
    BY <1>1 DEF AccessInv
  <2>1. \A q \in Procs : after[q] \in Tellings => after'[q] \in Tellings
    BY <1>2, <1>4 DEF Tellings
  <2>2. \A q \in Procs : Forgetting(q) => q # p
    BY <1>3 DEF Forgetting, Forgets
  <2>3. \A q \in Procs : Forgetting(q) => Forgetting(q)'
    BY <1>1, <1>2, <2>2 DEF Forgetting
  <2>4. Granting => Granting'
    BY <1>1, <1>4 DEF Granting
  <2> QED
    BY <1>1, <1>2, <1>4, <2>1, <2>3, <2>4 DEF EffectsIInv, AccessInv
<1>6. BrowserInv'
  BY <1>1, <1>4 DEF BrowserInv
<1> QED
  BY <1>2, <1>5, <1>6 DEF EffectsIInv

\* An effect fails: a notice is not heard, any other is lost.
LEMMA EffectFailsStep ==
    ASSUME IInv, EffectsIInv, NEW p \in Procs \union {Creator}, EffectFails(p) PROVE EffectsIInv'
<1>1. PICK do \in {"add", "remove", "cascade", "notify"} : Due(p, do)
  BY DEF EffectFails
<1>2. Lose(p) /\ UNCHANGED <<policies, cascade, notice, shown, revived>>
  BY DEF EffectFails, browserVars
<1>3. /\ EffectsTyped' /\ after'[p] = Tail(after[p])
      /\ \A q \in Procs \union {Creator} : q # p => after'[q] = after[q]
      /\ UNCHANGED <<row, live, hs>> /\ Creator \notin Procs
      /\ after[p] # <<>> /\ Head(after[p]).do = do
      /\ after[p] \in Grants \union Forgets \union Tellings /\ after[Creator] \in Grants
  <2>1. /\ policies' \subseteq Acts /\ cascade' \in BOOLEAN /\ notice' \in BOOLEAN
        /\ lost' \in BOOLEAN /\ unheard' \in BOOLEAN /\ UNCHANGED <<shown, revived>>
    BY <1>2 DEF Lose, EffectsIInv, EffectsTyped
  <2> QED
    BY <1>1, <2>1, DueTyped
<1>4. CASE do = "notify"
  <2>1. lost' = lost /\ unheard'
    BY <1>2, <1>3, <1>4 DEF Lose
  <2>2. after[p] = Notified /\ after[p] \notin Grants \union Forgets
    BY <1>3, <1>4, DueLists, ForgetLists, EffectFields DEF Forgets
  <2>3. p \in Procs /\ after'[p] = <<>> /\ after'[Creator] = after[Creator]
    BY <1>3, <2>2, ForgetLists
  <2>4. AccessInv'
    <3> SUFFICES ASSUME ~lost, ~revived PROVE AccessInv'
      BY <1>2, <2>1 DEF AccessInv
    <3>1. \A q \in Procs : after[q] \in Tellings => after'[q] \in Tellings
      BY <1>3, <2>3 DEF Tellings
    <3>2. \A q \in Procs : Forgetting(q) => q # p
      BY <2>2 DEF Forgetting, Forgets
    <3>3. \A q \in Procs : Forgetting(q) => Forgetting(q)'
      BY <1>2, <1>3, <3>2 DEF Forgetting
    <3>4. Granting => Granting'
      BY <1>2, <2>3 DEF Granting
    <3> QED
      BY <1>2, <1>3, <2>3, <3>1, <3>3, <3>4 DEF EffectsIInv, AccessInv
  <2> QED
    BY <1>3, <2>1, <2>4 DEF EffectsIInv, BrowserInv
<1>5. CASE do # "notify"
  <2>1. lost' /\ unheard' = unheard
    BY <1>2, <1>3, <1>5 DEF Lose
  <2>2. after[p] # Notified
    BY <1>3, <1>5, DueLists
  <2>3. \A q \in Procs : after[q] = Notified => after'[q] = Notified
    BY <1>3, <2>2
  <2>4. BrowserInv'
    BY <1>2, <1>3, <2>1, <2>3 DEF EffectsIInv, BrowserInv
  <2> QED
    BY <1>3, <2>1, <2>4 DEF EffectsIInv, AccessInv
<1> QED
  BY <1>4, <1>5

\* The browser shows what it fetched.
LEMMA BrowserStep == ASSUME IInv, EffectsIInv, BrowserFetches PROVE EffectsIInv'
<1>1. /\ shown' = IF live THEN row.status ELSE "deleted"
      /\ notice' = FALSE
      /\ UNCHANGED <<row, live, hs, after, policies, cascade, lost, unheard, revived>>
  BY DEF BrowserFetches, vars
<1>2. shown' \in Statuses \union {"deleted"}
  BY <1>1 DEF IInv, TypeOK, RowType
<1>3. EffectsTyped'
  BY <1>1, <1>2 DEF EffectsIInv, EffectsTyped
<1>4. AccessInv'
  BY <1>1 DEF EffectsIInv, AccessInv, Granting, Forgetting
<1>5. BrowserInv'
  BY <1>1 DEF BrowserInv
<1> QED
  BY <1>3, <1>4, <1>5 DEF EffectsIInv

-----------------------------------------------------------------------------
(* The theorems.                                                           *)

LEMMA EffectsStart == EffectsInit => IInv /\ EffectsIInv
<1> SUFFICES ASSUME EffectsInit PROVE IInv /\ EffectsIInv
  OBVIOUS
<1>1. Init /\ IInv
  BY InitInv DEF EffectsInit
<1>2. /\ after = [p \in Procs \union {Creator} |-> IF p = Creator THEN CreateEffects ELSE <<>>]
      /\ policies = {} /\ cascade = FALSE /\ notice = FALSE /\ shown = row.status
      /\ lost = FALSE /\ unheard = FALSE /\ revived = FALSE
  BY DEF EffectsInit
<1>3. after[Creator] = CreateEffects /\ \A p \in Procs : after[p] = <<>>
  BY <1>2, CreatorIsNoHandler
<1>4. \A p \in Procs : hs[p].pc = "idle" /\ hs[p].op = "none"
  BY <1>1 DEF Init, Idle
<1>5. row.status \in Statuses /\ live
  BY <1>1 DEF IInv, TypeOK, RowType, Init
<1>6. EffectsTyped
  BY <1>2, <1>3, <1>4, <1>5 DEF EffectsTyped, Grants, Forgets, Tellings, Apart
<1>7. AccessInv
  BY <1>2, <1>3, <1>4, <1>5 DEF AccessInv, Granting, Tellings, Deleting
<1>8. BrowserInv
  BY <1>2 DEF BrowserInv
<1> QED
  BY <1>1, <1>6, <1>7, <1>8 DEF EffectsIInv

\* A step of the row, its handlers and tasks is one of StreamLifecycle, but for
\* the death of a handler among its effects.
LEMMA EffectsKeepRow == ASSUME IInv, EffectsIInv, [EffectsNext]_allVars PROVE IInv'
<1>1. CASE \E p \in Owners : OwnerRequest(p)
  <2>1. \E p \in Owners : OwnerBegin(p)
    BY <1>1 DEF OwnerRequest, OwnerBegin
  <2> QED
    BY <2>1, StepInv DEF CrashNext, Next
<1>2. CASE \E p \in Procs : HandlerRuns(p) \/ HandlerDies(p)
  <2>1. \E p \in Procs : HandlerStep(p) \/ Abort(p)
    BY <1>2 DEF HandlerRuns, HandlerDies, WriteThenTell, DropThenTell, DeleteThenForget,
                FailUntold, HandlerGoesOn, HandlerStep
  <2> QED
    BY <2>1, StepInv DEF CrashNext, Next
<1>3. CASE \E j \in JobIds : WorkerRuns(j)
  BY <1>3, StepInv DEF WorkerRuns, CrashNext, Next
<1>4. CASE \E p \in Procs \union {Creator} : EffectsDie(p)
  BY <1>4, EffectsDieStep
<1>5. CASE UNCHANGED vars
  BY <1>5, StepInv
<1>6. ASSUME NEW p \in Procs \union {Creator}, EffectStep(p), ~EffectsDie(p) PROVE UNCHANGED vars
  BY <1>6 DEF EffectStep, AddPolicy, RemovePolicy, CascadeFaces, Notify, EffectFails, Due
<1>7. BrowserFetches \/ UNCHANGED allVars => UNCHANGED vars
  BY DEF BrowserFetches, allVars
<1> QED
  BY <1>1, <1>2, <1>3, <1>4, <1>5, <1>6, <1>7 DEF EffectsNext

LEMMA EffectsKeepAll == ASSUME IInv, EffectsIInv, [EffectsNext]_allVars PROVE EffectsIInv'
<1>1. CASE \E p \in Owners : OwnerRequest(p)
  BY <1>1, RequestStep
<1>2. CASE \E p \in Procs : HandlerRuns(p) \/ HandlerDies(p)
  BY <1>2, WriteStep, DropStep, DeleteStep, FailStep, GoesOnStep DEF HandlerRuns
<1>3. CASE \E j \in JobIds : WorkerRuns(j)
  BY <1>3, WorkerRunsStep
<1>4. CASE \E p \in Procs \union {Creator} : EffectStep(p)
  BY <1>4, AddStep, ForgetStep, NotifyStep, EffectFailsStep, EffectsDieStep DEF EffectStep
<1>5. CASE BrowserFetches
  BY <1>5, BrowserStep
<1>6. CASE UNCHANGED allVars
  BY <1>6 DEF allVars, vars, effectVars, browserVars, EffectsIInv, EffectsTyped, AccessInv, BrowserInv,
              Granting, Forgetting
<1> QED
  BY <1>1, <1>2, <1>3, <1>4, <1>5, <1>6 DEF EffectsNext

\* The effects after the writes disturb neither the row nor each other: the
\* policies are added by the creation alone and removed by one deletion alone
\* (AddPolicy, RemovePolicy), and a status the browser does not show is one a
\* handler has still to announce.
THEOREM EffectsInvariant == EffectsSpec => [](IInv /\ EffectsIInv)
<1>1. (IInv /\ EffectsIInv) /\ [EffectsNext]_allVars => (IInv /\ EffectsIInv)'
  BY EffectsKeepRow, EffectsKeepAll
<1> QED
  BY <1>1, EffectsStart, PTL DEF EffectsSpec

\* What a handler has still to do is one of the code's effects, and nobody
\* does any before the handler's last write.
THEOREM EffectsTypeCorrect == EffectsSpec => []EffectsTypeOK
<1>1. IInv /\ EffectsIInv => EffectsTypeOK
  <2> SUFFICES ASSUME IInv, EffectsIInv PROVE EffectsTypeOK
    OBVIOUS
  <2>1. \A list \in Grants \union Forgets \union Tellings :
            /\ Len(list) <= Len(DeleteEffects)
            /\ \A i \in DOMAIN list : list[i] \in EffectType
    <3>1. ASSUME NEW do \in {"add", "remove", "cascade", "notify"},
                 NEW act \in Acts \union {"none"}
          PROVE  Effect(do, act) \in EffectType
      BY DEF Effect, EffectType
    <3>2. {"read", "write", "delete"} = Acts
      BY DEF Acts
    <3> HIDE DEF Acts
    <3>3. /\ \A do \in {"add", "remove"} : \A act \in {"read", "write", "delete"} :
                Effect(do, act) \in EffectType
          /\ Effect("cascade", "none") \in EffectType /\ Effect("notify", "none") \in EffectType
      BY <3>1, <3>2
    <3> HIDE DEF EffectType
    <3>4. ASSUME NEW list \in Grants \union Forgets \union Tellings
          PROVE  Len(list) <= 4 /\ \A i \in DOMAIN list : list[i] \in EffectType
      <4> DEFINE aw == Effect("add", "write")
                 ar == Effect("add", "read")
                 ad == Effect("add", "delete")
                 c  == Effect("cascade", "none")
                 rr == Effect("remove", "read")
                 rw == Effect("remove", "write")
                 rd == Effect("remove", "delete")
                 n  == Effect("notify", "none")
      <4>1. /\ {aw, ar, ad, c} \subseteq EffectType /\ {rr, rw, rd, n} \subseteq EffectType
        BY <3>3
      <4>2. /\ CreateEffects = <<aw, ar, ad>>
            /\ Add2 = <<ar, ad>>
            /\ Add3 = <<ad>>
            /\ DeleteEffects = <<c, rr, rw, rd>>
            /\ Forget2 = <<rr, rw, rd>>
            /\ Forget3 = <<rw, rd>>
            /\ Forget4 = <<rd>>
            /\ Notified = <<n>>
        BY DEF CreateEffects, Add2, Add3, DeleteEffects, Forget2, Forget3, Forget4, Notified
      <4> HIDE DEF aw, ar, ad, c, rr, rw, rd, n
      <4>3. CASE list = CreateEffects
        BY <4>1, <4>2, <4>3
      <4>4. CASE list = Add2
        BY <4>1, <4>2, <4>4
      <4>5. CASE list = Add3
        BY <4>1, <4>2, <4>5
      <4>6. CASE list = DeleteEffects
        BY <4>1, <4>2, <4>6
      <4>7. CASE list = Forget2
        BY <4>1, <4>2, <4>7
      <4>8. CASE list = Forget3
        BY <4>1, <4>2, <4>8
      <4>9. CASE list = Forget4
        BY <4>1, <4>2, <4>9
      <4>10. CASE list = Notified
        BY <4>1, <4>2, <4>10
      <4>11. CASE list = <<>>
        BY <4>1, <4>2, <4>11
      <4> QED
        BY <4>3, <4>4, <4>5, <4>6, <4>7, <4>8, <4>9, <4>10, <4>11 DEF Grants, Forgets, Tellings
    <3>5. Len(DeleteEffects) = 4
      BY DEF DeleteEffects
    <3> QED
      BY <3>4, <3>5
  <2>2. DOMAIN after = Procs \union {Creator}
    BY DEF EffectsIInv, EffectsTyped
  <2>3. \A p \in DOMAIN after : after[p] \in Grants \union Forgets \union Tellings
    BY DEF EffectsIInv, EffectsTyped
  <2> QED
    BY <2>1, <2>2, <2>3 DEF EffectsIInv, EffectsTyped, EffectsTypeOK
<1> QED
  BY <1>1, EffectsInvariant, PTL

\* The row and its handlers keep their types whatever effects are lost,
\* a handler that dies among its effects included.
THEOREM EffectsKeepTypes == EffectsSpec => []TypeOK
<1>1. IInv => TypeOK
  BY DEF IInv
<1> QED
  BY <1>1, EffectsInvariant, PTL

\* With policies, notices and the cascade around it, the stream is shown no
\* earlier.
THEOREM EffectsWatchables == EffectsSpec => []WatchableHasHLS
<1>1. IInv => WatchableHasHLS
  BY DEF IInv
<1> QED
  BY <1>1, EffectsInvariant, PTL

\* DeleteStream removes the policies only after CreateStream has added them
\* all, since it is let in by the last one added: no policy outlives the row,
\* and a row that is there keeps all of its own.
THEOREM AccessFollows == EffectsSpec => []AccessFollowsRow
<1>1. IInv /\ EffectsIInv => AccessFollowsRow
  <2> SUFFICES ASSUME IInv, EffectsIInv, Settled, ~lost, ~revived
               PROVE  /\ policies = IF live THEN Acts ELSE {}
                      /\ cascade = ~live
    BY DEF AccessFollowsRow
  <2>1. after[Creator] = <<>> /\ \A p \in Procs : after[p] = <<>>
    BY DEF Settled, EffectsIInv, EffectsTyped
  <2>2. live \in BOOLEAN /\ cascade \in BOOLEAN
    BY DEF IInv, TypeOK, EffectsIInv, EffectsTyped
  <2>3. CASE live
    BY <2>1, <2>2, <2>3, AddLists DEF EffectsIInv, AccessInv, Granting
  <2>4. CASE ~live
    <3>1. \A p \in Procs : ~Forgetting(p)
      BY <2>1, ForgetLists DEF Forgetting
    <3> QED
      BY <2>2, <2>4, <3>1 DEF EffectsIInv, AccessInv
  <2> QED
    BY <2>2, <2>3, <2>4
<1> QED
  BY <1>1, EffectsInvariant, PTL

\* Every write but StartStreamUpload's is followed by a notice, on every path
\* that does not end in an error: while no notice has died with its handler or
\* gone to a replica without the owner's websocket, the browser ends up with
\* the status of the row.
THEOREM BrowserShows == EffectsSpec => []BrowserCatchesUp
<1>1. IInv /\ EffectsIInv => BrowserCatchesUp
  <2> SUFFICES ASSUME IInv, EffectsIInv, Settled, ~notice, ~unheard, live, row.status # "uploading"
               PROVE  shown = row.status
    BY DEF BrowserCatchesUp
  <2>1. \A p \in Procs : after[p] # Notified
    BY ForgetLists DEF Settled, EffectsIInv, EffectsTyped
  <2>2. ASSUME NEW p \in Procs PROVE ~Untold(hs[p])
    <3>1. hs[p].pc \in {"idle", "error"}
      BY DEF Settled, Busy
    <3> QED
      BY <3>1 DEF Untold, Apart, EffectsIInv, EffectsTyped
  <2> QED
    BY <2>1, <2>2 DEF EffectsIInv, BrowserInv
<1> QED
  BY <1>1, EffectsInvariant, PTL

=============================================================================
