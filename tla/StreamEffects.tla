---------------------------- MODULE StreamEffects ----------------------------
(***************************************************************************)
(* StreamLifecycle with what its handlers do besides writing the row: the  *)
(* identity service's policies for the stream, the notices the hub sends   *)
(* to the owner's browser and the cascade that drops stored faces.  Every  *)
(* handler does these after its write, one call at a time, and only logs   *)
(* the ones that fail; meanwhile other handlers run.                       *)
(*                                                                         *)
(* Each action of StreamLifecycle is taken as it is, with the effects it   *)
(* leaves to be done; a request is let in only if the policies allow it.   *)
(* History variables record the effects that never came: every request may *)
(* be served by another replica, whose hub does not hold the websocket.    *)
(*                                                                         *)
(* Abstracted: the activity events, which are enqueued at the same points  *)
(* as the notices and read by nothing here; what a notice says, as every   *)
(* type makes the browser fetch the stream; the websocket (see WssHub).    *)
(***************************************************************************)
EXTENDS StreamLifecycle

CONSTANT Creator  \* the goroutine serving POST /stream/

ASSUME CreatorIsNoHandler == Creator \notin Procs

VARIABLES
    after,    \* each handler: the effects it has still to do
    policies, \* the owner's policies on the stream, in the identity service
    cascade,  \* was faces-worker asked to drop the stream's faces?
    notice,   \* has the browser a notice it has not yet acted upon?
    shown,    \* the status the browser shows
    lost,     \* history: has a policy or the cascade been left undone?
    unheard,  \* history: has a notice not reached the browser?
    revived   \* history: did a Save bring back a deleted row?

browserVars == <<notice, shown>>
effectVars  == <<after, policies, cascade, browserVars, lost, unheard, revived>>
allVars     == <<vars, effectVars>>

Acts == {"read", "write", "delete"}

Effect(do, act) == [do |-> do, act |-> act]

\* Mutant: the policies are added in the order DeleteStream removes them, but
\* for "delete", which comes first.
CreateEffects_DeleteFirst ==
    <<Effect("add", "delete"), Effect("add", "read"), Effect("add", "write")>>

\* CreateStream, once the row is there.
CreateEffects ==
    <<Effect("add", "write"), Effect("add", "read"), Effect("add", "delete")>>

\* DeleteStream, once the row is gone.
DeleteEffects ==
    <<Effect("cascade", "none"), Effect("remove", "read"),
      Effect("remove", "write"), Effect("remove", "delete")>>

Notified == <<Effect("notify", "none")>>

EffectsInit ==
    /\ Init
    /\ after = [p \in Procs \union {Creator} |->
                    IF p = Creator THEN CreateEffects ELSE <<>>]
    /\ policies = {}
    /\ cascade = FALSE
    /\ notice = FALSE
    /\ shown = row.status
    /\ lost = FALSE /\ unheard = FALSE /\ revived = FALSE

\* Has p written the row, with its notice still to come?
Unannounced(p) == \/ hs[p].pc = "drop" \/ hs[p].op = "finish"
                  \/ hs[p].pc = "enqueue" /\ hs[p].op \in {"upload", "complete"}

-----------------------------------------------------------------------------

\* The middleware asks the identity service for "read" and for the request's
\* own act before the handler reads the row.
Needed(op) == {"read", IF op = "delete" THEN "delete" ELSE "write"}

OwnerRequest(p) ==
    /\ hs[p].pc = "idle" /\ after[p] = <<>>
    /\ \E op \in Ops : Needed(op) \subseteq policies /\ Begin(p, op, "none")
    /\ UNCHANGED <<row, live, storageVars, job, stale, torn, effectVars>>

\* Handler p has taken a step and has these effects to do.
Then(p, effects) ==
    /\ after' = [after EXCEPT ![p] = effects]
    /\ UNCHANGED <<policies, cascade, browserVars>>

\* The last write of every operation but StartStreamUpload is told.
WriteThenTell(p) ==
    /\ SaveWrite(p)
    /\ Then(p, IF hs'[p].pc = "idle" /\ hs[p].op # "start" THEN Notified ELSE <<>>)
    /\ revived' = (revived \/ ~live)
    /\ UNCHANGED <<lost, unheard>>

\* Mutant: UpdateStreamStatus returns after the drop of the source.
DropThenTell_Silent(p) ==
    /\ DropSource(p)
    /\ Then(p, <<>>)
    /\ unheard' = (unheard \/ hs'[p].pc = "error")
    /\ UNCHANGED <<lost, revived>>

\* UpdateStreamStatus tells after the drop, unless it panics there.
DropThenTell(p) ==
    /\ DropSource(p)
    /\ Then(p, IF hs'[p].pc = "idle" THEN Notified ELSE <<>>)
    /\ unheard' = (unheard \/ hs'[p].pc = "error")
    /\ UNCHANGED <<lost, revived>>

\* repo.Delete returns an error when it finds no row.
DeleteThenForget(p) ==
    /\ DeleteRow(p)
    /\ Then(p, IF live THEN DeleteEffects ELSE <<>>)
    /\ UNCHANGED <<lost, unheard, revived>>

\* The second write of an upload fails: the first has not been told.
FailUntold(p) ==
    /\ SaveFails(p) \/ SaveFailsDirty(p)
    /\ Then(p, <<>>)
    /\ unheard' = (unheard \/ Unannounced(p))
    /\ UNCHANGED <<lost, revived>>

HandlerGoesOn(p) ==
    /\ \/ StoreNew(p) \/ StoreComplete(p) \/ StoreRefused(p) \/ SaveCheck(p)
       \/ Enqueue(p) \/ EnqueueFails(p) \/ SourceExists(p)
       \/ DeleteSource(p) \/ DeleteSourceFails(p) \/ DeleteFolder(p)
       \/ TerminateTasks(p) \/ DeleteRowFails(p)
    /\ Then(p, <<>>)
    /\ UNCHANGED <<lost, unheard, revived>>

HandlerRuns(p) ==
    \/ WriteThenTell(p) \/ DropThenTell(p) \/ DeleteThenForget(p)
    \/ FailUntold(p) \/ HandlerGoesOn(p)

\* The handler ends before its write, or between two of its effects.
HandlerDies(p) ==
    /\ Abort(p)
    /\ unheard' = (unheard \/ Unannounced(p))
    /\ UNCHANGED <<after, policies, cascade, browserVars, lost, revived>>

\* Handler p leaves its next effect, or all it still has to do, undone.  Bound:
\* one loss of each kind, as no property speaks of the others after it.
Lose(p) ==
    IF Head(after[p]).do = "notify"
    THEN ~unheard /\ unheard' = TRUE /\ UNCHANGED lost
    ELSE ~lost /\ lost' = TRUE /\ UNCHANGED unheard

EffectsDie(p) ==
    /\ after[p] # <<>>
    /\ after' = [after EXCEPT ![p] = <<>>]
    /\ Lose(p)
    /\ IF p = Creator THEN UNCHANGED hs ELSE Stop(p, Refused(p))
    /\ UNCHANGED <<row, live, storageVars, job, historyVars>>
    /\ UNCHANGED <<policies, cascade, browserVars, revived>>

\* Mutant: the worker reports again before its last report is answered.
WorkerRuns_Unanswered(j) ==
    /\ WorkerStep(j)
    /\ UNCHANGED effectVars

\* A worker goes on once its report is answered.
WorkerRuns(j) ==
    /\ after[j] = <<>>
    /\ WorkerStep(j)
    /\ UNCHANGED effectVars

-----------------------------------------------------------------------------
(* The effects.                                                            *)

Due(p, do) ==
    /\ after[p] # <<>> /\ Head(after[p]).do = do
    /\ after' = [after EXCEPT ![p] = Tail(@)]
    /\ UNCHANGED vars

AddPolicy(p) ==
    /\ Due(p, "add")
    /\ policies' = policies \union {Head(after[p]).act}
    /\ UNCHANGED <<cascade, browserVars, lost, unheard, revived>>

RemovePolicy(p) ==
    /\ Due(p, "remove")
    /\ policies' = policies \ {Head(after[p]).act}
    /\ UNCHANGED <<cascade, browserVars, lost, unheard, revived>>

CascadeFaces(p) ==
    /\ Due(p, "cascade")
    /\ cascade' = TRUE
    /\ UNCHANGED <<policies, browserVars, lost, unheard, revived>>

Notify(p) ==
    /\ Due(p, "notify")
    /\ notice' = TRUE
    /\ UNCHANGED <<policies, cascade, shown, lost, unheard, revived>>

\* The call fails: the handler logs it and goes on with the next.  A notice is
\* as good as failed on a replica that does not hold the owner's websocket: its
\* hub knows only the connections made to itself.
EffectFails(p) ==
    /\ \E do \in {"add", "remove", "cascade", "notify"} : Due(p, do)
    /\ Lose(p)
    /\ UNCHANGED <<policies, cascade, browserVars, revived>>

\* The browser, on a notice, fetches the stream.
BrowserFetches ==
    /\ notice
    /\ notice' = FALSE
    /\ shown' = IF live THEN row.status ELSE "deleted"
    /\ UNCHANGED <<vars, after, policies, cascade, lost, unheard, revived>>

EffectStep(p) ==
    \/ AddPolicy(p) \/ RemovePolicy(p) \/ CascadeFaces(p) \/ Notify(p)
    \/ EffectFails(p) \/ EffectsDie(p)

EffectsNext ==
    \/ \E p \in Owners : OwnerRequest(p)
    \/ \E p \in Procs : HandlerRuns(p) \/ HandlerDies(p)
    \/ \E j \in JobIds : WorkerRuns(j)
    \/ \E p \in Procs \union {Creator} : EffectStep(p)
    \/ BrowserFetches

EffectsSpec == EffectsInit /\ [][EffectsNext]_allVars

-----------------------------------------------------------------------------
(* Properties.                                                             *)

EffectType == [do : {"add", "remove", "cascade", "notify"}, act : Acts \union {"none"}]

\* The effects have the shape the code gives them; a handler that still has
\* some to do has left StreamLifecycle's steps behind it.
EffectsTypeOK ==
    /\ DOMAIN after = Procs \union {Creator}
    /\ \A p \in DOMAIN after : /\ Len(after[p]) <= Len(DeleteEffects)
                               /\ \A i \in DOMAIN after[p] : after[p][i] \in EffectType
    /\ \A p \in Procs : after[p] # <<>> => hs[p].pc = "idle"
    /\ policies \subseteq Acts
    /\ cascade \in BOOLEAN /\ notice \in BOOLEAN
    /\ shown \in Statuses \union {"deleted"}
    /\ lost \in BOOLEAN /\ unheard \in BOOLEAN /\ revived \in BOOLEAN

Settled == Busy = {} /\ \A p \in DOMAIN after : after[p] = <<>>

\* "The hub addresses updates by userID: STREAM_UPDATED on stream changes"
\* (README): when every handler has ended and the browser has answered the
\* notices, it shows the row's status, whoever wrote last and in whatever order
\* the notices came.  Not after StartStreamUpload or DeleteStream, which send
\* none, nor once a notice died with its handler or was sent by another replica.
BrowserCatchesUp ==
    Settled /\ ~notice /\ ~unheard
    /\ live /\ row.status # "uploading"
        => shown = row.status

\* A stream that exists can be read, edited and deleted by its owner, and of
\* one that is gone no policy is left and its faces are to be dropped: the
\* deletion, which removes the policies one by one, never meets the creation
\* that is still adding them.  Not for a row that a late Save brought back.
AccessFollowsRow ==
    Settled /\ ~lost /\ ~revived
        => /\ policies = IF live THEN Acts ELSE {}
           /\ cascade = ~live

=============================================================================
