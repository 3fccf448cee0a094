----------------------------- MODULE HlsServing -----------------------------
(***************************************************************************)
(* Playback of one stream's HLS folder: a GET .../hls/seg_<n>.ts, which    *)
(* reads the row twice and then up to seven objects one after the other,   *)
(* while the owner publishes, hides or deletes the stream, workers report  *)
(* late, and the transcoder writes segments.                               *)
(*                                                                         *)
(* Requests only read, so one stands for any number.  The owner's requests *)
(* are single steps here: their own races are StreamLifecycle's.           *)
(* Abstracted: playlists and other files (no fallback), file name checks,  *)
(* contents (a segment is its number).                                     *)
(***************************************************************************)
EXTENDS Integers, Sequences

CONSTANTS
    Last,           \* the transcoder produces seg_0.ts .. seg_<Last>.ts
    StorageErrors   \* may MinIO answer with something else than NoSuchKey?

ASSUME HlsConstants == Last \in Nat /\ StorageErrors \in BOOLEAN

VARIABLES
    row,       \* the streams row, as far as playback reads it
    stored,    \* the segments in processed/<id>/
    deleting,  \* DeleteStream: "no", emptying the "folder", removing the "row"
    get        \* the request: progress, answer, who asks for which segment,
               \* the loop index i, what it merged, and the segments that
               \* have been stored ever since it first asked for an object

vars == <<row, stored, deleting, get>>

Segments == 0 .. Last
maxRadius == 3

\* The segments the fallback looks for instead of seg_<n>.ts.
Near(n) == {k \in Segments : k # n /\ n - maxRadius <= k /\ k <= n + maxRadius}

Watchable == row.status \in {"ready", "published"}

Init ==
    /\ row = [there |-> TRUE, status |-> "ready", visibility |-> "public"]
    /\ stored \in SUBSET Segments
    /\ deleting = "no"
    /\ get = [pc |-> "new", answer |-> "none", owner |-> FALSE, n |-> 0, i |-> 0,
              merged |-> <<>>, kept |-> {}]

-----------------------------------------------------------------------------
(* The owner, the workers and the folder.                                  *)

PublishStream ==
    /\ row.there /\ row.status = "ready"
    /\ row' = [row EXCEPT !.status = "published"]
    /\ UNCHANGED <<stored, deleting, get>>

UnpublishStream ==
    /\ row.there /\ row.status = "published"
    /\ row' = [row EXCEPT !.status = "ready"]
    /\ UNCHANGED <<stored, deleting, get>>

UpdateStream(visibility) ==
    /\ row.there /\ row.status # "published"
    /\ row' = [row EXCEPT !.visibility = visibility]
    /\ UNCHANGED <<stored, deleting, get>>

\* A worker reports: any transition is accepted.
UpdateStreamStatus(status) ==
    /\ row.there
    /\ row' = [row EXCEPT !.status = status]
    /\ UNCHANGED <<stored, deleting, get>>

TranscoderWrites(k) ==
    /\ stored' = stored \union {k}
    /\ UNCHANGED <<row, deleting, get>>

\* Only a ready stream has its folder emptied.
DeleteBegins ==
    /\ deleting = "no" /\ row.there /\ row.status # "published"
    /\ deleting' = IF row.status = "ready" THEN "folder" ELSE "row"
    /\ UNCHANGED <<row, stored, get>>

DeleteFolder(k) ==
    /\ deleting = "folder" /\ k \in stored
    /\ stored' = stored \ {k}
    /\ get' = [get EXCEPT !.kept = @ \ {k}]
    /\ UNCHANGED <<row, deleting>>

\* A failed removal is logged and DeleteStream goes on.
DeleteFolderEnds ==
    /\ deleting = "folder" /\ (stored = {} \/ StorageErrors)
    /\ deleting' = "row"
    /\ UNCHANGED <<row, stored, get>>

DeleteEnds ==
    /\ deleting = "row"
    /\ row' = [row EXCEPT !.there = FALSE]
    /\ deleting' = "no"
    /\ UNCHANGED <<stored, get>>

-----------------------------------------------------------------------------
(* The request.                                                            *)

Answer(a) == get' = [get EXCEPT !.pc = "answered", !.answer = a]

\* GetHLS reads the row and decides who may watch.
GetHLS(owner, n) ==
    /\ get.pc = "new"
    /\ IF ~row.there
       THEN Answer("not found")
       ELSE IF ~owner /\ (row.status # "published" \/ row.visibility = "private")
       THEN Answer("forbidden")
       ELSE get' = [get EXCEPT !.pc = "allowed", !.owner = owner, !.n = n]
    /\ UNCHANGED <<row, stored, deleting>>

\* GetFileByKey reads it again.
GetFileByKey ==
    /\ get.pc = "allowed"
    /\ IF ~row.there THEN Answer("error")
       ELSE IF ~Watchable THEN Answer("cannot watch")
       ELSE get' = [get EXCEPT !.pc = "found", !.kept = stored]
    /\ UNCHANGED <<row, stored, deleting>>

\* The segment itself; only NoSuchKey starts the fallback.
Download ==
    /\ get.pc = "found"
    /\ \/ /\ get.n \in stored
          /\ get' = [get EXCEPT !.pc = "answered", !.answer = "segment", !.merged = <<get.n>>]
       \/ /\ get.n \notin stored
          /\ get' = [get EXCEPT !.pc = "merging", !.i = get.n - maxRadius]
       \/ StorageErrors /\ Answer("error")
    /\ UNCHANGED <<row, stored, deleting>>

\* Mutant: the walk goes on as long as it finds segments.
Looking_Greedy == get.pc = "merging" /\ get.i <= get.n + maxRadius + Len(get.merged)

Looking == get.pc = "merging" /\ get.i <= get.n + maxRadius

\* Mutant: the missing segment is looked for again.
Skipped_NotItself(i) == i < 0

Skipped(i) == i = get.n \/ i < 0

\* One turn of concatNeighbourSegments' loop: whatever is found within the
\* radius is merged, on either side of a gap.  (Its comment speaks of the direct
\* neighbours and of a walk outwards; the loop does neither.)
concatNeighbourSegments ==
    /\ Looking
    /\ \/ /\ ~Skipped(get.i) /\ get.i \in stored
          /\ get' = [get EXCEPT !.merged = Append(@, get.i), !.i = @ + 1]
       \/ /\ Skipped(get.i) \/ get.i \notin stored
          /\ get' = [get EXCEPT !.i = @ + 1]
       \/ StorageErrors /\ ~Skipped(get.i) /\ Answer("error")
    /\ UNCHANGED <<row, stored, deleting>>

\* Mutant: a single neighbour is taken for no neighbour.
Found_Pair == Len(get.merged) > 1

Found == get.merged # <<>>

concatEnds ==
    /\ get.pc = "merging" /\ ~Looking
    /\ Answer(IF Found THEN "merged" ELSE "missing")
    /\ UNCHANGED <<row, stored, deleting>>

Next ==
    \/ PublishStream \/ UnpublishStream
    \/ \E v \in {"public", "private"} : UpdateStream(v)
    \/ \E s \in {"ready", "error"} : UpdateStreamStatus(s)
    \/ \E k \in Segments : TranscoderWrites(k) \/ DeleteFolder(k)
    \/ DeleteBegins \/ DeleteFolderEnds \/ DeleteEnds
    \/ \E owner \in BOOLEAN, n \in 0 .. Last + maxRadius + 1 : GetHLS(owner, n)
    \/ GetFileByKey \/ Download \/ concatNeighbourSegments \/ concatEnds

Spec == Init /\ [][Next]_vars

-----------------------------------------------------------------------------
(* Properties.                                                             *)

\* The state has its shape, and no answer merges more than the neighbours.
TypeOK ==
    /\ row \in [there : BOOLEAN, status : {"ready", "published", "error"},
                visibility : {"public", "private"}]
    /\ stored \subseteq Segments
    /\ deleting \in {"no", "folder", "row"}
    /\ get.pc \in {"new", "allowed", "found", "merging", "answered"}
    /\ get.n \in Nat /\ get.i \in Int /\ get.owner \in BOOLEAN
    /\ get.kept \subseteq stored
    /\ \A k \in 1 .. Len(get.merged) : get.merged[k] \in Near(get.n) \union {get.n}

\* What the player gets for a missing segment plays forwards and never holds
\* that segment itself, also if it is written while its neighbours are read.
InPlaybackOrder ==
    /\ \A j, k \in 1 .. Len(get.merged) : j < k => get.merged[j] < get.merged[k]
    /\ get.answer # "segment" =>
           \A k \in 1 .. Len(get.merged) : get.merged[k] # get.n

\* The request fails for want of the segment only if neither it nor any
\* neighbour stayed stored while it ran.
MissingOnlyIfAlone ==
    get.answer = "missing" => get.kept \intersect (Near(get.n) \union {get.n}) = {}

=============================================================================
