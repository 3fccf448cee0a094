-------------------------- MODULE HlsServing_proofs --------------------------
(***************************************************************************)
(* Proofs about HlsServing, for a stream of any length.                    *)
(***************************************************************************)
EXTENDS HlsServing, TLAPS

GetType ==
    [pc : {"new", "allowed", "found", "merging", "answered"},
     answer : {"none", "not found", "forbidden", "error", "cannot watch",
               "segment", "merged", "missing"},
     owner : BOOLEAN, n : Nat, i : Int, merged : Seq(Int), kept : SUBSET Segments]

\* A neighbour that stayed stored and that the loop has passed was merged.
Merged(k) == \E j \in 1 .. Len(get.merged) : get.merged[j] = k

\* The inductive invariant: the two properties, and what the loop has done
\* by the time it reaches i.
Walked ==
    /\ stored \subseteq Segments
    /\ get \in GetType
    /\ get.kept \subseteq stored
    /\ get.pc # "answered" => get.answer = "none"
    /\ get.pc \in {"new", "allowed", "found"} => get.merged = <<>>
    /\ get.pc = "merging" =>
           /\ get.n \notin get.kept
           /\ \A k \in 1 .. Len(get.merged) : get.merged[k] < get.i
           /\ \A k \in get.kept \intersect Near(get.n) : k < get.i => Merged(k)
    /\ InPlaybackOrder
    /\ MissingOnlyIfAlone

LEMMA WalkedInit == ASSUME HlsConstants, Init PROVE Walked
BY DEF HlsConstants, Init, Walked, GetType, Segments, InPlaybackOrder, MissingOnlyIfAlone

\* Segments may come and go under the request, as long as one that went is
\* no longer counted as kept.
Loses(ks) ==
    /\ ks \subseteq Segments
    /\ get' = [get EXCEPT !.kept = get.kept \ ks]
    /\ stored' \subseteq Segments
    /\ (get.kept \ ks) \subseteq stored'

LEMMA WalkedLoses == ASSUME Walked, NEW ks, Loses(ks) PROVE Walked'
<1>1. /\ get' \in GetType /\ get'.pc = get.pc /\ get'.answer = get.answer
      /\ get'.n = get.n /\ get'.i = get.i /\ get'.merged = get.merged
      /\ get'.kept = get.kept \ ks
  BY DEF Loses, Walked, GetType
<1>2. InPlaybackOrder' /\ MissingOnlyIfAlone'
  BY <1>1 DEF Walked, Near, InPlaybackOrder, MissingOnlyIfAlone
<1>3. \A k : Merged(k) => Merged(k)'
  BY <1>1 DEF Merged
<1> QED
  BY <1>1, <1>2, <1>3 DEF Loses, Walked, Near

\* The owner, the workers and the folder touch the request in no other way.
LEMMA WalkedOutside ==
    ASSUME HlsConstants, Walked,
           \/ PublishStream \/ UnpublishStream \/ DeleteBegins \/ DeleteFolderEnds
           \/ DeleteEnds
           \/ \E v \in {"public", "private"} : UpdateStream(v)
           \/ \E s \in {"ready", "error"} : UpdateStreamStatus(s)
           \/ \E k \in Segments : TranscoderWrites(k) \/ DeleteFolder(k)
    PROVE  Walked'
<1> DEFINE same == [get EXCEPT !.kept = get.kept \ {}]
<1>1. same = get
  BY DEF Walked, GetType
<1>2. CASE stored' = stored /\ get' = get
  <2>1. Loses({})
    BY <1>1, <1>2 DEF Loses, Walked
  <2> QED
    BY <2>1, WalkedLoses
<1>3. ASSUME NEW k \in Segments, TranscoderWrites(k) PROVE Walked'
  <2>1. Loses({})
    BY <1>1, <1>3 DEF Loses, TranscoderWrites, Walked
  <2> QED
    BY <2>1, WalkedLoses
<1>4. ASSUME NEW k \in Segments, DeleteFolder(k) PROVE Walked'
  <2>1. Loses({k})
    BY <1>4 DEF Loses, DeleteFolder, Walked
  <2> QED
    BY <2>1, WalkedLoses
<1> QED
  BY <1>2, <1>3, <1>4 DEF PublishStream, UnpublishStream, DeleteBegins, DeleteFolderEnds,
                          DeleteEnds, UpdateStream, UpdateStreamStatus

\* An answer that carries no content ends the request and changes nothing else.
LEMMA WalkedRefusal ==
    ASSUME Walked, get.pc # "answered", stored' = stored,
           NEW a \in {"not found", "forbidden", "error", "cannot watch"}, Answer(a)
    PROVE  Walked'
<1>1. /\ get'.pc = "answered" /\ get'.answer = a /\ get'.n = get.n /\ get'.i = get.i
      /\ get'.merged = get.merged /\ get'.kept = get.kept /\ get'.owner = get.owner
  BY DEF Answer, Walked, GetType
<1>2. get' \in GetType
  BY DEF Answer, Walked, GetType
<1>3. MissingOnlyIfAlone'
  BY <1>1 DEF MissingOnlyIfAlone
<1>4. InPlaybackOrder'
  BY <1>1 DEF InPlaybackOrder, Walked
<1> QED
  BY <1>1, <1>2, <1>3, <1>4 DEF Walked

\* The request goes on without an answer, looking at i for a neighbour of n.
Advances(pc, i, n, owner, ks) ==
    /\ get.pc \in {"new", "allowed", "found"} /\ stored' = stored
    /\ pc \in {"allowed", "found", "merging"} /\ i \in Int /\ n \in Nat
    /\ owner \in BOOLEAN /\ ks \in SUBSET stored
    /\ get' = [get EXCEPT !.pc = pc, !.i = i, !.n = n, !.owner = owner, !.kept = ks]
    /\ pc = "merging" => n \notin stored /\ i = n - maxRadius

\* Nothing has been merged by then, and no neighbour lies before the walk.
LEMMA WalkedAdvance ==
    ASSUME HlsConstants, Walked,
           NEW pc, NEW i, NEW n, NEW owner, NEW ks, Advances(pc, i, n, owner, ks)
    PROVE  Walked'
<1> USE DEF Advances
<1>1. /\ get'.pc = pc /\ get'.i = i /\ get'.n = n /\ get'.kept = ks
      /\ get'.merged = <<>> /\ get'.answer = "none"
  BY DEF Walked, GetType
<1>2. get' \in GetType
  BY DEF Walked, GetType
<1>3. InPlaybackOrder' /\ MissingOnlyIfAlone'
  BY <1>1 DEF InPlaybackOrder, MissingOnlyIfAlone
<1>4. \A k \in Near(n) : ~(k < n - maxRadius)
  BY DEF Near, Segments, maxRadius
<1> QED
  BY <1>1, <1>2, <1>3, <1>4 DEF Walked

\* Everything the request does before the fallback.
LEMMA WalkedBefore ==
    ASSUME HlsConstants, Walked,
           \/ \E owner \in BOOLEAN, n \in 0 .. Last + maxRadius + 1 : GetHLS(owner, n)
           \/ GetFileByKey \/ Download
    PROVE  Walked'
<1>1. ASSUME NEW owner \in BOOLEAN, NEW n \in 0 .. Last + maxRadius + 1, GetHLS(owner, n)
      PROVE  Walked'
  <2>1. n \in Nat /\ get.pc = "new" /\ stored' = stored
    <3>1. n \in Nat
      BY DEF HlsConstants, maxRadius
    <3> QED
      BY <1>1, <3>1 DEF GetHLS
  <2>2. CASE get' = [get EXCEPT !.pc = "allowed", !.owner = owner, !.n = n]
    <3>1. get' = [get EXCEPT !.pc = "allowed", !.i = get.i, !.n = n, !.owner = owner,
                             !.kept = get.kept]
      BY <2>2 DEF Walked, GetType
    <3>2. get.i \in Int /\ get.kept \in SUBSET stored
      BY DEF Walked, GetType
    <3>3. Advances("allowed", get.i, n, owner, get.kept)
      BY <2>1, <3>1, <3>2 DEF Advances
    <3> QED
      BY <3>3, WalkedAdvance
  <2> QED
    BY <1>1, <2>1, <2>2, WalkedRefusal DEF GetHLS
<1>2. CASE GetFileByKey
  <2>1. get.pc = "allowed" /\ stored' = stored
    BY <1>2 DEF GetFileByKey
  <2>2. CASE get' = [get EXCEPT !.pc = "found", !.kept = stored]
    <3>1. get' = [get EXCEPT !.pc = "found", !.i = get.i, !.n = get.n, !.owner = get.owner,
                             !.kept = stored]
      BY <2>2 DEF Walked, GetType
    <3>2. get.i \in Int /\ get.n \in Nat /\ get.owner \in BOOLEAN
      BY DEF Walked, GetType
    <3>3. Advances("found", get.i, get.n, get.owner, stored)
      BY <2>1, <3>1, <3>2 DEF Advances
    <3> QED
      BY <3>3, WalkedAdvance
  <2> QED
    BY <1>2, <2>1, <2>2, WalkedRefusal DEF GetFileByKey
<1>3. CASE Download
  <2>1. /\ get.pc = "found" /\ stored' = stored /\ get.n \in Nat
        /\ get.owner \in BOOLEAN /\ get.kept \in SUBSET stored
    BY <1>3 DEF Download, Walked, GetType
  <2>2. CASE get' = [get EXCEPT !.pc = "answered", !.answer = "segment", !.merged = <<get.n>>]
    <3>1. /\ get'.pc = "answered" /\ get'.answer = "segment" /\ get'.merged = <<get.n>>
          /\ get'.kept = get.kept
      BY <2>2 DEF Walked, GetType
    <3>2. get' \in GetType
      <4> DEFINE m == <<get.n>>
      <4>1. m \in Seq(Int) /\ get \in GetType
        BY <2>1 DEF Walked
      <4> HIDE DEF m
      <4>2. get' = [get EXCEPT !.pc = "answered", !.answer = "segment", !.merged = m]
        BY <2>2 DEF m
      <4> QED
        BY <4>1, <4>2 DEF GetType
    <3>3. InPlaybackOrder' /\ MissingOnlyIfAlone'
      BY <3>1 DEF InPlaybackOrder, MissingOnlyIfAlone
    <3> QED
      BY <2>1, <3>1, <3>2, <3>3 DEF Walked
  <2>3. CASE get.n \notin stored /\ get' = [get EXCEPT !.pc = "merging", !.i = get.n - maxRadius]
    <3>1. get' = [get EXCEPT !.pc = "merging", !.i = get.n - maxRadius, !.n = get.n,
                             !.owner = get.owner, !.kept = get.kept]
      BY <2>3 DEF Walked, GetType
    <3>2. get.n - maxRadius \in Int
      BY <2>1 DEF maxRadius
    <3>3. Advances("merging", get.n - maxRadius, get.n, get.owner, get.kept)
      BY <2>1, <2>3, <3>1, <3>2 DEF Advances
    <3> QED
      BY <3>3, WalkedAdvance
  <2> QED
    BY <1>3, <2>1, <2>2, <2>3, WalkedRefusal DEF Download
<1> QED
  BY <1>1, <1>2, <1>3

\* One turn of the loop.
LEMMA WalkedTurn == ASSUME HlsConstants, Walked, concatNeighbourSegments PROVE Walked'
<1>1. get.pc = "merging" /\ get.answer = "none" /\ stored' = stored /\ get \in GetType
  BY DEF concatNeighbourSegments, Looking, Walked
<1>2. CASE /\ ~Skipped(get.i) /\ get.i \in stored
           /\ get' = [get EXCEPT !.merged = Append(@, get.i), !.i = @ + 1]
  <2>1. get.i # get.n /\ get.i \in Int /\ get.n \in Nat /\ get.merged \in Seq(Int)
    BY <1>1, <1>2 DEF GetType, Skipped
  <2>2. /\ get'.pc = "merging" /\ get'.answer = "none"
        /\ get'.n = get.n /\ get'.kept = get.kept /\ get'.i = get.i + 1
        /\ get'.merged = Append(get.merged, get.i)
    BY <1>1, <1>2 DEF GetType
  <2>3. get' \in GetType
    <3> DEFINE m == Append(get.merged, get.i)
               i == get.i + 1
    <3>1. m \in Seq(Int) /\ i \in Int /\ get' = [get EXCEPT !.merged = m, !.i = i]
      BY <1>2, <2>1
    <3> HIDE DEF m, i
    <3> QED
      BY <1>1, <3>1 DEF GetType
  <2>4. /\ Len(get'.merged) = Len(get.merged) + 1
        /\ get'.merged[Len(get.merged) + 1] = get.i
        /\ \A k \in 1 .. Len(get.merged) : get'.merged[k] = get.merged[k] /\ get.merged[k] \in Int
    BY <2>1, <2>2
  <2>5. \A k \in 1 .. Len(get'.merged) : get'.merged[k] < get'.i
    <3>1. \A k \in 1 .. Len(get.merged) : get.merged[k] < get.i
      BY <1>1 DEF Walked
    <3> QED
      BY <2>1, <2>2, <2>4, <3>1
  <2>6. ASSUME NEW k \in get'.kept \intersect Near(get'.n), k < get'.i PROVE Merged(k)'
    <3>1. k \in Int /\ k \in get.kept \intersect Near(get.n)
      BY <2>2 DEF Near, Segments
    <3>2. CASE k = get.i
      <4>1. Len(get.merged) + 1 \in 1 .. Len(get'.merged)
        BY <2>1, <2>4
      <4>2. get'.merged[Len(get.merged) + 1] = k
        BY <2>4, <3>2
      <4> QED
        BY <4>1, <4>2 DEF Merged
    <3>3. CASE k < get.i
      <4>1. PICK j \in 1 .. Len(get.merged) : get.merged[j] = k
        BY <1>1, <3>1, <3>3 DEF Walked, Merged
      <4>2. j \in 1 .. Len(get'.merged)
        BY <2>1, <2>4, <4>1
      <4>3. get'.merged[j] = k
        BY <2>4, <4>1
      <4> QED
        BY <4>2, <4>3 DEF Merged
    <3> QED
      BY <2>1, <2>2, <2>6, <3>1, <3>2, <3>3
  <2>7. InPlaybackOrder'
    <3>1. ASSUME NEW j \in 1 .. Len(get'.merged), NEW k \in 1 .. Len(get'.merged), j < k
          PROVE  get'.merged[j] < get'.merged[k]
      <4>1. j \in 1 .. Len(get.merged)
        BY <2>1, <2>4, <3>1
      <4>2. CASE k \in 1 .. Len(get.merged)
        BY <1>1, <2>4, <3>1, <4>1, <4>2 DEF Walked, InPlaybackOrder
      <4>3. CASE k = Len(get.merged) + 1
        BY <1>1, <2>4, <4>1, <4>3 DEF Walked
      <4> QED
        BY <2>1, <2>4, <4>2, <4>3
    <3>2. ASSUME get'.answer # "segment", NEW k \in 1 .. Len(get'.merged)
          PROVE  get'.merged[k] # get'.n
      <4>1. CASE k \in 1 .. Len(get.merged)
        BY <1>1, <2>2, <2>4, <4>1 DEF Walked, InPlaybackOrder
      <4>2. CASE k = Len(get.merged) + 1
        BY <1>2, <2>2, <2>4, <4>2 DEF Skipped
      <4> QED
        BY <2>1, <2>4, <4>1, <4>2
    <3> QED
      BY <3>1, <3>2 DEF InPlaybackOrder
  <2>8. MissingOnlyIfAlone'
    BY <2>2 DEF MissingOnlyIfAlone
  <2> QED
    BY <1>1, <2>2, <2>3, <2>5, <2>6, <2>7, <2>8 DEF Walked
<1>3. CASE /\ Skipped(get.i) \/ get.i \notin stored
           /\ get' = [get EXCEPT !.i = @ + 1]
  <2>1. get.i \in Int /\ get.n \in Nat /\ get.merged \in Seq(Int)
    BY <1>1 DEF GetType
  <2>2. /\ get'.pc = "merging" /\ get'.answer = "none"
        /\ get'.n = get.n /\ get'.kept = get.kept /\ get'.i = get.i + 1
        /\ get'.merged = get.merged
    BY <1>1, <1>3 DEF GetType
  <2>3. get' \in GetType
    <3> DEFINE i == get.i + 1
    <3>1. i \in Int /\ get' = [get EXCEPT !.i = i]
      BY <1>3, <2>1
    <3> HIDE DEF i
    <3> QED
      BY <1>1, <3>1 DEF GetType
  <2>4. get.i \notin get.kept \intersect Near(get.n)
    BY <1>3 DEF Skipped, Near, Segments, HlsConstants, Walked
  <2>5. \A k \in 1 .. Len(get'.merged) : get'.merged[k] < get'.i
    <3>1. \A k \in 1 .. Len(get.merged) : get.merged[k] \in Int /\ get.merged[k] < get.i
      BY <1>1, <2>1 DEF Walked
    <3> QED
      BY <2>1, <2>2, <3>1
  <2>6. ASSUME NEW k \in get'.kept \intersect Near(get'.n), k < get'.i PROVE Merged(k)'
    <3>1. k \in Int /\ k \in get.kept \intersect Near(get.n) /\ k < get.i
      BY <2>1, <2>2, <2>4, <2>6 DEF Near, Segments
    <3> QED
      BY <1>1, <2>2, <3>1 DEF Walked, Merged
  <2>7. InPlaybackOrder' /\ MissingOnlyIfAlone'
    BY <1>1, <2>2 DEF Walked, InPlaybackOrder, MissingOnlyIfAlone
  <2> QED
    BY <1>1, <2>2, <2>3, <2>5, <2>6, <2>7 DEF Walked
<1>4. CASE Answer("error")
  BY <1>1, <1>4, WalkedRefusal
<1> QED
  BY <1>2, <1>3, <1>4 DEF concatNeighbourSegments

\* The loop is over: it has passed every neighbour.
LEMMA WalkedEnd == ASSUME HlsConstants, Walked, concatEnds PROVE Walked'
<1>1. /\ get.pc = "merging" /\ get.n \in Nat /\ get.i \in Int /\ get \in GetType
      /\ ~(get.i <= get.n + maxRadius) /\ stored' = stored
      /\ get' = [get EXCEPT !.pc = "answered", !.answer = IF Found THEN "merged" ELSE "missing"]
  BY DEF concatEnds, Looking, Answer, Walked, GetType
<1>2. ASSUME NEW k \in get.kept \intersect Near(get.n) PROVE Merged(k)
  <2>1. k \in Int /\ k <= get.n + maxRadius
    BY DEF Near, Segments
  <2>2. k < get.i
    BY <1>1, <2>1 DEF maxRadius
  <2> QED
    BY <1>1, <2>2 DEF Walked
<1>3. /\ get' \in GetType /\ get'.pc = "answered" /\ get'.n = get.n
      /\ get'.kept = get.kept /\ get'.merged = get.merged
      /\ get'.answer = IF Found THEN "merged" ELSE "missing"
  BY <1>1 DEF GetType
<1>4. MissingOnlyIfAlone'
  BY <1>1, <1>2, <1>3 DEF MissingOnlyIfAlone, Merged, Near, Found, Walked
<1> QED
  BY <1>1, <1>3, <1>4 DEF Walked, InPlaybackOrder

LEMMA WalkedStep == ASSUME HlsConstants, Walked, [Next]_vars PROVE Walked'
<1>1. CASE UNCHANGED vars
  BY <1>1 DEF vars, Walked, Merged, Near, InPlaybackOrder, MissingOnlyIfAlone
<1>2. CASE Next
  BY <1>2, WalkedOutside, WalkedBefore, WalkedTurn, WalkedEnd DEF Next
<1> QED
  BY <1>1, <1>2

LEMMA HlsInvariant == Spec => []Walked
<1>1. Init => Walked
  BY WalkedInit, HlsConstants
<1>2. Walked /\ [Next]_vars => Walked'
  BY WalkedStep, HlsConstants
<1> QED
  BY <1>1, <1>2, PTL DEF Spec

\* What concatNeighbourSegments merges plays forwards and never holds the
\* segment that was missing, however long the stream.
THEOREM PlaysForwards == Spec => []InPlaybackOrder
<1>1. Walked => InPlaybackOrder
  BY DEF Walked
<1> QED
  BY <1>1, HlsInvariant, PTL

\* The request for a segment fails only if no neighbour stayed stored.
THEOREM MissesOnlyAlone == Spec => []MissingOnlyIfAlone
<1>1. Walked => MissingOnlyIfAlone
  BY DEF Walked
<1> QED
  BY <1>1, HlsInvariant, PTL

-----------------------------------------------------------------------------
(* Types.  The walk begins maxRadius before n and merges nothing beyond    *)
(* maxRadius after it.                                                     *)

RowType ==
    [there : BOOLEAN, status : {"ready", "published", "error"},
     visibility : {"public", "private"}]

Ranged ==
    /\ row \in RowType
    /\ deleting \in {"no", "folder", "row"}
    /\ get.pc = "merging" => get.n - maxRadius <= get.i
    /\ \A k \in 1 .. Len(get.merged) : get.merged[k] \in Near(get.n) \union {get.n}

\* A step that leaves the request where it is, or moves it on with nothing
\* merged yet, cannot put it out of range.
LEMMA RangedStays ==
    ASSUME HlsConstants, Walked, Ranged,
           row' \in RowType, deleting' \in {"no", "folder", "row"},
           \/ /\ get'.merged = get.merged /\ get'.n = get.n
              /\ get'.pc = "merging" => get.pc = "merging" /\ get'.i >= get.i
           \/ /\ get'.merged = <<>>
              /\ get'.pc = "merging" => get'.i = get'.n - maxRadius
           \/ get'.merged = <<get.n>> /\ get'.n = get.n /\ get'.pc = "answered",
           get'.i \in Int, get'.n \in Nat
    PROVE  Ranged'
<1>1. get.i \in Int /\ get.n \in Nat
  BY DEF Walked, GetType
<1> QED
  BY <1>1 DEF Ranged, Near, maxRadius

LEMMA RangedStep == ASSUME HlsConstants, Walked, Ranged, Walked', [Next]_vars PROVE Ranged'
<1>1. /\ get.i \in Int /\ get.n \in Nat /\ get.merged \in Seq(Int) /\ get \in GetType
      /\ get'.i \in Int /\ get'.n \in Nat /\ row \in RowType
      /\ deleting \in {"no", "folder", "row"}
  BY DEF Walked, GetType, Ranged
<1>2. CASE UNCHANGED vars
  BY <1>1, <1>2, RangedStays DEF vars
<1>3. CASE \/ PublishStream \/ UnpublishStream \/ DeleteEnds
           \/ \E v \in {"public", "private"} : UpdateStream(v)
           \/ \E s \in {"ready", "error"} : UpdateStreamStatus(s)
  <2>1. get' = get /\ row' \in RowType /\ deleting' \in {"no", "folder", "row"}
    BY <1>1, <1>3 DEF PublishStream, UnpublishStream, DeleteEnds, UpdateStream,
                      UpdateStreamStatus, RowType
  <2> QED
    BY <1>1, <2>1, RangedStays
<1>4. CASE \/ DeleteBegins \/ DeleteFolderEnds
           \/ \E k \in Segments : TranscoderWrites(k) \/ DeleteFolder(k)
  <2>1. /\ get'.merged = get.merged /\ get'.n = get.n /\ get'.pc = get.pc /\ get'.i = get.i
        /\ row' = row /\ deleting' \in {"no", "folder", "row"}
    BY <1>1, <1>4 DEF DeleteBegins, DeleteFolderEnds, TranscoderWrites, DeleteFolder, GetType
  <2> QED
    BY <1>1, <2>1, RangedStays
<1>5. CASE \/ \E owner \in BOOLEAN, n \in 0 .. Last + maxRadius + 1 : GetHLS(owner, n)
           \/ GetFileByKey \/ Download
  <2>1. row' = row /\ deleting' = deleting /\ get.merged = <<>>
    BY <1>5 DEF GetHLS, GetFileByKey, Download, Walked
  <2>2. \/ get'.merged = get.merged /\ get'.pc \in {"answered", "allowed", "found"}
        \/ get'.merged = get.merged /\ get'.i = get'.n - maxRadius
        \/ get'.merged = <<get.n>> /\ get'.n = get.n /\ get'.pc = "answered"
    BY <1>1, <1>5, ZenonT(60) DEF GetHLS, GetFileByKey, Download, Answer, GetType
  <2> QED
    BY <1>1, <2>1, <2>2, RangedStays
<1>6. CASE concatNeighbourSegments
  <2>1. /\ row' = row /\ deleting' = deleting /\ get.pc = "merging"
        /\ get.i <= get.n + maxRadius /\ get.n - maxRadius <= get.i
    BY <1>6 DEF concatNeighbourSegments, Looking, Ranged
  <2>2. CASE /\ ~Skipped(get.i) /\ get.i \in stored
             /\ get' = [get EXCEPT !.merged = Append(@, get.i), !.i = @ + 1]
    <3>1. get.i \in Near(get.n)
      BY <1>1, <2>1, <2>2 DEF Near, Skipped, Walked
    <3>2. get'.merged = Append(get.merged, get.i) /\ get'.n = get.n /\ get'.i = get.i + 1
      BY <1>1, <2>2 DEF GetType
    <3>3. /\ Len(get'.merged) = Len(get.merged) + 1
          /\ get'.merged[Len(get.merged) + 1] = get.i
          /\ \A k \in 1 .. Len(get.merged) : get'.merged[k] = get.merged[k]
      BY <1>1, <3>2
    <3>4. Near(get.n)' = Near(get.n)
      BY <3>2 DEF Near
    <3>5. ASSUME NEW k \in 1 .. Len(get'.merged)
          PROVE  get'.merged[k] \in Near(get.n) \union {get.n}
      <4>1. k \in 1 .. Len(get.merged) \/ k = Len(get.merged) + 1
        BY <1>1, <3>3
      <4> QED
        BY <3>1, <3>3, <4>1 DEF Ranged
    <3>6. get'.n - maxRadius <= get'.i
      BY <1>1, <2>1, <3>2 DEF maxRadius
    <3> QED
      BY <1>1, <2>1, <3>2, <3>4, <3>5, <3>6 DEF Ranged
  <2>3. CASE get' = [get EXCEPT !.i = @ + 1]
    <3>1. get'.merged = get.merged /\ get'.n = get.n /\ get'.pc = get.pc /\ get'.i >= get.i
      <4>1. get'.merged = get.merged /\ get'.n = get.n /\ get'.pc = get.pc
        BY <1>1, <2>3 DEF GetType
      <4>2. get'.i = get.i + 1
        BY <1>1, <2>3 DEF GetType
      <4> QED
        BY <1>1, <4>1, <4>2
    <3> QED
      BY <1>1, <2>1, <3>1, RangedStays
  <2>4. CASE Answer("error")
    <3>1. get'.merged = get.merged /\ get'.n = get.n /\ get'.pc = "answered"
      BY <1>1, <2>4 DEF GetType, Answer
    <3> QED
      BY <1>1, <2>1, <3>1, RangedStays
  <2> QED
    BY <1>6, <2>2, <2>3, <2>4 DEF concatNeighbourSegments
<1>7. CASE concatEnds
  <2>1. /\ get'.merged = get.merged /\ get'.n = get.n /\ get'.pc = "answered"
        /\ row' = row /\ deleting' = deleting
    BY <1>1, <1>7 DEF GetType, Answer, concatEnds
  <2> QED
    BY <1>1, <2>1, RangedStays
<1> QED
  BY <1>2, <1>3, <1>4, <1>5, <1>6, <1>7 DEF Next

\* The request's state keeps its shape, and an answer merges no more than the
\* neighbours within maxRadius, in a stream of any length.
THEOREM TypeCorrect == Spec => []TypeOK
<1>1. Init => Ranged
  BY DEF Init, Ranged, RowType
<1>2. Walked /\ Ranged /\ Walked' /\ [Next]_vars => Ranged'
  BY RangedStep, HlsConstants
<1>3. Walked /\ Ranged => TypeOK
  BY DEF Walked, Ranged, TypeOK, GetType, RowType
<1> QED
  BY <1>1, <1>2, <1>3, HlsInvariant, PTL DEF Spec

=============================================================================
