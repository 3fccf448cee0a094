------------------------ MODULE StreamLibrary_proofs ------------------------
(***************************************************************************)
(* Proofs about StreamLibrary, for every number of streams, every list and *)
(* limit, every batch and any number of changes.                           *)
(***************************************************************************)
EXTENDS StreamLibrary, SequenceTheorems, FiniteSetTheorems, TLAPS

-----------------------------------------------------------------------------
(* The inductive invariant, in parts.                                      *)

RowType   == [there : BOOLEAN, status : {"draft", "ready", "published"},
              public : BOOLEAN, faces : BOOLEAN]
WalkType  == [kind : Kinds \union {"own"}, sort : Sorts \union {"created_at"},
              limit : Limits \union {0}, pc : {"idle", "count", "select", "done"},
              total : 0..Cardinality(Streams), seen : Seq(Streams)]
BatchType == [pc : {"idle", "turn", "enqueue", "check", "write", "done"},
              ids : Seq(Streams), copy : [Streams -> RowType], turn : Nat \ {0},
              processed : Seq(Streams), failed : Seq(Streams \X Reasons)]

Elements(s) == {s[i] : i \in DOMAIN s}

Typed ==
    /\ row \in [Streams -> RowType]
    /\ input \subseteq Streams /\ changes \in 0..MaxChanges
    /\ walk \in WalkType
    /\ stayed \subseteq Streams /\ came \in BOOLEAN /\ gone \in BOOLEAN
    /\ batch \in BatchType
    /\ queued \subseteq Streams

\* The ids the loop has left behind it.
Answered == {batch.ids[i] : i \in {j \in DOMAIN batch.ids : j < batch.turn}}
Failed   == {f[1] : f \in Elements(batch.failed)}

\* The loop keeps within its ids, and has answered for those behind it.
BatchKept ==
    /\ Distinct(batch.ids)
    /\ Len(batch.processed) + Len(batch.failed) = batch.turn - 1
    /\ batch.pc \in {"turn", "enqueue", "check", "write"} => batch.turn <= Len(batch.ids)
    /\ batch.pc = "done" => batch.turn = Len(batch.ids) + 1
    /\ Elements(batch.processed) \intersect Failed = {}
    /\ Elements(batch.processed) \union Failed = Answered
    /\ Elements(batch.processed) \subseteq queued
    /\ batch.pc \in {"check", "write"} => Current \in queued
    /\ \A s \in queued \ Elements(batch.processed) :
          \/ <<s, "error">> \in Elements(batch.failed)
          \/ batch.pc \in {"check", "write"} /\ s = Current

List     == Listed(walk.kind, row)
Ahead(s) == {t \in List : t > s}

\* While nothing leaves the list, what was in it all along and has not been
\* seen is still ahead of the walk.
NothingPassed ==
    /\ Watched => stayed \subseteq List
    /\ Watched /\ ~gone =>
          \A s \in stayed : Saw(s) \/ Cardinality(Ahead(s)) >= Len(walk.seen)
    /\ WalkMissesNothing

\* While nothing comes into it, what is ahead of the walk is older than all it
\* has seen.
NothingTwice ==
    ~came =>
        /\ Distinct(walk.seen)
        /\ Watched =>
              \A t \in List : Cardinality(Ahead(t)) >= Len(walk.seen)
                 => \A i \in DOMAIN walk.seen : t < walk.seen[i]

\* The total is the list's, which the walk cannot exceed.
TotalKept ==
    ~came /\ ~gone =>
        /\ Watched => Len(walk.seen) <= Cardinality(List)
        /\ walk.pc = "select" => walk.total = Cardinality(List)
        /\ walk.pc = "done" => walk.total = Len(walk.seen)

WalkKept == NothingPassed /\ NothingTwice /\ TotalKept

-----------------------------------------------------------------------------
(* The operators of the model.                                             *)

LEMMA StreamsFinite ==
    /\ IsFiniteSet(Streams) /\ Streams \subseteq Nat
    /\ Cardinality(Streams) \in Nat
    /\ \A S \in SUBSET Streams :
          /\ IsFiniteSet(S) /\ Cardinality(S) \in Nat
          /\ Cardinality(S) <= Cardinality(Streams)
<1>1. IsFiniteSet(Streams) /\ Streams = 1..Cardinality(Streams)
  BY LibraryConstants
<1>2. Cardinality(Streams) \in Nat
  BY <1>1, FS_CardinalityType
<1>3. Streams \subseteq Nat
  BY <1>1, <1>2
<1>4. \A S \in SUBSET Streams : IsFiniteSet(S) /\ Cardinality(S) <= Cardinality(Streams)
  BY <1>1, FS_Subset
<1> QED
  BY <1>1, <1>2, <1>3, <1>4, FS_CardinalityType

\* A subset has no more elements.
LEMMA CountsGrow ==
    ASSUME NEW S \in SUBSET Streams, NEW T \in SUBSET S
    PROVE  Cardinality(T) <= Cardinality(S)
BY StreamsFinite, FS_Subset

LEMMA RowTypes ==
    /\ Absent \in RowType
    /\ \A st \in {"draft", "ready", "published"} : Row(TRUE, st) \in RowType
BY DEF Absent, Row, RowType

LEMMA ListType == \A kind, r : Listed(kind, r) \in SUBSET Streams
BY DEF Listed

LEMMA ListFinite == List \in SUBSET Streams /\ \A s : Ahead(s) \in SUBSET List
BY ListType DEF List, Ahead

\* One more at the end of a list.
LEMMA AppendElements ==
    ASSUME NEW S, NEW s \in Seq(S), NEW x \in S
    PROVE  /\ Append(s, x) \in Seq(S)
           /\ Len(Append(s, x)) = Len(s) + 1
           /\ Elements(Append(s, x)) = Elements(s) \union {x}
<1>1. /\ Append(s, x) \in Seq(S) /\ Len(Append(s, x)) = Len(s) + 1
      /\ \A i \in 1..Len(s) : Append(s, x)[i] = s[i]
      /\ Append(s, x)[Len(s) + 1] = x
  BY AppendProperties
<1>2. DOMAIN s = 1..Len(s) /\ DOMAIN Append(s, x) = 1..(Len(s) + 1) /\ Len(s) \in Nat
  BY <1>1
<1>3. ASSUME NEW y \in Elements(Append(s, x)) PROVE y \in Elements(s) \union {x}
  <2>1. PICK i \in 1..(Len(s) + 1) : y = Append(s, x)[i]
    BY <1>2 DEF Elements
  <2>2. CASE i = Len(s) + 1
    BY <1>1, <2>1, <2>2
  <2>3. CASE i # Len(s) + 1
    <3>1. i \in 1..Len(s)
      BY <1>2, <2>3
    <3> QED
      BY <1>1, <1>2, <2>1, <3>1 DEF Elements
  <2> QED
    BY <2>2, <2>3
<1>4. ASSUME NEW y \in Elements(s) PROVE y \in Elements(Append(s, x))
  <2>1. PICK i \in 1..Len(s) : y = s[i]
    BY <1>2 DEF Elements
  <2>2. i \in DOMAIN Append(s, x) /\ Append(s, x)[i] = y
    BY <1>1, <1>2, <2>1
  <2> QED
    BY <2>2 DEF Elements
<1>5. x \in Elements(Append(s, x))
  <2>1. Len(s) + 1 \in DOMAIN Append(s, x)
    BY <1>2
  <2> QED
    BY <1>1, <2>1 DEF Elements
<1> QED
  BY <1>1, <1>3, <1>4, <1>5

\* A page goes on where the last one ended, and is empty only at the end.
LEMMA PageProperties ==
    ASSUME NEW order \in Seq(Streams), NEW limit \in Limits \union {0}, NEW off \in Nat
    PROVE  LET page == Page(order, limit, off)
           IN  /\ page \in Seq(Streams)
               /\ off >= Len(order) <=> page = <<>>
               /\ off < Len(order) => off + Len(page) <= Len(order)
               /\ \A i \in DOMAIN page : /\ off + i \in DOMAIN order
                                         /\ page[i] = order[off + i]
<1> DEFINE n == Len(order)
           last == IF off + PageSize(limit) < n THEN off + PageSize(limit) ELSE n
           page == SubSeq(order, off + 1, last)
<1>1. PageSize(limit) \in Nat \ {0}
  BY LibraryConstants DEF PageSize
<1>2. n \in Nat /\ DOMAIN order = 1..n /\ order \in [1..n -> Streams]
  OBVIOUS
<1>3. last \in Nat /\ last <= n /\ (off < n => off + 1 <= last)
  BY <1>1, <1>2
<1>4. page = [i \in 1..(last - off) |-> order[i + off]]
  <2> HIDE DEF last
  <2>1. last - (off + 1) + 1 = last - off /\ \A i \in Nat : i + (off + 1) - 1 = i + off
    BY <1>3
  <2> QED
    BY <1>2, <1>3, <2>1
<1>5. Page(order, limit, off) = page
  BY DEF Page
<1> HIDE DEF last, page, n
<1>6. CASE off < n
  <2>1. last - off \in Nat \ {0} /\ off + (last - off) <= n
    BY <1>2, <1>3, <1>6
  <2>2. \A i \in 1..(last - off) : off + i \in 1..n /\ i + off = off + i
    BY <1>2, <1>3, <2>1
  <2>3. page \in [1..(last - off) -> Streams]
    BY <1>2, <1>4, <2>2
  <2>4. page \in Seq(Streams) /\ Len(page) = last - off /\ DOMAIN page = 1..(last - off)
    BY <2>1, <2>3
  <2>5. page # <<>>
    BY <2>1, <2>4
  <2>6. \A i \in DOMAIN page : off + i \in DOMAIN order /\ page[i] = order[off + i]
    BY <1>2, <1>4, <2>2, <2>4
  <2> QED
    BY <1>2, <1>5, <1>6, <2>1, <2>4, <2>5, <2>6 DEF n
<1>7. CASE ~(off < n)
  <2>1. 1..(last - off) = {}
    BY <1>2, <1>3, <1>7
  <2>2. page = <<>>
    BY <1>4, <2>1
  <2> QED
    BY <1>2, <1>5, <1>7, <2>2 DEF n
<1> QED
  BY <1>6, <1>7

\* Sorted by creation, the youngest first: the rank of a stream in the order is
\* the number of streams younger than it.
LEMMA OrderProperties ==
    ASSUME NEW S \in SUBSET Streams, NEW r, NEW order \in Orders("created_at", S, r)
    PROVE  /\ order \in Seq(Streams) /\ Len(order) = Cardinality(S)
           /\ \A i \in DOMAIN order : order[i] \in S
           /\ \A s \in S : \E i \in DOMAIN order : order[i] = s
           /\ \A i, j \in DOMAIN order : i < j => order[i] > order[j]
           /\ \A i \in DOMAIN order : Cardinality({t \in S : t > order[i]}) = i - 1
<1> DEFINE n == Cardinality(S)
<1>1. n \in Nat /\ IsFiniteSet(S) /\ S \subseteq Nat
  BY StreamsFinite
<1>2. /\ order \in [1..n -> S] /\ {order[i] : i \in DOMAIN order} = S
      /\ \A i, j \in 1..n : i < j => ~(order[j] > order[i])
  BY DEF Orders, Before
<1> HIDE DEF n
<1>3. order \in Seq(Streams) /\ Len(order) = n /\ DOMAIN order = 1..n
  <2>1. order \in [1..n -> Streams]
    BY <1>2
  <2> QED
    BY <1>1, <2>1
<1>4. \A s \in S : \E i \in 1..n : order[i] = s
  BY <1>2
<1>5. \A i, j \in 1..n : order[i] = order[j] => i = j
  <2>1. order \in Surjection(1..n, S)
    BY <1>2, <1>4 DEF Surjection
  <2>2. IsFiniteSet(1..n) /\ Cardinality(1..n) = n
    <3>1. /\ IsFiniteSet(1..n)
          /\ Cardinality(1..n) = IF 1 > n THEN 0 ELSE n - 1 + 1
      BY <1>1, FS_Interval
    <3> QED
      BY <1>1, <3>1
  <2>3. order \in Injection(1..n, S)
    BY <1>1, <2>1, <2>2, FS_Surjection DEF n
  <2> QED
    BY <2>3 DEF Injection, IsInjective
<1>6. \A i, j \in 1..n : i < j => order[i] > order[j]
  <2> SUFFICES ASSUME NEW i \in 1..n, NEW j \in 1..n, i < j PROVE order[i] > order[j]
    OBVIOUS
  <2>1. order[i] \in Nat /\ order[j] \in Nat /\ order[i] # order[j]
    <3>1. order[i] \in S /\ order[j] \in S /\ i # j
      BY <1>1, <1>2
    <3> QED
      BY <1>1, <1>5, <3>1
  <2> QED
    BY <1>2, <2>1
<1>7. ASSUME NEW p \in 1..n PROVE Cardinality({t \in S : t > order[p]}) = p - 1
  <2> DEFINE T == {t \in S : t > order[p]}
             f == [i \in 1..(p - 1) |-> order[i]]
  <2>1. p - 1 \in Nat /\ 1..(p - 1) \subseteq 1..n
    BY <1>1, <1>7
  <2>2. \A i \in 1..(p - 1) : f[i] = order[i] /\ order[i] \in T
    BY <1>2, <1>6, <1>7, <2>1
  <2>3. f \in [1..(p - 1) -> T]
    BY <2>2
  <2>4. f \in Injection(1..(p - 1), T)
    BY <1>5, <2>1, <2>2, <2>3 DEF Injection, IsInjective
  <2>5. \A t \in T : \E i \in 1..(p - 1) : f[i] = t
    <3> SUFFICES ASSUME NEW t \in T PROVE \E i \in 1..(p - 1) : f[i] = t
      OBVIOUS
    <3>1. PICK i \in 1..n : order[i] = t
      BY <1>4
    <3>2. order[i] \in Nat /\ order[p] \in Nat /\ order[i] > order[p]
      BY <1>1, <1>2, <1>7, <3>1
    <3>3. i \in Nat /\ p \in Nat /\ i < p
      BY <1>1, <1>6, <1>7, <3>2
    <3>4. i \in 1..(p - 1)
      BY <3>3
    <3> QED
      BY <2>2, <3>1, <3>4
  <2>6. f \in Surjection(1..(p - 1), T)
    BY <2>3, <2>5 DEF Surjection
  <2>7. ExistsBijection(1..(p - 1), T)
    BY <2>4, <2>6 DEF ExistsBijection, Bijection
  <2> HIDE DEF T
  <2> QED
    BY <2>1, <2>7, FS_CountingElements DEF T
<1> QED
  BY <1>2, <1>3, <1>4, <1>6, <1>7 DEF n

-----------------------------------------------------------------------------
(* Types.                                                                  *)

LEMMA BatchTypes ==
    ASSUME Typed, batch.turn <= Len(batch.ids)
    PROVE  /\ Current \in Streams /\ batch.turn \in DOMAIN batch.ids
           /\ \A reason \in Reasons : <<Current, reason>> \in Streams \X Reasons
BY DEF Typed, BatchType, Current

LEMMA NextTurnType ==
    ASSUME NEW b \in BatchType
    PROVE  /\ NextTurn(b) \in BatchType
           /\ NextTurn(b).ids = b.ids /\ NextTurn(b).turn = b.turn + 1
           /\ NextTurn(b).processed = b.processed /\ NextTurn(b).failed = b.failed
           /\ NextTurn(b).pc = IF b.turn = Len(b.ids) THEN "done" ELSE "turn"
<1>1. NoBatch.copy \in [Streams -> RowType]
  BY RowTypes DEF NoBatch
<1>2. b.turn + 1 \in Nat \ {0}
  BY DEF BatchType
<1>3. NextTurn(b) = [b EXCEPT !.turn = b.turn + 1,
                        !.pc = IF b.turn = Len(b.ids) THEN "done" ELSE "turn",
                        !.copy = IF b.turn = Len(b.ids) THEN NoBatch.copy ELSE b.copy]
  BY DEF NextTurn, BatchType
<1> QED
  BY <1>1, <1>2, <1>3 DEF BatchType

\* A failure reports the current id and goes on.
LEMMA FailType ==
    ASSUME Typed, batch.turn <= Len(batch.ids), NEW reason \in Reasons, Fail(reason)
    PROVE  /\ batch' \in BatchType
           /\ batch'.ids = batch.ids /\ batch'.turn = batch.turn + 1
           /\ batch'.processed = batch.processed
           /\ batch'.failed = Append(batch.failed, <<Current, reason>>)
           /\ batch'.pc = IF batch.turn = Len(batch.ids) THEN "done" ELSE "turn"
<1> DEFINE b == [batch EXCEPT !.failed = Append(@, <<Current, reason>>)]
<1>1. batch \in BatchType /\ <<Current, reason>> \in Streams \X Reasons
  BY BatchTypes DEF Typed
<1>2. Append(batch.failed, <<Current, reason>>) \in Seq(Streams \X Reasons)
  BY <1>1, AppendElements DEF BatchType
<1>3. /\ b \in BatchType /\ b.ids = batch.ids /\ b.turn = batch.turn
      /\ b.processed = batch.processed
      /\ b.failed = Append(batch.failed, <<Current, reason>>)
  BY <1>1, <1>2 DEF BatchType
<1> HIDE DEF b
<1>4. batch' = NextTurn(b)
  BY DEF Fail, b
<1> QED
  BY <1>3, <1>4, NextTurnType

\* The same of a success.
LEMMA DoneType ==
    ASSUME Typed, batch.turn <= Len(batch.ids),
           batch' = NextTurn([batch EXCEPT !.processed = Append(@, Current)])
    PROVE  /\ batch' \in BatchType
           /\ batch'.ids = batch.ids /\ batch'.turn = batch.turn + 1
           /\ batch'.processed = Append(batch.processed, Current)
           /\ batch'.failed = batch.failed
           /\ batch'.pc = IF batch.turn = Len(batch.ids) THEN "done" ELSE "turn"
<1> DEFINE b == [batch EXCEPT !.processed = Append(@, Current)]
<1>1. batch \in BatchType /\ Current \in Streams
  BY BatchTypes DEF Typed
<1>2. Append(batch.processed, Current) \in Seq(Streams)
  BY <1>1, AppendElements DEF BatchType
<1>3. /\ b \in BatchType /\ b.ids = batch.ids /\ b.turn = batch.turn
      /\ b.failed = batch.failed
      /\ b.processed = Append(batch.processed, Current)
  BY <1>1, <1>2 DEF BatchType
<1> HIDE DEF b
<1>4. batch' = NextTurn(b)
  BY DEF b
<1> QED
  BY <1>3, <1>4, NextTurnType

-----------------------------------------------------------------------------
(* The batch.                                                              *)

\* The current id is a new one, and is behind the loop in its next turn.
LEMMA TurnAnswers ==
    ASSUME Typed, BatchKept, batch.turn <= Len(batch.ids),
           batch'.ids = batch.ids, batch'.turn = batch.turn + 1
    PROVE  /\ Current \notin Answered
           /\ Answered' = Answered \union {Current}
           /\ Distinct(batch'.ids)
<1>1. /\ batch.turn \in DOMAIN batch.ids /\ DOMAIN batch.ids \subseteq Nat
      /\ batch.turn \in Nat /\ Current = batch.ids[batch.turn]
  BY BatchTypes DEF Typed, BatchType, Current
<1>2. Current \notin Answered
  BY <1>1 DEF Answered, BatchKept, Distinct
<1>3. {j \in DOMAIN batch.ids : j < batch.turn + 1}
          = {j \in DOMAIN batch.ids : j < batch.turn} \union {batch.turn}
  BY <1>1
<1> QED
  BY <1>1, <1>2, <1>3 DEF Answered, BatchKept

\* A failed turn keeps the answers apart; after the enqueue it is an "error".
LEMMA FailKept ==
    ASSUME Typed, BatchKept, NEW reason \in Reasons, Fail(reason),
           batch.pc \in {"turn", "enqueue", "check", "write"},
           batch.pc \in {"check", "write"} => reason = "error",
           UNCHANGED queued
    PROVE  BatchKept' /\ batch' \in BatchType
<1>1. batch.turn <= Len(batch.ids)
  BY DEF BatchKept
<1>2. /\ batch' \in BatchType
      /\ batch'.ids = batch.ids /\ batch'.turn = batch.turn + 1
      /\ batch'.processed = batch.processed
      /\ batch'.failed = Append(batch.failed, <<Current, reason>>)
      /\ batch'.pc = IF batch.turn = Len(batch.ids) THEN "done" ELSE "turn"
  BY <1>1, FailType
<1>3. /\ Current \notin Answered
      /\ Answered' = Answered \union {Current}
      /\ Distinct(batch'.ids)
  BY <1>1, <1>2, TurnAnswers
<1>4. /\ <<Current, reason>> \in Streams \X Reasons
      /\ batch.failed \in Seq(Streams \X Reasons) /\ batch.processed \in Seq(Streams)
      /\ batch.turn \in Nat /\ Len(batch.ids) \in Nat
  BY <1>1, BatchTypes DEF Typed, BatchType
<1>5. /\ Elements(batch'.failed) = Elements(batch.failed) \union {<<Current, reason>>}
      /\ Len(batch'.failed) = Len(batch.failed) + 1
  <2> DEFINE S == Streams \X Reasons
             x == <<Current, reason>>
             answers == batch.failed
  <2>1. x \in S /\ answers \in Seq(S)
    BY <1>4
  <2>2. batch'.failed = Append(answers, x)
    BY <1>2
  <2> HIDE DEF S, x, answers
  <2>3. /\ Elements(Append(answers, x)) = Elements(answers) \union {x}
        /\ Len(Append(answers, x)) = Len(answers) + 1
    BY <2>1, AppendElements
  <2> QED
    BY <2>2, <2>3 DEF x, answers
<1>6. Failed' = Failed \union {Current}
  <2>1. Failed' = {f[1] : f \in Elements(batch.failed) \union {<<Current, reason>>}}
    BY <1>5 DEF Failed
  <2>2. \A E, x : {f[1] : f \in E \union {x}} = {f[1] : f \in E} \union {x[1]}
    OBVIOUS
  <2>3. <<Current, reason>>[1] = Current
    OBVIOUS
  <2> QED
    BY <2>1, <2>2, <2>3 DEF Failed
<1>7. Len(batch.processed) \in Nat /\ Len(batch.failed) \in Nat
  BY <1>4
<1>8. Len(batch'.processed) + Len(batch'.failed) = batch'.turn - 1
  <2>1. Len(batch.processed) + Len(batch.failed) = batch.turn - 1
    BY DEF BatchKept
  <2>2. Len(batch'.processed) = Len(batch.processed)
    BY <1>2
  <2>3. Len(batch'.failed) = Len(batch.failed) + 1 /\ batch'.turn = batch.turn + 1
    BY <1>2, <1>5
  <2>4. batch.turn \in Nat
    BY <1>4
  <2> DEFINE a  == Len(batch.processed)
             b  == Len(batch.failed)
             t  == batch.turn
             a1 == Len(batch'.processed)
             b1 == Len(batch'.failed)
             t1 == batch'.turn
  <2> HIDE DEF a, b, t, a1, b1, t1
  <2>5. a \in Nat /\ b \in Nat /\ t \in Nat
    BY <1>7, <2>4 DEF a, b, t
  <2>6. a + b = t - 1 /\ t1 = t + 1
    BY <2>1, <2>3 DEF a, b, t, t1
  <2>7. a1 = a
    BY <2>2 DEF a, a1
  <2>8. b1 = b + 1
    BY <2>3 DEF b, b1
  <2>9. a1 + b1 = t1 - 1
    BY <2>5, <2>6, <2>7, <2>8
  <2> QED
    BY <2>9 DEF a1, b1, t1
<1>9. /\ batch'.pc \in {"turn", "enqueue", "check", "write"} => batch'.turn <= Len(batch'.ids)
      /\ batch'.pc = "done" => batch'.turn = Len(batch'.ids) + 1
      /\ batch'.pc \notin {"check", "write"}
  BY <1>1, <1>2, <1>4
<1>10. \A s \in queued' \ Elements(batch'.processed) : <<s, "error">> \in Elements(batch'.failed)
  BY <1>2, <1>5 DEF BatchKept
<1>11. /\ Elements(batch'.processed) \intersect Failed' = {}
       /\ Elements(batch'.processed) \union Failed' = Answered'
       /\ Elements(batch'.processed) \subseteq queued'
  BY <1>2, <1>3, <1>6 DEF BatchKept
<1> QED
  BY <1>2, <1>3, <1>8, <1>9, <1>10, <1>11 DEF BatchKept

\* A successful one does, as its task is queued.
LEMMA DoneKept ==
    ASSUME Typed, BatchKept, batch.pc = "write", UNCHANGED queued,
           batch' = NextTurn([batch EXCEPT !.processed = Append(@, Current)])
    PROVE  BatchKept' /\ batch' \in BatchType
<1>1. batch.turn <= Len(batch.ids)
  BY DEF BatchKept
<1>2. /\ batch' \in BatchType
      /\ batch'.ids = batch.ids /\ batch'.turn = batch.turn + 1
      /\ batch'.processed = Append(batch.processed, Current)
      /\ batch'.failed = batch.failed
      /\ batch'.pc = IF batch.turn = Len(batch.ids) THEN "done" ELSE "turn"
  BY <1>1, DoneType
<1>3. /\ Current \notin Answered
      /\ Answered' = Answered \union {Current}
      /\ Distinct(batch'.ids)
  BY <1>1, <1>2, TurnAnswers
<1>4. /\ Current \in Streams
      /\ batch.failed \in Seq(Streams \X Reasons) /\ batch.processed \in Seq(Streams)
      /\ batch.turn \in Nat /\ Len(batch.ids) \in Nat
  BY <1>1, BatchTypes DEF Typed, BatchType
<1>5. /\ Elements(batch'.processed) = Elements(batch.processed) \union {Current}
      /\ Len(batch'.processed) = Len(batch.processed) + 1
  <2> DEFINE x == Current
             answers == batch.processed
  <2>1. x \in Streams /\ answers \in Seq(Streams)
    BY <1>4
  <2>2. batch'.processed = Append(answers, x)
    BY <1>2
  <2> HIDE DEF x, answers
  <2>3. /\ Elements(Append(answers, x)) = Elements(answers) \union {x}
        /\ Len(Append(answers, x)) = Len(answers) + 1
    BY <2>1, AppendElements
  <2> QED
    BY <2>2, <2>3 DEF x, answers
<1>6. Failed' = Failed
  BY <1>2 DEF Failed
<1>7. Len(batch.processed) \in Nat /\ Len(batch.failed) \in Nat
  BY <1>4
<1>8. Len(batch'.processed) + Len(batch'.failed) = batch'.turn - 1
  <2>1. Len(batch.processed) + Len(batch.failed) = batch.turn - 1
    BY DEF BatchKept
  <2>2. Len(batch'.failed) = Len(batch.failed)
    BY <1>2
  <2>3. Len(batch'.processed) = Len(batch.processed) + 1 /\ batch'.turn = batch.turn + 1
    BY <1>2, <1>5
  <2>4. batch.turn \in Nat
    BY <1>4
  <2> DEFINE a  == Len(batch.processed)
             b  == Len(batch.failed)
             t  == batch.turn
             a1 == Len(batch'.processed)
             b1 == Len(batch'.failed)
             t1 == batch'.turn
  <2> HIDE DEF a, b, t, a1, b1, t1
  <2>5. a \in Nat /\ b \in Nat /\ t \in Nat
    BY <1>7, <2>4 DEF a, b, t
  <2>6. a + b = t - 1 /\ t1 = t + 1
    BY <2>1, <2>3 DEF a, b, t, t1
  <2>7. b1 = b
    BY <2>2 DEF b, b1
  <2>8. a1 = a + 1
    BY <2>3 DEF a, a1
  <2>9. a1 + b1 = t1 - 1
    BY <2>5, <2>6, <2>7, <2>8
  <2> QED
    BY <2>9 DEF a1, b1, t1
<1>9. /\ batch'.pc \in {"turn", "enqueue", "check", "write"} => batch'.turn <= Len(batch'.ids)
      /\ batch'.pc = "done" => batch'.turn = Len(batch'.ids) + 1
      /\ batch'.pc \notin {"check", "write"}
  BY <1>1, <1>2, <1>4
<1>10. \A s \in queued' \ Elements(batch'.processed) : <<s, "error">> \in Elements(batch'.failed)
  BY <1>2, <1>5 DEF BatchKept
<1>11. /\ Elements(batch'.processed) \intersect Failed' = {}
       /\ Elements(batch'.processed) \union Failed' = Answered'
       /\ Elements(batch'.processed) \subseteq queued'
  BY <1>3, <1>5, <1>6 DEF BatchKept
<1> QED
  BY <1>2, <1>3, <1>8, <1>9, <1>10, <1>11 DEF BatchKept

\* Within a turn only the program counter moves; the task queued is the
\* current id's.
LEMMA TurnGoesOn ==
    ASSUME Typed, BatchKept, NEW pc \in {"enqueue", "check", "write"},
           batch' = [batch EXCEPT !.pc = pc],
           \/ pc = "enqueue" /\ batch.pc = "turn" /\ UNCHANGED queued
           \/ pc = "check" /\ batch.pc = "enqueue" /\ queued' = queued \union {Current}
           \/ pc = "write" /\ batch.pc = "check" /\ UNCHANGED queued
    PROVE  BatchKept' /\ batch' \in BatchType
<1>1. /\ batch' \in BatchType /\ batch'.pc = pc /\ batch'.ids = batch.ids
      /\ batch'.turn = batch.turn
      /\ batch'.processed = batch.processed /\ batch'.failed = batch.failed
  BY DEF Typed, BatchType
<1>2. Answered' = Answered /\ Failed' = Failed /\ Current' = Current
  BY <1>1 DEF Answered, Failed, Current
<1>3. /\ Distinct(batch'.ids)
      /\ Len(batch'.processed) + Len(batch'.failed) = batch'.turn - 1
      /\ batch'.turn <= Len(batch'.ids) /\ batch'.pc # "done"
      /\ Elements(batch'.processed) \intersect Failed' = {}
      /\ Elements(batch'.processed) \union Failed' = Answered'
      /\ Elements(batch'.processed) \subseteq queued'
  BY <1>1, <1>2 DEF BatchKept
<1>4. batch'.pc \in {"check", "write"} => Current' \in queued'
  BY <1>1, <1>2 DEF BatchKept
<1>5. \A s \in queued' \ Elements(batch'.processed) :
          \/ <<s, "error">> \in Elements(batch'.failed)
          \/ batch'.pc \in {"check", "write"} /\ s = Current'
  BY <1>1, <1>2 DEF BatchKept
<1> QED
  BY <1>1, <1>3, <1>4, <1>5 DEF BatchKept

\* What a step does to the batch, whichever it is.
LEMMA BatchStep ==
    ASSUME Typed, BatchKept, batch.pc = "idle" => queued = {}, [Next]_vars
    PROVE  /\ BatchKept' /\ batch' \in BatchType /\ queued' \subseteq Streams
           /\ batch'.pc = "idle" => queued' = {}
<1>0. {"not found", "forbidden", "source missing", "error"} \subseteq Reasons
  BY DEF Reasons
<1>1. CASE UNCHANGED batchVars
  <2>1. batch' = batch /\ queued' = queued
    BY <1>1 DEF batchVars
  <2> QED
    BY <2>1 DEF Typed, BatchKept, Answered, Failed, Current
<1>2. CASE BatchBegin
  <2>1. PICK ids \in Batches :
           /\ ids # <<>> /\ Distinct(ids)
           /\ batch' = [NoBatch EXCEPT !.pc = "turn", !.ids = ids, !.copy = row]
    BY <1>2 DEF BatchBegin
  <2>2. ids \in Seq(Streams) /\ row \in [Streams -> RowType] /\ Len(ids) >= 1
    <3>1. ids \in Seq(Streams)
      BY LibraryConstants
    <3> QED
      BY <2>1, <3>1 DEF Typed
  <2>3. /\ batch' \in BatchType /\ batch'.pc = "turn" /\ batch'.ids = ids /\ batch'.turn = 1
        /\ batch'.processed = <<>> /\ batch'.failed = <<>>
    <3>1. batch' = [pc |-> "turn", ids |-> ids, copy |-> row, turn |-> 1,
                    processed |-> <<>>, failed |-> <<>>]
      BY <2>1 DEF NoBatch
    <3>2. <<>> \in Seq(Streams) /\ <<>> \in Seq(Streams \X Reasons)
      OBVIOUS
    <3> QED
      BY <2>2, <3>1, <3>2 DEF BatchType
  <2>4. queued' = {} /\ queued = {}
    BY <1>2 DEF BatchBegin
  <2>5. Elements(<<>>) = {}
    BY DEF Elements
  <2>6. Answered' = {} /\ Failed' = {}
    BY <2>2, <2>3, <2>5 DEF Answered, Failed
  <2>7. Len(batch'.processed) + Len(batch'.failed) = batch'.turn - 1
    BY <2>3
  <2> QED
    BY <2>1, <2>2, <2>3, <2>4, <2>5, <2>6, <2>7 DEF BatchKept
<1>3. CASE BatchTurn
  <2>1. batch.pc = "turn" /\ UNCHANGED queued
    BY <1>3 DEF BatchTurn
  <2>2. \/ \E reason \in Reasons : Fail(reason)
        \/ batch' = [batch EXCEPT !.pc = "enqueue"]
    BY <1>0, <1>3 DEF BatchTurn
  <2>3. BatchKept' /\ batch' \in BatchType
    BY <2>1, <2>2, FailKept, TurnGoesOn
  <2>4. batch'.pc # "idle"
    BY <2>1, <2>2, FailType DEF BatchKept, Typed, BatchType
  <2> QED
    BY <2>1, <2>3, <2>4 DEF Typed
<1>4. CASE BatchEnqueue
  <2>1. batch.pc = "enqueue" /\ batch.turn <= Len(batch.ids)
    BY <1>4 DEF BatchEnqueue, BatchKept
  <2>2. \/ queued' = queued \union {Current} /\ batch' = [batch EXCEPT !.pc = "check"]
        \/ Fail("error") /\ UNCHANGED queued
    BY <1>4 DEF BatchEnqueue
  <2>3. BatchKept' /\ batch' \in BatchType
    BY <1>0, <2>1, <2>2, FailKept, TurnGoesOn
  <2>4. batch'.pc # "idle"
    BY <1>0, <2>1, <2>2, FailType DEF Typed, BatchType
  <2> QED
    BY <2>1, <2>2, <2>3, <2>4, BatchTypes DEF Typed
<1>5. CASE BatchCheck
  <2>1. batch.pc = "check" /\ batch.turn <= Len(batch.ids) /\ UNCHANGED queued
    BY <1>5 DEF BatchCheck, BatchKept
  <2>2. batch' = [batch EXCEPT !.pc = "write"] \/ Fail("error")
    BY <1>5 DEF BatchCheck
  <2>3. BatchKept' /\ batch' \in BatchType
    BY <1>0, <2>1, <2>2, FailKept, TurnGoesOn
  <2>4. batch'.pc # "idle"
    BY <1>0, <2>1, <2>2, FailType DEF Typed, BatchType
  <2> QED
    BY <2>1, <2>3, <2>4 DEF Typed
<1>6. CASE BatchWrite
  <2>1. batch.pc = "write" /\ batch.turn <= Len(batch.ids) /\ UNCHANGED queued
    BY <1>6 DEF BatchWrite, BatchKept
  <2>2. \/ batch' = NextTurn([batch EXCEPT !.processed = Append(@, Current)])
        \/ Fail("error")
    BY <1>6 DEF BatchWrite
  <2>3. BatchKept' /\ batch' \in BatchType
    BY <1>0, <2>1, <2>2, FailKept, DoneKept
  <2>4. batch'.pc # "idle"
    BY <1>0, <2>1, <2>2, FailType, DoneType, ZenonT(60)
  <2> QED
    BY <2>1, <2>3, <2>4 DEF Typed
<1>7. \/ UNCHANGED batchVars
      \/ BatchBegin \/ BatchTurn \/ BatchEnqueue \/ BatchCheck \/ BatchWrite
  BY DEF Next, vars, WalkBegin, WalkCount, WalkSelect, Create, Process, Publish,
         Unpublish, Hide, FacesDone, Remove, OtherHandler
<1> QED
  BY <1>1, <1>2, <1>3, <1>4, <1>5, <1>6, <1>7

-----------------------------------------------------------------------------
(* Every other step.                                                       *)

\* To the lists and the walk, any handler is new rows; so is the write of the
\* batch, which puts back a row of its snapshot.
LEMMA StepKinds ==
    ASSUME Typed, BatchKept, [Next]_vars
    PROVE  /\ input' \subseteq Streams /\ changes' \in 0..MaxChanges
           /\ \/ WalkBegin \/ WalkCount \/ WalkSelect
              \/ \E r \in [Streams -> RowType] : Become(r)
              \/ UNCHANGED <<row, walkVars>>
<1> DEFINE Rows == [Streams -> RowType]
<1>0. /\ row \in Rows /\ input \subseteq Streams /\ changes \in 0..MaxChanges
      /\ MaxChanges \in Nat
  BY LibraryConstants DEF Typed
<1>1. ASSUME NEW r \in Rows, NEW i \in SUBSET Streams, OtherHandler(r, i)
      PROVE  /\ input' \subseteq Streams /\ changes' \in 0..MaxChanges
             /\ \E q \in Rows : Become(q)
  <2>1. changes < MaxChanges /\ changes' = changes + 1 /\ Become(r) /\ input' = i
    BY <1>1 DEF OtherHandler
  <2>2. changes + 1 \in 0..MaxChanges
    BY <1>0, <2>1
  <2> QED
    BY <2>1, <2>2
<1>2. ASSUME NEW s \in Streams, NEW x \in RowType PROVE [row EXCEPT ![s] = x] \in Rows
  BY <1>0
<1>3. CASE Create
  BY <1>0, <1>1, <1>2, <1>3, RowTypes DEF Create
<1>4. ASSUME NEW s \in Streams,
             Process(s) \/ Publish(s) \/ Unpublish(s) \/ Hide(s) \/ FacesDone(s) \/ Remove(s)
      PROVE  /\ input' \subseteq Streams /\ changes' \in 0..MaxChanges
             /\ \E q \in Rows : Become(q)
  <2>1. /\ \A st \in {"draft", "ready", "published"} : [row EXCEPT ![s].status = st] \in Rows
        /\ [row EXCEPT ![s].public = ~@] \in Rows
        /\ [row EXCEPT ![s].faces = TRUE] \in Rows
        /\ [row EXCEPT ![s].there = FALSE] \in Rows
    BY <1>0 DEF RowType
  <2>2. input \union {s} \in SUBSET Streams /\ input \ {s} \in SUBSET Streams
        /\ input \in SUBSET Streams
    BY <1>0
  <2>3. CASE Process(s)
    BY <1>1, <2>1, <2>2, <2>3 DEF Process
  <2>4. CASE Publish(s)
    BY <1>1, <2>1, <2>2, <2>4 DEF Publish
  <2>5. CASE Unpublish(s)
    BY <1>1, <2>1, <2>2, <2>5 DEF Unpublish
  <2>6. CASE Hide(s)
    BY <1>1, <2>1, <2>2, <2>6 DEF Hide
  <2>7. CASE FacesDone(s)
    BY <1>1, <2>1, <2>2, <2>7 DEF FacesDone
  <2>8. CASE Remove(s)
    BY <1>1, <2>1, <2>2, <2>8 DEF Remove
  <2> QED
    BY <1>4, <2>3, <2>4, <2>5, <2>6, <2>7, <2>8
<1>5. CASE BatchWrite
  <2>1. batch.turn <= Len(batch.ids)
    BY <1>5 DEF BatchWrite, BatchKept
  <2>2. batch.copy[Current] \in RowType /\ Current \in Streams
    BY <2>1, BatchTypes DEF Typed, BatchType
  <2>3. \/ Become([row EXCEPT ![Current] = batch.copy[Current]])
        \/ UNCHANGED <<row, walkVars>>
    BY <1>5 DEF BatchWrite
  <2>4. input' = input /\ changes' = changes
    BY <1>5 DEF BatchWrite
  <2> QED
    BY <1>0, <1>2, <2>2, <2>3, <2>4
<1>6. CASE BatchBegin \/ BatchTurn \/ BatchEnqueue \/ BatchCheck \/ UNCHANGED vars
  BY <1>0, <1>6 DEF BatchBegin, BatchTurn, BatchEnqueue, BatchCheck, vars
<1>7. CASE WalkBegin \/ WalkCount \/ WalkSelect
  BY <1>0, <1>7 DEF WalkBegin, WalkCount, WalkSelect
<1> QED
  BY <1>3, <1>4, <1>5, <1>6, <1>7 DEF Next

\* What new rows do to the history.
LEMMA BecomeTypes ==
    ASSUME Typed, NEW r \in [Streams -> RowType], Become(r)
    PROVE  /\ row' = r /\ walk' = walk
           /\ stayed' \subseteq Streams /\ came' \in BOOLEAN /\ gone' \in BOOLEAN
BY DEF Typed, Become

\* The walk's steps keep the rows.
LEMMA WalkTypes ==
    ASSUME Typed, WalkBegin \/ WalkCount \/ WalkSelect
    PROVE  /\ row' = row /\ came' = came /\ gone' = gone
           /\ walk' \in WalkType /\ stayed' \subseteq Streams
<1>1. CASE WalkBegin
  <2>1. PICK kind \in Kinds, sort \in Sorts, limit \in Limits :
            /\ walk' = [NoWalk EXCEPT !.kind = kind, !.sort = sort, !.limit = limit,
                                      !.pc = "count"]
            /\ stayed' = Listed(kind, row)
    BY <1>1 DEF WalkBegin
  <2>2. walk' = [kind |-> kind, sort |-> sort, limit |-> limit, pc |-> "count",
                 total |-> 0, seen |-> <<>>]
    BY <2>1 DEF NoWalk
  <2>3. 0 \in 0..Cardinality(Streams) /\ <<>> \in Seq(Streams)
    BY StreamsFinite
  <2>4. walk' \in WalkType
    BY <2>2, <2>3 DEF WalkType
  <2> QED
    BY <1>1, <2>1, <2>4, ListType DEF WalkBegin
<1>2. CASE WalkCount
  <2>1. walk' = [walk EXCEPT !.pc = "select", !.total = Cardinality(List)]
    BY <1>2 DEF WalkCount, List
  <2>2. Cardinality(List) \in 0..Cardinality(Streams)
    BY StreamsFinite, ListFinite
  <2> QED
    BY <1>2, <2>1, <2>2 DEF WalkCount, Typed, WalkType
<1>3. CASE WalkSelect
  <2>1. PICK order \in Orders(walk.sort, List, row) :
            walk' = [walk EXCEPT
                        !.seen = @ \o Page(order, walk.limit, Len(walk.seen)),
                        !.pc = IF Page(order, walk.limit, Len(walk.seen)) = <<>>
                               THEN "done" ELSE "count"]
    BY <1>3 DEF WalkSelect, List
  <2> DEFINE page == Page(order, walk.limit, Len(walk.seen))
  <2>2. walk \in WalkType /\ walk.seen \in Seq(Streams) /\ Len(walk.seen) \in Nat
        /\ walk.limit \in Limits \union {0}
    BY DEF Typed, WalkType
  <2>3. order \in Seq(Streams)
    <3>1. order \in [1..Cardinality(List) -> List]
      BY DEF Orders
    <3>2. Cardinality(List) \in Nat /\ List \subseteq Streams
      BY StreamsFinite, ListFinite
    <3>3. order \in [1..Cardinality(List) -> Streams]
      BY <3>1, <3>2
    <3> QED
      BY <3>2, <3>3
  <2>4. page \in Seq(Streams)
    BY <2>2, <2>3, PageProperties
  <2> HIDE DEF page
  <2>5. walk' = [walk EXCEPT !.seen = walk.seen \o page,
                             !.pc = IF page = <<>> THEN "done" ELSE "count"]
    BY <2>1 DEF page
  <2>6. walk.seen \o page \in Seq(Streams)
    BY <2>2, <2>4
  <2> QED
    BY <1>3, <2>2, <2>5, <2>6 DEF WalkSelect, Typed, WalkType
<1> QED
  BY <1>1, <1>2, <1>3

-----------------------------------------------------------------------------
(* What holds whatever the lists are sorted by.                            *)

IInv == Typed /\ BatchKept /\ (batch.pc = "idle" => queued = {})

LEMMA InitInvariant == Init => IInv
<1> SUFFICES ASSUME Init PROVE IInv
  OBVIOUS
<1>1. row \in [Streams -> RowType] /\ input \subseteq Streams
  <2>1. row \in [Streams -> {Absent, Row(TRUE, "ready"), Row(TRUE, "published")}]
    BY DEF Init
  <2> QED
    BY <2>1, RowTypes DEF Init
<1>2. changes \in 0..MaxChanges
  BY LibraryConstants DEF Init
<1>3. walk \in WalkType
  <2>1. 0 \in 0..Cardinality(Streams) /\ <<>> \in Seq(Streams)
    BY StreamsFinite
  <2> QED
    BY <2>1 DEF Init, NoWalk, WalkType
<1>4. stayed \subseteq Streams /\ came \in BOOLEAN /\ gone \in BOOLEAN /\ queued = {}
  BY DEF Init
<1>5. batch \in BatchType
  <2>1. NoBatch.copy \in [Streams -> RowType] /\ batch = NoBatch
    BY RowTypes DEF NoBatch, Init
  <2>2. <<>> \in Seq(Streams) /\ <<>> \in Seq(Streams \X Reasons)
    OBVIOUS
  <2> QED
    BY <2>1, <2>2 DEF NoBatch, BatchType
<1>6. BatchKept
  <2>1. /\ batch.pc = "idle" /\ batch.ids = <<>> /\ batch.turn = 1
        /\ batch.processed = <<>> /\ batch.failed = <<>>
    BY DEF Init, NoBatch
  <2>2. Elements(<<>>) = {} /\ Answered = {} /\ Failed = {}
    BY <2>1 DEF Elements, Answered, Failed
  <2>3. Len(batch.processed) + Len(batch.failed) = batch.turn - 1
    BY <2>1
  <2> QED
    BY <1>4, <2>1, <2>2, <2>3 DEF BatchKept, Distinct
<1> QED
  BY <1>1, <1>2, <1>3, <1>4, <1>5, <1>6 DEF IInv, Typed

LEMMA InvariantStep == IInv /\ [Next]_vars => IInv'
<1> SUFFICES ASSUME IInv, [Next]_vars PROVE IInv'
  OBVIOUS
<1>1. Typed /\ BatchKept /\ (batch.pc = "idle" => queued = {})
  BY DEF IInv
<1>2. /\ BatchKept' /\ batch' \in BatchType /\ queued' \subseteq Streams
      /\ batch'.pc = "idle" => queued' = {}
  BY <1>1, BatchStep
<1>3. /\ input' \subseteq Streams /\ changes' \in 0..MaxChanges
      /\ \/ WalkBegin \/ WalkCount \/ WalkSelect
         \/ \E r \in [Streams -> RowType] : Become(r)
         \/ UNCHANGED <<row, walkVars>>
  BY <1>1, StepKinds
<1>4. /\ row' \in [Streams -> RowType] /\ walk' \in WalkType
      /\ stayed' \subseteq Streams /\ came' \in BOOLEAN /\ gone' \in BOOLEAN
  BY <1>1, <1>3, BecomeTypes, WalkTypes DEF Typed, walkVars
<1> QED
  BY <1>2, <1>3, <1>4 DEF IInv, Typed

LEMMA Invariant == Spec => []IInv
BY InitInvariant, InvariantStep, PTL DEF Spec

\* The types of rows, walk and batch hold in every state, and the batch has
\* answered for each of the turns behind its loop: what ProcessFacesBatch
\* appends, it appends to one of its two lists and once a turn.
THEOREM TypeCorrect == Spec => []TypeOK
<1>1. IInv => TypeOK
  <2> SUFFICES ASSUME IInv PROVE TypeOK
    OBVIOUS
  <2>1. walk \in WalkType /\ batch \in BatchType
    BY DEF IInv, Typed
  <2>2. /\ walk.pc \in {"idle", "count", "select", "done"}
        /\ walk.total \in 0..Cardinality(Streams) /\ walk.seen \in Seq(Streams)
    BY <2>1 DEF WalkType
  <2>3. /\ batch.pc \in {"idle", "turn", "enqueue", "check", "write", "done"}
        /\ batch.failed \in Seq(Streams \X Reasons)
    BY <2>1 DEF BatchType
  <2> QED
    BY <2>2, <2>3 DEF IInv, Typed, BatchKept, TypeOK, RowType
<1> QED
  BY <1>1, Invariant, PTL

\* The answer of ProcessFacesBatch names every id once, as processed or as
\* failed, and tells which tasks were queued: all of the processed, and of the
\* failed only those whose row could not be written after the enqueue.
THEOREM BatchAnswers == Spec => []BatchAnswersEach
<1>1. IInv => BatchAnswersEach
  <2> SUFFICES ASSUME IInv, batch.pc = "done" PROVE BatchAnswersEach
    BY DEF BatchAnswersEach
  <2>1. batch \in BatchType /\ BatchKept /\ batch.turn = Len(batch.ids) + 1
    BY DEF IInv, Typed, BatchKept
  <2>2. Answered = {batch.ids[i] : i \in DOMAIN batch.ids}
    <3>1. \A j \in DOMAIN batch.ids : j < batch.turn
      BY <2>1 DEF BatchType
    <3> QED
      BY <3>1 DEF Answered
  <2>3. \A s \in queued \ Elements(batch.processed) : <<s, "error">> \in Elements(batch.failed)
    BY <2>1 DEF BatchKept
  <2>4. \A s \in queued \ Elements(batch.processed) :
           \E i \in DOMAIN batch.failed : batch.failed[i] = <<s, "error">>
    BY <2>3 DEF Elements
  <2>5. Failed = {f[1] : f \in {batch.failed[i] : i \in DOMAIN batch.failed}}
    BY DEF Failed, Elements
  <2>6. Elements(batch.processed) = {batch.processed[i] : i \in DOMAIN batch.processed}
    BY DEF Elements
  <2>7. /\ Elements(batch.processed) \intersect Failed = {}
        /\ Elements(batch.processed) \union Failed = {batch.ids[i] : i \in DOMAIN batch.ids}
        /\ Elements(batch.processed) \subseteq queued
    BY <2>1, <2>2 DEF BatchKept
  <2> QED
    BY <2>4, <2>5, <2>6, <2>7 DEF BatchAnswersEach
<1> QED
  BY <1>1, Invariant, PTL

-----------------------------------------------------------------------------
(* The walk, over lists sorted by creation: the status a stream moves in   *)
(* while the client walks is no order to walk in.                          *)

ByCreation == Sorts \subseteq {"created_at"}

Fresh == walk.pc = "idle" => walk.seen = <<>> /\ ~came /\ ~gone

LEMMA CountIsNat ==
    Cardinality(List) \in Nat /\ \A s : Cardinality(Ahead(s)) \in Nat
BY StreamsFinite, ListFinite

\* What a page shows is the list from where the last one ended.
LEMMA SelectEffect ==
    ASSUME Typed, ByCreation, WalkSelect
    PROVE  \E order \in Orders("created_at", List, row), m \in Nat :
              LET off == Len(walk.seen)
                  n   == Cardinality(List)
              IN /\ off \in Nat /\ walk'.seen \in Seq(Streams)
                 /\ Len(walk'.seen) = off + m
                 /\ \A i \in 1..off : walk'.seen[i] = walk.seen[i]
                 /\ \A i \in (off + 1)..(off + m) : i \in 1..n /\ walk'.seen[i] = order[i]
                 /\ walk'.kind = walk.kind /\ walk'.total = walk.total
                 /\ \/ m = 0 /\ off >= n /\ walk'.pc = "done"
                    \/ m > 0 /\ off + m <= n /\ walk'.pc = "count"
<1>1. /\ walk \in WalkType /\ walk.seen \in Seq(Streams) /\ Len(walk.seen) \in Nat
      /\ walk.limit \in Limits \union {0} /\ walk.sort = "created_at"
  <2>1. walk \in WalkType /\ walk.seen \in Seq(Streams) /\ walk.limit \in Limits \union {0}
    BY DEF Typed, WalkType
  <2>2. walk.sort \in Sorts \union {"created_at"}
    BY DEF Typed, WalkType
  <2>3. walk.sort = "created_at"
    BY <2>2 DEF ByCreation
  <2> QED
    BY <2>1, <2>3
<1>2. PICK order \in Orders("created_at", List, row) :
          walk' = [walk EXCEPT
                      !.seen = @ \o Page(order, walk.limit, Len(walk.seen)),
                      !.pc = IF Page(order, walk.limit, Len(walk.seen)) = <<>>
                             THEN "done" ELSE "count"]
  BY <1>1 DEF WalkSelect, List
<1> DEFINE off  == Len(walk.seen)
           n    == Cardinality(List)
           page == Page(order, walk.limit, off)
           m    == Len(page)
<1>3. order \in Seq(Streams) /\ Len(order) = n
  BY ListFinite, OrderProperties
<1>4. DOMAIN order = 1..n /\ n \in Nat
  BY <1>3
<1>5. /\ page \in Seq(Streams) /\ (off >= n <=> page = <<>>)
      /\ off < n => off + m <= n
      /\ \A i \in DOMAIN page : off + i \in 1..n /\ page[i] = order[off + i]
  BY <1>1, <1>3, <1>4, PageProperties, ZenonT(60)
<1> HIDE DEF page, n
<1>6. m \in Nat /\ DOMAIN page = 1..m /\ (page = <<>> <=> m = 0)
  BY <1>5
<1>7. /\ walk'.seen = walk.seen \o page /\ walk'.kind = walk.kind
      /\ walk'.total = walk.total
      /\ walk'.pc = IF page = <<>> THEN "done" ELSE "count"
  BY <1>1, <1>2 DEF page, WalkType
<1>8. /\ walk'.seen \in Seq(Streams) /\ Len(walk'.seen) = off + m
      /\ \A i \in 1..(off + m) :
            walk'.seen[i] = IF i <= off THEN walk.seen[i] ELSE page[i - off]
  BY <1>1, <1>5, <1>7, ConcatProperties
<1>9. ASSUME NEW i \in (off + 1)..(off + m)
      PROVE  i \in 1..n /\ walk'.seen[i] = order[i]
  <2>1. i - off \in 1..m /\ off + (i - off) = i /\ i \in 1..(off + m) /\ ~(i <= off)
    BY <1>1, <1>6
  <2> QED
    BY <1>5, <1>6, <1>8, <2>1
<1>10. \A i \in 1..off : walk'.seen[i] = walk.seen[i]
  <2>1. \A i \in 1..off : i \in 1..(off + m) /\ i <= off
    BY <1>1, <1>6
  <2> QED
    BY <1>8, <2>1
<1>11. \/ m = 0 /\ off >= n /\ walk'.pc = "done"
       \/ m > 0 /\ off + m <= n /\ walk'.pc = "count"
  BY <1>1, <1>4, <1>5, <1>6, <1>7
<1> HIDE DEF m
<1> QED
  BY <1>1, <1>2, <1>6, <1>7, <1>8, <1>9, <1>10, <1>11 DEF n

\* A walk begins with the list, having seen nothing of it.
LEMMA WalkBeginKept == ASSUME Typed, Fresh, WalkBegin PROVE WalkKept' /\ Fresh'
<1>1. PICK kind \in Kinds :
        /\ walk'.pc = "count" /\ walk'.kind = kind /\ walk'.seen = <<>>
        /\ stayed' = Listed(kind, row) /\ row' = row
  BY DEF WalkBegin, NoWalk
<1>2. stayed' = List'
  BY <1>1 DEF List
<1>3. Len(walk'.seen) = 0 /\ DOMAIN walk'.seen = {}
  BY <1>1
<1>4. \A s : Cardinality(Ahead(s)') \in Nat /\ Cardinality(List') \in Nat
  <2>1. \A s : Ahead(s)' \in SUBSET Streams
    BY ListType DEF Ahead, List
  <2> QED
    BY <2>1, ListType, StreamsFinite DEF List
<1>5. NothingPassed'
  BY <1>1, <1>2, <1>3, <1>4 DEF NothingPassed, WalkMissesNothing
<1>6. NothingTwice'
  BY <1>1, <1>3 DEF NothingTwice, Distinct
<1>7. TotalKept'
  BY <1>1, <1>3, <1>4 DEF TotalKept
<1> QED
  BY <1>1, <1>5, <1>6, <1>7 DEF WalkKept, Fresh

\* The count takes note of the list's size.
LEMMA WalkCountKept == ASSUME Typed, WalkKept, WalkCount PROVE WalkKept' /\ Fresh'
<1>1. /\ walk'.pc = "select" /\ walk'.kind = walk.kind /\ walk'.seen = walk.seen
      /\ walk'.total = Cardinality(List) /\ row' = row
      /\ stayed' = stayed /\ came' = came /\ gone' = gone
      /\ walk.pc = "count"
  BY DEF WalkCount, Typed, WalkType, List
<1>2. List' = List /\ \A s : Ahead(s)' = Ahead(s) /\ Saw(s)' = Saw(s)
  BY <1>1 DEF List, Ahead, Saw
<1>3. Watched /\ Watched' /\ walk'.pc # "done"
  BY <1>1 DEF Watched
<1>4. NothingPassed'
  BY <1>1, <1>2, <1>3 DEF WalkKept, NothingPassed, WalkMissesNothing
<1>5. NothingTwice'
  BY <1>1, <1>2, <1>3 DEF WalkKept, NothingTwice
<1>6. TotalKept'
  BY <1>1, <1>2, <1>3 DEF WalkKept, TotalKept
<1> QED
  BY <1>1, <1>4, <1>5, <1>6 DEF WalkKept, Fresh

\* A page takes the walk on: what it shows was ahead, and what stays ahead is
\* older.
LEMMA WalkSelectKept ==
    ASSUME Typed, WalkKept, ByCreation, WalkSelect PROVE WalkKept' /\ Fresh'
<1> DEFINE off == Len(walk.seen)
           n   == Cardinality(List)
<1>1. PICK order \in Orders("created_at", List, row), m \in Nat :
         /\ off \in Nat /\ walk'.seen \in Seq(Streams)
         /\ Len(walk'.seen) = off + m
         /\ \A i \in 1..off : walk'.seen[i] = walk.seen[i]
         /\ \A i \in (off + 1)..(off + m) : i \in 1..n /\ walk'.seen[i] = order[i]
         /\ walk'.kind = walk.kind /\ walk'.total = walk.total
         /\ \/ m = 0 /\ off >= n /\ walk'.pc = "done"
            \/ m > 0 /\ off + m <= n /\ walk'.pc = "count"
  BY SelectEffect
<1>2. /\ Len(order) = n /\ order \in Seq(Streams) /\ n \in Nat
      /\ \A i \in DOMAIN order : order[i] \in List
      /\ \A s \in List : \E i \in DOMAIN order : order[i] = s
      /\ \A i, j \in DOMAIN order : i < j => order[i] > order[j]
      /\ \A i \in DOMAIN order : Cardinality({t \in List : t > order[i]}) = i - 1
  BY ListFinite, OrderProperties, CountIsNat
<1>3. DOMAIN order = 1..n
  BY <1>2
<1>4. /\ \A p \in 1..n : Cardinality(Ahead(order[p])) = p - 1
      /\ \A s \in List : \E p \in 1..n : order[p] = s
      /\ \A i, j \in 1..n : i < j => order[i] > order[j]
  BY <1>2, <1>3 DEF Ahead
<1>5. /\ row' = row /\ stayed' = stayed /\ came' = came /\ gone' = gone
      /\ walk.pc = "select"
  BY DEF WalkSelect
<1>6. List' = List /\ \A s : Ahead(s)' = Ahead(s)
  BY <1>1, <1>5 DEF List, Ahead
<1>7. /\ DOMAIN walk.seen = 1..off /\ DOMAIN walk'.seen = 1..(off + m)
      /\ Watched /\ Streams \subseteq Nat /\ List \subseteq Streams
      /\ \A i \in 1..off : walk.seen[i] \in Nat
  <2>1. walk.seen \in Seq(Streams)
    BY DEF Typed, WalkType
  <2>2. Streams \subseteq Nat /\ List \subseteq Streams
    BY StreamsFinite, ListFinite
  <2>3. DOMAIN walk.seen = 1..off /\ \A i \in 1..off : walk.seen[i] \in Streams
    BY <2>1
  <2>4. DOMAIN walk'.seen = 1..(off + m)
    BY <1>1
  <2> QED
    BY <1>5, <2>2, <2>3, <2>4 DEF Watched
<1> DEFINE seen1 == walk'.seen
<1> HIDE DEF off, n, seen1
<1>8. /\ off \in Nat /\ m \in Nat /\ n \in Nat
      /\ \A i \in 1..off : seen1[i] = walk.seen[i]
      /\ \A i \in (off + 1)..(off + m) : i \in 1..n /\ seen1[i] = order[i]
  BY <1>1, <1>2 DEF seen1
<1>9. ASSUME NEW s \in stayed, ~gone
      PROVE  Saw(s)' \/ (m > 0 /\ Cardinality(Ahead(s)) >= off + m)
  <2>1. Saw(s) \/ Cardinality(Ahead(s)) >= off
    BY <1>7, <1>9 DEF WalkKept, NothingPassed, off
  <2>2. CASE Saw(s)
    <3>1. PICK i \in 1..off : walk.seen[i] = s
      BY <1>7, <2>2 DEF Saw
    <3>2. i \in 1..(off + m) /\ seen1[i] = s
      BY <1>8, <3>1
    <3>3. i \in DOMAIN walk'.seen /\ walk'.seen[i] = s
      BY <1>7, <3>2 DEF seen1
    <3> QED
      BY <3>3 DEF Saw
  <2>3. CASE Cardinality(Ahead(s)) >= off
    <3>1. s \in List
      BY <1>7 DEF WalkKept, NothingPassed
    <3>2. PICK p \in 1..n : order[p] = s
      BY <1>4, <3>1
    <3>3. Cardinality(Ahead(s)) = p - 1
      BY <1>4, <3>2
    <3>4. p > off
      BY <1>8, <2>3, <3>3
    <3>5. CASE p <= off + m
      <4>1. p \in (off + 1)..(off + m) /\ p \in 1..(off + m)
        BY <1>8, <3>4, <3>5
      <4>2. seen1[p] = s
        BY <1>8, <3>2, <4>1
      <4>3. p \in DOMAIN walk'.seen /\ walk'.seen[p] = s
        BY <1>7, <4>1, <4>2 DEF seen1
      <4> QED
        BY <4>3 DEF Saw
    <3>6. CASE p > off + m
      <4>1. p - 1 >= off + m
        BY <1>8, <3>6
      <4>2. m > 0
        BY <1>1, <1>8, <4>1 DEF n, off
      <4> QED
        BY <3>3, <4>1, <4>2
    <3> QED
      BY <1>8, <3>5, <3>6
  <2> QED
    BY <2>1, <2>2, <2>3
<1>10. NothingPassed'
  <2>1. \A s \in stayed' : s \in List'
    BY <1>5, <1>6, <1>7 DEF WalkKept, NothingPassed
  <2>2. ~gone' => \A s \in stayed' : Saw(s)' \/ (m > 0 /\ Cardinality(Ahead(s)') >= Len(walk'.seen))
    BY <1>1, <1>5, <1>6, <1>9 DEF off
  <2>3. walk'.pc = "done" => ~(m > 0)
    BY <1>1
  <2>4. WalkMissesNothing'
    BY <2>2, <2>3 DEF WalkMissesNothing
  <2> QED
    BY <2>1, <2>2, <2>4 DEF NothingPassed
<1>11. ASSUME ~came, NEW p \in 1..n, p > off, NEW i \in 1..off
       PROVE  order[p] < walk.seen[i]
  <2>1. order[p] \in List /\ Cardinality(Ahead(order[p])) = p - 1
    BY <1>2, <1>3, <1>4
  <2>2. Cardinality(Ahead(order[p])) >= off
    BY <1>8, <1>11, <2>1
  <2> QED
    BY <1>7, <1>11, <2>1, <2>2 DEF WalkKept, NothingTwice, off
<1>12. NothingTwice'
  <2> SUFFICES ASSUME ~came PROVE NothingTwice'
    BY <1>5 DEF NothingTwice
  <2>1. ASSUME NEW i \in 1..(off + m), NEW j \in 1..(off + m), i < j PROVE seen1[i] # seen1[j]
    <3>1. CASE j <= off
      <4>1. i \in 1..off /\ j \in 1..off /\ i # j
        BY <1>8, <2>1, <3>1
      <4>2. walk.seen[i] # walk.seen[j]
        BY <1>7, <4>1 DEF WalkKept, NothingTwice, Distinct
      <4> QED
        BY <1>8, <4>1, <4>2
    <3>2. CASE i <= off /\ j > off
      <4>1. i \in 1..off /\ j \in (off + 1)..(off + m)
        BY <1>8, <3>2
      <4>2. seen1[i] = walk.seen[i] /\ seen1[j] = order[j] /\ j \in 1..n
        BY <1>8, <4>1
      <4>3. order[j] < walk.seen[i]
        BY <1>11, <3>2, <4>1, <4>2
      <4>4. order[j] \in Nat
        BY <1>2, <1>3, <1>7, <4>2
      <4>5. walk.seen[i] \in Nat
        BY <1>7, <4>1
      <4> QED
        BY <4>2, <4>3, <4>4, <4>5
    <3>3. CASE i > off
      <4>1. i \in (off + 1)..(off + m) /\ j \in (off + 1)..(off + m)
        BY <1>8, <2>1, <3>3
      <4>2. seen1[i] = order[i] /\ seen1[j] = order[j] /\ i \in 1..n /\ j \in 1..n
        BY <1>8, <4>1
      <4>3. order[i] > order[j] /\ order[i] \in Nat /\ order[j] \in Nat
        BY <1>2, <1>3, <1>4, <1>7, <2>1, <4>2
      <4> QED
        BY <4>2, <4>3
    <3> QED
      BY <1>8, <3>1, <3>2, <3>3
  <2>2. Distinct(walk'.seen)
    <3>1. \A i, j \in 1..(off + m) : i # j => seen1[i] # seen1[j]
      <4> SUFFICES ASSUME NEW i \in 1..(off + m), NEW j \in 1..(off + m), i # j
                   PROVE  seen1[i] # seen1[j]
        OBVIOUS
      <4>1. i < j \/ j < i
        BY <1>8
      <4> QED
        BY <2>1, <4>1
    <3> QED
      BY <1>7, <3>1 DEF Distinct, seen1
  <2>3. ASSUME NEW t \in List, Cardinality(Ahead(t)) >= off + m, NEW i \in 1..(off + m)
        PROVE  t < seen1[i]
    <3>1. PICK p \in 1..n : order[p] = t
      BY <1>4
    <3>2. p > off + m
      <4>1. p - 1 >= off + m
        BY <1>4, <2>3, <3>1
      <4> QED
        BY <1>8, <4>1
    <3>3. CASE i <= off
      <4>1. i \in 1..off /\ p > off
        BY <1>8, <3>2, <3>3
      <4> QED
        BY <1>8, <1>11, <3>1, <4>1
    <3>4. CASE i > off
      <4>1. i \in (off + 1)..(off + m) /\ i < p
        BY <1>8, <3>2, <3>4
      <4>2. seen1[i] = order[i] /\ i \in 1..n
        BY <1>8, <4>1
      <4>3. order[i] > order[p] /\ order[i] \in Nat /\ order[p] \in Nat
        BY <1>2, <1>3, <1>4, <1>7, <4>1, <4>2
      <4> QED
        BY <3>1, <4>2, <4>3
    <3> QED
      BY <1>8, <3>3, <3>4
  <2>4. \A t \in List' : Cardinality(Ahead(t)') >= Len(walk'.seen)
                         => \A i \in DOMAIN walk'.seen : t < walk'.seen[i]
    BY <1>1, <1>6, <1>7, <2>3 DEF seen1, off
  <2> QED
    BY <2>2, <2>4 DEF NothingTwice
<1>13. TotalKept'
  <2> SUFFICES ASSUME ~came, ~gone PROVE TotalKept'
    BY <1>5 DEF TotalKept
  <2>1. off <= n /\ walk.total = n
    BY <1>5, <1>7 DEF WalkKept, TotalKept, off, n
  <2>2. walk'.pc = "done" => off + m = n
    BY <1>1, <1>8, <2>1 DEF off, n
  <2>3. Watched' => off + m <= n
    BY <1>1 DEF Watched, off, n
  <2>4. walk'.pc # "select"
    BY <1>1
  <2>5. Len(walk'.seen) = off + m /\ walk'.total = walk.total /\ Cardinality(List') = n
    BY <1>1, <1>6 DEF off, n
  <2> QED
    BY <2>1, <2>2, <2>3, <2>4, <2>5 DEF TotalKept
<1>14. walk'.pc # "idle"
  BY <1>1
<1> QED
  BY <1>10, <1>12, <1>13, <1>14 DEF WalkKept, Fresh

\* Streams that come and go move what is ahead, in the direction noted.
LEMMA BecomeKept ==
    ASSUME Typed, Fresh, WalkKept, NEW r \in [Streams -> RowType], Become(r)
    PROVE  WalkKept' /\ Fresh'
<1>1. walk' = walk /\ row' = r
  BY DEF Become
<1>2. Watched' = Watched /\ \A s : Saw(s)' = Saw(s)
  BY <1>1 DEF Watched, Saw
<1>3. List' = Listed(walk.kind, r) /\ List' \in SUBSET Streams /\ List \in SUBSET Streams
  BY <1>1, ListType DEF List
<1>4. CASE ~Watched
  <2>1. stayed' = stayed /\ came' = came /\ gone' = gone
    BY <1>4 DEF Become
  <2>2. walk.pc \notin {"count", "select"}
    BY <1>4 DEF Watched
  <2>3. NothingPassed'
    BY <1>1, <1>2, <1>4, <2>1 DEF WalkKept, NothingPassed, WalkMissesNothing
  <2>4. NothingTwice'
    BY <1>1, <1>2, <1>4, <2>1 DEF WalkKept, NothingTwice
  <2>5. TotalKept'
    BY <1>1, <1>2, <1>4, <2>1, <2>2 DEF WalkKept, TotalKept
  <2> QED
    BY <1>1, <2>1, <2>3, <2>4, <2>5 DEF WalkKept, Fresh
<1>5. CASE Watched
  <2>1. /\ stayed' = stayed \intersect List'
        /\ ~came' => ~came /\ List' \subseteq List
        /\ ~gone' => ~gone /\ List \subseteq List'
    BY <1>3, <1>5 DEF Become, List, Typed
  <2>2. walk.pc \in {"count", "select"}
    BY <1>5 DEF Watched
  <2>3. \A s : Cardinality(Ahead(s)) \in Nat /\ Cardinality(Ahead(s)') \in Nat
    BY <1>3, StreamsFinite DEF Ahead
  <2>4. Len(walk.seen) \in Nat
    BY DEF Typed, WalkType
  <2>5. ~gone' => \A s : Cardinality(Ahead(s)) <= Cardinality(Ahead(s)')
    <3> SUFFICES ASSUME List \subseteq List', NEW s
                 PROVE  Cardinality(Ahead(s)) <= Cardinality(Ahead(s)')
      BY <2>1
    <3>1. Ahead(s)' \in SUBSET Streams /\ Ahead(s) \in SUBSET (Ahead(s)')
      BY <1>3 DEF Ahead
    <3> QED
      BY <3>1, CountsGrow
  <2>6. ~came' => \A s : Cardinality(Ahead(s)') <= Cardinality(Ahead(s))
    <3> SUFFICES ASSUME List' \subseteq List, NEW s
                 PROVE  Cardinality(Ahead(s)') <= Cardinality(Ahead(s))
      BY <2>1
    <3>1. Ahead(s) \in SUBSET Streams /\ Ahead(s)' \in SUBSET Ahead(s)
      BY <1>3 DEF Ahead
    <3> QED
      BY <3>1, CountsGrow
  <2>7. NothingPassed'
    <3>1. stayed' \subseteq List'
      BY <2>1
    <3>2. ASSUME ~gone', NEW s \in stayed'
          PROVE  Saw(s)' \/ Cardinality(Ahead(s)') >= Len(walk'.seen)
      <4>1. Saw(s) \/ Cardinality(Ahead(s)) >= Len(walk.seen)
        BY <1>5, <2>1, <3>2 DEF WalkKept, NothingPassed
      <4>2. Cardinality(Ahead(s)) <= Cardinality(Ahead(s)')
        BY <2>5, <3>2
      <4>3. Cardinality(Ahead(s)) >= Len(walk.seen) => Cardinality(Ahead(s)') >= Len(walk.seen)
        BY <2>3, <2>4, <4>2
      <4> QED
        BY <1>1, <1>2, <4>1, <4>3
    <3>3. WalkMissesNothing'
      BY <1>1, <2>2 DEF WalkMissesNothing
    <3> QED
      BY <3>1, <3>2, <3>3 DEF NothingPassed
  <2>8. NothingTwice'
    <3> SUFFICES ASSUME ~came' PROVE NothingTwice'
      BY DEF NothingTwice
    <3>1. Distinct(walk'.seen)
      BY <1>1, <2>1 DEF WalkKept, NothingTwice
    <3>2. ASSUME NEW t \in List', Cardinality(Ahead(t)') >= Len(walk.seen)
          PROVE  \A i \in DOMAIN walk.seen : t < walk.seen[i]
      <4>1. Cardinality(Ahead(t)') <= Cardinality(Ahead(t))
        BY <2>6
      <4>2. Cardinality(Ahead(t)) >= Len(walk.seen)
        BY <2>3, <2>4, <3>2, <4>1
      <4> QED
        BY <1>5, <2>1, <4>2 DEF WalkKept, NothingTwice
    <3> QED
      BY <1>1, <3>1, <3>2 DEF NothingTwice
  <2>9. TotalKept'
    <3> SUFFICES ASSUME ~came', ~gone' PROVE TotalKept'
      BY DEF TotalKept
    <3>1. List' = List /\ ~came /\ ~gone
      BY <2>1
    <3> QED
      BY <1>1, <1>2, <3>1 DEF WalkKept, TotalKept
  <2> QED
    BY <1>1, <2>2, <2>7, <2>8, <2>9 DEF WalkKept, Fresh
<1> QED
  BY <1>4, <1>5

LEMMA WalkInit == Init => Fresh /\ WalkKept
<1> SUFFICES ASSUME Init PROVE Fresh /\ WalkKept
  OBVIOUS
<1>1. walk.pc = "idle" /\ walk.seen = <<>> /\ ~came /\ ~gone
  BY DEF Init, NoWalk
<1>2. NothingPassed
  BY <1>1 DEF NothingPassed, Watched, WalkMissesNothing
<1>3. NothingTwice
  BY <1>1 DEF NothingTwice, Watched, Distinct
<1>4. TotalKept
  BY <1>1 DEF TotalKept, Watched
<1> QED
  BY <1>1, <1>2, <1>3, <1>4 DEF WalkKept, Fresh

LEMMA WalkStep ==
    ASSUME ByCreation, IInv, Fresh, WalkKept, [Next]_vars
    PROVE  Fresh' /\ WalkKept'
<1>1. Typed /\ BatchKept
  BY DEF IInv
<1>2. \/ WalkBegin \/ WalkCount \/ WalkSelect
      \/ \E r \in [Streams -> RowType] : Become(r)
      \/ UNCHANGED <<row, walkVars>>
  BY <1>1, StepKinds
<1>3. CASE UNCHANGED <<row, walkVars>>
  BY <1>3 DEF walkVars, Fresh, WalkKept, NothingPassed, NothingTwice, TotalKept,
              WalkMissesNothing, Watched, Saw, List, Ahead
<1> QED
  BY <1>1, <1>2, <1>3, WalkBeginKept, WalkCountKept, WalkSelectKept, BecomeKept

LEMMA WalkInvariant == ASSUME ByCreation PROVE Spec => [](IInv /\ Fresh /\ WalkKept)
<1>1. Init => IInv /\ Fresh /\ WalkKept
  BY InitInvariant, WalkInit
<1>2. (IInv /\ Fresh /\ WalkKept) /\ [Next]_vars => (IInv /\ Fresh /\ WalkKept)'
  BY InvariantStep, WalkStep
<1> QED
  BY <1>1, <1>2, PTL DEF Spec

\* repo.List pages by OFFSET, newest first: streams that are created or come
\* into the list while a client walks it make it miss none of the others.
THEOREM WalkMisses == ASSUME ByCreation PROVE Spec => []WalkMissesNothing
<1>1. WalkKept => WalkMissesNothing
  BY DEF WalkKept, NothingPassed
<1> QED
  BY <1>1, WalkInvariant, PTL

\* And streams that leave it make it show none twice; the total the list
\* answers with is that of its pages if none came and none left.
THEOREM WalkAddsUp == ASSUME ByCreation PROVE Spec => []PagesAddUp
<1>1. WalkKept => PagesAddUp
  BY DEF WalkKept, NothingTwice, TotalKept, PagesAddUp
<1> QED
  BY <1>1, WalkInvariant, PTL

=============================================================================
