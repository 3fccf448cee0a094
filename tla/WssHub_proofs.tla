---------------------------- MODULE WssHub_proofs ----------------------------
(***************************************************************************)
(* Proofs about WssHub, for any number of connections and messages.        *)
(***************************************************************************)
EXTENDS WssHub, SequenceTheorems, FiniteSetTheorems, TLAPS

Array == Seq(Conns \union {NoConn})

\* A header covers written slots only, in a heap hp.
Covers(hp, h) ==
    /\ h \in [arr : Nat, len : Nat]
    /\ h.arr = 0 => h.len = 0
    /\ h.arr # 0 =>
          /\ h.arr \in 1 .. Len(hp)
          /\ h.len <= Len(hp[h.arr])
          /\ \A i \in 1 .. h.len : hp[h.arr][i] \in Conns

SendType ==
    [pc : {"new", "sending", "done"}, from : [arr : Nat, len : Nat],
     next : Nat \ {0}, told : SUBSET (Conns \union {NoConn}), owed : SUBSET Conns]

\* The inductive invariant: NeverNil speaks of the calls' headers only, but
\* they are copies of the map's.
Written ==
    /\ heap \in Seq(Array) /\ moving \in Nat
    /\ Covers(heap, slice)
    /\ send \in [Messages -> SendType]
    /\ \A m \in Messages : Covers(heap, send[m].from)

\* A slot that was written stays so: overwriting one with a connection, or
\* allocating another array, uncovers nothing.
LEMMA OverwriteCovers ==
    ASSUME NEW hp \in Seq(Array), NEW h, Covers(hp, h),
           NEW a \in 1 .. Len(hp), NEW i \in 1 .. Len(hp[a]), NEW c \in Conns
    PROVE  /\ [hp EXCEPT ![a][i] = c] \in Seq(Array)
           /\ Covers([hp EXCEPT ![a][i] = c], h)
           /\ Len([hp EXCEPT ![a][i] = c]) = Len(hp)
<1> DEFINE b == [hp[a] EXCEPT ![i] = c]
           new == [hp EXCEPT ![a] = b]
<1>1. hp[a] \in Array
  OBVIOUS
<1>2. b \in Array /\ Len(b) = Len(hp[a])
  BY <1>1, ExceptSeq DEF Array
<1>3. \A k \in 1 .. Len(hp[a]) : b[k] = hp[a][k] \/ b[k] = c
  BY <1>1, ExceptSeq DEF Array
<1>4. [hp EXCEPT ![a][i] = c] = new
  OBVIOUS
<1> HIDE DEF b
<1>5. new \in Seq(Array) /\ Len(new) = Len(hp)
  BY <1>2, ExceptSeq
<1>6. \A d \in 1 .. Len(hp) : new[d] = IF d = a THEN b ELSE hp[d]
  OBVIOUS
<1>7. Covers(new, h)
  BY <1>2, <1>3, <1>5, <1>6 DEF Covers
<1> QED
  BY <1>4, <1>5, <1>7

LEMMA AppendCovers ==
    ASSUME NEW hp \in Seq(Array), NEW h, Covers(hp, h), NEW b \in Array
    PROVE  Append(hp, b) \in Seq(Array) /\ Covers(Append(hp, b), h)
BY DEF Covers

\* What a header covers can be read.
LEMMA ReadsConn ==
    ASSUME NEW hp \in Seq(Array), NEW h, Covers(hp, h), NEW i \in 1 .. h.len
    PROVE  /\ h.arr \in 1 .. Len(hp)
           /\ i \in 1 .. Len(hp[h.arr])
           /\ hp[h.arr][i] \in Conns
<1>1. h.arr # 0 /\ h.len \in Nat
  BY DEF Covers
<1>2. hp[h.arr] \in Array
  BY <1>1 DEF Covers
<1> QED
  BY <1>1, <1>2 DEF Covers, Array

LEMMA WrittenRegister ==
    ASSUME Written, NEW c \in Conns, Register(c)
    PROVE  Written'
<1>1. CASE slice.len < Cap
  <2> DEFINE hp == [heap EXCEPT ![slice.arr][slice.len + 1] = c]
  <2>1. slice.arr \in 1 .. Len(heap) /\ slice.len + 1 \in 1 .. Len(heap[slice.arr])
        /\ heap \in Seq(Array)
    BY <1>1 DEF Written, Covers, Cap
  <2>2. heap' = hp /\ slice' = [slice EXCEPT !.len = @ + 1] /\ send' = send
        /\ moving' = moving
    BY <1>1 DEF Register
  <2>3. hp \in Seq(Array) /\ Covers(hp, slice) /\ \A m \in Messages : Covers(hp, send[m].from)
    BY <2>1, OverwriteCovers DEF Written
  <2>4. hp[slice.arr][slice.len + 1] = c /\ Len(hp) = Len(heap)
        /\ Len(hp[slice.arr]) = Len(heap[slice.arr])
    <3>1. heap[slice.arr] \in Array
      BY <2>1
    <3> QED
      BY <2>1, <3>1 DEF Array
  <2> HIDE DEF hp
  <2>5. Covers(hp, slice')
    BY <2>1, <2>2, <2>3, <2>4 DEF Covers
  <2> QED
    BY <2>2, <2>3, <2>5 DEF Written
<1>2. CASE ~(slice.len < Cap)
  <2> DEFINE hp == Append(heap, Grown(c))
  <2>1. heap' = hp /\ slice' = [arr |-> Len(heap) + 1, len |-> slice.len + 1]
        /\ send' = send /\ moving' = moving
    BY <1>2 DEF Register
  <2>2. /\ heap \in Seq(Array) /\ Covers(heap, slice) /\ slice.len = Cap /\ Cap \in Nat
        /\ slice.arr # 0 => slice.arr \in 1 .. Len(heap) /\ heap[slice.arr] \in Array
    BY <1>2 DEF Written, Covers, Cap, Array
  <2> DEFINE size == IF Cap = 0 THEN 1 ELSE 2 * Cap
  <2>3. size \in Nat /\ slice.len + 1 \in 1 .. size
    BY <2>2
  <2>4. \A i \in 1 .. slice.len : heap[slice.arr][i] \in Conns
    BY <2>2 DEF Covers
  <2>5. \A i \in 1 .. size : (IF i <= slice.len THEN heap[slice.arr][i]
                              ELSE IF i = slice.len + 1 THEN c ELSE NoConn)
                                 \in Conns \union {NoConn}
    BY <2>2, <2>3, <2>4
  <2>6. Grown(c) = [i \in 1 .. size |-> IF i <= slice.len THEN heap[slice.arr][i]
                                       ELSE IF i = slice.len + 1 THEN c ELSE NoConn]
    BY <2>2, <2>3 DEF Grown
  <2> HIDE DEF size
  <2>7. Grown(c) \in Array /\ Len(Grown(c)) = size
    BY <2>3, <2>5, <2>6 DEF Array
  <2>8. \A i \in 1 .. slice.len + 1 : Grown(c)[i] \in Conns
    BY <2>2, <2>3, <2>4, <2>6
  <2>9. hp \in Seq(Array) /\ \A m \in Messages : Covers(hp, send[m].from)
    BY <2>2, <2>7, AppendCovers DEF Written
  <2>10. Len(hp) = Len(heap) + 1 /\ hp[Len(heap) + 1] = Grown(c)
    BY <2>2, <2>7
  <2> HIDE DEF hp
  <2>11. Covers(hp, slice')
    BY <2>1, <2>2, <2>3, <2>7, <2>8, <2>10 DEF Covers
  <2> QED
    BY <2>1, <2>9, <2>11 DEF Written
<1> QED
  BY <1>1, <1>2

\* The calls move, the arrays and the map's header stay.
LEMMA WrittenSends ==
    ASSUME Written, heap' = heap, slice' = slice, moving' \in Nat,
           send' \in [Messages -> SendType],
           \A m \in Messages : send'[m].from \in {send[m].from, slice}
    PROVE  Written'
<1>1. \A m \in Messages : Covers(heap, send'[m].from)
  BY DEF Written
<1> QED
  BY <1>1 DEF Written

LEMMA WrittenUnregister ==
    ASSUME Written,
           \/ \E c \in Conns : UnregisterFinds(c) \/ UnregisterEnds(c)
           \/ UnregisterMoves
    PROVE  Written'
<1>1. ASSUME NEW c \in Conns, UnregisterFinds(c) PROVE Written'
  <2>1. heap' = heap /\ slice' = slice
        /\ send' = [m \in Messages |-> [send[m] EXCEPT !.owed = @ \ {c}]]
    BY <1>1 DEF UnregisterFinds
  <2>2. moving' \in Nat
    BY <1>1 DEF UnregisterFinds, Written, Covers
  <2>3. \A m \in Messages : [send[m] EXCEPT !.owed = @ \ {c}] \in SendType
    BY DEF Written, SendType
  <2> QED
    BY <2>1, <2>2, <2>3, WrittenSends DEF SendType
<1>2. ASSUME NEW c \in Conns, UnregisterEnds(c) PROVE Written'
  <2>1. /\ heap' = heap /\ send' = send /\ slice.len # 0 /\ moving' = 0
        /\ slice' = IF slice.len = 1 THEN NilSlice ELSE [slice EXCEPT !.len = @ - 1]
    BY <1>2 DEF UnregisterEnds
  <2>2. Covers(heap, slice')
    BY <2>1 DEF Written, Covers, NilSlice
  <2> QED
    BY <2>1, <2>2 DEF Written
<1>3. CASE UnregisterMoves
  <2>1. moving \in 1 .. slice.len /\ moving + 1 \in 1 .. slice.len
    BY <1>3 DEF UnregisterMoves, Written, Covers
  <2>2. heap \in Seq(Array) /\ Covers(heap, slice) /\ moving + 1 \in Nat
    BY <2>1 DEF Written
  <2>3. /\ slice.arr \in 1 .. Len(heap) /\ moving \in 1 .. Len(heap[slice.arr])
        /\ heap[slice.arr][moving + 1] \in Conns
    BY <2>1, <2>2, ReadsConn
  <2> DEFINE c == heap[slice.arr][moving + 1]
             hp == [heap EXCEPT ![slice.arr][moving] = c]
  <2>4. heap' = hp /\ slice' = slice /\ send' = send /\ moving' \in Nat
    BY <1>3, <2>2 DEF UnregisterMoves
  <2> HIDE DEF c
  <2>5. c \in Conns
    BY <2>3 DEF c
  <2>6. hp \in Seq(Array) /\ Covers(hp, slice) /\ \A m \in Messages : Covers(hp, send[m].from)
    BY <2>2, <2>3, <2>5, OverwriteCovers DEF Written
  <2> HIDE DEF hp
  <2> QED
    BY <2>4, <2>6 DEF Written
<1> QED
  BY <1>1, <1>2, <1>3

LEMMA WrittenSend ==
    ASSUME Written, NEW m \in Messages, SendBegins(m) \/ SendNext(m)
    PROVE  Written'
<1>1. /\ heap \in Seq(Array) /\ moving \in Nat /\ slice \in [arr : Nat, len : Nat]
      /\ send \in [Messages -> SendType] /\ send[m] \in SendType
      /\ Covers(heap, send[m].from)
  BY DEF Written, Covers
<1>2. ASSUME NEW g \in SendType, send' = [send EXCEPT ![m] = g],
             g.from \in {send[m].from, slice}, UNCHANGED <<heap, slice, moving>>
      PROVE  Written'
  BY <1>1, <1>2, WrittenSends
<1>3. CASE SendBegins(m)
  <2> DEFINE g == [send[m] EXCEPT !.pc = "sending", !.from = slice, !.owed = Open]
  <2>1. send' = [send EXCEPT ![m] = g] /\ UNCHANGED <<heap, slice, moving>>
    BY <1>1, <1>3 DEF SendBegins, SendType
  <2>2. g \in SendType /\ g.from = slice
    BY <1>1 DEF SendType, Open
  <2> HIDE DEF g
  <2> QED
    BY <1>2, <2>1, <2>2
<1>4. CASE SendNext(m) /\ send[m].next <= send[m].from.len
  <2> DEFINE c == heap[send[m].from.arr][send[m].next]
             g == [send[m] EXCEPT !.told = @ \union {c}, !.next = @ + 1]
  <2>1. send[m].next \in 1 .. send[m].from.len
    BY <1>1, <1>4 DEF SendType
  <2>2. c \in Conns
    BY <1>1, <2>1, ReadsConn
  <2>4. send' = [send EXCEPT ![m] = g] /\ UNCHANGED <<heap, slice, moving>>
    BY <1>4 DEF SendNext
  <2> HIDE DEF c
  <2>5. g \in SendType /\ g.from = send[m].from
    <3>1. send[m].told \union {c} \subseteq Conns \union {NoConn} /\ send[m].next + 1 \in Nat \ {0}
      BY <1>1, <2>2 DEF SendType
    <3> QED
      BY <1>1, <3>1 DEF SendType
  <2> HIDE DEF g
  <2> QED
    BY <1>2, <2>4, <2>5
<1>5. CASE SendNext(m) /\ ~(send[m].next <= send[m].from.len)
  <2> DEFINE g == [send[m] EXCEPT !.pc = "done"]
  <2>1. send' = [send EXCEPT ![m] = g] /\ UNCHANGED <<heap, slice, moving>>
    BY <1>1, <1>5 DEF SendNext, SendType
  <2>2. g \in SendType /\ g.from = send[m].from
    BY <1>1 DEF SendType
  <2> HIDE DEF g
  <2> QED
    BY <1>2, <2>1, <2>2
<1> QED
  BY <1>3, <1>4, <1>5

LEMMA WrittenInit == Init => Written
BY DEF Init, Written, Covers, NilSlice, SendType

LEMMA WrittenStep == Written /\ [Next]_vars => Written'
<1> SUFFICES ASSUME Written, [Next]_vars PROVE Written'
  OBVIOUS
<1>1. CASE UNCHANGED vars
  BY <1>1 DEF vars, Written
<1>2. ASSUME NEW c \in Conns,
             Register(c) \/ UnregisterFinds(c) \/ UnregisterEnds(c)
      PROVE  Written'
  BY <1>2, WrittenRegister, WrittenUnregister
<1>3. ASSUME UnregisterMoves PROVE Written'
  BY <1>3, WrittenUnregister
<1>4. ASSUME NEW m \in Messages, SendBegins(m) \/ SendNext(m) PROVE Written'
  BY <1>4, WrittenSend
<1> QED
  <2>1. CASE Next
    BY <2>1, <1>2, <1>3, <1>4, Zenon DEF Next
  <2> QED
    BY <1>1, <2>1

\* Whatever registers, goes and is sent, SendMessgeToOwner never meets a nil
\* connection: removal leaves a stale pointer behind, never an empty slot.
THEOREM SendsMeetConnections == Spec => []NeverNil
<1>1. Written => NeverNil
  <2> SUFFICES ASSUME Written, NEW m \in Messages,
                      NEW i \in send[m].next .. send[m].from.len
               PROVE  heap[send[m].from.arr][i] \in Conns
    BY DEF NeverNil
  <2>1. heap \in Seq(Array) /\ Covers(heap, send[m].from) /\ send[m] \in SendType
    BY DEF Written
  <2>2. i \in 1 .. send[m].from.len
    BY <2>1 DEF SendType
  <2> QED
    BY <2>1, <2>2, ReadsConn
<1> QED
  BY <1>1, WrittenInit, WrittenStep, PTL DEF Spec

-----------------------------------------------------------------------------
(* The slice and the open connections.                                     *)

\* The i-th element of clients[userID].
Client(i) == heap[slice.arr][i]

\* The slots that count: while Unregister moves the tail down, all but the one
\* it fills next.
Slots == (1 .. slice.len) \ {moving}

SliceKept ==
    /\ conn \in [Conns -> {"new", "open", "leaving", "gone"}]
    /\ moving \in 0 .. slice.len
    /\ \A i \in Slots : Client(i) \in Open
    /\ \A c \in Open : \E i \in Slots : Client(i) = c
    /\ \A i, j \in Slots : Client(i) = Client(j) => i = j

\* append puts the new connection behind the others, whichever array it is in.
LEMMA RegisterReads ==
    ASSUME Written, NEW c \in Conns, Register(c)
    PROVE  /\ slice'.len = slice.len + 1
           /\ heap'[slice'.arr][slice.len + 1] = c
           /\ \A i \in 1 .. slice.len : Client(i)' = Client(i)
<1>1. /\ heap \in Seq(Array) /\ Covers(heap, slice) /\ slice.len \in Nat
      /\ slice.arr # 0 => slice.arr \in 1 .. Len(heap) /\ heap[slice.arr] \in Array
  BY DEF Written, Covers
<1>2. CASE slice.len < Cap
  <2> DEFINE b == [heap[slice.arr] EXCEPT ![slice.len + 1] = c]
  <2>1. slice.arr \in 1 .. Len(heap) /\ slice.len + 1 \in 1 .. Len(heap[slice.arr])
    BY <1>1, <1>2 DEF Cap
  <2>2. /\ heap' = [heap EXCEPT ![slice.arr] = b]
        /\ slice' = [slice EXCEPT !.len = slice.len + 1]
    BY <1>2 DEF Register
  <2>3. b[slice.len + 1] = c /\ \A i \in 1 .. slice.len : b[i] = heap[slice.arr][i]
    <3>1. heap[slice.arr] \in Array
      BY <1>1, <2>1
    <3> QED
      BY <1>1, <2>1, <3>1 DEF Array
  <2> HIDE DEF b
  <2>4. slice'.arr = slice.arr /\ slice'.len = slice.len + 1
    BY <1>1, <2>2 DEF Covers
  <2>5. heap'[slice.arr] = b
    BY <1>1, <2>1, <2>2
  <2> QED
    BY <2>3, <2>4, <2>5 DEF Client
<1>3. CASE ~(slice.len < Cap)
  <2>1. heap' = Append(heap, Grown(c)) /\ slice' = [arr |-> Len(heap) + 1, len |-> slice.len + 1]
    BY <1>3 DEF Register
  <2>2. slice.len = Cap /\ Cap \in Nat
    BY <1>1, <1>3 DEF Covers, Cap, Array
  <2> DEFINE size == IF Cap = 0 THEN 1 ELSE 2 * Cap
  <2>3. \A i \in 1 .. slice.len + 1 : i \in 1 .. size
    BY <2>2
  <2>4. Grown(c) = [i \in 1 .. size |-> IF i <= slice.len THEN heap[slice.arr][i]
                                       ELSE IF i = slice.len + 1 THEN c ELSE NoConn]
    BY <2>2, <2>3 DEF Grown
  <2> HIDE DEF size
  <2>5. Grown(c)[slice.len + 1] = c /\ \A i \in 1 .. slice.len : Grown(c)[i] = heap[slice.arr][i]
    BY <1>1, <2>3, <2>4
  <2> DEFINE b == Grown(c)
             S == Seq(Conns \union {NoConn}) \union {b}
  <2>6. heap'[Len(heap) + 1] = b
    <3>1. heap \in Seq(S) /\ b \in S
      BY <1>1 DEF Array
    <3> HIDE DEF b, S
    <3> QED
      BY <2>1, <3>1, AppendProperties DEF b
  <2> QED
    BY <2>1, <2>5, <2>6 DEF Client
<1> QED
  BY <1>2, <1>3

LEMMA KeptRegister ==
    ASSUME Written, SliceKept, NEW c \in Conns, Register(c)
    PROVE  SliceKept'
<1> DEFINE n == slice.len
<1>1. /\ slice'.len = n + 1 /\ heap'[slice'.arr][n + 1] = c
      /\ \A i \in 1 .. n : Client(i)' = Client(i)
  BY RegisterReads
<1>2. /\ conn[c] = "new" /\ moving = 0 /\ moving' = 0
      /\ conn' = [conn EXCEPT ![c] = "open"] /\ n \in Nat
  BY DEF Register, Written, Covers
<1>3. conn' \in [Conns -> {"new", "open", "leaving", "gone"}]
  BY <1>2 DEF SliceKept
<1>4. Open' = Open \union {c} /\ c \notin Open
  BY <1>2 DEF SliceKept, Open
<1>5. /\ Slots = 1 .. n /\ Slots' = Slots \union {n + 1} /\ n + 1 \notin Slots
      /\ \A i : i = n + 1 => Client(i)' = c
  BY <1>1, <1>2 DEF Slots, Client
<1> HIDE DEF n
<1>6. /\ \A i \in Slots' : Client(i)' \in Open'
      /\ \A d \in Open' : \E i \in Slots' : Client(i)' = d
      /\ \A i, j \in Slots' : Client(i)' = Client(j)' => i = j
  <2>1. \A i \in Slots : Client(i)' = Client(i) /\ Client(i) \in Open
    BY <1>1, <1>5 DEF SliceKept
  <2>2. \A i \in Slots' : Client(i)' \in Open'
    BY <1>4, <1>5, <2>1
  <2>3. ASSUME NEW d \in Open' PROVE \E i \in Slots' : Client(i)' = d
    <3>1. CASE d = c
      BY <1>5, <3>1
    <3>2. CASE d \in Open
      <4>1. PICK i \in Slots : Client(i) = d
        BY <3>2 DEF SliceKept
      <4>2. i \in Slots' /\ Client(i)' = d
        BY <1>5, <2>1, <4>1
      <4> QED
        BY <4>2
    <3> QED
      BY <1>4, <3>1, <3>2
  <2>4. ASSUME NEW i \in Slots', NEW j \in Slots', Client(i)' = Client(j)' PROVE i = j
    <3>1. CASE i = n + 1 \/ j = n + 1
      BY <1>4, <1>5, <2>1, <2>4, <3>1
    <3>2. CASE i # n + 1 /\ j # n + 1
      BY <1>5, <2>1, <2>4, <3>2 DEF SliceKept
    <3> QED
      BY <3>1, <3>2
  <2> QED
    BY <2>2, <2>3, <2>4
<1> QED
  BY <1>1, <1>2, <1>3, <1>6 DEF SliceKept

\* The one that leaves is no longer open, and its slot the one to fill.
LEMMA KeptFinds ==
    ASSUME Written, SliceKept, NEW c \in Conns, UnregisterFinds(c)
    PROVE  SliceKept'
<1>1. PICK i \in 1 .. slice.len : Client(i) = c /\ moving' = i
  BY DEF UnregisterFinds, Client
<1>2. /\ conn[c] = "open" /\ moving = 0 /\ heap' = heap /\ slice' = slice
      /\ conn' = [conn EXCEPT ![c] = "leaving"] /\ slice.len \in Nat
  BY DEF UnregisterFinds, Written, Covers
<1>3. conn' \in [Conns -> {"new", "open", "leaving", "gone"}]
  BY <1>2 DEF SliceKept
<1>4. Open' = Open \ {c}
  BY <1>2 DEF SliceKept, Open
<1>5. Slots = 1 .. slice.len /\ Slots' = Slots \ {i} /\ \A j : Client(j)' = Client(j)
  BY <1>1, <1>2 DEF Slots, Client
<1>6. /\ \A j \in Slots' : Client(j)' \in Open'
      /\ \A d \in Open' : \E j \in Slots' : Client(j)' = d
      /\ \A j, k \in Slots' : Client(j)' = Client(k)' => j = k
  BY <1>1, <1>4, <1>5 DEF SliceKept
<1> QED
  BY <1>1, <1>2, <1>3, <1>6 DEF SliceKept

\* One element of the tail is moved down.
LEMMA KeptMoves == ASSUME Written, SliceKept, UnregisterMoves PROVE SliceKept'
<1>0. PICK k \in Nat : k = moving
  BY DEF Written
<1> DEFINE b == [heap[slice.arr] EXCEPT ![k] = Client(k + 1)]
<1>1. k \in 1 .. slice.len /\ k + 1 \in 1 .. slice.len /\ k \in Nat
  BY <1>0 DEF UnregisterMoves, Written, Covers
<1>2. /\ heap \in Seq(Array) /\ slice.arr \in 1 .. Len(heap)
      /\ k \in 1 .. Len(heap[slice.arr]) /\ heap[slice.arr] \in Array
  <2>1. heap \in Seq(Array) /\ Covers(heap, slice)
    BY DEF Written
  <2>2. slice.arr \in 1 .. Len(heap) /\ k \in 1 .. Len(heap[slice.arr])
    BY <1>1, <2>1, ReadsConn
  <2> QED
    BY <2>1, <2>2
<1>3. /\ heap' = [heap EXCEPT ![slice.arr] = b] /\ slice' = slice /\ conn' = conn
      /\ moving' = k + 1
  BY <1>0 DEF UnregisterMoves, Client
<1>4. heap'[slice.arr] = b
  BY <1>2, <1>3
<1>5. DOMAIN heap[slice.arr] = 1 .. Len(heap[slice.arr])
  BY <1>2 DEF Array
<1>6. /\ Client(k)' = Client(k + 1)
      /\ \A i \in 1 .. slice.len : i # k => Client(i)' = Client(i)
  BY <1>2, <1>3, <1>4, <1>5 DEF Client
<1>7. /\ Slots = (1 .. slice.len) \ {k} /\ Slots' = (1 .. slice.len) \ {k + 1}
      /\ Open' = Open
  BY <1>0, <1>3 DEF Slots, Open
<1> HIDE DEF b
<1>8. k \in Slots' /\ k + 1 \in Slots /\ k # k + 1 /\ Slots' \ {k} = Slots \ {k + 1}
  BY <1>1, <1>7
<1>9. \A i \in Slots' \ {k} : i \in Slots /\ i # k + 1 /\ Client(i)' = Client(i)
  BY <1>6, <1>7, <1>8
<1>10. /\ \A i \in Slots' : Client(i)' \in Open'
       /\ \A d \in Open' : \E i \in Slots' : Client(i)' = d
       /\ \A i, j \in Slots' : Client(i)' = Client(j)' => i = j
  <2>1. \A i \in Slots' : Client(i)' \in Open'
    BY <1>6, <1>7, <1>8, <1>9 DEF SliceKept
  <2>2. ASSUME NEW d \in Open' PROVE \E i \in Slots' : Client(i)' = d
    <3>1. PICK i \in Slots : Client(i) = d
      BY <1>7 DEF SliceKept
    <3>2. CASE i = k + 1
      BY <1>6, <1>8, <3>1, <3>2
    <3>3. CASE i # k + 1
      BY <1>8, <1>9, <3>1, <3>3
    <3> QED
      BY <3>2, <3>3
  <2>3. ASSUME NEW i \in Slots', NEW j \in Slots', Client(i)' = Client(j)' PROVE i = j
    <3>1. CASE i = k /\ j # k
      BY <1>6, <1>8, <1>9, <2>3, <3>1 DEF SliceKept
    <3>2. CASE i # k /\ j = k
      BY <1>6, <1>8, <1>9, <2>3, <3>2 DEF SliceKept
    <3>3. CASE i # k /\ j # k
      BY <1>9, <2>3, <3>3 DEF SliceKept
    <3> QED
      BY <3>1, <3>2, <3>3
  <2> QED
    BY <2>1, <2>2, <2>3
<1>11. moving' \in 0 .. slice'.len
  <2>1. k + 1 \in 0 .. slice.len
    BY <1>1
  <2> QED
    BY <1>3, <2>1
<1> QED
  BY <1>3, <1>10, <1>11 DEF SliceKept

\* The slice loses the slot that does not count.
LEMMA KeptEnds ==
    ASSUME Written, SliceKept, NEW c \in Conns, UnregisterEnds(c)
    PROVE  SliceKept'
<1>1. /\ conn[c] = "leaving" /\ 0 < moving /\ moving = slice.len
      /\ conn' = [conn EXCEPT ![c] = "gone"] /\ moving' = 0 /\ heap' = heap
      /\ slice' = IF slice.len = 1 THEN NilSlice ELSE [slice EXCEPT !.len = slice.len - 1]
      /\ slice.len \in Nat /\ slice \in [arr : Nat, len : Nat]
  BY DEF UnregisterEnds, Written, Covers
<1>2. /\ conn' \in [Conns -> {"new", "open", "leaving", "gone"}]
      /\ Open' = Open
  BY <1>1 DEF SliceKept, Open
<1>3. slice'.len = slice.len - 1 /\ (slice.len # 1 => slice'.arr = slice.arr)
  BY <1>1 DEF NilSlice
<1>4. Slots = 1 .. (slice.len - 1) /\ Slots' = Slots
  BY <1>1, <1>3 DEF Slots
<1>5. \A i \in Slots : Client(i)' = Client(i)
  <2>1. CASE slice.len = 1
    BY <1>4, <2>1
  <2>2. CASE slice.len # 1
    BY <1>1, <1>3, <2>2 DEF Client
  <2> QED
    BY <2>1, <2>2
<1>6. moving' \in 0 .. slice'.len
  BY <1>1, <1>3
<1> QED
  BY <1>2, <1>4, <1>5, <1>6 DEF SliceKept

LEMMA KeptInit == Init => SliceKept
BY DEF Init, SliceKept, Slots, Open, NilSlice

LEMMA KeptStep == Written /\ SliceKept /\ [Next]_vars => SliceKept'
<1> SUFFICES ASSUME Written, SliceKept, [Next]_vars PROVE SliceKept'
  OBVIOUS
<1>1. CASE UNCHANGED <<heap, slice, moving, conn>>
  BY <1>1 DEF SliceKept, Slots, Client, Open
<1>2. CASE \E c \in Conns : Register(c) \/ UnregisterFinds(c) \/ UnregisterEnds(c)
  BY <1>2, KeptRegister, KeptFinds, KeptEnds
<1>3. CASE UnregisterMoves
  BY <1>3, KeptMoves
<1>4. (\E m \in Messages : SendBegins(m) \/ SendNext(m)) \/ UNCHANGED vars
          => UNCHANGED <<heap, slice, moving, conn>>
  BY DEF SendBegins, SendNext, vars
<1> QED
  BY <1>1, <1>2, <1>3, <1>4 DEF Next

LEMMA HubInvariant == Spec => [](Written /\ SliceKept)
<1>1. Init => Written /\ SliceKept
  BY WrittenInit, KeptInit
<1>2. (Written /\ SliceKept) /\ [Next]_vars => (Written /\ SliceKept)'
  BY WrittenStep, KeptStep
<1> QED
  BY <1>1, <1>2, PTL DEF Spec

\* The hub's state keeps its shape; in particular the map's slice never claims
\* more elements than its array has.
THEOREM TypeCorrect == Spec => []TypeOK
<1>1. Written /\ SliceKept => TypeOK
  <2> SUFFICES ASSUME Written, SliceKept PROVE TypeOK
    OBVIOUS
  <2>1. slice.arr \in 0 .. Len(heap) /\ slice.len \in 0 .. Cap
    BY DEF Written, Covers, Cap, Array
  <2>2. heap \in Seq(Seq(Conns \union {NoConn})) /\ moving \in 0 .. slice.len
        /\ conn \in [Conns -> {"new", "open", "leaving", "gone"}]
    BY DEF Written, SliceKept, Array
  <2>3. \A m \in Messages : send[m] \in SendType
    BY DEF Written
  <2> QED
    BY <2>1, <2>2, <2>3 DEF TypeOK, SendType
<1> QED
  BY <1>1, HubInvariant, PTL

\* Whenever the mutex is free, clients[userID] holds every open connection
\* once and no other, although Unregister moves elements within an array that
\* Register appends to.
THEOREM SliceFollowsConns == Spec => []SliceIsOpenConns
<1>1. Written /\ SliceKept => SliceIsOpenConns
  <2> SUFFICES ASSUME Written, SliceKept, moving = 0
               PROVE  /\ {Client(i) : i \in 1 .. slice.len} = Open
                      /\ slice.len = Cardinality(Open)
    BY DEF SliceIsOpenConns, Client
  <2>1. slice.len \in Nat /\ Slots = 1 .. slice.len
    BY DEF Written, Covers, Slots
  <2> DEFINE f == [i \in 1 .. slice.len |-> Client(i)]
  <2>2. f \in Bijection(1 .. slice.len, Open)
    <3>1. f \in [1 .. slice.len -> Open]
      BY <2>1 DEF SliceKept
    <3>2. \A i, j \in 1 .. slice.len : f[i] = f[j] => i = j
      BY <2>1 DEF SliceKept
    <3>3. \A d \in Open : \E i \in 1 .. slice.len : f[i] = d
      BY <2>1 DEF SliceKept
    <3> QED
      BY <3>1, <3>2, <3>3 DEF Bijection, Injection, Surjection, IsInjective
  <2>3. Cardinality(Open) = slice.len
    BY <2>1, <2>2, FS_CountingElements DEF ExistsBijection
  <2>4. {Client(i) : i \in 1 .. slice.len} = Open
    BY <2>1 DEF SliceKept
  <2> QED
    BY <2>3, <2>4
<1> QED
  BY <1>1, HubInvariant, PTL

=============================================================================
