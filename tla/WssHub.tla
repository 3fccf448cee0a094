------------------------------- MODULE WssHub -------------------------------
(***************************************************************************)
(* The websocket hub of one replica, for one user: clients[userID] is a Go *)
(* slice, so a header (array, length) over a backing array that appends    *)
(* and removals share.  Register and Unregister hold the mutex throughout; *)
(* SendMessgeToOwner holds it only while it copies the header, then reads  *)
(* the array element by element while others change it.                    *)
(*                                                                         *)
(* Abstracted: other users (their slices share nothing), the upgrade and   *)
(* the payloads.  A write to a connection that is gone fails unnoticed.    *)
(***************************************************************************)
EXTENDS Naturals, Sequences, FiniteSets

CONSTANTS
    Conns,      \* connections the user opens, each once
    Messages,   \* calls of SendMessgeToOwner
    NoConn      \* a slot of a backing array that was never written

ASSUME HubConstants == NoConn \notin Conns

VARIABLES
    heap,    \* the backing arrays allocated so far, each as long as its capacity
    slice,   \* clients[userID]: array and length; array 0 is the nil slice
    moving,  \* the slot Unregister fills next, 0 while nobody holds the mutex
    conn,    \* each connection: "new", "open", "leaving" (in Unregister), "gone"
    send     \* each call: progress, header it copied, next index, the
             \* connections told, and those open ever since the copy

vars == <<heap, slice, moving, conn, send>>

NilSlice == [arr |-> 0, len |-> 0]

Init ==
    /\ heap = <<>>
    /\ slice = NilSlice
    /\ moving = 0
    /\ conn = [c \in Conns |-> "new"]
    /\ send = [m \in Messages |-> [pc |-> "new", from |-> NilSlice, next |-> 1,
                                   told |-> {}, owed |-> {}]]

Cap == IF slice.arr = 0 THEN 0 ELSE Len(heap[slice.arr])

\* append moves a full slice to a new array of twice the capacity.
Grown(c) ==
    [i \in 1 .. (IF Cap = 0 THEN 1 ELSE 2 * Cap) |->
        CASE i <= slice.len     -> heap[slice.arr][i]
          [] i = slice.len + 1  -> c
          [] OTHER              -> NoConn]

Register(c) ==
    /\ conn[c] = "new" /\ moving = 0
    /\ conn' = [conn EXCEPT ![c] = "open"]
    /\ IF slice.len < Cap
       THEN /\ heap' = [heap EXCEPT ![slice.arr][slice.len + 1] = c]
            /\ slice' = [slice EXCEPT !.len = @ + 1]
       ELSE /\ heap' = Append(heap, Grown(c))
            /\ slice' = [arr |-> Len(heap) + 1, len |-> slice.len + 1]
    /\ UNCHANGED <<moving, send>>

\* The peer is gone: HandleWS leaves its read loop and calls Unregister.
UnregisterFinds(c) ==
    /\ conn[c] = "open" /\ moving = 0
    /\ conn' = [conn EXCEPT ![c] = "leaving"]
    /\ \E i \in 1 .. slice.len : heap[slice.arr][i] = c /\ moving' = i
    /\ send' = [m \in Messages |-> [send[m] EXCEPT !.owed = @ \ {c}]]
    /\ UNCHANGED <<heap, slice>>

\* append(conns[:i], conns[i+1:]...) moves the tail down within the array, as
\* far as a reader without the mutex can tell one element at a time.
UnregisterMoves ==
    /\ 0 < moving /\ moving < slice.len
    /\ heap' = [heap EXCEPT ![slice.arr][moving] = heap[slice.arr][moving + 1]]
    /\ moving' = moving + 1
    /\ UNCHANGED <<slice, conn, send>>

\* Mutant: the slot left over is cleared, as slices.Delete would.
UnregisterEnds_Clears(c) ==
    /\ conn[c] = "leaving" /\ 0 < moving /\ moving = slice.len
    /\ conn' = [conn EXCEPT ![c] = "gone"]
    /\ moving' = 0
    /\ heap' = [heap EXCEPT ![slice.arr][slice.len] = NoConn]
    /\ slice' = IF slice.len = 1 THEN NilSlice ELSE [slice EXCEPT !.len = @ - 1]
    /\ UNCHANGED send

\* Mutant: the map keeps the slice it had.
UnregisterEnds_Keeps(c) ==
    /\ conn[c] = "leaving" /\ 0 < moving /\ moving = slice.len
    /\ conn' = [conn EXCEPT ![c] = "gone"]
    /\ moving' = 0
    /\ slice' = IF slice.len = 1 THEN NilSlice ELSE slice
    /\ UNCHANGED <<heap, send>>

\* Mutant: the mutex is not given back.
UnregisterEnds_KeepsLock(c) ==
    /\ conn[c] = "leaving" /\ 0 < moving /\ moving = slice.len
    /\ conn' = [conn EXCEPT ![c] = "gone"]
    /\ slice' = IF slice.len = 1 THEN NilSlice ELSE [slice EXCEPT !.len = @ - 1]
    /\ UNCHANGED <<heap, moving, send>>

\* The shorter slice is stored, an empty one is taken out of the map.
UnregisterEnds(c) ==
    /\ conn[c] = "leaving" /\ 0 < moving /\ moving = slice.len
    /\ conn' = [conn EXCEPT ![c] = "gone"]
    /\ moving' = 0
    /\ slice' = IF slice.len = 1 THEN NilSlice ELSE [slice EXCEPT !.len = @ - 1]
    /\ UNCHANGED <<heap, send>>

Open == {c \in Conns : conn[c] = "open"}

SendBegins(m) ==
    /\ send[m].pc = "new" /\ moving = 0
    /\ send' = [send EXCEPT ![m].pc = "sending", ![m].from = slice, ![m].owed = Open]
    /\ UNCHANGED <<heap, slice, moving, conn>>

SendNext(m) ==
    /\ send[m].pc = "sending"
    /\ IF send[m].next <= send[m].from.len
       THEN send' = [send EXCEPT ![m] =
                [send[m] EXCEPT !.told = @ \union {heap[send[m].from.arr][send[m].next]},
                                !.next = @ + 1]]
       ELSE send' = [send EXCEPT ![m].pc = "done"]
    /\ UNCHANGED <<heap, slice, moving, conn>>

Next ==
    \/ \E c \in Conns : Register(c) \/ UnregisterFinds(c) \/ UnregisterEnds(c)
    \/ UnregisterMoves
    \/ \E m \in Messages : SendBegins(m) \/ SendNext(m)

Spec == Init /\ [][Next]_vars

-----------------------------------------------------------------------------
(* Properties.                                                             *)

\* The state has the shape the code's types allow.
TypeOK ==
    /\ heap \in Seq(Seq(Conns \union {NoConn}))
    /\ slice.arr \in 0 .. Len(heap) /\ slice.len \in 0 .. Cap
    /\ moving \in 0 .. slice.len
    /\ conn \in [Conns -> {"new", "open", "leaving", "gone"}]
    /\ \A m \in Messages : /\ send[m].pc \in {"new", "sending", "done"}
                           /\ send[m].told \subseteq Conns \union {NoConn}
                           /\ send[m].owed \subseteq Conns

\* Register and Unregister together keep the slice equal to the open
\* connections, each once: nothing left behind, nothing lost, although both
\* overwrite the array they share.
SliceIsOpenConns ==
    moving = 0 =>
        /\ {heap[slice.arr][i] : i \in 1 .. slice.len} = Open
        /\ slice.len = Cardinality(Open)

\* No send dereferences nil: every slot it has yet to read holds a connection,
\* however the array is reused or left behind meanwhile.
NeverNil ==
    \A m \in Messages : send[m].pc = "sending" =>
        \A i \in send[m].next .. send[m].from.len :
            heap[send[m].from.arr][i] \in Conns

\* CompleteStreamExport "tells the owner's open websocket connections how it
\* went": a connection open throughout the send is told.
OpenAreTold == \A m \in Messages : send[m].pc = "done" => send[m].owed \subseteq send[m].told

=============================================================================
