--------------------------- MODULE ExportContract ---------------------------
(***************************************************************************)
(* What a stream's single-file export promises its owner, as the comments  *)
(* of the code state it: there is at most one export of a stream, asking   *)
(* for it makes it pending, a pending export is decided once, a decision   *)
(* "ready" stands, and a failed export may be asked for again.             *)
(*                                                                         *)
(* Nobody says what happens when a pending export is handed the outcome of *)
(* another attempt: from then on the contract promises nothing.            *)
(***************************************************************************)

VARIABLE status   \* the state GET /stream/:id/export shows the owner, or
                  \* "crossed" once two attempts' outcomes were mixed up

Init == status = "none"

\* The owner asks for an export that does not exist yet, or that failed.
Request == status \in {"none", "failed"} /\ status' = "pending"

\* The export is decided. Nothing decides it a second time.
Decide == status = "pending" /\ status' \in {"ready", "failed"}

\* A pending export takes the report of another attempt.
Cross == status = "pending" /\ status' = "crossed"

Next == Request \/ Decide \/ Cross

Spec == Init /\ [][Next]_status

=============================================================================
