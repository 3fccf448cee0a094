--------------------------- MODULE StreamContract ---------------------------
(***************************************************************************)
(* The life of a stream as the README and the service's error values tell  *)
(* it: draft -> uploading -> processing -> ready -> published, with error  *)
(* after a failed transcode, reprocessing from there, and deletion of      *)
(* anything that is not published.                                         *)
(*                                                                         *)
(* None of them says what happens when two requests write over each other: *)
(* from then on the contract promises nothing.                             *)
(***************************************************************************)

VARIABLE status   \* what GET /stream/:id/status answers, or "deleted", or
                  \* "overwritten" once a request wrote over another's write

Init == status = "draft"

Moves(from, to) == status \in from /\ status' \in to

Upload    == Moves({"draft"}, {"uploading", "processing"})
Complete  == Moves({"uploading"}, {"processing"})
Finish    == Moves({"processing"}, {"ready", "error"})
Reprocess == Moves({"error"}, {"processing"})
\* A rerun of the failed transcode succeeds before anyone asked for it.
Recover   == Moves({"error"}, {"ready"})
Publish   == Moves({"ready"}, {"published"})
Unpublish == Moves({"published"}, {"ready"})
Delete    == Moves({"draft", "uploading", "processing", "ready", "error"}, {"deleted"})
\* Two requests wrote over each other.
Overwrite == status # "overwritten" /\ status' = "overwritten"

Next == \/ Upload \/ Complete \/ Finish \/ Reprocess \/ Recover
        \/ Publish \/ Unpublish \/ Delete
        \/ Overwrite

Spec == Init /\ [][Next]_status

=============================================================================
