--------------------------- MODULE MCStreamExport ---------------------------
(* The instances of StreamExport TLC checks; the .cfg files differ in the  *)
(* environment they allow.                                                 *)
EXTENDS StreamExport, TLC

\* Goroutines and task ids are interchangeable: sound for the safety runs.
Symmetric == Permutations(Requests) \union Permutations(Downloads)
                 \union Permutations(Tasks)

\* What the safety run explores: nothing on from a row that took another
\* attempt's report or from a deletion cut off midway, which its properties
\* except.  The theorems speak of what comes after.
Explored == ~misled /\ ~cut

=============================================================================
