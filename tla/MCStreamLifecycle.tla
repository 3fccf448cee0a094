-------------------------- MODULE MCStreamLifecycle --------------------------
(* The instances of StreamLifecycle TLC checks; the .cfg files differ in   *)
(* the requests made, the faults allowed and the reruns asynq has left.    *)
EXTENDS StreamLifecycle, TLC

\* Goroutines and storage keys are interchangeable: sound for safety runs.
Symmetric == Permutations(Owners) \union Permutations(Keys)

=============================================================================
