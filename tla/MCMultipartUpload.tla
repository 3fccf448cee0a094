-------------------------- MODULE MCMultipartUpload --------------------------
(* The instance of MultipartUpload TLC checks.                             *)
EXTENDS MultipartUpload, FiniteSets, TLC

\* Tabs, the files they choose from and goroutines are interchangeable.
Symmetric ==
    Permutations(Tabs) \union Permutations(Files) \union Permutations(Joiners)

\* What is explored: at most two part requests at a time, one failed call
\* without remedy in a behaviour, and none with a Save over another's.
Explored == /\ Cardinality(puts) <= 2
            /\ Cardinality(mishaps) <= 1 /\ (clobbered => mishaps = {})

=============================================================================
