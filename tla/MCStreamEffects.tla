--------------------------- MODULE MCStreamEffects ---------------------------
(* The instance of StreamEffects TLC checks.                               *)
EXTENDS StreamEffects, TLC

\* Goroutines and storage keys are interchangeable.
Symmetric == Permutations(Owners) \union Permutations(Keys)

\* What is explored: nothing on from a row brought back (AccessFollowsRow does
\* not speak of it, the theorems do of the rest), nor from the loss of effects of
\* both kinds.
Explored == ~revived /\ ~(lost /\ unheard)

=============================================================================
