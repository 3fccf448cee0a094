------------------------------ MODULE MCWssHub ------------------------------
(* The instance of WssHub TLC checks. *)
EXTENDS WssHub, TLC

\* Connections and messages are interchangeable.
Symmetric == Permutations(Conns) \union Permutations(Messages)

=============================================================================
