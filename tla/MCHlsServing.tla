---- MODULE MCHlsServing ----
(* HlsServing for TLC: the constants are given in the configurations. *)
EXTENDS HlsServing
====
