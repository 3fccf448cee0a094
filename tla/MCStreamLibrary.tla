--------------------------- MODULE MCStreamLibrary ---------------------------
(* The instance of StreamLibrary TLC checks: three streams, the second of  *)
(* somebody else.                                                          *)
EXTENDS StreamLibrary

Three      == 1..3
AskedFor   == {<<1, 2>>, <<3, 1>>}

=============================================================================
