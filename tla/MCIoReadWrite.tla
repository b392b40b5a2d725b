--------------------------- MODULE MCIoReadWrite ---------------------------
(* Instances of IoReadWrite. *)
EXTENDS IoReadWrite

CONSTANTS c1, c2

OneCall == {c1}
TwoCalls == {c1, c2}
=============================================================================
