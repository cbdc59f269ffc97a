--------------------------- MODULE MCOneDirectory ---------------------------
(* Instances of OneDirectory for TLC. *)
EXTENDS OneDirectory, TLC

CONSTANTS b1, b2, p1, p2, p3, p4

FirstThenSecond == <<b1, b2>>
TwoByTwo        == (b1 :> 2) @@ (b2 :> 2)
=============================================================================
