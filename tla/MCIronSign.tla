----------------------------- MODULE MCIronSign -----------------------------
(* Instances of IronSign for TLC. *)
EXTENDS IronSign, TLC

CONSTANTS b1, b2, p1, p2, p3, p4

FirstThenSecond == <<b1, b2>>
TwoByTwo        == (b1 :> 2) @@ (b2 :> 2)
OneAndTwo       == (b1 :> 1) @@ (b2 :> 2)
=============================================================================
