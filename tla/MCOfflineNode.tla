--------------------------- MODULE MCOfflineNode ---------------------------
(* Instances of OfflineNode for TLC. *)
EXTENDS OfflineNode, TLC

CONSTANTS b1, b2, p1, p2, f1

SamePayloads == Permutations({p1, p2})
TwoByTwo     == (b1 :> 2) @@ (b2 :> 2)
TwoAndOne    == (b1 :> 2) @@ (b2 :> 1)
=============================================================================
