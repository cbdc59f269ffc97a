--------------------------- MODULE MCCoordRuntime ---------------------------
(* Instances of CoordRuntime for TLC. *)
EXTENDS CoordRuntime, TLC, FiniteSets

CONSTANTS b1, b2, p1, p2

Interchangeable == Permutations({p1, p2}) \cup Permutations({b1, b2})
SamePayloads == Permutations({p1, p2})
TwoByTwo == (b1 :> 2) @@ (b2 :> 2)
TwoAndOne == (b1 :> 2) @@ (b2 :> 1)
TwoAndNone == (b1 :> 2) @@ (b2 :> 0)
OneAndNone == (b1 :> 1) @@ (b2 :> 0)
OneByOne == (b1 :> 1) @@ (b2 :> 1)
=============================================================================
