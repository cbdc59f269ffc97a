-------------------------- MODULE MCInitialization --------------------------
(* Instances of Initialization for TLC: the party counts of a run. *)
EXTENDS Initialization

TwoOrThree == {2, 3}
=============================================================================
