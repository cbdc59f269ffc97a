------------------------------ MODULE MCDemos ------------------------------
(* Instances of Demos for TLC. *)
EXTENDS Demos

P2PThenBroadcast == <<"OneParty", "AllParties">>
=============================================================================
