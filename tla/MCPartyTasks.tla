---------------------------- MODULE MCPartyTasks ----------------------------
(* Instances of PartyTasks for TLC. *)
EXTENDS PartyTasks

TwoBroadcastsThenP2P == <<"AllParties", "AllParties", "OneParty">>
ThreeBroadcasts      == <<"AllParties", "AllParties", "AllParties">>
=============================================================================
