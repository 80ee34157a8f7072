-------------------------- MODULE MCSessionPackets --------------------------
(* Instances of SessionPackets for TLC. *)
EXTENDS SessionPackets
=============================================================================
