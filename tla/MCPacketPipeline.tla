-------------------------- MODULE MCPacketPipeline --------------------------
(***************************************************************************)
(* Small instances of PacketPipeline: two transfers and room for the state *)
(* of one, so that each new transfer drops the other.                      *)
(***************************************************************************)
EXTENDS PacketPipeline

=============================================================================
