---------------------------- MODULE MCPeerLinks ----------------------------
(***************************************************************************)
(* Small instances of PeerLinks.  Two addresses of an enabled transport    *)
(* have shards of `writers` of their own; the third is a gateway whose     *)
(* transport is not enabled.                                               *)
(***************************************************************************)
EXTENDS PeerLinks, TLC

CONSTANTS a1, a2, a3, tcp, unix

MCProtocolOf == [a \in Address |-> IF a = a3 THEN unix ELSE tcp]
MCTwoShards  == [a \in Address |-> IF a = a1 THEN 1 ELSE 2]

MCSymmetry == Permutations(Conn) \cup Permutations(Packet)

=============================================================================
