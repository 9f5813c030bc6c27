-------------------------- MODULE MCRouterProcess --------------------------
(***************************************************************************)
(* Small instances of RouterProcess.                                       *)
(***************************************************************************)
EXTENDS RouterProcess

CONSTANTS a1, tcp

MCProtocolOf == [a \in Address |-> tcp]
MCShardOf    == [a \in Address |-> 1]

=============================================================================
