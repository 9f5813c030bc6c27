--------------------------- MODULE MCNoiseTunnel ---------------------------
(***************************************************************************)
(* Small instances of NoiseTunnel.  Router eve is configured with a private  *)
(* key that does not belong to its public key.                             *)
(***************************************************************************)
EXTENDS NoiseTunnel

CONSTANTS ada, bob, eve, other

MCStaticOf == [p \in Peer |-> IF p = eve THEN other ELSE p]

=============================================================================
