----------------------------- MODULE PacketFate -----------------------------
(***************************************************************************)
(* What the links of a router process promise about the packets that pass  *)
(* through it.  A packet enters once, from a link, and is sent at most     *)
(* once.  It can be lost, but only after something in the process failed.  *)
(***************************************************************************)
CONSTANT Packet

VARIABLES
    fate,   \* packet -> where its life has led it
    fault   \* a link or a task of the process has failed

vars == <<fate, fault>>

Init ==
    /\ fate = [p \in Packet |-> "outside"]
    /\ fault = FALSE

\* Packets a step loses, together with the failure that explains it.
Lose(S) ==
    /\ fate' = [p \in Packet |-> IF p \in S THEN "lost" ELSE fate[p]]
    /\ fault' = TRUE

Enter(p) ==
    /\ fate[p] = "outside"
    /\ fate' = [fate EXCEPT ![p] = "inside"]
    /\ UNCHANGED fault

Send(p) ==
    /\ fate[p] = "inside"
    /\ fate' = [fate EXCEPT ![p] = "sent"]
    /\ UNCHANGED fault

Next ==
    \/ \E p \in Packet : Enter(p) \/ Send(p)
    \/ \E S \in SUBSET {p \in Packet : fate[p] = "inside"} : Lose(S)

Spec == Init /\ [][Next]_vars

=============================================================================
