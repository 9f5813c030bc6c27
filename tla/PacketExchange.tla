--------------------------- MODULE PacketExchange ---------------------------
(***************************************************************************)
(* How the tasks of the links and the tasks behind them exchange packets,  *)
(* through two bounded pipes.  The links put packets into the first and    *)
(* take packets out of the second, where they may put back what they could *)
(* not write.  A packet behind the links is put into the second pipe as it *)
(* is, or as an answer, or dropped: packets are never multiplied.  Nobody  *)
(* puts a packet where its receiver has stopped.                           *)
(***************************************************************************)
EXTENDS Naturals

CONSTANTS TransportPipeCap, RouterPipeCap

VARIABLES
    coming,    \* number of packets in transport_packet_pipe
    behind,    \* number of packets behind it
    going,     \* number of packets in packet_router_pipe
    leaving,   \* number of packets the links have to write
    sorter_up, \* whether each pipe has a receiver
    router_up

vars == <<coming, behind, going, leaving, sorter_up, router_up>>

Init ==
    /\ coming = 0 /\ behind = 0 /\ going = 0 /\ leaving = 0
    /\ sorter_up = TRUE /\ router_up = TRUE

(* The side of the links *)

Arrive ==
    /\ sorter_up /\ coming < TransportPipeCap
    /\ coming' = coming + 1
    /\ UNCHANGED <<behind, going, leaving, sorter_up, router_up>>

RouterTakes ==
    /\ router_up /\ going > 0
    /\ going' = going - 1 /\ leaving' = leaving + 1
    /\ UNCHANGED <<coming, behind, sorter_up, router_up>>

PutBack ==
    /\ router_up /\ going < RouterPipeCap
    /\ leaving > 0
    /\ going' = going + 1 /\ leaving' = leaving - 1
    /\ UNCHANGED <<coming, behind, sorter_up, router_up>>

\* Packets are written, or lost with a link.
Leave(n) ==
    /\ leaving' = leaving - n
    /\ UNCHANGED <<coming, behind, going, sorter_up, router_up>>

\* The router task panics, maybe with a packet in hand.
RouterStops(n) ==
    /\ router_up
    /\ n <= 1
    /\ router_up' = FALSE /\ going' = 0
    /\ leaving' = leaving - n
    /\ UNCHANGED <<coming, behind, sorter_up>>

(* The side behind the links *)

Take ==
    /\ sorter_up /\ coming > 0
    /\ coming' = coming - 1 /\ behind' = behind + 1
    /\ UNCHANGED <<going, leaving, sorter_up, router_up>>

Submit ==
    /\ router_up /\ going < RouterPipeCap
    /\ behind > 0
    /\ behind' = behind - 1 /\ going' = going + 1
    /\ UNCHANGED <<coming, leaving, sorter_up, router_up>>

Drop(n) ==
    /\ behind' = behind - n
    /\ UNCHANGED <<coming, going, leaving, sorter_up, router_up>>

\* The sorter task panics, maybe with a packet in hand.
SorterStops(n) ==
    /\ sorter_up
    /\ n <= 1
    /\ sorter_up' = FALSE /\ coming' = 0
    /\ behind' = behind - n
    /\ UNCHANGED <<going, leaving, router_up>>

Next == \/ Arrive \/ RouterTakes \/ PutBack \/ Take \/ Submit
        \/ \E n \in 0..leaving : Leave(n) \/ RouterStops(n)
        \/ \E n \in 0..behind : Drop(n) \/ SorterStops(n)

Spec == Init /\ [][Next]_vars

=============================================================================
