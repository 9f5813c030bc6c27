---------------------------- MODULE PacketStream ----------------------------
(***************************************************************************)
(* What one direction of a link promises: packets come out in the order    *)
(* they were sent, none twice and none altered.  The link may break at any *)
(* time, and the receiver is then told so; but if the stream ends without  *)
(* an error, every packet whose send returned Ok has come out.             *)
(***************************************************************************)
EXTENDS Naturals, Sequences

CONSTANT Packet

VARIABLES
    sent,      \* packets given to send
    returned,  \* number of sends that returned Ok
    delivered, \* packets the receiver got
    end        \* what the receiver knows of the stream

vars == <<sent, returned, delivered, end>>

Init ==
    /\ sent = <<>> /\ returned = 0
    /\ delivered = <<>>
    /\ end = "open"

Send(p) ==
    /\ end # "ended"
    /\ returned = Len(sent)
    /\ sent' = Append(sent, p)
    /\ UNCHANGED <<returned, delivered, end>>

Return ==
    /\ returned' = Len(sent)
    /\ UNCHANGED <<sent, delivered, end>>

Deliver ==
    /\ end = "open"
    /\ Len(delivered) < Len(sent)
    /\ delivered' = Append(delivered, sent[Len(delivered) + 1])
    /\ UNCHANGED <<sent, returned, end>>

End ==
    /\ end = "open"
    /\ returned <= Len(delivered)
    /\ end' = "ended"
    /\ UNCHANGED <<sent, returned, delivered>>

Break ==
    /\ end = "open"
    /\ end' = "broken"
    /\ UNCHANGED <<sent, returned, delivered>>

Next == (\E p \in Packet : Send(p)) \/ Return \/ Deliver \/ End \/ Break

Spec == Init /\ [][Next]_vars

=============================================================================
