---------------------------- MODULE PacketCodec ----------------------------
(***************************************************************************)
(* How postcard lays out a RouteWeaverPacket (common/src/message.rs), over *)
(* small bytes: a byte below Base stands for itself, a byte from Base on   *)
(* is a digit of a varint with another digit behind it (128 in postcard).  *)
(* The two keys, of fixed width and not inspected, are one byte.           *)
(***************************************************************************)
EXTENDS Naturals, Sequences

CONSTANT Base

\* The shortest varint of n < Base^2, digits from the lowest.
Varint(n) == IF n < Base THEN <<n>> ELSE <<Base + (n % Base), n \div Base>>

\* postcard reads a varint with leading zeros too.
Varints(n) == {Varint(n)} \cup (IF n < Base THEN {<<Base + n, 0>>} ELSE {})

Encoded(p) ==
    <<p.keys>> \o Varint(p.pre_encryption_transformation)
      \o Varint(Len(p.message)) \o p.message

\* All byte strings from which wire_decode gets packet p.
Decodable(p) ==
    {<<p.keys>> \o t \o n \o p.message :
        t \in Varints(p.pre_encryption_transformation),
        n \in Varints(Len(p.message))}

=============================================================================
