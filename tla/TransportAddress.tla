-------------------------- MODULE TransportAddress --------------------------
(***************************************************************************)
(* The names of links (common/src/address.rs).  A text is the sequence of  *)
(* the parts between its slashes.  from_str takes one part for each field; *)
(* the data of an address made by a transport, such as the path of a       *)
(* socket, may have slashes of its own.                                    *)
(***************************************************************************)
EXTENDS Naturals, Sequences

CONSTANTS
    Part,     \* strings without a slash
    Chars,    \* part -> its length
    PortOf,   \* part -> the u16 it parses to, or None
    Decimal,  \* u16 -> the part that displays it
    None      \* absence of a value

Port == DOMAIN Decimal

ASSUME AddressAssumption ==
    /\ Chars \in [Part -> Nat]
    /\ PortOf \in [Part -> Port \cup {None}]
    /\ None \notin Port
    /\ \A n \in Port : Decimal[n] \in Part /\ PortOf[Decimal[n]] = n

\* The part fits an ArrayString of this capacity.
Fits(part, capacity) == Chars[part] <= capacity

\* The transports' data, of at most 128 bytes, is not measured.
TransportAddress ==
    [address_type : {s \in Part : Fits(s, 8)}, data : Seq(Part),
     protocol : {s \in Part : Fits(s, 8)}, port : Port \cup {None}]

ASSUME NoAddressAssumption == None \notin TransportAddress

\* Mutant: the type of the address may be of any length.
from_strAnyType(text) ==
    IF \/ Len(text) < 4
       \/ ~Fits(text[3], 128) \/ ~Fits(text[4], 8)
       \/ Len(text) > 4 /\ PortOf[text[5]] = None
      THEN None
      ELSE [address_type |-> text[2], data |-> <<text[3]>>,
            protocol |-> text[4],
            port |-> IF Len(text) > 4 THEN PortOf[text[5]] ELSE None]

\* None when the text does not parse; further parts are ignored.
from_str(text) ==
    IF \/ Len(text) < 4
       \/ ~Fits(text[2], 8) \/ ~Fits(text[3], 128) \/ ~Fits(text[4], 8)
       \/ Len(text) > 4 /\ PortOf[text[5]] = None
      THEN None
      ELSE [address_type |-> text[2], data |-> <<text[3]>>,
            protocol |-> text[4],
            port |-> IF Len(text) > 4 THEN PortOf[text[5]] ELSE None]

\* Mutant: the fields in the order of the struct.
DisplayAsDeclared(a) ==
    <<"", a.address_type, a.protocol>> \o a.data
      \o (IF a.port = None THEN <<>> ELSE <<Decimal[a.port]>>)

Display(a) ==
    <<"", a.address_type>> \o a.data \o <<a.protocol>>
      \o (IF a.port = None THEN <<>> ELSE <<Decimal[a.port]>>)

=============================================================================
