-------------------------- MODULE MCTransportLink --------------------------
(***************************************************************************)
(* A small instance of TransportLink: two processes on a host, each with   *)
(* a configuration of its own.                                             *)
(***************************************************************************)
EXTENDS TransportLink, PacketCodec, Functions, TLC

MCPart == {"", "ip", "tcp", "unix", "bluetooth", "10.0.0.1", "example.org",
           "AA:BB", "tmp", "s", "lossy", "3434", "4000"}

\* 100 bytes that are not UTF-8.
MCChars == [s \in MCPart |-> IF s = "lossy" THEN 300 ELSE Len(s)]
MCDecimal == (3434 :> "3434") @@ (4000 :> "4000")
MCPortOf == [s \in MCPart |-> CASE s = "3434" -> 3434 [] s = "4000" -> 4000
                                [] OTHER -> None]

\* A gateway a peer may happen to come from; one that parses but is no IpAddr;
\* two that do not parse, by the slashes of the path and the length of the
\* type; and no seed node.
MCSeedText == {<<"", "ip", "10.0.0.1", "tcp", "4000">>,
               <<"", "ip", "example.org", "tcp", "3434">>,
               <<"", "unix", "", "tmp", "s", "unix">>,
               <<"", "bluetooth", "AA:BB", "unix">>, None}
MCIp == {"10.0.0.1"}
MCBluetoothName == {"AA:BB"}

\* A path that fits, one of one part, and one whose text is too long.
MCSocketName == {<<"", "tmp", "s">>, <<"s">>, <<"", "tmp", "lossy">>}

\* The characters of the parts and the slashes between them.
MCPathChars == [path \in MCSocketName |->
                  FoldFunction(+, Len(path) - 1, [i \in DOMAIN path |-> MCChars[path[i]]])]

MCConfigured == {{"tcp", "bluetooth", "unix"}, {"unix"}}

MCPacket == {[keys |-> 0, pre_encryption_transformation |-> 0, message |-> <<>>],
             [keys |-> 1, pre_encryption_transformation |-> 1, message |-> <<0>>]}
MCEncode == [p \in MCPacket |-> Encoded(p)]
MCForms == [p \in MCPacket |-> Decodable(p)]

=============================================================================
