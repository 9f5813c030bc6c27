---------------------------- MODULE FramedStream ----------------------------
(***************************************************************************)
(* One direction of a link: the sender task's writer.send(packet), the     *)
(* byte stream of the transport, and the reader.next() of the listener     *)
(* task at the other end (common/src/transport.rs, message.rs).            *)
(*                                                                         *)
(* `stream` is everything that was ever put into the link, in order, and   *)
(* the progress of its bytes is kept in three positions in it: flushed to  *)
(* the transport, arrived in the reader's buffer, consumed by the decoder. *)
(* Bytes that no encoder wrote (`noise`) may be among them.                *)
(*                                                                         *)
(* External: tokio_util's FramedWrite and FramedRead around the codec, and *)
(* postcard, of which this module knows the encoding of each packet and    *)
(* all the byte strings that decode to it (module PacketCodec).            *)
(***************************************************************************)
EXTENDS Naturals, Sequences

CONSTANTS
    Byte,
    Packet,
    wire_encode,  \* packet -> its encoding
    Forms,        \* packet -> the byte strings that decode to it
    SERIALIZED_PACKET_SIZE_MAX,
    MaxSent,      \* bound: packets sent
    MaxNoise      \* bound: bytes of noise

IsPrefix(s, t) == Len(s) <= Len(t) /\ \A i \in 1..Len(s) : s[i] = t[i]

ASSUME CodecAssumption ==
    /\ wire_encode \in [Packet -> Seq(Byte)]
    /\ SERIALIZED_PACKET_SIZE_MAX \in Nat
    /\ \A p \in Packet :
         /\ Len(wire_encode[p]) \in 1..SERIALIZED_PACKET_SIZE_MAX
         /\ wire_encode[p] \in Forms[p]
         /\ \A f \in Forms[p] : /\ f \in Seq(Byte)
                                /\ Len(wire_encode[p]) <= Len(f)
    /\ \A p, q \in Packet : \A f \in Forms[p], g \in Forms[q] :
         IsPrefix(f, g) => f = g /\ p = q

VARIABLES
    writer,    \* control point of the sender's end
    sent,      \* packets given to send, in order
    returned,  \* number of sends that returned Ok
    stream,    \* all bytes put into the link
    ends,      \* history: where in `stream` the bytes of each packet end
    noise,     \* history: number of bytes of noise in `stream`
    clean,     \* history: number of packets sent before any noise
    flushed, arrived, consumed, \* positions in `stream`
    reader,    \* control point of the receiver's end
    at_eof,    \* FramedRead has seen the end of the stream
    decoded    \* packets that next() returned, in order

writerVars == <<writer, sent, returned, stream, ends, noise, clean, flushed>>
readerVars == <<arrived, consumed, reader, at_eof, decoded>>
streamVars == <<writerVars, readerVars>>

StreamTypeOK ==
    /\ writer \in {"idle", "writing", "gone"}
    /\ sent \in Seq(Packet) /\ returned \in 0..Len(sent)
    /\ stream \in Seq(Byte)
    /\ ends \in Seq(Nat) /\ Len(ends) = Len(sent)
    /\ noise \in Nat /\ clean \in 0..Len(sent)
    /\ flushed \in Nat /\ arrived \in Nat /\ consumed \in Nat
    /\ reader \in {"read", "decode", "forward", "ended", "torn", "failed"}
    /\ at_eof \in BOOLEAN
    /\ decoded \in Seq(Packet)

StreamInit ==
    /\ writer = "idle"
    /\ sent = <<>> /\ returned = 0
    /\ stream = <<>> /\ ends = <<>>
    /\ noise = 0 /\ clean = 0
    /\ flushed = 0 /\ arrived = 0 /\ consumed = 0
    /\ reader = "read"
    /\ at_eof = FALSE
    /\ decoded = <<>>

-----------------------------------------------------------------------------
(* The sender's end: writer.send(packet).await is feed, then flush *)

\* start_send: the packet is encoded into the buffer of FramedWrite.
Send(p) ==
    /\ writer = "idle" /\ Len(sent) < MaxSent
    /\ sent' = Append(sent, p)
    /\ stream' = stream \o wire_encode[p]
    /\ ends' = Append(ends, Len(stream'))
    /\ clean' = IF noise = 0 THEN clean + 1 ELSE clean
    /\ writer' = "writing"
    /\ UNCHANGED <<returned, noise, flushed, readerVars>>

\* poll_flush: the transport takes some of the bytes in the buffer.
Flush(n) ==
    /\ writer = "writing"
    /\ n \in (flushed + 1)..Len(stream)
    /\ flushed' = n
    /\ UNCHANGED <<writer, sent, returned, stream, ends, noise, clean, readerVars>>

\* The buffer is empty: send returns Ok.
SendReturns ==
    /\ writer = "writing" /\ flushed = Len(stream)
    /\ writer' = "idle"
    /\ returned' = Len(sent)
    /\ UNCHANGED <<sent, stream, ends, noise, clean, flushed, readerVars>>

\* Mutant: one more send returns Ok although the writer is dropped.
WriterEndsOk ==
    /\ writer # "gone"
    /\ writer' = "gone"
    /\ returned' = returned + 1
    /\ UNCHANGED <<sent, stream, ends, noise, clean, flushed, readerVars>>

\* The writer is dropped with what is in its buffer: send returned an error,
\* or the sender task left its loop, or the process ended.
WriterEnds ==
    /\ writer # "gone"
    /\ writer' = "gone"
    /\ UNCHANGED <<sent, returned, stream, ends, noise, clean, flushed, readerVars>>

\* A byte that this encoder did not write, between two packets.
Noise(b) ==
    /\ writer = "idle" /\ noise < MaxNoise
    /\ stream' = Append(stream, b)
    /\ flushed' = Len(stream')
    /\ noise' = noise + 1
    /\ UNCHANGED <<writer, sent, returned, ends, clean, readerVars>>

-----------------------------------------------------------------------------
(* The receiver's end: FramedRead::poll_next *)

\* The transport gave some bytes.
ReadBytes(n) ==
    /\ reader = "read"
    /\ n \in (arrived + 1)..flushed
    /\ arrived' = n
    /\ reader' = "decode"
    /\ UNCHANGED <<writerVars, consumed, at_eof, decoded>>

\* The transport gave zero bytes: the writer is gone and all has arrived.
ReadEof ==
    /\ reader = "read" /\ writer = "gone" /\ arrived = flushed
    /\ at_eof' = TRUE
    /\ reader' = "decode"
    /\ UNCHANGED <<writerVars, arrived, consumed, decoded>>

\* The transport gave an error, which next() returns.
ReadFails ==
    /\ reader = "read"
    /\ reader' = "failed"
    /\ UNCHANGED <<writerVars, arrived, consumed, at_eof, decoded>>

\* Byte string f is at the head of the buffer.
AtHead(f) ==
    /\ consumed + Len(f) <= arrived
    /\ \A i \in 1..Len(f) : stream[consumed + i] = f[i]

\* wire_decode, which ignores what is behind the packet.
Decodes(p) == \E f \in Forms[p] : AtHead(f)

\* Mutant: the buffer is emptied by the packet at its head.
DecodePacketClears(p) ==
    /\ reader = "decode"
    /\ Decodes(p)
    /\ decoded' = Append(decoded, p)
    /\ consumed' = arrived
    /\ reader' = "forward"
    /\ UNCHANGED <<writerVars, arrived, at_eof>>

\* decode returned Some(packet): the buffer advances by the size of a new
\* encoding of the packet, whatever the bytes were that decoded to it.
DecodePacket(p) ==
    /\ reader = "decode"
    /\ Decodes(p)
    /\ decoded' = Append(decoded, p)
    /\ consumed' = consumed + Len(wire_encode[p])
    /\ reader' = "forward"
    /\ UNCHANGED <<writerVars, arrived, at_eof>>

\* Mutant: all that does not decode is skipped.
SkippedAlways == SERIALIZED_PACKET_SIZE_MAX

\* The bytes decode skips when nothing decodes.
Skipped ==
    IF arrived - consumed > SERIALIZED_PACKET_SIZE_MAX
      THEN SERIALIZED_PACKET_SIZE_MAX ELSE 0

\* Mutant: the end of the stream is an error whatever is in the buffer.
AfterEofAlways == "torn"

\* At the end of the stream, next() returns None if the buffer is empty,
\* then and ever after, and an error if bytes remain.
AfterEof == IF consumed' = arrived THEN "ended" ELSE "torn"

\* decode returned None, called by poll_next or, at the end, by decode_eof.
DecodeNothing ==
    /\ reader = "decode"
    /\ \A p \in Packet : ~Decodes(p)
    /\ consumed' = consumed + Skipped
    /\ reader' = IF at_eof THEN AfterEof ELSE "read"
    /\ UNCHANGED <<writerVars, arrived, at_eof, decoded>>

\* Mutant: a read comes before every decode.
ForwardedReads ==
    /\ reader = "forward"
    /\ reader' = "read"
    /\ UNCHANGED <<writerVars, arrived, consumed, at_eof, decoded>>

\* The listener task has found room for the packet and asks for the next.
Forwarded ==
    /\ reader = "forward"
    /\ reader' = "decode"
    /\ UNCHANGED <<writerVars, arrived, consumed, at_eof, decoded>>

-----------------------------------------------------------------------------
WriterNext == \/ \E p \in Packet : Send(p)
              \/ \E n \in (flushed + 1)..Len(stream) : Flush(n)
              \/ SendReturns \/ WriterEnds
              \/ \E b \in Byte : Noise(b)

ReaderWork == \/ \E n \in (arrived + 1)..flushed : ReadBytes(n)
              \/ ReadEof
              \/ \E p \in Packet : DecodePacket(p)
              \/ DecodeNothing

StreamNext == WriterNext \/ ReaderWork \/ ReadFails \/ Forwarded

StreamSpec == StreamInit /\ [][StreamNext]_streamVars

-----------------------------------------------------------------------------
(* Properties *)

\* BytesMut::advance panics beyond the bytes in the buffer.  The decoder
\* never gets there, whatever noise it is given: neither by the size of a
\* packet encoded anew, which may differ from that of the bytes that were
\* decoded, nor by skipping what does not decode.
AdvanceInBounds == consumed <= arrived /\ arrived <= flushed

\* The listener task gets the error "bytes remaining on stream" only when
\* the stream was cut inside a packet, and then from the very packet whose
\* send did not return: all packets before it were delivered.
TornIsInterrupted ==
    reader = "torn" /\ noise = 0 =>
        /\ Len(decoded) = returned
        /\ returned + 1 = Len(sent)
        /\ flushed < Len(stream)

\* Whenever the listener task waits for bytes, or its stream is over, it has
\* been given every packet whose bytes have arrived, with no noise before it:
\* none lies in the buffer until another comes behind it.
ArrivedIsDelivered ==
    reader \notin {"decode", "forward"} =>
        \A n \in 1..clean : ends[n] <= arrived => n <= Len(decoded)

\* What the stream promises of the packets sent before any noise: module
\* PacketStream.
Least(m, n) == IF m < n THEN m ELSE n

Promise == INSTANCE PacketStream WITH
    sent      <- SubSeq(sent, 1, clean),
    returned  <- Least(returned, clean),
    delivered <- SubSeq(decoded, 1, Least(Len(decoded), clean)),
    end       <- CASE reader = "ended" -> "ended"
                   [] reader \in {"torn", "failed"} -> "broken"
                   [] OTHER -> "open"

\* However the stream is cut into writes and reads, however packets run into
\* each other in the buffer, and whatever noise comes after them, the packets
\* come out as they were sent, and a link that ends in silence has lost none
\* of the packets whose sends returned.
ImplementsPacketStream == Promise!Spec

\* All bytes of the n-th packet have gone into the transport, with no noise
\* before them.
Flushed(n) == n <= clean /\ ends[n] <= flushed

\* Such a packet does come out, if the transport does not fail and the
\* listener task finds room for those before it: the rest of the stream need
\* not come for that, and the end of the stream does not outrun it.
FlushedIsDelivered ==
    \A n \in 1..MaxSent :
        [](Flushed(n) => <>(Len(decoded) >= n \/ reader = "failed"))
          \/ <>[](reader = "forward")

=============================================================================
