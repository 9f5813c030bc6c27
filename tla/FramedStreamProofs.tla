------------------------- MODULE FramedStreamProofs -------------------------
(***************************************************************************)
(* Proofs about FramedStream, for every set of packets and every prefix-   *)
(* free encoding of them, however many packets are sent, however the       *)
(* stream is cut into writes and reads, and whatever noise is in it.       *)
(*                                                                         *)
(* The invariant says where in the stream the packets sent before any      *)
(* noise lie, and that as long as one of them is still to come the decoder *)
(* stands at its first byte.                                               *)
(***************************************************************************)
EXTENDS FramedStream, SequenceTheorems, TLAPS

\* Where the i-th packet ends, and the next begins.
Boundary(at, i) == IF i = 0 THEN 0 ELSE at[i]

\* The bytes of f lie in s behind this position.
Lies(f, s, at) == \A j \in 1..Len(f) : s[at + j] = f[j]

Written ==
    \A i \in 1..clean :
        /\ Boundary(ends, i) = Boundary(ends, i - 1) + Len(wire_encode[sent[i]])
        /\ Boundary(ends, i) <= Len(stream)
        /\ i <= returned => Boundary(ends, i) <= flushed
        /\ Lies(wire_encode[sent[i]], stream, Boundary(ends, i - 1))

CleanSoFar ==
    noise = 0 => clean = Len(sent) /\ Len(stream) = Boundary(ends, clean)

Sending ==
    /\ writer = "idle" => returned = Len(sent) /\ flushed = Len(stream)
    /\ writer = "writing" => returned + 1 = Len(sent)
    /\ Len(sent) <= returned + 1

Positions == AdvanceInBounds /\ flushed <= Len(stream)

InOrder ==
    /\ \A i \in 1..Len(decoded) : i <= clean => decoded[i] = sent[i]
    /\ Len(decoded) < clean => consumed = Boundary(ends, Len(decoded))
    /\ noise = 0 => Len(decoded) <= clean /\ consumed = Boundary(ends, Len(decoded))

Endings ==
    /\ at_eof => writer = "gone" /\ arrived = flushed
    /\ reader \in {"ended", "torn"} => at_eof
    /\ reader = "ended" => Least(returned, clean) <= Len(decoded)
    /\ TornIsInterrupted

StreamInv ==
    /\ StreamTypeOK /\ Written /\ CleanSoFar /\ Sending
    /\ Positions /\ InOrder /\ Endings

\* The encoder's part of the assumption on the codec.
LEMMA Encoding ==
    ASSUME NEW p \in Packet
    PROVE  /\ wire_encode[p] \in Seq(Byte)
           /\ Len(wire_encode[p]) \in Nat \ {0}
           /\ Len(wire_encode[p]) <= SERIALIZED_PACKET_SIZE_MAX
           /\ SERIALIZED_PACKET_SIZE_MAX \in Nat
           /\ wire_encode[p] \in Forms[p]
  BY CodecAssumption

LEMMA StreamInvInit == StreamInit => StreamInv
<1> HAVE StreamInit
<1>1. /\ <<>> \in Seq(Packet) /\ <<>> \in Seq(Byte) /\ <<>> \in Seq(Nat)
      /\ Len(<<>>) = 0
  BY EmptySeq
<1>2. StreamTypeOK
  <2>1. /\ sent \in Seq(Packet) /\ stream \in Seq(Byte) /\ ends \in Seq(Nat)
        /\ decoded \in Seq(Packet)
        /\ Len(sent) = 0 /\ Len(ends) = 0
    BY <1>1 DEF StreamInit
  <2>2. /\ writer = "idle" /\ reader = "read" /\ at_eof \in BOOLEAN
        /\ returned = 0 /\ noise = 0 /\ clean = 0
        /\ flushed = 0 /\ arrived = 0 /\ consumed = 0
    BY DEF StreamInit
  <2> QED
    BY <2>1, <2>2 DEF StreamTypeOK
<1>3. Written /\ CleanSoFar
  BY <1>1 DEF StreamInit, Written, CleanSoFar, Boundary
<1>4. Sending /\ Positions
  BY <1>1 DEF StreamInit, Sending, Positions, AdvanceInBounds
<1>5. InOrder
  BY <1>1 DEF StreamInit, InOrder, Boundary
<1>6. Endings
  BY DEF StreamInit, Endings, TornIsInterrupted
<1> QED
  BY <1>2, <1>3, <1>4, <1>5, <1>6 DEF StreamInv

-----------------------------------------------------------------------------
(* The decoder at the first byte of a packet *)

\* If a packet sent before any noise is the next to come and has arrived, the
\* decoder finds it.
LEMMA ArrivedDecodes ==
    ASSUME StreamInv, Len(decoded) < clean,
           Boundary(ends, Len(decoded) + 1) <= arrived
    PROVE  /\ Len(decoded) + 1 \in 1..Len(sent)
           /\ sent[Len(decoded) + 1] \in Packet
           /\ Decodes(sent[Len(decoded) + 1])
<1> DEFINE k == Len(decoded)
           p == sent[k + 1]
<1>1. k \in Nat /\ k + 1 \in 1..clean /\ k + 1 \in 1..Len(sent) /\ p \in Packet
  BY LenProperties, ElementOfSeq DEF StreamInv, StreamTypeOK
<1>2. consumed = Boundary(ends, k) /\ Boundary(ends, k + 1) = consumed + Len(wire_encode[p])
  BY <1>1 DEF StreamInv, InOrder, Written
<1>3. Lies(wire_encode[p], stream, consumed)
  BY <1>1, <1>2 DEF StreamInv, Written
<1>4. AtHead(wire_encode[p])
  BY <1>2, <1>3 DEF AtHead, Lies
<1> QED
  BY <1>1, <1>4, Encoding DEF Decodes

\* No other packet is found in its place.
LEMMA DecodesNext ==
    ASSUME StreamInv, Len(decoded) < clean, NEW p \in Packet, Decodes(p)
    PROVE  /\ p = sent[Len(decoded) + 1]
           /\ Boundary(ends, Len(decoded) + 1) = consumed + Len(wire_encode[p])
<1> DEFINE k == Len(decoded)
           q == sent[k + 1]
           g == wire_encode[q]
<1>1. k \in Nat /\ k + 1 \in 1..clean /\ q \in Packet
  BY LenProperties, ElementOfSeq DEF StreamInv, StreamTypeOK
<1>2. consumed = Boundary(ends, k) /\ Boundary(ends, k + 1) = consumed + Len(g)
  BY <1>1 DEF StreamInv, InOrder, Written
<1>3. \A j \in 1..Len(g) : stream[consumed + j] = g[j]
  BY <1>1, <1>2 DEF StreamInv, Written, Lies
<1>4. PICK f \in Forms[p] : AtHead(f)
  BY DEF Decodes
<1>5. g \in Forms[q] /\ Len(g) \in Nat /\ f \in Seq(Byte) /\ Len(f) \in Nat
  BY <1>1, <1>4, CodecAssumption, LenProperties
<1>6. IsPrefix(f, g) \/ IsPrefix(g, f)
  BY <1>3, <1>4, <1>5 DEF AtHead, IsPrefix
<1>7. p = q
  BY <1>1, <1>4, <1>5, <1>6, CodecAssumption
<1> QED
  BY <1>2, <1>7

\* The buffer is advanced within its bounds.
LEMMA DecodedInBounds ==
    ASSUME StreamInv, NEW p \in Packet, Decodes(p)
    PROVE  /\ Len(wire_encode[p]) \in Nat \ {0}
           /\ consumed + Len(wire_encode[p]) <= arrived
<1>1. PICK f \in Forms[p] : AtHead(f)
  BY DEF Decodes
<1>2. f \in Seq(Byte) /\ Len(f) \in Nat /\ Len(wire_encode[p]) <= Len(f)
  BY <1>1, CodecAssumption, LenProperties
<1> QED
  BY <1>1, <1>2, Encoding DEF AtHead, StreamInv, StreamTypeOK

\* When nothing decodes, the next packet sent before any noise has not
\* arrived, and nothing is skipped while it is to come.
LEMMA NothingArrived ==
    ASSUME StreamInv, \A p \in Packet : ~Decodes(p)
    PROVE  /\ Len(decoded) < clean =>
                arrived < Boundary(ends, Len(decoded) + 1) /\ Skipped = 0
           /\ noise = 0 => Skipped = 0
           /\ Skipped \in Nat /\ consumed + Skipped <= arrived
<1> DEFINE k == Len(decoded)
           q == sent[k + 1]
<1>1. Skipped \in Nat /\ consumed + Skipped <= arrived
  BY CodecAssumption
     DEF Skipped, StreamInv, StreamTypeOK, Positions, AdvanceInBounds
<1>2. ASSUME k < clean
      PROVE  arrived < Boundary(ends, k + 1) /\ Skipped = 0
  <2>1. k \in Nat /\ k + 1 \in 1..clean /\ q \in Packet
    BY <1>2, LenProperties, ElementOfSeq DEF StreamInv, StreamTypeOK
  <2>2. consumed = Boundary(ends, k) /\ Boundary(ends, k + 1) = consumed + Len(wire_encode[q])
    BY <1>2, <2>1 DEF StreamInv, InOrder, Written
  <2>3. consumed \in Nat /\ arrived \in Nat /\ Len(wire_encode[q]) \in Nat
    BY <2>1, Encoding DEF StreamInv, StreamTypeOK
  <2>4. arrived < Boundary(ends, k + 1)
    BY <1>2, <2>2, <2>3, ArrivedDecodes
  <2> QED
    BY <2>1, <2>2, <2>3, <2>4, Encoding DEF Skipped
<1>3. ASSUME noise = 0, ~(k < clean) PROVE Skipped = 0
  <2>1. k = clean /\ consumed = Len(stream) /\ arrived = consumed
    BY <1>3, LenProperties
       DEF StreamInv, StreamTypeOK, InOrder, CleanSoFar, Positions,
           AdvanceInBounds
  <2> QED
    BY <2>1, CodecAssumption DEF Skipped, StreamInv, StreamTypeOK
<1> QED
  BY <1>1, <1>2, <1>3

-----------------------------------------------------------------------------
(* The steps of the sender's end *)

\* What grows in the stream leaves the packets in it where they are.
LEMMA Grown ==
    ASSUME NEW s \in Seq(Byte), NEW t \in Seq(Byte)
    PROVE  /\ s \o t \in Seq(Byte)
           /\ Len(s \o t) = Len(s) + Len(t)
           /\ \A i \in 1..Len(s) : (s \o t)[i] = s[i]
           /\ \A j \in 1..Len(t) : (s \o t)[Len(s) + j] = t[j]
<1>1. Len(s) \in Nat /\ Len(t) \in Nat
  BY LenProperties
<1> QED
  BY <1>1, ConcatProperties

LEMMA SendKeeps ==
    ASSUME StreamInv, NEW p \in Packet, Send(p)
    PROVE  StreamInv'
<1> DEFINE e == wire_encode[p]
<1>1. /\ e \in Seq(Byte) /\ Len(e) \in Nat /\ Len(stream) \in Nat
      /\ Len(sent) \in Nat /\ Len(decoded) \in Nat
  BY Encoding, LenProperties DEF StreamInv, StreamTypeOK
<1>2. /\ stream' \in Seq(Byte) /\ Len(stream') = Len(stream) + Len(e)
      /\ \A i \in 1..Len(stream) : stream'[i] = stream[i]
      /\ \A j \in 1..Len(e) : stream'[Len(stream) + j] = e[j]
  BY <1>1, Grown DEF Send, StreamInv, StreamTypeOK
<1>3. /\ sent' \in Seq(Packet) /\ Len(sent') = Len(sent) + 1
      /\ \A i \in 1..Len(sent) : sent'[i] = sent[i]
      /\ sent'[Len(sent) + 1] = p
  BY AppendProperties DEF Send, StreamInv, StreamTypeOK
<1>4. /\ ends' \in Seq(Nat) /\ Len(ends') = Len(ends) + 1
      /\ \A i \in 1..Len(sent) : ends'[i] = ends[i]
      /\ ends'[Len(sent) + 1] = Len(stream')
  <2>1. Len(stream') \in Nat /\ ends \in Seq(Nat) /\ Len(ends) = Len(sent)
    BY <1>1, <1>2 DEF StreamInv, StreamTypeOK
  <2>2. ends' = Append(ends, Len(stream'))
    BY DEF Send
  <2> QED
    BY <2>1, <2>2, AppendProperties
<1>5. /\ writer = "idle" /\ writer' = "writing"
      /\ clean' = IF noise = 0 THEN clean + 1 ELSE clean
      /\ UNCHANGED <<returned, noise, flushed, arrived, consumed, reader,
                     at_eof, decoded>>
  BY DEF Send, readerVars
<1>6. /\ clean \in 0..Len(sent) /\ returned = Len(sent)
      /\ flushed = Len(stream) /\ Len(ends) = Len(sent)
  BY <1>5 DEF StreamInv, StreamTypeOK, Sending
<1>7. StreamTypeOK'
  <2>1. /\ noise' \in Nat /\ clean' \in 0..Len(sent')
        /\ flushed' \in Nat /\ arrived' \in Nat /\ consumed' \in Nat
        /\ returned' \in 0..Len(sent') /\ Len(ends') = Len(sent')
    BY <1>1, <1>3, <1>4, <1>5, <1>6 DEF StreamInv, StreamTypeOK
  <2>2. /\ reader' \in {"read", "decode", "forward", "ended", "torn", "failed"}
        /\ at_eof' \in BOOLEAN /\ decoded' \in Seq(Packet)
    BY <1>5 DEF StreamInv, StreamTypeOK
  <2> QED
    BY <1>2, <1>3, <1>4, <1>5, <2>1, <2>2 DEF StreamTypeOK
<1>8. \A i \in 0..Len(sent) : Boundary(ends', i) = Boundary(ends, i)
  BY <1>1, <1>4 DEF Boundary
<1>9. Written'
  <2> SUFFICES ASSUME NEW i \in 1..clean'
               PROVE  /\ Boundary(ends', i) = Boundary(ends', i - 1) + Len(wire_encode[sent'[i]])
                      /\ Boundary(ends', i) <= Len(stream')
                      /\ i <= returned' => Boundary(ends', i) <= flushed'
                      /\ Lies(wire_encode[sent'[i]], stream', Boundary(ends', i - 1))
    BY DEF Written, Lies, Boundary
  <2>1. CASE i <= clean
    <3>1. i \in 1..clean /\ i \in 1..Len(sent) /\ sent'[i] = sent[i]
      BY <2>1, <1>1, <1>3, <1>6
    <3>2. /\ Boundary(ends', i) = Boundary(ends, i) /\ Boundary(ends', i - 1) = Boundary(ends, i - 1)
      BY <1>1, <1>8, <3>1
    <3>3. /\ Boundary(ends, i) = Boundary(ends, i - 1) + Len(wire_encode[sent[i]])
          /\ Boundary(ends, i) <= Len(stream)
          /\ i <= returned => Boundary(ends, i) <= flushed
          /\ Lies(wire_encode[sent[i]], stream, Boundary(ends, i - 1))
      BY <3>1 DEF StreamInv, Written
    <3>4. /\ Len(wire_encode[sent[i]]) \in Nat /\ Boundary(ends, i) \in Nat
          /\ Boundary(ends, i - 1) \in Nat
      <4>1. sent[i] \in Packet
        BY <3>1, ElementOfSeq DEF StreamInv, StreamTypeOK
      <4>2. \A j \in 1..Len(sent) : ends[j] \in Nat
        BY <1>6, ElementOfSeq DEF StreamInv, StreamTypeOK
      <4> QED
        BY <1>1, <3>1, <4>1, <4>2, Encoding DEF Boundary
    <3>5. Lies(wire_encode[sent'[i]], stream', Boundary(ends', i - 1))
      <4>1. SUFFICES ASSUME NEW j \in 1..Len(wire_encode[sent[i]])
                     PROVE  stream'[Boundary(ends, i - 1) + j]
                              = wire_encode[sent[i]][j]
        BY <3>1, <3>2 DEF Lies
      <4>2. Boundary(ends, i - 1) + j \in 1..Len(stream)
        BY <1>1, <3>3, <3>4
      <4> QED
        BY <1>2, <3>3, <4>2 DEF Lies
    <3> QED
      BY <1>1, <1>2, <1>5, <3>1, <3>2, <3>3, <3>4, <3>5
  <2>2. CASE ~(i <= clean)
    <3>1. /\ noise = 0 /\ i = clean + 1 /\ clean = Len(sent)
          /\ Len(stream) = Boundary(ends, clean)
      BY <2>2, <1>5, <1>6, <1>1 DEF StreamInv, CleanSoFar
    <3>2. /\ sent'[i] = p /\ Boundary(ends', i - 1) = Len(stream)
          /\ Boundary(ends', i) = Len(stream')
      BY <1>1, <1>3, <1>4, <1>8, <3>1 DEF Boundary
    <3>3. Lies(wire_encode[sent'[i]], stream', Boundary(ends', i - 1))
      BY <1>2, <3>2 DEF Lies
    <3> QED
      BY <1>1, <1>2, <1>5, <1>6, <3>1, <3>2, <3>3
  <2> QED
    BY <2>1, <2>2
<1>10. CleanSoFar'
  BY <1>1, <1>3, <1>4, <1>5, <1>6 DEF CleanSoFar, StreamInv, Boundary
<1>11. Sending' /\ Positions'
  BY <1>1, <1>2, <1>3, <1>5, <1>6
     DEF Sending, Positions, AdvanceInBounds, StreamInv
<1>12. InOrder'
  <2>1. \A i \in 1..Len(decoded) : i <= clean' => decoded[i] = sent'[i]
    BY <1>1, <1>3, <1>5, <1>6 DEF StreamInv, InOrder
  <2>2. noise = 0 => /\ Len(decoded) <= clean
                     /\ consumed = Boundary(ends', Len(decoded))
    BY <1>1, <1>6, <1>8 DEF StreamInv, InOrder
  <2>3. noise # 0 /\ Len(decoded) < clean => consumed = Boundary(ends', Len(decoded))
    BY <1>1, <1>6, <1>8 DEF StreamInv, InOrder
  <2> QED
    BY <1>1, <1>5, <1>6, <2>1, <2>2, <2>3 DEF InOrder, Boundary
<1>13. Endings'
  BY <1>5 DEF Endings, StreamInv, TornIsInterrupted
<1> QED
  BY <1>7, <1>9, <1>10, <1>11, <1>12, <1>13 DEF StreamInv

LEMMA NoiseKeeps ==
    ASSUME StreamInv, NEW b \in Byte, Noise(b)
    PROVE  StreamInv'
<1>1. Len(stream) \in Nat /\ Len(sent) \in Nat /\ Len(decoded) \in Nat
  BY LenProperties DEF StreamInv, StreamTypeOK
<1>2. /\ stream' \in Seq(Byte) /\ Len(stream') = Len(stream) + 1
      /\ \A i \in 1..Len(stream) : stream'[i] = stream[i]
  BY AppendProperties DEF Noise, StreamInv, StreamTypeOK
<1>3. /\ writer = "idle" /\ flushed' = Len(stream') /\ noise' = noise + 1
      /\ UNCHANGED <<writer, sent, returned, ends, clean, arrived, consumed,
                     reader, at_eof, decoded>>
  BY DEF Noise, readerVars
<1>4. clean \in 0..Len(sent) /\ noise \in Nat /\ flushed = Len(stream)
  BY <1>3 DEF StreamInv, StreamTypeOK, Sending
<1>5. StreamTypeOK'
  BY <1>1, <1>2, <1>3, <1>4 DEF StreamInv, StreamTypeOK
<1>6. Written'
  <2> SUFFICES ASSUME NEW i \in 1..clean
               PROVE  /\ Boundary(ends, i) = Boundary(ends, i - 1) + Len(wire_encode[sent[i]])
                      /\ Boundary(ends, i) <= Len(stream')
                      /\ i <= returned => Boundary(ends, i) <= flushed'
                      /\ Lies(wire_encode[sent[i]], stream', Boundary(ends, i - 1))
    BY <1>3 DEF Written
  <2> DEFINE at == Boundary(ends, i - 1)
  <2>1. /\ Boundary(ends, i) = at + Len(wire_encode[sent[i]])
        /\ Boundary(ends, i) <= Len(stream)
        /\ Lies(wire_encode[sent[i]], stream, at)
    BY DEF StreamInv, Written
  <2>2. Len(wire_encode[sent[i]]) \in Nat /\ at \in Nat
    <3>1. i \in 1..Len(sent) /\ sent[i] \in Packet
      BY <1>1, <1>4, ElementOfSeq DEF StreamInv, StreamTypeOK
    <3>2. \A j \in 1..Len(sent) : ends[j] \in Nat
      BY ElementOfSeq DEF StreamInv, StreamTypeOK
    <3> QED
      BY <1>1, <3>1, <3>2, Encoding DEF Boundary
  <2>3. ASSUME NEW j \in 1..Len(wire_encode[sent[i]])
        PROVE  stream'[at + j] = wire_encode[sent[i]][j]
    <3>1. at + j \in 1..Len(stream)
      BY <1>1, <2>1, <2>2
    <3> QED
      BY <1>2, <2>1, <3>1 DEF Lies
  <2> QED
    BY <1>1, <1>2, <1>3, <2>1, <2>2, <2>3 DEF Lies
<1>7. CleanSoFar'
  BY <1>3, <1>4 DEF CleanSoFar
<1>8. Sending' /\ Positions'
  BY <1>1, <1>2, <1>3, <1>4
     DEF Sending, Positions, AdvanceInBounds, StreamInv, StreamTypeOK
<1>9. InOrder'
  BY <1>1, <1>3, <1>4 DEF InOrder, StreamInv
<1>10. Endings'
  BY <1>3, <1>4 DEF Endings, StreamInv, TornIsInterrupted
<1> QED
  BY <1>5, <1>6, <1>7, <1>8, <1>9, <1>10 DEF StreamInv

\* Steps that put nothing into the stream leave the packets where they are.
LEMMA WrittenKept ==
    ASSUME StreamInv, UNCHANGED <<stream, sent, ends, clean>>,
           flushed' \in Nat, flushed <= flushed',
           \A i \in 1..clean : i <= returned' /\ ~(i <= returned)
                                => Boundary(ends, i) <= flushed'
    PROVE  Written'
<1>1. \A i \in 1..clean : Boundary(ends, i) \in Nat
  <2>1. clean \in 0..Len(ends) /\ Len(ends) \in Nat
    BY LenProperties DEF StreamInv, StreamTypeOK
  <2>2. \A j \in 1..Len(ends) : ends[j] \in Nat
    BY ElementOfSeq DEF StreamInv, StreamTypeOK
  <2> QED
    BY <2>1, <2>2 DEF Boundary
<1> QED
  BY <1>1 DEF StreamInv, StreamTypeOK, Written

LEMMA WriterKeeps ==
    ASSUME StreamInv,
           \/ \E n \in (flushed + 1)..Len(stream) : Flush(n)
           \/ SendReturns \/ WriterEnds
    PROVE  StreamInv'
<1> USE DEF StreamInv, StreamTypeOK, Positions, AdvanceInBounds
<1>1. Len(stream) \in Nat /\ Len(sent) \in Nat /\ Len(decoded) \in Nat
  BY LenProperties
<1>2. ASSUME NEW n \in (flushed + 1)..Len(stream), Flush(n)
      PROVE  StreamInv'
  <2>1. /\ flushed' = n /\ n \in Nat /\ writer = "writing"
        /\ UNCHANGED <<writer, sent, returned, stream, ends, noise, clean,
                       arrived, consumed, reader, at_eof, decoded>>
    BY <1>1, <1>2 DEF Flush, readerVars
  <2>2. Written'
    BY <1>2, <2>1, WrittenKept
  <2>3. CleanSoFar' /\ Sending' /\ InOrder' /\ Endings'
    BY <2>1 DEF CleanSoFar, Sending, InOrder, Endings, TornIsInterrupted
  <2> QED
    BY <1>1, <1>2, <2>1, <2>2, <2>3
<1>3. ASSUME SendReturns PROVE StreamInv'
  <2>1. /\ writer = "writing" /\ writer' = "idle" /\ flushed = Len(stream)
        /\ returned' = Len(sent)
        /\ UNCHANGED <<sent, stream, ends, noise, clean, flushed, arrived,
                       consumed, reader, at_eof, decoded>>
    BY <1>3 DEF SendReturns, readerVars
  <2>2. Written'
    BY <1>1, <2>1, WrittenKept DEF Written
  <2>3. CleanSoFar' /\ Sending'
    BY <1>1, <2>1 DEF CleanSoFar, Sending
  <2>4. InOrder'
    BY <2>1 DEF InOrder
  <2>5. ~at_eof /\ reader \notin {"ended", "torn"}
    BY <2>1 DEF Endings
  <2>6. Endings'
    BY <2>1, <2>5 DEF Endings, TornIsInterrupted
  <2> QED
    BY <1>1, <2>1, <2>2, <2>3, <2>4, <2>6
<1>4. ASSUME WriterEnds PROVE StreamInv'
  <2>1. /\ writer # "gone" /\ writer' = "gone"
        /\ UNCHANGED <<sent, returned, stream, ends, noise, clean, flushed,
                       arrived, consumed, reader, at_eof, decoded>>
    BY <1>4 DEF WriterEnds, readerVars
  <2>2. Written'
    BY <1>1, <2>1, WrittenKept
  <2>3. CleanSoFar' /\ Sending'
    BY <2>1 DEF CleanSoFar, Sending
  <2>4. InOrder' /\ Endings'
    BY <2>1 DEF InOrder, Endings, TornIsInterrupted
  <2> QED
    BY <1>1, <2>1, <2>2, <2>3, <2>4
<1> QED
  BY <1>2, <1>3, <1>4

-----------------------------------------------------------------------------
(* The steps of the receiver's end *)

\* Of these steps, only the reader's own state is to be looked at.
LEMMA ReaderLeaves ==
    ASSUME StreamInv, UNCHANGED writerVars
    PROVE  /\ Written' /\ CleanSoFar' /\ Sending'
           /\ Len(stream) \in Nat /\ Len(sent) \in Nat /\ Len(decoded) \in Nat
           /\ UNCHANGED <<writer, sent, returned, stream, ends, noise, clean,
                          flushed>>
<1>1. UNCHANGED <<writer, sent, returned, stream, ends, noise, clean, flushed>>
  BY DEF writerVars
<1>2. Written'
  BY <1>1, WrittenKept DEF StreamInv, StreamTypeOK
<1>3. Len(stream) \in Nat /\ Len(sent) \in Nat /\ Len(decoded) \in Nat
  BY LenProperties DEF StreamInv, StreamTypeOK
<1> QED
  BY <1>1, <1>2, <1>3 DEF StreamInv, CleanSoFar, Sending

LEMMA ReadKeeps ==
    ASSUME StreamInv,
           \/ \E n \in (arrived + 1)..flushed : ReadBytes(n)
           \/ ReadEof \/ ReadFails \/ Forwarded
    PROVE  StreamInv'
<1> USE DEF StreamTypeOK, Positions, AdvanceInBounds, InOrder, Endings,
            TornIsInterrupted
<1>1. ASSUME NEW n \in (arrived + 1)..flushed, ReadBytes(n)
      PROVE  StreamInv'
  BY <1>1, ReaderLeaves DEF StreamInv, ReadBytes
<1>2. ASSUME ReadEof PROVE StreamInv'
  BY <1>2, ReaderLeaves DEF StreamInv, ReadEof
<1>3. ASSUME ReadFails PROVE StreamInv'
  BY <1>3, ReaderLeaves DEF StreamInv, ReadFails
<1>4. ASSUME Forwarded PROVE StreamInv'
  BY <1>4, ReaderLeaves DEF StreamInv, Forwarded
<1> QED
  BY <1>1, <1>2, <1>3, <1>4

LEMMA DecodeKeeps ==
    ASSUME StreamInv, NEW p \in Packet, DecodePacket(p)
    PROVE  StreamInv'
<1> DEFINE k == Len(decoded)
<1>1. /\ reader' = "forward" /\ decoded' = Append(decoded, p)
      /\ consumed' = consumed + Len(wire_encode[p]) /\ Decodes(p)
      /\ UNCHANGED <<arrived, at_eof>> /\ UNCHANGED writerVars
  BY DEF DecodePacket
<1>2. /\ Written' /\ CleanSoFar' /\ Sending'
      /\ Len(stream) \in Nat /\ Len(sent) \in Nat /\ k \in Nat
      /\ UNCHANGED <<writer, sent, returned, stream, ends, noise, clean, flushed>>
  BY <1>1, ReaderLeaves
<1>3. /\ decoded' \in Seq(Packet) /\ Len(decoded') = k + 1
      /\ \A i \in 1..k : decoded'[i] = decoded[i]
      /\ decoded'[k + 1] = p
  BY <1>1, AppendProperties DEF StreamInv, StreamTypeOK
<1>4. /\ Len(wire_encode[p]) \in Nat \ {0}
      /\ consumed + Len(wire_encode[p]) <= arrived
  BY <1>1, DecodedInBounds
<1>5. StreamTypeOK' /\ Positions'
  BY <1>1, <1>2, <1>3, <1>4
     DEF StreamInv, StreamTypeOK, Positions, AdvanceInBounds
<1>6. CASE k < clean
  <2>1. /\ p = sent[k + 1]
        /\ consumed' = Boundary(ends, k + 1)
    BY <1>1, <1>6, DecodesNext
  <2>2. \A i \in 1..(k + 1) : i <= clean => decoded'[i] = sent[i]
    BY <1>2, <1>3, <2>1 DEF StreamInv, InOrder
  <2>3. clean \in Nat /\ noise \in Nat
    BY <1>2 DEF StreamInv, StreamTypeOK
  <2>4. InOrder'
    BY <1>2, <1>3, <1>6, <2>1, <2>2, <2>3 DEF InOrder
  <2> QED
    BY <1>1, <1>2, <1>5, <2>4 DEF StreamInv, Endings, TornIsInterrupted
<1>7. CASE ~(k < clean)
  <2>1. noise # 0
    <3>1. ASSUME noise = 0 PROVE FALSE
      <4>1. k = clean /\ consumed = Len(stream)
        BY <1>2, <1>7, <3>1 DEF StreamInv, StreamTypeOK, InOrder, CleanSoFar
      <4> QED
        BY <1>2, <1>4, <4>1
           DEF StreamInv, StreamTypeOK, Positions, AdvanceInBounds
    <3> QED
      BY <3>1
  <2>2. clean \in Nat /\ noise \in Nat
    BY <1>2 DEF StreamInv, StreamTypeOK
  <2>3. \A i \in 1..(k + 1) : i <= clean => decoded'[i] = sent[i]
    <3>1. \A i \in 1..k : i <= clean => decoded'[i] = sent[i]
      BY <1>3 DEF StreamInv, InOrder
    <3> QED
      BY <1>2, <1>7, <2>2, <3>1
  <2>4. InOrder'
    BY <1>2, <1>3, <1>7, <2>1, <2>2, <2>3 DEF InOrder
  <2> QED
    BY <1>1, <1>2, <1>5, <2>4 DEF StreamInv, Endings, TornIsInterrupted
<1> QED
  BY <1>6, <1>7

\* At the end of the stream no packet that was sent before any noise, and
\* whose bytes have all arrived, is still to come.
LEMMA EofDecodesAll ==
    ASSUME StreamInv, \A p \in Packet : ~Decodes(p), at_eof
    PROVE  /\ Least(returned, clean) <= Len(decoded)
           /\ Len(decoded) < clean =>
                /\ returned <= Len(decoded)
                /\ Boundary(ends, Len(decoded) + 1) > flushed
<1> DEFINE k == Len(decoded)
<1>1. k \in Nat /\ returned \in Nat /\ clean \in Nat
  BY LenProperties DEF StreamInv, StreamTypeOK
<1>2. ASSUME k < clean
      PROVE  returned <= k /\ Boundary(ends, k + 1) > flushed
  <2>1. arrived < Boundary(ends, k + 1) /\ arrived = flushed
    BY <1>2, NothingArrived DEF StreamInv, Endings
  <2>2. /\ k + 1 \in 1..clean /\ flushed \in Nat
        /\ Boundary(ends, k + 1) <= Len(stream)
        /\ k + 1 <= returned => Boundary(ends, k + 1) <= flushed
    BY <1>1, <1>2 DEF StreamInv, StreamTypeOK, Written
  <2>3. Boundary(ends, k + 1) \in Nat
    <3>1. k + 1 \in 1..Len(ends)
      BY <1>1, <1>2, LenProperties DEF StreamInv, StreamTypeOK
    <3> QED
      BY <1>1, <3>1, ElementOfSeq DEF StreamInv, StreamTypeOK, Boundary
  <2> QED
    BY <1>1, <2>1, <2>2, <2>3
<1> QED
  BY <1>1, <1>2 DEF Least

LEMMA DecodeNothingKeeps ==
    ASSUME StreamInv, DecodeNothing
    PROVE  StreamInv'
<1> DEFINE k == Len(decoded)
<1>1. /\ reader = "decode" /\ \A p \in Packet : ~Decodes(p)
      /\ consumed' = consumed + Skipped
      /\ reader' = IF at_eof THEN AfterEof ELSE "read"
      /\ UNCHANGED <<arrived, at_eof, decoded>> /\ UNCHANGED writerVars
  BY DEF DecodeNothing
<1>2. /\ Written' /\ CleanSoFar' /\ Sending'
      /\ Len(stream) \in Nat /\ Len(sent) \in Nat /\ k \in Nat
      /\ UNCHANGED <<writer, sent, returned, stream, ends, noise, clean, flushed>>
  BY <1>1, ReaderLeaves
<1>3. /\ k < clean => Skipped = 0
      /\ noise = 0 => Skipped = 0
      /\ Skipped \in Nat /\ consumed + Skipped <= arrived
  BY <1>1, NothingArrived
<1>4. reader' \in {"read", "ended", "torn"}
  BY <1>1 DEF AfterEof
<1>5. StreamTypeOK' /\ Positions'
  BY <1>1, <1>2, <1>3, <1>4
     DEF StreamInv, StreamTypeOK, Positions, AdvanceInBounds
<1>6. InOrder'
  BY <1>1, <1>2, <1>3 DEF StreamInv, StreamTypeOK, InOrder
<1>7. CASE ~at_eof
  <2>1. reader' = "read" /\ ~at_eof'
    BY <1>1, <1>7
  <2> QED
    BY <1>2, <1>5, <1>6, <2>1 DEF StreamInv, Endings, TornIsInterrupted
<1>8. CASE at_eof
  <2>1. /\ Least(returned, clean) <= k
        /\ k < clean => /\ returned <= k
                        /\ Boundary(ends, k + 1) > flushed
    BY <1>1, <1>8, EofDecodesAll
  <2>2. TornIsInterrupted'
    <3> SUFFICES ASSUME reader' = "torn", noise = 0
                 PROVE  /\ k = returned
                        /\ returned + 1 = Len(sent)
                        /\ flushed < Len(stream)
      BY <1>1, <1>2 DEF TornIsInterrupted
    <3>1. consumed # arrived
      BY <1>1, <1>3, <1>8 DEF AfterEof, StreamInv, StreamTypeOK
    <3>2. /\ consumed < arrived /\ arrived <= Len(stream)
          /\ clean = Len(sent) /\ Len(stream) = Boundary(ends, clean)
          /\ k <= clean /\ consumed = Boundary(ends, k)
          /\ Len(sent) <= returned + 1 /\ returned \in 0..Len(sent)
          /\ flushed \in Nat
      BY <1>2, <3>1
         DEF StreamInv, StreamTypeOK, Positions, AdvanceInBounds, CleanSoFar,
             InOrder, Sending
    <3>3. k < clean
      BY <1>2, <3>2 DEF StreamInv, StreamTypeOK
    <3>4. k = returned /\ returned + 1 = Len(sent) /\ k + 1 = clean
      BY <1>2, <2>1, <3>2, <3>3
    <3> QED
      BY <1>2, <2>1, <3>2, <3>3, <3>4
  <2>3. Endings'
    BY <1>1, <1>2, <1>8, <2>1, <2>2 DEF StreamInv, Endings, Least
  <2> QED
    BY <1>2, <1>5, <1>6, <2>3 DEF StreamInv
<1> QED
  BY <1>7, <1>8

-----------------------------------------------------------------------------
(* The properties *)

LEMMA StreamStepKeeps ==
    ASSUME StreamInv, [StreamNext]_streamVars
    PROVE  StreamInv'
<1>1. CASE WriterNext
  BY <1>1, SendKeeps, NoiseKeeps, WriterKeeps DEF WriterNext
<1>2. CASE ReaderWork
  BY <1>2, ReadKeeps, DecodeKeeps, DecodeNothingKeeps DEF ReaderWork
<1>3. CASE ReadFails \/ Forwarded
  BY <1>3, ReadKeeps
<1>4. CASE UNCHANGED streamVars
  BY <1>4 DEF streamVars, writerVars, readerVars, StreamInv, StreamTypeOK,
     Written, CleanSoFar, Sending, Positions, AdvanceInBounds, InOrder,
     Endings, TornIsInterrupted
<1> QED
  BY <1>1, <1>2, <1>3, <1>4 DEF StreamNext

LEMMA StreamInvariant == StreamSpec => []StreamInv
<1>1. StreamInv /\ [StreamNext]_streamVars => StreamInv'
  BY StreamStepKeeps
<1> QED
  BY <1>1, StreamInvInit, PTL DEF StreamSpec

\* The state of a link keeps its types.
THEOREM StreamTyped == StreamSpec => []StreamTypeOK
<1>1. StreamInv => StreamTypeOK
  BY DEF StreamInv
<1> QED
  BY <1>1, StreamInvariant, PTL

\* The decoder never advances its buffer beyond the bytes that arrived,
\* neither over noise nor over a packet in another than the shortest form.
THEOREM NeverBeyondBuffer == StreamSpec => []AdvanceInBounds
<1>1. StreamInv => AdvanceInBounds
  BY DEF StreamInv, Positions
<1> QED
  BY <1>1, StreamInvariant, PTL

\* "bytes remaining on stream" tells of the one packet whose send did not
\* return, when nobody else wrote to the stream.
THEOREM TornTellsOfOne == StreamSpec => []TornIsInterrupted
<1>1. StreamInv => TornIsInterrupted
  BY DEF StreamInv, Endings
<1> QED
  BY <1>1, StreamInvariant, PTL

-----------------------------------------------------------------------------
(* Nothing waits in the buffer *)

\* The packets sent before any noise end one behind the other, and the reader
\* does not wait, nor has it stopped, while the next of them has arrived.
NothingWaits ==
    /\ \A i, j \in 1..clean : i <= j => ends[i] <= ends[j]
    /\ reader \notin {"decode", "forward"} /\ Len(decoded) < clean
         => arrived < ends[Len(decoded) + 1]

LEMMA SendLeavesNothing ==
    ASSUME StreamInv, NothingWaits, NEW p \in Packet, Send(p)
    PROVE  NothingWaits'
<1>1. /\ ends' = Append(ends, Len(stream')) /\ stream' = stream \o wire_encode[p]
      /\ clean' = IF noise = 0 THEN clean + 1 ELSE clean
      /\ UNCHANGED <<arrived, reader, decoded>>
  BY DEF Send, readerVars
<1>2. /\ Len(stream) \in Nat /\ Len(decoded) \in Nat /\ Len(ends) \in Nat
      /\ clean \in 0..Len(ends) /\ arrived \in Nat /\ arrived <= Len(stream)
      /\ \A i \in 1..Len(ends) : ends[i] \in Nat
  BY LenProperties, ElementOfSeq
     DEF StreamInv, StreamTypeOK, Positions, AdvanceInBounds
<1>3. Len(stream') \in Nat /\ Len(stream') > Len(stream)
  <2>1. stream \in Seq(Byte) /\ wire_encode[p] \in Seq(Byte)
    BY Encoding DEF StreamInv, StreamTypeOK
  <2>2. Len(stream \o wire_encode[p]) = Len(stream) + Len(wire_encode[p])
    BY <2>1, Grown
  <2> QED
    BY <1>1, <1>2, <2>2, Encoding
<1>4. /\ \A i \in 1..Len(ends) : ends'[i] = ends[i]
      /\ ends'[Len(ends) + 1] = Len(stream')
  <2>1. ends \in Seq(Nat)
    BY DEF StreamInv, StreamTypeOK
  <2> QED
    BY <1>1, <1>3, <2>1, AppendProperties
<1>5. \A i \in 1..clean : ends[i] <= Len(stream)
  BY <1>2 DEF StreamInv, Written, Boundary
<1>6. clean' # clean => clean = Len(ends)
  BY <1>1 DEF StreamInv, StreamTypeOK, CleanSoFar
<1>7. ASSUME NEW i \in 1..clean', NEW j \in 1..clean', i <= j
      PROVE  ends'[i] <= ends'[j]
  <2>1. CASE j \in 1..clean
    BY <1>2, <1>4, <1>7, <2>1 DEF NothingWaits
  <2>2. CASE j \notin 1..clean
    <3>1. clean = Len(ends) /\ j = Len(ends) + 1
      BY <1>1, <1>2, <1>6, <1>7, <2>2
    <3>2. CASE i = j
      BY <1>3, <1>4, <3>1, <3>2
    <3>3. CASE i # j
      <4>1. i \in 1..clean /\ i \in 1..Len(ends)
        BY <1>2, <1>7, <3>1, <3>3
      <4> QED
        BY <1>2, <1>3, <1>4, <1>5, <3>1, <4>1
    <3> QED
      BY <3>2, <3>3
  <2> QED
    BY <2>1, <2>2
<1>8. ASSUME reader \notin {"decode", "forward"}, Len(decoded) < clean'
      PROVE  arrived < ends'[Len(decoded) + 1]
  <2>1. CASE Len(decoded) < clean
    BY <1>2, <1>4, <1>8, <2>1 DEF NothingWaits
  <2>2. CASE ~(Len(decoded) < clean)
    <3>1. Len(decoded) = Len(ends)
      BY <1>1, <1>2, <1>6, <1>8, <2>2
    <3> QED
      BY <1>2, <1>3, <1>4, <3>1
  <2> QED
    BY <2>1, <2>2
<1> QED
  BY <1>1, <1>7, <1>8 DEF NothingWaits

LEMMA NothingWaitsStep ==
    ASSUME StreamInv, NothingWaits, [StreamNext]_streamVars
    PROVE  NothingWaits'
<1>1. ASSUME NEW p \in Packet, Send(p) PROVE NothingWaits'
  BY <1>1, SendLeavesNothing
<1>2. CASE \/ \E n \in (flushed + 1)..Len(stream) : Flush(n)
           \/ SendReturns \/ WriterEnds
           \/ \E b \in Byte : Noise(b)
           \/ UNCHANGED streamVars
  BY <1>2 DEF Flush, SendReturns, WriterEnds, Noise, streamVars, writerVars,
     readerVars, NothingWaits
<1>3. CASE \/ \E n \in (arrived + 1)..flushed : ReadBytes(n)
           \/ ReadEof \/ ReadFails \/ Forwarded
           \/ \E p \in Packet : DecodePacket(p)
  BY <1>3 DEF ReadBytes, ReadEof, ReadFails, Forwarded, DecodePacket,
     writerVars, NothingWaits
<1>4. CASE DecodeNothing
  <2>1. /\ \A p \in Packet : ~Decodes(p)
        /\ UNCHANGED <<clean, ends, arrived, decoded>>
    BY <1>4 DEF DecodeNothing, writerVars
  <2>2. Len(decoded) \in Nat
    BY LenProperties DEF StreamInv, StreamTypeOK
  <2>3. Len(decoded) < clean => arrived < ends[Len(decoded) + 1]
    BY <2>1, <2>2, NothingArrived DEF Boundary
  <2> QED
    BY <2>1, <2>3 DEF NothingWaits
<1> QED
  BY <1>1, <1>2, <1>3, <1>4 DEF StreamNext, WriterNext, ReaderWork

\* When the listener task waits for bytes, or its stream is over, no packet
\* that has arrived is left in the buffer.
THEOREM NoneLeftInBuffer == StreamSpec => []ArrivedIsDelivered
<1>1. StreamInit => NothingWaits
  BY DEF StreamInit, NothingWaits
<1>2. StreamInv /\ NothingWaits /\ [StreamNext]_streamVars => NothingWaits'
  BY NothingWaitsStep
<1>3. ASSUME StreamInv, NothingWaits, reader \notin {"decode", "forward"},
             NEW n \in 1..clean, ends[n] <= arrived
      PROVE  n <= Len(decoded)
  <2>1. SUFFICES ASSUME ~(n <= Len(decoded)) PROVE FALSE
    OBVIOUS
  <2>2. /\ Len(decoded) \in Nat /\ clean \in 0..Len(ends) /\ Len(ends) \in Nat
        /\ arrived \in Nat /\ \A i \in 1..Len(ends) : ends[i] \in Nat
    BY <1>3, LenProperties, ElementOfSeq DEF StreamInv, StreamTypeOK
  <2>3. Len(decoded) + 1 \in 1..clean /\ Len(decoded) + 1 <= n
    BY <2>1, <2>2
  <2>4. arrived < ends[Len(decoded) + 1] /\ ends[Len(decoded) + 1] <= ends[n]
    BY <1>3, <2>2, <2>3 DEF NothingWaits
  <2>5. ends[Len(decoded) + 1] \in Nat /\ ends[n] \in Nat
    BY <2>2, <2>3
  <2> QED
    BY <1>3, <2>2, <2>4, <2>5
<1>4. StreamInv /\ NothingWaits => ArrivedIsDelivered
  BY <1>3 DEF ArrivedIsDelivered
<1> QED
  BY <1>1, <1>2, <1>4, StreamInvariant, PTL DEF StreamSpec

-----------------------------------------------------------------------------
(* The refinement *)

\* The first n elements of a sequence.
LEMMA FirstElements ==
    ASSUME NEW S, NEW s \in Seq(S), NEW n \in 0..Len(s)
    PROVE  /\ SubSeq(s, 1, n) \in Seq(S)
           /\ Len(SubSeq(s, 1, n)) = n
           /\ \A i \in 1..n : SubSeq(s, 1, n)[i] = s[i]
           /\ n = Len(s) => SubSeq(s, 1, n) = s
<1>1. Len(s) \in Nat
  BY LenProperties
<1>2. \A i \in 1..n : s[i] \in S
  BY <1>1, ElementOfSeq
<1>3. SubSeq(s, 1, Len(s)) = s
  BY SubSeqFull
<1>4. n \in Int /\ 1 \in Int
  BY <1>1
<1>5. /\ SubSeq(s, 1, n) \in Seq(S)
      /\ Len(SubSeq(s, 1, n)) = IF 1 <= n THEN n - 1 + 1 ELSE 0
      /\ \A i \in 1..(n - 1 + 1) : SubSeq(s, 1, n)[i] = s[1 + i - 1]
  BY <1>2, <1>4, SubSeqProperties
<1>6. n - 1 + 1 = n /\ \A i \in 1..n : 1 + i - 1 = i
  BY <1>4
<1>7. Len(SubSeq(s, 1, n)) = n
  BY <1>1, <1>5
<1>8. ASSUME NEW i \in 1..n PROVE SubSeq(s, 1, n)[i] = s[i]
  <2>1. i \in 1..(n - 1 + 1) /\ 1 + i - 1 = i
    BY <1>6
  <2> QED
    BY <1>5, <2>1
<1> QED
  BY <1>3, <1>5, <1>7, <1>8

\* An element more leaves them as they are.
LEMMA FirstElementsOfAppend ==
    ASSUME NEW S, NEW s \in Seq(S), NEW e \in S, NEW n \in 0..Len(s)
    PROVE  SubSeq(Append(s, e), 1, n) = SubSeq(s, 1, n)
<1> DEFINE t == Append(s, e)
<1>1. /\ Len(s) \in Nat /\ t \in Seq(S) /\ Len(t) = Len(s) + 1
      /\ \A i \in 1..Len(s) : t[i] = s[i]
  BY LenProperties, AppendProperties
<1>2. n \in 0..Len(t)
  BY <1>1
<1> HIDE DEF t
<1>3. /\ SubSeq(t, 1, n) \in Seq(S) /\ Len(SubSeq(t, 1, n)) = n
      /\ \A i \in 1..n : SubSeq(t, 1, n)[i] = t[i]
  BY <1>1, <1>2, FirstElements
<1>4. /\ SubSeq(s, 1, n) \in Seq(S) /\ Len(SubSeq(s, 1, n)) = n
      /\ \A i \in 1..n : SubSeq(s, 1, n)[i] = s[i]
  BY FirstElements
<1>5. SubSeq(t, 1, n) = SubSeq(s, 1, n)
  BY <1>1, <1>3, <1>4, SeqEqual
<1> QED
  BY <1>5 DEF t

\* What PacketStream sees of the state of a link.
Given    == SubSeq(sent, 1, clean)
Returned == Least(returned, clean)
Got      == SubSeq(decoded, 1, Least(Len(decoded), clean))
Seen     == CASE reader = "ended" -> "ended"
              [] reader \in {"torn", "failed"} -> "broken"
              [] OTHER -> "open"

LEMMA GivenAndGot ==
    ASSUME StreamInv
    PROVE  /\ Given \in Seq(Packet) /\ Len(Given) = clean
           /\ \A i \in 1..clean : Given[i] = sent[i]
           /\ Got \in Seq(Packet)
           /\ Len(Got) = Least(Len(decoded), clean)
           /\ Len(sent) \in Nat /\ Len(decoded) \in Nat
           /\ clean \in 0..Len(sent)
           /\ Least(Len(decoded), clean) \in 0..Len(decoded)
<1>1. /\ Len(sent) \in Nat /\ Len(decoded) \in Nat /\ clean \in 0..Len(sent)
      /\ sent \in Seq(Packet) /\ decoded \in Seq(Packet)
  BY LenProperties DEF StreamInv, StreamTypeOK
<1>2. Least(Len(decoded), clean) \in 0..Len(decoded)
  BY <1>1 DEF Least
<1> QED
  BY <1>1, <1>2, FirstElements DEF Given, Got

\* A step of which PacketStream sees nothing.
Unseen == UNCHANGED <<Given, Returned, Got, Seen>>

\* Its steps, in terms of what it sees.
SeenStep ==
    \/ \E p \in Packet :
         /\ Seen # "ended" /\ Returned = Len(Given)
         /\ Given' = Append(Given, p)
         /\ UNCHANGED <<Returned, Got, Seen>>
    \/ Returned' = Len(Given) /\ UNCHANGED <<Given, Got, Seen>>
    \/ /\ Seen = "open" /\ Len(Got) < Len(Given)
       /\ Got' = Append(Got, Given[Len(Got) + 1])
       /\ UNCHANGED <<Given, Returned, Seen>>
    \/ /\ Seen = "open" /\ Returned <= Len(Got)
       /\ Seen' = "ended"
       /\ UNCHANGED <<Given, Returned, Got>>
    \/ /\ Seen = "open" /\ Seen' = "broken"
       /\ UNCHANGED <<Given, Returned, Got>>

LEMMA SeenIsPromised == SeenStep \/ Unseen => [Promise!Next]_(Promise!vars)
  BY DEF SeenStep, Unseen, Given, Returned, Got, Seen, Promise!Next,
     Promise!vars, Promise!Send, Promise!Return, Promise!Deliver,
     Promise!End, Promise!Break

LEMMA SendSeen ==
    ASSUME StreamInv, NEW p \in Packet, Send(p)
    PROVE  SeenStep \/ Unseen
<1>1. /\ writer = "idle" /\ sent' = Append(sent, p)
      /\ clean' = IF noise = 0 THEN clean + 1 ELSE clean
      /\ UNCHANGED <<returned, noise, reader, decoded>>
  BY DEF Send, readerVars
<1>2. /\ Len(sent) \in Nat /\ Len(decoded) \in Nat /\ clean \in 0..Len(sent)
      /\ sent \in Seq(Packet) /\ returned = Len(sent) /\ Len(Given) = clean
  BY <1>1, GivenAndGot DEF StreamInv, StreamTypeOK, Sending
<1>3. Seen' = Seen /\ Seen # "ended"
  <2>1. reader # "ended"
    BY <1>1 DEF StreamInv, Endings
  <2> QED
    BY <1>1, <2>1 DEF Seen
<1>4. CASE noise = 0
  <2>1. clean = Len(sent) /\ Len(decoded) <= clean
    BY <1>4 DEF StreamInv, CleanSoFar, InOrder
  <2>2. Given = sent
    BY <1>2, <2>1, FirstElements DEF Given
  <2>3. Given' = Append(Given, p)
    <3>1. /\ Append(sent, p) \in Seq(Packet)
          /\ Len(Append(sent, p)) = Len(sent) + 1
      BY <1>2, AppendProperties
    <3>2. SubSeq(Append(sent, p), 1, Len(sent) + 1) = Append(sent, p)
      BY <1>2, <3>1, FirstElements
    <3> QED
      BY <1>1, <1>4, <2>1, <2>2, <3>2 DEF Given
  <2>4. Returned = Len(Given) /\ Returned' = Returned
    BY <1>1, <1>2, <1>4, <2>1 DEF Returned, Least
  <2>5. Got' = Got
    <3>1. Least(Len(decoded), clean)' = Least(Len(decoded), clean)
      BY <1>1, <1>2, <1>4, <2>1 DEF Least
    <3> QED
      BY <1>1, <3>1 DEF Got
  <2> QED
    BY <1>3, <2>3, <2>4, <2>5 DEF SeenStep
<1>5. CASE noise # 0
  <2>1. Given' = Given
    BY <1>1, <1>2, <1>5, FirstElementsOfAppend DEF Given
  <2>2. Returned' = Returned /\ Got' = Got
    BY <1>1, <1>5 DEF Returned, Got, Least
  <2> QED
    BY <1>3, <2>1, <2>2 DEF Unseen
<1> QED
  BY <1>4, <1>5

LEMMA ReturnSeen ==
    ASSUME StreamInv, SendReturns
    PROVE  SeenStep \/ Unseen
<1>1. returned' = Len(sent) /\ UNCHANGED <<sent, clean, decoded, reader>>
  BY DEF SendReturns, readerVars
<1>2. Returned' = Len(Given)
  BY <1>1, GivenAndGot DEF Returned, Least
<1>3. UNCHANGED <<Given, Got, Seen>>
  BY <1>1 DEF Given, Got, Seen, Least
<1> QED
  BY <1>2, <1>3 DEF SeenStep

LEMMA DecodeSeen ==
    ASSUME StreamInv, NEW p \in Packet, DecodePacket(p)
    PROVE  SeenStep \/ Unseen
<1> DEFINE k == Len(decoded)
<1>1. /\ reader = "decode" /\ reader' = "forward" /\ Decodes(p)
      /\ decoded' = Append(decoded, p)
      /\ UNCHANGED <<sent, returned, clean>>
  BY DEF DecodePacket, writerVars
<1>2. Seen = "open" /\ Seen' = "open"
  BY <1>1 DEF Seen
<1>3. UNCHANGED <<Given, Returned>>
  BY <1>1 DEF Given, Returned, Least
<1>4. /\ k \in Nat /\ clean \in Nat /\ decoded \in Seq(Packet)
      /\ decoded' \in Seq(Packet) /\ Len(decoded') = k + 1
      /\ Len(Given) = clean /\ Len(Got) = Least(k, clean)
      /\ \A i \in 1..clean : Given[i] = sent[i]
  BY <1>1, AppendProperties, GivenAndGot DEF StreamInv, StreamTypeOK
<1>5. CASE k < clean
  <2>1. Len(Got) = k /\ Least(k, clean) = k /\ Least(k + 1, clean) = k + 1
    BY <1>4, <1>5 DEF Least
  <2>2. p = Given[k + 1]
    BY <1>1, <1>4, <1>5, DecodesNext
  <2>3. Got = decoded
    BY <1>4, <2>1, FirstElements DEF Got
  <2>4. Got' = decoded'
    <3>1. SubSeq(decoded', 1, k + 1) = decoded'
      BY <1>4, FirstElements
    <3>2. Got' = SubSeq(decoded', 1, Least(Len(decoded'), clean))
      BY <1>1 DEF Got, Least
    <3> QED
      BY <1>4, <2>1, <3>1, <3>2
  <2> QED
    BY <1>1, <1>2, <1>3, <1>4, <1>5, <2>1, <2>2, <2>3, <2>4 DEF SeenStep
<1>6. CASE ~(k < clean)
  <2>1. Least(k, clean) = clean /\ Least(k + 1, clean) = clean /\ clean \in 0..k
    BY <1>4, <1>6 DEF Least
  <2>2. SubSeq(Append(decoded, p), 1, clean) = SubSeq(decoded, 1, clean)
    BY <1>4, <2>1, FirstElementsOfAppend
  <2>3. Got' = SubSeq(decoded', 1, Least(Len(decoded'), clean))
    BY <1>1 DEF Got, Least
  <2>4. Got' = Got
    BY <1>1, <1>4, <2>1, <2>2, <2>3 DEF Got
  <2> QED
    BY <1>2, <1>3, <2>4 DEF Unseen
<1> QED
  BY <1>5, <1>6

LEMMA NothingSeen ==
    ASSUME StreamInv, StreamInv', DecodeNothing
    PROVE  SeenStep \/ Unseen
<1>1. /\ reader = "decode"
      /\ reader' = IF at_eof THEN AfterEof ELSE "read"
      /\ UNCHANGED <<sent, returned, clean, decoded>>
  BY DEF DecodeNothing, writerVars
<1>2. UNCHANGED <<Given, Returned, Got>>
  BY <1>1 DEF Given, Returned, Got, Least
<1>3. Seen = "open"
  BY <1>1 DEF Seen
<1>4. reader' \in {"read", "ended", "torn"}
  BY <1>1 DEF AfterEof
<1>5. CASE reader' = "ended"
  <2>1. Returned <= Len(decoded)
    BY <1>1, <1>2, <1>5 DEF StreamInv, Endings, Returned
  <2>2. Returned <= Len(Got)
    <3>1. Returned <= clean
      BY GivenAndGot DEF Returned, Least, StreamInv, StreamTypeOK
    <3>2. Len(Got) = Least(Len(decoded), clean)
      BY GivenAndGot
    <3> QED
      BY <2>1, <3>1, <3>2, GivenAndGot DEF Least
  <2>3. Seen' = "ended"
    BY <1>5 DEF Seen
  <2> QED
    BY <1>2, <1>3, <2>2, <2>3 DEF SeenStep
<1>6. CASE reader' = "torn"
  <2>1. Seen' = "broken"
    BY <1>6 DEF Seen
  <2> QED
    BY <1>2, <1>3, <2>1 DEF SeenStep
<1>7. CASE reader' = "read"
  <2>1. Seen' = "open"
    BY <1>7 DEF Seen
  <2> QED
    BY <1>2, <1>3, <2>1 DEF Unseen
<1> QED
  BY <1>4, <1>5, <1>6, <1>7

\* The other steps: only a failure of the transport is seen.
LEMMA OtherSeen ==
    ASSUME \/ \E n \in (flushed + 1)..Len(stream) : Flush(n)
           \/ WriterEnds
           \/ \E b \in Byte : Noise(b)
           \/ \E n \in (arrived + 1)..flushed : ReadBytes(n)
           \/ ReadEof \/ ReadFails \/ Forwarded \/ UNCHANGED streamVars
    PROVE  SeenStep \/ Unseen
<1>1. UNCHANGED <<sent, returned, clean, decoded>>
  BY DEF Flush, WriterEnds, Noise, ReadBytes, ReadEof, ReadFails, Forwarded,
     streamVars, writerVars, readerVars
<1>2. UNCHANGED <<Given, Returned, Got>>
  BY <1>1 DEF Given, Returned, Got, Least
<1>3. \/ reader' = reader
      \/ reader \in {"read", "forward"} /\ reader' = "decode"
      \/ reader = "read" /\ reader' = "failed"
  BY DEF Flush, WriterEnds, Noise, ReadBytes, ReadEof, ReadFails, Forwarded,
     streamVars, readerVars
<1>4. Seen' = Seen \/ (Seen = "open" /\ Seen' = "broken")
  BY <1>3 DEF Seen
<1> QED
  BY <1>2, <1>4 DEF SeenStep, Unseen

\* However the bytes travel, the packets come out as they were sent: a link is
\* a PacketStream.
THEOREM LinkIsPacketStream == StreamSpec => ImplementsPacketStream
<1>1. StreamInit => Promise!Init
  <2> SUFFICES ASSUME StreamInit PROVE Promise!Init
    OBVIOUS
  <2>1. clean = 0 /\ returned = 0 /\ reader = "read" /\ Len(decoded) = 0
    BY EmptySeq DEF StreamInit
  <2>2. Least(returned, clean) = 0 /\ Least(Len(decoded), clean) = 0
    BY <2>1 DEF Least
  <2>3. \A s : SubSeq(s, 1, 0) = <<>>
    BY SubSeqEmpty
  <2> QED
    BY <2>1, <2>2, <2>3 DEF Promise!Init
<1>2. StreamInv /\ StreamInv' /\ [StreamNext]_streamVars
        => [Promise!Next]_(Promise!vars)
  <2> SUFFICES ASSUME StreamInv, StreamInv', [StreamNext]_streamVars
               PROVE  SeenStep \/ Unseen
    BY SeenIsPromised
  <2>1. CASE WriterNext
    BY <2>1, SendSeen, ReturnSeen, OtherSeen DEF WriterNext
  <2>2. CASE ReaderWork
    BY <2>2, DecodeSeen, NothingSeen, OtherSeen DEF ReaderWork
  <2>3. CASE ReadFails \/ Forwarded \/ UNCHANGED streamVars
    BY <2>3, OtherSeen
  <2> QED
    BY <2>1, <2>2, <2>3 DEF StreamNext
<1> QED
  BY <1>1, <1>2, StreamInvariant, PTL
     DEF StreamSpec, ImplementsPacketStream, Promise!Spec

=============================================================================
