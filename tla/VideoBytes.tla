----------------------------- MODULE VideoBytes -----------------------------
(***************************************************************************)
(* A frame cut into data packets and put together again, byte by byte      *)
(* (gr_udp_protocol.h), without the parity that PacketBytes adds.          *)
(***************************************************************************)
EXTENDS ControlBytes, SequencesExt, FiniteSetsExt

kVideoHeaderSize == 20
kMaxMonNameLen == 64
Base == kCommonHeaderSize + kVideoHeaderSize

Part(s, from, to) == SubSeq(s, from, Min({to, Len(s)}))

(***************************************************************************)
(* ShardVideoFrame.  meta has idx, key, width, height and name.  Its       *)
(* blocks, all of P = mtu - 24 bytes, are what FEC protects; data packets  *)
(* carry them without the zeros that fill the last one.                    *)
(***************************************************************************)
SofExtension(meta, size) ==
    W16(meta.width) \o W16(meta.height) \o W32(size) \o W8(Len(meta.name)) \o meta.name

FirstPayload(meta, mtu) == mtu - Base - (9 + Len(meta.name))

DataShards(meta, size, mtu) ==
    LET first == FirstPayload(meta, mtu)
        p == mtu - Base
    IN  IF size <= first THEN 1 ELSE 1 + (size - first + p - 1) \div p

\* What packet i carries of the frame after the header: blocks[i] unfilled.
Body(meta, frame, mtu, i) ==
    LET first == FirstPayload(meta, mtu)
        p == mtu - Base
    IN  IF i = 0 THEN SofExtension(meta, Len(frame)) \o Part(frame, 1, first)
        ELSE Part(frame, first + (i - 1) * p + 1, first + i * p)

FilledTo(s, p) == s \o [b \in 1 .. p - Len(s) |-> 0]

VideoFlags(meta, sof, eof, parity) ==
    (IF meta.key THEN 1 ELSE 0) + (IF sof THEN 2 ELSE 0)
    + (IF eof THEN 4 ELSE 0) + (IF parity THEN 8 ELSE 0)

VideoPacket(meta, flags, d, p, i, payloadLen, body) ==
    WriteCommon(kPktVideo) \o W32(meta.idx) \o W32(0) \o W8(flags) \o W8(0)
    \o W16(d) \o W16(p) \o W16(i) \o W16(payloadLen) \o <<0, 0>> \o body

\* The i-th of d data packets of a frame that has p parity packets.
DataPacket(meta, frame, mtu, d, p, i) ==
    LET body == Body(meta, frame, mtu, i)
        extLen == IF i = 0 THEN 9 + Len(meta.name) ELSE 0
    IN  VideoPacket(meta, VideoFlags(meta, i = 0, i = d - 1, FALSE),
                    d, p, i, Len(body) - extLen, body)

(***************************************************************************)
(* ParseVideoShard: the fields, and body, which is the extension and the   *)
(* payload together.                                                       *)
(***************************************************************************)
ParseVideoShard(s) ==
    LET flags == s[13]
        sof == (flags \div 2) % 2 = 1
        nameLen == s[Base + 9]
        ext == IF sof THEN 9 + nameLen ELSE 0
    IN  IF \/ ParseCommon(s) # kPktVideo \/ Len(s) < Base
           \/ sof /\ Len(s) < Base + 9
           \/ sof /\ (nameLen > kMaxMonNameLen \/ Len(s) < Base + 9 + nameLen)
           \/ Len(s) # Base + ext + R16(s, 20)
        THEN Refused
        ELSE [ok |-> TRUE, idx |-> R32(s, 4), key |-> flags % 2 = 1, sof |-> sof,
              parity |-> (flags \div 8) % 2 = 1,
              d |-> R16(s, 14), p |-> R16(s, 16), i |-> R16(s, 18), body |-> From(s, Base)]

(***************************************************************************)
(* EmitFrame.  slots has a block for each data packet, as it came or, when *)
(* it was recovered, filled with zeros.                                    *)
(***************************************************************************)
EmitFrame(slots, d) ==
    LET b0 == slots[0]
        size == R32(b0, 4)
        bytes == From(b0, 9 + b0[9]) \o FlattenSeq([i \in 1 .. d - 1 |-> slots[i]])
    IN  IF Len(b0) < 9 \/ Len(b0) < 9 + b0[9] \/ Len(bytes) < size THEN Refused
        ELSE [ok |-> TRUE, width |-> R16(b0, 0), height |-> R16(b0, 2),
              name |-> SubSeq(b0, 10, 9 + b0[9]), frame |-> SubSeq(bytes, 1, size)]
=============================================================================
