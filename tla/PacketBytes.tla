----------------------------- MODULE PacketBytes -----------------------------
(***************************************************************************)
(* The video packets of GrUdpProtocol (gr_udp_protocol.h) byte by byte:    *)
(* how a frame is cut and protected, and how the receiver puts the bytes   *)
(* of one frame together again.  FrameReassembler has the receiver's       *)
(* decisions over many frames and none of the bytes.                       *)
(***************************************************************************)
EXTENDS ReedSolomon, VideoBytes

ParityShards(total, fecPercent) ==
    LET wanted == Max({1, (total * fecPercent + 99) \div 100})
    IN  IF fecPercent = 0 \/ total + wanted > DATA_SHARDS_MAX THEN 0 ELSE wanted

ShardVideoBytes(meta, frame, mtu, fecPercent) ==
    LET d == DataShards(meta, Len(frame), mtu)
        blocks == [i \in 0 .. d - 1 |-> FilledTo(Body(meta, frame, mtu, i), mtu - Base)]
        parity == IF ParityShards(d, fecPercent) = 0 THEN [j \in {} |-> <<>>]
                  ELSE Encode(blocks, ParityShards(d, fecPercent))
        p == Cardinality(DOMAIN parity)
    IN  IF frame = <<>> \/ Len(meta.name) > kMaxMonNameLen
           \/ FirstPayload(meta, mtu) <= 0 \/ d > 65535
        THEN [i \in {} |-> <<>>]
        ELSE [i \in 0 .. d + p - 1 |->
                IF i < d
                THEN DataPacket(meta, frame, mtu, d, p, i)
                ELSE VideoPacket(meta, VideoFlags(meta, FALSE, FALSE, TRUE),
                                 d, p, i, mtu - Base, parity[i - d])]

(***************************************************************************)
(* The receiver for one frame: the slots its packets filled, the check of  *)
(* a recovered first block, and the recovery (TryRecoverAndEmit).          *)
(***************************************************************************)
Missing == <<>>

Slots(shards) ==
    LET any == CHOOSE s \in shards : TRUE
    IN  [i \in 0 .. any.d + any.p - 1 |->
            LET here == {s \in shards : s.i = i}
            IN  IF here = {} THEN Missing ELSE (CHOOSE s \in here : TRUE).body]

ValidateRecoveredShard0(b0, d, p) ==
    /\ Len(b0) >= 9
    /\ b0[9] <= kMaxMonNameLen
    /\ Len(b0) >= 9 + b0[9]
    /\ 9 + b0[9] + R32(b0, 4) <= d * p

EmitRecovered(result, d, p) ==
    IF result.ok /\ ValidateRecoveredShard0(result.shards[0], d, p)
    THEN EmitFrame(result.shards, d) ELSE Refused

TryRecoverAndEmit(slots, d) ==
    LET p == Max({Len(slots[i]) : i \in DOMAIN slots})
        blocks == [i \in DOMAIN slots |->
                    IF slots[i] = Missing THEN Missing ELSE FilledTo(slots[i], p)]
    IN  EmitRecovered(Decode(blocks, d), d, p)

\* The frame made of a set of packets of it, or nothing yet.
Reassemble(packets) ==
    LET shards == {ParseVideoShard(s) : s \in packets}
        d == (CHOOSE s \in shards : TRUE).d
        slots == Slots(shards)
        filled == {i \in DOMAIN slots : slots[i] # Missing}
    IN  IF shards = {} \/ Refused \in shards THEN Refused
        ELSE IF 0 .. d - 1 \subseteq filled THEN EmitFrame(slots, d)
        ELSE IF Cardinality(filled) < d \/ Cardinality(DOMAIN slots) = d THEN Refused
        ELSE TryRecoverAndEmit(slots, d)
=============================================================================
