------------------------- MODULE MCFrameReassembler -------------------------
(***************************************************************************)
(* Every packet a run of the render can send: frames 0..MaxIdx of any kind  *)
(* in the given shapes (data shards, parity shards), one malformed packet,  *)
(* and frame 1 of a second run.  Runs differ for the receiver only when     *)
(* their shards of one frame number mix, and one number is enough for that. *)
(***************************************************************************)
EXTENDS FrameReassembler

CONSTANTS MaxIdx, Shapes

Numbers == ({1} \X (0 .. MaxIdx)) \cup {<<2, 1>>}

MCFrames ==
    { [origin |-> n[1], idx |-> n[2], key |-> kind = "key", rfi |-> kind = "rfi",
       d |-> sh[1], p |-> sh[2]] :
        n \in Numbers, kind \in {"key", "rfi", "p"}, sh \in Shapes }

\* A parity packet of a frame that has no parity.
Bad == [origin |-> 1, idx |-> 1, d |-> 1, p |-> 0, i |-> 1, sof |-> FALSE,
        key |-> FALSE, rfi |-> FALSE, parity |-> TRUE]

SentPackets == UNION {ShardVideoFrame(f) : f \in MCFrames} \cup {Bad}

LongShapes == {<<2, 0>>, <<2, 1>>}
=============================================================================
