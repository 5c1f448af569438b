--------------------------- MODULE MCVideoChannel ---------------------------
(* The packets of every frame the bounded render can send. *)
EXTENDS VideoChannel

SentPackets ==
    UNION { ShardVideoFrame([origin |-> o, idx |-> x, key |-> k, rfi |-> r,
                             d |-> sh[1], p |-> sh[2]]) :
              o \in 1 .. MaxRuns, x \in 0 .. MaxFrames - 1,
              k \in BOOLEAN, r \in BOOLEAN, sh \in Shapes }

MCShapes == {<<1, 0>>, <<2, 0>>, <<2, 1>>, <<2, 2>>}
FecShapes == {<<1, 1>>, <<2, 1>>}
=============================================================================
