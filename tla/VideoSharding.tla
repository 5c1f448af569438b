---------------------------- MODULE VideoSharding ----------------------------
(***************************************************************************)
(* The video packets of GrUdpProtocol (gr_udp_protocol.h:92-285): what the  *)
(* receiver reads of a packet, and how ShardVideoFrame cuts a frame.        *)
(* Bytes are abstracted to their number, except that two runs of the render *)
(* (origin) never write the same bytes into a shard.                        *)
(***************************************************************************)
EXTENDS Integers

(***************************************************************************)
(* A parsed packet (VideoShardInfo).  idx, d, p and i are frame_index_,     *)
(* data_shards_, parity_shards_ and shard_index_; sof, key, rfi and parity  *)
(* are the flags; origin is the run of the render that sent it.             *)
(***************************************************************************)
PacketType ==
    [origin : Nat, idx : Nat, d : Nat, p : Nat, i : Nat,
     sof : BOOLEAN, key : BOOLEAN, rfi : BOOLEAN, parity : BOOLEAN]

\* An encoded frame, cut into d data shards with p parity shards.
FrameType ==
    [origin : Nat, idx : Nat, key : BOOLEAN, rfi : BOOLEAN, d : Nat, p : Nat]

(***************************************************************************)
(* The packets of a frame: data packets carry the key and rfi marks, parity *)
(* packets the key mark alone.                                              *)
(***************************************************************************)
ShardVideoFrame(f) ==
    { [origin |-> f.origin, idx |-> f.idx, d |-> f.d, p |-> f.p, i |-> i,
       sof |-> i = 0, key |-> f.key, rfi |-> f.rfi /\ i < f.d,
       parity |-> i >= f.d] : i \in 0 .. f.d + f.p - 1 }
=============================================================================
