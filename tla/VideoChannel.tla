---------------------------- MODULE VideoChannel ----------------------------
(***************************************************************************)
(* A render that cuts frames into packets (ShardVideoFrame), a datagram     *)
(* channel that loses, repeats and reorders them, and the client's          *)
(* GrUdpFrameReassembler.  The render restarts with its frame numbers back  *)
(* at 0 (gr_udp_protocol.h:479-480, 518-519).  The sockets and the encoder  *)
(* belong to the programs that use this library.                            *)
(***************************************************************************)
EXTENDS FrameReassembler

CONSTANTS
    Shapes,     \* pairs <<data shards, parity shards>> of the frames
    MaxFrames,  \* bound: frames a run of the render sends
    MaxRuns,    \* bound: runs of the render
    Lag,        \* a packet may arrive until Lag later frames have been sent
    Repeats,    \* whether the channel may deliver a packet more than once
    Restarts    \* how the render restarts: the client is "told", or it is "silent"

ASSUME ChannelAssumption ==
    /\ MaxFrames \in Nat /\ MaxRuns \in Nat \ {0} /\ Lag \in Nat
    /\ Repeats \in BOOLEAN /\ Restarts \subseteq {"told", "silent"}
    /\ Shapes \subseteq (Nat \ {0}) \X Nat

\* The packets the client may be handed are at least those of the render's frames.
ASSUME PacketsOfFrames ==
    \A o \in 1 .. MaxRuns, x \in 0 .. MaxFrames - 1, k, r \in BOOLEAN, sh \in Shapes :
        ShardVideoFrame([origin |-> o, idx |-> x, key |-> k, rfi |-> r,
                         d |-> sh[1], p |-> sh[2]]) \subseteq Packets

VARIABLES
    run,        \* the current run of the render
    frame,      \* the newest frame sent, NotSent before a run's first one
    wire,       \* the newest bursts of packets, oldest first
    oldTop,     \* history: the highest frame number of earlier runs
    arrived,    \* history: packets of the newest frame that arrived
    told,       \* history: frames of this run with a status
    again,      \* history: frames of this run with more than one status
    whole       \* history: frames of this run reported complete

channel == <<run, frame, wire, oldTop, arrived, told, again, whole>>
allVars == <<vars, channel>>

NotSent == [origin |-> 0, idx |-> Absent, key |-> FALSE, rfi |-> FALSE,
            d |-> 0, p |-> 0]

InFlight == UNION {wire[n] : n \in DOMAIN wire}

Recent(bursts) ==
    SubSeq(bursts, IF Len(bursts) > Lag + 1 THEN Len(bursts) - Lag ELSE 1,
           Len(bursts))

ChannelInit ==
    /\ Init
    /\ run = 1
    /\ frame = NotSent
    /\ wire = <<>>
    /\ oldTop = Absent
    /\ arrived = {}
    /\ told = {}
    /\ again = {}
    /\ whole = {}

\* The render encodes the next frame; a run begins with a key frame.
Send(key, rfi, shape) ==
    /\ frame.idx + 1 < MaxFrames
    /\ frame = NotSent => key
    /\ ~(key /\ rfi)
    /\ frame' = [origin |-> run, idx |-> frame.idx + 1, key |-> key,
                 rfi |-> rfi, d |-> shape[1], p |-> shape[2]]
    /\ wire' = Recent(Append(wire, ShardVideoFrame(frame')))
    /\ arrived' = {}
    /\ out' = <<>>
    /\ UNCHANGED <<asm, finished, needKey, last, prev, run, oldTop, told, again, whole>>

\* A datagram arrives, perhaps not for the last time; a lost one never does.
Deliver(pkt) ==
    /\ AddPacket(pkt)
    /\ arrived' = IF pkt.origin = frame.origin /\ pkt.idx = frame.idx
                  THEN arrived \cup {pkt} ELSE arrived
    /\ LET Of(name) == {n \in DOMAIN out' : out'[n].cb = name}
           closed == {out'[n].idx : n \in Of("status")}
           lost == {out'[n].idx : n \in Of("lost")}
           twice == {x \in closed :
                       \E m, n \in Of("status") :
                          m # n /\ out'[m].idx = x /\ out'[n].idx = x}
       IN  /\ told' = told \cup closed
           /\ again' = again \cup (told \cap closed) \cup twice
           /\ whole' = whole \cup (closed \ lost)
    /\ wire' = IF Repeats THEN wire ELSE [n \in DOMAIN wire |-> wire[n] \ {pkt}]
    /\ UNCHANGED <<run, frame, oldTop>>

NewRun ==
    /\ run < MaxRuns
    /\ frame # NotSent
    /\ run' = run + 1
    /\ frame' = NotSent
    /\ arrived' = {} /\ told' = {} /\ again' = {} /\ whole' = {}

\* The render restarts; the client only sees its frame numbers fall back.
SilentRestart ==
    /\ "silent" \in Restarts
    /\ NewRun
    /\ oldTop' = IF frame.idx > oldTop THEN frame.idx ELSE oldTop
    /\ out' = <<>>
    /\ UNCHANGED <<asm, finished, needKey, last, prev, wire>>

\* The render restarts, and the client connects to it anew.
Reconnect ==
    /\ "told" \in Restarts
    /\ NewRun
    /\ Reset
    /\ wire' = <<>>
    /\ oldTop' = Absent

ChannelNext ==
    \/ \E key, rfi \in BOOLEAN, shape \in Shapes : Send(key, rfi, shape)
    \/ \E pkt \in InFlight : Deliver(pkt)
    \/ SilentRestart
    \/ Reconnect

ChannelSpec == ChannelInit /\ [][ChannelNext]_allVars

-----------------------------------------------------------------------------
\* No restart has been hidden from the client since it connected.
Undisturbed == oldTop = Absent

(***************************************************************************)
(* The status of a frame drives the render's FEC: it is reported at most    *)
(* once per frame (on_frame_status_, gr_udp_protocol.h:474-475).            *)
(***************************************************************************)
StatusOncePerFrame == Undisturbed => again = {}

(***************************************************************************)
(* A frame with parity is reported complete as soon as as many of its       *)
(* shards as it has data shards have arrived, whichever they are and in     *)
(* whatever order (gr_udp_protocol.h:447-450, 632-636).                     *)
(***************************************************************************)
FecDelivers ==
    Undisturbed /\ frame.p > 0 /\ Cardinality(arrived) >= frame.d => frame.idx \in whole

(***************************************************************************)
(* The rfi mark is put on the first frame that can be decoded after a       *)
(* reference was invalidated (gr_udp_protocol.h:171): once complete it is   *)
(* given to the decoder and ends the wait for a key frame.                  *)
(***************************************************************************)
RfiFrameEndsWait ==
    Undisturbed /\ frame.rfi /\ frame.idx \in whole => last.idx = frame.idx /\ ~needKey

(***************************************************************************)
(* A key frame that is complete, or has enough shards for FEC, is given to  *)
(* the decoder and ends the wait for one; a restart the client is not told  *)
(* of hides at most the frames up to the old numbers                        *)
(* (gr_udp_protocol.h:451-454, 479-480).                                    *)
(***************************************************************************)
RestartHeals ==
    frame.key /\ frame.idx > oldTop
              /\ (frame.idx \in whole \/ (frame.p > 0 /\ Cardinality(arrived) >= frame.d))
        => last.idx = frame.idx /\ ~needKey
=============================================================================
