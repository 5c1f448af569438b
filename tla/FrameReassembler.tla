-------------------------- MODULE FrameReassembler --------------------------
(***************************************************************************)
(* GrUdpFrameReassembler (gr_udp_protocol.h:455-795): the client collects   *)
(* the shards of a video stream and hands complete frames to the decoder.   *)
(* The three maps of the class are keyed by mon_slot and AddPacket touches  *)
(* only the entry of its packet's mon_slot, so the module is about one      *)
(* mon_slot.                                                                *)
(*                                                                          *)
(* AddPacket is one step: it runs to completion on the receiving thread.    *)
(* It is written as the composition of the phases the code goes through,    *)
(* each an operator from a state s of the receiver to the next one.         *)
(***************************************************************************)
EXTENDS VideoSharding, FiniteSets, Sequences

CONSTANT Packets   \* the parsed video packets that may arrive

ASSUME PacketsAssumption == Packets \subseteq PacketType

VARIABLES
    asm,        \* assemblies_[mon_slot]
    finished,   \* finished_[mon_slot], Absent when the map has no entry
    needKey,    \* need_key_[mon_slot], FALSE when the map has no entry
    out,        \* the callbacks made by the last step, in order
    last, prev  \* history: the last two frames given to on_frame_

rx == [asm |-> asm, finished |-> finished, needKey |-> needKey,
       out |-> <<>>, last |-> last, prev |-> prev]

vars == <<asm, finished, needKey, out, last, prev>>

-----------------------------------------------------------------------------
Absent == -1

Idle == [active |-> FALSE, idx |-> 0, key |-> FALSE, rfi |-> FALSE,
         d |-> 0, p |-> 0, shards |-> {}]

NoFrame == [idx |-> Absent, key |-> FALSE, rfi |-> FALSE]

\* The shard slots filled so far are the packets that filled them.
Started(pkt) == [active |-> TRUE, idx |-> pkt.idx, key |-> pkt.key,
                 rfi |-> pkt.rfi, d |-> pkt.d, p |-> pkt.p, shards |-> {}]

Filled(a, i)   == \E s \in a.shards : s.i = i
AllData(a)     == \A i \in 0 .. a.d - 1 : Filled(a, i)
EnoughForFec(a) == a.p > 0 /\ Cardinality(a.shards) >= a.d

(***************************************************************************)
(* RS decoding, the sanity check of the recovered shard 0 and the length    *)
(* checks of EmitFrame all succeed on shards cut from one frame.  On shards *)
(* of two runs of the render that share an index they see arbitrary bytes,  *)
(* and luck says how they end.                                              *)
(***************************************************************************)
Usable(a, luck) == luck \/ \A x, y \in a.shards : x.origin = y.origin

Callback(name, idx) == [cb |-> name, idx |-> idx]

\* Mutant of DeclareLoss: the wait for a key frame is not begun.
LossWithoutWait(s, idx) ==
    [s EXCEPT !.out = @ \o <<Callback("lost", idx), Callback("status", idx)>>]

DeclareLoss(s, idx) ==
    [s EXCEPT !.needKey = TRUE,
              !.out = @ \o <<Callback("lost", idx), Callback("status", idx)>>]

MarkFinished(s, idx) ==
    [s EXCEPT !.finished = IF idx > @ THEN idx ELSE @]

(***************************************************************************)
(* CompleteWithStatus and EmitFrame for a frame whose bytes are usable: a   *)
(* frame that starts a reference chain ends the wait for one; any other is  *)
(* passed on only if the chain is whole.                                    *)
(***************************************************************************)
CompleteWithStatus(s) ==
    LET anchor == s.asm.key \/ s.asm.rfi
        done == Callback("status", s.asm.idx)
    IN  IF anchor \/ ~s.needKey
        THEN [s EXCEPT !.needKey = FALSE,
                       !.out = @ \o <<Callback("frame", s.asm.idx), done>>,
                       !.prev = s.last,
                       !.last = [idx |-> s.asm.idx, key |-> s.asm.key,
                                 rfi |-> s.asm.rfi]]
        ELSE [s EXCEPT !.out = Append(@, done)]

Close(s) == [s EXCEPT !.asm = Idle]

Abandon(s) == Close(MarkFinished(DeclareLoss(s, s.asm.idx), s.asm.idx))

Finish(s, luck) ==
    IF Usable(s.asm, luck)
    THEN Close(MarkFinished(CompleteWithStatus(s), s.asm.idx))
    ELSE Abandon(s)

-----------------------------------------------------------------------------
(***************************************************************************)
(* The phases of AddPacket.                                                 *)
(***************************************************************************)
Malformed(pkt) ==
    \/ pkt.d = 0
    \/ pkt.parity /\ (pkt.p = 0 \/ pkt.i < pkt.d \/ pkt.i >= pkt.d + pkt.p)
    \/ ~pkt.parity /\ pkt.i >= pkt.d

\* Mutant of Late: the newest closed frame is not counted as closed.
LateOffByOne(s, pkt) == s.finished # Absent /\ pkt.idx < s.finished

Late(s, pkt) == s.finished # Absent /\ pkt.idx <= s.finished

\* A first packet of a key frame from before the mark: the render restarted.
NewStream(s, pkt) == pkt.sof /\ pkt.key /\ pkt.idx < s.finished

Forget(s) == [s EXCEPT !.asm = Idle, !.needKey = FALSE, !.finished = Absent]

\* Mutant of Supersede: a newer frame does not end the one in progress.
NeverSupersede(s, pkt, luck) == s

\* A newer frame ends the one in progress: recovered if it can be, else lost.
Supersede(s, pkt, luck) ==
    IF ~(s.asm.active /\ pkt.idx > s.asm.idx) THEN s
    ELSE IF s.asm.p > 0 /\ (AllData(s.asm) \/ EnoughForFec(s.asm))
                        /\ Usable(s.asm, luck)
         THEN Close(CompleteWithStatus(s))
         ELSE Abandon(s)

\* Mutant: no gap is noticed.
NoGapNoted(s, pkt, marked) == s

\* Frames missing as a whole are noticed when the next one starts; "marked"
\* says whether finished_ had an entry when the packet came in.
NoteGap(s, pkt, marked) ==
    IF marked /\ pkt.idx > s.finished + 1
    THEN MarkFinished(DeclareLoss(s, pkt.idx - 1), pkt.idx - 1)
    ELSE s

\* Mutant of Begin: parity does not help a frame whose first packet is missing.
BeginWithSof(s, pkt, marked) ==
    IF s.asm.active THEN s
    ELSE IF pkt.sof THEN [NoteGap(s, pkt, marked) EXCEPT !.asm = Started(pkt)]
    ELSE MarkFinished(DeclareLoss(NoteGap(s, pkt, marked), pkt.idx), pkt.idx)

\* Without its first packet a frame can only be started if it has parity.
Begin(s, pkt, marked) ==
    IF s.asm.active THEN s
    ELSE LET t == NoteGap(s, pkt, marked)
         IN  IF pkt.sof \/ pkt.p > 0
             THEN [t EXCEPT !.asm = Started(pkt)]
             ELSE MarkFinished(DeclareLoss(t, pkt.idx), pkt.idx)

Fill(s, pkt) ==
    LET a == s.asm
        shards == IF Filled(a, pkt.i) THEN a.shards ELSE a.shards \cup {pkt}
        rfi == IF pkt.sof THEN pkt.rfi ELSE a.rfi
    IN  [s EXCEPT !.asm = [a EXCEPT !.shards = shards, !.rfi = rfi]]

\* Mutant of Store: recovery waits for the next frame to begin.
StoreUntilWhole(s, pkt, luck) ==
    IF ~s.asm.active \/ pkt.idx # s.asm.idx THEN s
    ELSE IF pkt.d # s.asm.d \/ pkt.d + pkt.p # s.asm.d + s.asm.p THEN Abandon(s)
    ELSE IF AllData(Fill(s, pkt).asm) THEN Finish(Fill(s, pkt), luck)
    ELSE Fill(s, pkt)

Store(s, pkt, luck) ==
    IF ~s.asm.active \/ pkt.idx # s.asm.idx THEN s
    ELSE IF pkt.d # s.asm.d \/ pkt.d + pkt.p # s.asm.d + s.asm.p
    THEN Abandon(s)
    ELSE LET t == Fill(s, pkt)
         IN  IF AllData(t.asm) \/ EnoughForFec(t.asm) THEN Finish(t, luck) ELSE t

Accept(s, pkt, luck) ==
    Store(Begin(Supersede(s, pkt, luck), pkt, s.finished # Absent), pkt, luck)

Handle(s, pkt, luck) ==
    IF Malformed(pkt) THEN s
    ELSE IF ~Late(s, pkt) THEN Accept(s, pkt, luck)
    ELSE IF NewStream(s, pkt) THEN Accept(Forget(s), pkt, luck)
    ELSE s

-----------------------------------------------------------------------------
Init ==
    /\ asm = Idle
    /\ finished = Absent
    /\ needKey = FALSE
    /\ out = <<>>
    /\ last = NoFrame
    /\ prev = NoFrame

AddPacket(pkt) ==
    \E luck \in BOOLEAN :
        LET s == Handle(rx, pkt, luck)
        IN  /\ asm' = s.asm
            /\ finished' = s.finished
            /\ needKey' = s.needKey
            /\ out' = s.out
            /\ last' = s.last
            /\ prev' = s.prev

\* A new connection, or a reconnect; the decoder starts afresh with it.
Reset ==
    /\ asm' = Idle
    /\ finished' = Absent
    /\ needKey' = FALSE
    /\ out' = <<>>
    /\ last' = NoFrame
    /\ prev' = NoFrame

Next == (\E pkt \in Packets : AddPacket(pkt)) \/ Reset

Spec == Init /\ [][Next]_vars

-----------------------------------------------------------------------------
ShownType == [idx : Nat \cup {Absent}, key : BOOLEAN, rfi : BOOLEAN]

AssemblyType ==
    [active : BOOLEAN, idx : Nat, key : BOOLEAN, rfi : BOOLEAN,
     d : Nat, p : Nat, shards : SUBSET Packets]

\* The type invariant: the maps' entries and the history have their types.
TypeOK ==
    /\ asm \in AssemblyType
    /\ finished \in Nat \cup {Absent}
    /\ needKey \in BOOLEAN
    /\ out \in Seq([cb : {"lost", "status", "frame"}, idx : Nat])
    /\ last \in ShownType
    /\ prev \in ShownType

(***************************************************************************)
(* The receiver either asks for a key frame or its decoder has just been    *)
(* given the newest closed frame: no loss goes unnoticed (the comment of    *)
(* the gap check, gr_udp_protocol.h:545-548).                               *)
(***************************************************************************)
SyncedOrWaiting == finished # Absent /\ ~needKey => last.idx = finished

(***************************************************************************)
(* A frame that refers to its predecessor is given to the decoder only      *)
(* right after that predecessor, whatever was lost, reordered, repeated or  *)
(* restarted before it; only the first frame after a Reset may be a         *)
(* dependent one (EmitFrame, gr_udp_protocol.h:786-788).                    *)
(***************************************************************************)
ReferenceChain ==
    last.idx # Absent /\ ~last.key /\ ~last.rfi /\ prev.idx # Absent
        => last.idx = prev.idx + 1

(***************************************************************************)
(* Between packets an assembly is newer than every closed frame and is      *)
(* neither complete nor recoverable: a frame is handed over by the packet   *)
(* that makes it whole, never kept waiting for another one                  *)
(* (gr_udp_protocol.h:624-645).                                             *)
(***************************************************************************)
NothingHeldBack ==
    asm.active => /\ asm.idx > finished
                  /\ ~AllData(asm)
                  /\ ~EnoughForFec(asm)

(***************************************************************************)
(* Whatever packet comes next, its callbacks are about frames that are      *)
(* still open, in increasing order, and they close them: within a stream no *)
(* frame gets a second status and none is delivered after it was declared   *)
(* lost (gr_udp_protocol.h:474, 515).  A packet that lowers the mark has    *)
(* switched to another stream.                                              *)
(***************************************************************************)
StatusOnceInOrder ==
    \A pkt \in Packets, luck \in BOOLEAN :
        LET s == Handle(rx, pkt, luck)
        IN  s.finished >= finished =>
              \A m \in DOMAIN s.out :
                 /\ finished < s.out[m].idx /\ s.out[m].idx <= s.finished
                 /\ \A n \in DOMAIN s.out : m < n => s.out[m].idx <= s.out[n].idx
=============================================================================
