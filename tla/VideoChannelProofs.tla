------------------------- MODULE VideoChannelProofs -------------------------
(***************************************************************************)
(* Proofs about VideoChannel for every set of frame shapes, any number of   *)
(* frames and restarts, and every loss, repetition and order of a frame's   *)
(* packets: FEC delivers as soon as it can, and the first key frame past    *)
(* the old numbers ends what a restart broke.  The channel is one that      *)
(* keeps the bursts of two frames apart (Lag = 0).                          *)
(***************************************************************************)
EXTENDS VideoChannel, FrameReassemblerProofs

\* The numbers of the frames a sequence of callbacks closes, and of those lost.
Named(q, name) == {q[n].idx : n \in {m \in DOMAIN q : q[m].cb = name}}
ClosedIn(q) == Named(q, "status")
LostIn(q)   == Named(q, "lost")

\* So far only frames before number top were reported.
Early(s, top) == \A x \in ClosedIn(s.out) \cup LostIn(s.out) : x < top

\* A frame that, complete, ends the wait: an RFI frame with parity may not.
Anchors(f) == f.key \/ (f.rfi /\ f.p = 0)

(***************************************************************************)
(* What becomes of frame f in receiver state s: packets A of it wait for    *)
(* more, it is complete, or it went by before it could be started.          *)
(***************************************************************************)
InProgress(s, f, A) ==
    /\ s.finished < f.idx
    /\ f.p = 0 => s.asm.rfi = f.rfi
    /\ s.asm.active /\ s.asm.idx = f.idx /\ s.asm.key = f.key
    /\ s.asm.d = f.d /\ s.asm.p = f.p /\ s.asm.shards = A

Done(s, f) == s.finished = f.idx /\ ~s.asm.active

Complete(s, f) ==
    /\ Done(s, f)
    /\ Anchors(f) => s.last.idx = f.idx /\ ~s.needKey
    /\ f.idx \in ClosedIn(s.out) \ LostIn(s.out)
    /\ \A x \in ClosedIn(s.out) : x <= f.idx

Missed(s, f) ==
    /\ Done(s, f)
    /\ f.p = 0
    /\ f.idx \in LostIn(s.out)
    /\ \A x \in ClosedIn(s.out) : x <= f.idx

-----------------------------------------------------------------------------
\* One more callback adds its number to the closed or the lost ones.
LEMMA TallyOne ==
    ASSUME NEW q \in Seq(CallbackType), NEW e \in CallbackType
    PROVE  /\ ClosedIn(Append(q, e)) =
                ClosedIn(q) \cup (IF e.cb = "status" THEN {e.idx} ELSE {})
           /\ LostIn(Append(q, e)) =
                LostIn(q) \cup (IF e.cb = "lost" THEN {e.idx} ELSE {})
<1> DEFINE r == Append(q, e)
<1>1. /\ Len(q) \in Nat /\ DOMAIN q = 1 .. Len(q) /\ DOMAIN r = 1 .. Len(q) + 1
      /\ \A n \in 1 .. Len(q) : r[n] = q[n]
      /\ r[Len(q) + 1] = e
  BY AppendProperties
<1> HIDE DEF r
<1>2. ASSUME NEW name
      PROVE  Named(r, name) = Named(q, name) \cup (IF e.cb = name THEN {e.idx} ELSE {})
  <2> DEFINE In(p) == {m \in DOMAIN p : p[m].cb = name}
  <2>1. \A n \in 1 .. Len(q) : n # Len(q) + 1
    BY <1>1
  <2>2. CASE e.cb = name
    <3>1. In(r) = In(q) \cup {Len(q) + 1}
      BY <1>1, <2>1, <2>2
    <3>2. \A n \in In(q) : r[n] = q[n]
      BY <1>1
    <3> HIDE DEF In
    <3>3. {r[n].idx : n \in In(r)} = {q[n].idx : n \in In(q)} \cup {e.idx}
      BY <1>1, <3>1, <3>2
    <3> QED BY <2>2, <3>3 DEF In, Named
  <2>3. CASE e.cb # name
    <3>1. In(r) = In(q)
      BY <1>1, <2>1, <2>3
    <3>2. \A n \in In(q) : r[n] = q[n]
      BY <1>1
    <3> HIDE DEF In
    <3>3. {r[n].idx : n \in In(r)} = {q[n].idx : n \in In(q)}
      BY <3>1, <3>2
    <3> QED BY <2>3, <3>3 DEF In, Named
  <2> QED BY <2>2, <2>3
<1>3. Named(r, "status") = Named(q, "status") \cup (IF e.cb = "status" THEN {e.idx} ELSE {})
  BY <1>2
<1>4. Named(r, "lost") = Named(q, "lost") \cup (IF e.cb = "lost" THEN {e.idx} ELSE {})
  BY <1>2
<1> QED BY <1>3, <1>4 DEF ClosedIn, LostIn, r

\* What is closed or lost are frame numbers.
LEMMA TallyType ==
    ASSUME NEW s \in StateType
    PROVE  ClosedIn(s.out) \subseteq Nat /\ LostIn(s.out) \subseteq Nat
<1>1. \A n \in DOMAIN s.out : s.out[n] \in CallbackType
  BY DEF StateType
<1>2. \A n \in DOMAIN s.out : s.out[n].idx \in Nat
  BY <1>1 DEF CallbackType
<1> QED BY <1>2 DEF ClosedIn, LostIn, Named

\* A declared loss closes its frame as lost.
LEMMA LossTally ==
    ASSUME NEW s \in StateType, NEW i \in Nat
    PROVE  LET t == MarkFinished(DeclareLoss(s, i), i)
           IN  /\ ClosedIn(t.out) = ClosedIn(s.out) \cup {i}
               /\ LostIn(t.out) = LostIn(s.out) \cup {i}
<1> DEFINE e == Callback("lost", i)
           f == Callback("status", i)
           l == DeclareLoss(s, i)
<1>1. /\ e \in CallbackType /\ f \in CallbackType /\ e.idx = i /\ f.idx = i
      /\ e.cb = "lost" /\ f.cb = "status"
  BY DEF Callback, CallbackType
<1>2. l.out = s.out \o <<e, f>> /\ l \in StateType /\ s.out \in Seq(CallbackType)
  <2>1. l.out = s.out \o <<e, f>>
    BY DEF DeclareLoss, StateType
  <2> QED BY <2>1, LossFields DEF StateType
<1> HIDE DEF l, e, f
<1>3. MarkFinished(l, i).out = l.out
  BY <1>2 DEF MarkFinished, StateType
<1>4. s.out \o <<e, f>> = Append(Append(s.out, e), f)
  BY <1>1, <1>2
<1>5. Append(s.out, e) \in Seq(CallbackType)
  BY <1>1, <1>2, AppendOne
<1>6. /\ ClosedIn(Append(s.out, e)) = ClosedIn(s.out)
      /\ LostIn(Append(s.out, e)) = LostIn(s.out) \cup {i}
  BY <1>1, <1>2, TallyOne
<1>7. /\ ClosedIn(l.out) = ClosedIn(s.out) \cup {i}
      /\ LostIn(l.out) = LostIn(s.out) \cup {i}
  BY <1>1, <1>2, <1>4, <1>5, <1>6, TallyOne
<1> QED BY <1>3, <1>7 DEF l

\* A complete frame is closed, and not as lost.
LEMMA CompleteTally ==
    ASSUME NEW s \in StateType
    PROVE  LET t == CompleteWithStatus(s)
           IN  /\ ClosedIn(t.out) = ClosedIn(s.out) \cup {s.asm.idx}
               /\ LostIn(t.out) = LostIn(s.out)
<1> DEFINE i == s.asm.idx
           e == Callback("frame", i)
           f == Callback("status", i)
           c == CompleteWithStatus(s)
<1>1. i \in Nat /\ s.out \in Seq(CallbackType)
  BY DEF StateType, AssemblyType
<1>2. /\ e \in CallbackType /\ f \in CallbackType /\ e.idx = i /\ f.idx = i
      /\ e.cb = "frame" /\ f.cb = "status"
  BY <1>1 DEF Callback, CallbackType
<1>3. c.out = s.out \o <<e, f>> \/ c.out = Append(s.out, f)
  BY DEF CompleteWithStatus, StateType
<1> HIDE DEF c, e, f, i
<1>4. s.out \o <<e, f>> = Append(Append(s.out, e), f)
  BY <1>1, <1>2
<1>5. Append(s.out, e) \in Seq(CallbackType)
  BY <1>1, <1>2, AppendOne
<1>6. /\ ClosedIn(Append(s.out, e)) = ClosedIn(s.out)
      /\ LostIn(Append(s.out, e)) = LostIn(s.out)
  BY <1>1, <1>2, TallyOne
<1>7. /\ ClosedIn(c.out) = ClosedIn(s.out) \cup {i}
      /\ LostIn(c.out) = LostIn(s.out)
  <2>1. CASE c.out = s.out \o <<e, f>>
    BY <1>2, <1>4, <1>5, <1>6, <2>1, TallyOne
  <2>2. CASE c.out = Append(s.out, f)
    BY <1>1, <1>2, <2>2, TallyOne
  <2> QED BY <1>3, <2>1, <2>2
<1> QED BY <1>7 DEF c, i
-----------------------------------------------------------------------------
\* Packets of one frame are well formed, of one origin, and told apart by i.
LEMMA ShardFacts ==
    ASSUME NEW f \in FrameType, f.d # 0, NEW pkt \in ShardVideoFrame(f)
    PROVE  /\ ~Malformed(pkt) /\ pkt.d = f.d /\ pkt.p = f.p /\ pkt.d # 0
           /\ pkt.idx = f.idx /\ pkt.key = f.key /\ pkt.origin = f.origin
           /\ f.p = 0 => pkt.rfi = f.rfi
           /\ \A x \in ShardVideoFrame(f) : x.i = pkt.i => x = pkt
<1>1. PICK i \in 0 .. f.d + f.p - 1 :
        pkt = [origin |-> f.origin, idx |-> f.idx, d |-> f.d, p |-> f.p, i |-> i,
               sof |-> i = 0, key |-> f.key, rfi |-> f.rfi /\ i < f.d,
               parity |-> i >= f.d]
  BY DEF ShardVideoFrame
<1>2. /\ pkt.i = i /\ pkt.d = f.d /\ pkt.p = f.p /\ (pkt.parity <=> i >= f.d)
      /\ pkt.idx = f.idx /\ pkt.key = f.key /\ pkt.origin = f.origin
      /\ pkt.rfi = (f.rfi /\ i < f.d)
  BY <1>1
<1>3. f.d \in Nat /\ f.p \in Nat /\ i \in Nat /\ i < f.d + f.p
  BY DEF FrameType
<1>4. ~Malformed(pkt)
  BY <1>2, <1>3 DEF Malformed
<1>5. ASSUME NEW x \in ShardVideoFrame(f), x.i = pkt.i
      PROVE  x = pkt
  <2>1. PICK j \in 0 .. f.d + f.p - 1 :
          x = [origin |-> f.origin, idx |-> f.idx, d |-> f.d, p |-> f.p, i |-> j,
               sof |-> j = 0, key |-> f.key, rfi |-> f.rfi /\ j < f.d,
               parity |-> j >= f.d]
    BY DEF ShardVideoFrame
  <2>2. x.i = j
    BY <2>1
  <2>3. j = i
    BY <1>2, <1>5, <2>2
  <2> QED BY <1>1, <2>1, <2>3
<1>6. f.p = 0 => pkt.rfi = f.rfi
  BY <1>2, <1>3 DEF FrameType
<1> QED BY <1>2, <1>4, <1>5, <1>6

\* A shard of the frame in progress is stored, or makes the frame complete.
LEMMA StoreShard ==
    ASSUME NEW s \in StateType, NEW f \in FrameType, f.d # 0,
           NEW A \in SUBSET ShardVideoFrame(f), InProgress(s, f, A), Early(s, f.idx),
           NEW pkt \in Packets, pkt \in ShardVideoFrame(f), NEW luck
    PROVE  LET h == Store(s, pkt, luck)
           IN  \/ InProgress(h, f, A \cup {pkt}) /\ Early(h, f.idx)
               \/ Complete(h, f)
<1> DEFINE t == Fill(s, pkt)
           h == Store(s, pkt, luck)
<1>1. /\ pkt.d = f.d /\ pkt.p = f.p /\ pkt.idx = f.idx /\ pkt.origin = f.origin
      /\ f.p = 0 => pkt.rfi = f.rfi
      /\ \A x \in ShardVideoFrame(f) : x.i = pkt.i => x = pkt
  BY ShardFacts
<1>2. pkt \in PacketType /\ f.idx \in Nat /\ f.d \in Nat /\ f.p \in Nat
  BY PacketsAssumption DEF FrameType
<1>3. /\ t \in StateType /\ InProgress(t, f, A \cup {pkt})
      /\ t.out = s.out /\ t.needKey = s.needKey
  <2> DEFINE shards == IF Filled(s.asm, pkt.i) THEN s.asm.shards
                       ELSE s.asm.shards \cup {pkt}
             rfi == IF pkt.sof THEN pkt.rfi ELSE s.asm.rfi
             b == [s.asm EXCEPT !.shards = shards, !.rfi = rfi]
  <2>1. shards = A \cup {pkt}
    <3>1. s.asm.shards = A
      BY DEF InProgress
    <3>2. Filled(s.asm, pkt.i) => pkt \in A
      BY <1>1, <3>1 DEF Filled
    <3> QED BY <3>1, <3>2
  <2>2. /\ shards \in SUBSET Packets /\ rfi \in BOOLEAN
        /\ f.p = 0 => rfi = f.rfi
    BY <1>1, <1>2 DEF StateType, AssemblyType, PacketType, InProgress
  <2> HIDE DEF shards, rfi
  <2>3. /\ b \in AssemblyType /\ b.active = s.asm.active /\ b.idx = s.asm.idx
        /\ b.key = s.asm.key /\ b.d = s.asm.d /\ b.p = s.asm.p /\ b.shards = shards
        /\ b.rfi = rfi
    BY <2>2 DEF StateType, AssemblyType
  <2> HIDE DEF b
  <2>4. t = [s EXCEPT !.asm = b]
    BY DEF Fill, b, shards, rfi
  <2> HIDE DEF t
  <2>5. /\ t \in StateType /\ t.asm = b /\ t.finished = s.finished
        /\ t.out = s.out /\ t.needKey = s.needKey
    BY <2>3, <2>4 DEF StateType
  <2> QED BY <2>1, <2>2, <2>3, <2>5 DEF InProgress
<1>4. h = IF AllData(t.asm) \/ EnoughForFec(t.asm) THEN Finish(t, luck) ELSE t
  BY <1>1, <1>2 DEF Store, InProgress
<1>5. Early(t, f.idx)
  BY <1>3 DEF Early
<1> HIDE DEF t, h
<1>6. CASE h = t
  BY <1>3, <1>5, <1>6 DEF h
<1>7. CASE h = Finish(t, luck)
  <2> DEFINE c == CompleteWithStatus(t)
             u == MarkFinished(c, f.idx)
             e == Close(u)
  <2>1. \A x, y \in t.asm.shards : x.origin = y.origin
    <3>1. t.asm.shards \subseteq ShardVideoFrame(f)
      BY <1>3 DEF InProgress
    <3>2. \A x \in ShardVideoFrame(f) : x.origin = f.origin
      BY ShardFacts
    <3> QED BY <3>1, <3>2
  <2>2. /\ t.asm.idx = f.idx /\ t.asm.key = f.key /\ t.finished < f.idx
        /\ f.p = 0 => t.asm.rfi = f.rfi
    BY <1>3 DEF InProgress
  <2>3. h = e
    BY <1>7, <2>1, <2>2 DEF Finish, Usable
  <2>4. /\ c \in StateType /\ c.finished = t.finished
        /\ Anchors(f) => c.last.idx = f.idx /\ ~c.needKey
        /\ ClosedIn(c.out) = ClosedIn(t.out) \cup {f.idx}
        /\ LostIn(c.out) = LostIn(t.out)
    <3>1. /\ c \in StateType /\ c.finished = t.finished
          /\ t.asm.key \/ t.asm.rfi =>
                /\ ~c.needKey
                /\ c.last = [idx |-> t.asm.idx, key |-> t.asm.key, rfi |-> t.asm.rfi]
      BY <1>3, CompleteFields
    <3>2. /\ ClosedIn(c.out) = ClosedIn(t.out) \cup {t.asm.idx}
          /\ LostIn(c.out) = LostIn(t.out)
      BY <1>3, CompleteTally
    <3> QED BY <2>2, <3>1, <3>2 DEF Anchors
  <2> HIDE DEF c
  <2>5. /\ u \in StateType /\ u.needKey = c.needKey /\ u.finished = f.idx
        /\ u.last = c.last
    BY <1>2, <2>2, <2>4, MarkFields
  <2>6. u.out = c.out
    BY <2>4 DEF MarkFinished, StateType
  <2> HIDE DEF u
  <2>7. /\ e \in StateType /\ e.needKey = c.needKey /\ e.finished = f.idx
        /\ e.last = c.last /\ e.asm = Idle
    BY <2>5, CloseFields
  <2>8. e.out = c.out
    BY <2>5, <2>6 DEF Close, StateType
  <2> HIDE DEF e
  <2>9. f.idx \notin LostIn(e.out) /\ \A x \in ClosedIn(e.out) : x <= f.idx
    <3>1. \A x \in ClosedIn(t.out) \cup LostIn(t.out) : x < f.idx
      BY <1>5 DEF Early
    <3>2. \A x \in ClosedIn(t.out) : x <= f.idx
      BY <1>2, <1>3, <3>1, TallyType
    <3> QED BY <1>2, <2>4, <2>8, <3>1, <3>2
  <2>10. Complete(e, f)
    BY <2>4, <2>7, <2>8, <2>9, IdleType DEF Complete, Done
  <2> QED BY <2>3, <2>10 DEF h
<1> QED BY <1>4, <1>6, <1>7

\* The first shard of a frame ends what came before and starts the frame, unless
\* the frame can no longer be started.
LEMMA FirstShard ==
    ASSUME NEW s \in StateType, Good(s), s.out = <<>>,
           NEW f \in FrameType, f.d # 0, s.finished < f.idx,
           s.asm.active => s.asm.idx < f.idx,
           NEW pkt \in Packets, pkt \in ShardVideoFrame(f), NEW luck
    PROVE  LET h == Handle(s, pkt, luck)
           IN  \/ InProgress(h, f, {pkt}) /\ Early(h, f.idx)
               \/ Complete(h, f)
               \/ Missed(h, f)
<1> DEFINE marked == s.finished # Absent
           t == Supersede(s, pkt, luck)
           g == NoteGap(t, pkt, marked)
           b == Begin(t, pkt, marked)
           h == Store(b, pkt, luck)
<1>1. /\ ~Malformed(pkt) /\ pkt.d = f.d /\ pkt.p = f.p
      /\ pkt.idx = f.idx /\ pkt.key = f.key /\ (f.p = 0 => pkt.rfi = f.rfi)
  BY ShardFacts
<1>2. /\ pkt \in PacketType /\ f.idx \in Nat /\ f.d \in Nat /\ f.p \in Nat
      /\ s.finished \in Nat \cup {Absent}
  BY PacketsAssumption DEF FrameType, StateType
<1>3. Handle(s, pkt, luck) = h
  <2>1. ~Late(s, pkt)
    BY <1>1, <1>2 DEF Late, Absent
  <2> QED BY <1>1, <2>1 DEF Handle, Accept
<1>4. Early(s, f.idx)
  BY DEF Early, ClosedIn, LostIn, Named
<1>5. /\ t \in StateType /\ ~t.asm.active /\ t.finished < f.idx /\ Early(t, f.idx)
      /\ (marked => t.finished # Absent)
  <2>1. CASE ~s.asm.active
    <3>1. t = s
      BY <2>1 DEF Supersede
    <3> QED BY <1>4, <2>1, <3>1
  <2>2. CASE s.asm.active
    <3> DEFINE i == s.asm.idx
               u == MarkFinished(DeclareLoss(s, i), i)
    <3>1. i \in Nat /\ i < f.idx
      BY <2>2 DEF StateType, AssemblyType
    <3>2. t = Abandon(s)
      BY <1>1, <1>2, <2>2, <3>1 DEF Supersede, Good, Waiting
    <3>3. Good(t) /\ t.finished = i /\ ~t.asm.active
      BY <2>2, <3>2, AbandonIsGood DEF Good
    <3>4. u \in StateType
      <4>1. DeclareLoss(s, i) \in StateType
        BY <3>1, LossFields
      <4> QED BY <3>1, <4>1, MarkFields
    <3>5. t.out = u.out
      BY <3>2, <3>4 DEF Abandon, Close, StateType
    <3>6. ClosedIn(u.out) = ClosedIn(s.out) \cup {i} /\ LostIn(u.out) = LostIn(s.out) \cup {i}
      BY <3>1, LossTally
    <3>7. Early(t, f.idx)
      BY <1>4, <3>1, <3>5, <3>6 DEF Early
    <3> QED BY <3>1, <3>3, <3>7 DEF Good, Core, Absent
  <2> QED BY <2>1, <2>2
<1> HIDE DEF t, marked
<1>6. g \in StateType /\ ~g.asm.active /\ g.finished < f.idx /\ Early(g, f.idx)
  <2>1. CASE marked /\ pkt.idx > t.finished + 1
    <3> DEFINE i == pkt.idx - 1
               u == DeclareLoss(t, i)
    <3>1. i \in Nat /\ i > t.finished /\ i < f.idx
      BY <1>1, <1>2, <1>5, <2>1 DEF StateType, Absent
    <3>2. g = MarkFinished(u, i)
      BY <2>1 DEF NoteGap
    <3>3. /\ u \in StateType /\ u.asm = t.asm /\ u.finished = t.finished
      BY <1>5, <3>1, LossFields
    <3>4. /\ ClosedIn(g.out) = ClosedIn(t.out) \cup {i}
          /\ LostIn(g.out) = LostIn(t.out) \cup {i}
      BY <1>5, <3>1, <3>2, LossTally
    <3> HIDE DEF u, i, g
    <3>5. g \in StateType /\ g.asm = t.asm /\ g.finished = i
      BY <3>1, <3>2, <3>3, MarkFields
    <3> QED BY <1>5, <3>1, <3>4, <3>5 DEF Early
  <2>2. CASE ~(marked /\ pkt.idx > t.finished + 1)
    BY <1>5, <2>2 DEF NoteGap
  <2> QED BY <2>1, <2>2
<1>7. b = IF pkt.sof \/ pkt.p > 0 THEN [g EXCEPT !.asm = Started(pkt)]
          ELSE MarkFinished(DeclareLoss(g, pkt.idx), pkt.idx)
  BY <1>5 DEF Begin
<1> HIDE DEF g, b
<1>8. CASE pkt.sof \/ pkt.p > 0
  <2> DEFINE a == Started(pkt)
  <2>1. /\ a \in AssemblyType /\ a.active /\ a.idx = pkt.idx /\ a.key = pkt.key
        /\ a.d = pkt.d /\ a.p = pkt.p /\ a.shards = {} /\ a.rfi = pkt.rfi
    BY <1>2 DEF Started, AssemblyType, PacketType
  <2>2. b = [g EXCEPT !.asm = a]
    BY <1>7, <1>8
  <2> HIDE DEF a
  <2>3. b \in StateType /\ b.asm = a /\ b.finished = g.finished /\ b.out = g.out
    BY <1>6, <2>1, <2>2 DEF StateType
  <2>4. InProgress(b, f, {}) /\ Early(b, f.idx)
    BY <1>1, <1>6, <2>1, <2>3 DEF InProgress, Early
  <2>5. (InProgress(h, f, {} \cup {pkt}) /\ Early(h, f.idx)) \/ Complete(h, f)
    BY <2>3, <2>4, StoreShard
  <2>6. {} \cup {pkt} = {pkt}
    OBVIOUS
  <2> HIDE DEF h
  <2> QED BY <1>3, <2>5, <2>6
<1>9. CASE ~(pkt.sof \/ pkt.p > 0)
  <2> DEFINE u == DeclareLoss(g, f.idx)
  <2>1. b = MarkFinished(u, f.idx)
    BY <1>1, <1>7, <1>9
  <2>2. u \in StateType /\ u.asm = g.asm /\ u.finished = g.finished
    BY <1>2, <1>6, LossFields
  <2>3. /\ ClosedIn(b.out) = ClosedIn(g.out) \cup {f.idx}
        /\ LostIn(b.out) = LostIn(g.out) \cup {f.idx}
    BY <1>2, <1>6, <2>1, LossTally
  <2> HIDE DEF u
  <2>4. b.asm = g.asm /\ b.finished = f.idx
    BY <1>2, <1>6, <2>1, <2>2, MarkFields
  <2>5. h = b
    BY <1>6, <2>4 DEF Store
  <2>6. f.p = 0
    BY <1>1, <1>2, <1>9
  <2>7. \A x \in ClosedIn(b.out) : x <= f.idx
    <3>1. \A x \in ClosedIn(g.out) : x \in Nat /\ x < f.idx
      BY <1>6, TallyType DEF Early
    <3>2. \A x \in ClosedIn(g.out) : x <= f.idx
      BY <1>2, <3>1
    <3> QED BY <1>2, <2>3, <3>2
  <2>8. Missed(b, f)
    BY <1>6, <2>3, <2>4, <2>6, <2>7 DEF Missed, Done
  <2> QED BY <1>3, <2>5, <2>8
<1> QED BY <1>8, <1>9

\* A further shard of the frame in progress touches nothing else.
LEMMA NextShard ==
    ASSUME NEW s \in StateType, s.out = <<>>, NEW f \in FrameType, f.d # 0,
           NEW A \in SUBSET ShardVideoFrame(f), InProgress(s, f, A),
           NEW pkt \in Packets, pkt \in ShardVideoFrame(f), NEW luck
    PROVE  LET h == Handle(s, pkt, luck)
           IN  \/ InProgress(h, f, A \cup {pkt}) /\ Early(h, f.idx)
               \/ Complete(h, f)
<1>1. ~Malformed(pkt) /\ pkt.idx = f.idx
  BY ShardFacts
<1>2. s.finished \in Nat \cup {Absent} /\ f.idx \in Nat
  BY DEF StateType, FrameType
<1>3. ~Late(s, pkt)
  BY <1>1, <1>2 DEF Late, Absent, InProgress
<1>4. Supersede(s, pkt, luck) = s
  BY <1>1, <1>2 DEF Supersede, InProgress
<1>5. Begin(s, pkt, s.finished # Absent) = s
  BY DEF Begin, InProgress
<1>6. Handle(s, pkt, luck) = Store(s, pkt, luck)
  BY <1>1, <1>3, <1>4, <1>5 DEF Handle, Accept
<1>7. Early(s, f.idx)
  BY DEF Early, ClosedIn, LostIn, Named
<1> QED BY <1>6, <1>7, StoreShard

\* A shard of a closed frame is passed over.
LEMMA LateShard ==
    ASSUME NEW s \in StateType, NEW f \in FrameType, f.d # 0, s.finished = f.idx,
           NEW pkt \in Packets, pkt \in ShardVideoFrame(f), NEW luck
    PROVE  Handle(s, pkt, luck) = s
<1>1. pkt.idx = f.idx /\ f.idx \in Nat
  BY ShardFacts DEF FrameType
<1>2. Late(s, pkt) /\ ~NewStream(s, pkt)
  BY <1>1 DEF Late, NewStream, Absent
<1> QED BY <1>2 DEF Handle

-----------------------------------------------------------------------------
\* A frame that is given up, or finished, is no longer in progress.
LEMMA EndsIdle ==
    ASSUME NEW s \in StateType, NEW luck
    PROVE  ~Abandon(s).asm.active /\ ~Finish(s, luck).asm.active
<1>1. s.asm.idx \in Nat
  BY DEF StateType, AssemblyType
<1>2. ~Abandon(s).asm.active
  <2> DEFINE l == DeclareLoss(s, s.asm.idx)
             u == MarkFinished(l, s.asm.idx)
  <2>1. l \in StateType
    BY <1>1, LossFields
  <2> HIDE DEF l
  <2>2. u \in StateType
    BY <1>1, <2>1, MarkFields
  <2> HIDE DEF u
  <2>3. Close(u).asm = Idle
    BY <2>2, CloseFields
  <2> QED BY <2>3, IdleType DEF Abandon, u, l
<1>3. ~Close(MarkFinished(CompleteWithStatus(s), s.asm.idx)).asm.active
  <2> DEFINE c == CompleteWithStatus(s)
             u == MarkFinished(c, s.asm.idx)
  <2>1. c \in StateType
    BY CompleteFields
  <2> HIDE DEF c
  <2>2. u \in StateType
    BY <1>1, <2>1, MarkFields
  <2> HIDE DEF u
  <2>3. Close(u).asm = Idle
    BY <2>2, CloseFields
  <2> QED BY <2>3, IdleType DEF u, c
<1> QED BY <1>2, <1>3 DEF Finish

\* Giving up a frame leaves a state of the receiver.
LEMMA AbandonType ==
    ASSUME NEW s \in StateType
    PROVE  Abandon(s) \in StateType
<1> DEFINE l == DeclareLoss(s, s.asm.idx)
           u == MarkFinished(l, s.asm.idx)
<1>1. s.asm.idx \in Nat
  BY DEF StateType, AssemblyType
<1>2. l \in StateType
  BY <1>1, LossFields
<1> HIDE DEF l
<1>3. u \in StateType
  BY <1>1, <1>2, MarkFields
<1> HIDE DEF u
<1>4. Close(u) \in StateType
  BY <1>3, CloseFields
<1> QED BY <1>4 DEF Abandon, u, l

\* After a packet the frame in progress is the packet's, or the one before it.
LEMMA AcceptKeepsFrame ==
    ASSUME NEW s \in StateType, Waiting(s), NEW pkt \in Packets, NEW luck
    PROVE  LET a == Accept(s, pkt, luck).asm
           IN  a.active => a.idx = pkt.idx \/ (s.asm.active /\ a.idx = s.asm.idx)
<1> DEFINE marked == s.finished # Absent
           t == Supersede(s, pkt, luck)
           b == Begin(t, pkt, marked)
           r == Store(b, pkt, luck)
           From(u) == u.asm.active => \/ u.asm.idx = pkt.idx
                                      \/ s.asm.active /\ u.asm.idx = s.asm.idx
<1>1. pkt \in PacketType /\ pkt.idx \in Nat /\ pkt.idx - 1 \in Int
  BY PacketsAssumption DEF PacketType
<1>2. t \in StateType /\ From(t)
  <2>1. CASE t = s
    BY <2>1
  <2>2. CASE t # s
    <3>1. s.asm.active /\ t = Abandon(s)
      BY <2>2 DEF Supersede, Waiting
    <3>2. Abandon(s) \in StateType
      BY AbandonType
    <3> QED BY <3>1, <3>2, EndsIdle
  <2> QED BY <2>1, <2>2
<1> HIDE DEF t, marked
<1>3. b \in StateType /\ From(b)
  <2>1. CASE t.asm.active
    BY <1>2, <2>1 DEF Begin
  <2>2. CASE ~t.asm.active
    <3> DEFINE g == NoteGap(t, pkt, marked)
               u == DeclareLoss(g, pkt.idx)
    <3>1. g \in StateType /\ g.asm = t.asm
      <4> DEFINE i == pkt.idx - 1
                 l == DeclareLoss(t, i)
      <4>1. CASE marked /\ pkt.idx > t.finished + 1
        <5>1. i \in Nat
          BY <1>1, <1>2, <4>1 DEF StateType, Absent
        <5>2. l \in StateType /\ l.asm = t.asm
          BY <1>2, <5>1, LossFields
        <5>3. g = MarkFinished(l, i)
          BY <4>1 DEF NoteGap
        <5> HIDE DEF l, i
        <5> QED BY <5>1, <5>2, <5>3, MarkFields
      <4>2. CASE ~(marked /\ pkt.idx > t.finished + 1)
        BY <1>2, <4>2 DEF NoteGap
      <4> QED BY <4>1, <4>2
    <3> HIDE DEF g
    <3>2. b = IF pkt.sof \/ pkt.p > 0 THEN [g EXCEPT !.asm = Started(pkt)]
              ELSE MarkFinished(u, pkt.idx)
      BY <2>2 DEF Begin, g
    <3>3. Started(pkt) \in AssemblyType /\ Started(pkt).idx = pkt.idx
      BY <1>1 DEF Started, AssemblyType, PacketType
    <3>4. CASE pkt.sof \/ pkt.p > 0
      <4>1. b = [g EXCEPT !.asm = Started(pkt)]
        BY <3>2, <3>4
      <4>2. b \in StateType /\ b.asm = Started(pkt)
        BY <3>1, <3>3, <4>1 DEF StateType
      <4> QED BY <3>3, <4>2
    <3>5. CASE ~(pkt.sof \/ pkt.p > 0)
      <4>1. u \in StateType /\ u.asm = g.asm
        BY <1>1, <3>1, LossFields
      <4> HIDE DEF u
      <4>2. b \in StateType /\ b.asm = u.asm
        BY <1>1, <3>2, <3>5, <4>1, MarkFields
      <4> QED BY <2>2, <3>1, <4>1, <4>2
    <3> QED BY <3>4, <3>5
  <2> QED BY <2>1, <2>2
<1> HIDE DEF b
<1>4. From(r)
  <2> DEFINE a == b.asm
             shards == IF Filled(a, pkt.i) THEN a.shards ELSE a.shards \cup {pkt}
             rfi == IF pkt.sof THEN pkt.rfi ELSE a.rfi
             f == Fill(b, pkt)
  <2>1. shards \in SUBSET Packets /\ rfi \in BOOLEAN
    BY <1>1, <1>3 DEF StateType, AssemblyType, PacketType
  <2> HIDE DEF shards, rfi
  <2>2. f \in StateType /\ f.asm.active = a.active /\ f.asm.idx = a.idx
    <3> DEFINE c == [a EXCEPT !.shards = shards, !.rfi = rfi]
    <3>1. c \in AssemblyType /\ c.active = a.active /\ c.idx = a.idx
      BY <1>3, <2>1 DEF StateType, AssemblyType
    <3>2. f = [b EXCEPT !.asm = c]
      BY DEF Fill, shards, rfi
    <3> HIDE DEF c, f
    <3> QED BY <1>3, <3>1, <3>2 DEF StateType
  <2> HIDE DEF f, a
  <2>3. r = b \/ r = Abandon(b) \/ r = f \/ r = Finish(f, luck)
    BY DEF Store, f
  <2>4. ~Abandon(b).asm.active /\ ~Finish(f, luck).asm.active
    BY <1>3, <2>2, EndsIdle
  <2> HIDE DEF r
  <2> QED BY <1>3, <2>2, <2>3, <2>4 DEF a
<1> QED BY <1>4 DEF Accept, b, t, marked

(***************************************************************************)
(* A packet with a number up to top moves nothing above top: neither the    *)
(* mark, nor the frame in progress, nor what is reported.                   *)
(***************************************************************************)
UpTo(s, top) ==
    s.finished <= top /\ (s.asm.active => s.asm.idx <= top)

LEMMA AcceptUpTo ==
    ASSUME NEW s \in StateType, s.out = <<>>, NEW pkt \in Packets, NEW luck,
           Core(s), Waiting(s), Restarted(s, pkt.sof /\ pkt.key),
           s.finished < pkt.idx, pkt.d # 0,
           NEW top \in Nat, UpTo(s, top), pkt.idx <= top
    PROVE  LET h == Accept(s, pkt, luck)
           IN  UpTo(h, top) /\ \A x \in ClosedIn(h.out) : x <= top
<1> DEFINE h == Accept(s, pkt, luck)
<1>1. s.finished \in Nat \cup {Absent} /\ pkt.idx \in Nat
  BY PacketsAssumption DEF StateType, PacketType
<1>2. Told(s, s.finished)
  BY <1>1 DEF Told, Rising, Once, Absent
<1>3. Told(h, s.finished) /\ h.finished <= pkt.idx
  BY <1>1, <1>2, AcceptTold
<1>4. h \in StateType
  BY AcceptIsGood DEF Good, Core
<1>5. h.asm.active => h.asm.idx = pkt.idx \/ (s.asm.active /\ h.asm.idx = s.asm.idx)
  BY AcceptKeepsFrame
<1> HIDE DEF h
<1>6. h.finished \in Nat \cup {Absent} /\ h.finished <= top
  BY <1>1, <1>3, <1>4 DEF StateType, Absent
<1>7. \A n \in DOMAIN h.out : h.out[n].idx \in Nat /\ h.out[n].idx <= h.finished
  <2>1. \A n \in DOMAIN h.out : h.out[n] \in CallbackType
    BY <1>4 DEF StateType
  <2>2. \A n \in DOMAIN h.out : h.out[n].idx <= h.finished
    BY <1>3 DEF Told, Rising
  <2> QED BY <2>1, <2>2 DEF CallbackType
<1>8. \A n \in DOMAIN h.out : h.out[n].idx <= top
  BY <1>6, <1>7 DEF Absent
<1>9. \A x \in ClosedIn(h.out) : x <= top
  BY <1>8 DEF ClosedIn, Named
<1>10. UpTo(h, top)
  BY <1>5, <1>6 DEF UpTo
<1> QED BY <1>9, <1>10 DEF h

LEMMA HandleUpTo ==
    ASSUME NEW s \in StateType, Good(s), s.out = <<>>, NEW pkt \in Packets, NEW luck,
           NEW top \in Nat, UpTo(s, top), pkt.idx <= top
    PROVE  LET h == Handle(s, pkt, luck)
           IN  UpTo(h, top) /\ \A x \in ClosedIn(h.out) : x <= top
<1>1. /\ pkt.idx \in Nat /\ pkt.sof \in BOOLEAN /\ pkt.key \in BOOLEAN
      /\ s.finished \in Nat \cup {Absent}
  BY PacketsAssumption DEF PacketType, StateType
<1>2. CASE Handle(s, pkt, luck) = s
  BY <1>2 DEF ClosedIn, Named
<1>3. CASE ~Malformed(pkt) /\ ~Late(s, pkt)
  <2>1. pkt.d # 0 /\ s.finished < pkt.idx
    BY <1>1, <1>3 DEF Malformed, Late, Absent
  <2>2. Restarted(s, pkt.sof /\ pkt.key)
    BY DEF Good, Restarted
  <2>3. /\ UpTo(Accept(s, pkt, luck), top)
        /\ \A x \in ClosedIn(Accept(s, pkt, luck).out) : x <= top
    BY <2>1, <2>2, AcceptUpTo DEF Good
  <2> QED BY <1>3, <2>3 DEF Handle
<1>4. CASE ~Malformed(pkt) /\ Late(s, pkt) /\ NewStream(s, pkt)
  <2> DEFINE t == Forget(s)
  <2>1. /\ t \in StateType /\ t.asm = Idle /\ ~t.needKey /\ t.out = <<>>
        /\ t.finished = Absent /\ t.last = s.last /\ t.prev = s.prev
    BY IdleType DEF Forget, StateType
  <2> HIDE DEF t
  <2>2. Core(t) /\ Waiting(t) /\ Restarted(t, pkt.sof /\ pkt.key)
    BY <1>4, <2>1, IdleType
    DEF Good, Core, Synced, Chained, Newer, Adjacent, Restarted, Waiting, NewStream
  <2>3. pkt.d # 0 /\ t.finished < pkt.idx /\ UpTo(t, top)
    BY <1>1, <1>4, <2>1, IdleType DEF Malformed, Absent, UpTo
  <2>4. /\ UpTo(Accept(t, pkt, luck), top)
        /\ \A x \in ClosedIn(Accept(t, pkt, luck).out) : x <= top
    BY <2>1, <2>2, <2>3, AcceptUpTo
  <2> QED BY <1>4, <2>4 DEF Handle, t
<1> QED BY <1>2, <1>3, <1>4 DEF Handle

-----------------------------------------------------------------------------
(***************************************************************************)
(* The inductive invariant.  Up to the old numbers the receiver may be in   *)
(* any good state; past them it is known what the newest frame's packets    *)
(* have led to.                                                             *)
(***************************************************************************)
WholeUpTo(top) == \A x \in whole : x <= top

OldNews == UpTo(rx, oldTop) /\ WholeUpTo(oldTop)

Unseen ==
    /\ arrived = {}
    /\ UpTo(rx, frame.idx - 1)
    /\ WholeUpTo(frame.idx - 1)

Coming == InProgress(rx, frame, arrived) /\ WholeUpTo(frame.idx - 1)

Closed ==
    /\ Done(rx, frame)
    /\ WholeUpTo(frame.idx)
    /\ frame.idx \in whole /\ Anchors(frame) => last.idx = frame.idx /\ ~needKey
    /\ frame.idx \notin whole => frame.p = 0

Newest == arrived \subseteq ShardVideoFrame(frame) /\ (Unseen \/ Coming \/ Closed)

FrameOK ==
    \/ frame = NotSent
    \/ /\ frame \in FrameType
       /\ frame.origin = run
       /\ frame.idx < MaxFrames
       /\ <<frame.d, frame.p>> \in Shapes

WireOK ==
    /\ wire \in Seq(SUBSET Packets)
    /\ \A n \in DOMAIN wire : \A pkt \in wire[n] :
          IF frame = NotSent THEN pkt.idx <= oldTop ELSE pkt \in ShardVideoFrame(frame)

\* As long as no restart was hidden, what has a status is not above the mark.
ToldOnce == Undisturbed => again = {} /\ \A x \in told : x <= finished

ChanInv ==
    /\ IInv
    /\ told \subseteq Nat
    /\ ToldOnce
    /\ run \in 1 .. MaxRuns
    /\ oldTop \in Nat \cup {Absent}
    /\ whole \subseteq Nat
    /\ FrameOK
    /\ WireOK
    /\ frame.idx <= oldTop => OldNews
    /\ frame.idx > oldTop => Newest

-----------------------------------------------------------------------------
\* A frame that was sent has data shards, and all its packets are possible ones.
LEMMA SentFrame ==
    ASSUME ChanInv, frame # NotSent
    PROVE  /\ frame \in FrameType /\ frame.idx \in Nat /\ frame.d # 0 /\ frame.d \in Nat
           /\ frame.p \in Nat /\ frame.origin = run
BY ChannelAssumption DEF ChanInv, FrameOK, FrameType

\* A run that has sent nothing has nothing to be seen past the old numbers.
LEMMA NothingSent ==
    ASSUME ChanInv, frame = NotSent
    PROVE  frame.idx = Absent /\ frame.idx <= oldTop
BY DEF ChanInv, NotSent, Absent

\* Whatever has become of the newest frame, it is the newest the receiver knows.
LEMMA NewestIsTop ==
    ASSUME ChanInv, frame.idx > oldTop
    PROVE  UpTo(rx, frame.idx) /\ WholeUpTo(frame.idx)
<1>1. frame # NotSent
  BY NothingSent DEF ChanInv, Absent
<1>2. frame.idx \in Nat /\ whole \subseteq Nat /\ Newest
  BY <1>1, SentFrame DEF ChanInv
<1>3. rx.finished \in Nat \cup {Absent} /\ rx.asm.idx \in Nat
  BY DEF ChanInv, IInv, Good, Core, StateType, AssemblyType
<1>4. CASE Unseen
  BY <1>2, <1>3, <1>4 DEF Unseen, UpTo, WholeUpTo, Absent
<1>5. CASE Coming
  BY <1>2, <1>3, <1>5 DEF Coming, InProgress, UpTo, WholeUpTo, Absent
<1>6. CASE Closed
  BY <1>2, <1>3, <1>6 DEF Closed, Done, UpTo, WholeUpTo
<1> QED BY <1>2, <1>4, <1>5, <1>6 DEF Newest

\* Nothing is known of a run that has not begun to send.
LEMMA InitChannel == ChannelInit => ChanInv
<1> SUFFICES ASSUME ChannelInit PROVE ChanInv
  OBVIOUS
<1>1. IInv
  BY InitHolds DEF ChannelInit
<1>2. run \in 1 .. MaxRuns
  BY ChannelAssumption DEF ChannelInit
<1>3. WireOK
  <2>1. wire = <<>> /\ DOMAIN wire = {}
    BY DEF ChannelInit
  <2> QED BY <2>1 DEF WireOK
<1>4. OldNews
  BY IdleType DEF ChannelInit, Init, OldNews, UpTo, WholeUpTo, rx, Absent
<1>5. ~(frame.idx > oldTop)
  BY DEF ChannelInit, NotSent, Absent
<1> QED BY <1>1, <1>2, <1>3, <1>4, <1>5 DEF ChanInv, ChannelInit, FrameOK, ToldOnce

\* With one burst on the wire, a new frame's packets drive out the others.
LEMMA OneBurst ==
    ASSUME Lag = 0, NEW bursts \in Seq(SUBSET Packets), NEW burst \in SUBSET Packets
    PROVE  /\ Recent(Append(bursts, burst)) \in Seq(SUBSET Packets)
           /\ LET w == Recent(Append(bursts, burst))
              IN  \A n \in DOMAIN w : w[n] = burst
<1> DEFINE b == Append(bursts, burst)
           l == Len(b)
           w == Recent(b)
<1>1. /\ b \in Seq(SUBSET Packets) /\ l \in Nat \ {0} /\ DOMAIN b = 1 .. l
      /\ b[l] = burst
  BY AppendProperties
<1> HIDE DEF b, l
<1>2. w = SubSeq(b, l, l)
  <2>1. (IF l > Lag + 1 THEN l - Lag ELSE 1) = l
    BY <1>1
  <2> QED BY <2>1, Zenon DEF Recent, l
<1>3. \A i \in l .. l : b[i] \in SUBSET Packets
  BY <1>1
<1>4. /\ SubSeq(b, l, l) \in Seq(SUBSET Packets)
      /\ Len(SubSeq(b, l, l)) = (IF l <= l THEN l - l + 1 ELSE 0)
      /\ \A i \in 1 .. l - l + 1 : SubSeq(b, l, l)[i] = b[l + i - 1]
  <2> DEFINE P(m, n) ==
        /\ SubSeq(b, m, n) \in Seq(SUBSET Packets)
        /\ Len(SubSeq(b, m, n)) = (IF m <= n THEN n - m + 1 ELSE 0)
        /\ \A i \in 1 .. n - m + 1 : SubSeq(b, m, n)[i] = b[m + i - 1]
  <2>1. ASSUME NEW m \in Int, NEW n \in Int, \A i \in m .. n : b[i] \in SUBSET Packets
        PROVE  P(m, n)
    BY <2>1, SubSeqProperties
  <2>2. l \in Int
    BY <1>1
  <2> HIDE DEF P
  <2>3. P(l, l)
    BY <1>3, <2>1, <2>2
  <2> QED BY <2>3 DEF P
<1> HIDE DEF w
<1>5. w \in Seq(SUBSET Packets) /\ Len(w) = 1 /\ w[1] = burst
  BY <1>1, <1>2, <1>4
<1>6. DOMAIN w = {1}
  BY <1>5
<1> QED BY <1>5, <1>6 DEF w, b

\* The render sends the next frame: nobody has seen any of it.
LEMMA SendStep ==
    ASSUME ChanInv, Lag = 0, NEW key \in BOOLEAN, NEW rfi \in BOOLEAN,
           NEW shape \in Shapes, Send(key, rfi, shape)
    PROVE  ChanInv'
<1>1. /\ asm' = asm /\ finished' = finished /\ needKey' = needKey /\ last' = last
      /\ prev' = prev /\ out' = <<>> /\ run' = run /\ oldTop' = oldTop
      /\ whole' = whole /\ arrived' = {} /\ rx' = rx /\ told' = told /\ again' = again
  BY DEF Send, rx
<1>2. IInv'
  BY <1>1 DEF ChanInv, IInv
<1>3. /\ run \in Nat /\ run \in 1 .. MaxRuns /\ MaxRuns \in Nat /\ MaxFrames \in Nat
      /\ shape[1] \in Nat \ {0} /\ shape[2] \in Nat /\ shape = <<shape[1], shape[2]>>
      /\ oldTop \in Nat \cup {Absent}
  BY ChannelAssumption DEF ChanInv
<1>4. frame.idx \in Nat \cup {Absent}
  BY SentFrame, NothingSent
<1> DEFINE i == frame.idx + 1
           f == [origin |-> run, idx |-> i, key |-> key, rfi |-> rfi,
                 d |-> shape[1], p |-> shape[2]]
<1>5. i \in 0 .. MaxFrames - 1 /\ i \in Nat /\ i < MaxFrames /\ i - 1 = frame.idx
  BY <1>3, <1>4 DEF Send, Absent
<1>6. frame' = f /\ wire' = Recent(Append(wire, ShardVideoFrame(f)))
  BY DEF Send
<1> HIDE DEF i
<1>7. /\ f \in FrameType /\ f.idx = i /\ f.origin = run
      /\ f.d = shape[1] /\ f.p = shape[2]
  BY <1>3, <1>5 DEF FrameType
<1>8. ShardVideoFrame(f) \subseteq Packets
  BY <1>3, <1>5, PacketsOfFrames
<1> HIDE DEF f
<1>9. frame' # NotSent
  BY <1>5, <1>6, <1>7 DEF NotSent, Absent
<1>10. FrameOK'
  BY <1>1, <1>3, <1>5, <1>6, <1>7 DEF FrameOK
<1>11. WireOK'
  <2>1. wire \in Seq(SUBSET Packets)
    BY DEF ChanInv, WireOK
  <2>2. wire' \in Seq(SUBSET Packets) /\ \A n \in DOMAIN wire' : wire'[n] = ShardVideoFrame(f)
    BY <1>6, <1>8, <2>1, OneBurst
  <2> QED BY <1>6, <1>9, <2>2 DEF WireOK
<1>12. frame'.idx <= oldTop' => OldNews'
  <2> SUFFICES ASSUME i <= oldTop PROVE OldNews'
    BY <1>1, <1>6, <1>7
  <2>1. frame.idx <= oldTop
    BY <1>3, <1>4, <1>5 DEF Absent
  <2> QED BY <1>1, <2>1 DEF ChanInv, OldNews, UpTo, WholeUpTo
<1>13. frame'.idx > oldTop' => Newest'
  <2> SUFFICES ASSUME i > oldTop PROVE Newest'
    BY <1>1, <1>6, <1>7
  <2>1. UpTo(rx, frame.idx) /\ WholeUpTo(frame.idx)
    <3>1. CASE frame.idx > oldTop
      BY <3>1, NewestIsTop
    <3>2. CASE frame.idx = oldTop
      BY <3>2, <1>4 DEF ChanInv, OldNews, Absent
    <3> QED BY <1>3, <1>4, <1>5, <3>1, <3>2 DEF Absent
  <2>2. frame'.idx - 1 = frame.idx
    BY <1>5, <1>6, <1>7
  <2>3. Unseen'
    BY <1>1, <2>1, <2>2 DEF Unseen, UpTo, WholeUpTo
  <2> QED BY <1>1, <2>3 DEF Newest
<1>14. ToldOnce'
  BY <1>1 DEF ChanInv, ToldOnce, Undisturbed
<1> QED BY <1>1, <1>2, <1>3, <1>10, <1>11, <1>12, <1>13, <1>14 DEF ChanInv

\* A silent restart makes old news of all that was sent.
LEMMA SilentStep ==
    ASSUME ChanInv, SilentRestart
    PROVE  ChanInv'
<1>1. /\ asm' = asm /\ finished' = finished /\ needKey' = needKey /\ last' = last
      /\ prev' = prev /\ out' = <<>> /\ run' = run + 1 /\ run < MaxRuns
      /\ whole' = {} /\ rx' = rx /\ wire' = wire /\ frame' = NotSent /\ told' = {}
      /\ frame # NotSent
      /\ oldTop' = IF frame.idx > oldTop THEN frame.idx ELSE oldTop
  BY DEF SilentRestart, NewRun, rx
<1>2. IInv'
  BY <1>1 DEF ChanInv, IInv
<1>3. /\ run' \in 1 .. MaxRuns /\ oldTop \in Nat \cup {Absent}
      /\ frame.idx \in Nat /\ frame \in FrameType /\ frame.d # 0
  BY <1>1, SentFrame, ChannelAssumption DEF ChanInv
<1>4. oldTop' \in Nat /\ frame.idx <= oldTop'
  BY <1>1, <1>3 DEF Absent
<1>5. WireOK'
  <2>1. ASSUME NEW n \in DOMAIN wire, NEW pkt \in wire[n]
        PROVE  pkt.idx <= oldTop'
    <3>1. pkt \in ShardVideoFrame(frame)
      BY <1>1 DEF ChanInv, WireOK
    <3>2. pkt.idx = frame.idx
      BY <1>3, <3>1, ShardFacts
    <3> QED BY <1>4, <3>2
  <2> QED BY <1>1, <2>1 DEF ChanInv, WireOK
<1>6. UpTo(rx, oldTop')
  <2>1. CASE frame.idx > oldTop
    BY <1>1, <2>1, NewestIsTop
  <2>2. CASE frame.idx <= oldTop
    BY <1>1, <1>3, <2>2 DEF ChanInv, OldNews, Absent
  <2> QED BY <1>3, <2>1, <2>2 DEF Absent
<1>7. OldNews'
  BY <1>1, <1>6 DEF OldNews, UpTo, WholeUpTo
<1>8. ~(frame'.idx > oldTop')
  BY <1>1, <1>4 DEF NotSent, Absent
<1>9. ToldOnce'
  BY <1>4 DEF ToldOnce, Undisturbed, Absent
<1> QED BY <1>1, <1>2, <1>3, <1>4, <1>5, <1>7, <1>8, <1>9 DEF ChanInv, FrameOK

\* A reconnect starts from nothing.
LEMMA ReconnectStep ==
    ASSUME ChanInv, Reconnect
    PROVE  ChanInv'
<1>1. /\ asm' = Idle /\ finished' = Absent /\ whole' = {} /\ wire' = <<>>
      /\ told' = {} /\ again' = {}
      /\ frame' = NotSent /\ oldTop' = Absent /\ run' = run + 1 /\ run < MaxRuns
      /\ Reset
  BY DEF Reconnect, NewRun, Reset
<1>2. IInv'
  BY <1>1, NextHolds DEF ChanInv, Next
<1>3. run' \in 1 .. MaxRuns
  BY <1>1, ChannelAssumption DEF ChanInv
<1>4. WireOK'
  <2>1. wire' \in Seq(SUBSET Packets) /\ DOMAIN wire' = {}
    BY <1>1
  <2> QED BY <2>1 DEF WireOK
<1>5. OldNews'
  BY <1>1, IdleType DEF OldNews, UpTo, WholeUpTo, rx, Absent
<1>6. ~(frame'.idx > oldTop')
  BY <1>1 DEF NotSent, Absent
<1> QED BY <1>1, <1>2, <1>3, <1>4, <1>5, <1>6 DEF ChanInv, FrameOK, ToldOnce

\* A packet of the newest frame brings it forward, past the old numbers.
LEMMA NewestStep ==
    ASSUME ChanInv, frame.idx > oldTop, NEW pkt \in Packets,
           pkt \in ShardVideoFrame(frame), NEW luck \in BOOLEAN,
           LET h == Handle(rx, pkt, luck)
           IN  /\ asm' = h.asm /\ finished' = h.finished /\ needKey' = h.needKey
               /\ out' = h.out /\ last' = h.last /\ prev' = h.prev,
           arrived' = arrived \cup {pkt}, frame' = frame,
           whole' = whole \cup (ClosedIn(out') \ LostIn(out'))
    PROVE  Newest'
<1> DEFINE h == Handle(rx, pkt, luck)
<1>1. /\ frame # NotSent /\ frame \in FrameType /\ frame.idx \in Nat /\ frame.d # 0
      /\ whole \subseteq Nat /\ Newest
  <2>1. frame # NotSent
    BY NothingSent DEF ChanInv, Absent
  <2> QED BY <2>1, SentFrame DEF ChanInv
<1>2. /\ rx \in StateType /\ Good(rx) /\ rx.out = <<>>
      /\ rx.finished \in Nat \cup {Absent} /\ rx.asm.idx \in Nat
  BY DEF ChanInv, IInv, Good, Core, rx, StateType, AssemblyType
<1>3. h \in StateType
  BY <1>2, HandleIsGood DEF Good, Core
<1>4. /\ rx'.asm = h.asm /\ rx'.finished = h.finished /\ out' = h.out
      /\ needKey' = h.needKey /\ last' = h.last
      /\ whole' = whole \cup (ClosedIn(h.out) \ LostIn(h.out))
  BY DEF rx
<1> HIDE DEF h
<1>5. arrived' \subseteq ShardVideoFrame(frame')
  BY <1>1 DEF Newest
<1>6. ClosedIn(h.out) \subseteq Nat
  BY <1>3, TallyType
<1>7. ASSUME InProgress(h, frame, arrived'), Early(h, frame.idx), WholeUpTo(frame.idx - 1)
      PROVE  Coming'
  <2>1. \A x \in ClosedIn(h.out) : x <= frame.idx - 1
    BY <1>1, <1>6, <1>7 DEF Early
  <2>2. WholeUpTo(frame.idx - 1)'
    BY <1>4, <1>7, <2>1 DEF WholeUpTo
  <2> QED BY <1>4, <1>7, <2>2 DEF Coming, InProgress
<1>8. ASSUME Complete(h, frame), WholeUpTo(frame.idx)
      PROVE  Closed'
  <2>1. WholeUpTo(frame.idx)'
    BY <1>4, <1>8 DEF WholeUpTo, Complete
  <2>2. frame'.idx \in whole'
    BY <1>4, <1>8 DEF Complete
  <2>3. Done(rx, frame)'
    BY <1>4, <1>8 DEF Complete, Done
  <2> QED BY <1>4, <1>8, <2>1, <2>2, <2>3 DEF Closed, Complete
<1>9. ASSUME Missed(h, frame), WholeUpTo(frame.idx - 1)
      PROVE  Closed'
  <2>1. frame.idx \notin whole
    BY <1>1, <1>9 DEF WholeUpTo
  <2>2. frame'.idx \notin whole' /\ frame'.p = 0
    BY <1>4, <1>9, <2>1 DEF Missed
  <2>3. WholeUpTo(frame.idx)
    BY <1>1, <1>9 DEF WholeUpTo
  <2>4. WholeUpTo(frame.idx)'
    BY <1>4, <1>9, <2>3 DEF WholeUpTo, Missed
  <2>5. Done(rx, frame)'
    BY <1>4, <1>9 DEF Missed, Done
  <2> QED BY <2>2, <2>4, <2>5 DEF Closed
<1>10. WholeUpTo(frame.idx - 1) => WholeUpTo(frame.idx)
  BY <1>1 DEF WholeUpTo
<1>11. CASE Unseen
  <2>1. rx.finished < frame.idx /\ (rx.asm.active => rx.asm.idx < frame.idx)
    BY <1>1, <1>2, <1>11 DEF Unseen, UpTo, Absent
  <2>2. \/ InProgress(h, frame, {pkt}) /\ Early(h, frame.idx)
        \/ Complete(h, frame)
        \/ Missed(h, frame)
    BY <1>1, <1>2, <2>1, FirstShard DEF h
  <2>3. arrived' = {pkt}
    BY <1>11 DEF Unseen
  <2> QED BY <1>5, <1>7, <1>8, <1>9, <1>10, <1>11, <2>2, <2>3 DEF Newest, Unseen
<1>12. CASE Coming
  <2>1. arrived \in SUBSET ShardVideoFrame(frame) /\ InProgress(rx, frame, arrived)
    BY <1>1, <1>12 DEF Newest, Coming
  <2>2. \/ InProgress(h, frame, arrived \cup {pkt}) /\ Early(h, frame.idx)
        \/ Complete(h, frame)
    BY <1>1, <1>2, <2>1, NextShard DEF h
  <2> QED BY <1>5, <1>7, <1>8, <1>10, <1>12, <2>2 DEF Newest, Coming
<1>13. CASE Closed
  <2>1. rx.finished = frame.idx
    BY <1>13 DEF Closed, Done
  <2>2. h = rx
    BY <1>1, <1>2, <2>1, LateShard DEF h
  <2>3. ClosedIn(h.out) = {}
    BY <1>2, <2>2 DEF ClosedIn, Named
  <2>4. whole' = whole /\ rx'.asm = rx.asm /\ rx'.finished = rx.finished
        /\ needKey' = needKey /\ last' = last
    BY <1>4, <2>2, <2>3 DEF rx
  <2>5. Closed'
    BY <1>13, <2>4 DEF Closed, Done, WholeUpTo
  <2> QED BY <1>5, <2>5 DEF Newest
<1> QED BY <1>1, <1>11, <1>12, <1>13 DEF Newest

\* A packet of the newest frame closes frames that had no status, once each.
LEMMA ToldStep ==
    ASSUME ChanInv, Undisturbed, NEW pkt \in InFlight, Deliver(pkt)
    PROVE  again' = {} /\ \A x \in told' : x <= finished'
<1>1. PICK luck \in BOOLEAN :
        LET h == Handle(rx, pkt, luck)
        IN  finished' = h.finished /\ out' = h.out
  BY DEF Deliver, AddPacket
<1> DEFINE h == Handle(rx, pkt, luck)
<1>2. /\ again = {} /\ told \subseteq Nat /\ \A x \in told : x <= finished
  BY DEF ChanInv, ToldOnce
<1>3. /\ rx \in StateType /\ Good(rx) /\ rx.out = <<>> /\ rx.finished = finished
      /\ finished \in Nat \cup {Absent}
  BY DEF ChanInv, IInv, Good, Core, rx, StateType
<1>4. /\ pkt \in Packets /\ pkt.idx = frame.idx /\ frame.idx > oldTop
  <2>1. PICK k \in DOMAIN wire : pkt \in wire[k]
    BY DEF InFlight
  <2>2. /\ pkt \in Packets
        /\ IF frame = NotSent THEN pkt.idx <= oldTop ELSE pkt \in ShardVideoFrame(frame)
    BY <2>1 DEF ChanInv, WireOK
  <2>3. pkt.idx \in Nat
    BY <2>2, PacketsAssumption DEF PacketType
  <2>4. frame # NotSent
    BY <2>2, <2>3 DEF Undisturbed, Absent
  <2>5. pkt.idx = frame.idx
    BY <2>2, <2>4, SentFrame, ShardFacts
  <2> QED BY <2>2, <2>3, <2>5 DEF Undisturbed, Absent
<1>5. pkt.idx \in Nat /\ pkt.sof \in BOOLEAN /\ pkt.key \in BOOLEAN
  BY <1>4, PacketsAssumption DEF PacketType
<1>6. finished <= pkt.idx
  BY <1>3, <1>4, NewestIsTop DEF UpTo
<1>7. Told(h, finished) /\ h \in StateType
  <2>1. Told(rx, finished)
    BY <1>3 DEF Told, Rising, Once, Absent
  <2>2. CASE h = rx
    BY <1>3, <2>1, <2>2
  <2>3. CASE ~Malformed(pkt) /\ ~Late(rx, pkt)
    <3>1. pkt.d # 0 /\ finished < pkt.idx
      BY <1>3, <1>5, <2>3 DEF Malformed, Late, Absent
    <3>2. Restarted(rx, pkt.sof /\ pkt.key) /\ Core(rx) /\ Waiting(rx)
      BY <1>3 DEF Good, Restarted
    <3>3. h = Accept(rx, pkt, luck)
      BY <2>3 DEF Handle
    <3> QED BY <1>3, <1>4, <2>1, <3>1, <3>2, <3>3, AcceptTold, AcceptIsGood DEF Good, Core
  <2>4. ~(Late(rx, pkt) /\ NewStream(rx, pkt))
    BY <1>3, <1>5, <1>6 DEF NewStream, Absent
  <2> QED BY <2>2, <2>3, <2>4 DEF Handle
<1> HIDE DEF h
<1>8. /\ \A x \in ClosedIn(h.out) : x \in Nat /\ finished < x /\ x <= h.finished
      /\ Once(h.out) /\ finished <= h.finished /\ h.finished \in Nat \cup {Absent}
  <2>1. ClosedIn(h.out) \subseteq Nat
    BY <1>7, TallyType
  <2>2. \A x \in ClosedIn(h.out) : finished < x /\ x <= h.finished
    BY <1>7 DEF Told, Rising, ClosedIn, Named
  <2> QED BY <1>7, <2>1, <2>2 DEF Told, StateType
<1> DEFINE twice == {x \in ClosedIn(out') :
                       \E m, n \in {i \in DOMAIN out' : out'[i].cb = "status"} :
                          m # n /\ out'[m].idx = x /\ out'[n].idx = x}
<1>9. told' = told \cup ClosedIn(out') /\ again' = again \cup (told \cap ClosedIn(out')) \cup twice
  BY DEF Deliver, ClosedIn, Named
<1>10. twice = {}
  BY <1>1, <1>8 DEF Once, h
<1>11. told \cap ClosedIn(out') = {}
  BY <1>1, <1>2, <1>3, <1>8 DEF h, Absent
<1>12. ASSUME NEW x \in told' PROVE x <= finished'
  <2>1. finished' = h.finished /\ out' = h.out
    BY <1>1 DEF h
  <2>2. CASE x \in ClosedIn(out')
    BY <1>8, <2>1, <2>2
  <2>3. CASE x \in told
    <3>1. x \in Nat /\ x <= finished
      BY <1>2, <2>3
    <3>2. finished \in Int /\ h.finished \in Int /\ finished <= h.finished
      BY <1>3, <1>8 DEF Absent
    <3> QED BY <2>1, <3>1, <3>2
  <2>4. x \in told \/ x \in ClosedIn(out')
    BY <1>9, <1>10
  <2> QED BY <2>2, <2>3, <2>4
<1> HIDE DEF twice
<1> QED BY <1>2, <1>9, <1>10, <1>11, <1>12

\* A packet arrives.
LEMMA DeliverStep ==
    ASSUME ChanInv, NEW pkt \in InFlight, Deliver(pkt)
    PROVE  ChanInv'
<1>1. PICK luck \in BOOLEAN :
        LET h == Handle(rx, pkt, luck)
        IN  /\ asm' = h.asm /\ finished' = h.finished /\ needKey' = h.needKey
            /\ out' = h.out /\ last' = h.last /\ prev' = h.prev
  BY DEF Deliver, AddPacket
<1> DEFINE h == Handle(rx, pkt, luck)
<1>2. PICK k \in DOMAIN wire : pkt \in wire[k]
  BY DEF InFlight
<1>3. /\ pkt \in Packets
      /\ IF frame = NotSent THEN pkt.idx <= oldTop ELSE pkt \in ShardVideoFrame(frame)
  BY <1>2 DEF ChanInv, WireOK
<1>4. pkt.idx \in Nat
  BY <1>3, PacketsAssumption DEF PacketType
<1>5. run' = run /\ frame' = frame /\ oldTop' = oldTop
  BY DEF Deliver
<1>6. IInv'
  <2>1. AddPacket(pkt)
    BY DEF Deliver
  <2> QED BY <1>3, <2>1, NextHolds DEF ChanInv, Next
<1>7. whole' = whole \cup (ClosedIn(out') \ LostIn(out'))
  BY DEF Deliver, ClosedIn, LostIn, Named
<1>8. /\ rx \in StateType /\ Good(rx) /\ rx.out = <<>>
  BY DEF ChanInv, IInv, Good, Core, rx
<1>9. h \in StateType
  BY <1>3, <1>8, HandleIsGood DEF Good, Core
<1>10. whole' \subseteq Nat
  BY <1>1, <1>7, <1>9, TallyType DEF ChanInv
<1>11. WireOK'
  <2>1. /\ wire \in Seq(SUBSET Packets)
        /\ wire' \in Seq(SUBSET Packets) /\ DOMAIN wire' = DOMAIN wire
        /\ \A n \in DOMAIN wire : wire'[n] \subseteq wire[n]
    <3>1. wire \in Seq(SUBSET Packets)
      BY DEF ChanInv, WireOK
    <3>2. CASE wire' = wire
      BY <3>1, <3>2
    <3>3. CASE wire' = [n \in DOMAIN wire |-> wire[n] \ {pkt}]
      BY <3>1, <3>3
    <3> QED BY <3>1, <3>2, <3>3 DEF Deliver
  <2> QED BY <1>5, <2>1 DEF ChanInv, WireOK
<1>12. frame.idx <= oldTop => OldNews'
  <2> SUFFICES ASSUME frame.idx <= oldTop PROVE OldNews'
    OBVIOUS
  <2>1. pkt.idx <= oldTop
    <3>1. CASE frame = NotSent
      BY <1>3, <3>1
    <3>2. CASE frame # NotSent
      <4>1. frame \in FrameType /\ frame.d # 0
        BY <3>2, SentFrame
      <4>2. pkt.idx = frame.idx
        BY <1>3, <3>2, <4>1, ShardFacts
      <4> QED BY <4>2
    <3> QED BY <3>1, <3>2
  <2>2. oldTop \in Nat
    BY <1>4, <2>1 DEF ChanInv, Absent
  <2>3. UpTo(h, oldTop) /\ \A x \in ClosedIn(h.out) : x <= oldTop
    BY <1>3, <1>8, <2>1, <2>2, HandleUpTo DEF ChanInv, OldNews
  <2>4. UpTo(rx, oldTop)'
    BY <1>1, <1>5, <2>3 DEF UpTo, rx
  <2>5. WholeUpTo(oldTop)'
    BY <1>1, <1>5, <1>7, <2>3 DEF ChanInv, OldNews, WholeUpTo
  <2> QED BY <2>4, <2>5 DEF OldNews
<1>13. frame.idx > oldTop => Newest'
  <2> SUFFICES ASSUME frame.idx > oldTop PROVE Newest'
    OBVIOUS
  <2>1. frame # NotSent
    BY NothingSent DEF ChanInv, Absent
  <2>2. pkt \in ShardVideoFrame(frame)
    BY <1>3, <2>1
  <2>3. pkt.idx = frame.idx /\ pkt.origin = frame.origin
    BY <2>1, <2>2, SentFrame, ShardFacts
  <2>4. arrived' = arrived \cup {pkt}
    BY <2>3 DEF Deliver
  <2> QED BY <1>1, <1>3, <1>5, <1>7, <2>2, <2>4, NewestStep
<1>14. told' \subseteq Nat
  <2>1. told' = told \cup ClosedIn(out')
    BY DEF Deliver, ClosedIn, Named
  <2> QED BY <1>1, <1>9, <2>1, TallyType DEF ChanInv
<1>15. ToldOnce'
  BY <1>5, ToldStep DEF ToldOnce, Undisturbed
<1> QED BY <1>5, <1>6, <1>10, <1>11, <1>12, <1>13, <1>14, <1>15 DEF ChanInv, FrameOK

\* Every step of the channel, one lemma each.
LEMMA ChannelStep ==
    ASSUME Lag = 0
    PROVE  ChanInv /\ [ChannelNext]_allVars => ChanInv'
<1> SUFFICES ASSUME ChanInv, [ChannelNext]_allVars PROVE ChanInv'
  OBVIOUS
<1>1. ASSUME NEW key \in BOOLEAN, NEW rfi \in BOOLEAN, NEW shape \in Shapes,
             Send(key, rfi, shape)
      PROVE  ChanInv'
  BY <1>1, SendStep
<1>2. ASSUME NEW pkt \in InFlight, Deliver(pkt) PROVE ChanInv'
  BY <1>2, DeliverStep
<1>3. CASE SilentRestart
  BY <1>3, SilentStep
<1>4. CASE Reconnect
  BY <1>4, ReconnectStep
<1>5. CASE UNCHANGED allVars
  <2>1. IInv'
    BY <1>5, NextHolds DEF ChanInv, allVars
  <2>2. /\ rx' = rx /\ run' = run /\ frame' = frame /\ wire' = wire /\ oldTop' = oldTop
        /\ arrived' = arrived /\ whole' = whole /\ last' = last /\ needKey' = needKey
        /\ told' = told /\ again' = again /\ finished' = finished
    BY <1>5 DEF allVars, channel, vars, rx
  <2>3. FrameOK' /\ WireOK'
    BY <2>2 DEF ChanInv, FrameOK, WireOK
  <2>4. (frame.idx <= oldTop => OldNews)'
    BY <2>2 DEF ChanInv, OldNews, UpTo, WholeUpTo
  <2>5. (frame.idx > oldTop => Newest)'
    BY <2>2 DEF ChanInv, Newest, Unseen, Coming, Closed, UpTo, WholeUpTo, InProgress, Done
  <2>6. ToldOnce'
    BY <2>2 DEF ChanInv, ToldOnce, Undisturbed
  <2> QED BY <2>1, <2>2, <2>3, <2>4, <2>5, <2>6 DEF ChanInv
<1> QED BY <1>1, <1>2, <1>3, <1>4, <1>5 DEF ChannelNext

LEMMA ChannelIsKnown ==
    ASSUME Lag = 0
    PROVE  ChannelSpec => []ChanInv
BY InitChannel, ChannelStep, PTL DEF ChannelSpec

\* Enough shards of a frame with parity are never left waiting.
LEMMA EnoughIsWhole ==
    ASSUME ChanInv, frame.idx > oldTop, frame.p > 0, Cardinality(arrived) >= frame.d
    PROVE  frame.idx \in whole
<1>1. frame # NotSent
  BY NothingSent DEF ChanInv, Absent
<1>2. frame.d \in Nat /\ frame.d # 0 /\ frame.p \in Nat /\ Newest
  BY <1>1, SentFrame DEF ChanInv
<1>3. ~Unseen
  <2>1. Cardinality({}) = 0
    BY FS_EmptySet
  <2> QED BY <1>2, <2>1 DEF Unseen
<1>4. ~Coming
  <2>1. rx.asm.active => ~EnoughForFec(rx.asm)
    BY DEF ChanInv, IInv, Good, Waiting
  <2> QED BY <2>1 DEF Coming, InProgress, EnoughForFec
<1>5. Closed
  BY <1>2, <1>3, <1>4 DEF Newest
<1> QED BY <1>2, <1>5 DEF Closed

(***************************************************************************)
(* Over a channel that keeps the bursts of two frames apart, a frame with   *)
(* parity is reported complete as soon as as many of its shards arrived as  *)
(* it has data shards, for every number and shape of the frames and every   *)
(* loss, repetition and order of the packets (gr_udp_protocol.h:632-636).   *)
(***************************************************************************)
THEOREM EnoughShardsDeliver ==
    ASSUME Lag = 0
    PROVE  ChannelSpec => []FecDelivers
<1>1. ChanInv => FecDelivers
  <2> SUFFICES ASSUME ChanInv, Undisturbed, frame.p > 0, Cardinality(arrived) >= frame.d
               PROVE  frame.idx \in whole
    BY DEF FecDelivers
  <2>1. frame # NotSent
    BY DEF NotSent
  <2>2. frame.idx > oldTop
    BY <2>1, SentFrame DEF Undisturbed, Absent
  <2> QED BY <2>2, EnoughIsWhole
<1> QED BY <1>1, ChannelIsKnown, PTL

(***************************************************************************)
(* However the render restarts, told or silently, and however often, the    *)
(* first key frame past the old numbers that is complete or recoverable is  *)
(* given to the decoder and ends the wait (gr_udp_protocol.h:451-454).      *)
(***************************************************************************)
THEOREM KeyFrameHeals ==
    ASSUME Lag = 0
    PROVE  ChannelSpec => []RestartHeals
<1>1. ChanInv => RestartHeals
  <2> SUFFICES ASSUME ChanInv, frame.key, frame.idx > oldTop,
                      \/ frame.idx \in whole
                      \/ frame.p > 0 /\ Cardinality(arrived) >= frame.d
               PROVE  last.idx = frame.idx /\ ~needKey
    BY DEF RestartHeals
  <2>1. frame.idx \in whole
    BY EnoughIsWhole
  <2>2. frame.idx \in Nat /\ Newest
    <3>1. frame # NotSent
      BY NothingSent DEF ChanInv, Absent
    <3> QED BY <3>1, SentFrame DEF ChanInv
  <2>3. ~WholeUpTo(frame.idx - 1)
    BY <2>1, <2>2 DEF WholeUpTo
  <2>4. Closed
    BY <2>2, <2>3 DEF Newest, Unseen, Coming
  <2> QED BY <2>1, <2>4 DEF Closed, Anchors
<1> QED BY <1>1, ChannelIsKnown, PTL

(***************************************************************************)
(* With the bursts of two frames apart, the render gets one status a frame  *)
(* past the old numbers (gr_udp_protocol.h:474-475): the repeated status of *)
(* the run late_key_repeats_status takes a packet that comes after a later  *)
(* frame was sent.                                                          *)
(***************************************************************************)
THEOREM OneStatusAFrame ==
    ASSUME Lag = 0
    PROVE  ChannelSpec => []StatusOncePerFrame
<1>1. ChanInv => StatusOncePerFrame
  BY DEF ChanInv, ToldOnce, StatusOncePerFrame
<1> QED BY <1>1, ChannelIsKnown, PTL

(***************************************************************************)
(* Without parity a complete RFI frame past the old numbers is given to the *)
(* decoder and ends the wait (gr_udp_protocol.h:171); in the run            *)
(* rfi_frame_dropped FEC restores the packet that carries the mark.         *)
(***************************************************************************)
THEOREM PlainRfiEndsWait ==
    ASSUME Lag = 0
    PROVE  ChannelSpec => [](frame.p = 0 => RfiFrameEndsWait)
<1>1. ChanInv => (frame.p = 0 => RfiFrameEndsWait)
  <2> SUFFICES ASSUME ChanInv, frame.p = 0, Undisturbed, frame.rfi, frame.idx \in whole
               PROVE  last.idx = frame.idx /\ ~needKey
    BY DEF RfiFrameEndsWait
  <2>1. frame.idx \in Nat /\ frame.idx > oldTop /\ Newest
    <3>1. frame # NotSent
      BY DEF NotSent
    <3>2. frame.idx \in Nat /\ frame.idx > oldTop
      BY <3>1, SentFrame DEF Undisturbed, Absent
    <3> QED BY <3>2 DEF ChanInv
  <2>2. ~WholeUpTo(frame.idx - 1)
    BY <2>1 DEF WholeUpTo
  <2>3. Closed
    BY <2>1, <2>2 DEF Newest, Unseen, Coming
  <2> QED BY <2>3 DEF Closed, Anchors
<1> QED BY <1>1, ChannelIsKnown, PTL
=============================================================================
