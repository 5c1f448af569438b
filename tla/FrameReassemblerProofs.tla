----------------------- MODULE FrameReassemblerProofs -----------------------
(***************************************************************************)
(* Proofs about FrameReassembler for every set of packets: the chain of     *)
(* references given to the decoder is never broken, and nothing that can    *)
(* be handed over is held back.                                             *)
(***************************************************************************)
EXTENDS FrameReassembler, FiniteSetTheorems, SequenceTheorems, TLAPS

CallbackType == [cb : {"lost", "status", "frame"}, idx : Nat]

StateType ==
    [asm : AssemblyType, finished : Nat \cup {Absent}, needKey : BOOLEAN,
     out : Seq(CallbackType), last : ShownType, prev : ShownType]

(***************************************************************************)
(* The inductive invariant, of a receiver state s.                          *)
(***************************************************************************)
Synced(s) == s.finished # Absent /\ ~s.needKey => s.last.idx = s.finished

Chained(s) ==
    s.last.idx # Absent /\ ~s.last.key /\ ~s.last.rfi /\ s.prev.idx # Absent
        => s.last.idx = s.prev.idx + 1

Newer(s) == s.asm.active => s.asm.idx > s.finished /\ s.asm.d # 0

\* An unbroken chain is continued by the very next frame.
Adjacent(s) ==
    s.asm.active /\ s.finished # Absent /\ ~s.needKey
        => s.asm.idx = s.finished + 1

\* A decoder that has shown frames of an older stream is next given a key frame.
Restarted(s, startsKey) ==
    s.finished = Absent /\ ~s.needKey /\ s.last.idx # Absent
        => \/ s.asm.active /\ s.asm.key
           \/ ~s.asm.active /\ startsKey

Waiting(s) == s.asm.active => ~AllData(s.asm) /\ ~EnoughForFec(s.asm)

\* What every phase of AddPacket keeps, and what it ends with.
Core(s) == s \in StateType /\ Synced(s) /\ Chained(s) /\ Newer(s) /\ Adjacent(s)

Good(s) == Core(s) /\ Restarted(s, FALSE) /\ Waiting(s)

IInv == Good(rx) /\ out \in Seq(CallbackType)

-----------------------------------------------------------------------------
(***************************************************************************)
(* What the operators do to the fields of a state.                          *)
(***************************************************************************)
LEMMA IdleType == Idle \in AssemblyType /\ ~Idle.active
BY DEF Idle, AssemblyType

\* An assembly without shards is neither complete nor recoverable.
LEMMA EmptyAssembly ==
    ASSUME NEW a \in AssemblyType, a.shards = {}, a.d # 0
    PROVE  ~AllData(a) /\ ~EnoughForFec(a)
<1>1. 0 \in 0 .. a.d - 1
  BY DEF AssemblyType
<1>2. ~AllData(a)
  BY <1>1 DEF AllData, Filled
<1>3. Cardinality(a.shards) = 0
  BY FS_EmptySet
<1>4. ~EnoughForFec(a)
  BY <1>3 DEF EnoughForFec, AssemblyType
<1> QED BY <1>2, <1>4

\* Appending a callback keeps the sequence typed.
LEMMA AppendOne ==
    ASSUME NEW q \in Seq(CallbackType), NEW e \in CallbackType
    PROVE  Append(q, e) \in Seq(CallbackType)
OBVIOUS

\* Appending two callbacks does too.
LEMMA AppendTwo ==
    ASSUME NEW q \in Seq(CallbackType), NEW e \in CallbackType, NEW f \in CallbackType
    PROVE  q \o <<e, f>> \in Seq(CallbackType)
<1>1. <<e, f>> \in Seq(CallbackType)
  OBVIOUS
<1> QED BY <1>1, ConcatProperties

\* What DeclareLoss leaves in each field.
LEMMA LossFields ==
    ASSUME NEW s \in StateType, NEW i \in Nat
    PROVE  LET t == DeclareLoss(s, i)
           IN  /\ t \in StateType /\ t.needKey
               /\ t.asm = s.asm /\ t.finished = s.finished
               /\ t.last = s.last /\ t.prev = s.prev
<1> DEFINE e == Callback("lost", i)
           f == Callback("status", i)
<1>1. e \in CallbackType /\ f \in CallbackType
  BY DEF Callback, CallbackType
<1>2. s.out \o <<e, f>> \in Seq(CallbackType)
  BY <1>1, AppendTwo DEF StateType
<1> HIDE DEF e, f
<1>3. DeclareLoss(s, i) = [s EXCEPT !.needKey = TRUE, !.out = s.out \o <<e, f>>]
  BY DEF DeclareLoss, e, f, StateType
<1> QED BY <1>2, <1>3 DEF StateType

\* What MarkFinished leaves in each field.
LEMMA MarkFields ==
    ASSUME NEW s \in StateType, NEW i \in Nat
    PROVE  LET t == MarkFinished(s, i)
           IN  /\ t \in StateType /\ t.needKey = s.needKey
               /\ t.asm = s.asm /\ t.last = s.last /\ t.prev = s.prev
               /\ t.finished # Absent
               /\ i > s.finished => t.finished = i
BY DEF MarkFinished, StateType, Absent

\* What Close leaves in each field.
LEMMA CloseFields ==
    ASSUME NEW s \in StateType
    PROVE  LET t == Close(s)
           IN  /\ t \in StateType /\ t.needKey = s.needKey
               /\ t.asm = Idle /\ t.last = s.last /\ t.prev = s.prev
               /\ t.finished = s.finished
BY IdleType DEF Close, StateType

(***************************************************************************)
(* A complete frame is shown exactly if it starts a chain or continues the  *)
(* decoder's; otherwise the receiver keeps waiting.                         *)
(***************************************************************************)
LEMMA CompleteFields ==
    ASSUME NEW s \in StateType
    PROVE  LET t == CompleteWithStatus(s)
               shown == s.asm.key \/ s.asm.rfi \/ ~s.needKey
           IN  /\ t \in StateType
               /\ t.asm = s.asm /\ t.finished = s.finished
               /\ shown => /\ ~t.needKey /\ t.prev = s.last
                           /\ t.last = [idx |-> s.asm.idx, key |-> s.asm.key,
                                        rfi |-> s.asm.rfi]
               /\ ~shown => t.needKey /\ t.prev = s.prev /\ t.last = s.last
<1> DEFINE i == s.asm.idx
           e == Callback("frame", i)
           f == Callback("status", i)
           new == [idx |-> i, key |-> s.asm.key, rfi |-> s.asm.rfi]
<1>1. i \in Nat
  BY DEF StateType, AssemblyType
<1>2. e \in CallbackType /\ f \in CallbackType
  BY <1>1 DEF Callback, CallbackType
<1>3. /\ s.out \o <<e, f>> \in Seq(CallbackType)
      /\ Append(s.out, f) \in Seq(CallbackType)
  BY <1>2, AppendTwo, AppendOne DEF StateType
<1>4. new \in ShownType
  BY DEF StateType, AssemblyType, ShownType
<1>5. CompleteWithStatus(s) =
        IF s.asm.key \/ s.asm.rfi \/ ~s.needKey
        THEN [s EXCEPT !.needKey = FALSE, !.out = s.out \o <<e, f>>,
                       !.prev = s.last, !.last = new]
        ELSE [s EXCEPT !.out = Append(s.out, f)]
  BY DEF CompleteWithStatus, StateType
<1> HIDE DEF e, f, new
<1>6. CASE s.asm.key \/ s.asm.rfi \/ ~s.needKey
  BY <1>3, <1>4, <1>5, <1>6 DEF StateType, new
<1>7. CASE ~(s.asm.key \/ s.asm.rfi \/ ~s.needKey)
  BY <1>3, <1>5, <1>7 DEF StateType
<1> QED BY <1>6, <1>7

-----------------------------------------------------------------------------
(***************************************************************************)
(* The phases.                                                              *)
(***************************************************************************)

\* Declaring a frame above the mark lost leaves a receiver that waits.
LEMMA LossIsCore ==
    ASSUME NEW s \in StateType, Chained(s), NEW i \in Nat, i > s.finished,
           s.asm.active => s.asm.idx > i /\ s.asm.d # 0
    PROVE  LET t == MarkFinished(DeclareLoss(s, i), i)
           IN  /\ Core(t) /\ t.needKey /\ t.finished = i /\ t.asm = s.asm
               /\ t.last = s.last /\ t.prev = s.prev
<1> DEFINE l == DeclareLoss(s, i)
           t == MarkFinished(l, i)
<1>1. /\ l \in StateType /\ l.needKey /\ l.asm = s.asm
      /\ l.finished = s.finished /\ l.last = s.last /\ l.prev = s.prev
  BY LossFields
<1> HIDE DEF l
<1>2. /\ t \in StateType /\ t.needKey /\ t.asm = s.asm
      /\ t.finished = i /\ t.last = s.last /\ t.prev = s.prev
  BY <1>1, MarkFields
<1> HIDE DEF t
<1>3. Core(t)
  BY <1>2 DEF Core, Synced, Chained, Newer, Adjacent
<1> QED BY <1>2, <1>3 DEF t, l

\* A frame in progress that is given up, or completed, leaves no assembly.
LEMMA AbandonIsGood ==
    ASSUME NEW s \in StateType, Core(s), s.asm.active
    PROVE  /\ Good(Abandon(s)) /\ Abandon(s).finished = s.asm.idx
           /\ ~Abandon(s).asm.active /\ Abandon(s).needKey
<1> DEFINE i == s.asm.idx
           l == DeclareLoss(s, i)
           u == MarkFinished(l, i)
           t == Close(u)
<1>1. i \in Nat /\ i > s.finished
  BY DEF Core, Newer, StateType, AssemblyType
<1>2. /\ l \in StateType /\ l.needKey /\ l.finished = s.finished
      /\ l.last = s.last /\ l.prev = s.prev
  BY <1>1, LossFields
<1> HIDE DEF l
<1>3. /\ u \in StateType /\ u.needKey /\ u.finished = i
      /\ u.last = s.last /\ u.prev = s.prev
  BY <1>1, <1>2, MarkFields
<1> HIDE DEF u
<1>4. /\ t \in StateType /\ t.needKey /\ t.finished = i /\ ~t.asm.active
      /\ t.last = s.last /\ t.prev = s.prev
  BY <1>3, CloseFields, IdleType
<1> HIDE DEF t, i
<1>5. Good(t)
  BY <1>1, <1>4
  DEF Good, Core, Synced, Chained, Newer, Adjacent, Restarted, Waiting
<1> QED BY <1>4, <1>5 DEF Abandon, t, u, l, i

\* A complete frame is closed, or given up if it is not usable.
LEMMA FinishIsGood ==
    ASSUME NEW s \in StateType, Core(s), s.asm.active, NEW luck,
           Restarted(s, FALSE)
    PROVE  Good(Finish(s, luck))
<1> DEFINE i == s.asm.idx
           c == CompleteWithStatus(s)
           u == MarkFinished(c, i)
           t == Close(u)
           shown == s.asm.key \/ s.asm.rfi \/ ~s.needKey
<1>1. i \in Nat /\ i > s.finished
  BY DEF Core, Newer, StateType, AssemblyType
<1>2. /\ c \in StateType /\ c.finished = s.finished
      /\ shown => /\ ~c.needKey /\ c.prev = s.last
                  /\ c.last = [idx |-> i, key |-> s.asm.key, rfi |-> s.asm.rfi]
      /\ ~shown => c.needKey /\ c.prev = s.prev /\ c.last = s.last
  BY CompleteFields
<1> HIDE DEF c
<1>3. /\ u \in StateType /\ u.needKey = c.needKey /\ u.finished = i
      /\ u.last = c.last /\ u.prev = c.prev
  BY <1>1, <1>2, MarkFields
<1> HIDE DEF u
<1>4. /\ t \in StateType /\ t.needKey = c.needKey /\ t.finished = i
      /\ t.last = c.last /\ t.prev = c.prev /\ ~t.asm.active
  BY <1>3, CloseFields, IdleType
<1> HIDE DEF t
<1>5. CASE ~shown
  <2>1. Good(t)
    BY <1>1, <1>2, <1>4, <1>5
    DEF Good, Core, Synced, Chained, Newer, Adjacent, Restarted, Waiting
  <2> QED BY <2>1, AbandonIsGood DEF Finish, t, u, c
<1>6. CASE shown
  <2>1. Chained(t)
    <3>1. s.asm.key \/ s.asm.rfi \/ s.last.idx = Absent \/ i = s.last.idx + 1
      BY <1>6 DEF Core, Synced, Adjacent, Restarted
    <3> QED BY <1>2, <1>4, <1>6, <3>1 DEF Chained
  <2>2. Good(t)
    BY <1>1, <1>2, <1>4, <1>6, <2>1
    DEF Good, Core, Synced, Newer, Adjacent, Restarted, Waiting, Absent
  <2> QED BY <2>2, AbandonIsGood DEF Finish, t, u, c
<1> QED BY <1>5, <1>6

\* Once a newer frame has ended the one in progress, none older than it is left.
LEMMA SupersedeIsCore ==
    ASSUME NEW s \in StateType, NEW pkt \in Packets, NEW luck, NEW k \in BOOLEAN,
           Core(s), Restarted(s, k), Waiting(s), s.finished < pkt.idx
    PROVE  LET t == Supersede(s, pkt, luck)
           IN  /\ t \in StateType /\ Core(t) /\ Restarted(t, k) /\ Waiting(t)
               /\ t.finished < pkt.idx
               /\ t.asm.active => pkt.idx <= t.asm.idx
               /\ s.finished # Absent \/ t.finished = Absent \/ t.needKey
<1>1. pkt.idx \in Nat
  BY PacketsAssumption DEF PacketType
<1>2. CASE ~(s.asm.active /\ pkt.idx > s.asm.idx)
  <2>1. Supersede(s, pkt, luck) = s
    BY <1>2 DEF Supersede
  <2> QED BY <1>1, <1>2, <2>1 DEF StateType, AssemblyType
<1>3. CASE s.asm.active /\ pkt.idx > s.asm.idx
  <2>1. Supersede(s, pkt, luck) = Abandon(s)
    BY <1>3 DEF Supersede, Waiting
  <2> DEFINE t == Abandon(s)
  <2>2. Good(t) /\ t.finished = s.asm.idx /\ ~t.asm.active /\ t.needKey
    BY <1>3, AbandonIsGood
  <2> HIDE DEF t
  <2>3. Restarted(t, k)
    BY <2>2 DEF Restarted
  <2> QED BY <1>3, <2>1, <2>2, <2>3 DEF Good, Core, t
<1> QED BY <1>2, <1>3

\* After the gap check a receiver that does not wait is at the very next frame.
LEMMA NoteGapIsCore ==
    ASSUME NEW s \in StateType, NEW pkt \in Packets, NEW marked \in BOOLEAN,
           NEW k \in BOOLEAN, Core(s), Restarted(s, k), s.finished < pkt.idx,
           ~s.asm.active, marked \/ s.finished = Absent \/ s.needKey,
           marked => s.finished # Absent
    PROVE  LET t == NoteGap(s, pkt, marked)
           IN  /\ t \in StateType /\ Core(t) /\ Restarted(t, k)
               /\ ~t.asm.active /\ t.finished < pkt.idx
               /\ t.finished # Absent /\ ~t.needKey => pkt.idx = t.finished + 1
<1>1. pkt.idx \in Nat /\ s.finished \in Nat \cup {Absent}
  BY PacketsAssumption DEF PacketType, StateType
<1>2. CASE marked /\ pkt.idx > s.finished + 1
  <2> DEFINE i == pkt.idx - 1
             t == MarkFinished(DeclareLoss(s, i), i)
  <2>1. i \in Nat /\ i > s.finished
    BY <1>1, <1>2 DEF Absent
  <2>2. Core(t) /\ t.needKey /\ t.finished = i /\ t.asm = s.asm
    BY <2>1, LossIsCore DEF Core
  <2>3. NoteGap(s, pkt, marked) = t
    BY <1>2 DEF NoteGap
  <2> HIDE DEF t
  <2> QED BY <1>1, <2>2, <2>3 DEF Core, Restarted
<1>3. CASE ~(marked /\ pkt.idx > s.finished + 1)
  <2>1. NoteGap(s, pkt, marked) = s
    BY <1>3 DEF NoteGap
  <2> QED BY <1>1, <1>3, <2>1 DEF Absent
<1> QED BY <1>2, <1>3

\* A frame is started only where a chain may continue or a wait goes on.
LEMMA BeginIsGood ==
    ASSUME NEW s \in StateType, NEW pkt \in Packets, NEW marked \in BOOLEAN,
           Core(s), Waiting(s), s.finished < pkt.idx, pkt.d # 0,
           Restarted(s, pkt.sof /\ pkt.key),
           marked \/ s.finished = Absent \/ s.needKey,
           marked => s.finished # Absent
    PROVE  Good(Begin(s, pkt, marked))
<1> DEFINE k == pkt.sof /\ pkt.key
           n == NoteGap(s, pkt, marked)
<1>1. pkt \in PacketType
  BY PacketsAssumption
<1>2. CASE s.asm.active
  BY <1>2 DEF Begin, Good, Restarted
<1>3. CASE ~s.asm.active
  <2>1. k \in BOOLEAN
    BY <1>1 DEF PacketType
  <2>2. /\ n \in StateType /\ Core(n) /\ Restarted(n, k)
        /\ ~n.asm.active /\ n.finished < pkt.idx
        /\ n.finished # Absent /\ ~n.needKey => pkt.idx = n.finished + 1
    BY <1>3, <2>1, NoteGapIsCore
  <2>3. CASE pkt.sof \/ pkt.p > 0
    <3> DEFINE a == Started(pkt)
               t == [n EXCEPT !.asm = a]
    <3>1. /\ a \in AssemblyType /\ a.active /\ a.idx = pkt.idx
          /\ a.key = pkt.key /\ a.d = pkt.d /\ a.shards = {}
      BY <1>1 DEF Started, AssemblyType, PacketType
    <3> HIDE DEF a
    <3>2. Begin(s, pkt, marked) = t
      BY <1>3, <2>3 DEF Begin, a
    <3> HIDE DEF n
    <3>3. /\ t \in StateType /\ t.asm = a /\ t.finished = n.finished
          /\ t.needKey = n.needKey /\ t.last = n.last /\ t.prev = n.prev
      BY <2>2, <3>1 DEF StateType
    <3> HIDE DEF t
    <3>4. Waiting(t)
      BY <3>1, <3>3, EmptyAssembly DEF Waiting
    <3>5. Core(t) /\ Restarted(t, FALSE)
      BY <2>2, <3>1, <3>3
      DEF Core, Synced, Chained, Newer, Adjacent, Restarted
    <3> QED BY <3>2, <3>4, <3>5 DEF Good
  <2>4. CASE ~(pkt.sof \/ pkt.p > 0)
    <3> DEFINE t == MarkFinished(DeclareLoss(n, pkt.idx), pkt.idx)
    <3>1. Begin(s, pkt, marked) = t
      BY <1>3, <2>4 DEF Begin
    <3> HIDE DEF n
    <3>2. Core(t) /\ t.needKey /\ t.asm = n.asm
      BY <1>1, <2>2, LossIsCore DEF Core, PacketType
    <3> HIDE DEF t
    <3> QED BY <2>2, <3>1, <3>2 DEF Good, Restarted, Waiting
  <2> QED BY <2>3, <2>4
<1> QED BY <1>2, <1>3

\* Storing a shard completes the frame, gives it up, or leaves it waiting.
LEMMA StoreIsGood ==
    ASSUME NEW s \in StateType, NEW pkt \in Packets, NEW luck, Good(s)
    PROVE  Good(Store(s, pkt, luck))
<1> DEFINE f == Fill(s, pkt)
<1>1. pkt \in PacketType
  BY PacketsAssumption
<1>2. CASE ~s.asm.active \/ pkt.idx # s.asm.idx
  BY <1>2 DEF Store
<1>3. CASE /\ s.asm.active /\ pkt.idx = s.asm.idx
           /\ pkt.d # s.asm.d \/ pkt.d + pkt.p # s.asm.d + s.asm.p
  BY <1>3, AbandonIsGood DEF Store, Good
<1>4. CASE /\ s.asm.active /\ pkt.idx = s.asm.idx
           /\ ~(pkt.d # s.asm.d \/ pkt.d + pkt.p # s.asm.d + s.asm.p)
  <2> DEFINE a == f.asm
  <2>1. /\ f \in StateType /\ f.finished = s.finished /\ f.needKey = s.needKey
        /\ f.last = s.last /\ f.prev = s.prev
        /\ a.active /\ a.idx = s.asm.idx /\ a.key = s.asm.key /\ a.d = s.asm.d
    <3> DEFINE shards == IF Filled(s.asm, pkt.i) THEN s.asm.shards
                         ELSE s.asm.shards \cup {pkt}
               rfi == IF pkt.sof THEN pkt.rfi ELSE s.asm.rfi
               b == [s.asm EXCEPT !.shards = shards, !.rfi = rfi]
    <3>1. shards \in SUBSET Packets /\ rfi \in BOOLEAN
      BY <1>1 DEF StateType, AssemblyType, PacketType
    <3> HIDE DEF shards, rfi
    <3>2. /\ b \in AssemblyType /\ b.active = s.asm.active
          /\ b.idx = s.asm.idx /\ b.key = s.asm.key /\ b.d = s.asm.d
      BY <3>1 DEF StateType, AssemblyType
    <3> HIDE DEF b
    <3>3. f = [s EXCEPT !.asm = b]
      BY DEF Fill, b, shards, rfi
    <3> QED BY <1>4, <3>2, <3>3 DEF StateType
  <2> HIDE DEF f
  <2>2. Core(f) /\ Restarted(f, FALSE)
    BY <1>4, <2>1
    DEF Good, Core, Synced, Chained, Newer, Adjacent, Restarted
  <2>3. CASE AllData(f.asm) \/ EnoughForFec(f.asm)
    <3>1. Store(s, pkt, luck) = Finish(f, luck)
      BY <1>4, <2>3 DEF Store, f
    <3> QED BY <2>1, <2>2, <3>1, FinishIsGood
  <2>4. CASE ~(AllData(f.asm) \/ EnoughForFec(f.asm))
    <3>1. Store(s, pkt, luck) = f
      BY <1>4, <2>4 DEF Store, f
    <3> QED BY <2>2, <2>4, <3>1 DEF Good, Waiting
  <2> QED BY <2>3, <2>4
<1> QED BY <1>2, <1>3, <1>4

-----------------------------------------------------------------------------
(***************************************************************************)
(* AddPacket, and the theorems.                                             *)
(***************************************************************************)
LEMMA AcceptIsGood ==
    ASSUME NEW s \in StateType, NEW pkt \in Packets, NEW luck,
           Core(s), Waiting(s), Restarted(s, pkt.sof /\ pkt.key),
           s.finished < pkt.idx, pkt.d # 0
    PROVE  Good(Accept(s, pkt, luck))
<1> DEFINE k == pkt.sof /\ pkt.key
           marked == s.finished # Absent
           t == Supersede(s, pkt, luck)
           b == Begin(t, pkt, marked)
<1>1. k \in BOOLEAN /\ marked \in BOOLEAN
  BY PacketsAssumption DEF PacketType
<1>2. /\ t \in StateType /\ Core(t) /\ Restarted(t, k) /\ Waiting(t)
      /\ t.finished < pkt.idx
      /\ marked \/ t.finished = Absent \/ t.needKey
  BY <1>1, SupersedeIsCore
<1>3. marked => t.finished # Absent
  <2>1. CASE s.asm.active /\ pkt.idx > s.asm.idx
    <3>1. t = Abandon(s)
      BY <2>1 DEF Supersede, Waiting
    <3>2. t.finished = s.asm.idx
      BY <2>1, <3>1, AbandonIsGood
    <3> QED BY <3>2 DEF StateType, AssemblyType, Absent
  <2>2. CASE ~(s.asm.active /\ pkt.idx > s.asm.idx)
    BY <2>2 DEF Supersede
  <2> QED BY <2>1, <2>2
<1> HIDE DEF t, marked
<1>4. Good(b)
  BY <1>1, <1>2, <1>3, BeginIsGood
<1> HIDE DEF b
<1>5. Good(Store(b, pkt, luck))
  BY <1>4, StoreIsGood DEF Good, Core
<1> QED BY <1>5 DEF Accept, b, t, marked

\* AddPacket as a whole keeps the receiver good.
LEMMA HandleIsGood ==
    ASSUME NEW s \in StateType, NEW pkt \in Packets, NEW luck, Good(s)
    PROVE  Good(Handle(s, pkt, luck))
<1>1. /\ pkt.idx \in Nat /\ pkt.sof \in BOOLEAN /\ pkt.key \in BOOLEAN
      /\ s.finished \in Nat \cup {Absent}
  BY PacketsAssumption DEF PacketType, StateType
<1>2. CASE Malformed(pkt)
  BY <1>2 DEF Handle
<1>3. CASE ~Malformed(pkt) /\ ~Late(s, pkt)
  <2>1. pkt.d # 0 /\ s.finished < pkt.idx
    BY <1>1, <1>3 DEF Malformed, Late, Absent
  <2>2. Restarted(s, pkt.sof /\ pkt.key)
    BY DEF Good, Restarted
  <2>3. Good(Accept(s, pkt, luck))
    BY <2>1, <2>2, AcceptIsGood DEF Good
  <2> QED BY <1>3, <2>3 DEF Handle
<1>4. CASE ~Malformed(pkt) /\ Late(s, pkt) /\ NewStream(s, pkt)
  <2> DEFINE t == Forget(s)
  <2>1. /\ t \in StateType /\ t.asm = Idle /\ ~t.needKey
        /\ t.finished = Absent /\ t.last = s.last /\ t.prev = s.prev
    BY IdleType DEF Forget, StateType
  <2> HIDE DEF t
  <2>2. Core(t) /\ Waiting(t) /\ Restarted(t, pkt.sof /\ pkt.key)
    BY <1>4, <2>1, IdleType
    DEF Good, Core, Synced, Chained, Newer, Adjacent, Restarted, Waiting, NewStream
  <2>3. pkt.d # 0 /\ t.finished < pkt.idx
    BY <1>1, <1>4, <2>1 DEF Malformed, Absent
  <2>4. Good(Accept(t, pkt, luck))
    BY <2>1, <2>2, <2>3, AcceptIsGood
  <2> QED BY <1>4, <2>4 DEF Handle, t
<1>5. CASE ~Malformed(pkt) /\ Late(s, pkt) /\ ~NewStream(s, pkt)
  BY <1>5 DEF Handle
<1> QED BY <1>2, <1>3, <1>4, <1>5

\* The invariant holds at the start.
LEMMA InitHolds == Init => IInv
<1> SUFFICES ASSUME Init PROVE IInv
  OBVIOUS
<1>1. /\ asm = Idle /\ finished = Absent /\ ~needKey /\ out = <<>>
      /\ last = NoFrame /\ prev = NoFrame /\ needKey \in BOOLEAN
  BY DEF Init
<1>2. NoFrame \in ShownType /\ NoFrame.idx = Absent
  BY DEF NoFrame, ShownType
<1>3. rx \in StateType
  BY <1>1, <1>2, IdleType DEF rx, StateType
<1>4. Good(rx)
  BY <1>1, <1>2, <1>3, IdleType
  DEF rx, Good, Core, Synced, Chained, Newer, Adjacent, Restarted, Waiting
<1> QED BY <1>1, <1>4 DEF IInv

\* Every step keeps the invariant.
LEMMA NextHolds == IInv /\ [Next]_vars => IInv'
<1> SUFFICES ASSUME IInv, [Next]_vars PROVE IInv'
  OBVIOUS
<1>1. ASSUME NEW pkt \in Packets, AddPacket(pkt) PROVE IInv'
  <2>1. PICK luck \in BOOLEAN :
          LET s == Handle(rx, pkt, luck)
          IN  /\ asm' = s.asm /\ finished' = s.finished
              /\ needKey' = s.needKey /\ out' = s.out
              /\ last' = s.last /\ prev' = s.prev
    BY <1>1 DEF AddPacket
  <2> DEFINE s == Handle(rx, pkt, luck)
  <2>2. Good(s)
    BY HandleIsGood DEF IInv, Good, Core
  <2> HIDE DEF s
  <2>3. s \in StateType
    BY <2>2 DEF Good, Core
  <2>4. /\ rx'.asm = s.asm /\ rx'.finished = s.finished
        /\ rx'.needKey = s.needKey /\ rx'.last = s.last
        /\ rx'.prev = s.prev /\ out' = s.out
    BY <2>1 DEF rx, s
  <2>5. rx' \in StateType
    BY <2>3, <2>4 DEF rx, StateType
  <2>6. Good(rx')
    BY <2>2, <2>4, <2>5
    DEF Good, Core, Synced, Chained, Newer, Adjacent, Restarted, Waiting
  <2>7. out' \in Seq(CallbackType)
    BY <2>3, <2>4 DEF StateType
  <2>8. Good(rx)'
    BY <2>6 DEF Good, Core, Synced, Chained, Newer, Adjacent, Restarted, Waiting
  <2> QED BY <2>7, <2>8 DEF IInv
<1>2. CASE Reset
  <2>1. Init'
    BY <1>2 DEF Reset, Init
  <2> QED BY <2>1, InitHolds, PTL
<1>3. CASE UNCHANGED vars
  BY <1>3 DEF vars, IInv, rx, Good, Core, Synced, Chained, Newer, Adjacent,
              Restarted, Waiting
<1> QED BY <1>1, <1>2, <1>3 DEF Next

\* The invariant holds always.
LEMMA IInvHolds == Spec => []IInv
BY InitHolds, NextHolds, PTL DEF Spec

(***************************************************************************)
(* The maps' entries and the callbacks always have their types.             *)
(***************************************************************************)
THEOREM TypeCorrect == Spec => []TypeOK
<1>1. IInv => TypeOK
  BY DEF IInv, Good, Core, rx, StateType, TypeOK, CallbackType
<1> QED BY <1>1, IInvHolds, PTL

(***************************************************************************)
(* No loss goes unnoticed: unless a key frame is awaited, the decoder has   *)
(* just been given the newest closed frame.                                 *)
(***************************************************************************)
THEOREM NoUnnoticedLoss == Spec => []SyncedOrWaiting
<1>1. IInv => SyncedOrWaiting
  BY DEF IInv, Good, Core, rx, Synced, SyncedOrWaiting
<1> QED BY <1>1, IInvHolds, PTL

(***************************************************************************)
(* A dependent frame reaches the decoder only right after its predecessor.  *)
(***************************************************************************)
THEOREM ChainIsWhole == Spec => []ReferenceChain
<1>1. IInv => ReferenceChain
  BY DEF IInv, Good, Core, rx, Chained, ReferenceChain
<1> QED BY <1>1, IInvHolds, PTL

(***************************************************************************)
(* No frame that could be handed over is kept waiting for another packet.   *)
(***************************************************************************)
THEOREM RestIsIncomplete == Spec => []NothingHeldBack
<1>1. IInv => NothingHeldBack
  BY DEF IInv, Good, Core, rx, Newer, Waiting, NothingHeldBack
<1> QED BY <1>1, IInvHolds, PTL

-----------------------------------------------------------------------------
(***************************************************************************)
(* The callbacks of one AddPacket.  Each phase that reports a frame marks   *)
(* it as the newest closed one, so the numbers reported rise from the mark  *)
(* before the packet to the mark after it.                                  *)
(***************************************************************************)
Rising(q, from, to) ==
    \A m \in DOMAIN q :
        /\ from < q[m].idx /\ q[m].idx <= to
        /\ \A n \in DOMAIN q : m < n => q[m].idx <= q[n].idx

\* No frame has two statuses.
Once(q) ==
    \A m, n \in DOMAIN q :
        q[m].cb = "status" /\ q[n].cb = "status" /\ q[m].idx = q[n].idx => m = n

Told(s, from) ==
    from <= s.finished /\ Rising(s.out, from, s.finished) /\ Once(s.out)

\* One more callback, about a frame not below the last one.
LEMMA TellOne ==
    ASSUME NEW q \in Seq(CallbackType), NEW e \in CallbackType,
           NEW from \in Nat \cup {Absent}, NEW to \in Nat \cup {Absent},
           from < e.idx, to <= e.idx, Rising(q, from, to)
    PROVE  Rising(Append(q, e), from, e.idx)
<1> DEFINE r == Append(q, e)
<1>1. /\ Len(q) \in Nat /\ DOMAIN q = 1 .. Len(q) /\ DOMAIN r = 1 .. Len(q) + 1
      /\ \A n \in 1 .. Len(q) : r[n] = q[n] /\ q[n].idx \in Nat
      /\ r[Len(q) + 1] = e
  <2>1. \A n \in 1 .. Len(q) : q[n] \in CallbackType
    OBVIOUS
  <2>2. \A n \in 1 .. Len(q) : q[n].idx \in Nat
    BY <2>1 DEF CallbackType
  <2> QED BY <2>2, AppendProperties
<1>2. e.idx \in Nat
  BY DEF CallbackType
<1> HIDE DEF r
<1>3. ASSUME NEW m \in DOMAIN r
      PROVE  from < r[m].idx /\ r[m].idx <= e.idx
  BY <1>1, <1>2 DEF Rising, Absent
<1>4. ASSUME NEW m \in DOMAIN r, NEW n \in DOMAIN r, m < n
      PROVE  r[m].idx <= r[n].idx
  <2>1. CASE n \in 1 .. Len(q)
    BY <1>1, <1>4, <2>1 DEF Rising
  <2>2. CASE n = Len(q) + 1
    BY <1>1, <1>3, <2>2
  <2> QED BY <1>1, <2>1, <2>2
<1> QED BY <1>3, <1>4 DEF Rising, r

\* Two callbacks about the same frame.
LEMMA TellTwo ==
    ASSUME NEW q \in Seq(CallbackType), NEW e \in CallbackType, NEW f \in CallbackType,
           e.idx = f.idx, NEW from \in Nat \cup {Absent}, NEW to \in Nat \cup {Absent},
           from < e.idx, to <= e.idx, Rising(q, from, to)
    PROVE  Rising(q \o <<e, f>>, from, e.idx)
<1> DEFINE r == Append(q, e)
<1>1. r \in Seq(CallbackType)
  BY AppendOne
<1>2. Rising(r, from, e.idx)
  BY TellOne
<1>3. q \o <<e, f>> = Append(r, f)
  OBVIOUS
<1> HIDE DEF r
<1>4. e.idx \in Nat
  BY DEF CallbackType
<1>5. f.idx \in Nat /\ from < f.idx /\ e.idx <= f.idx /\ e.idx \in Nat \cup {Absent}
  BY <1>4
<1>6. Rising(Append(r, f), from, f.idx)
  BY <1>1, <1>2, <1>5, TellOne
<1> QED BY <1>3, <1>6

\* A status of a frame that had none.
LEMMA OnceOne ==
    ASSUME NEW q \in Seq(CallbackType), NEW e \in CallbackType, Once(q),
           e.cb = "status" => \A n \in DOMAIN q : q[n].cb = "status" => q[n].idx # e.idx
    PROVE  Once(Append(q, e))
<1> DEFINE r == Append(q, e)
<1>1. /\ Len(q) \in Nat /\ DOMAIN q = 1 .. Len(q) /\ DOMAIN r = 1 .. Len(q) + 1
      /\ \A n \in 1 .. Len(q) : r[n] = q[n]
      /\ r[Len(q) + 1] = e
  BY AppendProperties
<1> HIDE DEF r
<1>2. \A n \in DOMAIN r : n \in DOMAIN q \/ n = Len(q) + 1
  BY <1>1
<1> QED BY <1>1, <1>2 DEF Once, r

\* The callbacks about a frame above all that was reported.
LEMMA OnceAbove ==
    ASSUME NEW q \in Seq(CallbackType), NEW e \in CallbackType, NEW f \in CallbackType,
           e.cb # "status", e.idx = f.idx, NEW from, NEW to \in Nat \cup {Absent},
           to < f.idx, Rising(q, from, to), Once(q)
    PROVE  Once(q \o <<e, f>>) /\ Once(Append(q, f))
<1>1. /\ \A n \in DOMAIN q : q[n].idx \in Nat /\ q[n].idx <= to
      /\ f.idx \in Nat
  <2>1. \A n \in DOMAIN q : q[n] \in CallbackType
    OBVIOUS
  <2> QED BY <2>1 DEF CallbackType, Rising
<1>2. \A n \in DOMAIN q : q[n].idx # f.idx
  BY <1>1 DEF Absent
<1>3. Once(Append(q, f))
  BY <1>2, OnceOne
<1> DEFINE r == Append(q, e)
<1>4. r \in Seq(CallbackType) /\ Once(r)
  BY AppendOne, OnceOne
<1>5. \A n \in DOMAIN r : r[n].cb = "status" => r[n].idx # f.idx
  <2>1. /\ Len(q) \in Nat /\ DOMAIN q = 1 .. Len(q) /\ DOMAIN r = 1 .. Len(q) + 1
        /\ \A n \in 1 .. Len(q) : r[n] = q[n]
        /\ r[Len(q) + 1] = e
    BY AppendProperties
  <2> HIDE DEF r
  <2>2. \A n \in DOMAIN r : n \in DOMAIN q \/ n = Len(q) + 1
    BY <2>1
  <2> QED BY <1>2, <2>1, <2>2
<1>6. q \o <<e, f>> = Append(r, f)
  OBVIOUS
<1> HIDE DEF r
<1>7. Once(Append(r, f))
  BY <1>4, <1>5, OnceOne
<1> QED BY <1>3, <1>6, <1>7

\* A frame above the mark is declared lost.
LEMMA LossTold ==
    ASSUME NEW s \in StateType, NEW from \in Nat \cup {Absent}, Told(s, from),
           NEW i \in Nat, i > s.finished
    PROVE  LET t == MarkFinished(DeclareLoss(s, i), i)
           IN  Told(t, from) /\ t.finished = i
<1> DEFINE e == Callback("lost", i)
           f == Callback("status", i)
           l == DeclareLoss(s, i)
           t == MarkFinished(l, i)
<1>1. /\ e \in CallbackType /\ f \in CallbackType /\ e.idx = i /\ f.idx = i
      /\ e.cb # "status"
  BY DEF Callback, CallbackType
<1>2. l.out = s.out \o <<e, f>> /\ l.finished = s.finished /\ l \in StateType
  <2>1. l.out = s.out \o <<e, f>>
    BY DEF DeclareLoss, StateType
  <2> QED BY <2>1, LossFields
<1> HIDE DEF l
<1>3. t.out = l.out /\ t.finished = i
  BY <1>2 DEF MarkFinished, StateType
<1>4. /\ s.out \in Seq(CallbackType) /\ s.finished \in Nat \cup {Absent}
      /\ from < i /\ s.finished < i /\ s.finished <= i
  BY DEF Told, StateType, Absent
<1> HIDE DEF t, e, f
<1>5. Rising(s.out \o <<e, f>>, from, i) /\ Once(s.out \o <<e, f>>)
  <2>1. Rising(s.out, from, s.finished) /\ Once(s.out)
    BY DEF Told
  <2>2. Rising(s.out \o <<e, f>>, from, i)
    BY <1>1, <1>4, <2>1, TellTwo
  <2>3. Once(s.out \o <<e, f>>)
    BY <1>1, <1>4, <2>1, OnceAbove
  <2> QED BY <2>2, <2>3
<1>6. Told(t, from)
  <2>1. from <= i
    BY <1>4 DEF Absent
  <2> QED BY <1>2, <1>3, <1>5, <2>1 DEF Told
<1> QED BY <1>3, <1>6 DEF t, l

\* The frame in progress is given up.
LEMMA AbandonTold ==
    ASSUME NEW s \in StateType, NEW from \in Nat \cup {Absent}, Told(s, from),
           Newer(s), s.asm.active
    PROVE  Told(Abandon(s), from) /\ Abandon(s).finished = s.asm.idx
<1> DEFINE i == s.asm.idx
           u == MarkFinished(DeclareLoss(s, i), i)
<1>1. i \in Nat /\ i > s.finished
  BY DEF Newer, StateType, AssemblyType
<1>2. Told(u, from) /\ u.finished = i
  BY <1>1, LossTold
<1>3. u \in StateType
  <2>1. DeclareLoss(s, i) \in StateType
    BY <1>1, LossFields
  <2> QED BY <1>1, <2>1, MarkFields
<1> HIDE DEF u, i
<1>4. Close(u).out = u.out /\ Close(u).finished = u.finished
  BY <1>3 DEF Close, StateType
<1> QED BY <1>2, <1>4 DEF Told, Abandon, u, i

\* The frame in progress is complete.
LEMMA FinishTold ==
    ASSUME NEW s \in StateType, NEW from \in Nat \cup {Absent}, Told(s, from),
           Newer(s), s.asm.active, NEW luck
    PROVE  Told(Finish(s, luck), from) /\ Finish(s, luck).finished = s.asm.idx
<1> DEFINE i == s.asm.idx
           e == Callback("frame", i)
           f == Callback("status", i)
           c == CompleteWithStatus(s)
           u == MarkFinished(c, i)
           t == Close(u)
<1>1. i \in Nat /\ i > s.finished
  BY DEF Newer, StateType, AssemblyType
<1>2. /\ e \in CallbackType /\ f \in CallbackType /\ e.idx = i /\ f.idx = i
      /\ e.cb # "status"
  BY <1>1 DEF Callback, CallbackType
<1>3. c \in StateType /\ c.finished = s.finished
  BY CompleteFields
<1>4. c.out = s.out \o <<e, f>> \/ c.out = Append(s.out, f)
  BY DEF CompleteWithStatus, StateType
<1> HIDE DEF c
<1>5. u.out = c.out /\ u.finished = i /\ u \in StateType
  BY <1>1, <1>3 DEF MarkFinished, StateType
<1> HIDE DEF u
<1>6. t.out = u.out /\ t.finished = u.finished
  BY <1>5 DEF Close, StateType
<1>7. /\ s.out \in Seq(CallbackType) /\ s.finished \in Nat \cup {Absent}
      /\ from < i /\ s.finished < i /\ s.finished <= i
  BY <1>1 DEF Told, StateType, Absent
<1> HIDE DEF t, e, f, i
<1>8. Rising(c.out, from, i) /\ Once(c.out)
  <2>1. Rising(s.out, from, s.finished) /\ Once(s.out)
    BY DEF Told
  <2>2. Once(s.out \o <<e, f>>) /\ Once(Append(s.out, f))
    BY <1>2, <1>7, <2>1, OnceAbove
  <2>3. CASE c.out = s.out \o <<e, f>>
    BY <1>2, <1>7, <2>1, <2>2, <2>3, TellTwo
  <2>4. CASE c.out = Append(s.out, f)
    BY <1>2, <1>7, <2>1, <2>2, <2>4, TellOne
  <2> QED BY <1>4, <2>3, <2>4
<1>9. Told(t, from) /\ t.finished = i
  BY <1>1, <1>5, <1>6, <1>7, <1>8 DEF Told, Absent
<1>10. Finish(s, luck) = IF Usable(s.asm, luck) THEN t ELSE Abandon(s)
  BY DEF Finish, t, u, c, i
<1> QED BY <1>9, <1>10, AbandonTold DEF i

\* AddPacket, up to its return, reports what it closes and nothing beyond the
\* frame of its packet.
LEMMA AcceptTold ==
    ASSUME NEW s \in StateType, NEW from \in Nat \cup {Absent}, Told(s, from),
           NEW pkt \in Packets, NEW luck,
           Core(s), Waiting(s), Restarted(s, pkt.sof /\ pkt.key),
           s.finished < pkt.idx, pkt.d # 0
    PROVE  /\ Told(Accept(s, pkt, luck), from)
           /\ Accept(s, pkt, luck).finished <= pkt.idx
<1> DEFINE k == pkt.sof /\ pkt.key
           marked == s.finished # Absent
           t == Supersede(s, pkt, luck)
           g == NoteGap(t, pkt, marked)
           b == Begin(t, pkt, marked)
           a == Store(b, pkt, luck)
<1>1. /\ k \in BOOLEAN /\ marked \in BOOLEAN /\ pkt.idx \in Nat
      /\ pkt \in PacketType
  BY PacketsAssumption DEF PacketType
<1>2. /\ t \in StateType /\ Core(t) /\ Restarted(t, k) /\ Waiting(t)
      /\ t.finished < pkt.idx
      /\ marked \/ t.finished = Absent \/ t.needKey
  BY <1>1, SupersedeIsCore
<1>3. Told(t, from) /\ (marked => t.finished # Absent)
  <2>1. CASE s.asm.active /\ pkt.idx > s.asm.idx
    <3>1. t = Abandon(s)
      BY <2>1 DEF Supersede, Waiting
    <3>2. Told(t, from) /\ t.finished = s.asm.idx
      BY <2>1, <3>1, AbandonTold DEF Core
    <3> QED BY <3>2 DEF StateType, AssemblyType, Absent
  <2>2. CASE ~(s.asm.active /\ pkt.idx > s.asm.idx)
    BY <2>2 DEF Supersede
  <2> QED BY <2>1, <2>2
<1> HIDE DEF t, marked
<1>4. Good(b)
  BY <1>1, <1>2, <1>3, BeginIsGood
<1>5. Told(b, from) /\ b.finished <= pkt.idx
  <2>1. CASE t.asm.active
    <3>1. b = t
      BY <2>1 DEF Begin
    <3> QED BY <1>1, <1>2, <1>3, <3>1 DEF StateType, Absent
  <2>2. CASE ~t.asm.active
    <3>1. /\ g \in StateType /\ g.finished < pkt.idx
      BY <1>1, <1>2, <1>3, <2>2, NoteGapIsCore
    <3>2. Told(g, from)
      <4> DEFINE i == pkt.idx - 1
      <4>1. CASE marked /\ pkt.idx > t.finished + 1
        <5>1. i \in Nat /\ i > t.finished
          BY <1>1, <1>2, <4>1 DEF StateType, Absent
        <5>2. g = MarkFinished(DeclareLoss(t, i), i)
          BY <4>1 DEF NoteGap
        <5> HIDE DEF i, g
        <5> QED BY <1>2, <1>3, <5>1, <5>2, LossTold
      <4>2. CASE ~(marked /\ pkt.idx > t.finished + 1)
        BY <1>3, <4>2 DEF NoteGap
      <4> QED BY <4>1, <4>2
    <3>3. b = IF pkt.sof \/ pkt.p > 0 THEN [g EXCEPT !.asm = Started(pkt)]
              ELSE MarkFinished(DeclareLoss(g, pkt.idx), pkt.idx)
      BY <2>2 DEF Begin
    <3> HIDE DEF g, b
    <3>4. CASE pkt.sof \/ pkt.p > 0
      <4>1. b.finished = g.finished /\ b.out = g.out
        BY <3>1, <3>3, <3>4 DEF StateType
      <4> QED BY <1>1, <3>1, <3>2, <4>1 DEF Told, StateType, Absent
    <3>5. CASE ~(pkt.sof \/ pkt.p > 0)
      <4>1. Told(b, from) /\ b.finished = pkt.idx
        BY <1>1, <3>1, <3>2, <3>3, <3>5, LossTold
      <4> QED BY <1>1, <4>1
    <3> QED BY <3>4, <3>5
  <2> QED BY <2>1, <2>2
<1> HIDE DEF b
<1>6. b \in StateType /\ Newer(b)
  BY <1>4 DEF Good, Core
<1>7. Told(a, from) /\ a.finished <= pkt.idx
  <2> DEFINE f == Fill(b, pkt)
  <2>1. CASE ~b.asm.active \/ pkt.idx # b.asm.idx
    BY <1>5, <2>1 DEF Store
  <2>2. CASE b.asm.active /\ pkt.idx = b.asm.idx
    <3>1. /\ f \in StateType /\ f.finished = b.finished /\ f.out = b.out
          /\ f.asm.active /\ f.asm.idx = b.asm.idx /\ f.asm.d = b.asm.d
      <4> DEFINE shards == IF Filled(b.asm, pkt.i) THEN b.asm.shards
                           ELSE b.asm.shards \cup {pkt}
                 rfi == IF pkt.sof THEN pkt.rfi ELSE b.asm.rfi
                 n == [b.asm EXCEPT !.shards = shards, !.rfi = rfi]
      <4>1. shards \in SUBSET Packets /\ rfi \in BOOLEAN
        BY <1>1, <1>6 DEF StateType, AssemblyType, PacketType
      <4> HIDE DEF shards, rfi
      <4>2. /\ n \in AssemblyType /\ n.active = b.asm.active
            /\ n.idx = b.asm.idx /\ n.d = b.asm.d
        BY <1>6, <4>1 DEF StateType, AssemblyType
      <4> HIDE DEF n
      <4>3. f = [b EXCEPT !.asm = n]
        BY DEF Fill, n, shards, rfi
      <4> QED BY <1>6, <2>2, <4>2, <4>3 DEF StateType
    <3>2. a = Abandon(b) \/ a = Finish(f, luck) \/ a = f
      <4> DEFINE other == pkt.d # b.asm.d \/ pkt.d + pkt.p # b.asm.d + b.asm.p
                 done == AllData(f.asm) \/ EnoughForFec(f.asm)
      <4>1. a = IF other THEN Abandon(b) ELSE IF done THEN Finish(f, luck) ELSE f
        BY <2>2 DEF Store
      <4> HIDE DEF other, done, a, f
      <4> QED BY <4>1
    <3> HIDE DEF f, a
    <3>3. Told(f, from) /\ Newer(f)
      <4>1. Told(f, from)
        BY <1>5, <3>1 DEF Told
      <4>2. b.asm.idx > b.finished /\ b.asm.d # 0
        BY <1>6, <2>2 DEF Newer
      <4>3. Newer(f)
        BY <3>1, <4>2 DEF Newer
      <4> QED BY <4>1, <4>3
    <3>4. CASE a = Abandon(b)
      BY <1>1, <1>5, <1>6, <2>2, <3>4, AbandonTold
    <3>5. CASE a = Finish(f, luck)
      BY <1>1, <2>2, <3>1, <3>3, <3>5, FinishTold
    <3>6. CASE a = f
      BY <1>5, <3>1, <3>3, <3>6
    <3> QED BY <3>2, <3>4, <3>5, <3>6
  <2> QED BY <2>1, <2>2
<1> QED BY <1>7 DEF Accept, a, b, t, marked

(***************************************************************************)
(* For every set of packets: no frame is reported twice within a stream,    *)
(* and none is delivered after it was declared lost                         *)
(* (gr_udp_protocol.h:474, 515).                                            *)
(***************************************************************************)
THEOREM OneStatusEach == Spec => []StatusOnceInOrder
<1>1. IInv => StatusOnceInOrder
  <2> SUFFICES ASSUME IInv, NEW pkt \in Packets, NEW luck \in BOOLEAN,
                      Handle(rx, pkt, luck).finished >= finished
               PROVE  LET s == Handle(rx, pkt, luck)
                      IN  Rising(s.out, finished, s.finished)
    BY DEF StatusOnceInOrder, Rising
  <2> DEFINE h == Handle(rx, pkt, luck)
  <2>1. /\ rx \in StateType /\ rx.finished = finished /\ rx.out = <<>> /\ Good(rx)
        /\ finished \in Nat \cup {Absent}
    BY DEF IInv, Good, Core, rx, StateType
  <2>2. pkt.idx \in Nat /\ pkt.sof \in BOOLEAN /\ pkt.key \in BOOLEAN
    BY PacketsAssumption DEF PacketType
  <2>3. Told(rx, finished)
    BY <2>1 DEF Told, Rising, Once, Absent
  <2>4. CASE h = rx
    BY <2>1, <2>4 DEF Rising
  <2>5. CASE ~Malformed(pkt) /\ ~Late(rx, pkt)
    <3>1. pkt.d # 0 /\ finished < pkt.idx
      BY <2>1, <2>2, <2>5 DEF Malformed, Late, Absent
    <3>2. Restarted(rx, pkt.sof /\ pkt.key) /\ Core(rx) /\ Waiting(rx)
      BY <2>1 DEF Good, Restarted
    <3>3. h = Accept(rx, pkt, luck)
      BY <2>5 DEF Handle
    <3>4. Told(h, finished)
      BY <2>1, <2>3, <3>1, <3>2, <3>3, AcceptTold
    <3> QED BY <3>4 DEF Told
  <2>6. CASE ~Malformed(pkt) /\ Late(rx, pkt) /\ NewStream(rx, pkt)
    <3> DEFINE t == Forget(rx)
    <3>1. /\ t \in StateType /\ t.asm = Idle /\ ~t.needKey /\ t.out = <<>>
          /\ t.finished = Absent /\ t.last = last /\ t.prev = prev
      BY <2>1, IdleType DEF Forget, StateType, rx
    <3>2. h = Accept(t, pkt, luck)
      BY <2>6 DEF Handle
    <3> HIDE DEF t
    <3>3. Core(t) /\ Waiting(t) /\ Restarted(t, pkt.sof /\ pkt.key)
      BY <2>1, <2>6, <3>1, IdleType
      DEF Good, Core, Synced, Chained, Newer, Adjacent, Restarted, Waiting, NewStream, rx
    <3>4. pkt.d # 0 /\ t.finished < pkt.idx /\ Told(t, Absent)
      BY <2>2, <2>6, <3>1 DEF Malformed, Told, Rising, Once, Absent
    <3>5. h.finished <= pkt.idx /\ h \in StateType
      BY <3>1, <3>2, <3>3, <3>4, AcceptTold, AcceptIsGood DEF Good, Core
    <3>6. pkt.idx < finished
      BY <2>1, <2>6 DEF NewStream
    <3> HIDE DEF h
    <3>7. FALSE
      BY <2>1, <2>2, <3>5, <3>6 DEF StateType, Absent, h
    <3> QED BY <3>7
  <2> QED BY <2>4, <2>5, <2>6 DEF Handle
<1> QED BY <1>1, IInvHolds, PTL
=============================================================================
