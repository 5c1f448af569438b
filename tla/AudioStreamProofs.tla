------------------------- MODULE AudioStreamProofs -------------------------
(***************************************************************************)
(* Proofs about JitterBuffer for every limit and every set of sequence      *)
(* numbers: the buffer is bounded, holds open numbers only, and settles     *)
(* each number in order and once.  Proofs about AudioStream for every       *)
(* channel and every restart of the sender: a restarted sender is heard     *)
(* again in time, and outages of up to MaxBuffered times MaxConsecutiveLost *)
(* packets are made up for.                                                 *)
(***************************************************************************)
EXTENDS AudioStream, FiniteSetTheorems, WellFoundedInduction, TLAPS

\* Every part of the buffer has a newest packet.
Ordered(b) == \A S \in SUBSET b : S # {} => \E n \in S : \A m \in S : m <= n

BufferInv ==
    /\ TypeOK
    /\ OnlyOpenNumbers
    /\ NothingHeldBack
    /\ Ordered(packets)
    /\ ~inited => packets = {} /\ ~draining

-----------------------------------------------------------------------------
\* A buffer that is not empty has a newest packet, and Newest is it.
LEMMA NewestIsIn ==
    ASSUME NEW b, b # {}, Ordered(b)
    PROVE  Newest(b) \in b /\ \A m \in b : m <= Newest(b)
BY DEF Ordered, Newest

\* Every part of an ordered buffer is ordered.
LEMMA OrderedPart ==
    ASSUME NEW b, NEW c \in SUBSET b, Ordered(b)
    PROVE  Ordered(c)
BY DEF Ordered

\* Adding a packet keeps a buffer ordered.
LEMMA OrderedAdd ==
    ASSUME NEW b \in SUBSET Nat, Ordered(b), NEW seq \in Nat
    PROVE  Ordered(b \cup {seq})
<1> SUFFICES ASSUME NEW S \in SUBSET (b \cup {seq}), S # {}
             PROVE  \E n \in S : \A m \in S : m <= n
  BY DEF Ordered
<1>1. CASE S \subseteq b
  BY <1>1 DEF Ordered
<1>2. CASE S \ {seq} = {}
  <2>1. S = {seq}
    BY <1>2
  <2> QED BY <2>1
<1>3. CASE seq \in S /\ S \ {seq} # {}
  <2> DEFINE R == S \ {seq}
  <2>1. R \in SUBSET b /\ R # {}
    BY <1>3
  <2>2. PICK n \in R : \A m \in R : m <= n
    BY <2>1 DEF Ordered
  <2>3. n \in Nat /\ R \subseteq Nat
    BY <2>1
  <2>4. CASE seq <= n
    BY <2>2, <2>4
  <2>5. CASE n < seq
    <3>1. \A m \in S : m <= seq
      BY <2>2, <2>3, <2>5
    <3> QED BY <1>3, <3>1
  <2> QED BY <2>3, <2>4, <2>5
<1> QED BY <1>1, <1>2, <1>3

\* Insert keeps the buffer within its limit: what it adds, or the newest, goes.
LEMMA InsertFits ==
    ASSUME NEW b \in SUBSET Nat, IsFiniteSet(b), Ordered(b),
           Cardinality(b) <= MaxBuffered, NEW seq \in Nat
    PROVE  LET c == Insert(b, seq)
           IN  /\ c \subseteq b \cup {seq} /\ IsFiniteSet(c) /\ Ordered(c)
               /\ Cardinality(c) <= MaxBuffered
<1> DEFINE c == b \cup {seq}
<1>1. /\ IsFiniteSet(c)
      /\ Cardinality(c) = IF seq \in b THEN Cardinality(b) ELSE Cardinality(b) + 1
  BY FS_AddElement
<1>2. Cardinality(b) \in Nat /\ Cardinality(c) \in Nat /\ MaxBuffered \in Nat
  BY <1>1, FS_CardinalityType, BufferAssumption
<1>3. Ordered(c)
  BY OrderedAdd
<1>4. CASE Cardinality(c) <= MaxBuffered
  BY <1>1, <1>2, <1>3, <1>4 DEF Insert
<1>5. CASE Cardinality(c) > MaxBuffered
  <2> DEFINE n == Newest(c)
  <2>1. n \in c
    BY <1>3, NewestIsIn
  <2>2. /\ IsFiniteSet(c \ {n}) /\ Cardinality(c \ {n}) = Cardinality(c) - 1
    BY <1>1, <2>1, FS_RemoveElement
  <2>3. Ordered(c \ {n})
    BY <1>3, OrderedPart
  <2>4. Insert(b, seq) = c \ {n}
    BY <1>5 DEF Insert
  <2>5. Cardinality(c) - 1 <= MaxBuffered
    BY <1>1, <1>2
  <2> QED BY <2>2, <2>3, <2>4, <2>5
<1> QED BY <1>2, <1>4, <1>5

-----------------------------------------------------------------------------
\* The invariant holds at the start.
LEMMA InitHolds == Init => BufferInv
<1> SUFFICES ASSUME Init PROVE BufferInv
  OBVIOUS
<1>1. IsFiniteSet(packets) /\ Cardinality(packets) = 0
  BY FS_EmptySet DEF Init
<1>2. TypeOK
  <2>1. lost \in 0 .. MaxConsecutiveLost
    BY BufferAssumption DEF Init
  <2>2. told \in {"none", "frame", "lost"} \X Nat
    BY DEF Init, Silent
  <2>3. packets \subseteq Nat /\ inited \in BOOLEAN /\ expected \in Nat
          /\ draining \in BOOLEAN
    BY DEF Init
  <2> QED BY <1>1, <2>1, <2>2, <2>3 DEF TypeOK
<1>3. OnlyOpenNumbers /\ NothingHeldBack /\ Ordered(packets)
  BY <1>1, BufferAssumption DEF Init, OnlyOpenNumbers, NothingHeldBack, Ordered
<1> QED BY <1>2, <1>3 DEF Init, BufferInv

\* Taking a packet, or refusing it, keeps the invariant.
LEMMA AddHolds ==
    ASSUME BufferInv, NEW seq \in Nat, Add(seq)
    PROVE  BufferInv'
<1> DEFINE held == IF FarBehind(seq) THEN {} ELSE packets
<1>1. seq \in Nat
  OBVIOUS
<1>2. /\ held \in SUBSET Nat /\ IsFiniteSet(held) /\ Ordered(held)
      /\ Cardinality(held) <= MaxBuffered
      /\ \A n \in held : n >= expected'
  <2>1. CASE FarBehind(seq)
    <3>1. IsFiniteSet({}) /\ Cardinality({}) = 0
      BY FS_EmptySet
    <3> QED BY <2>1, <3>1, BufferAssumption DEF Ordered
  <2>2. CASE ~FarBehind(seq)
    BY <2>2 DEF BufferInv, TypeOK, OnlyOpenNumbers, Add
  <2> QED BY <2>1, <2>2
<1>3. expected' \in Nat /\ inited' = TRUE /\ told' = Silent
  BY <1>1 DEF Add, BufferInv, TypeOK
<1>4. CASE seq < expected' \/ Refuses(held, seq)
  <2>1. packets' = held /\ UNCHANGED <<draining, lost>> /\ ~draining
    BY <1>4 DEF Add
  <2>2. NothingHeldBack'
    <3>1. CASE FarBehind(seq)
      BY <2>1, <3>1 DEF NothingHeldBack
    <3>2. CASE ~inited
      BY <2>1, <3>2 DEF BufferInv, NothingHeldBack, FarBehind
    <3>3. CASE inited /\ ~FarBehind(seq)
      <4>1. expected' = expected /\ packets' = packets
        BY <2>1, <3>3 DEF Add
      <4> QED BY <2>1, <4>1 DEF BufferInv, NothingHeldBack
    <3> QED BY <3>1, <3>2, <3>3
  <2> HIDE DEF held
  <2> QED BY <1>2, <1>3, <2>1, <2>2
      DEF BufferInv, TypeOK, OnlyOpenNumbers, Silent
<1>5. CASE ~(seq < expected' \/ Refuses(held, seq))
  <2>1. packets' = Insert(held, seq) /\ draining' = TRUE /\ lost' = 0
    BY <1>5 DEF Add
  <2> HIDE DEF held
  <2>2. /\ packets' \subseteq held \cup {seq} /\ IsFiniteSet(packets')
        /\ Ordered(packets') /\ Cardinality(packets') <= MaxBuffered
    BY <1>1, <1>2, <2>1, InsertFits
  <2>3. \A n \in packets' : n >= expected' /\ n \in Nat
    BY <1>1, <1>2, <1>3, <1>5, <2>2
  <2> QED BY <1>3, <2>1, <2>2, <2>3, BufferAssumption
      DEF BufferInv, TypeOK, OnlyOpenNumbers, NothingHeldBack, Silent
<1> QED BY <1>4, <1>5

\* Playing the expected packet keeps the invariant.
LEMMA PlayHolds == BufferInv /\ Play => BufferInv'
<1> SUFFICES ASSUME BufferInv, Play PROVE BufferInv'
  OBVIOUS
<1>1. /\ IsFiniteSet(packets')
      /\ Cardinality(packets') = Cardinality(packets) - 1
      /\ Cardinality(packets) \in Nat
  BY FS_RemoveElement, FS_CardinalityType DEF BufferInv, TypeOK, Play
<1>2. Ordered(packets')
  BY OrderedPart DEF BufferInv, Play
<1>3. \A n \in packets' : n >= expected'
  <2> TAKE n \in packets'
  <2>1. n \in packets /\ n # expected /\ n \in Nat /\ expected \in Nat
    BY DEF BufferInv, TypeOK, Play
  <2>2. n >= expected
    BY <2>1 DEF BufferInv, OnlyOpenNumbers
  <2> QED BY <2>1, <2>2 DEF Play
<1> QED BY <1>1, <1>2, <1>3, BufferAssumption
    DEF BufferInv, TypeOK, OnlyOpenNumbers, NothingHeldBack, Play

\* Giving up the expected number keeps the invariant.
LEMMA ConcealHolds == BufferInv /\ Conceal => BufferInv'
<1> SUFFICES ASSUME BufferInv, Conceal PROVE BufferInv'
  OBVIOUS
<1>1. \A n \in packets' : n >= expected'
  <2> TAKE n \in packets'
  <2>1. n \in packets /\ n # expected /\ n \in Nat /\ expected \in Nat
    BY DEF BufferInv, TypeOK, Conceal
  <2>2. n >= expected
    BY <2>1 DEF BufferInv, OnlyOpenNumbers
  <2> QED BY <2>1, <2>2 DEF Conceal
<1>2. lost' \in 0 .. MaxConsecutiveLost
  BY BufferAssumption DEF BufferInv, TypeOK, Conceal, GivesUp
<1>3. told' \in {"none", "frame", "lost"} \X Nat /\ expected' \in Nat
  BY DEF BufferInv, TypeOK, Conceal
<1>4. TypeOK'
  BY <1>2, <1>3 DEF BufferInv, TypeOK, Conceal
<1>5. OnlyOpenNumbers' /\ NothingHeldBack' /\ Ordered(packets)'
  BY <1>1 DEF BufferInv, OnlyOpenNumbers, NothingHeldBack, Conceal, Ordered
<1> QED BY <1>4, <1>5 DEF BufferInv, Conceal

\* A Drain that stops has given up all it may.
LEMMA ReturnHolds == BufferInv /\ Return => BufferInv'
<1> SUFFICES ASSUME BufferInv, Return PROVE BufferInv'
  OBVIOUS
<1>1. packets # {} /\ Newest(packets) > expected + 2 => lost = MaxConsecutiveLost
  BY BufferAssumption DEF BufferInv, TypeOK, Return, GivesUp
<1>2. NothingHeldBack'
  BY <1>1 DEF NothingHeldBack, Return
<1> QED BY <1>2 DEF BufferInv, TypeOK, OnlyOpenNumbers, Return, Ordered, Silent

\* A step of Drain keeps the invariant.
LEMMA DrainHolds == BufferInv /\ Drain => BufferInv'
BY PlayHolds, ConcealHolds, ReturnHolds DEF Drain

\* A reset starts over.
LEMMA ResetHolds == Reset => BufferInv'
<1>1. Reset => Init'
  BY DEF Reset, Init
<1> QED BY <1>1, InitHolds, PTL

\* A step that leaves the buffer alone keeps the invariant.
LEMMA SameHolds == BufferInv /\ UNCHANGED vars => BufferInv'
BY DEF vars, BufferInv, TypeOK, OnlyOpenNumbers, NothingHeldBack, Ordered

\* Every step keeps the invariant.
LEMMA NextHolds == BufferInv /\ [Next]_vars => BufferInv'
<1> SUFFICES ASSUME BufferInv, [Next]_vars PROVE BufferInv'
  OBVIOUS
<1>1. ASSUME NEW seq \in Seqs, Add(seq) PROVE BufferInv'
  BY <1>1, AddHolds, BufferAssumption
<1>2. CASE Drain
  BY <1>2, DrainHolds
<1>3. CASE Reset
  BY <1>3, ResetHolds
<1>4. CASE UNCHANGED vars
  BY <1>4, SameHolds
<1> QED BY <1>1, <1>2, <1>3, <1>4 DEF Next

\* The invariant holds always.
LEMMA AlwaysBufferInv == Spec => []BufferInv
BY InitHolds, NextHolds, PTL DEF Spec

-----------------------------------------------------------------------------
(***************************************************************************)
(* The buffer is a finite set of numbers and the counters stay in range.    *)
(***************************************************************************)
THEOREM TypeCorrect == Spec => []TypeOK
BY AlwaysBufferInv, PTL DEF BufferInv

(***************************************************************************)
(* The buffer stays within its limit and holds no settled number, for every *)
(* limit and every arrival order.                                           *)
(***************************************************************************)
THEOREM BufferIsBounded == Spec => []OnlyOpenNumbers
BY AlwaysBufferInv, PTL DEF BufferInv

(***************************************************************************)
(* What can be played is played before AddPacket returns, and a lag of more *)
(* than two numbers is left only when Drain has used up its share.          *)
(***************************************************************************)
THEOREM PlaysWhatItCan == Spec => []NothingHeldBack
BY AlwaysBufferInv, PTL DEF BufferInv

\* Every step is one of Playout or leaves it alone.
LEMMA StepRefines ==
    ASSUME BufferInv, [Next]_vars
    PROVE  [P!Next]_<<inited, expected, told>>
<1> USE DEF P!Next
<1>1. ASSUME NEW seq \in Seqs, Add(seq)
      PROVE  P!Next
  <2>1. seq \in Nat
    BY BufferAssumption
  <2>2. CASE ~inited
    BY <1>1, <2>2 DEF Add, P!Join, Silent
  <2>3. CASE FarBehind(seq)
    <3>1. seq + ResyncThreshold < expected
      BY <2>1, <2>3, BufferAssumption DEF FarBehind, BufferInv, TypeOK
    <3>2. P!Resync
      BY <1>1, <2>3, <3>1 DEF Add, P!Resync, Silent, FarBehind
    <3> QED BY <3>2
  <2>4. CASE inited /\ ~FarBehind(seq)
    BY <1>1, <2>4 DEF Add, P!Quiet, Silent
  <2> QED BY <2>2, <2>3, <2>4
<1>2. CASE Play
  BY <1>2 DEF Play, P!Settle, BufferInv
<1>3. CASE Conceal
  BY <1>3 DEF Conceal, P!Settle, BufferInv
<1>4. CASE Return
  BY <1>4 DEF Return, P!Quiet, Silent
<1>5. CASE Reset
  BY <1>5 DEF Reset, P!Clear, Silent
<1>6. CASE UNCHANGED vars
  BY <1>6 DEF vars
<1> QED BY <1>1, <1>2, <1>3, <1>4, <1>5, <1>6 DEF Next, Drain

(***************************************************************************)
(* The jitter buffer implements Playout: its callbacks settle the numbers   *)
(* of the stream in order and each exactly once.                            *)
(***************************************************************************)
THEOREM Refinement == Spec => ImplementsPlayout
<1>1. Init => P!Init
  BY DEF Init, P!Init, Silent
<1>2. BufferInv /\ [Next]_vars => [P!Next]_<<inited, expected, told>>
  BY StepRefines
<1> QED BY <1>1, <1>2, AlwaysBufferInv, PTL DEF Spec, ImplementsPlayout, P!Spec

-----------------------------------------------------------------------------
(***************************************************************************)
(* What the stream adds keeps its type, and the run of late packets is paid *)
(* for: the packets it may still cost to reach the expected number are at   *)
(* most ResyncThreshold, since the next one resynchronises when it is       *)
(* further away, and each stray packet pays for as many again, which covers *)
(* however far the drain after it moves the expected number.                *)
(***************************************************************************)
StillToCome ==
    IF draining \/ expected > sent + ResyncThreshold THEN ResyncThreshold
    ELSE IF expected > sent THEN expected - sent ELSE 0

Allowed(k) == ResyncThreshold * (k + 1)

Paid == muted + StillToCome <= Allowed(strays)

StreamInv ==
    /\ BufferInv
    /\ sent \in Nat /\ muted \in Nat /\ strays \in Nat
    /\ streak \in 0 .. MaxBuffered /\ streak <= sent
    /\ channel # "orderly" => streak = 0
    /\ channel = "wild" => muted = 0
    /\ Paid

\* What a further stray packet adds.
LEMMA OneMoreAllowed ==
    ASSUME NEW k \in Nat
    PROVE  /\ Allowed(k) \in Nat /\ Allowed(k) >= ResyncThreshold
           /\ Allowed(k + 1) = Allowed(k) + ResyncThreshold
<1>1. ResyncThreshold \in Nat
  BY BufferAssumption
<1>2. ResyncThreshold * k \in Nat /\ Allowed(k) = ResyncThreshold * k + ResyncThreshold
  BY <1>1 DEF Allowed
<1>3. Allowed(k + 1) = ResyncThreshold * k + ResyncThreshold + ResyncThreshold
  BY <1>1 DEF Allowed
<1> HIDE DEF Allowed
<1> QED BY <1>1, <1>2, <1>3

\* What is still to come never exceeds the threshold.
LEMMA StillBounded ==
    ASSUME sent \in Nat, expected \in Nat
    PROVE  StillToCome \in 0 .. ResyncThreshold
BY BufferAssumption DEF StillToCome

\* The same of the state after a step.
LEMMA StillBoundedNext ==
    (sent \in Nat /\ expected \in Nat => StillToCome \in 0 .. ResyncThreshold)'
<1>1. sent \in Nat /\ expected \in Nat => StillToCome \in 0 .. ResyncThreshold
  BY StillBounded
<1> QED BY <1>1, PTL

\* An arrival either finds its number settled, or is not late.
LEMMA LateArrival ==
    ASSUME StreamInv, Arrive, sent < expected'
    PROVE  /\ expected' = expected /\ expected <= sent + ResyncThreshold
           /\ packets' = packets /\ draining' = draining /\ lost' = lost
<1>1. sent \in Nat /\ expected \in Nat /\ ResyncThreshold \in Nat
  BY BufferAssumption DEF StreamInv, BufferInv, TypeOK
<1>2. inited /\ ~FarBehind(sent) /\ expected' = expected
  BY <1>1 DEF Arrive, Add
<1>3. expected <= sent + ResyncThreshold
  BY <1>1, <1>2 DEF FarBehind
<1> QED BY <1>2, <1>3 DEF Arrive, Add

\* Whoever has not been silent owes nothing.
LEMMA HeardIsPaid ==
    ASSUME BufferInv', sent' \in Nat, muted' = 0, strays' \in Nat
    PROVE  Paid'
<1>1. expected' \in Nat
  BY DEF BufferInv, TypeOK
<1>2. StillToCome' \in 0 .. ResyncThreshold
  BY <1>1, StillBoundedNext
<1>3. Allowed(strays') >= ResyncThreshold /\ Allowed(strays') \in Nat
  BY OneMoreAllowed
<1>4. muted' + StillToCome' <= Allowed(strays')
  BY <1>2, <1>3, BufferAssumption
<1> QED BY <1>4 DEF Paid, Allowed

\* An arrival keeps the stream's invariant.
LEMMA ArriveHolds == StreamInv /\ Arrive => StreamInv'
<1> SUFFICES ASSUME StreamInv, Arrive PROVE StreamInv'
  OBVIOUS
<1>1. /\ sent \in Nat /\ expected \in Nat /\ ResyncThreshold \in Nat
      /\ MaxBuffered \in Nat \ {0} /\ streak \in Nat /\ muted \in Nat /\ strays \in Nat
  BY BufferAssumption DEF StreamInv, BufferInv, TypeOK
<1>2. BufferInv'
  BY <1>1, AddHolds DEF StreamInv, Arrive
<1>3. /\ sent' \in Nat /\ muted' \in Nat /\ strays' \in Nat
      /\ streak' \in 0 .. MaxBuffered /\ streak' <= sent'
      /\ channel' # "orderly" => streak' = 0
      /\ channel' # "wild"
  BY <1>1 DEF StreamInv, Arrive
<1>4. CASE sent < expected'
  <2>1. /\ expected' = expected /\ expected <= sent + ResyncThreshold
        /\ draining' = draining
    BY <1>4, LateArrival
  <2>2. /\ ~draining /\ ~draining' /\ sent' = sent + 1 /\ muted' = muted + 1
        /\ strays' = strays
    BY <1>4, <2>1 DEF Arrive, Add
  <2>3. StillToCome = expected - sent /\ StillToCome' = expected - sent - 1
    BY <1>1, <1>4, <2>1, <2>2 DEF StillToCome
  <2>4. Allowed(strays') = Allowed(strays) /\ Allowed(strays) \in Nat
    BY <1>1, <2>2, OneMoreAllowed
  <2>5. muted + StillToCome <= Allowed(strays)
    BY DEF StreamInv, Paid
  <2>6. muted' + StillToCome' <= Allowed(strays')
    BY <1>1, <1>4, <2>1, <2>2, <2>3, <2>4, <2>5
  <2>7. Paid'
    BY <2>6 DEF Paid, Allowed
  <2> QED BY <1>2, <1>3, <2>7 DEF StreamInv
<1>5. CASE ~(sent < expected')
  <2>1. muted' = 0
    BY <1>5 DEF Arrive
  <2>2. Paid'
    BY <1>2, <1>3, <2>1, HeardIsPaid
  <2> QED BY <1>2, <1>3, <2>2 DEF StreamInv
<1> QED BY <1>4, <1>5

\* A stray packet pays for what it and the drain after it put off.
LEMMA StrayHolds ==
    ASSUME StreamInv, NEW seq \in Seqs, Stray(seq)
    PROVE  StreamInv'
<1>1. /\ sent \in Nat /\ expected \in Nat /\ ResyncThreshold \in Nat
      /\ muted \in Nat /\ strays \in Nat /\ seq \in Nat
  BY BufferAssumption DEF StreamInv, BufferInv, TypeOK
<1>2. BufferInv'
  BY <1>1, AddHolds DEF StreamInv, Stray
<1>3. strays' = strays + 1 /\ UNCHANGED <<channel, sent, streak, muted>>
  BY DEF Stray
<1>4. StillToCome \in 0 .. ResyncThreshold /\ StillToCome' \in 0 .. ResyncThreshold
  BY <1>1, <1>2, <1>3, StillBounded, StillBoundedNext DEF BufferInv, TypeOK
<1>5. Allowed(strays') = Allowed(strays) + ResyncThreshold /\ Allowed(strays) \in Nat
  BY <1>1, <1>3, OneMoreAllowed
<1>6. muted + StillToCome <= Allowed(strays)
  BY DEF StreamInv, Paid
<1>7. muted' + StillToCome' <= Allowed(strays')
  BY <1>1, <1>3, <1>4, <1>5, <1>6
<1>8. Paid'
  BY <1>7 DEF Paid, Allowed
<1> QED BY <1>1, <1>2, <1>3, <1>8 DEF StreamInv

\* Every step of the stream keeps its invariant.
LEMMA StreamNextHolds == StreamInv /\ [StreamNext]_streamVars => StreamInv'
<1> SUFFICES ASSUME StreamInv, [StreamNext]_streamVars PROVE StreamInv'
  OBVIOUS
<1>0. /\ sent \in Nat /\ expected \in Nat /\ muted \in Nat /\ strays \in Nat
      /\ ResyncThreshold \in Nat /\ MaxBuffered \in Nat \ {0}
      /\ Allowed(strays) \in Nat /\ muted + StillToCome <= Allowed(strays)
      /\ StillToCome \in 0 .. ResyncThreshold
  BY BufferAssumption, OneMoreAllowed, StillBounded DEF StreamInv, BufferInv, TypeOK, Paid
<1>1. CASE Wild
  <2>1. BufferInv'
    BY <1>1, AddHolds, InitHolds, ResetHolds, BufferAssumption DEF Wild, StreamInv
  <2>2. UNCHANGED <<channel, sent, streak, muted, strays>> /\ channel = "wild"
    BY <1>1 DEF Wild, surroundings
  <2>3. muted' = 0
    BY <2>2 DEF StreamInv
  <2>4. Paid'
    BY <1>0, <2>1, <2>2, <2>3, HeardIsPaid
  <2> QED BY <2>1, <2>2, <2>4 DEF StreamInv
<1>2. CASE Arrive
  BY <1>2, ArriveHolds
<1>3. CASE \E seq \in Seqs : Stray(seq)
  BY <1>3, StrayHolds
<1>4. CASE Drains
  <2>1. BufferInv' /\ draining /\ UNCHANGED surroundings
    BY <1>4, DrainHolds DEF Drains, StreamInv, Drain, Play, Conceal, Return
  <2>2. StillToCome = ResyncThreshold
    BY <2>1 DEF StillToCome
  <2>3. sent' \in Nat /\ expected' \in Nat
    BY <1>0, <2>1 DEF surroundings, BufferInv, TypeOK
  <2>4. StillToCome' \in 0 .. ResyncThreshold
    BY <2>3, StillBoundedNext
  <2>5. muted' = muted /\ strays' = strays
    BY <2>1 DEF surroundings
  <2>6. muted' + StillToCome' <= Allowed(strays)
    BY <1>0, <2>2, <2>4, <2>5
  <2>7. Paid'
    BY <2>5, <2>6 DEF Paid, Allowed
  <2> QED BY <2>1, <2>7 DEF StreamInv, surroundings
<1>5. ASSUME NEW n \in Outages, Lose(n) PROVE StreamInv'
  <2>1. n \in Nat
    BY StreamAssumption
  <2>2. BufferInv'
    BY <1>5, SameHolds DEF Lose, StreamInv
  <2>3. sent' = sent + n /\ streak' = 0 /\ UNCHANGED <<vars, channel, muted, strays>>
    BY <1>5 DEF Lose
  <2>4. expected' = expected /\ draining' = draining
    BY <2>3 DEF vars
  <2>5. StillToCome' <= StillToCome /\ StillToCome' \in Nat
    BY <1>0, <2>1, <2>3, <2>4 DEF StillToCome
  <2>6. muted' + StillToCome' <= Allowed(strays)
    BY <1>0, <2>3, <2>5
  <2>7. Paid'
    BY <2>3, <2>6 DEF Paid, Allowed
  <2> QED BY <1>0, <2>1, <2>2, <2>3, <2>7 DEF StreamInv
<1>6. CASE RestartSender
  <2>1. BufferInv'
    BY <1>6, SameHolds DEF RestartSender, StreamInv
  <2>2. sent' = 0 /\ streak' = 0 /\ muted' = 0 /\ strays' = 0
    BY <1>6 DEF RestartSender
  <2>3. Paid'
    BY <2>1, <2>2, HeardIsPaid
  <2> QED BY <1>0, <2>1, <2>2, <2>3 DEF StreamInv
<1>7. CASE UNCHANGED streamVars
  <2>1. BufferInv'
    BY <1>7, SameHolds DEF streamVars, StreamInv
  <2>2. /\ UNCHANGED surroundings /\ expected' = expected /\ draining' = draining
    BY <1>7 DEF streamVars, vars
  <2>3. Paid'
    BY <2>2 DEF surroundings, StreamInv, Paid, StillToCome
  <2> QED BY <2>1, <2>2, <2>3 DEF surroundings, StreamInv
<1> QED BY <1>1, <1>2, <1>3, <1>4, <1>5, <1>6, <1>7 DEF StreamNext

\* The stream's invariant holds always.
LEMMA AlwaysStreamInv == StreamSpec => []StreamInv
<1>1. StreamInit => StreamInv
  <2> SUFFICES ASSUME StreamInit PROVE StreamInv
    OBVIOUS
  <2>1. BufferInv
    BY InitHolds DEF StreamInit
  <2>2. sent = 0 /\ streak = 0 /\ muted = 0 /\ strays = 0 /\ expected = 0 /\ ~draining
    BY DEF StreamInit, Init
  <2>3. StillToCome = 0 /\ Allowed(strays) \in Nat
    BY <2>2, BufferAssumption, OneMoreAllowed DEF StillToCome
  <2>4. Paid
    BY <2>2, <2>3 DEF Paid
  <2> QED BY <2>1, <2>2, <2>4, BufferAssumption DEF StreamInv
<1> QED BY <1>1, StreamNextHolds, PTL DEF StreamSpec

(***************************************************************************)
(* For any limits, any number of restarts, and stray packets of any numbers *)
(* before and after them: a restarted sender is heard again after at most   *)
(* ResyncThreshold of its packets, and as many again for every stray packet *)
(* that came since it was last heard (gr_udp_protocol.h:832-835).           *)
(***************************************************************************)
THEOREM RestartsAreHeard == StreamSpec => []SilenceBounded
<1>1. StreamInv => SilenceBounded
  <2> SUFFICES ASSUME StreamInv PROVE SilenceBounded
    OBVIOUS
  <2>1. /\ muted \in Nat /\ Allowed(strays) \in Nat
        /\ StillToCome \in 0 .. ResyncThreshold
        /\ muted + StillToCome <= Allowed(strays)
    BY OneMoreAllowed, StillBounded DEF StreamInv, BufferInv, TypeOK, Paid
  <2>2. muted <= Allowed(strays)
    BY <2>1, BufferAssumption
  <2> QED BY <2>2 DEF SilenceBounded, Allowed
<1> QED BY <1>1, AlwaysStreamInv, PTL

(***************************************************************************)
(* On any of the channels, with numbers outside Seqs too, nothing that can be    *)
(* played is held back between packets.                                     *)
(***************************************************************************)
THEOREM StreamPlaysWhatItCan == StreamSpec => []NothingHeldBack
BY AlwaysStreamInv, PTL DEF StreamInv, BufferInv

(***************************************************************************)
(* On any of the channels the callbacks settle the numbers in order, each once:  *)
(* outages and restarts of the sender are steps Playout does not see.       *)
(***************************************************************************)
THEOREM StreamRefinement ==
    ASSUME 0 .. MaxSeq \subseteq Seqs PROVE StreamSpec => ImplementsPlayout
<1>1. StreamInit => Init
  BY DEF StreamInit
<1>2. StreamInv /\ [StreamNext]_streamVars => [Next]_vars
  <2>1. StreamInv /\ Arrive => \E seq \in Seqs : Add(seq)
    BY StreamAssumption DEF StreamInv, Arrive
  <2> QED BY <2>1 DEF StreamNext, streamVars, Next, Wild, Stray, Drains, Lose, RestartSender
<1> QED BY <1>1, <1>2, AlwaysStreamInv, Refinement, PTL DEF StreamSpec, Spec

-----------------------------------------------------------------------------
(***************************************************************************)
(* Outages.  Every arrival lets Drain give up MaxConsecutiveLost numbers,   *)
(* so Room(k) numbers are settled by the arrivals that fill a buffer of k   *)
(* packets.  The argument is that the buffer never fills: each packet in it *)
(* is within the room that it and the packets above it leave.               *)
(***************************************************************************)
ShortOutages ==
    /\ MaxBuffered >= 3 /\ MaxConsecutiveLost >= 1
    /\ \A n \in Outages : n <= MaxBuffered * MaxConsecutiveLost

Room(k) == (MaxBuffered - k) * MaxConsecutiveLost

\* How far the drain that runs may still get by giving numbers up.
Reach == IF draining THEN expected + (MaxConsecutiveLost - lost) ELSE expected

From(n) == {m \in packets : m >= n}

RoomAhead == \A n \in packets : n <= Reach + Room(Cardinality(From(n)))

\* The k numbers before end have arrived, and those before them are in reach.
Follows(end, k) ==
    /\ end <= k + Reach + Room(k)
    /\ \A n \in Nat : end <= n + k /\ n < end /\ n >= expected => n \in packets

\* An outage or a restart may come while the last arrival is being drained.
Keeping ==
    IF draining /\ streak = 0
    THEN \E end \in Nat : Follows(end, MaxBuffered) /\ sent <= end + Room(0)
    ELSE Follows(sent, streak)

HealInv == channel = "orderly" => RoomAhead /\ Keeping

-----------------------------------------------------------------------------
\* Room shrinks by one share for each packet, and is at least the free places.
LEMMA RoomFacts ==
    ASSUME ShortOutages
    PROVE  /\ \A k \in 0 .. MaxBuffered :
                 /\ Room(k) \in Nat /\ Room(k) + k >= MaxBuffered
                 /\ Room(0) >= k + Room(k)
           /\ \A k \in 1 .. MaxBuffered : Room(k - 1) = Room(k) + MaxConsecutiveLost
           /\ Room(MaxBuffered) = 0
           /\ \A j, k \in 0 .. MaxBuffered : j <= k => Room(k) <= Room(j)
           /\ \A n \in Outages : n <= Room(0)
<1> DEFINE B == MaxBuffered
           C == MaxConsecutiveLost
<1>1. B \in Nat /\ C \in Nat /\ C >= 1 /\ B >= 3
  BY BufferAssumption DEF ShortOutages
<1> HIDE DEF B, C
<1>2. \A a \in Nat : a * C \in Nat /\ a * C >= a /\ (a + 1) * C = a * C + C
  BY <1>1
<1>3. \A a, b \in Nat : a <= b => a * C <= b * C
  BY <1>1
<1>4. \A a, b \in Nat : (a + b) * C = a * C + b * C
  BY <1>1
<1>5. \A k \in 0 .. B : Room(k) = (B - k) * C /\ B - k \in Nat /\ k \in Nat
  BY <1>1 DEF Room, B, C
<1>6. ASSUME NEW k \in 0 .. B
      PROVE  Room(k) \in Nat /\ Room(k) + k >= B /\ Room(0) >= k + Room(k)
  <2>1. Room(k) \in Nat /\ Room(k) >= B - k /\ k \in Nat
    BY <1>2, <1>5
  <2>2. Room(0) = B * C /\ ((B - k) + k) * C = (B - k) * C + k * C /\ k * C >= k
    BY <1>1, <1>2, <1>4, <1>5, <2>1
  <2>3. (B - k) + k = B /\ k * C \in Nat
    BY <1>1, <1>2, <2>1
  <2> QED BY <1>1, <1>5, <2>1, <2>2, <2>3
<1>7. ASSUME NEW k \in 1 .. B
      PROVE  Room(k - 1) = Room(k) + C
  <2>1. k - 1 \in 0 .. B /\ k \in 0 .. B /\ B - (k - 1) = (B - k) + 1
    BY <1>1
  <2>2. Room(k - 1) = ((B - k) + 1) * C /\ Room(k) = (B - k) * C /\ B - k \in Nat
    BY <1>5, <2>1
  <2> QED BY <1>2, <2>2
<1>8. Room(B) = 0
  BY <1>1, <1>5
<1>9. ASSUME NEW j \in 0 .. B, NEW k \in 0 .. B, j <= k
      PROVE  Room(k) <= Room(j)
  <2>1. B - k \in Nat /\ B - j \in Nat /\ B - k <= B - j
    BY <1>1, <1>9
  <2>2. Room(k) = (B - k) * C /\ Room(j) = (B - j) * C
    BY <1>5
  <2> QED BY <1>3, <2>1, <2>2
<1>10. \A n \in Outages : n <= Room(0)
  <2>1. Room(0) = B * C
    BY <1>1, <1>5
  <2> QED BY <2>1 DEF ShortOutages, B, C
<1> QED BY <1>6, <1>7, <1>8, <1>9, <1>10 DEF B, C

\* A set of numbers that is not empty has a least one.
LEMMA LeastNumber ==
    ASSUME NEW S \in SUBSET Nat, S # {}
    PROVE  \E n \in S : \A m \in S : n <= m
<1>1. PICK n \in S : \A m \in S : ~(<<m, n>> \in OpToRel(<, Nat))
  BY NatLessThanWellFounded, WFMin
<1>2. \A m \in S : ~(m < n)
  BY <1>1 DEF OpToRel
<1> QED BY <1>2

\* Two numbers make a set of two at most.
LEMMA PairSize ==
    ASSUME NEW a, NEW b
    PROVE  IsFiniteSet({a, b}) /\ Cardinality({a, b}) <= 2
<1>1. IsFiniteSet({a}) /\ Cardinality({a}) = 1
  BY FS_Singleton
<1>2. /\ IsFiniteSet({a} \cup {b})
      /\ Cardinality({a} \cup {b}) \in {Cardinality({a}), Cardinality({a}) + 1}
  BY <1>1, FS_AddElement
<1>3. {a} \cup {b} = {a, b}
  OBVIOUS
<1> QED BY <1>1, <1>2, <1>3

\* What is buffered from a number on is no more than what is buffered.
LEMMA FromFits ==
    ASSUME BufferInv, NEW n
    PROVE  /\ IsFiniteSet(From(n)) /\ From(n) \subseteq packets
           /\ Cardinality(From(n)) \in 0 .. MaxBuffered
<1>1. IsFiniteSet(packets) /\ Cardinality(packets) <= MaxBuffered /\ MaxBuffered \in Nat
  BY BufferAssumption DEF BufferInv, TypeOK, OnlyOpenNumbers
<1>2. From(n) \in SUBSET packets
  BY DEF From
<1>3. IsFiniteSet(From(n)) /\ Cardinality(From(n)) <= Cardinality(packets)
  BY <1>1, <1>2, FS_Subset
<1>4. Cardinality(From(n)) \in Nat /\ Cardinality(packets) \in Nat
  BY <1>1, <1>3, FS_CardinalityType
<1> QED BY <1>1, <1>2, <1>3, <1>4

\* The same of every number at once, before a step and after it.
SizesOK == \A n \in Nat : Cardinality(From(n)) \in 0 .. MaxBuffered

LEMMA SizesFit == BufferInv => SizesOK
BY FromFits DEF SizesOK

LEMMA SizesFitNext == BufferInv' => SizesOK'
BY SizesFit, PTL

\* Between packets the buffer is never full.
LEMMA NeverFull ==
    ASSUME ShortOutages, BufferInv, ~draining, RoomAhead
    PROVE  Cardinality(packets) < MaxBuffered
<1>1. /\ IsFiniteSet(packets) /\ packets \in SUBSET Nat /\ expected \in Nat
      /\ Cardinality(packets) \in Nat /\ MaxBuffered \in Nat \ {0}
      /\ Cardinality(packets) <= MaxBuffered
  BY BufferAssumption, FS_CardinalityType DEF BufferInv, TypeOK, OnlyOpenNumbers
<1> SUFFICES ASSUME Cardinality(packets) = MaxBuffered PROVE FALSE
  BY <1>1
<1>2. packets # {}
  BY <1>1, FS_EmptySet
<1>3. PICK n \in packets : \A m \in packets : n <= m
  BY <1>1, <1>2, LeastNumber
<1>4. From(n) = packets
  BY <1>1, <1>3 DEF From
<1>5. n <= expected
  BY <1>1, <1>4, RoomFacts DEF RoomAhead, Reach
<1>6. n >= expected /\ expected \notin packets /\ n \in Nat
  BY <1>1 DEF BufferInv, OnlyOpenNumbers, NothingHeldBack
<1> QED BY <1>1, <1>3, <1>5, <1>6

\* Between packets a full run of arrivals has been settled.
LEMMA RunSettled ==
    ASSUME ShortOutages, BufferInv, ~draining, NEW end \in Nat, Follows(end, MaxBuffered)
    PROVE  end <= expected
<1>1. expected \in Nat /\ MaxBuffered \in Nat /\ expected \notin packets
  BY BufferAssumption DEF BufferInv, TypeOK, NothingHeldBack
<1>2. end <= MaxBuffered + expected
  BY <1>1, RoomFacts DEF Follows, Reach
<1>3. expected < end => expected \in packets
  BY <1>1, <1>2 DEF Follows
<1> QED BY <1>1, <1>3

\* The same of every run at once, before a step and after it.
RunsSettled == ~draining => \A end \in Nat : Follows(end, MaxBuffered) => end <= expected

LEMMA RunSettledNext == ASSUME ShortOutages PROVE BufferInv' => RunsSettled'
<1>1. BufferInv => RunsSettled
  BY RunSettled DEF RunsSettled
<1> QED BY <1>1, PTL

\* Types the steps below use.
LEMMA StreamTypes ==
    ASSUME StreamInv
    PROVE  /\ sent \in Nat /\ expected \in Nat /\ streak \in 0 .. MaxBuffered
           /\ packets \in SUBSET Nat /\ IsFiniteSet(packets)
           /\ MaxBuffered \in Nat \ {0} /\ MaxConsecutiveLost \in Nat
           /\ lost \in 0 .. MaxConsecutiveLost /\ Reach \in Nat
BY BufferAssumption DEF StreamInv, BufferInv, TypeOK, Reach

LEMMA ReachNext == StreamInv' => (Reach \in Nat)'
<1>1. StreamInv => Reach \in Nat
  BY StreamTypes
<1> QED BY <1>1, PTL

\* An arrival is late and changes nothing, starts the stream anew, or is stored.
LEMMA ArrivalCases ==
    ASSUME ShortOutages, StreamInv, HealInv, Arrive, channel = "orderly"
    PROVE  \/ /\ sent < expected
              /\ expected' = expected /\ packets' = packets /\ draining' = draining
           \/ /\ expected' = sent /\ packets' = {sent}
              /\ draining' = TRUE /\ lost' = 0
           \/ /\ sent >= expected
              /\ expected' = expected /\ packets' = packets \cup {sent}
              /\ draining' = TRUE /\ lost' = 0
<1>1. ~draining /\ BufferInv
  BY DEF Arrive, Add, StreamInv
<1>2. Cardinality(packets) < MaxBuffered
  BY <1>1, NeverFull DEF HealInv
<1>3. \A b : b \in {packets, {}} =>
             /\ ~Refuses(b, sent) /\ Insert(b, sent) = b \cup {sent}
  <2> SUFFICES ASSUME NEW b \in {packets, {}}
               PROVE  ~Refuses(b, sent) /\ Insert(b, sent) = b \cup {sent}
    OBVIOUS
  <2>1. IsFiniteSet(b) /\ Cardinality(b) < MaxBuffered
    BY <1>2, StreamTypes, FS_EmptySet
  <2>2. /\ Cardinality(b) \in Nat /\ IsFiniteSet(b \cup {sent})
        /\ Cardinality(b \cup {sent}) \in {Cardinality(b), Cardinality(b) + 1}
    BY <2>1, FS_CardinalityType, FS_AddElement
  <2> QED BY <2>1, <2>2, StreamTypes DEF Refuses, Insert
<1>4. CASE sent < expected'
  BY <1>4, LateArrival
<1>5. CASE ~(sent < expected') /\ FarBehind(sent)
  <2>1. expected' = sent /\ packets' = Insert({}, sent) /\ draining' = TRUE /\ lost' = 0
    BY <1>3, <1>5 DEF Arrive, Add
  <2> QED BY <1>3, <2>1
<1>6. CASE ~(sent < expected') /\ ~FarBehind(sent)
  <2>1. packets' = Insert(packets, sent) /\ draining' = TRUE /\ lost' = 0
    BY <1>3, <1>6 DEF Arrive, Add
  <2>2. packets' = packets \cup {sent}
    BY <1>3, <2>1
  <2>3. CASE inited
    <3>1. expected' = expected
      BY <1>6, <2>3 DEF Arrive, Add
    <3>2. sent >= expected
      BY <1>6, <3>1, StreamTypes
    <3> QED BY <2>1, <2>2, <3>1, <3>2
  <2>4. CASE ~inited
    BY <1>1, <2>1, <2>2, <2>4 DEF Arrive, Add, BufferInv
  <2> QED BY <2>3, <2>4
<1> QED BY <1>4, <1>5, <1>6

\* Between packets the number that comes next is in reach of an empty buffer.
LEMMA NextInReach ==
    ASSUME ShortOutages, StreamInv, HealInv, channel = "orderly", ~draining
    PROVE  sent <= expected + Room(0)
<1>1. sent <= streak + expected + Room(streak)
  BY DEF HealInv, Keeping, Follows, Reach
<1>2. Room(0) >= streak + Room(streak) /\ Room(0) \in Nat /\ Room(streak) \in Nat
  BY StreamTypes, RoomFacts
<1> QED BY <1>1, <1>2, StreamTypes

\* An arrival leaves every packet within its room.
LEMMA ArriveRoom ==
    ASSUME ShortOutages, StreamInv, HealInv, Arrive, channel = "orderly"
    PROVE  RoomAhead'
<1>1. /\ ~draining /\ RoomAhead /\ BufferInv /\ BufferInv'
      /\ Reach = expected
  BY ArriveHolds DEF Arrive, Add, HealInv, StreamInv, Reach
<1>2. CASE packets' = packets /\ expected' = expected /\ draining' = draining
  <2>1. Reach' = Reach /\ \A n : From(n)' = From(n)
    BY <1>1, <1>2 DEF Reach, From
  <2> QED BY <1>1, <1>2, <2>1 DEF RoomAhead
<1> DEFINE Size(n) == Cardinality(From(n))
<1>3. \A n \in Nat : Size(n) \in 0 .. MaxBuffered /\ Size(n)' \in 0 .. MaxBuffered
  BY <1>1, SizesFit, SizesFitNext DEF SizesOK
<1>4. CASE expected' = sent /\ packets' = {sent} /\ draining' = TRUE /\ lost' = 0
  <2>1. Reach' = sent + MaxConsecutiveLost
    BY <1>4, StreamTypes DEF Reach
  <2> SUFFICES ASSUME NEW n \in packets' PROVE n <= Reach' + Room(Size(n)')
    BY DEF RoomAhead, Room
  <2>2. n = sent /\ n \in Nat
    BY <1>4, StreamTypes
  <2>3. Size(n)' \in 0 .. MaxBuffered
    BY <1>3, <2>2
  <2>4. Room(Size(n)') \in Nat
    BY <2>3, RoomFacts
  <2> HIDE DEF Size
  <2> QED BY <2>1, <2>2, <2>4, StreamTypes
<1>5. CASE /\ expected' = expected /\ packets' = packets \cup {sent}
           /\ draining' = TRUE /\ lost' = 0
  <2>1. Reach' = expected + MaxConsecutiveLost
    BY <1>5, StreamTypes DEF Reach
  <2>2. ASSUME NEW n \in packets', NEW p, From(n)' \subseteq From(p) \cup {sent}
        PROVE  Room(Size(p)) <= MaxConsecutiveLost + Room(Size(n)')
    <3>1. IsFiniteSet(From(p)) /\ Size(p) \in 0 .. MaxBuffered
      BY <1>1, FromFits
    <3>2. /\ IsFiniteSet(From(p) \cup {sent})
          /\ Cardinality(From(p) \cup {sent}) \in {Size(p), Size(p) + 1}
      BY <3>1, FS_AddElement
    <3>3. Size(n)' <= Cardinality(From(p) \cup {sent})
      BY <2>2, <3>2, FS_Subset
    <3>4. Size(n)' \in 0 .. MaxBuffered /\ Size(n)' <= Size(p) + 1
      <4>1. n \in Nat
        BY <1>5, StreamTypes
      <4>2. Size(n)' \in 0 .. MaxBuffered
        BY <1>3, <4>1
      <4> HIDE DEF Size
      <4> QED BY <3>1, <3>2, <3>3, <4>2, StreamTypes
    <3> HIDE DEF Size
    <3>5. Room(Size(p)) \in Nat /\ Room(Size(n)') \in Nat
      BY <3>1, <3>4, RoomFacts
    <3>6. CASE Size(n)' <= Size(p)
      BY <3>1, <3>4, <3>5, <3>6, RoomFacts, StreamTypes
    <3>7. CASE Size(n)' = Size(p) + 1
      <4>1. Size(n)' \in 1 .. MaxBuffered /\ Size(n)' - 1 = Size(p)
        BY <3>1, <3>4, <3>7
      <4>2. Room(Size(n)' - 1) = Room(Size(n)') + MaxConsecutiveLost
        BY <4>1, RoomFacts
      <4> QED BY <4>1, <4>2, <3>5, StreamTypes
    <3> QED BY <3>1, <3>4, <3>6, <3>7
  <2>3. ASSUME NEW n \in packets', NEW p \in packets, n <= p,
               From(n)' \subseteq From(p) \cup {sent}
        PROVE  n <= Reach' + Room(Size(n)')
    <3>1. p <= expected + Room(Size(p))
      BY <1>1 DEF RoomAhead
    <3>2. n \in Nat /\ p \in Nat
      BY <1>5, StreamTypes
    <3>3. Size(p) \in 0 .. MaxBuffered /\ Size(n)' \in 0 .. MaxBuffered
      BY <1>3, <3>2
    <3>4. Room(Size(p)) \in Nat /\ Room(Size(n)') \in Nat
      BY <3>3, RoomFacts
    <3> HIDE DEF Size
    <3> QED BY <2>1, <2>2, <2>3, <3>1, <3>2, <3>4, StreamTypes
  <2> SUFFICES ASSUME NEW n \in packets' PROVE n <= Reach' + Room(Size(n)')
    BY DEF RoomAhead, Room
  <2>4. CASE n \in packets
    <3>1. From(n)' \subseteq From(n) \cup {sent}
      BY <1>5 DEF From
    <3> QED BY <2>3, <2>4, <3>1, StreamTypes
  <2>5. CASE n = sent /\ \E p \in packets : p > sent
    <3>1. PICK p \in {m \in packets : m > sent} : \A m \in {q \in packets : q > sent} : p <= m
      BY <2>5, LeastNumber, StreamTypes
    <3>2. From(n)' \subseteq From(p) \cup {sent}
      BY <1>5, <2>5, <3>1, StreamTypes DEF From
    <3> QED BY <2>3, <2>5, <3>1, <3>2, StreamTypes
  <2>6. CASE n = sent /\ ~\E p \in packets : p > sent
    <3>1. From(n)' \subseteq From(sent + 1) \cup {sent} /\ From(sent + 1) = {}
      BY <1>5, <2>6, StreamTypes DEF From
    <3>2. Size(sent + 1) = 0
      BY <3>1, FS_EmptySet
    <3>3. Room(Size(sent + 1)) <= MaxConsecutiveLost + Room(Size(n)')
      BY <2>2, <3>1
    <3>4. sent <= expected + Room(0)
      BY <1>1, NextInReach
    <3>5. Size(n)' \in 0 .. MaxBuffered /\ 0 \in 0 .. MaxBuffered
      BY <1>3, <2>6, StreamTypes
    <3>6. Room(0) \in Nat /\ Room(Size(n)') \in Nat
      BY <3>5, RoomFacts
    <3> HIDE DEF Size
    <3> QED BY <2>1, <2>6, <3>2, <3>3, <3>4, <3>6, StreamTypes
  <2> QED BY <1>5, <2>4, <2>5, <2>6
<1> QED BY <1>2, <1>4, <1>5, ArrivalCases

\* An arrival is one more in its run, and its share of room is in reach.
LEMMA ArriveFollows ==
    ASSUME ShortOutages, StreamInv, HealInv, Arrive, channel = "orderly"
    PROVE  Follows(sent, streak)'
<1>1. /\ ~draining /\ Follows(sent, streak) /\ Reach = expected
      /\ sent' = sent + 1
      /\ streak' = IF streak < MaxBuffered THEN streak + 1 ELSE streak
  BY DEF Arrive, Add, HealInv, Keeping, Reach
<1>2. streak' \in 1 .. MaxBuffered /\ streak' <= streak + 1
  BY <1>1, StreamTypes
<1>3. Room(streak) \in Nat /\ Room(streak') \in Nat
  BY <1>2, StreamTypes, RoomFacts
<1>4. CASE sent < expected /\ expected' = expected /\ draining' = draining
  <2>1. Reach' = expected
    BY <1>1, <1>4 DEF Reach
  <2>2. sent' <= streak' + Reach' + Room(streak')
    BY <1>1, <1>2, <1>3, <1>4, <2>1, StreamTypes
  <2>3. \A n \in Nat : n < sent' => ~(n >= expected')
    BY <1>1, <1>4, StreamTypes
  <2> QED BY <2>2, <2>3 DEF Follows, Room
<1>5. CASE expected' = sent /\ packets' = {sent} /\ draining' = TRUE /\ lost' = 0
  <2>1. Reach' = sent + MaxConsecutiveLost
    BY <1>5, StreamTypes DEF Reach
  <2>2. sent' <= streak' + Reach' + Room(streak')
    BY <1>1, <1>2, <1>3, <2>1, StreamTypes
  <2>3. \A n \in Nat : n < sent' /\ n >= expected' => n \in packets'
    BY <1>1, <1>5, StreamTypes
  <2> QED BY <2>2, <2>3 DEF Follows, Room
<1>6. CASE /\ sent >= expected
           /\ expected' = expected /\ packets' = packets \cup {sent}
           /\ draining' = TRUE /\ lost' = 0
  <2>1. Reach' = expected + MaxConsecutiveLost
    BY <1>6, StreamTypes DEF Reach
  <2>2. sent' <= streak' + Reach' + Room(streak')
    <3>1. CASE streak = MaxBuffered
      <4>1. sent <= expected
        BY <1>1, <3>1, RunSettled, StreamTypes DEF StreamInv
      <4> QED BY <1>1, <1>2, <1>3, <2>1, <4>1, StreamTypes
    <3>2. CASE streak < MaxBuffered
      <4>1. streak' = streak + 1 /\ streak' - 1 = streak
        BY <1>1, <3>2, StreamTypes
      <4>2. Room(streak' - 1) = Room(streak') + MaxConsecutiveLost
        BY <1>2, RoomFacts
      <4>3. sent <= streak + expected + Room(streak)
        BY <1>1 DEF Follows
      <4> QED BY <1>1, <1>3, <2>1, <4>1, <4>2, <4>3, StreamTypes
    <3> QED BY <3>1, <3>2, StreamTypes
  <2>3. ASSUME NEW n \in Nat, sent' <= n + streak', n < sent', n >= expected'
        PROVE  n \in packets'
    <3>1. CASE n = sent
      BY <1>6, <3>1
    <3>2. CASE n < sent
      <4>1. sent <= n + streak /\ n >= expected
        BY <1>1, <1>2, <1>6, <2>3, StreamTypes
      <4> QED BY <1>1, <1>6, <3>2, <4>1 DEF Follows
    <3> QED BY <1>1, <2>3, <3>1, <3>2, StreamTypes
  <2> QED BY <2>2, <2>3 DEF Follows, Room
<1> QED BY <1>4, <1>5, <1>6, ArrivalCases

\* Settling a number, played or given up, moves the end no further away.
LEMMA SettleHeals ==
    ASSUME ShortOutages, StreamInv, Play \/ Conceal
    PROVE  /\ RoomAhead => RoomAhead'
           /\ \A end \in Nat, k \in 0 .. MaxBuffered :
                 Follows(end, k) => Follows(end, k)'
<1>1. /\ draining /\ draining' = draining /\ expected' = expected + 1
      /\ packets' = packets \ {expected}
  BY DEF Play, Conceal
<1>2. Reach' >= Reach /\ Reach' \in Nat
  <2>1. CASE Play
    BY <1>1, <2>1, StreamTypes DEF Play, Reach
  <2>2. CASE Conceal
    <3>1. lost' = lost + 1 /\ lost < MaxConsecutiveLost
      BY <2>2 DEF Conceal, GivesUp
    <3> QED BY <1>1, <3>1, StreamTypes DEF Reach
  <2> QED BY <2>1, <2>2
<1>3. \A n \in packets' : n \in packets /\ n > expected /\ n \in Nat
  BY <1>1, StreamTypes DEF StreamInv, BufferInv, OnlyOpenNumbers
<1>4. ASSUME RoomAhead, NEW n \in packets'
      PROVE  n <= Reach' + Room(Cardinality(From(n)'))
  <2>1. From(n)' = From(n)
    BY <1>1, <1>3, StreamTypes DEF From
  <2>2. n <= Reach + Room(Cardinality(From(n)))
    BY <1>3, <1>4 DEF RoomAhead
  <2>3. Cardinality(From(n)) \in 0 .. MaxBuffered
    BY FromFits DEF StreamInv
  <2>4. Room(Cardinality(From(n))) \in Nat
    BY <2>3, RoomFacts
  <2> QED BY <1>2, <1>3, <2>1, <2>2, <2>4, StreamTypes
<1>5. ASSUME NEW end \in Nat, NEW k \in 0 .. MaxBuffered, Follows(end, k)
      PROVE  Follows(end, k)'
  <2>1. Room(k) \in Nat /\ k \in Nat
    BY RoomFacts
  <2>2. end <= k + Reach' + Room(k)
    BY <1>2, <1>5, <2>1, StreamTypes DEF Follows
  <2>3. \A n \in Nat : end <= n + k /\ n < end /\ n >= expected' => n \in packets'
    BY <1>1, <1>5, StreamTypes DEF Follows
  <2> QED BY <2>2, <2>3 DEF Follows, Room
<1> QED BY <1>4, <1>5 DEF RoomAhead, Room

\* A drain that returns before its share is used has all but two numbers.
LEMMA ReturnHeals ==
    ASSUME ShortOutages, StreamInv, Return
    PROVE  /\ RoomAhead => RoomAhead'
           /\ \A end \in Nat, k \in 1 .. MaxBuffered :
                 Follows(end, k) => Follows(end, k)'
<1>1. /\ draining /\ draining' = FALSE /\ expected' = expected
      /\ packets' = packets /\ expected \notin packets
      /\ Reach' = expected
  BY DEF Return, Reach
<1>2. CASE lost = MaxConsecutiveLost
  <2>1. Reach' = Reach
    BY <1>1, <1>2, StreamTypes DEF Reach
  <2>2. \A n : From(n)' = From(n)
    BY <1>1 DEF From
  <2> QED BY <1>1, <2>1, <2>2 DEF RoomAhead, Follows, Room
<1>3. CASE lost # MaxConsecutiveLost
  <2>1. \A n \in packets : n \in Nat /\ expected < n /\ n <= expected + 2
    <3> SUFFICES ASSUME NEW n \in packets
                 PROVE  n \in Nat /\ expected < n /\ n <= expected + 2
      OBVIOUS
    <3>1. Newest(packets) \in packets /\ n <= Newest(packets)
      BY NewestIsIn DEF StreamInv, BufferInv
    <3>2. ~(Newest(packets) > expected + 2)
      BY <1>3, StreamTypes DEF Return, GivesUp
    <3>3. n >= expected
      BY DEF StreamInv, BufferInv, OnlyOpenNumbers
    <3> QED BY <1>1, <3>1, <3>2, <3>3, StreamTypes
  <2>2. MaxBuffered >= 3 /\ 1 \in 0 .. MaxBuffered /\ 2 \in 0 .. MaxBuffered
    BY StreamTypes DEF ShortOutages
  <2>3. Room(1) \in Nat /\ Room(1) >= 2 /\ Room(2) \in Nat /\ Room(2) >= 1
    BY <2>2, RoomFacts, StreamTypes
  <2>4. ASSUME NEW n \in packets'
        PROVE  n <= Reach' + Room(Cardinality(From(n)'))
    <3>1. Cardinality(From(n)) \in 0 .. MaxBuffered /\ From(n)' = From(n)
      BY <1>1, FromFits DEF StreamInv, From
    <3>2. n \in {expected + 1, expected + 2} /\ n \in packets
      BY <1>1, <2>1, <2>4, StreamTypes
    <3>3. CASE n = expected + 1
      <4>1. From(n) \subseteq {expected + 1, expected + 2}
        BY <2>1, <3>3, StreamTypes DEF From
      <4>2. /\ IsFiniteSet({expected + 1, expected + 2})
            /\ Cardinality({expected + 1, expected + 2}) <= 2
        BY PairSize
      <4>3. Cardinality(From(n)) <= 2
        BY <4>1, <4>2, <3>1, FS_Subset, FS_CardinalityType
      <4>4. Room(Cardinality(From(n))) >= Room(2) /\ Room(Cardinality(From(n))) \in Nat
        BY <2>2, <3>1, <4>3, RoomFacts
      <4> QED BY <1>1, <2>3, <3>1, <3>3, <4>4, StreamTypes
    <3>4. CASE n = expected + 2
      <4>1. From(n) = {n}
        <5>1. \A m \in From(n) : m = n
          BY <2>1, <3>4, StreamTypes DEF From
        <5>2. n \in From(n)
          BY <3>2, <3>4, StreamTypes DEF From
        <5> QED BY <5>1, <5>2
      <4>2. Cardinality(From(n)) = 1
        BY <4>1, FS_Singleton
      <4> QED BY <1>1, <2>3, <3>1, <3>4, <4>2, StreamTypes
    <3> QED BY <3>2, <3>3, <3>4
  <2>5. ASSUME NEW end \in Nat, NEW k \in 1 .. MaxBuffered, Follows(end, k)
        PROVE  Follows(end, k)'
    <3>1. k \in Nat /\ k >= 1 /\ Room(k) \in Nat /\ Room(k) + k >= MaxBuffered
      BY RoomFacts, StreamTypes
    <3>2. end <= expected + 3
      <4> SUFFICES ASSUME end > expected + 3 PROVE FALSE
        BY StreamTypes
      <4>1. end - 1 \in Nat /\ end <= (end - 1) + k /\ end - 1 < end /\ end - 1 >= expected
        BY <3>1, StreamTypes
      <4>2. end - 1 \in packets
        BY <2>5, <4>1 DEF Follows
      <4> QED BY <2>1, <4>2, StreamTypes
    <3>3. end <= k + Reach' + Room(k)
      BY <1>1, <2>2, <3>1, <3>2, StreamTypes
    <3> QED BY <1>1, <2>5, <3>3 DEF Follows, Room
  <2> QED BY <2>4, <2>5 DEF RoomAhead, Room
<1> QED BY <1>2, <1>3

\* Every step of the stream keeps the outage made up for, or being made up for.
LEMMA HealHolds ==
    ASSUME ShortOutages, StreamInv, HealInv, [StreamNext]_streamVars
    PROVE  HealInv'
<1>1. StreamInv'
  BY StreamNextHolds
<1>2. SUFFICES ASSUME channel = "orderly" PROVE RoomAhead' /\ Keeping'
  BY DEF HealInv, StreamNext, Wild, Stray, Arrive, Drains, Lose, RestartSender, streamVars,
         surroundings
<1>3. RoomAhead /\ Keeping
  BY <1>2 DEF HealInv
<1>4. MaxBuffered \in 0 .. MaxBuffered /\ 0 \in 0 .. MaxBuffered /\ Room(0) \in Nat
  BY StreamTypes, RoomFacts
<1>5. UNCHANGED vars => /\ RoomAhead'
                        /\ \A end \in Nat, k \in 0 .. MaxBuffered :
                              Follows(end, k) => Follows(end, k)'
  BY <1>3 DEF vars, RoomAhead, Follows, Reach, From, Room
<1>6. CASE Arrive
  <2>1. RoomAhead' /\ Follows(sent, streak)'
    BY <1>2, <1>6, ArriveRoom, ArriveFollows
  <2>2. streak' > 0
    BY <1>2, <1>6, StreamTypes DEF Arrive
  <2> QED BY <2>1, <2>2 DEF Keeping
<1>7. ASSUME Drains, Play \/ Conceal
      PROVE  RoomAhead' /\ Keeping'
  <2>1. RoomAhead' /\ draining' = draining /\ sent' = sent /\ streak' = streak
    BY <1>3, <1>7, SettleHeals DEF Drains, Play, Conceal, surroundings
  <2>2. CASE draining /\ streak = 0
    <3>1. PICK end \in Nat : Follows(end, MaxBuffered) /\ sent <= end + Room(0)
      BY <1>3, <2>2 DEF Keeping
    <3>2. Follows(end, MaxBuffered)'
      BY <1>4, <1>7, <3>1, SettleHeals
    <3> QED BY <2>1, <2>2, <3>1, <3>2 DEF Keeping, Room, Follows
  <2>3. CASE ~(draining /\ streak = 0)
    <3>1. Follows(sent, streak)
      BY <1>3, <2>3 DEF Keeping
    <3>2. \A end \in Nat, k \in 0 .. MaxBuffered :
             Follows(end, k) => Follows(end, k)'
      BY <1>7, SettleHeals
    <3>3. Follows(sent, streak)'
      BY <2>1, <3>1, <3>2, StreamTypes DEF Follows
    <3> QED BY <2>1, <2>3, <3>3 DEF Keeping
  <2> QED BY <2>2, <2>3
<1>8. ASSUME Drains, Return
      PROVE  RoomAhead' /\ Keeping'
  <2>1. /\ RoomAhead' /\ draining /\ ~draining' /\ sent' = sent /\ streak' = streak
        /\ expected' = expected
    BY <1>3, <1>8, ReturnHeals DEF Drains, Return, surroundings
  <2>2. CASE streak = 0
    <3>1. PICK end \in Nat : Follows(end, MaxBuffered) /\ sent <= end + Room(0)
      BY <1>3, <2>1, <2>2 DEF Keeping
    <3>2. MaxBuffered \in 1 .. MaxBuffered
      BY StreamTypes
    <3>3. Follows(end, MaxBuffered)'
      BY <1>8, <3>1, <3>2, ReturnHeals
    <3>4. end <= expected'
      BY <1>1, <2>1, <3>3, RunSettledNext DEF StreamInv, RunsSettled
    <3>5. sent' <= 0 + expected' + Room(0)
      BY <1>4, <2>1, <3>1, <3>4, StreamTypes
    <3>6. \A n \in Nat : ~(sent' <= n + 0 /\ n < sent')
      BY <2>1, StreamTypes
    <3> QED BY <2>1, <2>2, <3>5, <3>6 DEF Keeping, Follows, Reach, Room
  <2>3. CASE streak # 0
    <3>1. Follows(sent, streak) /\ streak \in 1 .. MaxBuffered
      BY <1>3, <2>3, StreamTypes DEF Keeping
    <3>2. \A end \in Nat, k \in 1 .. MaxBuffered :
             Follows(end, k) => Follows(end, k)'
      BY <1>8, ReturnHeals
    <3>3. Follows(sent, streak)'
      BY <2>1, <3>1, <3>2, StreamTypes DEF Follows
    <3> QED BY <2>1, <3>3 DEF Keeping
  <2> QED BY <2>2, <2>3
<1>9. ASSUME NEW n \in Outages, Lose(n)
      PROVE  RoomAhead' /\ Keeping'
  <2>1. /\ streak = MaxBuffered /\ streak # 0 /\ sent' = sent + n /\ streak' = 0
        /\ UNCHANGED vars
    BY <1>9, StreamTypes DEF Lose
  <2>2. draining' = draining /\ expected' = expected /\ n <= Room(0) /\ n \in Nat
    BY <2>1, RoomFacts, StreamAssumption DEF vars
  <2>3. Follows(sent, MaxBuffered)
    BY <1>3, <2>1 DEF Keeping
  <2>4. CASE draining
    <3>1. Follows(sent, MaxBuffered)
      BY <2>3
    <3>2. \E end \in Nat : Follows(end, MaxBuffered) /\ sent + n <= end + Room(0)
      BY <1>4, <2>2, <3>1, StreamTypes
    <3>3. PICK end \in Nat : Follows(end, MaxBuffered) /\ sent + n <= end + Room(0)
      BY <3>2
    <3>4. Follows(end, MaxBuffered)'
      BY <1>4, <1>5, <2>1, <3>3
    <3> QED BY <1>5, <2>1, <2>2, <2>4, <3>3, <3>4 DEF Keeping, Room, Follows
  <2>5. CASE ~draining
    <3>1. sent <= expected
      BY <2>3, <2>5, RunSettled, StreamTypes DEF StreamInv
    <3>2. sent' <= 0 + expected' + Room(0)
      BY <1>4, <2>1, <2>2, <3>1, StreamTypes
    <3>3. \A m \in Nat : ~(sent' <= m + 0 /\ m < sent')
      BY <2>1, <2>2, StreamTypes
    <3> QED BY <1>5, <2>1, <2>2, <2>5, <3>2, <3>3 DEF Keeping, Follows, Reach, Room
  <2> QED BY <2>4, <2>5
<1>10. CASE RestartSender
  <2>1. sent' = 0 /\ streak' = 0 /\ UNCHANGED vars
    BY <1>10 DEF RestartSender
  <2>2. Reach' \in Nat /\ Room(MaxBuffered) = 0
    BY <1>1, ReachNext, RoomFacts
  <2>3. \A k \in 0 .. MaxBuffered : Follows(0, k)'
    <3> SUFFICES ASSUME NEW k \in 0 .. MaxBuffered PROVE Follows(0, k)'
      OBVIOUS
    <3>1. Room(k) \in Nat /\ k \in Nat
      BY RoomFacts
    <3>2. 0 <= k + Reach' + Room(k)
      BY <2>2, <3>1
    <3> QED BY <3>2 DEF Follows, Room
  <2>4. 0 <= 0 + Room(0)
    BY <1>4
  <2>5. CASE draining'
    BY <1>4, <1>5, <2>1, <2>3, <2>4, <2>5 DEF Keeping, Room, Follows
  <2>6. CASE ~draining'
    BY <1>4, <1>5, <2>1, <2>3, <2>6 DEF Keeping, Room, Follows
  <2> QED BY <2>5, <2>6
<1>11. CASE UNCHANGED streamVars
  BY <1>3, <1>11 DEF streamVars, surroundings, vars, RoomAhead, Keeping, Follows, Reach, From, Room
<1>12. ~Wild /\ ~\E seq \in Seqs : Stray(seq)
  BY <1>2 DEF Wild, Stray
<1> QED BY <1>2, <1>6, <1>7, <1>8, <1>9, <1>10, <1>11, <1>12 DEF StreamNext, Drains, Drain

(***************************************************************************)
(* If no outage takes more than MaxBuffered * MaxConsecutiveLost packets    *)
(* (80 with the code's 16 and 5) the client has settled all that was sent   *)
(* once a buffer's worth of packets has arrived since, whatever restarts    *)
(* and earlier outages left in the buffer.  It never fills on the way, which *)
(* is what would keep it behind for good (gr_udp_protocol.h:839-840).       *)
(***************************************************************************)
THEOREM OutagesAreMadeUp == ASSUME ShortOutages PROVE StreamSpec => []CaughtUp
<1>1. StreamInit => HealInv
  <2> SUFFICES ASSUME StreamInit PROVE RoomAhead /\ Keeping
    BY DEF HealInv
  <2>1. packets = {} /\ ~draining /\ sent = 0 /\ streak = 0 /\ expected = 0
    BY DEF StreamInit, Init
  <2>2. Room(0) \in Nat /\ 0 \in Nat
    BY RoomFacts, BufferAssumption
  <2>3. 0 <= 0 + 0 + Room(0)
    BY <2>2
  <2>4. Follows(sent, streak)
    BY <2>1, <2>3 DEF Follows, Reach
  <2> QED BY <2>1, <2>4 DEF RoomAhead, Keeping
<1>2. StreamInv /\ HealInv /\ [StreamNext]_streamVars => HealInv'
  BY HealHolds
<1>3. StreamInv /\ HealInv => CaughtUp
  <2> SUFFICES ASSUME StreamInv, HealInv, streak = MaxBuffered, ~draining
               PROVE  expected >= sent
    BY DEF CaughtUp
  <2>1. channel = "orderly"
    BY BufferAssumption DEF StreamInv
  <2>2. Follows(sent, MaxBuffered)
    BY <2>1 DEF HealInv, Keeping
  <2> QED BY <2>2, RunSettled, StreamTypes DEF StreamInv
<1> QED BY <1>1, <1>2, <1>3, AlwaysStreamInv, PTL DEF StreamSpec
=============================================================================
