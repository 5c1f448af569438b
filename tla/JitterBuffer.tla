---------------------------- MODULE JitterBuffer ----------------------------
(***************************************************************************)
(* GrUdpAudioJitterBuffer (gr_udp_protocol.h:797-883): audio packets are    *)
(* put in order, and a number that stays away is reported lost so that the  *)
(* caller conceals it.                                                      *)
(*                                                                          *)
(* The receiving thread runs AddPacket to its end.  Add is its part before  *)
(* Drain, and every turn of Drain's loop, which makes one callback, is a    *)
(* step; no packet is added between them.  Numbers are those of a stream    *)
(* that has not wrapped around (the class comment rules that out: 2.7       *)
(* years).  Payloads are left out; an empty one is ignored by AddPacket.    *)
(***************************************************************************)
EXTENDS Naturals, FiniteSets

CONSTANTS
    Seqs,               \* the sequence numbers packets carry
    MaxBuffered,        \* kMaxBuffered, 16
    MaxConsecutiveLost, \* kMaxConsecutiveLost, 5
    ResyncThreshold     \* kResyncThreshold, 6000

ASSUME BufferAssumption ==
    /\ Seqs \subseteq Nat
    /\ MaxBuffered \in Nat \ {0}
    /\ MaxConsecutiveLost \in Nat
    /\ ResyncThreshold \in Nat

VARIABLES
    packets,    \* packets_: the numbers of the buffered packets
    inited,     \* inited_
    expected,   \* expected_
    draining,   \* whether the thread is in Drain
    lost,       \* Drain's local count of numbers given up
    told        \* the callback the last step made, <<"none", 0>> if it made none

vars == <<packets, inited, expected, draining, lost, told>>

Silent == <<"none", 0>>

-----------------------------------------------------------------------------
Newest(b) == CHOOSE n \in b : \A m \in b : m <= n

\* Mutant of FarBehind: a restarted peer is not recognised.
NeverFarBehind(seq) == FALSE

\* Mutant of FarBehind: every late packet is taken for a restarted peer's.
AnyBehind(seq) == inited /\ seq < expected

\* A packet from far behind belongs to the stream of a restarted peer.
FarBehind(seq) == inited /\ seq < expected /\ expected - seq > ResyncThreshold

Refuses(b, seq) == Cardinality(b) >= MaxBuffered /\ seq > Newest(b)

\* A packet that fits in between may push out the newest one.
Insert(b, seq) ==
    LET c == b \cup {seq}
    IN  IF Cardinality(c) > MaxBuffered THEN c \ {Newest(c)} ELSE c

Init ==
    /\ packets = {}
    /\ inited = FALSE
    /\ expected = 0
    /\ draining = FALSE
    /\ lost = 0
    /\ told = Silent

\* AddPacket up to its call of Drain.
Add(seq) ==
    /\ ~draining
    /\ inited' = TRUE
    /\ expected' = IF ~inited \/ FarBehind(seq) THEN seq ELSE expected
    /\ told' = Silent
    /\ LET held == IF FarBehind(seq) THEN {} ELSE packets
       IN  IF seq < expected' \/ Refuses(held, seq)
           THEN packets' = held /\ UNCHANGED <<draining, lost>>
           ELSE packets' = Insert(held, seq) /\ draining' = TRUE /\ lost' = 0

\* Drain's loop: the expected packet is there.
Play ==
    /\ draining
    /\ expected \in packets
    /\ packets' = packets \ {expected}
    /\ expected' = expected + 1
    /\ told' = <<"frame", expected>>
    /\ UNCHANGED <<inited, draining, lost>>

\* Mutant of GivesUp: the oldest packet decides, as an earlier version had it.
GivesUpOnOldest ==
    /\ packets # {}
    /\ \A n \in packets : n > expected + 2
    /\ lost < MaxConsecutiveLost

GivesUp ==
    /\ packets # {}
    /\ Newest(packets) > expected + 2
    /\ lost < MaxConsecutiveLost

\* Mutant of Conceal: a number is given up although its packet is there.
ConcealPresent ==
    /\ draining
    /\ GivesUp
    /\ expected' = expected + 1
    /\ lost' = lost + 1
    /\ told' = <<"lost", expected>>
    /\ UNCHANGED <<packets, inited, draining>>

\* Drain's loop: the newest packet is more than two ahead, stop waiting.
Conceal ==
    /\ draining
    /\ expected \notin packets
    /\ GivesUp
    /\ expected' = expected + 1
    /\ lost' = lost + 1
    /\ told' = <<"lost", expected>>
    /\ UNCHANGED <<packets, inited, draining>>

\* Drain's loop ends.
Return ==
    /\ draining
    /\ expected \notin packets
    /\ ~GivesUp
    /\ draining' = FALSE
    /\ told' = Silent
    /\ UNCHANGED <<packets, inited, expected, lost>>

Drain == Play \/ Conceal \/ Return

Reset ==
    /\ ~draining
    /\ packets' = {}
    /\ inited' = FALSE
    /\ expected' = 0
    /\ lost' = 0
    /\ told' = Silent
    /\ UNCHANGED draining

Next == (\E seq \in Seqs : Add(seq)) \/ Drain \/ Reset

Spec == Init /\ [][Next]_vars

-----------------------------------------------------------------------------
TypeOK ==
    /\ packets \subseteq Nat /\ IsFiniteSet(packets)
    /\ inited \in BOOLEAN
    /\ expected \in Nat
    /\ draining \in BOOLEAN
    /\ lost \in 0 .. MaxConsecutiveLost
    /\ told \in {"none", "frame", "lost"} \X Nat

(***************************************************************************)
(* The buffer never outgrows its limit and holds no packet whose number has *)
(* been settled: nothing that was reported lost is still played             *)
(* (gr_udp_protocol.h:837-847).                                             *)
(***************************************************************************)
OnlyOpenNumbers ==
    /\ Cardinality(packets) <= MaxBuffered
    /\ \A n \in packets : n >= expected

(***************************************************************************)
(* Between packets nothing that can be played is held back, and the buffer  *)
(* is behind by more than two numbers only if this Drain gave up its full   *)
(* share of them (gr_udp_protocol.h:860-877).                               *)
(***************************************************************************)
NothingHeldBack ==
    ~draining => /\ expected \notin packets
                 /\ packets # {} /\ Newest(packets) > expected + 2
                      => lost = MaxConsecutiveLost

(***************************************************************************)
(* The callbacks settle the numbers of the stream in order, each once       *)
(* (gr_udp_protocol.h:815-818).                                             *)
(***************************************************************************)
P == INSTANCE Playout WITH started <- inited, next <- expected

ImplementsPlayout == P!Spec
=============================================================================
