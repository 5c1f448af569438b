---------------------------- MODULE AudioStream ----------------------------
(***************************************************************************)
(* The client's jitter buffer in three surroundings.  A wild channel brings *)
(* packets of any number in any order, repeated or not, and the client may  *)
(* reset.  An orderly one carries the packets of a sender that numbers them *)
(* one by one, in order but with outages; the sender may restart and count  *)
(* from 0 again without the client being told.  A mixed one brings, between *)
(* the packets of such a sender, stray ones of any number.                  *)
(***************************************************************************)
EXTENDS JitterBuffer

CONSTANTS
    MaxSeq,     \* bound: the numbers the sender uses
    MaxRestarts,\* bound: restarts of the sender
    Outages,    \* how many packets in a row the channel may lose
    MaxStrays   \* bound: stray packets while the sender is not heard

ASSUME StreamAssumption ==
    /\ MaxSeq \in Nat /\ MaxRestarts \in Nat /\ MaxStrays \in Nat
    /\ Outages \subseteq Nat

VARIABLES
    channel,    \* its kind: "wild", "orderly" or "mixed"
    sent,       \* the number of the next packet
    restarts,   \* restarts so far
    streak,     \* history: arrivals since the last outage, up to MaxBuffered
    muted,      \* history: the sender's packets in a row dropped as late
    strays      \* history: stray packets since the sender was last heard

surroundings == <<channel, sent, restarts, streak, muted, strays>>

streamVars == <<vars, surroundings>>

StreamInit ==
    /\ Init
    /\ channel \in {"wild", "orderly", "mixed"}
    /\ sent = 0 /\ restarts = 0 /\ streak = 0 /\ muted = 0 /\ strays = 0

Wild == /\ channel = "wild"
        /\ (\E seq \in Seqs : Add(seq)) \/ Reset
        /\ UNCHANGED surroundings

\* A packet of an earlier run of the sender comes in between.
Stray(seq) ==
    /\ channel = "mixed"
    /\ strays < MaxStrays
    /\ Add(seq)
    /\ strays' = strays + 1
    /\ UNCHANGED <<channel, sent, restarts, streak, muted>>

Arrive ==
    /\ channel # "wild"
    /\ sent <= MaxSeq
    /\ Add(sent)
    /\ sent' = sent + 1
    /\ streak' = IF channel = "orderly" /\ streak < MaxBuffered THEN streak + 1 ELSE streak
    /\ muted' = IF sent < expected' THEN muted + 1 ELSE 0
    /\ strays' = IF sent < expected' THEN strays ELSE 0
    /\ UNCHANGED <<channel, restarts>>

\* The channel recovers from an outage before the next one begins.
Lose(n) ==
    /\ streak = MaxBuffered
    /\ sent' = sent + n
    /\ streak' = 0
    /\ UNCHANGED <<vars, channel, restarts, muted, strays>>

RestartSender ==
    /\ channel # "wild"
    /\ restarts < MaxRestarts
    /\ restarts' = restarts + 1
    /\ sent' = 0
    /\ streak' = 0
    /\ muted' = 0
    /\ strays' = 0
    /\ UNCHANGED <<vars, channel>>

Drains == Drain /\ UNCHANGED surroundings

StreamNext ==
    \/ Wild
    \/ \E seq \in Seqs : Stray(seq)
    \/ Arrive
    \/ Drains
    \/ \E n \in Outages : Lose(n)
    \/ RestartSender

StreamSpec ==
    /\ StreamInit /\ [][StreamNext]_streamVars
    /\ WF_streamVars(Arrive)
    /\ WF_streamVars(Drains)

-----------------------------------------------------------------------------
(***************************************************************************)
(* A burst loss does not lead to a permanent lag: once a full buffer's      *)
(* worth of packets has arrived without a loss, and none that is not of the *)
(* sender, every number sent has been settled (gr_udp_protocol.h:803-808,   *)
(* 839-840).                                                                *)
(***************************************************************************)
CaughtUp == streak = MaxBuffered /\ ~draining => expected >= sent

(***************************************************************************)
(* At most ResyncThreshold packets of a restarted sender in a row are       *)
(* dropped as late, and as many again for every stray packet that comes     *)
(* meanwhile: a stray can move the expected number on and prolong the       *)
(* silence, but by no more than that (gr_udp_protocol.h:832-835).           *)
(***************************************************************************)
SilenceBounded == muted <= ResyncThreshold * (strays + 1)

(***************************************************************************)
(* Every packet the stream ends with is settled: when the sender has sent   *)
(* its last number the buffer drains to it.                                 *)
(***************************************************************************)
StreamSettles ==
    <>[](restarts = MaxRestarts /\ streak = MaxBuffered => expected > MaxSeq)
=============================================================================
