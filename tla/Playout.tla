------------------------------ MODULE Playout ------------------------------
(***************************************************************************)
(* What the audio jitter buffer promises the decoder: the numbers of the    *)
(* stream are settled one after the other, each exactly once, as a frame or *)
(* as a loss.  Only a packet far behind, from a restarted peer, sets the    *)
(* count back.                                                              *)
(***************************************************************************)
EXTENDS Naturals

CONSTANTS Seqs,             \* the sequence numbers packets carry
          ResyncThreshold   \* how far back a number means a new stream

VARIABLES started,  \* whether the stream has begun
          next,     \* the number to be settled next
          told      \* the last callback: <<kind, number>>

Init == started = FALSE /\ next = 0 /\ told = <<"none", 0>>

Join == /\ ~started
        /\ started' = TRUE
        /\ next' \in Seqs
        /\ told' = <<"none", 0>>

Settle == /\ started
          /\ told' \in {<<"frame", next>>, <<"lost", next>>}
          /\ next' = next + 1
          /\ UNCHANGED started

Resync == /\ started
          /\ next' \in {n \in Seqs : n + ResyncThreshold < next}
          /\ told' = <<"none", 0>>
          /\ UNCHANGED started

\* A packet comes in, or the buffer is cleared: nothing is settled by it.
Quiet == told' = <<"none", 0>> /\ UNCHANGED <<started, next>>

Clear == told' = <<"none", 0>> /\ started' = FALSE /\ next' = 0

Next == Join \/ Settle \/ Resync \/ Quiet \/ Clear

Spec == Init /\ [][Next]_<<started, next, told>>
=============================================================================
