----------------------------- MODULE SnowflakeId -----------------------------
(***************************************************************************)
(* The process-wide id generator of snowflake_id.h, on a clock that may be  *)
(* set back.  Both operations hold s_mutex from beginning to end, so one    *)
(* call of generate() at a time is between its steps; the clock moves       *)
(* between any two of them.                                                 *)
(*                                                                          *)
(* The clock is read in milliseconds and never below an epoch, so that      *)
(* CurrentTimestampMs does not wrap.                                        *)
(***************************************************************************)
EXTENDS Integers, Sequences

CONSTANTS
    Epochs,         \* arguments of initialize; 0 is among them
    Machines,       \* its machine ids; 0 is among them
    SequenceSize,   \* 2^12: ids of one millisecond
    TimestampSize,  \* 2^41: timestamps that fit an id
    MaxBackward,    \* kMaxBackwardMs
    Floor,          \* the lowest reading of the clock
    Horizon,        \* bound: the last reading of the clock
    MaxSetBacks,    \* bound: how often the clock is set back
    MaxIds,         \* bound: how many ids are generated
    Reinitialize    \* whether initialize may follow generate

ASSUME SnowflakeAssumption ==
    /\ 0 \in Epochs /\ 0 \in Machines
    /\ Machines \subseteq Nat
    /\ Epochs \subseteq 0 .. Floor
    /\ Floor \in Nat /\ Horizon \in Nat /\ Floor <= Horizon
    /\ SequenceSize \in Nat \ {0} /\ TimestampSize \in Nat \ {0}
    /\ MaxBackward \in Nat /\ MaxSetBacks \in Nat /\ MaxIds \in Nat
    /\ Reinitialize \in BOOLEAN

VARIABLES
    now,        \* s_clock_fn()
    peak,       \* history: the highest reading so far
    setBacks,   \* history: how often the clock was set back
    config,     \* s_epoch, s_machine_id, s_initialized
    last,       \* s_last_timestamp
    sequence,   \* s_sequence
    at,         \* where the call of generate() is; "idle" if there is none
    timestamp,  \* its local
    issued      \* history: the ids in the order they were returned

vars == <<now, peak, setBacks, config, last, sequence, at, timestamp, issued>>

Steps == {"idle", "enter", "back", "reread", "stamp", "next", "overflow"}

\* What a caller gets: the timestamp keeps 41 bits.
Id(ts, seq) ==
    [timestamp |-> ts % TimestampSize, machineId |-> config.machine, sequence |-> seq]

Ids == [timestamp : Nat, machineId : Nat, sequence : Nat]

CurrentTimestampMs == now - config.epoch

Later(a, b) == IF a < b THEN b ELSE a

Init ==
    /\ now \in Floor .. Horizon
    /\ peak = now
    /\ setBacks = 0
    /\ config = [epoch |-> 0, machine |-> 0, initialized |-> FALSE]
    /\ last = 0
    /\ sequence = 0
    /\ at = "idle"
    /\ timestamp = 0
    /\ issued = <<>>

-----------------------------------------------------------------------------
Tick ==
    /\ now < Horizon
    /\ now' = now + 1
    /\ peak' = Later(peak, now')
    /\ UNCHANGED <<setBacks, config, last, sequence, at, timestamp, issued>>

SetBack ==
    /\ setBacks < MaxSetBacks
    /\ setBacks' = setBacks + 1
    /\ now' \in Floor .. now - 1
    /\ UNCHANGED <<peak, config, last, sequence, at, timestamp, issued>>

Initialized(epoch, machine) ==
    /\ config' = [epoch |-> epoch, machine |-> machine, initialized |-> TRUE]
    /\ last' = 0
    /\ sequence' = 0

Initialize(epoch, machine) ==
    /\ at = "idle"
    /\ Reinitialize \/ ~config.initialized
    /\ Initialized(epoch, machine)
    /\ UNCHANGED <<now, peak, setBacks, at, timestamp, issued>>

\* A call gets the mutex; the first one initializes what nobody did.  Bound:
\* no call begins once the last id is at the horizon, where the clock stops.
Enter ==
    /\ at = "idle"
    /\ Len(issued) < MaxIds
    /\ last + config.epoch < Horizon
    /\ at' = "enter"
    /\ IF config.initialized THEN UNCHANGED <<config, last, sequence>> ELSE Initialized(0, 0)
    /\ UNCHANGED <<now, peak, setBacks, timestamp, issued>>

\* Mutant: the clock is believed even if it is far behind.
ReadClockTrusting ==
    /\ at = "enter"
    /\ timestamp' = CurrentTimestampMs
    /\ at' = IF CurrentTimestampMs < last /\ last - CurrentTimestampMs <= MaxBackward
             THEN "back" ELSE "stamp"
    /\ UNCHANGED <<now, peak, setBacks, config, last, sequence, issued>>

\* The first reading: a clock a little behind is waited for, one far behind is
\* taken to stand at the last timestamp.
ReadClock ==
    /\ at = "enter"
    /\ IF CurrentTimestampMs < last /\ last - CurrentTimestampMs <= MaxBackward
       THEN at' = "back" /\ UNCHANGED timestamp
       ELSE at' = "stamp" /\ timestamp' = Later(CurrentTimestampMs, last)
    /\ UNCHANGED <<now, peak, setBacks, config, last, sequence, issued>>

WaitBack ==
    /\ at = "back"
    /\ CurrentTimestampMs >= last
    /\ at' = "reread"
    /\ UNCHANGED <<now, peak, setBacks, config, last, sequence, timestamp, issued>>

Reread ==
    /\ at = "reread"
    /\ timestamp' = Later(CurrentTimestampMs, last)
    /\ at' = "stamp"
    /\ UNCHANGED <<now, peak, setBacks, config, last, sequence, issued>>

Return(ts, seq) ==
    /\ issued' = Append(issued, Id(ts, seq))
    /\ at' = "idle"

\* The sequence number: the next one of the same millisecond, the first of a
\* later one, or none left.
Stamp ==
    /\ at = "stamp"
    /\ IF timestamp = last
       THEN /\ sequence' = (sequence + 1) % SequenceSize
            /\ UNCHANGED last
            /\ IF sequence' = 0 THEN at' = "next" /\ UNCHANGED issued
                                ELSE Return(last, sequence')
       ELSE /\ last' = timestamp
            /\ sequence' = 0
            /\ Return(timestamp, 0)
    /\ UNCHANGED <<now, peak, setBacks, config, timestamp>>

\* Mutant: the next millisecond is used without waiting for it.
DoNotWait ==
    /\ at = "next"
    /\ at' = "overflow"
    /\ UNCHANGED <<now, peak, setBacks, config, last, sequence, timestamp, issued>>

\* Mutant: the wait is for a reading that has to be exactly the next one.
WaitExactly ==
    /\ at = "next"
    /\ CurrentTimestampMs = last + 1
    /\ at' = "overflow"
    /\ UNCHANGED <<now, peak, setBacks, config, last, sequence, timestamp, issued>>

WaitNext ==
    /\ at = "next"
    /\ CurrentTimestampMs >= last + 1
    /\ at' = "overflow"
    /\ UNCHANGED <<now, peak, setBacks, config, last, sequence, timestamp, issued>>

\* The clock may have been set back again since the wait ended.
Overflow ==
    /\ at = "overflow"
    /\ timestamp' = Later(CurrentTimestampMs, last + 1)
    /\ last' = timestamp'
    /\ Return(timestamp', sequence)
    /\ UNCHANGED <<now, peak, setBacks, config, sequence>>

Generate == Enter \/ ReadClock \/ WaitBack \/ Reread \/ Stamp \/ WaitNext \/ Overflow

Next ==
    \/ Tick
    \/ SetBack
    \/ \E e \in Epochs, m \in Machines : Initialize(e, m)
    \/ Generate

\* The clock advances and the calling thread is scheduled.
Spec == Init /\ [][Next]_vars /\ WF_vars(Tick) /\ WF_vars(Generate)

-----------------------------------------------------------------------------
TypeOK ==
    /\ now \in Floor .. Horizon
    /\ peak \in now .. Horizon
    /\ setBacks \in 0 .. MaxSetBacks
    /\ config \in [epoch : Epochs, machine : Machines, initialized : BOOLEAN]
    /\ last \in Nat
    /\ sequence \in 0 .. SequenceSize - 1
    /\ at \in Steps
    /\ timestamp \in Nat
    /\ issued \in Seq(Ids)

Before(a, b) ==
    \/ a.timestamp < b.timestamp
    \/ a.timestamp = b.timestamp /\ a.machineId < b.machineId
    \/ a.timestamp = b.timestamp /\ a.machineId = b.machineId /\ a.sequence < b.sequence

(***************************************************************************)
(* "Monotonically increasing IDs within the same process", :12: each id is  *)
(* above every id returned before it, whatever the clock does.              *)
(***************************************************************************)
Increasing ==
    \A m, n \in DOMAIN issued : m < n => Before(issued[m], issued[n])

(***************************************************************************)
(* "Generate the next unique ID", :48.                                      *)
(***************************************************************************)
Unique == \A m, n \in DOMAIN issued : m # n => issued[m] # issued[n]

(***************************************************************************)
(* Ids do not run ahead of the clock (:152-161): the timestamp of the last  *)
(* id is one the clock has shown, also when ids are generated faster than   *)
(* the sequence allows or the clock is set back in the middle of a wait.    *)
(***************************************************************************)
NeverAhead == last > 0 => last + config.epoch <= peak

(***************************************************************************)
(* generate() returns, and the mutex is free again, if the clock is not set *)
(* back for ever.                                                           *)
(***************************************************************************)
GenerateReturns == at # "idle" ~> at = "idle"
=============================================================================
