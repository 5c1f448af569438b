------------------------------ MODULE Md5Stream ------------------------------
(***************************************************************************)
(* gd::MD5 (gd_md5.h, gd_md5.cpp) without its arithmetic: how the bytes of *)
(* several calls of update are cut into blocks, padded, and finished.  The *)
(* value of _state is the sequence of the blocks transformed so far, which *)
(* it is a function of.  A byte is its place in the whole input, or one of *)
(* the padding.                                                            *)
(***************************************************************************)
EXTENDS Integers, Sequences, SequencesExt

CONSTANTS
    Block,      \* bytes of a block, 64 in the code
    LengthField \* bytes of the length at the end, 8 in the code

ASSUME Md5Assumption ==
    /\ Block \in Nat \ {0} /\ LengthField \in Nat \ {0} /\ LengthField < Block

\* The byte of the input at place k is k; the other bytes are below 1.
Unset == 0
PadByte(i) == IF i = 1 THEN -1 ELSE -2
LengthByte(count) == -3 - count

Fresh == [state |-> <<>>, count |-> 0, buffer |-> [k \in 1 .. Block |-> Unset],
          finished |-> FALSE]

Overwrite(buffer, index, bytes) ==
    [k \in 1 .. Block |->
        IF k > index /\ k - index <= Len(bytes) THEN bytes[k - index] ELSE buffer[k]]

\* Mutant: the bytes left over stay where they are in the buffer.
UpdateInPlace(m, bytes) ==
    LET index == m.count % Block
        partLen == Block - index
        length == Len(bytes)
        full == Overwrite(m.buffer, index, SubSeq(bytes, 1, partLen))
    IN  IF length >= partLen
        THEN [m EXCEPT !.count = @ + length, !.state = Append(@, full), !.buffer = full]
        ELSE [m EXCEPT !.count = @ + length, !.buffer = Overwrite(@, index, bytes)]

(***************************************************************************)
(* update: with at least partLen bytes the buffer is completed and         *)
(* transformed, then every whole block of the rest, and what is left goes  *)
(* to the start of the buffer; with fewer they only go to its end.         *)
(***************************************************************************)
Update(m, bytes) ==
    LET index == m.count % Block
        partLen == Block - index
        length == Len(bytes)
        full == Overwrite(m.buffer, index, SubSeq(bytes, 1, partLen))
        blocks == (length - partLen) \div Block
        rest == SubSeq(bytes, partLen + blocks * Block + 1, length)
        counted == [m EXCEPT !.count = @ + length, !.finished = FALSE]
    IN  IF length >= partLen
        THEN [counted EXCEPT
                !.state = Append(@, full) \o
                    [b \in 1 .. blocks |->
                        SubSeq(bytes, partLen + (b - 1) * Block + 1, partLen + b * Block)],
                !.buffer = Overwrite(full, 0, rest)]
        ELSE [counted EXCEPT !.buffer = Overwrite(@, index, bytes)]

PadLength(count) ==
    LET index == count % Block
    IN  IF index < Block - LengthField THEN Block - LengthField - index
        ELSE 2 * Block - LengthField - index

\* final: pads, appends the length, and then restores _state and _count.
Final(m) ==
    LET padded == Update(m, [i \in 1 .. PadLength(m.count) |-> PadByte(i)])
        ended == Update(padded, [i \in 1 .. LengthField |-> LengthByte(m.count)])
    IN  [ended EXCEPT !.state = m.state, !.count = m.count, !.finished = TRUE]

FinalBlocks(m) ==
    LET padded == Update(m, [i \in 1 .. PadLength(m.count) |-> PadByte(i)])
    IN  Update(padded, [i \in 1 .. LengthField |-> LengthByte(m.count)]).state

\* digest.  _finished is set before final runs, and final calls update, which
\* clears it again: what digest returns is then computed by every call anew.
Digest(m) == [m |-> [Final(m) EXCEPT !.finished = FALSE], digest |-> FinalBlocks(m)]

(***************************************************************************)
(* The definition of the digest: the input, the padding and the length in  *)
(* one, cut into blocks.                                                   *)
(***************************************************************************)
Reference(count) ==
    LET whole == [k \in 1 .. count |-> k]
                 \o [i \in 1 .. PadLength(count) |-> PadByte(i)]
                 \o [i \in 1 .. LengthField |-> LengthByte(count)]
    IN  [b \in 1 .. Len(whole) \div Block |->
            SubSeq(whole, (b - 1) * Block + 1, b * Block)]

\* A script of calls: a positive number n is update with the next n bytes, 0 is
\* digest.  given has the digests in order, each with the number of bytes it is
\* of and whether an earlier digest was asked when the padding took two blocks.
DigestCall == 0
Bytes(from, n) == [k \in 1 .. n |-> from + k]

Call(st, call) ==
    IF call = DigestCall
    THEN LET d == Digest(st.m) IN
         [st EXCEPT !.m = d.m,
                    !.given = Append(@, [of |-> st.read, digest |-> d.digest, cut |-> st.cut]),
                    !.cut = @ \/ st.read % Block >= Block - LengthField]
    ELSE [st EXCEPT !.m = Update(@, Bytes(st.read, call)), !.read = @ + call]

RunCalls(calls) ==
    FoldLeft(Call, [m |-> Fresh, read |-> 0, given |-> <<>>, cut |-> FALSE], calls)
=============================================================================
