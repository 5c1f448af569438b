----------------------------- MODULE ReedSolomon -----------------------------
(***************************************************************************)
(* The forward error correction of the video packets: the Reed-Solomon     *)
(* code of reedsolomon/rs.c and its wrapper tc::GrFec (gr_fec.h).  Shards, *)
(* rows and columns are numbered from 0, as there.  A matrix is a function *)
(* from rows to functions from columns to bytes.  The field is the code's  *)
(* own, GF(2^8), computed from the same generator.                         *)
(***************************************************************************)
EXTENDS Integers, Sequences, FiniteSets, SequencesExt, FiniteSetsExt, Bitwise

GF_BITS == 8
GF_SIZE == 2^GF_BITS - 1
GF_PP == <<1, 0, 1, 1, 1, 0, 0, 0, 1>>
DATA_SHARDS_MAX == 255

Numbers(n) == [i \in 1 .. n |-> i - 1]

(***************************************************************************)
(* generate_gf: the powers of the generator, their logarithms, inverses.   *)
(***************************************************************************)
NextPower(powers) ==
    LET last == Last(powers)
        half == 2^(GF_BITS - 1)
    IN  IF last >= half THEN powers[GF_BITS + 1] ^^ (2 * (last - half))
        ELSE 2 * last

GfExp ==
    LET bits == [i \in 1 .. GF_BITS |-> 2^(i - 1)]
    IN  FoldLeft(LAMBDA powers, i : Append(powers, NextPower(powers)),
                 Append(bits, MapThenSumSet(LAMBDA i : GF_PP[i] * bits[i], 1 .. GF_BITS)),
                 Numbers(GF_SIZE - GF_BITS - 1))

GfLog ==
    LET powers == GfExp
    IN  [x \in 0 .. GF_SIZE |->
            IF x = 0 THEN GF_SIZE ELSE CHOOSE i \in 0 .. GF_SIZE - 1 : powers[i + 1] = x]

\* gf_exp[GF_SIZE - gf_log[x]]: the table repeats, so the index is modulo 255.
GfInverse ==
    LET powers == GfExp
        logs == GfLog
    IN  [x \in 0 .. GF_SIZE |->
            IF x = 0 THEN 0 ELSE powers[((GF_SIZE - logs[x]) % GF_SIZE) + 1]]

\* init_mul_table, modnn
GfMul(x, y) ==
    IF x = 0 \/ y = 0 THEN 0 ELSE GfExp[((GfLog[x] + GfLog[y]) % GF_SIZE) + 1]

\* mul: with c = 0 the code clears memset(dst, 0, c), which is nothing.
MulTo(dst, src, c) ==
    IF c = 0 THEN dst ELSE [b \in DOMAIN dst |-> GfMul(c, src[b])]

AddMul(dst, src, c) ==
    IF c = 0 THEN dst ELSE [b \in DOMAIN dst |-> dst[b] ^^ GfMul(c, src[b])]

(***************************************************************************)
(* invert_mat: Gauss-Jordan elimination in place.  done holds the columns  *)
(* already used as pivots and swaps the exchanged pairs of rows, which are *)
(* undone on the columns from the last to the first.                       *)
(***************************************************************************)
Exchange(f, a, b) == [f EXCEPT ![a] = f[b], ![b] = f[a]]

PivotOf(m, done, col) ==
    LET k == DOMAIN m
        found == {p \in (k \ done) \X (k \ done) : m[p[1]][p[2]] # 0}
    IN  IF col \notin done /\ m[col][col] # 0 THEN <<col, col>>
        ELSE CHOOSE p \in found : \A q \in found :
                p[1] < q[1] \/ (p[1] = q[1] /\ p[2] <= q[2])

\* Mutant: the column of the pivot is not cleared before the rows are combined.
EliminateOver(st, col) ==
    LET pivot == PivotOf(st.m, st.done, col)
        icol == pivot[2]
        swapped == Exchange(st.m, pivot[1], icol)
        row == MulTo(swapped[icol], [swapped[icol] EXCEPT ![icol] = 1],
                     GfInverse[swapped[icol][icol]])
    IN  [m |-> [r \in DOMAIN st.m |->
                    IF r = icol THEN row ELSE AddMul(swapped[r], row, swapped[r][icol])],
         done |-> st.done \cup {icol},
         swaps |-> <<pivot>> \o st.swaps]

Eliminate(st, col) ==
    LET pivot == PivotOf(st.m, st.done, col)
        icol == pivot[2]
        swapped == Exchange(st.m, pivot[1], icol)
        c == swapped[icol][icol]
        row == MulTo(swapped[icol], [swapped[icol] EXCEPT ![icol] = 1], GfInverse[c])
    IN  [m |-> [r \in DOMAIN st.m |->
                    IF r = icol THEN row
                    ELSE AddMul([swapped[r] EXCEPT ![icol] = 0], row, swapped[r][icol])],
         done |-> st.done \cup {icol},
         swaps |-> <<pivot>> \o st.swaps]

SwappedBack(st) ==
    FoldLeft(LAMBDA n, p : [r \in DOMAIN n |-> Exchange(n[r], p[1], p[2])], st.m, st.swaps)

InvertMat(m, k) ==
    SwappedBack(FoldLeft(Eliminate, [m |-> m, done |-> {}, swaps |-> <<>>], Numbers(k)))

(***************************************************************************)
(* reed_solomon_new: the identity over the Cauchy rows of the parity.  The *)
(* code inverts the identity and multiplies by it first, without effect.   *)
(***************************************************************************)
CodingMatrix(dataShards, parityShards) ==
    [r \in 0 .. dataShards + parityShards - 1 |->
        [c \in 0 .. dataShards - 1 |->
            IF r < dataShards THEN (IF r = c THEN 1 ELSE 0)
            ELSE GfInverse[(parityShards + c) ^^ (r - dataShards)]]]

CodeSomeShards(rows, inputs, outputs) ==
    [i \in DOMAIN outputs |->
        FoldLeft(LAMBDA out, c : IF c = 0 THEN MulTo(out, inputs[c], rows[i][c])
                                 ELSE AddMul(out, inputs[c], rows[i][c]),
                 outputs[i], Numbers(Cardinality(DOMAIN inputs)))]

\* The n members of S, a set of integers, from the smallest: 0 |-> ..., 1 |-> ...
Sorted(S) == LET s == SetToSortSeq(S, <) IN [i \in 0 .. Len(s) - 1 |-> s[i + 1]]

(***************************************************************************)
(* reed_solomon_decode: the rows of the shards that are there, inverted;   *)
(* a lost data shard is the product of its row of the inverse with them.   *)
(***************************************************************************)
ReedSolomonDecode(matrix, shards, dataShards, erased, parityUsed) ==
    LET kept == (0 .. dataShards - 1) \ erased
        row == LET k == Sorted(kept)
                   p == Sorted(parityUsed)
               IN  [i \in 0 .. dataShards - 1 |->
                        IF i < Cardinality(kept) THEN k[i] ELSE p[i - Cardinality(kept)]]
    IN  CodeSomeShards(Restrict(InvertMat([i \in DOMAIN row |-> matrix[row[i]]], dataShards),
                                erased),
                       [i \in DOMAIN row |-> shards[row[i]]],
                       [e \in erased |-> shards[e]])

\* The parity shards the decoder takes: the first ones that are not marked lost.
ParityTaken(dataShards, total, marks, wanted) ==
    LET there == (dataShards .. total - 1) \ marks
    IN  {i \in there : Cardinality({j \in there : j < i}) < wanted}

\* reed_solomon_reconstruct for one group: [ok, shards].
ReedSolomonReconstruct(dataShards, shards, marks) ==
    LET total == Cardinality(DOMAIN shards)
        erased == marks \cap 0 .. dataShards - 1
        parity == ParityTaken(dataShards, total, marks, Cardinality(erased))
        matrix == CodingMatrix(dataShards, total - dataShards)
    IN  IF erased = {} THEN [ok |-> TRUE, shards |-> shards]
        ELSE IF Cardinality(parity) # Cardinality(erased) THEN [ok |-> FALSE, shards |-> shards]
        ELSE [ok |-> TRUE,
              shards |-> ReedSolomonDecode(matrix, shards, dataShards, erased, parity) @@ shards]

(***************************************************************************)
(* tc::GrFec.  A block is a sequence of bytes, <<>> when it is missing.    *)
(***************************************************************************)
Zeros(size) == [b \in 1 .. size |-> 0]

\* The parity blocks, or no block at all when the arguments are refused.
Encode(blocks, parityCount) ==
    LET dataShards == Cardinality(DOMAIN blocks)
        size == Len(blocks[0])
        matrix == CodingMatrix(dataShards, parityCount)
    IN  IF \/ dataShards <= 0 \/ parityCount <= 0
           \/ dataShards + parityCount > DATA_SHARDS_MAX
           \/ size = 0
           \/ \E i \in DOMAIN blocks : Len(blocks[i]) # size
        THEN [i \in {} |-> <<>>]
        ELSE CodeSomeShards([j \in 0 .. parityCount - 1 |-> matrix[dataShards + j]],
                            blocks, [j \in 0 .. parityCount - 1 |-> Zeros(size)])

Decode(blocks, dataShards) ==
    LET total == Cardinality(DOMAIN blocks)
        missing == {i \in DOMAIN blocks : blocks[i] = <<>>}
        sizes == {Len(blocks[i]) : i \in DOMAIN blocks \ missing}
        filled == [i \in DOMAIN blocks |->
                        IF i \in missing THEN Zeros(Max(sizes)) ELSE blocks[i]]
    IN  IF \/ dataShards <= 0 \/ total < dataShards \/ total > DATA_SHARDS_MAX
           \/ Cardinality(sizes) # 1
        THEN [ok |-> FALSE, shards |-> blocks]
        ELSE IF missing = {} THEN [ok |-> TRUE, shards |-> blocks]
        ELSE IF Cardinality(missing) > total - dataShards
        THEN [ok |-> FALSE, shards |-> blocks]
        ELSE ReedSolomonReconstruct(dataShards, filled, missing)
=============================================================================
