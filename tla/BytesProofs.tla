----------------------------- MODULE BytesProofs -----------------------------
(***************************************************************************)
(* Lemmas about sequences: folds, parts and flattened groups; and what is  *)
(* written as bytes and read again: packets of any content, base64 of any  *)
(* bytes, and frames of video.  FunctionsProofs states what follows for    *)
(* the conversions.                                                        *)
(***************************************************************************)
EXTENDS Conversions, VideoBytes, FiniteSetTheorems, SequenceTheorems, WellFoundedInduction, TLAPS

-----------------------------------------------------------------------------
(***************************************************************************)
(* Folds over sequences.  FoldLeft is defined by a function over all sets  *)
(* of positions, each without its greatest; that there is such a function, *)
(* and that it is a function of the steps alone, is proved from a least    *)
(* set, or number, for which it fails.                                     *)
(***************************************************************************)
LEMMA LeastNumber ==
    ASSUME NEW T \in SUBSET Nat, T # {}
    PROVE  \E n \in T : \A m \in T : n <= m
<1>1. PICK n \in T : \A m \in T : <<m, n>> \notin OpToRel(<, Nat)
  BY NatLessThanWellFounded, WFMin, Zenon
<1>2. \A m \in T : ~(m < n)
  BY <1>1, Zenon DEF OpToRel
<1> QED BY <1>2

LEMMA GreatestOf ==
    ASSUME NEW n \in Nat, NEW s \in SUBSET (1 .. n), s # {}
    PROVE  Max(s) \in s /\ \A x \in s : x <= Max(s)
<1> DEFINE T == {n - x : x \in s}
<1>0. \A x \in s : x \in Nat /\ n - x \in Nat
  OBVIOUS
<1>1. T \in SUBSET Nat /\ T # {}
  BY <1>0
<1>2. PICK t \in T : \A m \in T : t <= m
  BY <1>1, LeastNumber
<1>3. PICK x \in s : t = n - x
  BY <1>2
<1>4. ASSUME NEW y \in s PROVE y <= x
  <2>1. t <= n - y
    BY <1>2
  <2> QED BY <1>0, <1>3, <2>1
<1>5. \E z \in s : \A y \in s : z >= y
  BY <1>0, <1>4
<1>6. Max(s) \in s /\ \A y \in s : Max(s) >= y
  BY <1>5 DEF Max
<1> QED BY <1>0, <1>6

LEMMA GreatestUpTo ==
    ASSUME NEW i \in Nat \ {0}
    PROVE  Max(1 .. i) = i /\ (1 .. i) \ {i} = 1 .. i - 1
<1>1. i \in Nat /\ 1 .. i \in SUBSET (1 .. i) /\ 1 .. i # {}
  OBVIOUS
<1>2. Max(1 .. i) \in 1 .. i /\ \A x \in 1 .. i : x <= Max(1 .. i)
  BY <1>1, GreatestOf
<1> QED BY <1>2

\* The set without its greatest member.
Rest(s) == s \ {Max(s)}

\* it has what comes of the steps of F at the positions of each part of S.
Folding(it, F, base, S) ==
    it = [s \in SUBSET S |-> IF s = {} THEN base ELSE F[<<it[Rest(s)], Max(s)>>]]
FoldOf(F, base, S) == CHOOSE it : Folding(it, F, base, S)

LEMMA FoldingAt ==
    ASSUME NEW F, NEW base, NEW S, NEW it, Folding(it, F, base, S)
    PROVE  /\ it[{}] = base
           /\ \A s \in SUBSET S : s # {} => it[s] = F[<<it[Rest(s)], Max(s)>>]
<1>1. \A s \in SUBSET S : it[s] = IF s = {} THEN base ELSE F[<<it[Rest(s)], Max(s)>>]
  BY DEF Folding
<1>2. {} \in SUBSET S
  OBVIOUS
<1> QED BY <1>1, <1>2

LEMMA LeastPart ==
    ASSUME NEW S, IsFiniteSet(S), NEW T, T \subseteq SUBSET S, T # {}
    PROVE  \E x \in T : \A y \in T : y \subseteq x => y = x
<1>1. IsWellFoundedOn(StrictSubsetOrdering(S), FiniteSubsetsOf(S))
  BY FS_StrictSubsetOrderingWellFounded
<1>2. T \subseteq FiniteSubsetsOf(S)
  BY FS_FiniteSubsetsOfFinite
<1>3. PICK x \in T : \A y \in T : <<y, x>> \notin StrictSubsetOrdering(S)
  BY <1>1, <1>2, WFMin
<1>4. ASSUME NEW y \in T, y \subseteq x, y # x PROVE FALSE
  BY <1>3, <1>4 DEF StrictSubsetOrdering
<1> QED BY <1>4

LEMMA FoldingUnique ==
    ASSUME NEW n \in Nat, NEW F, NEW base, NEW A \in SUBSET (1 .. n), NEW B \in SUBSET (1 .. n),
           NEW one, NEW two, Folding(one, F, base, A), Folding(two, F, base, B)
    PROVE  \A s \in SUBSET (A \cap B) : one[s] = two[s]
<1> DEFINE T == {s \in SUBSET (A \cap B) : one[s] # two[s]}
<1> SUFFICES ASSUME T # {} PROVE FALSE
  OBVIOUS
<1> DEFINE S == 1 .. n
<1>1. T \subseteq SUBSET S
  OBVIOUS
<1>2. PICK s \in T : \A y \in T : y \subseteq s => y = s
  <2>1. IsFiniteSet(S)
    BY FS_Interval
  <2> HIDE DEF S, T
  <2> QED BY <1>1, <2>1, LeastPart
<1>3. s # {}
  <2>1. one[{}] = base /\ two[{}] = base
    BY FoldingAt
  <2> QED BY <2>1
<1>4. one[s] = F[<<one[Rest(s)], Max(s)>>] /\ two[s] = F[<<two[Rest(s)], Max(s)>>]
  <2>1. s \in SUBSET A /\ s \in SUBSET B
    OBVIOUS
  <2>2. \A t \in SUBSET A : t # {} => one[t] = F[<<one[Rest(t)], Max(t)>>]
    BY DEF Folding
  <2>3. \A t \in SUBSET B : t # {} => two[t] = F[<<two[Rest(t)], Max(t)>>]
    BY DEF Folding
  <2> QED BY <1>3, <2>1, <2>2, <2>3
<1>5. Max(s) \in s
  BY <1>3, GreatestOf
<1>6. Rest(s) \notin T
  BY <1>2, <1>5 DEF Rest
<1>7. one[Rest(s)] = two[Rest(s)]
  BY <1>6 DEF Rest
<1> QED BY <1>4, <1>7

LEMMA FoldingExists ==
    ASSUME NEW n \in Nat, NEW F, NEW base
    PROVE  Folding(FoldOf(F, base, 1 .. n), F, base, 1 .. n)
<1> DEFINE S == 1 .. n
           Fold(A) == FoldOf(F, base, A)
           T == {A \in SUBSET S : ~Folding(Fold(A), F, base, A)}
<1> SUFFICES ASSUME T # {} PROVE FALSE
  <2>1. S \notin T
    OBVIOUS
  <2> QED BY <2>1
<1>1. PICK A \in T : \A y \in T : y \subseteq A => y = A
  <2>1. T \subseteq SUBSET S
    OBVIOUS
  <2>2. IsFiniteSet(S)
    BY FS_Interval
  <2> HIDE DEF S, T
  <2> QED BY <2>1, <2>2, LeastPart
<1>2. \A s \in SUBSET A : s # A => Folding(Fold(s), F, base, s)
  BY <1>1
<1> DEFINE it == [s \in SUBSET A |-> IF s = {} THEN base
                                     ELSE IF s = A THEN F[<<Fold(Rest(s))[Rest(s)], Max(s)>>]
                                     ELSE Fold(s)[s]]
<1>3. \A s \in SUBSET A : s # {} => Max(s) \in s
  BY GreatestOf
<1>4. ASSUME NEW s \in SUBSET A, s # A PROVE it[s] = Fold(s)[s]
  <2>1. s = {} => Fold(s)[s] = base
    BY <1>2, <1>4, FoldingAt
  <2> HIDE DEF Fold
  <2> QED BY <1>4, <2>1
<1>5. ASSUME NEW s \in SUBSET A, s # {}
      PROVE  it[s] = F[<<it[Rest(s)], Max(s)>>]
  <2>1. Max(s) \in s /\ Rest(s) # A /\ Rest(s) \subseteq A /\ Rest(s) \subseteq s
    BY <1>3, <1>5 DEF Rest
  <2>2. it[Rest(s)] = Fold(Rest(s))[Rest(s)]
    BY <1>4, <2>1
  <2>3. CASE s = A
    BY <1>5, <2>2, <2>3
  <2>4. CASE s # A
    <3>1. it[s] = Fold(s)[s]
      BY <1>4, <2>4
    <3>2. Folding(Fold(s), F, base, s) /\ Folding(Fold(Rest(s)), F, base, Rest(s))
      BY <1>2, <2>1, <2>4
    <3>3. Fold(s)[s] = F[<<Fold(s)[Rest(s)], Max(s)>>]
      <4> HIDE DEF Fold
      <4> QED BY <1>5, <3>2, FoldingAt
    <3>4. Fold(s)[Rest(s)] = Fold(Rest(s))[Rest(s)]
      <4>1. s \in SUBSET (1 .. n) /\ Rest(s) \in SUBSET (1 .. n)
        BY <2>1
      <4>2. Rest(s) \in SUBSET (s \cap Rest(s))
        BY <2>1
      <4> HIDE DEF Fold
      <4> QED BY <3>2, <4>1, <4>2, FoldingUnique, SMTT(30)
    <3> QED BY <2>2, <3>1, <3>3, <3>4
  <2> QED BY <2>3, <2>4
<1>6. it[{}] = base
  OBVIOUS
<1>7. Folding(it, F, base, A)
  <2>1. \A s \in SUBSET A : it[s] = IF s = {} THEN base ELSE F[<<it[Rest(s)], Max(s)>>]
    BY <1>5, <1>6
  <2>2. it = [s \in SUBSET A |-> it[s]]
    OBVIOUS
  <2> HIDE DEF it
  <2> QED BY <2>1, <2>2 DEF Folding
<1>8. Folding(Fold(A), F, base, A)
  <2> HIDE DEF it
  <2> QED BY <1>7 DEF FoldOf
<1> QED BY <1>8

\* What a fold makes of base in the state space X, where F keeps it.
LEMMA FoldingType ==
    ASSUME NEW n \in Nat, NEW X, NEW F, NEW base \in X, NEW it, Folding(it, F, base, 1 .. n),
           \A x \in X, i \in 1 .. n : F[<<x, i>>] \in X
    PROVE  \A s \in SUBSET (1 .. n) : it[s] \in X
<1> DEFINE T == {s \in SUBSET (1 .. n) : it[s] \notin X}
<1> SUFFICES ASSUME T # {} PROVE FALSE
  OBVIOUS
<1> DEFINE S == 1 .. n
<1>1. T \subseteq SUBSET S
  OBVIOUS
<1>2. PICK s \in T : \A y \in T : y \subseteq s => y = s
  <2>1. IsFiniteSet(S)
    BY FS_Interval
  <2> HIDE DEF S, T
  <2> QED BY <1>1, <2>1, LeastPart
<1>3. s # {}
  <2>1. it[{}] = base
    BY FoldingAt
  <2> QED BY <2>1
<1>4. it[s] = F[<<it[Rest(s)], Max(s)>>]
  <2>1. s \in SUBSET S
    OBVIOUS
  <2>2. Folding(it, F, base, S)
    OBVIOUS
  <2> HIDE DEF S, T
  <2> QED BY <1>3, <2>1, <2>2, FoldingAt
<1>5. Max(s) \in s
  BY <1>3, GreatestOf
<1>6. Rest(s) \notin T
  BY <1>2, <1>5 DEF Rest
<1>7. it[Rest(s)] \in X
  BY <1>6 DEF Rest
<1> QED BY <1>4, <1>5, <1>7

\* F keeps its states in X, and it has what comes of it.
Keeps(F, X, n) == \A x \in X, i \in 1 .. n : F[<<x, i>>] \in X
Folded(it, F, base, X, n) ==
    /\ it = [s \in SUBSET (1 .. n) |-> it[s]]
    /\ it[{}] = base
    /\ \A s \in SUBSET (1 .. n) : s # {} =>
         /\ it[s] = F[<<it[s \ {Max(s)}], Max(s)>>]
         /\ Max(s) \in 1 .. n /\ it[s \ {Max(s)}] \in X

LEMMA FoldSteps ==
    ASSUME NEW n \in Nat, NEW X, NEW F, NEW base \in X, Keeps(F, X, n)
    PROVE  \E it : Folded(it, F, base, X, n)
<1> DEFINE it == FoldOf(F, base, 1 .. n)
<1>1. Folding(it, F, base, 1 .. n)
  BY FoldingExists
<1>2. \A s \in SUBSET (1 .. n) : it[s] \in X
  BY <1>1, FoldingType DEF Keeps
<1>3. \A s \in SUBSET (1 .. n) : s # {} => Max(s) \in s /\ Rest(s) \in SUBSET (1 .. n)
  BY GreatestOf DEF Rest
<1>4. \A s \in SUBSET (1 .. n) : s # {} => Max(s) \in 1 .. n /\ it[s \ {Max(s)}] \in X
  BY <1>2, <1>3 DEF Rest
<1> HIDE DEF it
<1>5. it = [s \in SUBSET (1 .. n) |-> it[s]] /\ it[{}] = base
  BY <1>1 DEF Folding
<1>6. \A s \in SUBSET (1 .. n) : s # {} => it[s] = F[<<it[s \ {Max(s)}], Max(s)>>]
  BY <1>1 DEF Folding, Rest
<1> QED BY <1>4, <1>5, <1>6 DEF Folded

\* Induction upwards to n.
LEMMA Upward ==
    ASSUME NEW n \in Nat, NEW G, 0 \in G, \A i \in 1 .. n : i - 1 \in G => i \in G
    PROVE  \A i \in 0 .. n : i \in G
<1> DEFINE T == {i \in 0 .. n : i \notin G}
<1> SUFFICES ASSUME T # {} PROVE FALSE
  OBVIOUS
<1>1. PICK i \in T : \A m \in T : i <= m
  <2>1. T \in SUBSET Nat
    OBVIOUS
  <2> HIDE DEF T
  <2> QED BY <2>1, LeastNumber
<1>2. i # 0
  OBVIOUS
<1>3. i \in 1 .. n /\ i - 1 \in 0 .. n /\ i - 1 \notin T
  BY <1>1, <1>2
<1> QED BY <1>3

-----------------------------------------------------------------------------
\* A part of a sequence, and a byte without its interval.
LEMMA Slice ==
    ASSUME NEW S, NEW s \in Seq(S), NEW f \in Nat, NEW k \in Nat, f + k <= Len(s)
    PROVE  /\ SubSeq(s, f + 1, f + k) \in Seq(S)
           /\ Len(SubSeq(s, f + 1, f + k)) = k
           /\ \A i \in 1 .. k : SubSeq(s, f + 1, f + k)[i] = s[f + i]
<1> DEFINE m == f + 1  n == f + k  p == SubSeq(s, m, n)
<1>1. m \in Int /\ n \in Int /\ n - m + 1 = k /\ (m <= n <=> k >= 1)
  OBVIOUS
<1>2. \A i \in m .. n : s[i] \in S
  OBVIOUS
<1>3. \A i \in 1 .. k : m + i - 1 = f + i
  OBVIOUS
<1> HIDE DEF m, n
<1>4. p \in Seq(S) /\ Len(p) = (IF m <= n THEN n - m + 1 ELSE 0) /\ \A i \in 1 .. n - m + 1 : p[i] = s[m + i - 1]
  BY <1>1, <1>2, SubSeqProperties
<1>5. Len(p) = k
  BY <1>1, <1>4
<1> HIDE DEF p
<1>6. \A i \in 1 .. k : p[i] = s[f + i]
  BY <1>1, <1>3, <1>4
<1> QED BY <1>4, <1>5, <1>6 DEF p, m, n

LEMMA ByteIs ==
    ASSUME NEW n
    PROVE  n \in Byte <=> n \in Nat /\ n <= 255
BY SMT DEF Byte

-----------------------------------------------------------------------------
(***************************************************************************)
(* Packets.  What is written behind a part of a packet leaves what is read *)
(* in that part as it is.                                                  *)
(***************************************************************************)
Bytes8 == Seq(Byte)

LEMMA JoinedBytes ==
    ASSUME NEW s \in Bytes8, NEW t \in Bytes8
    PROVE  /\ s \o t \in Bytes8 /\ Len(s) \in Nat /\ Len(t) \in Nat
           /\ Len(s \o t) = Len(s) + Len(t)
           /\ \A i \in 1 .. Len(s) : (s \o t)[i] = s[i] /\ s[i] \in Byte
           /\ \A i \in 1 .. Len(t) : (s \o t)[Len(s) + i] = t[i] /\ t[i] \in Byte
BY DEF Bytes8

LEMMA ReadBehind ==
    ASSUME NEW s \in Bytes8, NEW t \in Bytes8
    PROVE  /\ \A at \in Nat : at + 2 <= Len(s) => R16(s \o t, at) = R16(s, at)
           /\ \A at \in Nat : at + 4 <= Len(s) => R32(s \o t, at) = R32(s, at)
           /\ Len(s) >= 4 => ParseCommon(s \o t) = ParseCommon(s)
           /\ From(s \o t, Len(s)) = t
<1>1. \A at \in Nat : at + 2 <= Len(s) => R16(s \o t, at) = R16(s, at)
  BY JoinedBytes DEF R16
<1>2. \A at \in Nat : at + 4 <= Len(s) => R32(s \o t, at) = R32(s, at)
  <2> SUFFICES ASSUME NEW at \in Nat, at + 4 <= Len(s) PROVE R32(s \o t, at) = R32(s, at)
    OBVIOUS
  <2>1. Len(s) \in Nat
    BY JoinedBytes
  <2>2. at + 2 \in Nat /\ at + 2 <= Len(s) /\ (at + 2) + 2 <= Len(s)
    BY <2>1
  <2>3. R16(s \o t, at) = R16(s, at) /\ R16(s \o t, at + 2) = R16(s, at + 2)
    BY <1>1, <2>2
  <2> QED BY <2>3 DEF R32
<1>3. Len(s) >= 4 => ParseCommon(s \o t) = ParseCommon(s)
  <2> SUFFICES ASSUME Len(s) >= 4 PROVE ParseCommon(s \o t) = ParseCommon(s)
    OBVIOUS
  <2>1. Len(s) \in Nat /\ Len(t) \in Nat /\ Len(s \o t) = Len(s) + Len(t)
    BY JoinedBytes
  <2>2. (s \o t)[1] = s[1] /\ (s \o t)[2] = s[2] /\ (s \o t)[3] = s[3] /\ (s \o t)[4] = s[4]
    <3>1. 1 \in 1 .. Len(s) /\ 2 \in 1 .. Len(s) /\ 3 \in 1 .. Len(s) /\ 4 \in 1 .. Len(s)
      BY <2>1
    <3> QED BY <3>1, JoinedBytes
  <2>4. R16(s \o t, 0) = R16(s, 0)
    BY <2>2 DEF R16
  <2>3. ~(Len(s \o t) < kCommonHeaderSize) /\ ~(Len(s) < kCommonHeaderSize)
    BY <2>1 DEF kCommonHeaderSize
  <2> QED BY <2>2, <2>3, <2>4 DEF ParseCommon
<1>4. From(s \o t, Len(s)) = t
  BY DEF From, Bytes8
<1> QED BY <1>1, <1>2, <1>3, <1>4

LEMMA Word16Bytes ==
    ASSUME NEW v \in Word16
    PROVE  /\ W16(v) \in Bytes8 /\ Len(W16(v)) = 2
           /\ W16(v)[1] + 256 * W16(v)[2] = v
<1>0. v \in Nat /\ v <= 65535
  BY SMT DEF Word16
<1>1. v % 256 \in Byte /\ v \div 256 \in Byte /\ (v \div 256) % 256 = v \div 256 /\ (v % 256) + 256 * (v \div 256) = v
  <2>1. v % 256 \in Byte /\ v \div 256 \in Byte
    BY <1>0, SMT DEF Byte
  <2>2. (v \div 256) % 256 = v \div 256
    BY <2>1, SMT DEF Byte
  <2>3. (v % 256) + 256 * (v \div 256) = v
    BY <1>0, SMT
  <2> QED BY <2>1, <2>2, <2>3
<1>2. W16(v) = <<v % 256, v \div 256>>
  BY <1>1, SMT DEF W16
<1>3. <<v % 256, v \div 256>> \in Seq(Byte)
  BY <1>1
<1> QED BY <1>1, <1>2, <1>3 DEF Bytes8

LEMMA ReadWord16 ==
    ASSUME NEW s \in Bytes8, NEW v \in Word16
    PROVE  /\ s \o W16(v) \in Bytes8 /\ Len(s \o W16(v)) = Len(s) + 2
           /\ R16(s \o W16(v), Len(s)) = v
<1>1. W16(v) \in Bytes8 /\ Len(W16(v)) = 2 /\ W16(v)[1] + 256 * W16(v)[2] = v
  BY Word16Bytes
<1> DEFINE w == W16(v)
<1>2. w \in Bytes8 /\ 1 \in 1 .. Len(w) /\ 2 \in 1 .. Len(w)
  BY <1>1
<1> HIDE DEF w
<1>3. s \o w \in Bytes8 /\ Len(s \o w) = Len(s) + Len(w) /\ (s \o w)[Len(s) + 1] = w[1] /\ (s \o w)[Len(s) + 2] = w[2]
  BY <1>2, JoinedBytes
<1> QED BY <1>1, <1>3 DEF R16, w

LEMMA LowHalf ==
    ASSUME NEW v \in Nat
    PROVE  v % 65536 \in Word16
<1> DEFINE l == v % 65536
<1>1. l \in Nat /\ l <= 65535
  BY SMT
<1> HIDE DEF l
<1>2. l \in Word16
  BY <1>1, SMT DEF Word16
<1> QED BY <1>2 DEF l

LEMMA Word32Halves ==
    ASSUME NEW v \in Word32
    PROVE  /\ v \in Nat /\ v % 65536 \in Word16 /\ v \div 65536 \in Word16
           /\ (v \div 65536) % 65536 = v \div 65536
           /\ (v % 65536) + 65536 * (v \div 65536) = v
<1>1. v \in Nat /\ v \div 65536 \in Word16
  BY SMT DEF Word32, Word16
<1>2. v % 65536 \in Word16
  BY <1>1, LowHalf
<1>3. (v \div 65536) % 65536 = v \div 65536
  <2> DEFINE h == v \div 65536
  <2>1. h \in Nat /\ h <= 65535
    <3>1. h \in Word16
      BY <1>1
    <3> HIDE DEF h
    <3> QED BY ONLY <3>1, SMT DEF Word16
  <2> HIDE DEF h
  <2>2. h % 65536 = h
    BY ONLY <2>1, SMT
  <2> QED BY <2>2 DEF h
<1>4. (v % 65536) + 65536 * (v \div 65536) = v
  BY <1>1, SMT
<1> QED BY <1>1, <1>2, <1>3, <1>4

LEMMA ReadWord32 ==
    ASSUME NEW s \in Bytes8, NEW v \in Word32
    PROVE  /\ s \o W32(v) \in Bytes8 /\ Len(s \o W32(v)) = Len(s) + 4
           /\ R32(s \o W32(v), Len(s)) = v
<1> DEFINE lo == v % 65536  hi == v \div 65536  t == s \o W16(lo)  u == t \o W16(hi)
<1>1. lo \in Word16 /\ hi \in Word16 /\ lo + 65536 * hi = v /\ W32(v) = W16(lo) \o W16(hi)
  <2>1. lo \in Word16 /\ hi \in Word16 /\ lo + 65536 * hi = v /\ hi % 65536 = hi
    BY Word32Halves
  <2> QED BY <2>1, SMT DEF W32
<1> HIDE DEF lo, hi
<1>2. t \in Bytes8 /\ Len(t) = Len(s) + 2 /\ R16(t, Len(s)) = lo
  BY <1>1, ReadWord16
<1>3. u \in Bytes8 /\ Len(u) = Len(t) + 2 /\ R16(u, Len(t)) = hi
  <2> HIDE DEF t
  <2> QED BY <1>1, <1>2, ReadWord16
<1>4. W16(lo) \in Bytes8 /\ W16(hi) \in Bytes8 /\ Len(s) \in Nat
  BY <1>1, Word16Bytes DEF Bytes8
<1>5. s \o W32(v) = u
  BY <1>1, <1>4, ConcatAssociative, SMTT(30) DEF Bytes8
<1>6. R16(u, Len(s)) = R16(t, Len(s))
  <2> HIDE DEF t
  <2> QED BY <1>2, <1>4, ReadBehind
<1> HIDE DEF t, u
<1>7. R32(u, Len(s)) = R16(u, Len(s)) + 65536 * R16(u, Len(s) + 2)
  BY SMT DEF R32
<1> QED BY <1>1, <1>2, <1>3, <1>4, <1>5, <1>6, <1>7, SMT

LEMMA CommonHeader ==
    ASSUME NEW type \in {kPktVideo, kPktAudio, kPktCtrl}
    PROVE  /\ WriteCommon(type) \in Bytes8 /\ Len(WriteCommon(type)) = 4
           /\ ParseCommon(WriteCommon(type)) = type
<1> DEFINE m == W16(kMagic)  e == <<kVersion, type>>
<1>1. kMagic \in Word16 /\ type \in Byte /\ kVersion \in Byte
  BY SMT DEF kMagic, Word16, Byte, kPktVideo, kPktAudio, kPktCtrl, kVersion
<1>2. m \in Bytes8 /\ Len(m) = 2 /\ m[1] + 256 * m[2] = kMagic
  BY <1>1, Word16Bytes
<1>3. e \in Bytes8 /\ Len(e) = 2 /\ e[1] = kVersion /\ e[2] = type
  BY <1>1 DEF Bytes8
<1> HIDE DEF m, e
<1>4. /\ m \o e \in Bytes8 /\ Len(m \o e) = 4
      /\ (m \o e)[1] = m[1] /\ (m \o e)[2] = m[2] /\ (m \o e)[3] = kVersion /\ (m \o e)[4] = type
  <2>1. 1 \in 1 .. Len(m) /\ 2 \in 1 .. Len(m) /\ 1 \in 1 .. Len(e) /\ 2 \in 1 .. Len(e)
    BY <1>2, <1>3
  <2>2. /\ m \o e \in Bytes8 /\ Len(m \o e) = Len(m) + Len(e)
        /\ (m \o e)[1] = m[1] /\ (m \o e)[2] = m[2]
        /\ (m \o e)[Len(m) + 1] = e[1] /\ (m \o e)[Len(m) + 2] = e[2]
    <3>1. /\ m \o e \in Bytes8 /\ Len(m \o e) = Len(m) + Len(e)
          /\ \A i \in 1 .. Len(m) : (m \o e)[i] = m[i]
          /\ \A i \in 1 .. Len(e) : (m \o e)[Len(m) + i] = e[i]
      BY <1>2, <1>3, JoinedBytes
    <3> QED BY <2>1, <3>1
  <2> QED BY <1>2, <1>3, <2>2
<1>5. WriteCommon(type) = m \o e
  BY DEF WriteCommon, m, e
<1> QED BY <1>2, <1>4, <1>5 DEF ParseCommon, R16, kCommonHeaderSize

LEMMA Word32Bytes ==
    ASSUME NEW v \in Word32
    PROVE  W32(v) \in Bytes8
<1> DEFINE lo == W16(v % 65536)  hi == W16((v \div 65536) % 65536)
<1>1. lo \in Bytes8 /\ hi \in Bytes8
  BY Word32Halves, Word16Bytes
<1>2. W32(v) = lo \o hi
  BY DEF W32
<1> HIDE DEF lo, hi
<1> QED BY <1>1, <1>2, JoinedBytes

\* The same for readers at a place known as a number.
LEMMA ReadOn16 ==
    ASSUME NEW s \in Bytes8, NEW n \in Nat, Len(s) = n, NEW v \in Word16
    PROVE  s \o W16(v) \in Bytes8 /\ Len(s \o W16(v)) = n + 2 /\ R16(s \o W16(v), n) = v
BY ReadWord16

LEMMA ReadOn32 ==
    ASSUME NEW s \in Bytes8, NEW n \in Nat, Len(s) = n, NEW v \in Word32
    PROVE  s \o W32(v) \in Bytes8 /\ Len(s \o W32(v)) = n + 4 /\ R32(s \o W32(v), n) = v
BY ReadWord32

LEMMA ReadOnRest ==
    ASSUME NEW s \in Bytes8, NEW n \in Nat, Len(s) = n, NEW t \in Bytes8
    PROVE  s \o t \in Bytes8 /\ Len(s \o t) = n + Len(t) /\ From(s \o t, n) = t
BY JoinedBytes, ReadBehind

\* An audio packet is read as it was made.
LEMMA AudioIsRead ==
    ASSUME NEW seq \in Word32, NEW timestamp \in Word32, NEW payload \in Bytes8,
           payload # <<>>, Len(payload) \in Word16
    PROVE  ParseAudioPacket(BuildAudioPacket(seq, timestamp, payload)) =
             [ok |-> TRUE, seq |-> seq, timestamp |-> timestamp, payload |-> payload]
<1> DEFINE a == WriteCommon(kPktAudio)
           b == a \o W32(seq)
           c == b \o W32(timestamp)
           d == c \o W16(Len(payload))
           s == d \o payload
<1>1. a \in Bytes8 /\ Len(a) = 4 /\ ParseCommon(a) = kPktAudio
  BY CommonHeader
<1>2. W32(seq) \in Bytes8 /\ W32(timestamp) \in Bytes8 /\ W16(Len(payload)) \in Bytes8
  BY Word16Bytes, Word32Bytes
<1> HIDE DEF a
<1>3. b \in Bytes8 /\ Len(b) = 4 + 4 /\ R32(b, 4) = seq
  BY <1>1, ReadOn32
<1>4. ParseCommon(b) = kPktAudio
  <2>1. Len(a) >= 4
    BY <1>1
  <2> QED BY <1>1, <1>2, <2>1, ReadBehind
<1> HIDE DEF b
<1>5. Len(b) = 8 /\ 8 \in Nat /\ Len(b) >= 4 /\ 4 + 4 <= Len(b) /\ 4 \in Nat
  BY <1>3
<1>6. c \in Bytes8 /\ Len(c) = 8 + 4 /\ R32(c, 8) = timestamp
  <2>1. b \in Bytes8 /\ Len(b) = 8 /\ 8 \in Nat
    BY <1>3
  <2>2. LET u == b \o W32(timestamp) IN u \in Bytes8 /\ Len(u) = 8 + 4 /\ R32(u, 8) = timestamp
    BY <2>1, ReadOn32
  <2> QED BY <2>2
<1>7. R32(c, 4) = seq /\ ParseCommon(c) = kPktAudio
  BY <1>2, <1>3, <1>4, <1>5, ReadBehind
<1> HIDE DEF c
<1>8. Len(c) = 12 /\ 12 \in Nat /\ Len(c) >= 4 /\ 4 + 4 <= Len(c) /\ 8 + 4 <= Len(c) /\ 4 \in Nat
  BY <1>6
<1>9. d \in Bytes8 /\ Len(d) = 12 + 2 /\ R16(d, 12) = Len(payload)
  <2>1. c \in Bytes8 /\ Len(c) = 12 /\ 12 \in Nat
    BY <1>6
  <2>2. LET u == c \o W16(Len(payload)) IN
        u \in Bytes8 /\ Len(u) = 12 + 2 /\ R16(u, 12) = Len(payload)
    BY <2>1, ReadOn16
  <2> QED BY <2>2
<1>10. R32(d, 4) = seq /\ R32(d, 8) = timestamp /\ ParseCommon(d) = kPktAudio
  <2> DEFINE t == W16(Len(payload))
  <2>1. c \in Bytes8 /\ t \in Bytes8 /\ d = c \o t
    BY <1>2, <1>6
  <2> HIDE DEF t
  <2>2. ParseCommon(c \o t) = ParseCommon(c)
    BY <1>8, <2>1, ReadBehind
  <2>3. R32(c \o t, 4) = R32(c, 4)
    BY <1>8, <2>1, ReadBehind
  <2>4. R32(c \o t, 8) = R32(c, 8)
    <3>1. 8 \in Nat
      OBVIOUS
    <3> QED BY <1>8, <2>1, <3>1, ReadBehind
  <2> QED BY <1>6, <1>7, <2>1, <2>2, <2>3, <2>4
<1> HIDE DEF d
<1>11. /\ Len(d) = 14 /\ 14 \in Nat /\ Len(d) >= 4 /\ 4 + 4 <= Len(d) /\ 8 + 4 <= Len(d)
       /\ 12 + 2 <= Len(d) /\ 4 \in Nat /\ 8 \in Nat /\ 12 \in Nat
  BY <1>9
<1>12. Len(s) = 14 + Len(payload) /\ From(s, 14) = payload
  <2>1. d \in Bytes8 /\ Len(d) = 14 /\ 14 \in Nat
    BY <1>9
  <2>2. Len(d \o payload) = Len(d) + Len(payload)
    BY <2>1, JoinedBytes
  <2>3. From(d \o payload, Len(d)) = payload
    BY <2>1, ReadBehind
  <2> QED BY <2>1, <2>2, <2>3
<1>13. R32(s, 4) = seq /\ R32(s, 8) = timestamp /\ ParseCommon(s) = kPktAudio /\ R16(s, 12) = Len(payload)
  BY <1>9, <1>10, <1>11, ReadBehind
<1>14. BuildAudioPacket(seq, timestamp, payload) = s
  <2>1. ~(Len(payload) > 65535)
    BY SMT DEF Word16
  <2> QED BY <2>1, SMT DEF BuildAudioPacket, a, b, c, d
<1>15. Len(payload) \in Nat
  BY JoinedBytes
<1> HIDE DEF s
<1>16. ~(Len(s) < 4 + 10) /\ Len(s) = 4 + 10 + Len(payload)
  BY <1>12, <1>15
<1>17. ParseAudioPacket(s) = [ok |-> TRUE, seq |-> seq, timestamp |-> timestamp, payload |-> payload]
  BY <1>12, <1>13, <1>16 DEF ParseAudioPacket, kCommonHeaderSize, kAudioHeaderSize
<1> QED BY <1>14, <1>17

(***************************************************************************)
(* A string is read back wherever it is in a packet.                       *)
(***************************************************************************)

LEMMA StringBytes ==
    ASSUME NEW a \in Bytes8, Len(a) <= 255
    PROVE  /\ WriteString(a) \in Bytes8 /\ Len(WriteString(a)) = 1 + Len(a)
           /\ WriteString(a)[1] = Len(a)
           /\ \A i \in 1 .. Len(a) : WriteString(a)[1 + i] = a[i]
<1> DEFINE w == <<Len(a)>>
<1>1. Len(a) \in Nat
  BY JoinedBytes
<1>2. Len(a) % 256 = Len(a) /\ Len(a) \in Byte
  BY <1>1, ByteIs, SMT
<1>3. w \in Bytes8 /\ Len(w) = 1 /\ w[1] = Len(a)
  BY <1>2 DEF Bytes8
<1>4. WriteString(a) = w \o a
  BY <1>2 DEF WriteString, W8
<1>5. 1 \in 1 .. Len(w)
  BY <1>3
<1> HIDE DEF w
<1>6. /\ w \o a \in Bytes8 /\ Len(w \o a) = Len(w) + Len(a) /\ (w \o a)[1] = w[1]
      /\ \A i \in 1 .. Len(a) : (w \o a)[Len(w) + i] = a[i]
  BY <1>3, <1>5, JoinedBytes
<1> QED BY <1>3, <1>4, <1>6

LEMMA StringAt ==
    ASSUME NEW s \in Bytes8, NEW n \in Nat, NEW a \in Bytes8,
           n + 1 + Len(a) <= Len(s), s[n + 1] = Len(a),
           \A i \in 1 .. Len(a) : s[n + 1 + i] = a[i]
    PROVE  ReadString(s, n) = [ok |-> TRUE, string |-> a, at |-> n + 1 + Len(a)]
<1>1. Len(a) \in Nat /\ Len(s) \in Nat
  BY JoinedBytes
<1>2. ~(Len(s) < n + 1) /\ ~(Len(s) < n + 1 + s[n + 1])
  BY <1>1
<1>3. SubSeq(s, n + 2, n + 1 + Len(a)) = a
  <2> DEFINE f == n + 1  p == SubSeq(s, f + 1, f + Len(a))
  <2>1. f \in Nat /\ f + Len(a) <= Len(s) /\ f + 1 = n + 2 /\ f + Len(a) = n + 1 + Len(a)
    BY <1>1
  <2>2. \A i \in 1 .. Len(a) : s[f + i] = a[i]
    OBVIOUS
  <2> HIDE DEF f
  <2>3. p \in Seq(Byte) /\ Len(p) = Len(a) /\ \A i \in 1 .. Len(a) : p[i] = s[f + i]
    BY <1>1, <2>1, Slice DEF Bytes8
  <2> HIDE DEF p
  <2>5. a \in Seq(Byte) /\ Len(p) = Len(a) /\ \A i \in 1 .. Len(p) : p[i] = a[i]
    BY <2>2, <2>3 DEF Bytes8
  <2>4. p = a
    BY <2>3, <2>5, SeqEqual
  <2> QED BY <2>1, <2>4 DEF p
<1> QED BY <1>2, <1>3 DEF ReadString

LEMMA ReadOnString ==
    ASSUME NEW s \in Bytes8, NEW n \in Nat, Len(s) = n, NEW a \in Bytes8, Len(a) <= 255
    PROVE  /\ s \o WriteString(a) \in Bytes8
           /\ Len(s \o WriteString(a)) = n + 1 + Len(a)
           /\ ReadString(s \o WriteString(a), n) = [ok |-> TRUE, string |-> a, at |-> n + 1 + Len(a)]
<1> DEFINE w == WriteString(a)  u == s \o w
<1>1. w \in Bytes8 /\ Len(w) = 1 + Len(a) /\ w[1] = Len(a) /\ \A i \in 1 .. Len(a) : w[1 + i] = a[i]
  BY StringBytes
<1>2. Len(a) \in Nat
  BY JoinedBytes
<1> HIDE DEF w
<1>3. u \in Bytes8 /\ Len(u) = n + Len(w) /\ \A i \in 1 .. Len(w) : u[n + i] = w[i]
  BY <1>1, JoinedBytes
<1> HIDE DEF u
<1>4. n + 1 + Len(a) <= Len(u) /\ u[n + 1] = Len(a)
  BY <1>1, <1>2, <1>3
<1>5. \A i \in 1 .. Len(a) : u[n + 1 + i] = a[i]
  <2> SUFFICES ASSUME NEW i \in 1 .. Len(a) PROVE u[n + 1 + i] = a[i]
    OBVIOUS
  <2>1. 1 + i \in 1 .. Len(w) /\ n + (1 + i) = n + 1 + i
    BY <1>1, <1>2
  <2> QED BY <1>1, <1>3, <2>1
<1>6. ReadString(u, n) = [ok |-> TRUE, string |-> a, at |-> n + 1 + Len(a)]
  BY <1>3, <1>4, <1>5, StringAt
<1>7. Len(u) = n + 1 + Len(a)
  BY <1>1, <1>2, <1>3
<1> QED BY <1>3, <1>6, <1>7 DEF u, w

LEMMA StringBehind ==
    ASSUME NEW s \in Bytes8, NEW n \in Nat, NEW a \in Bytes8, NEW t \in Bytes8,
           n + 1 + Len(a) <= Len(s),
           ReadString(s, n) = [ok |-> TRUE, string |-> a, at |-> n + 1 + Len(a)]
    PROVE  ReadString(s \o t, n) = [ok |-> TRUE, string |-> a, at |-> n + 1 + Len(a)]
<1>1. Len(a) \in Nat /\ Len(s) \in Nat /\ Len(t) \in Nat /\ Len(s \o t) = Len(s) + Len(t) /\ s \o t \in Bytes8
  BY JoinedBytes
<1>2. n + 1 \in 1 .. Len(s) /\ s[n + 1] \in Byte /\ s[n + 1] \in Nat
  <2>1. n + 1 \in 1 .. Len(s)
    BY <1>1
  <2>2. s[n + 1] \in Byte
    BY <2>1 DEF Bytes8
  <2> QED BY <2>1, <2>2, ByteIs
<1>3. ~(Len(s) < n + 1)
  BY <1>2
<1>4. ~(Len(s) < n + 1 + s[n + 1])
  <2> SUFFICES ASSUME Len(s) < n + 1 + s[n + 1] PROVE FALSE
    OBVIOUS
  <2>1. ReadString(s, n) = Refused
    BY <1>3 DEF ReadString
  <2> QED BY <2>1 DEF Refused
<1>5. a = SubSeq(s, n + 2, n + 1 + s[n + 1]) /\ n + 1 + Len(a) = n + 1 + s[n + 1]
  BY <1>3, <1>4 DEF ReadString
<1>6. s[n + 1] = Len(a)
  BY <1>1, <1>2, <1>5
<1>7. \A i \in 1 .. Len(a) : s[n + 1 + i] = a[i]
  <2> DEFINE f == n + 1  p == SubSeq(s, f + 1, f + Len(a))
  <2>1. f \in Nat /\ f + Len(a) <= Len(s) /\ f + 1 = n + 2 /\ f + Len(a) = n + 1 + s[n + 1]
    BY <1>1, <1>6
  <2>2. a = p
    BY <1>5, <2>1
  <2>3. \A i \in 1 .. Len(a) : p[i] = s[f + i]
    <3> HIDE DEF f
    <3> QED BY <1>1, <2>1, Slice DEF Bytes8
  <2> HIDE DEF p
  <2> QED BY <2>2, <2>3
<1>8. n + 1 + Len(a) <= Len(s \o t) /\ (s \o t)[n + 1] = Len(a)
  BY <1>1, <1>2, <1>6, JoinedBytes
<1>9. \A i \in 1 .. Len(a) : (s \o t)[n + 1 + i] = a[i]
  <2> SUFFICES ASSUME NEW i \in 1 .. Len(a) PROVE (s \o t)[n + 1 + i] = a[i]
    OBVIOUS
  <2>1. n + 1 + i \in 1 .. Len(s)
    BY <1>1
  <2> QED BY <1>7, <2>1, JoinedBytes
<1> QED BY <1>1, <1>8, <1>9, StringAt

(***************************************************************************)
(* A control packet is read as what it was made of.                        *)
(***************************************************************************)
Kinds == OneString \cup TwoStrings

LEMMA CtrlHeader ==
    ASSUME NEW subtype \in Kinds \cup {kCtrlFrameStatus}
    PROVE  LET h == WriteCommon(kPktCtrl) \o <<subtype>> IN
           h \in Bytes8 /\ Len(h) = 5 /\ ParseCommon(h) = kPktCtrl /\ h[5] = subtype
<1> DEFINE a == WriteCommon(kPktCtrl)  e == <<subtype>>  h == a \o e
<1>1. a \in Bytes8 /\ Len(a) = 4 /\ ParseCommon(a) = kPktCtrl
  BY CommonHeader
<1>2. e \in Bytes8 /\ Len(e) = 1 /\ e[1] = subtype
  BY DEF Bytes8, Byte, Kinds, OneString, TwoStrings, kCtrlFrameStatus, kCtrlHello, kCtrlHeartbeat,
         kCtrlIdrRequest, kCtrlKick, kCtrlIdrKeepalive, kCtrlRfi
<1> HIDE DEF a, e
<1>3. h \in Bytes8 /\ Len(h) = Len(a) + Len(e) /\ \A i \in 1 .. Len(e) : h[Len(a) + i] = e[i]
  BY <1>1, <1>2, JoinedBytes
<1>4. ParseCommon(h) = kPktCtrl
  <2>1. Len(a) >= 4
    BY <1>1
  <2> QED BY <1>1, <1>2, <2>1, ReadBehind
<1>5. Len(h) = 5 /\ h[5] = subtype
  <2>1. 1 \in 1 .. Len(e) /\ Len(a) + 1 = 5
    BY <1>1, <1>2
  <2>2. h[Len(a) + 1] = e[1]
    BY <1>3, <2>1
  <2> QED BY <1>1, <1>2, <1>3, <2>1, <2>2
<1> QED BY <1>3, <1>4, <1>5 DEF a, e

LEMMA HeaderBehind ==
    ASSUME NEW s \in Bytes8, NEW t \in Bytes8, Len(s) >= 5
    PROVE  ParseCommon(s \o t) = ParseCommon(s) /\ (s \o t)[5] = s[5]
<1>1. Len(s) >= 4 /\ 5 \in 1 .. Len(s)
  BY JoinedBytes
<1> QED BY <1>1, ReadBehind, JoinedBytes

LEMMA OneStringIsRead ==
    ASSUME NEW subtype \in Kinds, NEW a \in Bytes8, Len(a) <= 255
    PROVE  LET s == BuildCtrlString1(subtype, a) IN
           /\ s \in Bytes8 /\ Len(s) = 6 + Len(a) /\ Len(a) \in Nat
           /\ ParseCommon(s) = kPktCtrl /\ s[5] = subtype
           /\ ReadString(s, 5) = [ok |-> TRUE, string |-> a, at |-> 6 + Len(a)]
<1> DEFINE h == WriteCommon(kPktCtrl) \o <<subtype>>  w == WriteString(a)  s == h \o w
<1>1. h \in Bytes8 /\ Len(h) = 5 /\ ParseCommon(h) = kPktCtrl /\ h[5] = subtype
  BY CtrlHeader
<1>2. w \in Bytes8 /\ Len(a) \in Nat
  BY StringBytes, JoinedBytes
<1>3. BuildCtrlString1(subtype, a) = s
  BY DEF BuildCtrlString1
<1> HIDE DEF h
<1>4. s \in Bytes8 /\ Len(s) = 5 + 1 + Len(a) /\ ReadString(s, 5) = [ok |-> TRUE, string |-> a, at |-> 5 + 1 + Len(a)]
  <2>1. 5 \in Nat
    OBVIOUS
  <2> QED BY <1>1, <2>1, ReadOnString
<1> HIDE DEF w
<1>5. ParseCommon(s) = kPktCtrl /\ s[5] = subtype
  <2>1. Len(h) >= 5
    BY <1>1
  <2> QED BY <1>1, <1>2, <2>1, HeaderBehind
<1>6. 5 + 1 + Len(a) = 6 + Len(a)
  BY <1>2
<1> HIDE DEF s
<1> QED BY <1>2, <1>3, <1>4, <1>5, <1>6

LEMMA CtrlIsRead ==
    ASSUME NEW subtype \in Kinds, NEW a \in Bytes8, NEW b \in Bytes8, Len(a) <= 255, Len(b) <= 255
    PROVE  ParseCtrl(IF subtype \in OneString THEN BuildCtrlString1(subtype, a)
                     ELSE BuildCtrlString2(subtype, a, b)) =
             [ok |-> TRUE, subtype |-> subtype,
              strings |-> IF subtype \in OneString THEN <<a>> ELSE <<a, b>>]
<1> DEFINE s == BuildCtrlString1(subtype, a)  w == WriteString(b)  u == s \o w
<1>1. /\ s \in Bytes8 /\ Len(s) = 6 + Len(a) /\ Len(a) \in Nat
      /\ ParseCommon(s) = kPktCtrl /\ s[5] = subtype
      /\ ReadString(s, 5) = [ok |-> TRUE, string |-> a, at |-> 6 + Len(a)]
  BY OneStringIsRead
<1>2. u = BuildCtrlString2(subtype, a, b)
  BY DEF BuildCtrlString2
<1>3. w \in Bytes8 /\ Len(b) \in Nat
  BY StringBytes, JoinedBytes
<1> HIDE DEF s
<1>4. CASE subtype \in OneString
  <2>1. ~(Len(s) < 5)
    BY <1>1
  <2>2. ParseCtrl(s) = [ok |-> TRUE, subtype |-> subtype, strings |-> <<a>>]
    <3>1. ~(ParseCommon(s) # kPktCtrl \/ Len(s) < 4 + 1)
      BY <1>1, <2>1
    <3>2. s[4 + 1] = subtype /\ ReadString(s, 4 + 1).ok /\ ReadString(s, 4 + 1).string = a
      BY <1>1
    <3>3. ~(subtype \notin OneString \cup TwoStrings)
      BY DEF Kinds
    <3> QED BY <1>4, <3>1, <3>2, <3>3 DEF ParseCtrl, kCommonHeaderSize
  <2> QED BY <1>4, <2>2 DEF s
<1>5. CASE subtype \notin OneString
  <2>1. 6 + Len(a) \in Nat /\ Len(s) >= 5
    BY <1>1
  <2>2. /\ u \in Bytes8 /\ Len(u) = 6 + Len(a) + 1 + Len(b)
        /\ ReadString(u, 6 + Len(a)) = [ok |-> TRUE, string |-> b, at |-> 6 + Len(a) + 1 + Len(b)]
    BY <1>1, <2>1, ReadOnString
  <2> HIDE DEF w
  <2>3. ParseCommon(u) = kPktCtrl /\ u[5] = subtype
    BY <1>1, <1>3, <2>1, HeaderBehind
  <2>4. ReadString(u, 5) = [ok |-> TRUE, string |-> a, at |-> 6 + Len(a)]
    <3>1. 5 \in Nat /\ 5 + 1 + Len(a) <= Len(s) /\ 5 + 1 + Len(a) = 6 + Len(a)
      BY <1>1
    <3> QED BY <1>1, <1>3, <3>1, StringBehind
  <2> HIDE DEF u
  <2>5. ~(Len(u) < 5)
    BY <1>1, <1>3, <2>2
  <2>6. ParseCtrl(u) = [ok |-> TRUE, subtype |-> subtype, strings |-> <<a, b>>]
    <3>1. ~(ParseCommon(u) # kPktCtrl \/ Len(u) < 4 + 1)
      BY <2>3, <2>5
    <3>2. /\ u[4 + 1] = subtype /\ ReadString(u, 4 + 1).ok /\ ReadString(u, 4 + 1).string = a
          /\ ReadString(u, 4 + 1).at = 6 + Len(a)
      BY <2>3, <2>4
    <3>4. ReadString(u, 6 + Len(a)).ok /\ ReadString(u, 6 + Len(a)).string = b
      BY <2>2
    <3>3. ~(subtype \notin OneString \cup TwoStrings)
      BY DEF Kinds
    <3> QED BY <1>5, <3>1, <3>2, <3>3, <3>4 DEF ParseCtrl, kCommonHeaderSize
  <2> QED BY <1>2, <1>5, <2>6
<1> QED BY <1>4, <1>5

LEMMA StatusIsRead ==
    ASSUME NEW idx \in Word32, NEW received \in Word16, NEW lost \in Word16
    PROVE  ParseFrameStatus(BuildFrameStatus(idx, received, lost)) =
             [ok |-> TRUE, idx |-> idx, received |-> received, lost |-> lost]
<1> DEFINE a == WriteCommon(kPktCtrl) \o <<kCtrlFrameStatus>>
           b == a \o W32(idx)
           c == b \o W16(received)
           d == c \o W16(lost)
<1>1. a \in Bytes8 /\ Len(a) = 5 /\ ParseCommon(a) = kPktCtrl /\ a[5] = kCtrlFrameStatus
  BY CtrlHeader
<1>2. W32(idx) \in Bytes8 /\ W16(received) \in Bytes8 /\ W16(lost) \in Bytes8
  BY Word16Bytes, Word32Bytes
<1>0. BuildFrameStatus(idx, received, lost) = d
  BY DEF BuildFrameStatus
<1> HIDE DEF a
<1>3. b \in Bytes8 /\ Len(b) = 5 + 4 /\ R32(b, 5) = idx
  BY <1>1, ReadOn32
<1>4. ParseCommon(b) = kPktCtrl /\ b[5] = kCtrlFrameStatus
  <2>1. Len(a) >= 5
    BY <1>1
  <2> QED BY <1>1, <1>2, <2>1, HeaderBehind
<1> HIDE DEF b
<1>5. Len(b) = 9 /\ 9 \in Nat /\ Len(b) >= 5 /\ 5 + 4 <= Len(b) /\ 5 \in Nat
  BY <1>3
<1>6. c \in Bytes8 /\ Len(c) = 9 + 2 /\ R16(c, 9) = received
  BY <1>3, <1>5, ReadOn16
<1>7. R32(c, 5) = idx /\ ParseCommon(c) = kPktCtrl /\ c[5] = kCtrlFrameStatus
  BY <1>2, <1>3, <1>4, <1>5, ReadBehind, HeaderBehind
<1> HIDE DEF c
<1>8. Len(c) = 11 /\ 11 \in Nat /\ Len(c) >= 5 /\ 5 + 4 <= Len(c) /\ 9 + 2 <= Len(c) /\ 5 \in Nat /\ 9 \in Nat
  BY <1>6
<1>9. d \in Bytes8 /\ Len(d) = 11 + 2 /\ R16(d, 11) = lost
  <2>1. c \in Bytes8 /\ Len(c) = 11 /\ 11 \in Nat
    BY <1>6
  <2>2. LET u == c \o W16(lost) IN u \in Bytes8 /\ Len(u) = 11 + 2 /\ R16(u, 11) = lost
    BY <2>1, ReadOn16
  <2> QED BY <2>2
<1>10. R32(d, 5) = idx /\ R16(d, 9) = received /\ ParseCommon(d) = kPktCtrl /\ d[5] = kCtrlFrameStatus
  BY <1>2, <1>6, <1>7, <1>8, ReadBehind, HeaderBehind
<1> HIDE DEF d
<1>11. Len(d) = 4 + 9
  BY <1>9
<1>12. ParseFrameStatus(d) = [ok |-> TRUE, idx |-> idx, received |-> received, lost |-> lost]
  <2>1. d[4 + 1] = kCtrlFrameStatus
    BY <1>10
  <2> QED BY <1>9, <1>10, <1>11, <2>1 DEF ParseFrameStatus, kCommonHeaderSize
<1> QED BY <1>0, <1>12

-----------------------------------------------------------------------------
(***************************************************************************)
(* Base64.                                                                 *)
(***************************************************************************)

Digit == {n \in Nat : n < 64}

\* Four digits of three bytes, and the bytes of the digits.
D1(a) == a \div 4
D2(a, b) == (a % 4) * 16 + b \div 16
D3(b, c) == (b % 16) * 4 + c \div 64
D4(c) == c % 64
O1(p, q) == (p * 4 + ((q \div 16) % 4)) % 256
O2(q, r) == ((q % 16) * 16 + ((r \div 4) % 16)) % 256
O3(r, s) == ((r % 4) * 64 + s) % 256

LEMMA Digits ==
    ASSUME NEW a \in Byte, NEW b \in Byte, NEW c \in Byte
    PROVE  /\ D1(a) \in Digit /\ D2(a, b) \in Digit /\ D3(b, c) \in Digit /\ D4(c) \in Digit
           /\ O1(D1(a), D2(a, b)) = a
           /\ O2(D2(a, b), D3(b, c)) = b
           /\ O3(D3(b, c), D4(c)) = c
<1>1. a \in Nat /\ a <= 255 /\ b \in Nat /\ b <= 255 /\ c \in Nat /\ c <= 255
  BY ByteIs
<1>2. D1(a) \in Digit
  BY <1>1, SMT DEF D1, Digit
<1>3. D2(a, b) \in Digit
  BY <1>1, SMT DEF D2, Digit
<1>4. D3(b, c) \in Digit
  BY <1>1, SMT DEF D3, Digit
<1>5. D4(c) \in Digit
  BY <1>1, SMT DEF D4, Digit
<1>6. O1(D1(a), D2(a, b)) = a
  BY <1>1, SMT DEF O1, D1, D2
<1>7. O2(D2(a, b), D3(b, c)) = b
  BY <1>1, SMT DEF O2, D2, D3
<1>8. O3(D3(b, c), D4(c)) = c
  BY <1>1, SMT DEF O3, D3, D4
<1> QED BY <1>2, <1>3, <1>4, <1>5, <1>6, <1>7, <1>8

\* A sequence flattened, sequence by sequence.
LEMMA FlattenSteps ==
    ASSUME NEW S, NEW seqs \in Seq(Seq(S))
    PROVE  \E f \in [0 .. Len(seqs) -> Seq(S)] :
              /\ f[0] = <<>>
              /\ \A i \in 1 .. Len(seqs) : f[i] = f[i - 1] \o seqs[i]
              /\ FlattenSeq(seqs) = f[Len(seqs)]
<1> DEFINE n == Len(seqs)
           X == Seq(S)
           F == [p \in X \X (1 .. n) |-> p[1] \o seqs[p[2]]]
           Iter(g) == g = [i \in 1 .. n |-> IF i = 1 THEN seqs[i] ELSE g[i - 1] \o seqs[i]]
           it == CHOOSE g : Iter(g)
           f == [i \in 0 .. n |-> IF i = 0 THEN <<>> ELSE it[i]]
<1>1. n \in Nat /\ \A i \in 1 .. n : seqs[i] \in X
  OBVIOUS
<1>2. <<>> \in X
  OBVIOUS
<1>3. \A x \in X, i \in 1 .. n : F[<<x, i>>] = x \o seqs[i] /\ F[<<x, i>>] \in X
  <2>1. \A x, y \in X : x \o y \in X
    OBVIOUS
  <2> HIDE DEF n, X
  <2> QED BY <1>1, <2>1
<1>4. \A x \in X : <<>> \o x = x
  OBVIOUS
<1>5. FlattenSeq(seqs) = IF n = 0 THEN seqs ELSE it[n]
  BY DEF FlattenSeq
<1>6. n = 0 => seqs = <<>>
  OBVIOUS
<1> HIDE DEF n, X, F, it, f
<1>7. PICK g : Folded(g, F, <<>>, X, n)
  BY <1>1, <1>2, <1>3, FoldSteps DEF Keeps
<1> DEFINE h == [i \in 1 .. n |-> g[1 .. i]]
<1>8. g[1 .. 0] = <<>> /\ \A i \in 1 .. n : g[1 .. i] = g[1 .. i - 1] \o seqs[i]
  <2>1. \A s \in SUBSET (1 .. n) : s # {} => g[s] = g[s \ {Max(s)}] \o seqs[Max(s)]
    BY <1>3, <1>7 DEF Folded
  <2>2. ASSUME NEW i \in 1 .. n PROVE g[1 .. i] = g[1 .. i - 1] \o seqs[i]
    <3>1. Max(1 .. i) = i /\ (1 .. i) \ {i} = 1 .. i - 1
      BY <1>1, GreatestUpTo
    <3>2. 1 .. i \in SUBSET (1 .. n) /\ 1 .. i # {}
      <4>1. 1 \in 1 .. i /\ \A j \in 1 .. i : j \in 1 .. n
        BY <1>1
      <4> QED BY <4>1
    <3> QED BY <2>1, <3>1, <3>2
  <2>3. 1 .. 0 = {} /\ g[{}] = <<>>
    BY <1>7 DEF Folded
  <2> QED BY <2>2, <2>3
<1>9. Iter(h)
  <2>1. ASSUME NEW i \in 1 .. n PROVE h[i] = IF i = 1 THEN seqs[i] ELSE h[i - 1] \o seqs[i]
    <3>1. CASE i = 1
      <4>1. i - 1 = 0
        BY <3>1
      <4> QED BY <1>1, <1>4, <1>8, <3>1, <4>1
    <3>2. CASE i # 1
      <4>1. i - 1 \in 1 .. n
        BY <1>1, <3>2
      <4> QED BY <1>8, <3>2, <4>1
    <3> QED BY <3>1, <3>2
  <2> HIDE DEF h
  <2>2. h = [i \in 1 .. n |-> h[i]]
    BY DEF h
  <2> QED BY <2>1, <2>2
<1>10. Iter(it)
  <2> HIDE DEF h, Iter
  <2> QED BY <1>9 DEF it
<1>11. \A i \in 1 .. n : it[i] = IF i = 1 THEN seqs[i] ELSE it[i - 1] \o seqs[i]
  BY <1>10
<1> HIDE DEF Iter, h
<1>12. f[0] = <<>> /\ \A i \in 1 .. n : f[i] = f[i - 1] \o seqs[i]
  <2>1. f[0] = <<>>
    BY <1>1 DEF f
  <2>2. ASSUME NEW i \in 1 .. n PROVE f[i] = f[i - 1] \o seqs[i]
    <3>1. f[i] = it[i] /\ i - 1 \in 0 .. n
      BY <1>1 DEF f
    <3>2. CASE i = 1
      <4>1. f[i - 1] = <<>> /\ it[i] = seqs[i]
        BY <1>11, <2>1, <3>2
      <4> QED BY <1>1, <1>4, <3>1, <4>1
    <3>3. CASE i # 1
      <4>1. i - 1 \in 1 .. n /\ i - 1 # 0
        BY <1>1, <3>3
      <4>2. f[i - 1] = it[i - 1]
        BY <3>1, <4>1 DEF f
      <4> QED BY <1>11, <3>1, <3>3, <4>2
    <3> QED BY <3>2, <3>3
  <2> QED BY <2>1, <2>2
<1>13. f \in [0 .. n -> X]
  <2> DEFINE G == {i \in 0 .. n : f[i] \in X}
  <2>1. 0 \in G
    BY <1>1, <1>2, <1>12
  <2>2. \A i \in 1 .. n : i - 1 \in G => i \in G
    <3> SUFFICES ASSUME NEW i \in 1 .. n, f[i - 1] \in X PROVE f[i] \in X
      BY <1>1
    <3>1. f[i] = f[i - 1] \o seqs[i] /\ seqs[i] \in X
      BY <1>1, <1>12
    <3> QED BY <3>1 DEF X
  <2>3. \A i \in 0 .. n : i \in G
    <3> HIDE DEF G
    <3> QED BY <1>1, <2>1, <2>2, Upward
  <2> QED BY <2>3 DEF f
<1>14. FlattenSeq(seqs) = f[n]
  <2>1. n \in 0 .. n
    BY <1>1
  <2> QED BY <1>5, <1>6, <2>1 DEF f
<1> QED BY <1>12, <1>13, <1>14 DEF n, X

\* The sequences of equal lengths one behind the other.
Laid(out, seqs, size) == \A g \in 1 .. Len(seqs) : \A k \in 1 .. size : out[size * (g - 1) + k] = seqs[g][k]

LEMMA FlattenEqual ==
    ASSUME NEW S, NEW seqs \in Seq(Seq(S)), NEW size \in {3, 4},
           \A g \in 1 .. Len(seqs) : Len(seqs[g]) = size
    PROVE  /\ FlattenSeq(seqs) \in Seq(S) /\ Len(FlattenSeq(seqs)) = size * Len(seqs)
           /\ Laid(FlattenSeq(seqs), seqs, size)
<1> DEFINE n == Len(seqs)
<1>0. PICK f \in [0 .. Len(seqs) -> Seq(S)] :
              /\ f[0] = <<>>
              /\ \A i \in 1 .. Len(seqs) : f[i] = f[i - 1] \o seqs[i]
              /\ FlattenSeq(seqs) = f[Len(seqs)]
  BY FlattenSteps
<1>1. /\ n \in Nat /\ f \in [0 .. n -> Seq(S)] /\ f[0] = <<>> /\ FlattenSeq(seqs) = f[n]
      /\ \A i \in 1 .. n : f[i] = f[i - 1] \o seqs[i]
      /\ \A i \in 1 .. n : seqs[i] \in Seq(S) /\ Len(seqs[i]) = size
  BY <1>0
<1> HIDE DEF n
<1> DEFINE At(i) == /\ Len(f[i]) = size * i
                    /\ \A g \in 1 .. i, k \in 1 .. size : f[i][size * (g - 1) + k] = seqs[g][k]
           G == {i \in 0 .. n : At(i)}
<1>2. 0 \in G
  BY <1>1
<1>3. ASSUME NEW i \in 1 .. n, i - 1 \in G PROVE i \in G
  <2> DEFINE a == f[i - 1]  b == seqs[i]  c == f[i]
  <2>1. /\ a \in Seq(S) /\ b \in Seq(S) /\ Len(b) = size /\ c = a \o b
        /\ Len(a) = size * (i - 1)
        /\ \A g \in 1 .. i - 1, k \in 1 .. size : a[size * (g - 1) + k] = seqs[g][k]
    BY <1>1, <1>3
  <2>2. /\ Len(c) = Len(a) + Len(b)
        /\ \A j \in 1 .. Len(a) : c[j] = a[j]
        /\ \A j \in 1 .. Len(b) : c[Len(a) + j] = b[j]
    <3> HIDE DEF a, b, c
    <3>1. a \in Seq(S) /\ b \in Seq(S) /\ c = a \o b
      BY <2>1
    <3> QED BY ONLY <3>1
  <2> HIDE DEF a, c
  <2>3. Len(c) = size * i
    BY <2>1, <2>2
  <2>4. ASSUME NEW g \in 1 .. i, NEW k \in 1 .. size
        PROVE  c[size * (g - 1) + k] = seqs[g][k]
    <3>1. CASE g = i
      <4>1. size * (g - 1) + k = Len(a) + k /\ k \in 1 .. Len(b)
        BY <2>1, <3>1
      <4> QED BY <2>2, <3>1, <4>1
    <3>2. CASE g # i
      <4> DEFINE j == size * (g - 1) + k
      <4>5. g \in 1 .. i - 1
        BY <1>1, <3>2
      <4>1. j \in 1 .. Len(a)
        <5>1. CASE size = 3
          BY <2>1, <4>5, <5>1
        <5>2. CASE size = 4
          BY <2>1, <4>5, <5>2
        <5> QED BY <5>1, <5>2
      <4>2. a[j] = seqs[g][k]
        BY <2>1, <4>5
      <4> HIDE DEF j
      <4>3. c[j] = a[j]
        BY <2>2, <4>1
      <4> QED BY <4>2, <4>3 DEF j
    <3> QED BY <3>1, <3>2
  <2>5. i \in 0 .. n
    BY <1>1
  <2> QED BY <2>3, <2>4, <2>5 DEF c
<1>4. \A i \in 0 .. n : i \in G
  <2>1. \A i \in 1 .. n : i - 1 \in G => i \in G
    BY <1>3
  <2> HIDE DEF G
  <2> QED BY <1>1, <1>2, <2>1, Upward
<1>5. At(n) /\ f[n] \in Seq(S)
  <2>1. n \in 0 .. n
    BY <1>1
  <2> QED BY <1>1, <1>4, <2>1
<1> QED BY <1>1, <1>5 DEF n, Laid

\* bytes are q groups of three and r more; s has their digits, and what fills
\* the last group up.
Thirds(bytes, q, r) ==
    /\ bytes \in Seq(Byte) /\ q \in Nat /\ r \in {0, 1, 2} /\ Len(bytes) = 3 * q + r
    /\ Len(bytes) \div 3 = q
DigitsOf(s, bytes, q) == \A g \in 1 .. q :
    /\ s[4 * (g - 1) + 1] = D1(bytes[3 * (g - 1) + 1])
    /\ s[4 * (g - 1) + 2] = D2(bytes[3 * (g - 1) + 1], bytes[3 * (g - 1) + 2])
    /\ s[4 * (g - 1) + 3] = D3(bytes[3 * (g - 1) + 2], bytes[3 * (g - 1) + 3])
    /\ s[4 * (g - 1) + 4] = D4(bytes[3 * (g - 1) + 3])
Number == Nat
CodedEnd(t, bytes, q, r) ==
    /\ t \in Seq(Number)
    /\ r = 0 => Len(t) = 0
    /\ r > 0 => /\ Len(t) = 4 /\ t[1] = D1(bytes[3 * q + 1]) /\ t[4] = PadChar
    /\ r = 1 => t[2] = D2(bytes[3 * q + 1], 0) /\ t[3] = PadChar
    /\ r = 2 => t[2] = D2(bytes[3 * q + 1], bytes[3 * q + 2]) /\ t[3] = D3(bytes[3 * q + 2], 0)

LEMMA ByteThirds ==
    ASSUME NEW bytes \in Seq(Byte)
    PROVE  \E q, r : Thirds(bytes, q, r)
<1> DEFINE n == Len(bytes)
<1>1. n \in Nat
  OBVIOUS
<1> HIDE DEF n
<1>2. n \div 3 \in Nat /\ n % 3 \in {0, 1, 2} /\ n = 3 * (n \div 3) + (n % 3)
  BY <1>1
<1>3. Thirds(bytes, n \div 3, n % 3)
  BY <1>2 DEF Thirds, n
<1> QED BY <1>3

LEMMA ThirdsBytes ==
    ASSUME NEW bytes, NEW q, NEW r, Thirds(bytes, q, r)
    PROVE  /\ \A g \in 1 .. q : \A k \in {1, 2, 3} : bytes[3 * (g - 1) + k] \in Byte
           /\ r > 0 => bytes[3 * q + 1] \in Byte
           /\ r = 2 => bytes[3 * q + 2] \in Byte
<1>1. bytes \in Seq(Byte) /\ q \in Nat /\ r \in Nat /\ Len(bytes) = 3 * q + r
  BY DEF Thirds
<1>2. \A i \in 1 .. Len(bytes) : bytes[i] \in Byte
  BY <1>1
<1>3. \A g \in 1 .. q : \A k \in {1, 2, 3} : 3 * (g - 1) + k \in 1 .. Len(bytes)
  BY <1>1
<1>4. r > 0 => 3 * q + 1 \in 1 .. Len(bytes)
  BY <1>1
<1>5. r = 2 => 3 * q + 2 \in 1 .. Len(bytes)
  BY <1>1
<1> QED BY <1>2, <1>3, <1>4, <1>5

LEMMA ZeroByte == 0 \in Byte
BY ByteIs

\* The whole groups, encoded.
LEMMA EncodeGroups ==
    ASSUME NEW bytes, NEW q, NEW r, Thirds(bytes, q, r)
    PROVE  LET whole == AllGroups(bytes, 3)
               a == FlattenSeq([g \in DOMAIN whole |-> Sextets(whole[g])]) IN
           a \in Seq(Digit) /\ Len(a) = 4 * q /\ DigitsOf(a, bytes, q)
<1> DEFINE whole == AllGroups(bytes, 3)
           x(g) == bytes[3 * (g - 1) + 1]  y(g) == bytes[3 * (g - 1) + 2]  z(g) == bytes[3 * (g - 1) + 3]
           four(g) == <<D1(x(g)), D2(x(g), y(g)), D3(y(g), z(g)), D4(z(g))>>
           seqs == [g \in DOMAIN whole |-> Sextets(whole[g])]
<1>1. bytes \in Seq(Byte) /\ q \in Nat /\ r \in {0, 1, 2} /\ Len(bytes) = 3 * q + r /\ Len(bytes) \div 3 = q
  BY DEF Thirds
<1>2. \A g \in 1 .. q : x(g) \in Byte /\ y(g) \in Byte /\ z(g) \in Byte
  BY ThirdsBytes
<1>3. DOMAIN whole = 1 .. q
  BY <1>1 DEF AllGroups
<1>4. ASSUME NEW g \in 1 .. q
      PROVE  Sextets(whole[g]) = four(g)
  <2> DEFINE f == 3 * (g - 1)  p == SubSeq(bytes, f + 1, f + 3)
  <2>1. f \in Nat /\ f + 3 <= Len(bytes) /\ 3 \in Nat /\ f + 3 = g * 3 /\ f + 1 = (g - 1) * 3 + 1
    BY <1>1
  <2>2. whole[g] = p
    BY <1>1, <2>1 DEF AllGroups, Group
  <2>3. p[1] = bytes[f + 1] /\ p[2] = bytes[f + 2] /\ p[3] = bytes[f + 3]
    <3> HIDE DEF f
    <3>1. \A i \in 1 .. 3 : SubSeq(bytes, f + 1, f + 3)[i] = bytes[f + i]
      BY <1>1, <2>1, Slice
    <3>2. 1 \in 1 .. 3 /\ 2 \in 1 .. 3 /\ 3 \in 1 .. 3
      OBVIOUS
    <3> QED BY <3>1, <3>2
  <2> HIDE DEF p
  <2> QED BY <2>2, <2>3 DEF Sextets, D1, D2, D3, D4
<1>5. ASSUME NEW g \in 1 .. q
      PROVE  four(g) \in Seq(Digit) /\ Len(four(g)) = 4
  <2>1. D1(x(g)) \in Digit /\ D2(x(g), y(g)) \in Digit /\ D3(y(g), z(g)) \in Digit /\ D4(z(g)) \in Digit
    BY <1>2, Digits
  <2> QED BY <2>1
<1> HIDE DEF whole
<1>6. seqs \in Seq(Seq(Digit)) /\ Len(seqs) = q /\ \A g \in 1 .. q : seqs[g] = four(g)
  <2> HIDE DEF four
  <2> QED BY <1>1, <1>3, <1>4, <1>5
<1> DEFINE a == FlattenSeq(seqs)
<1> HIDE DEF seqs
<1>7. /\ a \in Seq(Digit) /\ Len(a) = 4 * Len(seqs)
      /\ \A g \in 1 .. Len(seqs), k \in 1 .. 4 : a[4 * (g - 1) + k] = seqs[g][k]
  <2> DEFINE size == 4
  <2>1. size \in {3, 4} /\ \A g \in 1 .. Len(seqs) : Len(seqs[g]) = size
    BY <1>5, <1>6
  <2> HIDE DEF size, a
  <2>2. seqs \in Seq(Seq(Digit))
    BY <1>6
  <2>3. FlattenSeq(seqs) \in Seq(Digit)
    BY <2>1, <2>2, FlattenEqual
  <2>4. Len(FlattenSeq(seqs)) = size * Len(seqs)
    BY <2>1, <2>2, FlattenEqual
  <2>5. Laid(FlattenSeq(seqs), seqs, size)
    BY <2>1, <2>2, FlattenEqual
  <2> QED BY <2>3, <2>4, <2>5 DEF size, a, Laid
<1> HIDE DEF a
<1>8. ASSUME NEW g \in 1 .. q
      PROVE  /\ a[4 * (g - 1) + 1] = D1(x(g)) /\ a[4 * (g - 1) + 2] = D2(x(g), y(g))
             /\ a[4 * (g - 1) + 3] = D3(y(g), z(g)) /\ a[4 * (g - 1) + 4] = D4(z(g))
  <2>1. /\ a[4 * (g - 1) + 1] = seqs[g][1] /\ a[4 * (g - 1) + 2] = seqs[g][2]
        /\ a[4 * (g - 1) + 3] = seqs[g][3] /\ a[4 * (g - 1) + 4] = seqs[g][4]
    BY <1>6, <1>7
  <2>2. seqs[g] = four(g)
    BY <1>6
  <2> QED BY <2>1, <2>2
<1>9. DigitsOf(a, bytes, q)
  BY <1>8 DEF DigitsOf
<1> QED BY <1>6, <1>7, <1>9 DEF a, seqs, whole

LEMMA First ==
    ASSUME NEW S, NEW s \in Seq(S), NEW n \in Nat, n <= Len(s),
           NEW x \in Seq(S), Len(x) = n, \A i \in 1 .. n : x[i] = s[i]
    PROVE  SubSeq(s, 1, n) = x
<1> DEFINE p == SubSeq(s, 0 + 1, 0 + n)
<1>1. 0 \in Nat /\ 0 + n <= Len(s)
  OBVIOUS
<1>2. p \in Seq(S) /\ Len(p) = n /\ \A i \in 1 .. n : p[i] = s[0 + i]
  BY <1>1, Slice
<1> HIDE DEF p
<1>3. \A i \in 1 .. n : p[i] = x[i]
  BY <1>2
<1>4. p = x
  BY <1>2, <1>3, SeqEqual
<1>5. 0 + 1 = 1 /\ 0 + n = n
  OBVIOUS
<1> QED BY <1>4, <1>5 DEF p

LEMMA FourOf ==
    ASSUME NEW S, NEW a \in S, NEW b \in S, NEW c \in S, NEW d \in S, NEW s, s = <<a, b, c, d>>
    PROVE  s \in Seq(S) /\ Len(s) = 4 /\ s[1] = a /\ s[2] = b /\ s[3] = c /\ s[4] = d
OBVIOUS

LEMMA JoinedTwo ==
    ASSUME NEW S, NEW a \in S, NEW b \in S, NEW c \in S, NEW d \in S
    PROVE  <<a, b>> \o <<c, d>> = <<a, b, c, d>>
<1> DEFINE x == <<a, b>>  y == <<c, d>>  z == <<a, b, c, d>>  w == x \o y
<1>1. x \in Seq(S) /\ Len(x) = 2 /\ x[1] = a /\ x[2] = b
  OBVIOUS
<1>2. y \in Seq(S) /\ Len(y) = 2 /\ y[1] = c /\ y[2] = d
  OBVIOUS
<1>3. z \in Seq(S) /\ Len(z) = 4 /\ z[1] = a /\ z[2] = b /\ z[3] = c /\ z[4] = d
  OBVIOUS
<1> HIDE DEF x, y, z
<1>4. /\ w \in Seq(S) /\ Len(w) = Len(x) + Len(y)
      /\ \A i \in 1 .. Len(x) + Len(y) : w[i] = IF i <= Len(x) THEN x[i] ELSE y[i - Len(x)]
  BY <1>1, <1>2, ConcatProperties
<1> HIDE DEF w
<1>5. w[1] = a /\ w[2] = b
  BY <1>1, <1>2, <1>4
<1>6. w[3] = c /\ w[4] = d
  <2>1. 3 - 2 = 1 /\ 3 \in 1 .. 2 + 2 /\ ~(3 <= 2) /\ 4 - 2 = 2 /\ 4 \in 1 .. 2 + 2 /\ ~(4 <= 2)
    OBVIOUS
  <2> QED BY <1>1, <1>2, <1>4, <2>1
<1>7. \A i \in 1 .. 4 : w[i] = z[i]
  BY <1>3, <1>5, <1>6
<1>8. w = z
  BY <1>1, <1>2, <1>3, <1>4, <1>7, SeqEqual
<1> QED BY <1>8 DEF w, x, y, z

LEMMA JoinedOne ==
    ASSUME NEW S, NEW a \in S, NEW b \in S, NEW c \in S, NEW d \in S
    PROVE  <<a, b, c>> \o <<d>> = <<a, b, c, d>>
<1> DEFINE x == <<a, b, c>>  y == <<d>>  z == <<a, b, c, d>>  w == x \o y
<1>1. x \in Seq(S) /\ Len(x) = 3 /\ x[1] = a /\ x[2] = b /\ x[3] = c
  OBVIOUS
<1>2. y \in Seq(S) /\ Len(y) = 1 /\ y[1] = d
  OBVIOUS
<1>3. z \in Seq(S) /\ Len(z) = 4 /\ z[1] = a /\ z[2] = b /\ z[3] = c /\ z[4] = d
  OBVIOUS
<1> HIDE DEF x, y, z
<1>4. /\ w \in Seq(S) /\ Len(w) = Len(x) + Len(y)
      /\ \A i \in 1 .. Len(x) + Len(y) : w[i] = IF i <= Len(x) THEN x[i] ELSE y[i - Len(x)]
  BY <1>1, <1>2, ConcatProperties
<1> HIDE DEF w
<1>5. w[1] = a /\ w[2] = b /\ w[3] = c
  BY <1>1, <1>2, <1>4
<1>6. w[4] = d
  <2>1. 4 - 3 = 1 /\ 4 \in 1 .. 3 + 1 /\ ~(4 <= 3)
    OBVIOUS
  <2> QED BY <1>1, <1>2, <1>4, <2>1
<1>7. \A i \in 1 .. 4 : w[i] = z[i]
  BY <1>3, <1>5, <1>6
<1>8. w = z
  BY <1>1, <1>2, <1>3, <1>4, <1>7, SeqEqual
<1> QED BY <1>8 DEF w, x, y, z

\* The bytes left over, encoded.
LEMMA EncodeEnd ==
    ASSUME NEW bytes, NEW q, NEW r, Thirds(bytes, q, r)
    PROVE  LET left == LeftOver(bytes, 3)
               t == IF left = <<>> THEN <<>>
                    ELSE SubSeq(Sextets(Filled(left, 3)), 1, Len(left) + 1)
                         \o [k \in 1 .. 3 - Len(left) |-> PadChar] IN
           CodedEnd(t, bytes, q, r)
<1> DEFINE left == LeftOver(bytes, 3)
           six == Sextets(Filled(left, 3))
           t == SubSeq(six, 1, Len(left) + 1) \o [k \in 1 .. 3 - Len(left) |-> PadChar]
<1>1. bytes \in Seq(Byte) /\ q \in Nat /\ r \in {0, 1, 2} /\ Len(bytes) = 3 * q + r /\ Len(bytes) \div 3 = q
  BY DEF Thirds
<1>2. left \in Seq(Byte) /\ Len(left) = r /\ \A k \in 1 .. r : left[k] = bytes[3 * q + k]
  <2> DEFINE f == 3 * q  p == SubSeq(bytes, f + 1, f + r)
  <2>1. f \in Nat /\ r \in Nat /\ f + r <= Len(bytes) /\ f + 1 = q * 3 + 1 /\ f + r = Len(bytes)
    BY <1>1
  <2>2. left = p
    BY <1>1, <2>1 DEF LeftOver
  <2>3. p \in Seq(Byte) /\ Len(p) = r /\ \A k \in 1 .. r : p[k] = bytes[f + k]
    <3> HIDE DEF f
    <3> QED BY <1>1, <2>1, Slice
  <2> HIDE DEF p, left
  <2> QED BY <2>2, <2>3
<1> HIDE DEF left
<1>3. CASE r = 0
  <2>1. left = <<>>
    BY <1>2, <1>3
  <2>2. CodedEnd(<<>>, bytes, q, r)
    BY <1>3 DEF CodedEnd
  <2> QED BY <2>1, <2>2 DEF left
<1>4. CASE r = 1
  <2> DEFINE x == bytes[3 * q + 1]
  <2>1. Filled(left, 3) = <<x, 0, 0>>
    BY <1>2, <1>4 DEF Filled
  <2>2. x \in Byte /\ D1(x) \in Nat /\ D2(x, 0) \in Nat
    BY <1>4, ThirdsBytes, ZeroByte, Digits DEF Digit
  <2> HIDE DEF x
  <2> DEFINE a == D1(x)  b == D2(x, 0)  c == PadChar
  <2>3. six = <<a, b, D3(0, 0), D4(0)>>
    BY <2>1 DEF Sextets, D1, D2, D3, D4
  <2>9. a \in Number /\ b \in Number /\ D3(0, 0) \in Number /\ D4(0) \in Number /\ c \in Number
    BY <2>2, ZeroByte, Digits DEF Digit, PadChar, Number
  <2> HIDE DEF a, b, c
  <2> HIDE DEF six
  <2>10. six \in Seq(Number) /\ Len(six) = 4 /\ six[1] = a /\ six[2] = b
    <3> DEFINE e == D3(0, 0)  f == D4(0)
    <3>1. e \in Number /\ f \in Number /\ six = <<a, b, e, f>>
      BY <2>3, <2>9
    <3> HIDE DEF e, f
    <3> QED BY <2>9, <3>1, FourOf
  <2>4. SubSeq(six, 1, Len(left) + 1) = <<a, b>>
    <3>1. Len(left) + 1 = 2
      BY <1>2, <1>4
    <3> DEFINE z == <<a, b>>
    <3>2. z \in Seq(Number) /\ Len(z) = 2 /\ z[1] = a /\ z[2] = b
      BY <2>9
    <3> HIDE DEF z
    <3>3. 2 \in Nat /\ 2 <= Len(six) /\ \A i \in 1 .. 2 : z[i] = six[i]
      BY <2>10, <3>2
    <3>4. SubSeq(six, 1, 2) = z
      BY <2>10, <3>2, <3>3, First
    <3> QED BY <3>1, <3>4 DEF z
  <2>5. [k \in 1 .. 3 - Len(left) |-> PadChar] = <<c, c>>
    <3>1. 3 - Len(left) = 2
      BY <1>2, <1>4
    <3> QED BY <3>1 DEF c
  <2> HIDE DEF six
  <2>6. t = <<a, b>> \o <<c, c>>
    BY <2>4, <2>5
  <2>7. left # <<>>
    <3>1. Len(left) = 1 /\ Len(<<>>) = 0
      BY <1>2, <1>4
    <3> QED BY <3>1
  <2> HIDE DEF t
  <2>11. t \in Seq(Number) /\ Len(t) = 4 /\ t[1] = a /\ t[2] = b /\ t[3] = c /\ t[4] = c
    <3>1. t = <<a, b, c, c>>
      BY <2>6, <2>9, JoinedTwo
    <3> QED BY <2>9, <3>1, FourOf
  <2>12. r # 0 /\ r # 2 /\ r > 0
    BY <1>4
  <2>8. CodedEnd(t, bytes, q, r)
    BY <2>11, <2>12 DEF CodedEnd, a, b, c, x
  <2> QED BY <2>7, <2>8 DEF left, six, t
<1>5. CASE r = 2
  <2> DEFINE x == bytes[3 * q + 1]  y == bytes[3 * q + 2]
  <2>1. Filled(left, 3) = <<x, y, 0>>
    BY <1>2, <1>5 DEF Filled
  <2>2. x \in Byte /\ y \in Byte /\ D1(x) \in Nat /\ D2(x, y) \in Nat /\ D3(y, 0) \in Nat
    BY <1>5, ThirdsBytes, ZeroByte, Digits DEF Digit
  <2> HIDE DEF x, y
  <2> DEFINE a == D1(x)  b == D2(x, y)  d == D3(y, 0)  c == PadChar
  <2>3. six = <<a, b, d, D4(0)>>
    BY <2>1 DEF Sextets, D1, D2, D3, D4
  <2>9. a \in Number /\ b \in Number /\ d \in Number /\ D4(0) \in Number /\ c \in Number
    BY <2>2, ZeroByte, Digits DEF Digit, PadChar, Number
  <2> HIDE DEF a, b, c, d
  <2> HIDE DEF six
  <2>10. six \in Seq(Number) /\ Len(six) = 4 /\ six[1] = a /\ six[2] = b /\ six[3] = d
    <3> DEFINE f == D4(0)
    <3>1. f \in Number /\ six = <<a, b, d, f>>
      BY <2>3, <2>9
    <3> HIDE DEF f
    <3> QED BY <2>9, <3>1, FourOf
  <2>4. SubSeq(six, 1, Len(left) + 1) = <<a, b, d>>
    <3>1. Len(left) + 1 = 3
      BY <1>2, <1>5
    <3> DEFINE z == <<a, b, d>>
    <3>2. z \in Seq(Number) /\ Len(z) = 3 /\ z[1] = a /\ z[2] = b /\ z[3] = d
      BY <2>9
    <3> HIDE DEF z
    <3>3. 3 \in Nat /\ 3 <= Len(six) /\ \A i \in 1 .. 3 : z[i] = six[i]
      BY <2>10, <3>2
    <3>4. SubSeq(six, 1, 3) = z
      BY <2>10, <3>2, <3>3, First
    <3> QED BY <3>1, <3>4 DEF z
  <2>5. [k \in 1 .. 3 - Len(left) |-> PadChar] = <<c>>
    <3>1. 3 - Len(left) = 1
      BY <1>2, <1>5
    <3> QED BY <3>1 DEF c
  <2> HIDE DEF six
  <2>6. t = <<a, b, d>> \o <<c>>
    BY <2>4, <2>5
  <2>7. left # <<>>
    <3>1. Len(left) = 2 /\ Len(<<>>) = 0
      BY <1>2, <1>5
    <3> QED BY <3>1
  <2> HIDE DEF t
  <2>11. t \in Seq(Number) /\ Len(t) = 4 /\ t[1] = a /\ t[2] = b /\ t[3] = d /\ t[4] = c
    <3>1. t = <<a, b, d, c>>
      BY <2>6, <2>9, JoinedOne
    <3> QED BY <2>9, <3>1, FourOf
  <2>12. r # 0 /\ r # 1 /\ r > 0
    BY <1>5
  <2>8. CodedEnd(t, bytes, q, r)
    BY <2>11, <2>12 DEF CodedEnd, a, b, c, d, x, y
  <2> QED BY <2>7, <2>8 DEF left, six, t
<1> QED BY <1>1, <1>3, <1>4, <1>5

\* The text up to the first character that fills it up.
GoodLength(q, r) == IF r = 0 THEN 4 * q ELSE 4 * q + r + 1
RestOf(good, bytes, q, r) ==
    /\ r > 0 => good[4 * q + 1] = D1(bytes[3 * q + 1])
    /\ r = 1 => good[4 * q + 2] = D2(bytes[3 * q + 1], 0)
    /\ r = 2 => /\ good[4 * q + 2] = D2(bytes[3 * q + 1], bytes[3 * q + 2])
                /\ good[4 * q + 3] = D3(bytes[3 * q + 2], 0)

LEMMA DigitOf ==
    ASSUME NEW c \in Digit
    PROVE  IsBase64(c) /\ c \in Nat /\ c \in Number
BY DEF IsBase64, Digit, PadChar, Number

LEMMA FillsUp == ~IsBase64(PadChar)
BY DEF IsBase64, PadChar

LEMMA TextOf ==
    ASSUME NEW bytes, NEW q, NEW r, Thirds(bytes, q, r),
           NEW a \in Seq(Digit), Len(a) = 4 * q, DigitsOf(a, bytes, q), NEW t, CodedEnd(t, bytes, q, r),
           NEW s, s = a \o t, NEW n, n = GoodLength(q, r)
    PROVE  /\ s \in Seq(Number) /\ Len(s) \in Nat /\ n \in Nat /\ n <= Len(s)
           /\ \A i \in 1 .. n : IsBase64(s[i])
           /\ r = 0 => n = Len(s)
           /\ r > 0 => n + 1 <= Len(s) /\ ~IsBase64(s[n + 1])
           /\ DigitsOf(s, bytes, q) /\ RestOf(s, bytes, q, r)
<1>1. bytes \in Seq(Byte) /\ q \in Nat /\ r \in {0, 1, 2} /\ Len(bytes) = 3 * q + r
  BY DEF Thirds
<1>2. \A i \in 1 .. Len(a) : a[i] \in Digit
  BY ElementOfSeq
<1>3. a \in Seq(Number) /\ t \in Seq(Number)
  <2>1. Digit \subseteq Number
    BY DigitOf
  <2> QED BY <2>1, SeqMonotonic DEF CodedEnd
<1>4. Len(t) \in Nat /\ (r = 0 => Len(t) = 0) /\ (r > 0 => Len(t) = 4)
  BY <1>3 DEF CodedEnd
<1>5. /\ s \in Seq(Number) /\ Len(s) = Len(a) + Len(t)
      /\ \A i \in 1 .. Len(a) + Len(t) : s[i] = IF i <= Len(a) THEN a[i] ELSE t[i - Len(a)]
  BY <1>3, ConcatProperties
<1>6. \A i \in 1 .. 4 * q : s[i] = a[i] /\ s[i] \in Digit
  BY <1>1, <1>2, <1>4, <1>5
<1>7. \A k \in 1 .. Len(t) : s[4 * q + k] = t[k]
  <2> SUFFICES ASSUME NEW k \in 1 .. Len(t) PROVE s[4 * q + k] = t[k]
    OBVIOUS
  <2> DEFINE i == 4 * q + k
  <2>1. i \in 1 .. Len(a) + Len(t) /\ ~(i <= Len(a)) /\ i - Len(a) = k
    BY <1>1, <1>4
  <2> HIDE DEF i
  <2>2. s[i] = t[k]
    BY <1>5, <2>1
  <2> QED BY <2>2 DEF i
<1>8. DigitsOf(s, bytes, q)
  <2> SUFFICES ASSUME NEW g \in 1 .. q
               PROVE  /\ s[4 * (g - 1) + 1] = a[4 * (g - 1) + 1] /\ s[4 * (g - 1) + 2] = a[4 * (g - 1) + 2]
                      /\ s[4 * (g - 1) + 3] = a[4 * (g - 1) + 3] /\ s[4 * (g - 1) + 4] = a[4 * (g - 1) + 4]
    BY DEF DigitsOf
  <2> DEFINE f == 4 * (g - 1)
  <2>1. f + 1 \in 1 .. 4 * q /\ f + 2 \in 1 .. 4 * q /\ f + 3 \in 1 .. 4 * q /\ f + 4 \in 1 .. 4 * q
    BY <1>1
  <2> HIDE DEF f
  <2>2. s[f + 1] = a[f + 1] /\ s[f + 2] = a[f + 2] /\ s[f + 3] = a[f + 3] /\ s[f + 4] = a[f + 4]
    BY <1>6, <2>1
  <2> QED BY <2>2 DEF f
<1>9. CASE r = 0
  <2>1. n = 4 * q /\ n \in Nat /\ Len(s) = n
    BY <1>1, <1>4, <1>5, <1>9 DEF GoodLength
  <2>2. \A i \in 1 .. n : IsBase64(s[i])
    BY <1>6, <2>1, DigitOf
  <2>3. RestOf(s, bytes, q, r)
    BY <1>9 DEF RestOf
  <2>4. ~(r > 0) /\ n <= Len(s)
    BY <1>9, <2>1
  <2> QED BY <1>5, <1>8, <2>1, <2>2, <2>3, <2>4
<1>10. CASE r = 1
  <2>0. r > 0 /\ r # 0 /\ r # 2 /\ r + 1 = 2
    BY <1>10
  <2>11. Len(t) = 4 /\ Len(s) = 4 * q + 4
    BY <1>1, <1>4, <1>5, <2>0
  <2>12. n = 4 * q + r + 1
    BY <2>0 DEF GoodLength
  <2>15. q \in Nat
    BY <1>1
  <2>17. 4 * q + 1 + 1 = 4 * q + 2
    BY <2>15
  <2>18. n = 4 * q + 1 + 1
    BY <1>10, <2>12, Zenon
  <2>16. n = 4 * q + 2
    BY <2>17, <2>18, Zenon
  <2>19. 4 * q + 2 \in Nat
    BY <2>15
  <2>13. n = 4 * q + 2 /\ n \in Nat
    BY <2>16, <2>19, Zenon
  <2>1. n = 4 * q + 2 /\ n \in Nat /\ Len(s) = 4 * q + 4 /\ Len(t) = 4 /\ r > 0 /\ r # 0 /\ r # 2
    BY <2>0, <2>11, <2>13
  <2>2. 1 \in 1 .. 4 /\ 2 \in 1 .. 4 /\ 3 \in 1 .. 4
    OBVIOUS
  <2>3. s[4 * q + 1] = t[1] /\ s[4 * q + 2] = t[2] /\ s[4 * q + 3] = t[3]
    BY <1>7, <2>1, <2>2
  <2>4. t[1] = D1(bytes[3 * q + 1]) /\ t[2] = D2(bytes[3 * q + 1], 0) /\ t[3] = PadChar
    BY <1>10, <2>1 DEF CodedEnd
  <2>5. s[4 * q + 1] \in Digit /\ s[4 * q + 2] \in Digit
    BY <1>10, <2>1, <2>3, <2>4, ThirdsBytes, ZeroByte, Digits, SMTT(30)
  <2>6. \A i \in 1 .. n : i \in 1 .. 4 * q \/ i = 4 * q + 1 \/ i = 4 * q + 2
    BY <1>1, <2>1
  <2>7. \A i \in 1 .. n : IsBase64(s[i])
    BY <1>6, <2>5, <2>6, DigitOf
  <2>8. n + 1 = 4 * q + 3 /\ n + 1 <= Len(s) /\ n <= Len(s)
    BY <1>1, <2>1
  <2>9. ~IsBase64(s[n + 1])
    BY <2>3, <2>4, <2>8, FillsUp
  <2>10. RestOf(s, bytes, q, r)
    BY <2>1, <2>3, <2>4 DEF RestOf
  <2> QED BY <1>1, <1>5, <1>8, <2>1, <2>7, <2>8, <2>9, <2>10, SMTT(30)
<1>11. CASE r = 2
  <2>0. r > 0 /\ r # 0 /\ r # 1 /\ r + 1 = 3
    BY <1>11
  <2>11. Len(t) = 4 /\ Len(s) = 4 * q + 4
    BY <1>1, <1>4, <1>5, <2>0
  <2>12. n = 4 * q + r + 1
    BY <2>0 DEF GoodLength
  <2>15. q \in Nat
    BY <1>1
  <2>17. 4 * q + 2 + 1 = 4 * q + 3
    BY <2>15
  <2>18. n = 4 * q + 2 + 1
    BY <1>11, <2>12, Zenon
  <2>16. n = 4 * q + 3
    BY <2>17, <2>18, Zenon
  <2>19. 4 * q + 3 \in Nat
    BY <2>15
  <2>13. n = 4 * q + 3 /\ n \in Nat
    BY <2>16, <2>19, Zenon
  <2>1. n = 4 * q + 3 /\ n \in Nat /\ Len(s) = 4 * q + 4 /\ Len(t) = 4 /\ r > 0 /\ r # 0 /\ r # 1
    BY <2>0, <2>11, <2>13
  <2>2. 1 \in 1 .. 4 /\ 2 \in 1 .. 4 /\ 3 \in 1 .. 4 /\ 4 \in 1 .. 4
    OBVIOUS
  <2>3. s[4 * q + 1] = t[1] /\ s[4 * q + 2] = t[2] /\ s[4 * q + 3] = t[3] /\ s[4 * q + 4] = t[4]
    BY <1>7, <2>1, <2>2
  <2>4. /\ t[1] = D1(bytes[3 * q + 1]) /\ t[2] = D2(bytes[3 * q + 1], bytes[3 * q + 2])
        /\ t[3] = D3(bytes[3 * q + 2], 0) /\ t[4] = PadChar
    BY <1>11, <2>1 DEF CodedEnd
  <2>5. s[4 * q + 1] \in Digit /\ s[4 * q + 2] \in Digit /\ s[4 * q + 3] \in Digit
    <3> DEFINE x == bytes[3 * q + 1]  y == bytes[3 * q + 2]
    <3>1. x \in Byte /\ y \in Byte
      BY <1>11, <2>0, ThirdsBytes
    <3> HIDE DEF x, y
    <3>2. D1(x) \in Digit /\ D2(x, y) \in Digit /\ D3(y, 0) \in Digit
      BY <3>1, ZeroByte, Digits
    <3>3. t[1] = D1(x) /\ t[2] = D2(x, y) /\ t[3] = D3(y, 0)
      BY <2>4 DEF x, y
    <3> QED BY <2>3, <3>2, <3>3
  <2>6. \A i \in 1 .. n : i \in 1 .. 4 * q \/ i = 4 * q + 1 \/ i = 4 * q + 2 \/ i = 4 * q + 3
    BY <1>1, <2>1
  <2>7. \A i \in 1 .. n : IsBase64(s[i])
    BY <1>6, <2>5, <2>6, DigitOf
  <2>8. n + 1 = 4 * q + 4 /\ n + 1 <= Len(s) /\ n <= Len(s)
    BY <1>1, <2>1
  <2>9. ~IsBase64(s[n + 1])
    BY <2>3, <2>4, <2>8, FillsUp
  <2>10. RestOf(s, bytes, q, r)
    BY <2>1, <2>3, <2>4 DEF RestOf
  <2>14. Len(s) \in Nat
    BY <1>5
  <2> QED BY <1>5, <1>8, <2>0, <2>13, <2>14, <2>7, <2>8, <2>9, <2>10
<1> QED BY <1>1, <1>9, <1>10, <1>11

LEMMA GoodOf ==
    ASSUME NEW bytes, NEW q, NEW r, Thirds(bytes, q, r),
           NEW s \in Seq(Number), NEW n \in Nat, n <= Len(s), n = GoodLength(q, r),
           \A i \in 1 .. n : IsBase64(s[i]),
           r = 0 => n = Len(s), r > 0 => n + 1 <= Len(s) /\ ~IsBase64(s[n + 1]),
           DigitsOf(s, bytes, q), RestOf(s, bytes, q, r)
    PROVE  LET stop == SelectInSeq(s, LAMBDA c : ~IsBase64(c))
               good == IF stop = 0 THEN s ELSE SubSeq(s, 1, stop - 1) IN
           good \in Seq(Number) /\ Len(good) = n /\ DigitsOf(good, bytes, q) /\ RestOf(good, bytes, q, r)
<1> DEFINE I == {i \in 1 .. Len(s) : ~IsBase64(s[i])}
           stop == SelectInSeq(s, LAMBDA c : ~IsBase64(c))
           good == IF stop = 0 THEN s ELSE SubSeq(s, 1, stop - 1)
<1>1. q \in Nat /\ r \in {0, 1, 2} /\ Len(s) \in Nat
  BY DEF Thirds
<1>2. stop = IF I # {} THEN Min(I) ELSE 0
  BY DEF SelectInSeq
<1> HIDE DEF stop
<1>3. CASE r = 0
  <2>1. I = {}
    BY <1>3
  <2>2. stop = 0
    BY <1>2, <2>1
  <2>3. good = s
    BY <2>2
  <2> QED BY <1>3, <2>3 DEF stop
<1>4. CASE r # 0
  <2>1. r > 0
    BY <1>1, <1>4
  <2>2. n + 1 \in I /\ \A i \in I : n + 1 <= i
    BY <1>1, <2>1
  <2>3. Min(I) = n + 1
    <3>1. Min(I) \in I /\ \A i \in I : Min(I) <= i
      <4>1. \E x \in I : \A y \in I : x <= y
        BY <2>2
      <4> HIDE DEF I
      <4> QED BY <4>1 DEF Min
    <3>2. Min(I) <= n + 1 /\ n + 1 <= Min(I) /\ Min(I) \in Nat
      BY <2>2, <3>1
    <3> QED BY <3>2
  <2>4. stop = n + 1
    BY <1>2, <2>2, <2>3
  <2> HIDE DEF I
  <2>5. stop # 0 /\ stop - 1 = n
    BY <2>4
  <2> DEFINE p == SubSeq(s, 0 + 1, 0 + n)
  <2>6. 0 \in Nat /\ 0 + n <= Len(s) /\ 0 + 1 = 1 /\ 0 + n = n
    OBVIOUS
  <2>7. good = p
    BY <2>5, <2>6
  <2>8. p \in Seq(Number) /\ Len(p) = n /\ \A i \in 1 .. n : p[i] = s[0 + i]
    BY <2>6, Slice
  <2> HIDE DEF p, good
  <2>9. \A i \in 1 .. n : p[i] = s[i]
    BY <2>8
  <2>10. n = 4 * q + r + 1
    BY <1>4 DEF GoodLength
  <2>11. DigitsOf(p, bytes, q)
    <3> SUFFICES ASSUME NEW g \in 1 .. q
                 PROVE  /\ p[4 * (g - 1) + 1] = s[4 * (g - 1) + 1] /\ p[4 * (g - 1) + 2] = s[4 * (g - 1) + 2]
                        /\ p[4 * (g - 1) + 3] = s[4 * (g - 1) + 3] /\ p[4 * (g - 1) + 4] = s[4 * (g - 1) + 4]
      BY DEF DigitsOf
    <3> DEFINE f == 4 * (g - 1)
    <3>1. f + 1 \in 1 .. n /\ f + 2 \in 1 .. n /\ f + 3 \in 1 .. n /\ f + 4 \in 1 .. n
      BY <1>1, <2>10
    <3> HIDE DEF f
    <3>2. p[f + 1] = s[f + 1] /\ p[f + 2] = s[f + 2] /\ p[f + 3] = s[f + 3] /\ p[f + 4] = s[f + 4]
      BY <2>9, <3>1
    <3> QED BY <3>2 DEF f
  <2>12. RestOf(p, bytes, q, r)
    <3>1. 4 * q + 1 \in 1 .. n /\ (r > 0 => 4 * q + 2 \in 1 .. n) /\ (r = 2 => 4 * q + 3 \in 1 .. n)
      BY <1>1, <2>10
    <3>2. /\ p[4 * q + 1] = s[4 * q + 1]
          /\ r > 0 => p[4 * q + 2] = s[4 * q + 2]
          /\ r = 2 => p[4 * q + 3] = s[4 * q + 3]
      BY <2>9, <3>1
    <3>3. (r = 1 => r > 0) /\ (r = 2 => r > 0)
      OBVIOUS
    <3>4. /\ r > 0 => s[4 * q + 1] = D1(bytes[3 * q + 1])
          /\ r = 1 => s[4 * q + 2] = D2(bytes[3 * q + 1], 0)
          /\ r = 2 => /\ s[4 * q + 2] = D2(bytes[3 * q + 1], bytes[3 * q + 2])
                      /\ s[4 * q + 3] = D3(bytes[3 * q + 2], 0)
      BY DEF RestOf
    <3>5. /\ r > 0 => p[4 * q + 1] = D1(bytes[3 * q + 1])
          /\ r = 1 => p[4 * q + 2] = D2(bytes[3 * q + 1], 0)
      BY <3>2, <3>3, <3>4
    <3>6. r = 2 => /\ p[4 * q + 2] = D2(bytes[3 * q + 1], bytes[3 * q + 2])
                   /\ p[4 * q + 3] = D3(bytes[3 * q + 2], 0)
      BY <3>2, <3>3, <3>4
    <3> QED BY <3>5, <3>6 DEF RestOf
  <2> QED BY <2>7, <2>8, <2>11, <2>12 DEF good, stop
<1> QED BY <1>3, <1>4 DEF stop

LEMMA GoodGroups ==
    ASSUME NEW bytes, NEW q, NEW r, Thirds(bytes, q, r), NEW n, n = GoodLength(q, r)
    PROVE  n \in Nat /\ n \div 4 = q /\ 4 * q <= n /\ (r = 0 => n - 4 * q = 0) /\ (r > 0 => n - 4 * q = r + 1)
<1>1. q \in Nat /\ r \in {0, 1, 2}
  BY DEF Thirds
<1>2. CASE r = 0
  <2>1. n = 4 * q
    BY <1>2 DEF GoodLength
  <2> QED BY <1>1, <1>2, <2>1
<1>3. CASE r # 0
  <2>1. n = 4 * q + r + 1
    BY <1>3 DEF GoodLength
  <2>2. r \in {1, 2}
    BY <1>1, <1>3
  <2> QED BY <1>1, <2>1, <2>2
<1> QED BY <1>2, <1>3

BytesOf(b, bytes, q) == \A g \in 1 .. q :
    /\ b[3 * (g - 1) + 1] = bytes[3 * (g - 1) + 1]
    /\ b[3 * (g - 1) + 2] = bytes[3 * (g - 1) + 2]
    /\ b[3 * (g - 1) + 3] = bytes[3 * (g - 1) + 3]

\* The whole groups, decoded.
LEMMA DecodeGroups ==
    ASSUME NEW bytes, NEW q, NEW r, Thirds(bytes, q, r), NEW good \in Seq(Number),
           Len(good) = GoodLength(q, r), DigitsOf(good, bytes, q)
    PROVE  LET whole == AllGroups(good, 4)
               b == FlattenSeq([g \in DOMAIN whole |-> Octets(whole[g])]) IN
           b \in Seq(Byte) /\ Len(b) = 3 * q /\ BytesOf(b, bytes, q)
<1> DEFINE whole == AllGroups(good, 4)
           x(g) == bytes[3 * (g - 1) + 1]  y(g) == bytes[3 * (g - 1) + 2]  z(g) == bytes[3 * (g - 1) + 3]
           three(g) == <<x(g), y(g), z(g)>>
           seqs == [g \in DOMAIN whole |-> Octets(whole[g])]
<1>1. q \in Nat /\ r \in {0, 1, 2} /\ Len(good) \in Nat /\ Len(good) \div 4 = q /\ 4 * q <= Len(good)
  <2> DEFINE n == Len(good)
  <2>1. q \in Nat /\ r \in {0, 1, 2}
    BY DEF Thirds
  <2>2. n = GoodLength(q, r)
    OBVIOUS
  <2> HIDE DEF n
  <2>3. n \in Nat /\ n \div 4 = q /\ 4 * q <= n
    BY <2>2, GoodGroups
  <2> QED BY <2>1, <2>3 DEF n
<1>2. \A g \in 1 .. q : x(g) \in Byte /\ y(g) \in Byte /\ z(g) \in Byte
  BY ThirdsBytes
<1>3. DOMAIN whole = 1 .. q
  BY <1>1 DEF AllGroups
<1>4. ASSUME NEW g \in 1 .. q
      PROVE  Octets(whole[g]) = three(g)
  <2> DEFINE f == 4 * (g - 1)  p == SubSeq(good, f + 1, f + 4)
  <2>1. f \in Nat /\ f + 4 <= Len(good) /\ 4 \in Nat /\ f + 4 = g * 4 /\ f + 1 = (g - 1) * 4 + 1
    BY <1>1
  <2>2. whole[g] = p
    BY <1>1, <2>1 DEF AllGroups, Group
  <2>3. p[1] = good[f + 1] /\ p[2] = good[f + 2] /\ p[3] = good[f + 3] /\ p[4] = good[f + 4]
    <3> HIDE DEF f
    <3>1. \A i \in 1 .. 4 : SubSeq(good, f + 1, f + 4)[i] = good[f + i]
      <4> DEFINE k == 4
      <4>1. k \in Nat /\ f \in Nat /\ f + k <= Len(good)
        BY <2>1
      <4> HIDE DEF k
      <4>2. \A i \in 1 .. k : SubSeq(good, f + 1, f + k)[i] = good[f + i]
        BY <4>1, Slice
      <4> QED BY <4>2 DEF k
    <3>2. 1 \in 1 .. 4 /\ 2 \in 1 .. 4 /\ 3 \in 1 .. 4 /\ 4 \in 1 .. 4
      OBVIOUS
    <3> QED BY <3>1, <3>2
  <2>4. /\ good[f + 1] = D1(x(g)) /\ good[f + 2] = D2(x(g), y(g))
        /\ good[f + 3] = D3(y(g), z(g)) /\ good[f + 4] = D4(z(g))
    BY DEF DigitsOf
  <2> DEFINE a == x(g)  b == y(g)  c == z(g)
  <2>5. a \in Byte /\ b \in Byte /\ c \in Byte
    BY <1>2
  <2> HIDE DEF p, whole, f
  <2>6. p[1] = D1(a) /\ p[2] = D2(a, b) /\ p[3] = D3(b, c) /\ p[4] = D4(c)
    BY <2>3, <2>4
  <2> HIDE DEF a, b, c
  <2>7. O1(p[1], p[2]) = a /\ O2(p[2], p[3]) = b /\ O3(p[3], p[4]) = c
    BY <2>5, <2>6, Digits
  <2>8. Octets(p) = <<O1(p[1], p[2]), O2(p[2], p[3]), O3(p[3], p[4])>>
    BY DEF Octets, O1, O2, O3
  <2> QED BY <2>2, <2>7, <2>8 DEF a, b, c
<1>5. ASSUME NEW g \in 1 .. q
      PROVE  three(g) \in Seq(Byte) /\ Len(three(g)) = 3
  BY <1>2
<1> HIDE DEF whole
<1>6. seqs \in Seq(Seq(Byte)) /\ Len(seqs) = q /\ \A g \in 1 .. q : seqs[g] = three(g)
  <2> HIDE DEF three
  <2> QED BY <1>1, <1>3, <1>4, <1>5
<1> DEFINE b == FlattenSeq(seqs)
<1> HIDE DEF seqs
<1>7. /\ b \in Seq(Byte) /\ Len(b) = 3 * Len(seqs)
      /\ \A g \in 1 .. Len(seqs), k \in 1 .. 3 : b[3 * (g - 1) + k] = seqs[g][k]
  <2> DEFINE size == 3
  <2>1. size \in {3, 4} /\ \A g \in 1 .. Len(seqs) : Len(seqs[g]) = size
    BY <1>5, <1>6
  <2> HIDE DEF size, b
  <2>2. seqs \in Seq(Seq(Byte))
    BY <1>6
  <2>3. FlattenSeq(seqs) \in Seq(Byte)
    BY <2>1, <2>2, FlattenEqual
  <2>4. Len(FlattenSeq(seqs)) = size * Len(seqs)
    BY <2>1, <2>2, FlattenEqual
  <2>5. Laid(FlattenSeq(seqs), seqs, size)
    BY <2>1, <2>2, FlattenEqual
  <2> QED BY <2>3, <2>4, <2>5 DEF size, b, Laid
<1> HIDE DEF b
<1>8. ASSUME NEW g \in 1 .. q
      PROVE  b[3 * (g - 1) + 1] = x(g) /\ b[3 * (g - 1) + 2] = y(g) /\ b[3 * (g - 1) + 3] = z(g)
  <2>1. /\ b[3 * (g - 1) + 1] = seqs[g][1] /\ b[3 * (g - 1) + 2] = seqs[g][2]
        /\ b[3 * (g - 1) + 3] = seqs[g][3]
    BY <1>6, <1>7, SMTT(30)
  <2>2. seqs[g] = three(g)
    BY <1>6
  <2> QED BY <2>1, <2>2
<1>9. BytesOf(b, bytes, q)
  BY <1>8 DEF BytesOf
<1> QED BY <1>6, <1>7, <1>9 DEF b, seqs, whole

EndBytes(e, bytes, q, r) == \A k \in 1 .. r : e[k] = bytes[3 * q + k]

\* The last group, decoded.
LEMMA DecodeEnd ==
    ASSUME NEW bytes, NEW q, NEW r, Thirds(bytes, q, r), NEW good \in Seq(Number),
           Len(good) = GoodLength(q, r), RestOf(good, bytes, q, r)
    PROVE  LET left == LeftOver(good, 4)
               last == [k \in 1 .. 4 |-> IF k <= Len(left) THEN left[k] ELSE 255]
               e == SubSeq(Octets(last), 1, Len(left) - 1) IN
           e \in Seq(Byte) /\ Len(e) = r /\ EndBytes(e, bytes, q, r)
<1> DEFINE left == LeftOver(good, 4)
           last == [k \in 1 .. 4 |-> IF k <= Len(left) THEN left[k] ELSE 255]
           l == Len(good) - 4 * q
           three == Octets(last)
           e == SubSeq(three, 1, Len(left) - 1)
<1>1. /\ q \in Nat /\ r \in {0, 1, 2} /\ Len(good) \in Nat /\ Len(good) \div 4 = q /\ 4 * q <= Len(good)
      /\ (r = 0 => l = 0) /\ (r > 0 => l = r + 1)
  <2> DEFINE n == Len(good)
  <2>1. q \in Nat /\ r \in {0, 1, 2}
    BY DEF Thirds
  <2>2. n = GoodLength(q, r)
    OBVIOUS
  <2> HIDE DEF n
  <2>3. /\ n \in Nat /\ n \div 4 = q /\ 4 * q <= n
        /\ (r = 0 => n - 4 * q = 0) /\ (r > 0 => n - 4 * q = r + 1)
    BY <2>2, GoodGroups
  <2> QED BY <2>1, <2>3 DEF n
<1>2. left \in Seq(Number) /\ Len(left) = l /\ \A k \in 1 .. l : left[k] = good[4 * q + k]
  <2> DEFINE f == 4 * q  p == SubSeq(good, f + 1, f + l)
  <2>1. f \in Nat /\ l \in Nat /\ f + l <= Len(good) /\ f + 1 = q * 4 + 1 /\ f + l = Len(good)
    BY <1>1
  <2>2. left = p
    BY <1>1, <2>1 DEF LeftOver
  <2> HIDE DEF l
  <2>3. p \in Seq(Number) /\ Len(p) = l /\ \A k \in 1 .. l : p[k] = good[f + k]
    <3> HIDE DEF f
    <3> QED BY <1>1, <2>1, Slice
  <2> HIDE DEF p, left
  <2> QED BY <2>2, <2>3
<1>3. \A x, y, z, w : Octets(<<x, y, z, w>>) = <<O1(x, y), O2(y, z), O3(z, w)>>
  BY DEF Octets, O1, O2, O3
<1> HIDE DEF left, l
<1>4. CASE r = 0
  <2>1. Len(left) - 1 < 1 /\ Len(left) - 1 \in Int /\ 1 \in Int
    BY <1>1, <1>2, <1>4
  <2> HIDE DEF three
  <2>2. e = <<>>
    BY <2>1, SubSeqEmpty
  <2> HIDE DEF e
  <2>5. <<>> \in Seq(Byte) /\ Len(<<>>) = 0
    OBVIOUS
  <2>3. e \in Seq(Byte) /\ Len(e) = 0
    BY <2>2, <2>5
  <2>4. e \in Seq(Byte) /\ Len(e) = r /\ EndBytes(e, bytes, q, r)
    BY <1>4, <2>3 DEF EndBytes
  <2> QED BY <2>4 DEF e, three, left
<1>5. CASE r = 1
  <2> DEFINE x == bytes[3 * q + 1]
  <2>0. r > 0 /\ l = 2
    BY <1>1, <1>5
  <2>1. x \in Byte
    BY <1>5, ThirdsBytes
  <2>2. left[1] = D1(x) /\ left[2] = D2(x, 0)
    BY <1>2, <1>5, <2>0 DEF RestOf
  <2> HIDE DEF x
  <2>3. Len(left) = 2
    BY <1>2, <2>0
  <2>4. last = <<left[1], left[2], 255, 255>>
    BY <2>3
  <2>5. three = <<O1(left[1], left[2]), O2(left[2], 255), O3(255, 255)>>
    <3> HIDE DEF last
    <3> QED BY <1>3, <2>4
  <2>6. three[1] = x
    BY <2>1, <2>2, <2>5, ZeroByte, Digits
  <2>7. Len(left) - 1 = 1
    BY <2>3
  <2> HIDE DEF three
  <2>8. 1 \in Int /\ \A i \in 1 .. 1 : three[i] \in Byte
    BY <2>1, <2>6
  <2>9. SubSeq(three, 1, 1) \in Seq(Byte) /\ Len(SubSeq(three, 1, 1)) = 1 /\ SubSeq(three, 1, 1)[1] = three[1]
    BY <2>8, SubSeqProperties
  <2>10. e = SubSeq(three, 1, 1)
    BY <2>7
  <2>11. e \in Seq(Byte) /\ Len(e) = 1 /\ e[1] = x
    BY <2>6, <2>9, <2>10
  <2> HIDE DEF e
  <2>12. e \in Seq(Byte) /\ Len(e) = r /\ EndBytes(e, bytes, q, r)
    BY <1>5, <2>11 DEF x, EndBytes
  <2> QED BY <2>12 DEF e, three, left
<1>6. CASE r = 2
  <2> DEFINE x == bytes[3 * q + 1]  y == bytes[3 * q + 2]
  <2>0. r > 0 /\ l = 3
    BY <1>1, <1>6
  <2>1. x \in Byte /\ y \in Byte
    BY <1>6, <2>0, ThirdsBytes
  <2>2. left[1] = D1(x) /\ left[2] = D2(x, y) /\ left[3] = D3(y, 0)
    BY <1>2, <1>6, <2>0 DEF RestOf
  <2> HIDE DEF x, y
  <2>3. Len(left) = 3
    BY <1>2, <2>0
  <2>4. last = <<left[1], left[2], left[3], 255>>
    BY <2>3
  <2>5. three = <<O1(left[1], left[2]), O2(left[2], left[3]), O3(left[3], 255)>>
    <3> HIDE DEF last
    <3> QED BY <1>3, <2>4
  <2>6. three[1] = x /\ three[2] = y
    BY <2>1, <2>2, <2>5, ZeroByte, Digits
  <2>7. Len(left) - 1 = 2
    BY <2>3
  <2> HIDE DEF three
  <2>8. 1 \in Int /\ 2 \in Int /\ \A i \in 1 .. 2 : three[i] \in Byte
    BY <2>1, <2>6
  <2>9. /\ SubSeq(three, 1, 2) \in Seq(Byte) /\ Len(SubSeq(three, 1, 2)) = 2
        /\ SubSeq(three, 1, 2)[1] = three[1] /\ SubSeq(three, 1, 2)[2] = three[2]
    BY <2>8, SubSeqProperties
  <2>10. e = SubSeq(three, 1, 2)
    BY <2>7
  <2>11. e \in Seq(Byte) /\ Len(e) = 2 /\ e[1] = x /\ e[2] = y
    BY <2>6, <2>9, <2>10
  <2> HIDE DEF e
  <2>12. e \in Seq(Byte) /\ Len(e) = r /\ EndBytes(e, bytes, q, r)
    BY <1>6, <2>11 DEF x, y, EndBytes
  <2> QED BY <2>12 DEF e, three, left
<1> QED BY <1>1, <1>4, <1>5, <1>6

LEMMA BytesJoined ==
    ASSUME NEW bytes, NEW q, NEW r, Thirds(bytes, q, r),
           NEW b \in Seq(Byte), Len(b) = 3 * q, BytesOf(b, bytes, q),
           NEW e \in Seq(Byte), Len(e) = r, EndBytes(e, bytes, q, r)
    PROVE  b \o e = bytes
<1> DEFINE w == b \o e
<1>1. bytes \in Seq(Byte) /\ q \in Nat /\ r \in Nat /\ Len(bytes) = 3 * q + r
  BY DEF Thirds
<1>2. /\ w \in Seq(Byte) /\ Len(w) = Len(b) + Len(e)
      /\ \A i \in 1 .. Len(b) + Len(e) : w[i] = IF i <= Len(b) THEN b[i] ELSE e[i - Len(b)]
  BY ConcatProperties
<1> HIDE DEF w
<1>3. ASSUME NEW i \in 1 .. Len(bytes) PROVE w[i] = bytes[i]
  <2>0. i \in 1 .. Len(b) + Len(e)
    BY <1>1
  <2>1. CASE i <= 3 * q
    <3> DEFINE g == (i - 1) \div 3 + 1  k == i - 3 * (g - 1)
    <3>1. g \in 1 .. q /\ k \in {1, 2, 3} /\ i = 3 * (g - 1) + k
      BY <1>1, <2>1
    <3> HIDE DEF g, k
    <3>2. b[3 * (g - 1) + k] = bytes[3 * (g - 1) + k]
      BY <3>1 DEF BytesOf
    <3>3. w[i] = b[i]
      BY <1>2, <2>0, <2>1
    <3> QED BY <3>1, <3>2, <3>3
  <2>2. CASE ~(i <= 3 * q)
    <3>1. i - 3 * q \in 1 .. r /\ 3 * q + (i - 3 * q) = i
      BY <1>1, <2>2
    <3>2. w[i] = e[i - 3 * q]
      BY <1>2, <2>0, <2>2
    <3>3. e[i - 3 * q] = bytes[3 * q + (i - 3 * q)]
      BY <3>1 DEF EndBytes
    <3> QED BY <3>1, <3>2, <3>3
  <2> QED BY <2>1, <2>2
<1>4. Len(w) = Len(bytes)
  BY <1>1, <1>2
<1>5. w = bytes
  BY <1>1, <1>2, <1>3, <1>4, SeqEqual
<1> QED BY <1>5 DEF w

\* Bytes written in base64 are read as they were.
LEMMA Base64IsRead ==
    ASSUME NEW bytes \in Seq(Byte)
    PROVE  Base64Decode(Base64Encode(bytes)) = bytes
<1>1. PICK q, r : Thirds(bytes, q, r)
  BY ByteThirds
<1> DEFINE whole == AllGroups(bytes, 3)
           left == LeftOver(bytes, 3)
           a == FlattenSeq([g \in DOMAIN whole |-> Sextets(whole[g])])
           t == IF left = <<>> THEN <<>>
                ELSE SubSeq(Sextets(Filled(left, 3)), 1, Len(left) + 1)
                     \o [k \in 1 .. 3 - Len(left) |-> PadChar]
           s == a \o t
           n == GoodLength(q, r)
<1>2. Base64Encode(bytes) = s
  BY DEF Base64Encode
<1>3. a \in Seq(Digit) /\ Len(a) = 4 * q /\ DigitsOf(a, bytes, q)
  BY <1>1, EncodeGroups
<1>4. CodedEnd(t, bytes, q, r)
  BY <1>1, EncodeEnd
<1> HIDE DEF a, t, n
<1>5. /\ s \in Seq(Number) /\ Len(s) \in Nat /\ n \in Nat /\ n <= Len(s)
      /\ \A i \in 1 .. n : IsBase64(s[i])
      /\ r = 0 => n = Len(s)
      /\ r > 0 => n + 1 <= Len(s) /\ ~IsBase64(s[n + 1])
      /\ DigitsOf(s, bytes, q) /\ RestOf(s, bytes, q, r)
  BY <1>1, <1>3, <1>4, TextOf DEF n
<1> HIDE DEF s
<1> DEFINE stop == SelectInSeq(s, LAMBDA c : ~IsBase64(c))
           good == IF stop = 0 THEN s ELSE SubSeq(s, 1, stop - 1)
           groups == AllGroups(good, 4)
           rest == LeftOver(good, 4)
           last == [k \in 1 .. 4 |-> IF k <= Len(rest) THEN rest[k] ELSE 255]
           b == FlattenSeq([g \in DOMAIN groups |-> Octets(groups[g])])
           e == SubSeq(Octets(last), 1, Len(rest) - 1)
<1>6. good \in Seq(Number) /\ Len(good) = n /\ DigitsOf(good, bytes, q) /\ RestOf(good, bytes, q, r)
  BY <1>1, <1>5, GoodOf DEF n
<1>7. Base64Decode(s) = b \o e
  BY DEF Base64Decode
<1> HIDE DEF stop, good
<1>8. b \in Seq(Byte) /\ Len(b) = 3 * q /\ BytesOf(b, bytes, q)
  BY <1>1, <1>6, DecodeGroups DEF n
<1>9. e \in Seq(Byte) /\ Len(e) = r /\ EndBytes(e, bytes, q, r)
  BY <1>1, <1>6, DecodeEnd DEF n
<1> HIDE DEF b, e
<1>10. b \o e = bytes
  BY <1>1, <1>8, <1>9, BytesJoined
<1> QED BY <1>2, <1>7, <1>10

-----------------------------------------------------------------------------
(***************************************************************************)
(* Data packets.  What is read in the part of a packet that was written    *)
(* first is read in the whole packet.                                      *)
(***************************************************************************)
Begins(s, u) ==
    /\ s \in Bytes8 /\ u \in Bytes8 /\ Len(u) <= Len(s)
    /\ \A j \in 1 .. Len(u) : s[j] = u[j]

LEMMA JoinedLength ==
    ASSUME NEW s \in Bytes8, NEW t \in Bytes8, NEW n \in Nat, NEW k \in Nat, Len(s) = n, Len(t) = k
    PROVE  s \o t \in Bytes8 /\ Len(s \o t) = n + k
BY JoinedBytes

LEMMA BeginsJoined ==
    ASSUME NEW u \in Bytes8, NEW t \in Bytes8
    PROVE  Begins(u \o t, u)
BY JoinedBytes DEF Begins

LEMMA BeginsOn ==
    ASSUME NEW s, NEW u, NEW t, Begins(s, u \o t), u \in Bytes8, t \in Bytes8
    PROVE  Begins(s, u)
<1> DEFINE v == u \o t
<1>1. /\ Len(v) = Len(u) + Len(t) /\ Len(u) \in Nat /\ Len(t) \in Nat
      /\ \A j \in 1 .. Len(u) : v[j] = u[j]
  BY JoinedBytes
<1>2. s \in Bytes8 /\ Len(v) <= Len(s) /\ \A j \in 1 .. Len(v) : s[j] = v[j]
  BY DEF Begins
<1> HIDE DEF v
<1>3. Len(s) \in Nat
  BY <1>2, JoinedBytes
<1>4. Len(u) <= Len(s) /\ \A j \in 1 .. Len(u) : s[j] = u[j]
  BY <1>1, <1>2, <1>3
<1> QED BY <1>2, <1>4 DEF Begins

LEMMA BeginsRead ==
    ASSUME NEW s, NEW u, Begins(s, u)
    PROVE  /\ \A at \in Nat : at + 2 <= Len(u) => R16(s, at) = R16(u, at)
           /\ \A at \in Nat : at + 4 <= Len(u) => R32(s, at) = R32(u, at)
<1>0. Len(u) \in Nat /\ \A j \in 1 .. Len(u) : s[j] = u[j]
  BY JoinedBytes DEF Begins
<1>1. \A at \in Nat : at + 2 <= Len(u) => R16(s, at) = R16(u, at)
  BY <1>0 DEF R16
<1>2. ASSUME NEW at \in Nat, at + 4 <= Len(u) PROVE R32(s, at) = R32(u, at)
  <2>1. at + 2 \in Nat /\ at + 2 <= Len(u) /\ (at + 2) + 2 <= Len(u)
    BY <1>0, <1>2
  <2>2. R16(s, at) = R16(u, at) /\ R16(s, at + 2) = R16(u, at + 2)
    BY <1>1, <2>1
  <2> QED BY <2>2 DEF R32
<1> QED BY <1>1, <1>2

LEMMA BeginsKind ==
    ASSUME NEW s, NEW u, Begins(s, u), Len(u) = 4
    PROVE  ParseCommon(s) = ParseCommon(u)
<1>1. s \in Bytes8 /\ Len(s) \in Nat /\ ~(Len(s) < kCommonHeaderSize) /\ ~(Len(u) < kCommonHeaderSize)
  BY JoinedBytes DEF Begins, kCommonHeaderSize
<1>2. s[3] = u[3] /\ s[4] = u[4]
  BY DEF Begins
<1>3. R16(s, 0) = R16(u, 0)
  <2>1. 0 \in Nat /\ 0 + 2 <= Len(u)
    OBVIOUS
  <2> QED BY <2>1, BeginsRead
<1> QED BY <1>1, <1>2, <1>3 DEF ParseCommon

LEMMA OneByte ==
    ASSUME NEW v \in Byte
    PROVE  /\ W8(v) = <<v>> /\ W8(v) \in Bytes8 /\ Len(W8(v)) = 1
<1>1. v \in Nat /\ v <= 255
  BY ByteIs
<1>2. v % 256 = v
  BY <1>1, SMT
<1>3. <<v>> \in Seq(Byte) /\ Len(<<v>>) = 1
  OBVIOUS
<1> QED BY <1>2, <1>3 DEF W8, Bytes8

\* What stands in the header of a video packet.
Header(s, idx, flags, d, p, i, len) ==
    /\ ParseCommon(s) = kPktVideo
    /\ R32(s, 4) = idx /\ s[13] = flags
    /\ R16(s, 14) = d /\ R16(s, 16) = p /\ R16(s, 18) = i /\ R16(s, 20) = len

LEMMA HeaderIsRead ==
    ASSUME NEW meta, meta.idx \in Word32, NEW flags \in Byte, NEW d \in Word16, NEW p \in Word16,
           NEW i \in Word16, NEW len \in Word16, NEW body \in Bytes8
    PROVE  LET s == VideoPacket(meta, flags, d, p, i, len, body) IN
           /\ s \in Bytes8 /\ Len(s) = 24 + Len(body) /\ From(s, 24) = body
           /\ \A k \in 1 .. Len(body) : s[24 + k] = body[k]
           /\ Header(s, meta.idx, flags, d, p, i, len)
<1> DEFINE a == WriteCommon(kPktVideo)
           b == a \o W32(meta.idx)
           c == b \o W32(0)
           e == c \o W8(flags)
           f == e \o W8(0)
           g == f \o W16(d)
           h == g \o W16(p)
           k == h \o W16(i)
           l == k \o W16(len)
           m == l \o <<0, 0>>
           s == m \o body
<1>0. VideoPacket(meta, flags, d, p, i, len, body) = s
  BY DEF VideoPacket
<1>1. a \in Bytes8 /\ Len(a) = 4 /\ ParseCommon(a) = kPktVideo
  BY CommonHeader
<1>2. W32(meta.idx) \in Bytes8 /\ W16(d) \in Bytes8 /\ W16(p) \in Bytes8 /\ W16(i) \in Bytes8 /\ W16(len) \in Bytes8
  BY Word16Bytes, Word32Bytes
<1>3. 0 \in Word32 /\ W32(0) \in Bytes8
  <2>1. 0 \in Word32
    BY SMT DEF Word32
  <2> QED BY <2>1, Word32Bytes
<1>4. W8(flags) \in Bytes8 /\ W8(flags) = <<flags>> /\ W8(0) \in Bytes8 /\ Len(W8(0)) = 1 /\ Len(W8(flags)) = 1
  <2>1. 0 \in Byte
    BY ByteIs
  <2> QED BY <2>1, OneByte
<1>5. <<0, 0>> \in Bytes8 /\ Len(<<0, 0>>) = 2
  <2>1. 0 \in Byte
    BY ByteIs
  <2>2. <<0, 0>> \in Seq(Byte) /\ Len(<<0, 0>>) = 2
    BY <2>1
  <2> QED BY <2>2 DEF Bytes8
<1> HIDE DEF a
<1>6. b \in Bytes8 /\ Len(b) = 8 /\ R32(b, 4) = meta.idx
  <2> DEFINE idx == meta.idx
  <2>1. idx \in Word32 /\ 4 \in Nat
    OBVIOUS
  <2> HIDE DEF idx
  <2>2. LET u == a \o W32(idx) IN u \in Bytes8 /\ Len(u) = 4 + 4 /\ R32(u, 4) = idx
    BY <1>1, <2>1, ReadOn32
  <2> QED BY <2>2 DEF idx
<1> HIDE DEF b
<1>7. c \in Bytes8 /\ Len(c) = 12
  <2> DEFINE v == 0
  <2>1. v \in Word32 /\ 8 \in Nat
    BY <1>3
  <2> HIDE DEF v
  <2>2. b \o W32(v) \in Bytes8 /\ Len(b \o W32(v)) = 8 + 4
    BY <1>6, <2>1, ReadOn32
  <2> QED BY <2>2 DEF v
<1> HIDE DEF c
<1>8. e \in Bytes8 /\ Len(e) = 13 /\ e[13] = flags
  <2> DEFINE w == W8(flags)
  <2>1. w \in Bytes8 /\ Len(w) = 1 /\ w[1] = flags /\ 1 \in 1 .. Len(w)
    BY <1>4
  <2> HIDE DEF w
  <2>2. c \o w \in Bytes8 /\ Len(c \o w) = Len(c) + Len(w) /\ (c \o w)[Len(c) + 1] = w[1]
    BY <1>7, <2>1, JoinedBytes
  <2>3. Len(c) + 1 = 13 /\ Len(c) + Len(w) = 13
    BY <1>7, <2>1
  <2>4. (c \o w)[13] = flags /\ Len(c \o w) = 13
    BY <2>1, <2>2, <2>3
  <2>5. e = c \o w
    BY DEF w
  <2> HIDE DEF e
  <2> QED BY <2>2, <2>4, <2>5
<1> HIDE DEF e
<1>9. f \in Bytes8 /\ Len(f) = 14
  <2> DEFINE w == W8(0)
  <2>1. w \in Bytes8 /\ Len(w) = 1
    BY <1>4
  <2> HIDE DEF w
  <2>2. e \o w \in Bytes8 /\ Len(e \o w) = Len(e) + Len(w)
    BY <1>8, <2>1, JoinedBytes
  <2>3. f = e \o w
    BY DEF w
  <2> HIDE DEF f
  <2> QED BY <1>8, <2>1, <2>2, <2>3
<1> HIDE DEF f
<1>10. g \in Bytes8 /\ Len(g) = 16 /\ R16(g, 14) = d
  <2>1. 14 \in Nat
    OBVIOUS
  <2>2. LET u == f \o W16(d) IN u \in Bytes8 /\ Len(u) = 14 + 2 /\ R16(u, 14) = d
    BY <1>9, <2>1, ReadOn16, ZenonT(40)
  <2> QED BY <2>2
<1> HIDE DEF g
<1>11. h \in Bytes8 /\ Len(h) = 18 /\ R16(h, 16) = p
  <2>1. 16 \in Nat
    OBVIOUS
  <2>2. LET u == g \o W16(p) IN u \in Bytes8 /\ Len(u) = 16 + 2 /\ R16(u, 16) = p
    BY <1>10, <2>1, ReadOn16, ZenonT(40)
  <2> QED BY <2>2
<1> HIDE DEF h
<1>12. k \in Bytes8 /\ Len(k) = 20 /\ R16(k, 18) = i
  <2>1. 18 \in Nat
    OBVIOUS
  <2>2. LET u == h \o W16(i) IN u \in Bytes8 /\ Len(u) = 18 + 2 /\ R16(u, 18) = i
    BY <1>11, <2>1, ReadOn16, ZenonT(40)
  <2> QED BY <2>2
<1> HIDE DEF k
<1>13. l \in Bytes8 /\ Len(l) = 22 /\ R16(l, 20) = len
  <2>1. 20 \in Nat
    OBVIOUS
  <2>2. LET u == k \o W16(len) IN u \in Bytes8 /\ Len(u) = 20 + 2 /\ R16(u, 20) = len
    BY <1>12, <2>1, ReadOn16, ZenonT(40)
  <2> QED BY <2>2
<1> HIDE DEF l
<1>14. m \in Bytes8 /\ Len(m) = 24
  <2> DEFINE w == <<0, 0>>
  <2>1. w \in Bytes8 /\ Len(w) = 2
    BY <1>5
  <2> HIDE DEF w
  <2>2. l \o w \in Bytes8 /\ Len(l \o w) = Len(l) + Len(w)
    BY <1>13, <2>1, JoinedBytes
  <2>3. m = l \o w
    BY DEF w
  <2> HIDE DEF m
  <2> QED BY <1>13, <2>1, <2>2, <2>3
<1>15. Begins(s, m) /\ s \in Bytes8 /\ Len(s) = 24 + Len(body)
  <2> HIDE DEF m
  <2>1. Begins(m \o body, m)
    BY <1>14, BeginsJoined
  <2>2. m \o body \in Bytes8 /\ Len(m \o body) = Len(m) + Len(body)
    BY <1>14, JoinedBytes
  <2> QED BY <1>14, <2>1, <2>2
<1>16. From(s, 24) = body /\ \A j \in 1 .. Len(body) : s[24 + j] = body[j]
  <2> HIDE DEF m
  <2>1. From(m \o body, Len(m)) = body
    BY <1>14, ReadBehind
  <2>2. \A j \in 1 .. Len(body) : (m \o body)[Len(m) + j] = body[j]
    BY <1>14, JoinedBytes
  <2> QED BY <1>14, <2>1, <2>2
<1> HIDE DEF s
<1>17. Begins(s, l)
  BY <1>5, <1>13, <1>15, BeginsOn
<1>18. Begins(s, k)
  BY <1>2, <1>12, <1>17, BeginsOn DEF l
<1>19. Begins(s, h)
  BY <1>2, <1>11, <1>18, BeginsOn DEF k
<1>20. Begins(s, g)
  BY <1>2, <1>10, <1>19, BeginsOn DEF h
<1>21. Begins(s, f)
  BY <1>2, <1>9, <1>20, BeginsOn DEF g
<1>22. Begins(s, e)
  BY <1>4, <1>8, <1>21, BeginsOn DEF f
<1>23. Begins(s, c)
  BY <1>4, <1>7, <1>22, BeginsOn DEF e
<1>24. Begins(s, b)
  BY <1>3, <1>6, <1>23, BeginsOn DEF c
<1>25. Begins(s, a)
  BY <1>1, <1>2, <1>24, BeginsOn DEF b
<1>26. ParseCommon(s) = kPktVideo
  BY <1>1, <1>25, BeginsKind
<1>27. R32(s, 4) = meta.idx
  <2>1. 4 \in Nat /\ 4 + 4 <= Len(b)
    BY <1>6
  <2> QED BY <1>6, <1>24, <2>1, BeginsRead
<1>28. s[13] = flags
  <2>1. 13 \in 1 .. Len(e)
    BY <1>8
  <2> QED BY <1>8, <1>22, <2>1 DEF Begins
<1>29. R16(s, 14) = d
  <2>1. 14 \in Nat /\ 14 + 2 <= Len(g)
    BY <1>10
  <2> QED BY <1>10, <1>20, <2>1, BeginsRead
<1>30. R16(s, 16) = p
  <2>1. 16 \in Nat /\ 16 + 2 <= Len(h)
    BY <1>11
  <2> QED BY <1>11, <1>19, <2>1, BeginsRead
<1>31. R16(s, 18) = i
  <2>1. 18 \in Nat /\ 18 + 2 <= Len(k)
    BY <1>12
  <2> QED BY <1>12, <1>18, <2>1, BeginsRead
<1>32. R16(s, 20) = len
  <2>1. 20 \in Nat /\ 20 + 2 <= Len(l)
    BY <1>13
  <2> QED BY <1>13, <1>17, <2>1, BeginsRead
<1>33. Header(s, meta.idx, flags, d, p, i, len)
  BY <1>26, <1>27, <1>28, <1>29, <1>30, <1>31, <1>32 DEF Header
<1> QED BY <1>0, <1>15, <1>16, <1>33

\* A frame that ShardVideoFrame takes, the packets of which fit their lengths.
Metas == [idx : Word32, key : BOOLEAN, width : Word16, height : Word16, name : Bytes8]

Sendable(meta, frame, mtu) ==
    /\ meta \in Metas /\ Len(meta.name) <= kMaxMonNameLen
    /\ frame \in Bytes8 /\ frame # <<>> /\ Len(frame) \in Word32
    /\ mtu \in Word16 /\ FirstPayload(meta, mtu) > 0
    /\ DataShards(meta, Len(frame), mtu) \in Word16

LEMMA SendableIs ==
    ASSUME NEW meta, NEW frame, NEW mtu, Sendable(meta, frame, mtu)
    PROVE  /\ meta.idx \in Word32 /\ meta.width \in Word16 /\ meta.height \in Word16
           /\ meta.name \in Bytes8 /\ Len(meta.name) \in Nat
           /\ Len(meta.name) <= 64
           /\ frame \in Bytes8 /\ Len(frame) \in Nat /\ Len(frame) > 0 /\ Len(frame) \in Word32
           /\ mtu \in Nat /\ mtu <= 65535
           /\ FirstPayload(meta, mtu) > 0 /\ DataShards(meta, Len(frame), mtu) \in Word16
<1>1. meta \in Metas /\ Len(meta.name) <= 64 /\ frame \in Bytes8 /\ frame # <<>> /\ Len(frame) \in Word32
  BY DEF Sendable, kMaxMonNameLen
<1>2. mtu \in Nat /\ mtu <= 65535 /\ FirstPayload(meta, mtu) > 0 /\ DataShards(meta, Len(frame), mtu) \in Word16
  <2>1. mtu \in Word16
    BY DEF Sendable
  <2>2. mtu \in Nat /\ mtu <= 65535
    BY <2>1, SMT DEF Word16
  <2> QED BY <2>2 DEF Sendable
<1>3. /\ meta.idx \in Word32 /\ meta.width \in Word16 /\ meta.height \in Word16
      /\ meta.name \in Bytes8
  BY <1>1 DEF Metas
<1>4. Len(frame) \in Nat /\ Len(meta.name) \in Nat
  BY <1>1, <1>3, JoinedBytes
<1>5. Len(frame) > 0
  BY <1>1, <1>4 DEF Bytes8
<1>6. /\ Len(meta.name) \in Nat /\ Len(meta.name) <= 64
      /\ frame \in Bytes8 /\ Len(frame) \in Nat /\ Len(frame) > 0 /\ Len(frame) \in Word32
  BY <1>1, <1>4, <1>5
<1> QED BY <1>2, <1>3, <1>6

\* The room in a packet, and in the first of a frame.
LEMMA RoomIs ==
    ASSUME NEW meta, NEW frame, NEW mtu, Sendable(meta, frame, mtu)
    PROVE  LET first == FirstPayload(meta, mtu)
               p == mtu - Base IN
           /\ first \in Nat /\ first > 0 /\ first <= 65535
           /\ p \in Nat /\ p > 0 /\ p <= 65535
<1> DEFINE n == Len(meta.name)  first == FirstPayload(meta, mtu)  p == mtu - Base
<1>1. mtu \in Nat /\ mtu <= 65535 /\ n \in Nat /\ first > 0
  BY SendableIs
<1>2. first = mtu - 24 - (9 + n)
  BY SMT DEF FirstPayload, Base, kCommonHeaderSize, kVideoHeaderSize
<1>3. p = mtu - 24
  BY SMT DEF Base, kCommonHeaderSize, kVideoHeaderSize
<1> HIDE DEF n, first, p
<1>4. first \in Nat /\ p \in Nat
  BY <1>1, <1>2, <1>3
<1>5. p > 0 /\ first <= mtu /\ p <= mtu
  BY <1>1, <1>2, <1>3
<1> QED BY <1>1, <1>4, <1>5 DEF first, p

LEMMA LeastOfTwo ==
    ASSUME NEW a \in Int, NEW b \in Int
    PROVE  Min({a, b}) = IF a <= b THEN a ELSE b
<1>1. CASE a <= b
  <2>1. a \in {a, b} /\ \A y \in {a, b} : a <= y
    BY <1>1
  <2>2. \A x \in {a, b} : (\A y \in {a, b} : x <= y) => x = a
    BY <1>1
  <2> QED BY <1>1, <2>1, <2>2 DEF Min
<1>2. CASE ~(a <= b)
  <2>1. b \in {a, b} /\ \A y \in {a, b} : b <= y
    BY <1>2
  <2>2. \A x \in {a, b} : (\A y \in {a, b} : x <= y) => x = b
    BY <1>2
  <2> QED BY <1>2, <2>1, <2>2 DEF Min
<1> QED BY <1>1, <1>2

Copies(t, s, f, n) == \A i \in 1 .. n : t[i] = s[f + i]

\* A part of a sequence that may end before the part does.
LEMMA PartIs ==
    ASSUME NEW s \in Bytes8, NEW f \in Nat, NEW k \in Nat, f <= Len(s),
           NEW n, n = IF f + k <= Len(s) THEN k ELSE Len(s) - f
    PROVE  /\ n \in Nat /\ n <= k /\ f + n <= Len(s)
           /\ Part(s, f + 1, f + k) \in Bytes8 /\ Len(Part(s, f + 1, f + k)) = n
           /\ Copies(Part(s, f + 1, f + k), s, f, n)
<1>1. Len(s) \in Nat
  BY JoinedBytes
<1>2. n \in Nat /\ n <= k /\ f + n <= Len(s) /\ f + n = IF f + k <= Len(s) THEN f + k ELSE Len(s)
  BY <1>1
<1>3. Min({f + k, Len(s)}) = f + n
  <2> DEFINE a == f + k  b == Len(s)
  <2>1. a \in Int /\ b \in Int
    BY <1>1
  <2> HIDE DEF a, b
  <2>2. Min({a, b}) = IF a <= b THEN a ELSE b
    BY <2>1, LeastOfTwo
  <2> QED BY <1>2, <2>2 DEF a, b
<1>4. Part(s, f + 1, f + k) = SubSeq(s, f + 1, f + n)
  BY <1>3 DEF Part
<1>5. /\ SubSeq(s, f + 1, f + n) \in Seq(Byte) /\ Len(SubSeq(s, f + 1, f + n)) = n
      /\ \A i \in 1 .. n : SubSeq(s, f + 1, f + n)[i] = s[f + i]
  BY <1>2, Slice, SMTT(30) DEF Bytes8
<1>6. Part(s, f + 1, f + k) \in Bytes8 /\ Len(Part(s, f + 1, f + k)) = n
  BY <1>4, <1>5 DEF Bytes8
<1>7. Copies(Part(s, f + 1, f + k), s, f, n)
  BY <1>4, <1>5 DEF Copies
<1> QED BY <1>2, <1>6, <1>7

LEMMA PartFits ==
    ASSUME NEW s \in Bytes8, NEW f \in Nat, NEW k \in Nat, f <= Len(s)
    PROVE  /\ Part(s, f + 1, f + k) \in Bytes8
           /\ Len(Part(s, f + 1, f + k)) \in Nat /\ Len(Part(s, f + 1, f + k)) <= k
<1> DEFINE n == IF f + k <= Len(s) THEN k ELSE Len(s) - f
<1>0. n = IF f + k <= Len(s) THEN k ELSE Len(s) - f
  OBVIOUS
<1> HIDE DEF n
<1>1. n \in Nat /\ n <= k /\ Part(s, f + 1, f + k) \in Bytes8 /\ Len(Part(s, f + 1, f + k)) = n
  BY <1>0, PartIs
<1> QED BY <1>1

\* The extension of the first packet.
Extension(s, meta, size) ==
    /\ R16(s, 0) = meta.width /\ R16(s, 2) = meta.height /\ R32(s, 4) = size
    /\ s[9] = Len(meta.name) /\ \A i \in 1 .. Len(meta.name) : s[9 + i] = meta.name[i]

LEMMA ExtensionIsRead ==
    ASSUME NEW meta, meta.width \in Word16, meta.height \in Word16, meta.name \in Bytes8,
           Len(meta.name) <= 64, NEW size \in Word32, NEW t \in Bytes8
    PROVE  LET x == SofExtension(meta, size) IN
           /\ x \in Bytes8 /\ Len(x) = 9 + Len(meta.name)
           /\ x \o t \in Bytes8 /\ Len(x \o t) = 9 + Len(meta.name) + Len(t)
           /\ From(x \o t, 9 + Len(meta.name)) = t
           /\ Extension(x \o t, meta, size)
<1> DEFINE name == meta.name  n == Len(name)  width == meta.width  height == meta.height
           a == W16(width)
           b == a \o W16(height)
           c == b \o W32(size)
           e == c \o W8(n)
           x == e \o name
           s == x \o t
<1>0. SofExtension(meta, size) = x
  BY DEF SofExtension
<1>1. width \in Word16 /\ height \in Word16 /\ name \in Bytes8 /\ n \in Nat /\ n <= 64
  BY JoinedBytes
<1> HIDE DEF name, width, height
<1>2. a \in Bytes8 /\ Len(a) = 2 /\ R16(a, 0) = width
  <2>1. <<>> \in Bytes8 /\ Len(<<>>) = 0
    BY DEF Bytes8
  <2>2. W16(width) \in Bytes8 /\ Len(W16(width)) = 2 /\ W16(width)[1] + 256 * W16(width)[2] = width
    BY <1>1, Word16Bytes
  <2> QED BY <2>2 DEF R16
<1> HIDE DEF a
<1>3. b \in Bytes8 /\ Len(b) = 4 /\ R16(b, 2) = height
  <2>1. 2 \in Nat
    OBVIOUS
  <2>2. LET u == a \o W16(height) IN u \in Bytes8 /\ Len(u) = 2 + 2 /\ R16(u, 2) = height
    BY <1>1, <1>2, <2>1, ReadOn16, ZenonT(40)
  <2> QED BY <2>2
<1> HIDE DEF b
<1>4. c \in Bytes8 /\ Len(c) = 8 /\ R32(c, 4) = size
  <2>1. 4 \in Nat
    OBVIOUS
  <2>2. LET u == b \o W32(size) IN u \in Bytes8 /\ Len(u) = 4 + 4 /\ R32(u, 4) = size
    BY <1>3, <2>1, ReadOn32
  <2> QED BY <2>2
<1> HIDE DEF c
<1>5. e \in Bytes8 /\ Len(e) = 9 /\ e[9] = n
  <2> DEFINE w == W8(n)
  <2>1. n \in Byte
    BY <1>1, ByteIs
  <2> HIDE DEF n
  <2>2. W8(n) = <<n>> /\ W8(n) \in Bytes8 /\ Len(W8(n)) = 1
    BY <2>1, OneByte
  <2>3. w \in Bytes8 /\ Len(w) = 1 /\ w[1] = n /\ 1 \in 1 .. Len(w)
    BY <2>2
  <2> HIDE DEF w
  <2>4. c \o w \in Bytes8 /\ Len(c \o w) = Len(c) + Len(w) /\ (c \o w)[Len(c) + 1] = w[1]
    BY <1>4, <2>3, JoinedBytes
  <2>5. Len(c) + 1 = 9 /\ Len(c) + Len(w) = 9
    BY <1>4, <2>3
  <2>6. (c \o w)[9] = n /\ Len(c \o w) = 9
    BY <2>3, <2>4, <2>5
  <2>7. e = c \o w
    BY DEF w, n
  <2> HIDE DEF e
  <2> QED BY <2>4, <2>6, <2>7
<1> HIDE DEF e
<1>6. x \in Bytes8 /\ Len(x) = 9 + n /\ \A i \in 1 .. n : x[9 + i] = name[i]
  <2>1. /\ e \o name \in Bytes8 /\ Len(e \o name) = Len(e) + Len(name)
        /\ \A i \in 1 .. Len(name) : (e \o name)[Len(e) + i] = name[i]
    BY <1>1, <1>5, JoinedBytes
  <2> QED BY <1>5, <2>1
<1>7. Begins(x, e)
  BY <1>1, <1>5, BeginsJoined
<1> HIDE DEF x
<1>8. s \in Bytes8 /\ Len(s) = 9 + n + Len(t)
  <2>1. x \in Bytes8 /\ Len(x) = 9 + n
    BY <1>6
  <2>2. x \o t \in Bytes8 /\ Len(x \o t) = Len(x) + Len(t)
    BY <2>1, JoinedBytes
  <2> QED BY <2>1, <2>2
<1>9. From(s, 9 + n) = t
  <2>1. From(x \o t, Len(x)) = t
    BY <1>6, ReadBehind
  <2> QED BY <1>6, <2>1
<1>10. Begins(s, x)
  BY <1>6, BeginsJoined
<1> HIDE DEF s
<1>11. Begins(s, e)
  BY <1>1, <1>5, <1>10, BeginsOn DEF x
<1>12. Begins(s, c)
  <2>1. W8(n) \in Bytes8
    <3>1. n \in Byte
      BY <1>1, ByteIs
    <3> HIDE DEF n
    <3> QED BY <3>1, OneByte
  <2> QED BY <1>4, <1>11, <2>1, BeginsOn DEF e
<1>13. Begins(s, b)
  BY <1>3, <1>12, Word32Bytes, BeginsOn DEF c
<1>14. Begins(s, a)
  BY <1>1, <1>2, <1>13, Word16Bytes, BeginsOn DEF b
<1>15. R16(s, 0) = width
  <2>1. 0 \in Nat /\ 0 + 2 <= Len(a)
    BY <1>2
  <2> QED BY <1>2, <1>14, <2>1, BeginsRead
<1>16. R16(s, 2) = height
  <2>1. 2 \in Nat /\ 2 + 2 <= Len(b)
    BY <1>3
  <2> QED BY <1>3, <1>13, <2>1, BeginsRead
<1>17. R32(s, 4) = size
  <2>1. 4 \in Nat /\ 4 + 4 <= Len(c)
    BY <1>4
  <2> QED BY <1>4, <1>12, <2>1, BeginsRead
<1>18. s[9] = n
  <2>1. 9 \in 1 .. Len(e)
    BY <1>5
  <2> QED BY <1>5, <1>11, <2>1 DEF Begins
<1>19. \A i \in 1 .. n : s[9 + i] = name[i]
  <2>1. ASSUME NEW i \in 1 .. n PROVE 9 + i \in 1 .. Len(x)
    BY <1>1, <1>6
  <2> QED BY <1>6, <1>10, <2>1 DEF Begins
<1>20. Extension(s, meta, size)
  BY <1>15, <1>16, <1>17, <1>18, <1>19 DEF Extension, width, height, name
<1> QED BY <1>0, <1>6, <1>8, <1>9, <1>20 DEF s, name

\* What packet i carries.
LEMMA FirstBody ==
    ASSUME NEW meta, NEW frame, NEW mtu, Sendable(meta, frame, mtu)
    PROVE  LET body == Body(meta, frame, mtu, 0)
               n == Len(meta.name) IN
           /\ body \in Bytes8 /\ Len(body) >= 9 + n /\ Len(body) - (9 + n) \in Word16
           /\ Extension(body, meta, Len(frame))
           /\ From(body, 9 + n) = Part(frame, 1, FirstPayload(meta, mtu))
<1> DEFINE body == Body(meta, frame, mtu, 0)
           n == Len(meta.name)
           first == FirstPayload(meta, mtu)
           t == Part(frame, 1, first)
           size == Len(frame)
           x == SofExtension(meta, size)
<1>1. /\ n \in Nat /\ n <= 64 /\ first \in Nat /\ first <= 65535 /\ frame \in Bytes8 /\ size \in Nat
      /\ size \in Word32 /\ meta.width \in Word16 /\ meta.height \in Word16 /\ meta.name \in Bytes8
  BY SendableIs, RoomIs
<1>2. body = x \o t
  BY DEF Body
<1>3. t \in Bytes8 /\ Len(t) \in Nat /\ Len(t) <= first
  <2> DEFINE f == 0
  <2>1. f \in Nat /\ f <= size /\ f + 1 = 1 /\ f + first = first
    BY <1>1
  <2> HIDE DEF f, first
  <2>2. /\ Part(frame, f + 1, f + first) \in Bytes8 /\ Len(Part(frame, f + 1, f + first)) \in Nat
        /\ Len(Part(frame, f + 1, f + first)) <= first
    <3>1. frame \in Bytes8 /\ f \in Nat /\ first \in Nat /\ f <= Len(frame)
      BY <1>1, <2>1
    <3> QED BY <3>1, PartFits, Zenon
  <2> QED BY <2>1, <2>2
<1> HIDE DEF t, size, first
<1>4. /\ x \o t \in Bytes8 /\ Len(x \o t) = 9 + n + Len(t) /\ From(x \o t, 9 + n) = t
      /\ Extension(x \o t, meta, size)
  <2>1. /\ meta.width \in Word16 /\ meta.height \in Word16 /\ meta.name \in Bytes8
        /\ Len(meta.name) <= 64 /\ size \in Word32 /\ t \in Bytes8
    BY <1>1, <1>3
  <2> QED BY <2>1, ExtensionIsRead, Zenon DEF n, x
<1> HIDE DEF body, x
<1>5. body \in Bytes8 /\ Len(body) >= 9 + n /\ Len(body) - (9 + n) = Len(t)
  BY <1>1, <1>2, <1>3, <1>4
<1>6. Len(t) \in Word16
  <2>1. Len(t) \in Nat /\ Len(t) <= 65535
    BY <1>1, <1>3
  <2> QED BY <2>1, SMT DEF Word16
<1> QED BY <1>2, <1>4, <1>5, <1>6 DEF body, n, t, size, first

\* A quotient, as what it is.
LEMMA Quotient ==
    ASSUME NEW c \in Nat, NEW p \in Nat, p > 0
    PROVE  \E q \in Nat, r \in Nat : r < p /\ c = q * p + r /\ c \div p = q
<1> DEFINE q == c \div p  r == c % p
<1>1. q \in Nat /\ r \in Nat /\ r < p /\ c = q * p + r
  OBVIOUS
<1> HIDE DEF r
<1>2. r < p /\ c = q * p + r /\ c \div p = q /\ q \in Nat /\ r \in Nat
  BY <1>1
<1> QED BY <1>2

\* The last packet carries the end of the frame, the ones before it do not.
LEMMA ShardsCover ==
    ASSUME NEW meta, NEW frame, NEW mtu, Sendable(meta, frame, mtu)
    PROVE  LET d == DataShards(meta, Len(frame), mtu)
               first == FirstPayload(meta, mtu)
               p == mtu - Base IN
           /\ d \in Nat /\ d >= 1 /\ first \in Nat /\ first > 0 /\ p \in Nat /\ p > 0 /\ p <= 65535
           /\ d = 1 => Len(frame) <= first
           /\ d > 1 => Len(frame) <= first + (d - 1) * p /\ first + (d - 2) * p < Len(frame)
<1> DEFINE d == DataShards(meta, Len(frame), mtu)
           first == FirstPayload(meta, mtu)
           p == mtu - Base
           size == Len(frame)
<1>1. first \in Nat /\ first > 0 /\ size \in Nat /\ p \in Nat /\ p > 0 /\ p <= 65535
  BY SendableIs, RoomIs
<1>2. d = IF size <= first THEN 1 ELSE 1 + (size - first + p - 1) \div p
  BY DEF DataShards
<1> HIDE DEF d, first, p, size
<1>3. CASE size <= first
  <2>1. d = 1
    BY <1>2, <1>3
  <2>2. ~(d > 1)
    BY <2>1
  <2> QED BY <1>1, <1>3, <2>1, <2>2 DEF d, first, p, size
<1>4. CASE ~(size <= first)
  <2> DEFINE c == size - first + p - 1
  <2>1. c \in Nat
    BY <1>1, <1>4
  <2>2. d = 1 + c \div p
    BY <1>2, <1>4
  <2>3. c = size - first + p - 1
    OBVIOUS
  <2> HIDE DEF c
  <2>4. PICK q \in Nat, r \in Nat : r < p /\ c = q * p + r /\ c \div p = q
    BY <1>1, <2>1, Quotient
  <2>5. d = 1 + q /\ d - 1 = q /\ d - 2 = q - 1
    BY <2>2, <2>4
  <2> DEFINE w == q * p
  <2>6. w \in Nat /\ (q - 1) * p = w - p /\ (q = 0 => w = 0)
    BY <1>1, <2>4
  <2>7. c = w + r
    BY <2>4
  <2> HIDE DEF w
  <2>8. q > 0
    BY <1>1, <1>4, <2>3, <2>4, <2>6, <2>7
  <2>9. size <= first + w /\ first + (w - p) < size
    BY <1>1, <2>3, <2>4, <2>6, <2>7
  <2>10. (d - 1) * p = w /\ (d - 2) * p = w - p
    BY <2>5, <2>6 DEF w
  <2>11. d \in Nat /\ d >= 1 /\ d # 1
    BY <2>5, <2>8
  <2>12. size <= first + (d - 1) * p /\ first + (d - 2) * p < size
    BY <2>9, <2>10
  <2> QED BY <1>1, <2>11, <2>12 DEF d, first, p, size
<1> QED BY <1>3, <1>4

\* The packets behind the first carry a part of the frame that begins in it.
LEMMA NextBody ==
    ASSUME NEW meta, NEW frame, NEW mtu, Sendable(meta, frame, mtu), NEW i \in Nat, i > 0,
           i < DataShards(meta, Len(frame), mtu)
    PROVE  LET first == FirstPayload(meta, mtu)
               p == mtu - Base
               f == first + (i - 1) * p IN
           /\ Body(meta, frame, mtu, i) = Part(frame, f + 1, f + p)
           /\ f \in Nat /\ f <= Len(frame) /\ p \in Nat /\ first + i * p = f + p
           /\ Body(meta, frame, mtu, i) \in Bytes8 /\ Len(Body(meta, frame, mtu, i)) \in Word16
<1> DEFINE d == DataShards(meta, Len(frame), mtu)
           first == FirstPayload(meta, mtu)
           p == mtu - Base
           f == first + (i - 1) * p
           body == Body(meta, frame, mtu, i)
<1>1. /\ d \in Nat /\ d > 1 /\ first \in Nat /\ p \in Nat /\ p > 0 /\ p <= 65535
      /\ first + (d - 2) * p < Len(frame)
  <2>1. /\ d \in Nat /\ d >= 1 /\ first \in Nat /\ p \in Nat /\ p > 0 /\ p <= 65535
        /\ d > 1 => first + (d - 2) * p < Len(frame)
    BY ShardsCover
  <2>2. i < d
    OBVIOUS
  <2> HIDE DEF d, first, p
  <2>3. d > 1
    BY <2>1, <2>2
  <2> QED BY <2>1, <2>3
<1>2. body = Part(frame, first + (i - 1) * p + 1, first + i * p)
  BY DEF Body
<1>3. frame \in Bytes8 /\ Len(frame) \in Nat /\ i < d
  BY SendableIs
<1> HIDE DEF d, first, p, body
<1>4. (i - 1) * p \in Nat /\ i * p = (i - 1) * p + p
  BY <1>1
<1>5. (i - 1) * p <= (d - 2) * p /\ (d - 2) * p \in Nat
  <2>1. i - 1 \in Nat /\ d - 2 \in Nat /\ i - 1 <= d - 2
    BY <1>1, <1>3
  <2> DEFINE x == i - 1  y == d - 2
  <2> HIDE DEF x, y
  <2>2. x * p <= y * p /\ y * p \in Nat
    <3>1. x \in Nat /\ y \in Nat /\ x <= y
      BY <2>1 DEF x, y
    <3> QED BY <1>1, <3>1
  <2> QED BY <2>2 DEF x, y
<1>6. f \in Nat /\ f <= Len(frame) /\ first + i * p = f + p
  BY <1>1, <1>3, <1>4, <1>5
<1>7. body = Part(frame, f + 1, f + p)
  BY <1>2, <1>6
<1> HIDE DEF f
<1>8. body \in Bytes8 /\ Len(body) \in Nat /\ Len(body) <= 65535
  <2>1. /\ Part(frame, f + 1, f + p) \in Bytes8 /\ Len(Part(frame, f + 1, f + p)) \in Nat
        /\ Len(Part(frame, f + 1, f + p)) <= p
    <3>1. frame \in Bytes8 /\ f \in Nat /\ p \in Nat /\ f <= Len(frame)
      BY <1>1, <1>3, <1>6
    <3> QED BY <3>1, PartFits, Zenon
  <2> QED BY <1>1, <1>7, <2>1
<1>9. Len(body) \in Word16
  BY <1>8, SMT DEF Word16
<1> QED BY <1>1, <1>6, <1>7, <1>8, <1>9 DEF body, first, p, f

DataFlags(meta, d, i) == VideoFlags(meta, i = 0, i = d - 1, FALSE)

LEMMA FlagsAreRead ==
    ASSUME NEW meta, NEW i, NEW d
    PROVE  LET flags == DataFlags(meta, d, i) IN
           /\ flags \in Byte
           /\ flags % 2 = 1 <=> meta.key
           /\ (flags \div 2) % 2 = 1 <=> i = 0
           /\ (flags \div 8) % 2 # 1
<1> DEFINE k == IF meta.key THEN 1 ELSE 0
           f == IF i = 0 THEN 2 ELSE 0
           e == IF i = d - 1 THEN 4 ELSE 0
           flags == DataFlags(meta, d, i)
<1>1. flags = k + f + e + 0
  BY DEF DataFlags, VideoFlags
<1>2. (k = 1 /\ meta.key) \/ (k = 0 /\ ~meta.key)
  OBVIOUS
<1>3. (f = 2 /\ i = 0) \/ (f = 0 /\ i # 0)
  OBVIOUS
<1>4. e = 4 \/ e = 0
  OBVIOUS
<1> HIDE DEF flags, k, f, e
<1>5. flags \in Nat /\ flags <= 255
  BY <1>1, <1>2, <1>3, <1>4
<1>6. flags \in Byte
  BY <1>5, ByteIs
<1>7. (flags % 2 = 1 <=> k = 1) /\ ((flags \div 2) % 2 = 1 <=> f = 2) /\ (flags \div 8) % 2 # 1
  BY <1>1, <1>2, <1>3, <1>4, SMT
<1>8. flags % 2 = 1 <=> meta.key
  BY <1>2, <1>7
<1>9. (flags \div 2) % 2 = 1 <=> i = 0
  BY <1>3, <1>7
<1> QED BY <1>6, <1>7, <1>8, <1>9 DEF flags

\* ParseVideoShard takes a packet the lengths of which agree.
\* The fields of a shard.
ParsedAs(r, idx, flags, d, p, i, body) ==
    /\ r.ok /\ r.idx = idx /\ (r.key <=> flags % 2 = 1)
    /\ r.sof <=> (flags \div 2) % 2 = 1
    /\ r.parity <=> (flags \div 8) % 2 = 1
    /\ r.d = d /\ r.p = p /\ r.i = i /\ r.body = body

LEMMA ShardIsTaken ==
    ASSUME NEW s, NEW idx, NEW flags, NEW d, NEW p, NEW i, NEW len \in Nat,
           Header(s, idx, flags, d, p, i, len),
           NEW body, From(s, 24) = body, NEW n \in Nat, Len(s) = 24 + n,
           NEW ext \in Nat, n = ext + len,
           (flags \div 2) % 2 = 1 => s[33] \in Nat /\ s[33] <= 64 /\ ext = 9 + s[33],
           (flags \div 2) % 2 # 1 => ext = 0
    PROVE  ParsedAs(ParseVideoShard(s), idx, flags, d, p, i, body)
<1> DEFINE sof == (flags \div 2) % 2 = 1
           part == IF sof THEN 9 + s[33] ELSE 0
           shard == [ok |-> TRUE, idx |-> R32(s, 4), key |-> flags % 2 = 1, sof |-> sof,
                     parity |-> (flags \div 8) % 2 = 1,
                     d |-> R16(s, 14), p |-> R16(s, 16), i |-> R16(s, 18), body |-> From(s, 24)]
<1>1. /\ ParseCommon(s) = kPktVideo /\ R32(s, 4) = idx /\ s[13] = flags
      /\ R16(s, 14) = d /\ R16(s, 16) = p /\ R16(s, 18) = i /\ R16(s, 20) = len
  BY DEF Header
<1>2. ParseVideoShard(s) =
        IF \/ ParseCommon(s) # kPktVideo \/ Len(s) < 24
           \/ sof /\ Len(s) < 24 + 9
           \/ sof /\ (s[33] > 64 \/ Len(s) < 24 + 9 + s[33])
           \/ Len(s) # 24 + part + R16(s, 20)
        THEN Refused ELSE shard
  BY <1>1, SMT DEF ParseVideoShard, Base, kCommonHeaderSize, kVideoHeaderSize, kMaxMonNameLen
<1>3. part = ext
  OBVIOUS
<1>4. ~(Len(s) < 24) /\ ~(Len(s) # 24 + part + R16(s, 20))
  BY <1>1, <1>3
<1>5. sof => ~(Len(s) < 24 + 9) /\ ~(s[33] > 64) /\ ~(Len(s) < 24 + 9 + s[33])
  BY <1>3
<1> HIDE DEF part
<1>6. ParseVideoShard(s) = shard
  <2> HIDE DEF sof, shard
  <2> QED BY <1>1, <1>2, <1>4, <1>5
<1>7. /\ shard.ok /\ shard.idx = R32(s, 4) /\ (shard.key <=> flags % 2 = 1)
      /\ shard.sof <=> (flags \div 2) % 2 = 1
      /\ shard.parity <=> (flags \div 8) % 2 = 1
      /\ shard.d = R16(s, 14) /\ shard.p = R16(s, 16) /\ shard.i = R16(s, 18) /\ shard.body = From(s, 24)
  OBVIOUS
<1> HIDE DEF shard
<1> QED BY <1>1, <1>6, <1>7 DEF ParsedAs

\* Every data packet of a frame is read as what it was made of.
LEMMA PacketIsRead ==
    ASSUME NEW meta, NEW frame, NEW mtu, Sendable(meta, frame, mtu), NEW p \in Word16,
           NEW i \in Nat, i < DataShards(meta, Len(frame), mtu)
    PROVE  LET d == DataShards(meta, Len(frame), mtu)
               r == ParseVideoShard(DataPacket(meta, frame, mtu, d, p, i)) IN
           /\ r.ok /\ r.idx = meta.idx /\ (r.key <=> meta.key) /\ (r.sof <=> i = 0) /\ ~r.parity
           /\ r.d = d /\ r.p = p /\ r.i = i /\ r.body = Body(meta, frame, mtu, i)
<1> DEFINE d == DataShards(meta, Len(frame), mtu)
           body == Body(meta, frame, mtu, i)
           n == Len(meta.name)
           ext == IF i = 0 THEN 9 + n ELSE 0
           len == Len(body) - ext
           flags == DataFlags(meta, d, i)
           s == VideoPacket(meta, flags, d, p, i, len, body)
<1>1. DataPacket(meta, frame, mtu, d, p, i) = s
  BY DEF DataPacket, DataFlags
<1>2. /\ flags \in Byte /\ (flags % 2 = 1 <=> meta.key)
      /\ (flags \div 2) % 2 = 1 <=> i = 0
      /\ (flags \div 8) % 2 # 1
  BY FlagsAreRead
<1>3. meta.idx \in Word32 /\ d \in Word16 /\ n \in Nat /\ n <= 64
  BY SendableIs
<1>4. i \in Word16
  <2>1. d \in Nat /\ d <= 65535
    BY <1>3, SMT DEF Word16
  <2> HIDE DEF d
  <2>2. i < d
    BY DEF d
  <2>3. i <= 65535
    BY <2>1, <2>2
  <2> QED BY <2>3, SMT DEF Word16
<1>5. body \in Bytes8 /\ Len(body) \in Nat /\ len \in Word16 /\ (i = 0 => body[9] = n /\ 9 + n <= Len(body))
  <2>1. CASE i = 0
    <3> DEFINE first == Body(meta, frame, mtu, 0)
    <3>1. first \in Bytes8 /\ Len(first) >= 9 + n /\ Len(first) - (9 + n) \in Word16 /\ Extension(first, meta, Len(frame))
      BY FirstBody
    <3>2. first[9] = n
      BY <3>1 DEF Extension
    <3>3. Len(first) \in Nat
      BY <3>1, JoinedBytes
    <3>4. body = first /\ ext = 9 + n
      BY <2>1
    <3> HIDE DEF first, body, ext, n
    <3> QED BY <1>3, <3>1, <3>2, <3>3, <3>4
  <2>2. CASE i # 0
    <3>1. i > 0
      BY <2>2
    <3>2. body \in Bytes8 /\ Len(body) \in Word16
      BY <3>1, NextBody
    <3>3. Len(body) \in Nat
      BY <3>2, JoinedBytes
    <3>4. ext = 0
      BY <2>2
    <3> HIDE DEF body, ext
    <3>5. Len(body) - ext = Len(body)
      BY <3>3, <3>4
    <3> QED BY <2>2, <3>2, <3>3, <3>5
  <2> QED BY <2>1, <2>2
<1> HIDE DEF d, body, len, flags
<1>6. /\ s \in Bytes8 /\ Len(s) = 24 + Len(body) /\ From(s, 24) = body
      /\ \A k \in 1 .. Len(body) : s[24 + k] = body[k]
      /\ Header(s, meta.idx, flags, d, p, i, len)
  BY <1>2, <1>3, <1>4, <1>5, HeaderIsRead
<1> HIDE DEF s
<1>7. len \in Nat /\ ext \in Nat /\ Len(body) = ext + len
  <2>1. len \in Nat
    BY <1>5, SMT DEF Word16
  <2>2. ext \in Nat
    BY <1>3
  <2> QED BY <1>5, <2>1, <2>2 DEF len
<1>8. (flags \div 2) % 2 = 1 => s[33] \in Nat /\ s[33] <= 64 /\ ext = 9 + s[33]
  <2> SUFFICES ASSUME i = 0 PROVE s[33] \in Nat /\ s[33] <= 64 /\ ext = 9 + s[33]
    BY <1>2
  <2>1. 9 \in 1 .. Len(body)
    BY <1>3, <1>5
  <2>2. s[33] = body[9]
    BY <1>6, <2>1
  <2> QED BY <1>3, <1>5, <2>2
<1>9. (flags \div 2) % 2 # 1 => ext = 0
  BY <1>2
<1> DEFINE idx == meta.idx  m == Len(body)
<1>10. Header(s, idx, flags, d, p, i, len) /\ m \in Nat /\ Len(s) = 24 + m /\ m = ext + len
  BY <1>5, <1>6, <1>7
<1> HIDE DEF idx, m, ext
<1>11. ParsedAs(ParseVideoShard(s), idx, flags, d, p, i, body)
  BY <1>6, <1>7, <1>8, <1>9, <1>10, ShardIsTaken
<1> QED BY <1>1, <1>2, <1>11 DEF ParsedAs, idx, d, body

\* The first k bytes of a sequence, or all of it when it has no more.
LEMMA FrontIs ==
    ASSUME NEW s \in Bytes8, NEW k \in Nat
    PROVE  /\ Part(s, 1, k) \in Bytes8
           /\ Len(Part(s, 1, k)) = IF k <= Len(s) THEN k ELSE Len(s)
           /\ \A i \in 1 .. Len(Part(s, 1, k)) : Part(s, 1, k)[i] = s[i]
<1> DEFINE f == 0  n == IF f + k <= Len(s) THEN k ELSE Len(s) - f
<1>1. Len(s) \in Nat
  BY JoinedBytes
<1>2. f \in Nat /\ f <= Len(s) /\ f + 1 = 1 /\ f + k = k /\ \A i \in Nat : f + i = i
  BY <1>1
<1>3. n = IF k <= Len(s) THEN k ELSE Len(s)
  BY <1>1
<1>0. n = IF f + k <= Len(s) THEN k ELSE Len(s) - f
  OBVIOUS
<1> HIDE DEF f, n
<1>4. /\ Part(s, f + 1, f + k) \in Bytes8 /\ Len(Part(s, f + 1, f + k)) = n
      /\ Copies(Part(s, f + 1, f + k), s, f, n)
  <2>1. f \in Nat /\ f <= Len(s)
    BY <1>2
  <2> QED BY <1>0, <2>1, PartIs
<1>5. /\ Part(s, 1, k) \in Bytes8 /\ Len(Part(s, 1, k)) = n
      /\ \A i \in 1 .. n : Part(s, 1, k)[i] = s[f + i]
  BY <1>2, <1>4 DEF Copies
<1>6. \A i \in 1 .. n : Part(s, 1, k)[i] = s[i]
  BY <1>2, <1>5
<1> QED BY <1>3, <1>5, <1>6

\* The first bytes and the part behind them.
LEMMA PartsJoin ==
    ASSUME NEW s \in Bytes8, NEW f \in Nat, NEW k \in Nat, f <= Len(s)
    PROVE  Part(s, 1, f) \o Part(s, f + 1, f + k) = Part(s, 1, f + k)
<1> DEFINE n == IF f + k <= Len(s) THEN k ELSE Len(s) - f
           a == Part(s, 1, f)  b == Part(s, f + 1, f + k)  h == f + k  c == Part(s, 1, h)
<1>0. Len(s) \in Nat
  BY JoinedBytes
<1>1. Len(s) \in Nat /\ n \in Nat /\ h \in Nat /\ f + n = (IF h <= Len(s) THEN h ELSE Len(s))
  BY <1>0
<1>2. b \in Bytes8 /\ Len(b) = n /\ \A i \in 1 .. n : b[i] = s[f + i]
  <2>1. n = IF f + k <= Len(s) THEN k ELSE Len(s) - f
    OBVIOUS
  <2> HIDE DEF n
  <2>2. b \in Bytes8 /\ Len(b) = n /\ Copies(b, s, f, n)
    BY <2>1, PartIs
  <2> QED BY <2>2 DEF Copies
<1>3. a \in Bytes8 /\ Len(a) = f /\ \A i \in 1 .. f : a[i] = s[i]
  BY FrontIs
<1> HIDE DEF h
<1>4. c \in Bytes8 /\ Len(c) = f + n /\ \A i \in 1 .. f + n : c[i] = s[i]
  <2>1. c \in Bytes8 /\ Len(c) = (IF h <= Len(s) THEN h ELSE Len(s)) /\ \A i \in 1 .. Len(c) : c[i] = s[i]
    BY <1>1, FrontIs
  <2> HIDE DEF c, n
  <2> QED BY <1>1, <2>1
<1> HIDE DEF a, b, c, n
<1>5. /\ a \o b \in Bytes8 /\ Len(a \o b) = f + n
      /\ \A i \in 1 .. f : (a \o b)[i] = a[i]
      /\ \A i \in 1 .. n : (a \o b)[f + i] = b[i]
  BY <1>2, <1>3, JoinedBytes
<1>6. ASSUME NEW i \in 1 .. f + n PROVE (a \o b)[i] = c[i]
  <2>1. CASE i <= f
    <3>1. i \in 1 .. f
      BY <2>1
    <3> QED BY <1>3, <1>4, <1>5, <3>1
  <2>2. CASE ~(i <= f)
    <3>1. i - f \in 1 .. n /\ f + (i - f) = i
      BY <1>1, <2>2
    <3> DEFINE j == i - f
    <3>2. j \in 1 .. n /\ f + j = i
      BY <3>1
    <3> HIDE DEF j
    <3> QED BY <1>2, <1>4, <1>5, <3>2
  <2> QED BY <2>1, <2>2
<1>7. a \o b = c
  BY <1>4, <1>5, <1>6, SeqEqual DEF Bytes8
<1> QED BY <1>7 DEF a, b, c, h

\* Nothing is behind the last byte.
LEMMA AllOf ==
    ASSUME NEW s \in Bytes8, NEW k \in Nat, Len(s) <= k
    PROVE  Part(s, 1, k) = s
<1>1. Len(s) \in Nat
  BY JoinedBytes
<1>2. Part(s, 1, k) \in Bytes8 /\ Len(Part(s, 1, k)) = Len(s) /\ \A i \in 1 .. Len(s) : Part(s, 1, k)[i] = s[i]
  BY <1>1, FrontIs
<1> QED BY <1>2, SeqEqual DEF Bytes8

Behind(slots, d) == FlattenSeq([i \in 1 .. d - 1 |-> slots[i]])

\* What the first block has to hold, with what is behind it, and what is read.
HoldsFrame(b0, rest, meta, frame) ==
    /\ b0 \in Bytes8 /\ Extension(b0, meta, Len(frame)) /\ Len(b0) >= 9 + Len(meta.name)
    /\ From(b0, 9 + Len(meta.name)) \o rest = frame

Emitted(out, meta, frame) ==
    /\ out.ok /\ out.frame = frame /\ out.name = meta.name
    /\ out.width = meta.width /\ out.height = meta.height

LEMMA EmitIs ==
    ASSUME NEW slots, NEW d, NEW meta, meta.name \in Bytes8, NEW frame \in Bytes8,
           HoldsFrame(slots[0], Behind(slots, d), meta, frame)
    PROVE  Emitted(EmitFrame(slots, d), meta, frame)
<1> DEFINE b0 == slots[0]  rest == Behind(slots, d)  name == meta.name  n == Len(name)
<1>0. /\ b0 \in Bytes8 /\ Extension(b0, meta, Len(frame)) /\ Len(b0) >= 9 + n
      /\ From(b0, 9 + n) \o rest = frame /\ name \in Bytes8 /\ n \in Nat
      /\ name = meta.name /\ Len(name) = n /\ b0 = slots[0] /\ Behind(slots, d) = rest
  BY JoinedBytes DEF HoldsFrame
<1> HIDE DEF b0, rest, name, n
<1> DEFINE size == Len(frame)
           out == [ok |-> TRUE, width |-> R16(b0, 0), height |-> R16(b0, 2),
                   name |-> SubSeq(b0, 10, 9 + n), frame |-> SubSeq(frame, 1, size)]
<1>1. /\ R16(b0, 0) = meta.width /\ R16(b0, 2) = meta.height /\ R32(b0, 4) = size /\ b0[9] = n
      /\ \A i \in 1 .. n : b0[9 + i] = name[i]
  BY <1>0 DEF Extension
<1>2. size \in Nat /\ Len(b0) \in Nat /\ ~(Len(b0) < 9) /\ ~(Len(b0) < 9 + n) /\ ~(size < size)
  <2>1. Len(frame) \in Nat /\ Len(b0) \in Nat
    BY <1>0, JoinedBytes
  <2> QED BY <1>0, <2>1
<1>3. EmitFrame(slots, d) = IF Len(b0) < 9 \/ Len(b0) < 9 + n \/ size < size THEN Refused ELSE out
  BY <1>0, <1>1 DEF EmitFrame, Behind
<1>4. EmitFrame(slots, d) = out
  <2> HIDE DEF out, size
  <2> QED BY <1>2, <1>3
<1>5. SubSeq(b0, 10, 9 + n) = name
  <2> DEFINE f == 9  t == SubSeq(b0, f + 1, f + n)
  <2>1. f \in Nat /\ f + n <= Len(b0) /\ f + 1 = 10 /\ f = 9
    BY <1>0, <1>2
  <2>2. t \in Bytes8 /\ Len(t) = n /\ \A i \in 1 .. n : t[i] = b0[f + i]
    <3> HIDE DEF f
    <3> QED BY <1>0, <2>1, Slice DEF Bytes8
  <2>3. t = SubSeq(b0, 10, 9 + n)
    BY <2>1
  <2>4. \A i \in 1 .. n : t[i] = name[i]
    BY <1>1, <2>2
  <2> HIDE DEF t
  <2>5. t = name
    BY <1>0, <2>2, <2>4, SeqEqual DEF Bytes8
  <2> QED BY <2>3, <2>5
<1>6. SubSeq(frame, 1, size) = frame
  BY DEF Bytes8
<1>7. /\ out.ok /\ out.width = R16(b0, 0) /\ out.height = R16(b0, 2)
      /\ out.name = SubSeq(b0, 10, 9 + n) /\ out.frame = SubSeq(frame, 1, size)
  OBVIOUS
<1> HIDE DEF out, size
<1> QED BY <1>0, <1>1, <1>4, <1>5, <1>6, <1>7 DEF Emitted

LEMMA JoinedThrice ==
    ASSUME NEW s \in Bytes8, NEW t \in Bytes8, NEW u \in Bytes8
    PROVE  s \o (t \o u) = (s \o t) \o u
BY DEF Bytes8

\* The data packets' bodies, one after the other, are the frame.
LEMMA BodiesJoin ==
    ASSUME NEW meta, NEW frame, NEW mtu, Sendable(meta, frame, mtu), NEW slots,
           \A i \in 0 .. DataShards(meta, Len(frame), mtu) - 1 : slots[i] = Body(meta, frame, mtu, i)
    PROVE  LET d == DataShards(meta, Len(frame), mtu)
               rest == Behind(slots, d) IN
           rest \in Bytes8 /\ Part(frame, 1, FirstPayload(meta, mtu)) \o rest = frame
<1> DEFINE d == DataShards(meta, Len(frame), mtu)
           first == FirstPayload(meta, mtu)
           p == mtu - Base
           n == d - 1
           seqs == [i \in 1 .. d - 1 |-> slots[i]]
           start == Part(frame, 1, first)
<1>1. /\ d \in Nat /\ d >= 1 /\ first \in Nat /\ first > 0 /\ p \in Nat /\ p > 0
      /\ d = 1 => Len(frame) <= first
      /\ d > 1 => Len(frame) <= first + (d - 1) * p
  BY ShardsCover
<1>2. frame \in Bytes8 /\ Len(frame) \in Nat
  BY SendableIs
<1>3. ASSUME NEW i \in 1 .. n
      PROVE  LET f == first + (i - 1) * p IN
             /\ slots[i] = Part(frame, f + 1, f + p) /\ slots[i] \in Bytes8
             /\ f \in Nat /\ f <= Len(frame) /\ first + i * p = f + p
  <2>1. i \in Nat /\ i > 0 /\ i < d /\ i \in 0 .. d - 1
    <3> HIDE DEF d
    <3> QED BY <1>1 DEF n
  <2>2. slots[i] = Body(meta, frame, mtu, i)
    BY <2>1
  <2>3. /\ Body(meta, frame, mtu, i) = Part(frame, first + (i - 1) * p + 1, first + (i - 1) * p + p)
        /\ Body(meta, frame, mtu, i) \in Bytes8 /\ first + (i - 1) * p \in Nat
        /\ first + (i - 1) * p <= Len(frame) /\ first + i * p = first + (i - 1) * p + p
    BY <2>1, NextBody
  <2> QED BY <2>2, <2>3
<1> HIDE DEF d
<1>4. n \in Nat
  BY <1>1
<1>5. seqs \in Seq(Seq(Byte)) /\ Len(seqs) = n /\ \A i \in 1 .. n : seqs[i] = slots[i]
  <2>1. \A i \in 1 .. n : slots[i] \in Seq(Byte)
    BY <1>3 DEF Bytes8
  <2>2. seqs = [i \in 1 .. n |-> slots[i]]
    OBVIOUS
  <2> HIDE DEF n, seqs
  <2> QED BY <1>4, <2>1, <2>2
<1> HIDE DEF n, seqs
<1>6. PICK f \in [0 .. Len(seqs) -> Seq(Byte)] :
        /\ f[0] = <<>>
        /\ \A i \in 1 .. Len(seqs) : f[i] = f[i - 1] \o seqs[i]
        /\ FlattenSeq(seqs) = f[Len(seqs)]
  BY <1>5, FlattenSteps
<1>7. /\ \A i \in 0 .. n : f[i] \in Bytes8
      /\ f[0] = <<>> /\ \A i \in 1 .. n : f[i] = f[i - 1] \o slots[i]
      /\ FlattenSeq(seqs) = f[n]
  BY <1>5, <1>6 DEF Bytes8
<1> DEFINE G == {i \in 0 .. n : start \o f[i] = Part(frame, 1, first + i * p)}
<1>8. start \in Bytes8
  BY <1>1, <1>2, FrontIs
<1> HIDE DEF first, p
<1>9. 0 \in G
  <2>1. start \o <<>> = start
    <3> HIDE DEF start
    <3> QED BY <1>8 DEF Bytes8
  <2>2. first + 0 * p = first /\ 0 \in 0 .. n
    BY <1>1, <1>4
  <2> QED BY <1>7, <2>1, <2>2
<1>10. ASSUME NEW i \in 1 .. n, i - 1 \in G PROVE i \in G
  <2> DEFINE a == first + (i - 1) * p
  <2>1. /\ slots[i] = Part(frame, a + 1, a + p) /\ slots[i] \in Bytes8
        /\ a \in Nat /\ a <= Len(frame) /\ first + i * p = a + p
    BY <1>3
  <2>2. start \o f[i - 1] = Part(frame, 1, a) /\ i - 1 \in 0 .. n /\ i \in 0 .. n
    BY <1>4, <1>10
  <2>3. f[i] = f[i - 1] \o slots[i] /\ f[i - 1] \in Bytes8
    BY <1>7, <2>2
  <2> HIDE DEF a, start
  <2> DEFINE g == f[i - 1]  h == slots[i]
  <2>4. start \o (g \o h) = (start \o g) \o h
    <3>1. start \in Bytes8 /\ g \in Bytes8 /\ h \in Bytes8
      BY <1>8, <2>1, <2>3
    <3> HIDE DEF g, h, G
    <3> QED BY <3>1, JoinedThrice
  <2>5. Part(frame, 1, a) \o Part(frame, a + 1, a + p) = Part(frame, 1, a + p)
    BY <1>1, <1>2, <2>1, PartsJoin
  <2>6. start \o f[i] = Part(frame, 1, a + p)
    BY <2>1, <2>2, <2>3, <2>4, <2>5
  <2>7. first + i * p = a + p
    BY <2>1
  <2> QED BY <2>2, <2>6, <2>7
<1>11. n \in G
  <2>1. \A i \in 0 .. n : i \in G
    <3> HIDE DEF G
    <3> QED BY <1>4, <1>9, <1>10, Upward
  <2>2. n \in 0 .. n
    BY <1>4
  <2> QED BY <2>1, <2>2
<1>12. Part(frame, 1, first + n * p) = frame
  <2> DEFINE k == n * p
  <2>1. k \in Nat /\ (n = 0 => k = 0)
    BY <1>1, <1>4
  <2>2. Len(frame) <= first + k
    <3>1. d = 1 => n = 0
      BY DEF n
    <3>2. d > 1 => k = (d - 1) * p
      BY DEF n
    <3>3. d = 1 \/ d > 1
      BY <1>1
    <3> HIDE DEF k
    <3>4. CASE d = 1
      BY <1>1, <2>1, <3>1, <3>4
    <3>5. CASE d > 1
      BY <1>1, <3>2, <3>5
    <3> QED BY <3>3, <3>4, <3>5
  <2>3. first + k \in Nat
    BY <1>1, <2>1
  <2> HIDE DEF k
  <2>4. Part(frame, 1, first + k) = frame
    BY <1>2, <2>2, <2>3, AllOf
  <2> QED BY <2>4 DEF k
<1>13. start \o FlattenSeq(seqs) = frame /\ FlattenSeq(seqs) \in Bytes8
  <2>1. n \in 0 .. n
    BY <1>4
  <2> QED BY <1>7, <1>11, <1>12, <2>1
<1> QED BY <1>13 DEF start, seqs, first, d, Behind

(***************************************************************************)
(* Each of a frame's data packets is read as the packet it was made as,    *)
(* and the frame put together of what was read is the frame that was sent, *)
(* with its size on the screen and its monitor's name.  What               *)
(* ShardVideoFrame cuts, ParseVideoShard and EmitFrame make whole, for     *)
(* every frame, packet size and name that a packet has room for            *)
(* (gr_udp_protocol.h:131-160, 178-264, 737-790).                          *)
(***************************************************************************)
THEOREM FramesArrive ==
    ASSUME NEW meta, NEW frame, NEW mtu, Sendable(meta, frame, mtu), NEW p \in Word16
    PROVE  LET d == DataShards(meta, Len(frame), mtu)
               read == [i \in 0 .. d - 1 |-> ParseVideoShard(DataPacket(meta, frame, mtu, d, p, i))]
               out == EmitFrame([i \in 0 .. d - 1 |-> read[i].body], d)
           IN  /\ \A i \in 0 .. d - 1 :
                     /\ read[i].ok /\ read[i].idx = meta.idx /\ (read[i].key <=> meta.key)
                     /\ (read[i].sof <=> i = 0) /\ ~read[i].parity
                     /\ read[i].d = d /\ read[i].p = p /\ read[i].i = i
               /\ Emitted(out, meta, frame)
<1> DEFINE d == DataShards(meta, Len(frame), mtu)
           read == [i \in 0 .. d - 1 |-> ParseVideoShard(DataPacket(meta, frame, mtu, d, p, i))]
           slots == [i \in 0 .. d - 1 |-> read[i].body]
           out == EmitFrame(slots, d)
           rest == Behind(slots, d)
           b0 == Body(meta, frame, mtu, 0)
           n == Len(meta.name)
<1>1. d \in Nat /\ d >= 1
  BY ShardsCover
<1>2. ASSUME NEW i \in 0 .. d - 1
      PROVE  /\ read[i].ok /\ read[i].idx = meta.idx /\ (read[i].key <=> meta.key)
             /\ (read[i].sof <=> i = 0) /\ ~read[i].parity
             /\ read[i].d = d /\ read[i].p = p /\ read[i].i = i
             /\ read[i].body = Body(meta, frame, mtu, i)
  <2> DEFINE r == ParseVideoShard(DataPacket(meta, frame, mtu, d, p, i))
  <2>1. i \in Nat /\ i < d
    <3> HIDE DEF d
    <3> QED BY <1>1
  <2>2. /\ r.ok /\ r.idx = meta.idx /\ (r.key <=> meta.key) /\ (r.sof <=> i = 0) /\ ~r.parity
        /\ r.d = d /\ r.p = p /\ r.i = i /\ r.body = Body(meta, frame, mtu, i)
    BY <2>1, PacketIsRead
  <2>3. read[i] = r
    OBVIOUS
  <2> HIDE DEF r, read, d
  <2> QED BY <2>2, <2>3
<1> HIDE DEF read
<1>3. \A i \in 0 .. d - 1 : slots[i] = Body(meta, frame, mtu, i)
  BY <1>2
<1> HIDE DEF slots
<1>4. rest \in Bytes8 /\ Part(frame, 1, FirstPayload(meta, mtu)) \o rest = frame
  BY <1>3, BodiesJoin
<1>5. /\ b0 \in Bytes8 /\ Len(b0) >= 9 + n /\ Extension(b0, meta, Len(frame))
      /\ From(b0, 9 + n) = Part(frame, 1, FirstPayload(meta, mtu))
  BY FirstBody
<1>6. meta.name \in Bytes8 /\ frame \in Bytes8
  BY SendableIs
<1>7. slots[0] = b0
  <2>1. 0 \in 0 .. d - 1
    <3> HIDE DEF d
    <3> QED BY <1>1
  <2> QED BY <1>3, <2>1
<1>8. From(b0, 9 + n) \o rest = frame
  BY <1>4, <1>5
<1>9. HoldsFrame(slots[0], Behind(slots, d), meta, frame)
  BY <1>5, <1>7, <1>8 DEF HoldsFrame
<1>10. Emitted(out, meta, frame)
  BY <1>6, <1>9, EmitIs
<1> HIDE DEF out
<1> QED BY <1>2, <1>10 DEF out, slots, read, d
=============================================================================
