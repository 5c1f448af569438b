------------------------------- MODULE Base64 -------------------------------
(***************************************************************************)
(* tc::Base64 (base64.cpp) over cereal::base64 (base64_impl.hpp).  A       *)
(* character of the encoded text is its place in the table chars, PadChar  *)
(* for '=', or a character that is not of the alphabet.                    *)
(***************************************************************************)
EXTENDS Integers, Sequences, SequencesExt

PadChar == 64
ForeignChar == 65
IsBase64(c) == c < PadChar

\* The four table indexes of three bytes, and back.
Sextets(a) ==
    <<a[1] \div 4, (a[1] % 4) * 16 + a[2] \div 16,
      (a[2] % 16) * 4 + a[3] \div 64, a[3] % 64>>

Octets(q) ==
    <<(q[1] * 4 + ((q[2] \div 16) % 4)) % 256,
      ((q[2] % 16) * 16 + ((q[3] \div 4) % 16)) % 256,
      ((q[3] % 4) * 64 + q[4]) % 256>>

Group(s, size, g) == SubSeq(s, (g - 1) * size + 1, g * size)
LeftOver(s, size) == SubSeq(s, (Len(s) \div size) * size + 1, Len(s))
AllGroups(s, size) == [g \in 1 .. Len(s) \div size |-> Group(s, size, g)]
Filled(t, size) == [k \in 1 .. size |-> IF k <= Len(t) THEN t[k] ELSE 0]

\* encode: whole groups of three, then i bytes left over, filled with zeros.
Base64Encode(bytes) ==
    LET whole == AllGroups(bytes, 3)
        left == LeftOver(bytes, 3)
    IN  FlattenSeq([g \in DOMAIN whole |-> Sextets(whole[g])])
        \o (IF left = <<>> THEN <<>>
            ELSE SubSeq(Sextets(Filled(left, 3)), 1, Len(left) + 1)
                 \o [k \in 1 .. 3 - Len(left) |-> PadChar])

\* decode: the text up to the first character that is not of the alphabet; in
\* the last group the missing characters are looked up as '\0', which find does
\* not know: the low byte of npos, 255.
Base64Decode(text) ==
    LET stop == SelectInSeq(text, LAMBDA c : ~IsBase64(c))
        good == IF stop = 0 THEN text ELSE SubSeq(text, 1, stop - 1)
        whole == AllGroups(good, 4)
        left == LeftOver(good, 4)
        last == [k \in 1 .. 4 |-> IF k <= Len(left) THEN left[k] ELSE 255]
    IN  FlattenSeq([g \in DOMAIN whole |-> Octets(whole[g])])
        \o SubSeq(Octets(last), 1, Len(left) - 1)
=============================================================================
