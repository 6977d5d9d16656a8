------------------------------- MODULE Crc32 -------------------------------
(***************************************************************************)
(* The checksum of util/crc32.js, over words of four bytes, the lowest     *)
(* first.  That the result is taken as unsigned (define_crc.js) makes no   *)
(* difference to its bytes.                                                *)
(***************************************************************************)
EXTENDS Integers, Sequences, Bitwise
LOCAL INSTANCE SequencesExt

ZeroWord == <<0, 0, 0, 0>>
Ones == <<255, 255, 255, 255>>
Undefined == <<>>

\* Of half a byte, of bytes and of words.
XOR == [a \in 0 .. 15, b \in 0 .. 15 |-> a ^^ b]
ByteXor(v, w) == 16 * XOR[v \div 16, w \div 16] + XOR[v % 16, w % 16]
Xor4(v, w) == <<ByteXor(v[1], w[1]), ByteXor(v[2], w[2]), ByteXor(v[3], w[3]), ByteXor(v[4], w[4])>>
Polynomial == <<32, 131, 184, 237>>

\* One division step by the polynomial.
HalfOf(w) == [n \in 1 .. 4 |-> (w[n] \div 2) + (IF n < 4 THEN 128 * (w[n + 1] % 2) ELSE 0)]
Divided(w) == IF w[1] % 2 = 1 THEN Xor4(HalfOf(w), Polynomial) ELSE HalfOf(w)
Divided8(w) == Divided(Divided(Divided(Divided(Divided(Divided(Divided(Divided(w))))))))

\* The table, which the code spells out.
TABLE == [byte \in 0 .. 255 |-> Divided8(<<byte, 0, 0, 0>>)]

\* One byte of the buffer.
Index(crc, byte) == ByteXor(crc[1], byte)
Step(crc, byte) == Xor4(TABLE[Index(crc, byte)], <<crc[2], crc[3], crc[4], 0>>)

\* A previous checksum that is 0 is not inverted; one that is undefined counts as 0 and is.
StartAtZero(previous) == IF previous \in {ZeroWord, Undefined} THEN ZeroWord ELSE Xor4(previous, Ones)
Start(previous) ==
    IF previous = ZeroWord THEN ZeroWord
    ELSE IF previous = Undefined THEN Ones ELSE Xor4(previous, Ones)

Crc32(bytes, previous) == Xor4(FoldLeft(Step, Start(previous), bytes), Ones)

-----------------------------------------------------------------------------
(* What CRC-32 is: the remainder of the message, taken bit by bit.         *)

BitOf(bytes, n) == (bytes[(n \div 8) + 1] \div (2 ^ (n % 8))) % 2
Shifted(w, bit) == IF w[1] % 2 # bit THEN Xor4(HalfOf(w), Polynomial) ELSE HalfOf(w)
Remainder(bytes) ==
    LET after[n \in 0 .. 8 * Len(bytes)] ==
            IF n = 0 THEN Ones ELSE Shifted(after[n - 1], BitOf(bytes, n - 1))
    IN  Xor4(after[8 * Len(bytes)], Ones)
=============================================================================
