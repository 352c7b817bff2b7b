-------------------------------- MODULE Varint --------------------------------
(***************************************************************************)
(* The variable-length integers of nanopb, as the boards compile it.       *)
(*                                                                         *)
(* In the code a byte carries groups of 7 bits, the two integer types have *)
(* 32 and 64 bits.  Here all three widths are constants, so that TLC can   *)
(* try short byte strings and the proofs hold for the widths of the code;  *)
(* the fifth and the tenth byte, which carry the bits that are left over,  *)
(* are the byte at LastPos of their type.                                  *)
(*                                                                         *)
(* A loop over the bytes is written as what it has computed after each of  *)
(* them: byte i of a varint is read or written when bitpos is BitPos(i).   *)
(***************************************************************************)
EXTENDS Integers, Sequences

CONSTANTS
    GroupBits,  \* the bits of a value that a byte carries (7)
    Bits32,     \* the bits of a uint32_t (32)
    Bits64      \* the bits of a uint64_t (64)

\* 1 << n
Pow2[n \in Nat] == IF n = 0 THEN 1 ELSE 2 * Pow2[n - 1]

Group == Pow2[GroupBits]
Byte == 0 .. 2 * Group - 1
Max32 == Pow2[Bits32]
Max64 == Pow2[Bits64]

More(b) == b >= Group           \* byte & 0x80
Payload(b) == b % Group         \* byte & 0x7F
Continued(b) == b + Group       \* byte |= 0x80

BitPos(i) == GroupBits * (i - 1)
\* The position of the first bit of the last byte: 28 and 63 in the code.
LastPos(bits) == bits - (bits % GroupBits)

\* Both types end inside a byte, and the last byte of the longer one carries
\* none of the bits of the shorter one.
ASSUME WidthAssumption ==
    /\ {GroupBits, Bits32, Bits64} \subseteq Nat \ {0}
    /\ GroupBits < Bits32 /\ Bits32 <= LastPos(Bits64)
    /\ Bits32 % GroupBits # 0 /\ Bits64 % GroupBits # 0

\* A read from a stream: what is left of it, and the value.
Failed == [ok |-> FALSE]
Got(value, rest) == [ok |-> TRUE, value |-> value, rest |-> rest]
After(in, n) == SubSeq(in, n + 1, Len(in))

Shorter(a, b) == IF a < b THEN a ELSE b

-----------------------------------------------------------------------------
(* Writing                                                                 *)

Digit(value, i) == (value \div Pow2[BitPos(i)]) % Group
\* All bytes of a varint but the last are continued.
Linked(groups) ==
    [i \in DOMAIN groups |->
        IF i < Len(groups) THEN Continued(groups[i]) ELSE groups[i]]

\* Without 64-bit shifts, the value in two words: the lowest bits of the high
\* word fill the byte that the low word left.  The loops end when nothing is
\* left of both.
pb_encode_varint_32(low, high) ==
    LET full == Bits32 \div GroupBits
        left == Bits32 % GroupBits
        fill == Pow2[GroupBits - left]
        byte(i) ==
            CASE i <= full     -> Digit(low, i)
              [] i = full + 1  -> Digit(low, i) + (high % fill) * Pow2[left]
              [] i > full + 1  -> Digit(high \div fill, i - (full + 1))
        done(n) ==
            IF n <= full THEN low \div Pow2[GroupBits * n] = 0 /\ high = 0
            ELSE (high \div fill) \div Pow2[GroupBits * (n - (full + 1))] = 0
        size == CHOOSE n \in 1 .. Bits64 : done(n) /\ \A m \in 1 .. n - 1 : ~done(m)
    IN  Linked([i \in 1 .. size |-> byte(i)])

\* The parameter is a uint64_t, to which any other integer is converted.
pb_encode_varint(number) ==
    LET value == number % Max64
    IN  IF value < Group THEN <<value>>
        ELSE pb_encode_varint_32(value % Max32, value \div Max32)

-----------------------------------------------------------------------------
(* Reading                                                                 *)

\* The number of bytes of the varint at the start, 0 if it does not end.
End(in) ==
    IF \A i \in 1 .. Len(in) : More(in[i]) THEN 0
    ELSE CHOOSE n \in 1 .. Len(in) : ~More(in[n]) /\ \A i \in 1 .. n - 1 : More(in[i])

\* result after each of the bytes: result |= (byte & 0x7F) << bitpos
Results(in) ==
    LET result[i \in 0 .. Len(in)] ==
            IF i = 0 THEN 0 ELSE result[i - 1] + Payload(in[i]) * Pow2[BitPos(i)]
    IN  result

\* The bits of a byte that a uint64_t has no room for.
Overflows(byte, bitpos) ==
    bitpos >= LastPos(Bits64) /\ byte \div Pow2[Bits64 % GroupBits] # 0

pb_decode_varint(in) ==
    LET n == End(in)
    IN  IF n = 0 \/ \E i \in 1 .. n : Overflows(in[i], BitPos(i)) THEN Failed
        ELSE Got(Results(in)[n], After(in, n))

\* Mutant of ValidExtension: only zeros may follow.
ZeroExtension(byte, bitpos, result) ==
    /\ bitpos < Bits64
    /\ Payload(byte) = 0
\* The bytes after a uint32_t are zeros, or the sign of a negative number.
ValidExtension(byte, bitpos, result) ==
    LET sign == IF bitpos < LastPos(Bits64) THEN 2 * Group - 1 ELSE Pow2[Bits64 % GroupBits] - 1
    IN  /\ bitpos < Bits64
        /\ Payload(byte) = 0 \/ (result >= Pow2[Bits32 - 1] /\ byte = sign)

\* The byte with the last bits: the rest of it is zero, or repeats the sign.
ValidLastByte(byte) ==
    LET left == Bits32 % GroupBits
    IN  \/ Payload(byte) \div Pow2[left] = 0
        \/ Payload(byte) \div Pow2[left - 1] = Pow2[GroupBits - left + 1] - 1

\* (The quick case of a single byte is the general one.)
pb_decode_varint32(in) ==
    LET n == End(in)
        result(i) == Results(in)[Shorter(i, Bits32 \div GroupBits + 1)] % Max32
        valid(i) ==
            /\ BitPos(i) >= Bits32 => ValidExtension(in[i], BitPos(i), result(i - 1))
            /\ BitPos(i) = LastPos(Bits32) => ValidLastByte(in[i])
    IN  IF n = 0 \/ \E i \in 1 .. n : ~valid(i) THEN Failed
        ELSE Got(result(n), After(in, n))

=============================================================================
