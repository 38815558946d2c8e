---------------------------- MODULE Fh4Encoding ----------------------------
(***************************************************************************)
(* The numbers of an FH4 table (x64/fh4.cpp, read_unsigned).  The low bits *)
(* of a number's first byte tell its length: 0 one byte, 01 two, 011       *)
(* three, 0111 four, 1111 five.  The code loads the four bytes that end    *)
(* where the number ends, so a short number comes with bytes of whatever   *)
(* precedes it, and shifts the bits that are not its own out of the word.  *)
(*                                                                         *)
(* A table is a sequence of bytes; a position counts the bytes before.     *)
(***************************************************************************)
EXTENDS Integers, Sequences

Byte == 0..255

Lengths == <<1, 2, 1, 3, 1, 2, 1, 4, 1, 2, 1, 3, 1, 2, 1, 5>>
Shifts == <<25, 18, 25, 11, 25, 18, 25, 4, 25, 18, 25, 11, 25, 18, 25, 0>>

EncType(bytes, p) == bytes[p + 1] % 16
Length(bytes, p) == Lengths[EncType(bytes, p) + 1]
Shift(bytes, p) == Shifts[EncType(bytes, p) + 1]

\* The word of bytes b0 (the lowest) to b3, shifted right by n bits.
ShiftedRight(b0, b1, b2, b3, n) ==
    IF n = 25 THEN b3 \div 2
    ELSE IF n = 18 THEN (b2 + 256 * b3) \div 4
    ELSE IF n = 11 THEN (b1 + 256 * b2 + 65536 * b3) \div 8
    ELSE IF n = 4 THEN (b0 + 256 * b1 + 65536 * b2) \div 16 + 1048576 * b3
    ELSE b0 + 256 * b1 + 65536 * b2 + 16777216 * b3

\* The word of the four bytes before position q.
LoadBefore(bytes, q, n) ==
    ShiftedRight(bytes[q - 3], bytes[q - 2], bytes[q - 1], bytes[q], n)

ReadUnsigned(bytes, p) == LoadBefore(bytes, p + Length(bytes, p), Shift(bytes, p))

\* Where the next datum is.
AfterUnsigned(bytes, p) == p + Length(bytes, p)

----------------------------------------------------------------------------
\* The sequence s stands in the table at position p.
HasAt(bytes, p, s) == \A k \in 1..Len(s) : bytes[p + k] = s[k]

\* What the compiler writes for n.
Encoded(n) ==
    IF n < 128 THEN <<2 * n>>
    ELSE IF n < 16384 THEN <<4 * (n % 64) + 1, n \div 64>>
    ELSE IF n < 2097152 THEN <<8 * (n % 32) + 3, (n \div 32) % 256, n \div 8192>>
    ELSE IF n < 268435456
         THEN <<16 * (n % 16) + 7, (n \div 16) % 256, (n \div 4096) % 256, n \div 1048576>>
    ELSE <<15, n % 256, (n \div 256) % 256, (n \div 65536) % 256, n \div 16777216>>

=============================================================================
