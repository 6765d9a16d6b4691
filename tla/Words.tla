------------------------------- MODULE Words -------------------------------
(***************************************************************************)
(* The words of the MIPS machine that the two interpreters of the          *)
(* repository share: a byte has ByteBits bits and a word four bytes (the   *)
(* real machine has ByteBits = 8).  A word is the natural number of its    *)
(* bits; Signed reads it as the C type int.                                *)
(***************************************************************************)
EXTENDS Integers, Bitwise
LOCAL INSTANCE FiniteSetsExt

CONSTANT ByteBits

WordBits == 4 * ByteBits
Radix == 2 ^ WordBits
Word == 0 .. Radix - 1
Byte == 0 .. 2 ^ ByteBits - 1
SignBit == Radix \div 2

Wrap(x) == x % Radix
Negative(w) == w >= SignBit
Signed(w) == IF Negative(w) THEN w - Radix ELSE w
Complement(w) == Radix - 1 - w

\* The value of the low n bits v read as a signed number.
SignExtend(v, n) == IF v >= 2 ^ (n - 1) THEN v - 2 ^ n ELSE v

\* The shifts of C, on int (Sar) and on unsigned (Shr).
Shl(w, n) == Wrap(w * 2 ^ n)
Shr(w, n) == w \div 2 ^ n
Sar(w, n) == Wrap(Signed(w) \div 2 ^ n)

\* The quotient and the remainder of C, which round towards zero.
Abs(x) == IF x < 0 THEN -x ELSE x
Quotient(a, b) == LET q == Abs(a) \div Abs(b) IN IF (a < 0) = (b < 0) THEN q ELSE -q
Remainder(a, b) == a - b * Quotient(a, b)

\* size bytes at addr, least significant first.
Fetch(mem, addr, size) ==
  MapThenSumSet(LAMBDA k : mem[addr + k] * 2 ^ (ByteBits * k), 0 .. size - 1)

Store(mem, addr, size, value) ==
  [a \in DOMAIN mem |-> IF a \in addr .. addr + size - 1
                        THEN (value \div 2 ^ (ByteBits * (a - addr))) % 2 ^ ByteBits
                        ELSE mem[a]]
=============================================================================
