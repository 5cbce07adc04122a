----------------------------- MODULE NodeRecord -----------------------------
(***************************************************************************)
(* The bytes of a search tree node (reader.go): what the format lays down  *)
(* for two records of 24, 28 or 32 bits, and the two ways the Reader takes *)
(* them apart, as a pair (iteration, verification) and one half at a time  *)
(* (lookups).  A byte has ByteBits bits here, so the three record widths   *)
(* are 3, 3.5 and 4 bytes.                                                 *)
(***************************************************************************)
EXTENDS Integers

CONSTANT ByteBits     \* 8 in a build; an even number

Byte == 2^ByteBits
Nibble == 2^(ByteBits \div 2)

\* Byte i of a number of n bytes, most significant first; and n bytes from b on
\* as a number.
ByteOf(v, n, i) == (v \div Byte^(n - 1 - i)) % Byte
BigEndian(b, from, n) ==
    LET sum[k \in 0 .. n] == IF k = 0 THEN 0 ELSE sum[k - 1] * Byte + b[from + k - 1]
    IN sum[n]

\* The format: 28-bit records keep their top nibbles in the fourth byte.
Layout24(l, q) == [i \in 0 .. 5 |-> IF i < 3 THEN ByteOf(l, 3, i) ELSE ByteOf(q, 3, i - 3)]
Layout32(l, q) == [i \in 0 .. 7 |-> IF i < 4 THEN ByteOf(l, 4, i) ELSE ByteOf(q, 4, i - 4)]
Layout28(l, q) ==
    [i \in 0 .. 6 |-> CASE i < 3 -> ByteOf(l, 3, i)
                        [] i = 3 -> (l \div Byte^3) * Nibble + q \div Byte^3
                        [] OTHER -> ByteOf(q, 3, i - 4)]
WrittenNode(s, l, q) ==
    CASE s = 24 -> Layout24(l, q) [] s = 28 -> Layout28(l, q) [] OTHER -> Layout32(l, q)

\* readNodePairBySize: left and right record of the node.
Pair(s, b) ==
    CASE s = 24 -> <<BigEndian(b, 0, 3), BigEndian(b, 3, 3)>>
      [] s = 28 -> <<(b[3] \div Nibble) * Byte^3 + BigEndian(b, 0, 3),
                     (b[3] % Nibble) * Byte^3 + BigEndian(b, 4, 3)>>
      [] OTHER  -> <<BigEndian(b, 0, 4), BigEndian(b, 4, 4)>>

\* readNode28: the four-byte load of one half starts or ends in the shared byte and
\* is shifted and masked as a 32-bit word.
readNode28(b, bit) ==
    LET word == BigEndian(b, 0, 4)
        low  == IF bit = 0 THEN word \div Byte ELSE word
        top  == IF bit = 0 THEN (word * Byte^3) \div Nibble ELSE word
    IN (low % Byte^3) + ((top \div Byte^3) % Nibble) * Byte^3

\* The record that a step of traverseTree24, 28 or 32 gets from the bytes it loads.
Half(s, b, bit) ==
    CASE s = 24 -> BigEndian(b, 0, 3)
      [] s = 28 -> readNode28(b, bit)
      [] OTHER  -> BigEndian(b, 0, 4)
=============================================================================
