------------------------------ MODULE MCLayout ------------------------------
(* Layout with words of eight bits, every node count a word can hold and the  *)
(* record sizes around the supported ones.  Bytes have four bits.             *)
EXTENDS Layout

MCNodeCounts == 0 .. 255
MCRecordSizes == {0, 3, 4, 24, 27, 28, 32}
MCLengths == {0, 7, 8, 15, 16, 22, 23, 24, 25, 40, 64, 72, 120}

\* Records of 12, 14 and 16 bits: over the nodes of the longest tree any two bits of
\* a node differ somewhere, so no bit can pass for another.
Width(s) == CASE s = 24 -> 12 [] s = 28 -> 14 [] OTHER -> 16
MCStored(s, n) == <<((n + 1) * 2741) % 2^Width(s), ((n + 3) * 43691) % 2^Width(s)>>
=============================================================================
