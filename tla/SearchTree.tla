----------------------------- MODULE SearchTree -----------------------------
(***************************************************************************)
(* The binary search tree of a MaxMind DB and the lookups the Reader makes *)
(* in it (reader.go, result.go).  Node records are taken as decoded; their *)
(* byte layouts are the subject of NodeRecord.  Addresses are scaled down: *)
(* Bits stands for the 128 bits of an IPv6 address, V4Bits for the 32 of   *)
(* an IPv4 address, Separator for the 16 bytes between tree and data.      *)
(*                                                                         *)
(* A reader is a record: version 4 or 6; node, from a node number to its   *)
(* left and right record; dataSectionSize; value, from a data offset to    *)
(* what is stored there; and the two fields setIPv4Start fills.            *)
(***************************************************************************)
EXTENDS Integers, FiniteSetsExt

CONSTANTS Bits, V4Bits, Separator

ASSUME BitsAssumption == /\ Bits \in Nat /\ V4Bits \in Nat
                         /\ 0 < V4Bits /\ V4Bits < Bits
                         /\ Separator \in Nat \ {0}

V4Depth == Bits - V4Bits                        \* 96

-----------------------------------------------------------------------------
(* Addresses: is4, and the value of the V4Bits or Bits bits.                *)
IPv4(a) == [is4 |-> TRUE, a |-> a]
IPv6(a) == [is4 |-> FALSE, a |-> a]
Addresses == {IPv4(a) : a \in 0 .. 2^V4Bits - 1} \cup {IPv6(a) : a \in 0 .. 2^Bits - 1}

Width(ip) == IF ip.is4 THEN V4Bits ELSE Bits
v4ToV16(ip) == IPv6(ip.a)
As16(ip) == IF ip.is4 THEN v4ToV16(ip) ELSE ip

\* ip.Prefix(n).Addr(): the first n bits of ip.
Masked(ip, n) == [ip EXCEPT !.a = ip.a - (ip.a % 2^(Width(ip) - n))]

Bit(a, width, i) == (a \div 2^(width - 1 - i)) % 2

isInIPv4Subtree(ip) == ip.is4 \/ ip.a < 2^V4Bits
v6ToV4(ip) == IPv4(ip.a % 2^V4Bits)
mappedIP(ip) == IF isInIPv4Subtree(ip) THEN v6ToV4(ip) ELSE ip

-----------------------------------------------------------------------------
NodeCount(r) == Cardinality(DOMAIN r.node)

\* The loop of traverseTree: from node, at most n steps down, the k-th by the
\* k-th bit from position i of the address; where it stops and after how many.
Descend(r, node, a, width, i, n) ==
    LET walk[k \in 0 .. Bits] ==
            IF k = 0 THEN [node |-> node, steps |-> 0]
            ELSE LET w == walk[k - 1] IN
                 IF w.steps < n /\ w.node < NodeCount(r)
                 THEN [node |-> r.node[w.node][1 + Bit(a, width, i + w.steps)],
                       steps |-> w.steps + 1]
                 ELSE w
    IN walk[Bits]

\* The node or record reached after at most stopBit bits, and the bits consumed.
\* IPv4 addresses start at the IPv4 subtree.
traverseTree(r, ip, stopBit) ==
    IF ~ip.is4
    THEN LET w == Descend(r, 0, ip.a, Bits, 0, stopBit) IN <<w.node, w.steps>>
    ELSE LET i == r.ipv4StartBitDepth
             w == Descend(r, r.ipv4Start, ip.a, V4Bits, 0, Min({stopBit - i, V4Bits}))
         IN IF stopBit <= i THEN <<r.ipv4Start, i>> ELSE <<w.node, i + w.steps>>

\* Fill in where the IPv4 subtree starts, as OpenBytes does last.
setIPv4Start(r) ==
    LET t == IF r.version = 6 THEN traverseTree(r, IPv6(0), V4Depth) ELSE <<0, V4Depth>>
    IN [r EXCEPT !.ipv4Start = t[1], !.ipv4StartBitDepth = t[2]]

hasIPv4Subtree(r) == r.version = 4 \/ r.ipv4Start < NodeCount(r)

\* The offset of a data record, or -1 for a pointer outside the data section.
resolveDataPointer(r, pointer) ==
    LET minPointer == NodeCount(r) + Separator
        resolved == pointer - minPointer
    IN IF pointer < minPointer \/ resolved >= r.dataSectionSize THEN -1 ELSE resolved

-----------------------------------------------------------------------------
(* Results: kind "data", "empty" (not found) or "err"; withReader says      *)
(* whether the Result refers to its Reader.                                 *)
Result(kind, ip, prefixLen, offset, withReader) ==
    [kind |-> kind, ip |-> ip, prefixLen |-> prefixLen, offset |-> offset,
     withReader |-> withReader]

Lookup(r, ip) ==
    LET t == traverseTree(r, ip, Bits)
        offset == resolveDataPointer(r, t[1])
    IN CASE r.version = 4 /\ ~ip.is4  -> Result("err", ip, 0, -1, FALSE)
         [] t[1] < NodeCount(r)       -> Result("err", ip, t[2], -1, FALSE)
         [] t[1] = NodeCount(r)       -> Result("empty", ip, t[2], -1, FALSE)
         [] OTHER -> Result(IF offset < 0 THEN "err" ELSE "data", ip, t[2], offset, TRUE)

\* Where the bits of an IPv4 result start to count.
ipv4Origin(r, res) ==
    IF res.withReader /\ hasIPv4Subtree(r) THEN r.ipv4StartBitDepth ELSE V4Depth

\* Result.Prefix: the network a result belongs to, as the range of addresses of
\* the whole (IPv6) address space it stands for.
Prefix(r, res) ==
    LET v4len == res.prefixLen - ipv4Origin(r, res)
        p == CASE ~res.ip.is4 -> <<Masked(res.ip, res.prefixLen), res.prefixLen>>
               [] res.ip.is4 /\ v4len < 0 -> <<IPv6(0), res.prefixLen>>
               [] OTHER -> <<v4ToV16(Masked(res.ip, v4len)), V4Depth + v4len>>
    IN p[1].a .. p[1].a + 2^(Bits - p[2]) - 1

-----------------------------------------------------------------------------
(* Reference: a well-formed tree, without addresses and their bits.          *)

Children(r, records) ==
    UNION {{r.node[n][1], r.node[n][2]} : n \in records \cap DOMAIN r.node}

\* The records k steps below record p, left or right at each step.
Below(r, p, k) ==
    LET at[j \in Nat] == IF j = 0 THEN {p} ELSE Children(r, at[j - 1])
    IN at[k]

\* How many bits the addresses of the tree have.
AddressBits(r) == IF r.version = 4 THEN V4Bits ELSE Bits

\* Every way down from the root ends, within the bits of an address, in an empty
\* record or in a pointer to the data section.
TreeSound(r) ==
    \A k \in 0 .. AddressBits(r) : \A p \in Below(r, 0, k) :
        \/ p < NodeCount(r) /\ k < AddressBits(r)
        \/ p = NodeCount(r)
        \/ p > NodeCount(r) /\ resolveDataPointer(r, p) >= 0
=============================================================================
