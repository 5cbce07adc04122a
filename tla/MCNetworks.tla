----------------------------- MODULE MCNetworks -----------------------------
(* Databases and queries for Networks: the IPv4 subtree hangs at depth one of *)
(* an IPv6 tree.                                                              *)
EXTENDS Networks

\* A tree of n nodes whose records are taken from recs, over data records with
\* the given values; setIPv4Start fills in the last two fields.
Reader(version, f, value) ==
    [version |-> version, node |-> f, dataSectionSize |-> Cardinality(DOMAIN value),
     value |-> value, ipv4Start |-> 0, ipv4StartBitDepth |-> 0]

Values == [o \in 0 .. 1 |-> IF o = 0 THEN "full" ELSE "empty"]
CorruptValues == [o \in 0 .. 1 |-> IF o = 0 THEN "full" ELSE "corrupt"]

\* Leaves of a tree with n nodes: nothing, and the two data records.
Leaves(n) == {n, n + Separator, n + Separator + 1}

\* Acyclic trees of three nodes with an IPv4 subtree, shared or not.
Layered ==
    {Reader(6, [i \in 0 .. 2 |-> <<<<1, right>>, f, g>>[i + 1]], Values) :
        right \in {1, 2, 3, 5},
        f \in ({2} \cup Leaves(3)) \X ({2} \cup Leaves(3)),
        g \in {<<3, 5>>, <<5, 5>>, <<5, 6>>, <<6, 3>>}}

\* Any records at all in two nodes: cycles, pointers into the separator and past
\* the data, no IPv4 subtree.
Arbitrary ==
    {Reader(v, [i \in 0 .. 1 |-> <<f, g>>[i + 1]], CorruptValues) :
        v \in {4, 6}, f \in {0, 1, 5} \X {0, 1, 2, 4, 6}, g \in {0, 1, 2, 5} \X {0, 3, 4}}

\* Every IPv6 tree of two nodes without cycles and without bad pointers.
Sound ==
    {Reader(6, [i \in 0 .. 1 |-> <<f, g>>[i + 1]], Values) :
        f \in ({1} \cup Leaves(2)) \X ({1} \cup Leaves(2)), g \in Leaves(2) \X Leaves(2)}

PrefixesOf(is4, width) ==
    {[ip |-> [is4 |-> is4, a |-> n * 2^(width - b)], bits |-> b] :
        <<n, b>> \in {p \in (0 .. 2^width - 1) \X (0 .. width) : p[1] < 2^p[2]}}

AllPrefixes == PrefixesOf(TRUE, V4Bits) \cup PrefixesOf(FALSE, Bits)
\* The first two and the last prefix of each length, and the zero netip.Prefix.
EdgePrefixes ==
    {p \in AllPrefixes :
        p.ip.a \div 2^(Width(p.ip) - p.bits) \in {0, 1, 2^p.bits - 1}}
    \cup {[ip |-> IPv6(0), bits |-> -1]}

DefaultOptions == {{}}
MCOptions == {{}, {"aliased", "empty"}, {"skip"}}
=============================================================================
