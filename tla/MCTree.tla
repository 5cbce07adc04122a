------------------------------- MODULE MCTree -------------------------------
(* Databases and queries for VerifiedIteration.  Addresses have four bits,    *)
(* the last three of them IPv4.  With a separator of two, in a tree of n      *)
(* nodes the record n is empty, n + 1 points into the separator, and n + 2 to *)
(* the first unit of the data section.                                        *)
EXTENDS VerifiedIteration, TLC

Samples == INSTANCE MCNetworks WITH Databases <- {}, Prefixes <- {}, Options <- {}

\* What the iteration's databases lack: where their values end, and good metadata.
Complete(d) ==
    d @@ [end |-> [o \in DOMAIN d.value |-> IF d.value[o] = "corrupt" THEN -1 ELSE o + 1],
          metadataOK |-> TRUE, separatorOK |-> TRUE]

\* A tree of the given nodes over a data section whose values have the given ends.
Tree(version, ns, ends) ==
    [version |-> version, node |-> [i \in 0 .. Len(ns) - 1 |-> ns[i + 1]],
     dataSectionSize |-> Cardinality(DOMAIN ends),
     value |-> [o \in DOMAIN ends |-> IF ends[o] < 0 THEN "corrupt" ELSE "full"],
     end |-> ends, metadataOK |-> TRUE, separatorOK |-> TRUE,
     ipv4Start |-> 0, ipv4StartBitDepth |-> 0]
OneValue == [o \in {0} |-> 1]

\* Every tree of two nodes over one good value, cycles and stray pointers included.
SmallTrees ==
    {Tree(v, <<f, g>>, OneValue) : v \in {4, 6}, f \in {1, 4} \X (0 .. 5), g \in (0 .. 4) \X {0, 1, 4}}

\* Trees of four nodes in which subtrees are shared at different depths, some with
\* cycles: heights pass the address width where no single way down is too long.
SharedTrees ==
    {Tree(v, <<f, g, h, <<l, 6>>>>, OneValue) :
        v \in {4, 6}, f \in (1 .. 3) \X {1, 3, 4}, g \in {2, 3, 6} \X {1, 2, 4},
        h \in {1, 3, 4} \X {3, 6}, l \in {1, 4}}

\* Trees of five nodes in which a tall subtree is met again further down.
TallTrees ==
    {Tree(v, <<<<1, 4>>, <<2, l>>, <<3, 5>>, f, <<1, 7>>>>, OneValue) :
        v \in {4, 6}, l \in {5, 7}, f \in {1, 2, 5} \X {1, 2, 7}}

\* Data sections of three units with values of any extent, under trees that point
\* to any two of their offsets.
DataSections ==
    {Tree(6, <<<<left, right>>>>, ends) :
        left \in {1, 3, 4, 5}, right \in {1, 3, 4, 5}, ends \in [0 .. 2 -> {-1, 1, 2, 3, 4}]}

Spoilt ==
    LET d == Tree(6, <<<<1, 3>>>>, OneValue)
    IN {[d EXCEPT !.metadataOK = FALSE], [d EXCEPT !.separatorOK = FALSE]}

MCDatabases ==
    {Complete(d) : d \in Samples!Layered \cup Samples!Arbitrary}
        \cup SmallTrees \cup SharedTrees \cup TallTrees \cup DataSections \cup Spoilt

\* Every query of the databases made for iteration, the whole of the others.
MCQueries(d) ==
    IF d.dataSectionSize = 2 THEN Samples!EdgePrefixes \X Samples!MCOptions
    ELSE LET all == [ip |-> IF d.version = 6 THEN IPv6(0) ELSE IPv4(0), bits |-> 0]
         IN {<<all, {"aliased", "empty"}>>, <<all, {}>>}
=============================================================================
