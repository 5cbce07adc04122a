------------------------------- MODULE Layout -------------------------------
(***************************************************************************)
(* Where OpenBytes puts the search tree and the data section of a file,    *)
(* and every access to node bytes that relies on it (reader.go,            *)
(* traverse.go, verifier.go).  All of it is unsigned arithmetic on machine *)
(* words, so it wraps: uint is WordBits wide here.  Metadata may hold any  *)
(* number; the nodes hold the records of the function Stored.              *)
(***************************************************************************)
EXTENDS NodeRecord

CONSTANTS
    WordBits,        \* 64 or 32 in a build, 8 here
    SeparatorSize,   \* dataSectionSeparatorSize, 16
    NodeCounts,      \* values of the node_count field
    RecordSizes,     \* values of the record_size field
    Lengths,         \* offsets at which the metadata marker is found
    Stored(_, _),    \* Stored(s, n): the left and right record of node n, of size s
    TailSize         \* length of the marker and the metadata behind it

VARIABLES
    nodeCount, recordSize, version,    \* reader.Metadata
    dataEnd,         \* dataSectionEnd: where the last metadata marker starts
    dataStart,       \* dataSectionStart, as computed
    state,           \* "file", "open", or "rejected" by OpenBytes
    access           \* the last access to node bytes: [node, bit, lo, hi, got], or None

vars == <<nodeCount, recordSize, version, dataEnd, dataStart, state, access>>

Word == 2^WordBits
MaxWord == Word - 1                              \* ^uint(0)
None == [node |-> -1]
Both == 2                                        \* both halves of a node

bufferLen == dataEnd + TailSize

Init ==
    /\ nodeCount \in NodeCounts /\ recordSize \in RecordSizes /\ version \in {4, 6}
    /\ dataEnd \in Lengths
    /\ dataStart = 0 /\ state = "file" /\ access = None

mult == recordSize \div 4                        \* nodeOffsetMult

\* The tree size does not fit a word.
TreeSizeOverflows ==
    nodeCount > 0 /\ mult > 0 /\ nodeCount > MaxWord \div mult

searchTreeSizeBytes == (nodeCount * mult) % Word

Supported == recordSize \in {24, 28, 32}

\* traverseTree24/28/32 refuse a buffer shorter than the tree.
\* Mutant: they trust OpenBytes.
TrustsOpen == Supported
CoversTree == Supported /\ bufferLen >= (nodeCount * mult) % Word

\* OpenBytes: check the sizes, cut out the data section, and for IPv6 walk to
\* the IPv4 subtree, which fails where traverseTree does.
OpenBytes ==
    /\ state = "file"
    /\ LET start == (searchTreeSizeBytes + SeparatorSize) % Word IN
       IF \/ TreeSizeOverflows \/ start > dataEnd
          \/ version = 6 /\ ~CoversTree
       THEN state' = "rejected" /\ UNCHANGED dataStart
       ELSE state' = "open" /\ dataStart' = start
    /\ UNCHANGED <<nodeCount, recordSize, version, dataEnd, access>>

\* The bytes of the file from lo on.  What follows the tree is zero here.
fileBytes(lo, size) ==
    [i \in 0 .. size - 1 |->
        LET a == lo + i  n == a \div mult IN
        IF n < nodeCount
        THEN WrittenNode(recordSize, Stored(recordSize, n)[1], Stored(recordSize, n)[2])[a % mult]
        ELSE 0]

\* Load size bytes at lo, meant for a node, and take its records from them.
Access(n, bit, lo, size) ==
    /\ access' = [node |-> n, bit |-> bit, lo |-> lo, hi |-> lo + size,
                  got |-> IF bit = Both THEN Pair(recordSize, fileBytes(lo, size))
                          ELSE Half(recordSize, fileBytes(lo, size), bit)]
    /\ UNCHANGED <<nodeCount, recordSize, version, dataEnd, dataStart, state>>

HalfSize == IF recordSize = 24 THEN 3 ELSE 4     \* bytes loaded for one record
HalfStep == IF recordSize = 32 THEN 4 ELSE 3     \* distance of the right from the left

\* A lookup step: the record for one bit of one node, with no check of its own.
TraverseRead(n, bit) ==
    /\ state = "open" /\ CoversTree /\ n < nodeCount
    /\ Access(n, bit, (n * mult + bit * HalfStep) % Word, HalfSize)

PairSize == CASE recordSize = 24 -> 6 [] recordSize = 28 -> 7 [] OTHER -> 8

hasBufferRange(offset, size) == size <= bufferLen /\ offset <= bufferLen - size

\* An iteration step: readNodePairBySize checks its own range.
NetworksRead(n) ==
    /\ state = "open" /\ Supported /\ n < nodeCount
    /\ hasBufferRange((n * mult) % Word, PairSize)
    /\ Access(n, Both, (n * mult) % Word, PairSize)

\* A verification step: besides, verifySearchTree has checked the node count.
VerifyRead(n) ==
    /\ state = "open" /\ Supported /\ n < nodeCount
    /\ mult # 0 /\ nodeCount <= bufferLen \div mult
    /\ hasBufferRange((n * mult) % Word, PairSize)
    /\ Access(n, Both, (n * mult) % Word, PairSize)

Next ==
    \/ OpenBytes
    \/ \E n \in 0 .. Word - 1 :
          \/ \E bit \in {0, 1} : TraverseRead(n, bit)
          \/ NetworksRead(n) \/ VerifyRead(n)

Spec == Init /\ [][Next]_vars

-----------------------------------------------------------------------------
(* Properties.                                                             *)

\* Every access to node bytes lies in the buffer and in the node it is meant for,
\* although products and range checks wrap, and lookups, iteration and verification
\* all take from it the records its writer stored.
AccessesOwnNode ==
    access # None =>
        /\ access.lo >= access.node * mult
        /\ access.hi <= (access.node + 1) * mult
        /\ access.hi <= bufferLen
        /\ LET stored == Stored(recordSize, access.node) IN
           access.got = IF access.bit = Both THEN stored ELSE stored[access.bit + 1]

\* reader.go, traverseTree24/28/32, on their bounds check: "OpenBytes/Open already
\* enforces this condition, so the check is only reachable when a Reader is
\* constructed directly".
OpenEnforcesBounds == state = "open" /\ Supported => CoversTree
=============================================================================
