---------------------------- MODULE MCFileFormat ----------------------------
(* Reading a database file, one part at a time: its search tree (Layout, whose *)
(* bounds MCLayout gives); the bytes of its data section (WireFormat), as      *)
(* every buffer of up to four bytes out of a set that have a meaning at any    *)
(* place, alone or followed by strings up to the targets of two-byte and       *)
(* three-byte pointers; or the records of the section, as a legacy Decoder *)
(* steps over them (DecoderPosition), on every section of up to four records,  *)
(* complete or cut short, and on some longer ones that nest containers and     *)
(* share them through pointers.                                                *)
EXTENDS DecoderPosition

Key == Scalar("string")
Number == Scalar("number")

Records(n) == {Key, Number, Map(1), Slice(1), Slice(2)} \cup {Pointer(i) : i \in 1 .. n}

Nested ==
    {<<Slice(2), Map(2), Key, Slice(1), Key, Key, Number, Number>>,
     <<Map(2), Key, Pointer(6), Key, Slice(1), Map(1), Key, Number>>,
     <<Map(2), Pointer(4), Slice(2), Key, Number, Pointer(4), Pointer(3)>>,
     <<Slice(3), Pointer(6), Pointer(8), Pointer(6), Map(0), Slice(2), Key, Key>>,
     <<Slice(2), Slice(2), Key, Slice(0), Slice(2), Pointer(2), Map(0)>>,
     <<Map(1), Key, Map(3), Key, Key, Key, Key, Key, Pointer(1)>>}

MCSections == Nested \cup UNION {[1 .. n -> Records(n)] : n \in 1 .. 4}

DataBytes ==
    {0,     \* an extended kind of size 0; part of a pointer
     1,     \* an extended kind of size 1; as a kind, uint32 ... 1 + 7 = int32
     7,     \* as an extended kind: bool
     29,    \* an extended kind with a size of one more byte
     32,    \* a one-byte pointer
     33,    \* one that goes 256 bytes further
     41,    \* a two-byte pointer, 65536 bytes further than its bytes say
     48,    \* a three-byte pointer
     63,    \* a four-byte pointer, with all the bits it ignores
     65,    \* a string of size 1
     92,    \* a string of size 28, the largest without an extended size
     93,    \* a string with a size of one more byte
     94,    \* a string with a size of two more bytes
     95,    \* a string with a size of three more bytes
     161,   \* a uint16 of size 1
     250,   \* as an extended kind it wraps around to a pointer
     251}   \* as an extended kind it wraps around to a string

DataLengths == {0, 67586, 67587, 591875}

\* The longest buffer is for what reaches far: wide pointers and large sizes.
DataBytesAt(l) == IF l = 591875 THEN {0, 1, 41, 48, 63, 65, 93, 94, 95, 251} ELSE DataBytes

\* Two-byte pointers, which lead to the end of the middle lengths, take three bytes.
DataMaxChosen(l) == IF l \in {67586, 67587} THEN 3 ELSE 4

VARIABLES
    part,              \* the part of the file that is read: "tree", "bytes" or "records"
    nodeCount, recordSize, version, dataEnd, dataStart, state, access,  \* as in Layout
    chosen, length     \* as in WireFormat

treeVars == <<nodeCount, recordSize, version, dataEnd, dataStart, state, access>>
dataVars == <<chosen, length>>

NoRecords(s, n) == <<0, 0>>
Bounds == INSTANCE MCLayout
    WITH WordBits <- 8, ByteBits <- 4, SeparatorSize <- 16, TailSize <- 20,
         NodeCounts <- {}, RecordSizes <- {}, Lengths <- {}, Stored <- NoRecords

StoredRecords(s, n) == Bounds!MCStored(s, n)
Tree == INSTANCE Layout
    WITH WordBits <- 8, ByteBits <- 4, SeparatorSize <- 16, TailSize <- 20,
         NodeCounts <- Bounds!MCNodeCounts, RecordSizes <- Bounds!MCRecordSizes,
         Lengths <- Bounds!MCLengths, Stored <- StoredRecords

Data == INSTANCE WireFormat WITH Bytes <- DataBytesAt, Lengths <- DataLengths, MaxChosen <- DataMaxChosen

NoTree ==
    /\ nodeCount = 0 /\ recordSize = 24 /\ version = 4 /\ dataEnd = 0 /\ dataStart = 0
    /\ state = "rejected" /\ access = Tree!None
NoData == chosen = <<>> /\ length = 0
NoDecoder ==
    /\ section = <<>> /\ root = 0 /\ offset = 0 /\ nextOffset = Unset
    /\ loops = <<>> /\ consumed = TRUE /\ status = "returned"

FileInit ==
    \/ part = "tree" /\ Tree!Init /\ NoData /\ NoDecoder
    \/ part = "bytes" /\ Data!Init /\ NoTree /\ NoDecoder
    \/ part = "records" /\ Init /\ NoTree /\ NoData

FileNext ==
    /\ UNCHANGED part
    /\ \/ part = "tree" /\ Tree!Next /\ UNCHANGED <<dataVars, vars>>
       \/ part = "bytes" /\ Data!Next /\ UNCHANGED <<treeVars, vars>>
       \/ part = "records" /\ Next /\ UNCHANGED <<treeVars, dataVars>>

FileSpec == FileInit /\ [][FileNext]_<<vars, part, treeVars, dataVars>>

-----------------------------------------------------------------------------
(* Layout's property, of the search trees.                                    *)

\* Lookups, iteration and verification access the bytes of the node they mean, in the
\* buffer, and take from them the records that were stored.
AccessesOwnNode == part = "tree" => Tree!AccessesOwnNode

(* WireFormat's properties, of the buffers that are data sections.            *)

\* The compact paths that string and key reads inline, each copy for itself, give what
\* the general path gives, for every shape of record and every cut of the buffer.
FastPathsAgree == part = "bytes" => Data!FastPathsAgree

\* The offset under which decodeString, decodeKeyAt and the inlined copies file a string
\* in the cache determines the string.
CacheOffsetDeterminesString == part = "bytes" => Data!CacheOffsetDeterminesString

\* A string or scalar that is read ends where nextValueOffset ends when it is skipped.
ReadsEndWhereSkipsEnd == part = "bytes" => Data!ReadsEndWhereSkipsEnd

\* ReadStringMaxSize, in each of the three cases it inlines and in its general one, and
\* CheckMaxSize reject exactly the strings beyond the bound.
SizeBoundExact == part = "bytes" => Data!SizeBoundExact
=============================================================================
