--------------------------- MODULE MCDestinations ---------------------------
(* Destinations with one destination type of each composition, each decoded  *)
(* from all records of up to two entries per container, fitting or not.      *)
EXTENDS Destinations

u8 == Integer(FALSE, 2)
u16 == Integer(FALSE, 3)
i8 == Integer(TRUE, 2)
Plain(T) == Field(T, NoMaximum)

Pair == Struct([x |-> Plain(u8), y |-> Plain(PointerTo(u16))])

MCTypes ==
    {Struct([n |-> Plain(i8), p |-> Plain(PointerTo(PointerTo(u16)))]),
     Struct([s |-> Field(SliceOf(Pair), 1), p |-> Plain(PointerTo(Pair))]),
     Struct([m |-> Field(PointerTo(MapOf(u8)), 1), b |-> Field(PointerTo(Bytes), 1)]),
     SliceOf(Pair), SliceOf(SliceOf(u8)), MapOf(Pair), CustomKeyMapOf(SliceOf(u16)),
     Interface, SliceOf(Interface)}

Leaves == {Number("uint16", 1), Number("uint32", 2), Number("int32", -1), Number("uint64", 9),
           Number("uint64", 31), Text, Bad, Reference(Number("uint16", 3)), Reference(Bad), Reference(Reference(Text))}
FewLeaves == {Number("uint16", 1), Text}

UpToTwo(S) == {<<>>} \cup {<<a>> : a \in S} \cup {<<a, b>> : a, b \in S}
Entries(keys, S) == {Entry(key, v) : key \in keys, v \in S}

\* Records for a type: containers of up to two entries on the outside; inside, few
\* records, with at most one thing wrong.
RECURSIVE Inside(_)
Inside(T) ==
    CASE T.k = "pointer" -> Inside(T.elem)
      [] T.k = "bytes"   -> {ByteString(<<1>>), ByteString(<<1, 2>>), Text,
                             Array(<<Number("uint16", 2)>>, FALSE), Array(<<Text>>, FALSE)}
      [] T.k = "slice"   -> {Array(s, FALSE) : s \in UpToTwo(Inside(T.elem))}
                                \cup {Array(<<v>>, TRUE) : v \in Inside(T.elem)}
      [] T.k = "map"     -> {Dict(s, FALSE) : s \in {<<>>} \cup {<<e>> : e \in Entries({"a", "b"}, Inside(T.elem))}}
      [] T.k = "struct"  -> {Dict(<<>>, FALSE), Dict(<<Entry("x", Number("uint16", 1))>>, FALSE),
                             Dict(<<Entry("y", Number("uint16", 1))>>, FALSE),
                             Dict(<<Entry("y", Number("uint16", 1)), Entry("x", Text)>>, FALSE)}
      [] OTHER           -> FewLeaves

RecordsFor(T, leaves) ==
    LET values(U) == IF U.k \in {"integer", "pointer"} /\ leaves # {} THEN leaves ELSE Inside(U) IN
    CASE T.k = "slice"   -> {Text} \cup {Array(s, cut) : s \in UpToTwo(Inside(T.elem)), cut \in BOOLEAN}
      [] T.k = "map"     -> {Text} \cup {Dict(s, cut) :
                                s \in UpToTwo(Entries({"a", "b"}, Inside(T.elem))
                                              \cup Entries({NoKey, Refused}, {Number("uint16", 1)})),
                                cut \in BOOLEAN}
      [] T.k = "struct"  -> {Text} \cup {Dict(s, cut) :
                                s \in UpToTwo(UNION {Entries({f}, values(T.fields[f].type)) :
                                                         f \in DOMAIN T.fields}
                                              \cup Entries({"other", NoKey}, {Text, Bad})),
                                cut \in BOOLEAN}
      [] OTHER -> Leaves \cup {Array(s, cut) : s \in UpToTwo(FewLeaves), cut \in BOOLEAN}
                         \cup {Dict(s, FALSE) : s \in UpToTwo(Entries({"a", NoKey}, FewLeaves \cup {Bad}))}

RecordTable ==
    [T \in MCTypes |-> RecordsFor(T, IF T.k = "struct" /\ "n" \in DOMAIN T.fields THEN Leaves ELSE {})]
MCRecords(T) == RecordTable[T]
MCValues(T) ==
    {Zero(T)} \cup IF T = Interface THEN {Boxed(PointerTo(u8), Pointee(0))} ELSE {}

\* Every integer type, from every integer of every kind.
IntegerTypes == {Integer(signed, bits) : signed \in BOOLEAN, bits \in 2 .. 5}
IntegerRecords(T) ==
    {Number("uint16", n) : n \in 0 .. 7} \cup {Number("uint32", n) : n \in 0 .. 15}
        \cup {Number("uint64", n) : n \in 0 .. 31} \cup {Number("int32", n) : n \in -8 .. 7}
=============================================================================
