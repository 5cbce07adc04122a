-------------------------- MODULE DecoderPosition --------------------------
(***************************************************************************)
(* The position of a legacy Decoder (decoder.go) while a custom            *)
(* UnmarshalMaxMindDB reads a value with it.  The iterators of ReadMap and *)
(* ReadSlice move the decoder before each turn of the caller's loop body,  *)
(* the body may read, skip, open further iterators or break, and the       *)
(* iterators put the decoder behind the container when they end.           *)
(*                                                                         *)
(* The caller takes at most one value per turn: once it has skipped a      *)
(* value or ended a loop over it, it leaves the decoder alone until the    *)
(* next turn.  Reading the same value again is allowed.                    *)
(***************************************************************************)
EXTENDS DataSection

CONSTANTS
    Sections,          \* the data sections to decode
    MaxNesting         \* bound on the loops a caller nests

ASSUME SectionsAssumption == Sections \subseteq Seq(Record)

VARIABLES
    section,           \* the data section
    root,              \* offset of the value handed to the Unmarshaler
    offset,            \* Decoder.offset
    nextOffset,        \* Decoder.nextOffset, or Unset when hasNextOffset is false
    loops,             \* the running iterators, innermost last
    consumed,          \* the caller took this turn's value
    status             \* "running", "failed", or "returned"

vars == <<section, root, offset, nextOffset, loops, consumed, status>>
decoder == <<offset, nextOffset>>

Unset == 0
Running == status = "running"

(* An iterator's local variables: kind; start and size of the container;    *)
(* index, the entry of this turn; value, keyEndOffset in a map and          *)
(* currentOffset in a slice.                                                *)
Loop(kind, start, size) ==
    [kind |-> kind, start |-> start, size |-> size, index |-> 0, value |-> start]
Top == loops[Len(loops)]
Outer == SubSeq(loops, 1, Len(loops) - 1)

Init ==
    /\ section \in Sections
    /\ root \in DOMAIN section
    /\ offset = root /\ nextOffset = Unset
    /\ loops = <<>> /\ consumed = FALSE /\ status = "running"

reset(o) == offset' = o /\ nextOffset' = Unset

\* setNextOffset keeps the first offset: after a pointer, the pointer's end.
setNextOffset(was, o) == IF was = Unset THEN o ELSE was

\* decodeCtrlDataAndFollow, whatever kind it meets: a pointer fixes nextOffset.
Followed(r) == IF r.next # 0 THEN setNextOffset(nextOffset, r.next) ELSE nextOffset

-----------------------------------------------------------------------------
(* What the caller does with the value of its turn.                         *)

Reads == Running /\ ~consumed

\* ReadBool, ReadString, ..., ReadUint128 on a value of their kind.
ReadScalar ==
    /\ Reads
    /\ LET r == resolveCtrlData(section, offset) IN
       /\ r.kind \in {"string", "number"}
       /\ nextOffset' = setNextOffset(Followed(r), r.data)
    /\ UNCHANGED <<section, root, offset, loops, consumed, status>>

\* A read of another kind, or a ReadMap or ReadSlice whose iterator is not run.
FollowOnly ==
    /\ Reads
    /\ LET r == resolveCtrlData(section, offset) IN
       r.kind # "bad" /\ nextOffset' = Followed(r)
    /\ UNCHANGED <<section, root, offset, loops, consumed, status>>

SkipValue ==
    /\ Reads
    /\ LET end == nextValueOffset(section, offset, 1) IN
       IF end = Bad THEN status' = "failed" /\ UNCHANGED <<decoder, consumed>>
                    ELSE reset(end) /\ consumed' = TRUE /\ UNCHANGED status
    /\ UNCHANGED <<section, root, loops>>

\* The caller gives up with the error some read or iterator reported.
Fail == status' = "failed" /\ UNCHANGED <<decoder, loops, consumed>>

\* Mutant: the loop goes on from wherever the caller left the decoder.
EnterTurnAtDecoder(outer, l, current) ==
    LET from  == IF l.index > 0 THEN offset ELSE current
        value == IF l.kind = "map" THEN decodeKey(section, from) ELSE from IN
    IF l.index = l.size
    THEN reset(from) /\ loops' = outer /\ consumed' = TRUE /\ UNCHANGED status
    ELSE IF value = Bad THEN Fail
    ELSE /\ reset(value) /\ loops' = Append(outer, [l EXCEPT !.value = value])
         /\ consumed' = FALSE /\ UNCHANGED status
\* The head of an iterator's loop: end behind the container, or decode the key and
\* hand the decoder to the caller at the value.
EnterTurn(outer, l, current) ==
    LET value == IF l.kind = "map" THEN decodeKey(section, current) ELSE current IN
    IF l.index = l.size
    THEN reset(current) /\ loops' = outer /\ consumed' = TRUE /\ UNCHANGED status
    ELSE IF value = Bad THEN Fail
    ELSE /\ reset(value) /\ loops' = Append(outer, [l EXCEPT !.value = value])
         /\ consumed' = FALSE /\ UNCHANGED status

\* ReadMap and ReadSlice, and a range over the iterator they return.
Iterate ==
    /\ Reads /\ Len(loops) < MaxNesting
    /\ LET r == resolveCtrlData(section, offset) IN
       /\ r.kind \in {"map", "slice"}
       /\ EnterTurn(loops, Loop(r.kind, r.data, r.n), r.data)
    /\ UNCHANGED <<section, root>>

\* yield returned true: step over the value and go on.
Continue ==
    /\ Running /\ loops # <<>>
    /\ LET end == nextValueOffset(section, Top.value, 1) IN
       IF end = Bad THEN Fail
       ELSE EnterTurn(Outer, [Top EXCEPT !.index = @ + 1], end)
    /\ UNCHANGED <<section, root>>

\* Mutant: the element of this turn is skipped a second time.
AfterStopUncounted ==
    LET rest == Top.size - Top.index - 1 IN
    [from |-> IF nextOffset # Unset THEN nextOffset
              ELSE IF Top.kind = "map" THEN nextValueOffset(section, Top.value, 1)
              ELSE Top.value,
     values |-> IF Top.kind = "map" THEN 2 * rest ELSE rest + 1]
\* Where the skip of the remaining entries starts and how many values it has.
AfterStop ==
    LET rest == Top.size - Top.index - 1 IN
    [from |-> IF nextOffset # Unset THEN nextOffset
              ELSE IF Top.kind = "map" THEN nextValueOffset(section, Top.value, 1)
              ELSE Top.value,
     values |-> IF Top.kind = "map" THEN 2 * rest
                ELSE IF nextOffset # Unset THEN rest ELSE rest + 1]

\* finishMapAfterStop and finishSliceAfterStop.  If the rest cannot be skipped the
\* decoder stays where it is, and the caller is not told.
Break ==
    /\ Running /\ loops # <<>>
    /\ LET end == IF AfterStop.from = Bad THEN Bad
                  ELSE nextValueOffset(section, AfterStop.from, AfterStop.values) IN
       IF end = Bad THEN UNCHANGED decoder ELSE reset(end)
    /\ loops' = Outer /\ consumed' = TRUE
    /\ UNCHANGED <<section, root, status>>

\* UnmarshalMaxMindDB is done; tryCustomUnmarshal and Cursor.Unmarshal find the
\* successor by themselves and never look at the child decoder's position.
Return ==
    /\ Running /\ loops = <<>>
    /\ LET end == nextValueOffset(section, root, 1) IN
       IF end = Bad THEN status' = "failed" /\ UNCHANGED offset
                    ELSE status' = "returned" /\ offset' = end
    /\ UNCHANGED <<section, root, nextOffset, loops, consumed>>

Next ==
    ReadScalar \/ FollowOnly \/ SkipValue \/ Iterate \/ Continue \/ Break \/ Return

Spec == Init /\ [][Next]_vars

-----------------------------------------------------------------------------
\* The offset of the value of entry i of the container a loop runs over.
EntryOf(l) ==
    EndOf(section, l.start, IF l.kind = "map" THEN 2 * l.index + 1 ELSE l.index)

\* However the loops nest, and whatever their bodies read, skip or abandon, each
\* turn shows the caller the value of its own entry: the decoder stands on it
\* until the caller takes it, and outer loops keep their place meanwhile.
EachTurnAtItsValue ==
    /\ \A i \in DOMAIN loops : loops[i].value = EntryOf(loops[i])
    /\ Running /\ loops # <<>> /\ ~consumed => offset = Top.value

\* A loop that ends, by itself or by a break in any turn, leaves the decoder right
\* behind the container it iterated over, ready for what follows.
EndsBehindContainer ==
    Running /\ Complete(section) /\ Len(loops') < Len(loops)
        => /\ offset' = EndOf(section, Top.start,
                              IF Top.kind = "map" THEN 2 * Top.size ELSE Top.size)
           /\ nextOffset' = Unset
LoopsEndBehindContainer == [][EndsBehindContainer]_vars
=============================================================================
