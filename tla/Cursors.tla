------------------------------ MODULE Cursors ------------------------------
(***************************************************************************)
(* Cursors (cursor.go): immutable positions whose reads return a successor *)
(* that carries, as its origin token, the value it follows.  Map and slice *)
(* iterators, Decoder.Advance and UnmarshalCursor go on from a cursor only *)
(* after comparing its decoder and token, so that a value is stepped over  *)
(* without reading it again.  The caller may hold on to cursors, pass      *)
(* cursors of other values or of another database, and abandon iterators.  *)
(***************************************************************************)
EXTENDS DataSection, FiniteSets

CONSTANTS
    Decoders,          \* the DataDecoders, one per database
    Databases,         \* functions from Decoders to data sections
    MaxHeld            \* bound on the cursors the caller keeps

None == "none"
ASSUME CursorsAssumption ==
    /\ None \notin Decoders /\ MaxHeld \in Nat \ {0}
    /\ Databases \subseteq [Decoders -> Seq(Record)]

VARIABLES
    section,           \* section[d]: the data section of decoder d
    held,              \* the cursors the caller holds
    position,          \* position[d]: where the legacy Decoder on d stands
    iterator,          \* the caller's MapCursor or SliceCursor, or NoIterator
    reader             \* the caller's MapReader loop, or NoReader

vars == <<section, held, position, iterator, reader>>

Cursor(d, offset, originToken) ==
    [decoder |-> d, offset |-> offset, originToken |-> originToken]
zeroCursor == Cursor(None, 0, 0)

NoIterator == [kind |-> None]
NoReader == [phase |-> None]

\* A decoder's data, as cursor c sees it.
Section(c) == section[c.decoder]

successor(c, offset) == Cursor(c.decoder, offset, c.offset + 1)

\* The test that next is the successor of the value at offset in decoder d.
Proven(next, d, offset) == next.decoder = d /\ next.originToken = offset + 1

Init ==
    /\ section \in Databases
    /\ position = [d \in Decoders |-> 1]
    /\ held = {Cursor(d, 1, 0) : d \in Decoders}
    /\ iterator = NoIterator /\ reader = NoReader

Hold(c) == Cardinality(held \cup {c}) <= MaxHeld /\ held' = held \cup {c}

\* The caller drops a cursor.
Forget(c) == held' = held \ {c} /\ UNCHANGED <<section, position, iterator, reader>>

-----------------------------------------------------------------------------
(* Reads of one value.  A read that fails returns no cursor.                *)

\* The end of a scalar: behind the pointer that led to it, or behind its payload.
scalarEnd(r) == IF r.next # 0 THEN r.next ELSE r.data

Read(c, kind) ==
    LET r == resolveCtrlData(Section(c), c.offset) IN
    /\ r.kind = kind /\ Hold(successor(c, scalarEnd(r)))
    /\ UNCHANGED <<section, position, iterator, reader>>

ReadString(c) == Read(c, "string")
\* ReadBool, ReadFloat, ReadUint, ReadInteger, ...
ReadNumber(c) == Read(c, "number")

\* Skip, and Unmarshal, which looks for the successor once the custom code is done.
Skip(c) ==
    LET end == nextValueOffset(Section(c), c.offset, 1) IN
    /\ end # Bad /\ Hold(successor(c, end))
    /\ UNCHANGED <<section, position, iterator, reader>>

\* Decoder.Cursor and Decoder.Advance.
CursorOf(d) ==
    Hold(Cursor(d, position[d], 0)) /\ UNCHANGED <<section, position, iterator, reader>>
Advance(d, next) ==
    /\ Proven(next, d, position[d])
    /\ position' = [position EXCEPT ![d] = next.offset]
    /\ UNCHANGED <<section, held, iterator, reader>>

-----------------------------------------------------------------------------
(* MapCursor and SliceCursor.                                               *)

\* A new iterator on the container that c resolves to.
Iterator(c, r) ==
    [kind |-> r.kind, decoder |-> c.decoder, valueOrigin |-> c.offset, offset |-> r.data,
     outerEnd |-> r.next, size |-> r.n, remaining |-> r.n, valueOffset |-> 0,
     pending |-> FALSE, err |-> FALSE]

\* Map and Slice.  Their check that the declared size fits the buffer only turns
\* some failures of later steps into failures here.
Open(c) ==
    LET r == resolveCtrlData(Section(c), c.offset) IN
    /\ r.kind \in {"map", "slice"}
    /\ iterator' = Iterator(c, r)
    /\ UNCHANGED <<section, held, position, reader>>

\* The value an iterator waits for the successor of.
PendingValue(i) == IF i.kind = "map" THEN i.offset ELSE i.valueOffset

\* Mutant: the successor of any value that has been read moves the iterator.
AcceptAnyRead(i, next) ==
    IF i.pending
    THEN IF next.decoder = i.decoder /\ next.originToken # 0
         THEN [i EXCEPT !.offset = next.offset, !.remaining = @ - 1, !.pending = FALSE]
         ELSE [i EXCEPT !.err = TRUE]
    ELSE IF next.decoder # None THEN [i EXCEPT !.err = TRUE] ELSE i
\* Next, given a successor: refuse it, or move past the pending value.
Accept(i, next) ==
    IF i.pending
    THEN IF Proven(next, i.decoder, PendingValue(i))
         THEN [i EXCEPT !.offset = next.offset, !.remaining = @ - 1, !.pending = FALSE]
         ELSE [i EXCEPT !.err = TRUE]
    ELSE IF next.decoder # None THEN [i EXCEPT !.err = TRUE] ELSE i

\* MapCursor.Next and SliceCursor.Next.  A map decodes the next key and keeps the
\* value's offset; a slice notes where the element is.
NextEntry(next) ==
    /\ iterator.kind # None /\ ~iterator.err
    /\ LET i     == Accept(iterator, next)
           value == IF i.kind = "map" THEN decodeKey(section[i.decoder], i.offset) ELSE i.offset
       IN IF i.err \/ i.remaining = 0 THEN iterator' = i /\ UNCHANGED held
          ELSE IF value = Bad THEN iterator' = [i EXCEPT !.err = TRUE] /\ UNCHANGED held
          ELSE /\ iterator' = [i EXCEPT !.offset = value, !.valueOffset = value, !.pending = TRUE]
               /\ Hold(Cursor(i.decoder, value, 0))
    /\ UNCHANGED <<section, position, reader>>

\* Mutant: the successor of a pointed-to container lies behind its contents.
ContainerEndOfTarget(offset, outerEnd) == offset
ContainerEnd(offset, outerEnd) == IF outerEnd # 0 THEN outerEnd ELSE offset

\* MapCursor.End and SliceCursor.End.
End ==
    /\ iterator.kind # None /\ ~iterator.err
    /\ ~iterator.pending /\ iterator.remaining = 0
    /\ Hold(Cursor(iterator.decoder, ContainerEnd(iterator.offset, iterator.outerEnd),
                   iterator.valueOrigin + 1))
    /\ UNCHANGED <<section, position, iterator, reader>>

-----------------------------------------------------------------------------
(* MapReader, in the counted loop that generated code runs: First, then for *)
(* each entry ReadMapKey and one read of the value, then End.               *)

OpenReader(c) ==
    LET r == resolveCtrlData(Section(c), c.offset) IN
    /\ r.kind = "map" /\ Hold(Cursor(c.decoder, r.data, 0))
    /\ reader' = [phase |-> "key", decoder |-> c.decoder, valueOrigin |-> c.offset,
                  dataOffset |-> r.data, outerEnd |-> r.next, size |-> r.n, index |-> 0,
                  cursor |-> Cursor(c.decoder, r.data, 0)]
    /\ UNCHANGED <<section, position, iterator>>

ReadMapKey ==
    /\ reader.phase = "key" /\ reader.index < reader.size
    /\ LET value == decodeKey(section[reader.decoder], reader.cursor.offset)
           c == Cursor(reader.decoder, value, 0)
       IN value # Bad /\ reader' = [reader EXCEPT !.phase = "value", !.cursor = c] /\ Hold(c)
    /\ UNCHANGED <<section, position, iterator>>

\* The field's read: its own successor, or what UnmarshalCursor accepted.
ReadField(next) ==
    /\ reader.phase = "value" /\ Proven(next, reader.decoder, reader.cursor.offset)
    /\ reader' = [reader EXCEPT !.phase = "key", !.cursor = next, !.index = @ + 1]
    /\ UNCHANGED <<section, held, position, iterator>>

\* MapReader.End checks what it can.
ReaderEnd ==
    /\ reader.phase = "key" /\ reader.index = reader.size
    /\ reader.cursor.originToken # 0 \/ (reader.size = 0 /\ reader.cursor.offset = reader.dataOffset)
    /\ Hold(Cursor(reader.decoder, ContainerEnd(reader.cursor.offset, reader.outerEnd),
                   reader.valueOrigin + 1))
    /\ reader' = NoReader /\ UNCHANGED <<section, position, iterator>>

Next ==
    \/ \E c \in held :
           \/ Forget(c) \/ ReadString(c) \/ ReadNumber(c) \/ Skip(c)
           \/ Open(c) \/ OpenReader(c) \/ ReadField(c)
           \/ \E d \in Decoders : Advance(d, c)
    \/ \E d \in Decoders : CursorOf(d)
    \/ \E c \in held \cup {zeroCursor} : NextEntry(c)
    \/ End \/ ReadMapKey \/ ReaderEnd

Spec == Init /\ [][Next]_vars

-----------------------------------------------------------------------------
\* A cursor's token is a proof: whoever made the cursor, by reading, skipping or
\* iterating, directly or through a pointer, it stands right behind the value the
\* token names, and that value was complete.
TokensProveSuccessors ==
    \A c \in held : c.originToken # 0 => c.offset = EndOf(Section(c), c.originToken - 1, 1)

\* An iterator without an error stands on its next entry, whatever cursors it was
\* offered: none of another value, of another database or of an entry it has
\* passed already moved it.
EntriesInOrder ==
    iterator.kind # None /\ ~iterator.err =>
        LET s    == section[iterator.decoder]
            data == resolveCtrlData(s, iterator.valueOrigin).data
            done == iterator.size - iterator.remaining
            key  == IF iterator.kind = "map" /\ iterator.pending THEN 1 ELSE 0
        IN /\ iterator.offset = EndOf(s, data, IF iterator.kind = "map" THEN 2 * done + key ELSE done)
           /\ iterator.pending => PendingValue(iterator) = iterator.offset
=============================================================================
