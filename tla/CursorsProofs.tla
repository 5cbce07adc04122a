--------------------------- MODULE CursorsProofs ---------------------------
(***************************************************************************)
(* Proofs about Cursors, for any number of databases, any sections, however *)
(* malformed, and any number of cursors.                                   *)
(***************************************************************************)
EXTENDS Cursors, DataSectionProofs

\* A scalar ends where its value ends.
LEMMA ScalarEnds ==
    ASSUME NEW s \in Seq(Record), NEW o \in Position(s),
           resolveCtrlData(s, o).kind \in {"string", "number"}
    PROVE  LET r == resolveCtrlData(s, o)
           IN  /\ o \in 1 .. Len(s) /\ scalarEnd(r) \in Position(s)
               /\ scalarEnd(r) = EndOf(s, o, 1)
BY PlainEnds DEF scalarEnd

\* Behind the last entry of a container, or the pointer to it, the value ends.
LEMMA ContainerEnds ==
    ASSUME NEW s \in Seq(Record), NEW o \in Position(s), NEW last \in Position(s),
           resolveCtrlData(s, o).kind \in {"map", "slice"},
           last = EndOf(s, resolveCtrlData(s, o).data, Values(resolveCtrlData(s, o)))
    PROVE  LET end == ContainerEnd(last, resolveCtrlData(s, o).next)
           IN  end \in Position(s) /\ end = EndOf(s, o, 1)
<1> DEFINE r == resolveCtrlData(s, o)
<1>1. /\ o \in 1 .. Len(s) /\ o + 1 \in Position(s)
      /\ \/ r.next = 0 /\ r.kind = s[o].kind /\ r.n = s[o].n /\ r.data = o + 1
         \/ r.next = o + 1 /\ EndOf(s, o, 1) = o + 1
  BY Resolved
<1>2. last = EndOf(s, r.data, Values(r)) /\ o + 1 # 0
  BY <1>1
<1> HIDE DEF r
<1>3. CASE r.next = 0 /\ r.kind = s[o].kind /\ r.n = s[o].n /\ r.data = o + 1
  <2>1. Values(r) = Values(s[o])
    BY <1>3 DEF Values
  <2>2. ContainerEnd(last, r.next) = last
    BY <1>3 DEF ContainerEnd
  <2> QED
    BY <1>1, <1>2, <1>3, <2>1, <2>2, EndOfOne DEF r
<1>4. CASE r.next = o + 1 /\ EndOf(s, o, 1) = o + 1
  BY <1>1, <1>2, <1>4 DEF ContainerEnd, r
<1> QED
  BY <1>1, <1>3, <1>4

-----------------------------------------------------------------------------
(* The inductive invariant.                                                  *)

\* A cursor of database d stands in its section, and its token, if it has one, names a
\* value that ends where the cursor stands.
CursorOK(c) ==
    /\ c \in [decoder : Decoders, offset : Nat, originToken : Nat]
    /\ c.offset \in Position(Section(c))
    /\ c.originToken # 0 =>
           /\ c.originToken - 1 \in Position(Section(c))
           /\ c.offset = EndOf(Section(c), c.originToken - 1, 1)

Iterators ==
    [kind : {"map", "slice"}, decoder : Decoders, valueOrigin : Nat, offset : Nat,
     outerEnd : Nat, size : Nat, remaining : Nat, valueOffset : Nat,
     pending : BOOLEAN, err : BOOLEAN]

\* How many values the iterator has passed, the key of a pending entry included.
Passed(i) ==
    IF i.kind = "map" THEN 2 * (i.size - i.remaining) + (IF i.pending THEN 1 ELSE 0)
    ELSE i.size - i.remaining

\* An iterator is about the container at its origin, and stands behind what it has passed.
IteratorOK(i) ==
    LET s == section[i.decoder]
        r == resolveCtrlData(s, i.valueOrigin)
    IN  /\ i \in Iterators
        /\ i.valueOrigin \in Position(s)
        /\ i.kind = r.kind /\ i.size = r.n /\ i.outerEnd = r.next /\ i.remaining <= i.size
        /\ ~i.err => /\ i.offset \in Position(s)
                     /\ i.offset = EndOf(s, r.data, Passed(i))
                     /\ i.pending => i.remaining > 0 /\ i.valueOffset = i.offset

Readers ==
    [phase : {"key", "value"}, decoder : Decoders, valueOrigin : Nat, dataOffset : Nat,
     outerEnd : Nat, size : Nat, index : Nat,
     cursor : [decoder : Decoders, offset : Nat, originToken : Nat]]

\* The counted loop stands on the key or the value of its entry.
ReaderOK(m) ==
    LET s == section[m.decoder]
        r == resolveCtrlData(s, m.valueOrigin)
    IN  /\ m \in Readers
        /\ m.valueOrigin \in Position(s)
        /\ r.kind = "map" /\ m.size = r.n /\ m.outerEnd = r.next /\ m.index <= m.size
        /\ m.phase = "value" => m.index < m.size
        /\ m.cursor.decoder = m.decoder /\ m.cursor.offset \in Position(s)
        /\ m.cursor.offset = EndOf(s, r.data, IF m.phase = "key" THEN 2 * m.index
                                              ELSE 2 * m.index + 1)

IInv ==
    /\ section \in [Decoders -> Seq(Record)]
    /\ \A c \in held : CursorOK(c)
    /\ position \in [Decoders -> Nat]
    /\ \A d \in Decoders : position[d] \in Position(section[d])
    /\ iterator = NoIterator \/ IteratorOK(iterator)
    /\ reader = NoReader \/ ReaderOK(reader)

USE CursorsAssumption

\* Cursors made by the operations: at a position, or behind a value.
LEMMA CursorMade ==
    ASSUME IInv, NEW d \in Decoders, NEW o \in Position(section[d])
    PROVE  /\ CursorOK(Cursor(d, o, 0))
           /\ \A v \in Position(section[d]) :
                  o = EndOf(section[d], v, 1) => CursorOK(Cursor(d, o, v + 1))
<1>1. section[d] \in Seq(Record) /\ Len(section[d]) \in Nat
  BY RecordsTyped DEF IInv
<1>2. o \in Nat /\ \A v \in Position(section[d]) : v + 1 \in Nat /\ v + 1 - 1 = v
  BY <1>1 DEF Position
<1> QED
  BY <1>2 DEF CursorOK, Cursor, Section

\* A step that adds one such cursor and moves nothing else.
LEMMA Holding ==
    ASSUME IInv, NEW c, CursorOK(c), Hold(c), UNCHANGED section
    PROVE  \A x \in held' : CursorOK(x)'
<1>1. held' = held \cup {c}
  BY DEF Hold
<1>2. \A x : CursorOK(x)' <=> CursorOK(x)
  BY DEF CursorOK, Section
<1> QED
  BY <1>1, <1>2 DEF IInv

LEMMA SameSection ==
    ASSUME UNCHANGED section
    PROVE  \A x : /\ CursorOK(x)' <=> CursorOK(x)
                  /\ IteratorOK(x)' <=> IteratorOK(x)
                  /\ ReaderOK(x)' <=> ReaderOK(x)
BY DEF CursorOK, Section, IteratorOK, ReaderOK

LEMMA InitIInv == Init => IInv
<1> SUFFICES ASSUME Init PROVE IInv
  OBVIOUS
<1>1. section \in [Decoders -> Seq(Record)]
  BY DEF Init
<1>2. \A d \in Decoders : 1 \in Position(section[d])
  BY <1>1, RecordsTyped DEF Position
<1>3. \A d \in Decoders : CursorOK(Cursor(d, 1, 0))
  BY <1>2 DEF CursorOK, Cursor, Section
<1> QED
  BY <1>1, <1>2, <1>3 DEF Init, IInv

\* Reads of one value.
LEMMA ReadsPreserve ==
    ASSUME IInv, NEW c \in held, Forget(c) \/ ReadString(c) \/ ReadNumber(c) \/ Skip(c)
    PROVE  IInv'
<1> DEFINE s == Section(c)
<1>1. /\ UNCHANGED <<section, position, iterator, reader>>
      /\ s \in Seq(Record) /\ c.decoder \in Decoders /\ c.offset \in Position(s) /\ s = section[c.decoder]
  BY DEF Forget, ReadString, ReadNumber, Read, Skip, IInv, CursorOK, Section
<1>2. ASSUME \A x \in held' : CursorOK(x)' PROVE IInv'
  BY <1>1, <1>2, SameSection DEF IInv
<1>3. CASE Forget(c)
  BY <1>1, <1>2, <1>3, SameSection DEF Forget, IInv
<1>4. ASSUME NEW end \in Position(s), end = EndOf(s, c.offset, 1), Hold(successor(c, end))
      PROVE  IInv'
  <2>1. CursorOK(successor(c, end))
    BY <1>1, <1>4, CursorMade DEF successor
  <2> QED
    BY <1>1, <1>2, <1>4, <2>1, Holding
<1>5. CASE ReadString(c) \/ ReadNumber(c)
  BY <1>1, <1>4, <1>5, ScalarEnds DEF ReadString, ReadNumber, Read
<1>6. CASE Skip(c)
  <2>1. nextValueOffset(s, c.offset, 1) = EndOf(s, c.offset, 1)
    BY <1>1, SkipsToTheEnd DEF Position
  <2>2. EndOf(s, c.offset, 1) \in {Bad} \cup (c.offset .. Len(s) + 1)
    BY <1>1, EndOfFinds DEF Position
  <2>3. c.offset .. Len(s) + 1 \subseteq Position(s)
    BY <1>1, RecordsTyped DEF Position
  <2> QED
    BY <1>4, <1>6, <2>1, <2>2, <2>3 DEF Skip
<1> QED
  BY <1>3, <1>5, <1>6

\* Decoder.Cursor and Decoder.Advance.
LEMMA DecoderPreserves ==
    ASSUME IInv, NEW d \in Decoders, CursorOf(d) \/ (\E c \in held : Advance(d, c))
    PROVE  IInv'
<1>1. CASE CursorOf(d)
  <2>1. UNCHANGED <<section, position, iterator, reader>> /\ Hold(Cursor(d, position[d], 0))
    BY <1>1 DEF CursorOf
  <2>2. CursorOK(Cursor(d, position[d], 0))
    BY CursorMade DEF IInv
  <2> QED
    BY <2>1, <2>2, Holding, SameSection DEF IInv
<1>2. CASE \E c \in held : Advance(d, c)
  <2>1. PICK c \in held : Advance(d, c)
    BY <1>2
  <2>2. UNCHANGED <<section, held, iterator, reader>> /\ c.decoder = d
    BY <2>1 DEF Advance, Proven
  <2>3. c.offset \in Nat /\ c.offset \in Position(section[d])
    BY <2>2 DEF IInv, CursorOK, Section
  <2>4. /\ position' \in [Decoders -> Nat]
        /\ \A e \in Decoders : position'[e] \in Position(section'[e])
    BY <2>1, <2>2, <2>3 DEF Advance, IInv
  <2> QED
    BY <2>2, <2>4, SameSection DEF IInv
<1> QED
  BY <1>1, <1>2

\* A new iterator stands on the first entry.
LEMMA OpenPreserves ==
    ASSUME IInv, NEW c \in held, Open(c)
    PROVE  IInv'
<1> DEFINE s == section[c.decoder]
           r == resolveCtrlData(s, c.offset)
           i == Iterator(c, r)
<1>1. /\ UNCHANGED <<section, held, position, reader>> /\ iterator' = i
      /\ r.kind \in {"map", "slice"}
  BY DEF Open, Section
<1>2. s \in Seq(Record) /\ c.decoder \in Decoders /\ c.offset \in Position(s) /\ c.offset \in Nat
  BY DEF IInv, CursorOK, Section
<1>3. r.n \in Nat /\ r.data \in Position(s) /\ r.next \in Nat /\ r.data \in Nat
  BY <1>1, <1>2, Resolved DEF Position
<1>4. r.data = EndOf(s, r.data, 0)
  BY <1>2, <1>3, EndOfNone DEF Position
<1>5. /\ i.kind = r.kind /\ i.decoder = c.decoder /\ i.valueOrigin = c.offset /\ i.offset = r.data
      /\ i.outerEnd = r.next /\ i.size = r.n /\ i.remaining = r.n /\ ~i.pending /\ ~i.err
  BY DEF Iterator
<1>6. i \in Iterators
  <2> HIDE DEF r
  <2> QED
    BY <1>1, <1>2, <1>3 DEF Iterator, Iterators
<1>7. Passed(i) = 0
  <2> HIDE DEF r, i
  <2> QED
    BY <1>3, <1>5 DEF Passed
<1> HIDE DEF i
<1>8. IteratorOK(i)
  BY <1>2, <1>3, <1>4, <1>5, <1>6, <1>7 DEF IteratorOK
<1> QED
  BY <1>1, <1>8, SameSection DEF IInv

\* The iterator moves only to the end of the value it waits for: a cursor of another
\* database or value, or of an entry it has passed, does not prove that.
LEMMA AcceptOK ==
    ASSUME IInv, IteratorOK(iterator), ~iterator.err,
           NEW next \in held \cup {zeroCursor}
    PROVE  LET i == Accept(iterator, next)
           IN  IteratorOK(i) /\ (i.err \/ ~i.pending)
<1> DEFINE it == iterator
           i == Accept(it, next)
           s == section[it.decoder]
           r == resolveCtrlData(s, it.valueOrigin)
<1>1. it \in Iterators /\ it.decoder \in Decoders /\ s \in Seq(Record)
  BY DEF IteratorOK, Iterators, IInv
<1>2. /\ it.valueOrigin \in Position(s) /\ r.n \in Nat /\ r.data \in Position(s)
      /\ it.size = r.n /\ it.remaining <= it.size /\ it.kind = r.kind /\ it.outerEnd = r.next
      /\ it.offset \in Position(s) /\ it.offset = EndOf(s, r.data, Passed(it))
      /\ it.pending => it.remaining > 0 /\ it.valueOffset = it.offset
  <2>1. r.kind # "bad" /\ it.valueOrigin \in Position(s)
    BY DEF IteratorOK, Iterators
  <2> QED
    BY <1>1, <2>1, Resolved DEF IteratorOK
<1>3. IteratorOK([it EXCEPT !.err = TRUE])
  <2> DEFINE j == [it EXCEPT !.err = TRUE]
  <2>1. /\ j \in Iterators /\ j.err /\ j.kind = it.kind /\ j.decoder = it.decoder
        /\ j.valueOrigin = it.valueOrigin /\ j.size = it.size /\ j.outerEnd = it.outerEnd
        /\ j.remaining = it.remaining
    BY <1>1 DEF Iterators
  <2> HIDE DEF j
  <2>2. IteratorOK(j)
    BY <1>2, <2>1 DEF IteratorOK
  <2> QED
    BY <2>2 DEF j
<1>4. [it EXCEPT !.err = TRUE].err
  BY <1>1 DEF Iterators
<1>5. CASE it.pending /\ Proven(next, it.decoder, PendingValue(it))
  <2> DEFINE j == [it EXCEPT !.offset = next.offset, !.remaining = @ - 1, !.pending = FALSE]
  <2>1. i = j
    BY <1>5 DEF Accept
  <2>2. PendingValue(it) = it.offset
    BY <1>2, <1>5 DEF PendingValue
  <2>3. next.decoder = it.decoder /\ next.originToken = it.offset + 1
    BY <1>5, <2>2 DEF Proven
  <2>4. next \in held
    <3>1. zeroCursor.decoder = None
      BY DEF zeroCursor, Cursor
    <3> QED
      BY <1>1, <2>3, <3>1
  <2>5. it.offset \in Nat /\ next.originToken # 0 /\ next.originToken - 1 = it.offset
    BY <1>1, <2>3 DEF Iterators
  <2>6. /\ next.offset \in Nat /\ next.offset \in Position(s)
        /\ next.offset = EndOf(s, it.offset, 1)
    BY <2>3, <2>4, <2>5 DEF IInv, CursorOK, Section
  <2>7. /\ j \in Iterators /\ j.err = it.err /\ j.kind = it.kind /\ j.decoder = it.decoder
        /\ j.valueOrigin = it.valueOrigin /\ j.size = it.size /\ j.outerEnd = it.outerEnd
        /\ j.remaining = it.remaining - 1 /\ ~j.pending /\ j.offset = next.offset
    <3>1. it.remaining - 1 \in Nat
      BY <1>1, <1>2, <1>5 DEF Iterators
    <3> HIDE DEF it, i, s, r
    <3> QED
      BY <1>1, <2>6, <3>1 DEF Iterators
  <2> HIDE DEF j
  <2>8. /\ it.size \in Nat /\ it.remaining \in Nat /\ it.kind \in {"map", "slice"}
    BY <1>1 DEF Iterators
  <2>9. Passed(it) \in Nat /\ Passed(j) = Passed(it) + 1
    BY <1>2, <1>5, <2>7, <2>8 DEF Passed
  <2>10. j.offset = EndOf(s, r.data, Passed(j))
    BY <1>1, <1>2, <2>6, <2>7, <2>9, OneMore
  <2>11. j.remaining <= j.size
    BY <1>2, <2>7, <2>8
  <2>12. IteratorOK(j)
    BY <1>2, <2>6, <2>7, <2>10, <2>11 DEF IteratorOK
  <2> QED
    BY <2>1, <2>7, <2>12
<1>6. CASE it.pending /\ ~Proven(next, it.decoder, PendingValue(it))
  BY <1>3, <1>4, <1>6 DEF Accept
<1>7. CASE ~it.pending
  BY <1>3, <1>4, <1>7 DEF Accept
<1> QED
  BY <1>5, <1>6, <1>7

\* The iterator goes on to its next entry, past the key in a map.
LEMMA NextEntryPreserves ==
    ASSUME IInv, NEW next \in held \cup {zeroCursor}, NextEntry(next)
    PROVE  IInv'
<1> DEFINE i == Accept(iterator, next)
           s == section[i.decoder]
           r == resolveCtrlData(s, i.valueOrigin)
           value == IF i.kind = "map" THEN decodeKey(s, i.offset) ELSE i.offset
<1>1. UNCHANGED <<section, position, reader>> /\ iterator.kind # None /\ ~iterator.err
  BY DEF NextEntry
<1>2. IteratorOK(iterator)
  BY <1>1 DEF IInv, NoIterator
<1>3. IteratorOK(i) /\ (i.err \/ ~i.pending)
  BY <1>1, <1>2, AcceptOK
<1>4. \/ (i.err \/ i.remaining = 0) /\ iterator' = i /\ UNCHANGED held
      \/ iterator' = [i EXCEPT !.err = TRUE] /\ UNCHANGED held
      \/ /\ ~i.err /\ i.remaining # 0 /\ value # Bad
         /\ iterator' = [i EXCEPT !.offset = value, !.valueOffset = value, !.pending = TRUE]
         /\ Hold(Cursor(i.decoder, value, 0))
  BY DEF NextEntry
<1> HIDE DEF i
<1>5. i \in Iterators /\ i.decoder \in Decoders /\ s \in Seq(Record)
  BY <1>3 DEF IteratorOK, Iterators, IInv
<1>6. ASSUME UNCHANGED held, IteratorOK(iterator') PROVE IInv'
  BY <1>1, <1>6, SameSection DEF IInv
<1>7. CASE (i.err \/ i.remaining = 0) /\ iterator' = i /\ UNCHANGED held
  BY <1>3, <1>6, <1>7
<1>8. CASE iterator' = [i EXCEPT !.err = TRUE] /\ UNCHANGED held
  <2> DEFINE j == [i EXCEPT !.err = TRUE]
  <2>1. /\ j \in Iterators /\ j.err /\ j.kind = i.kind /\ j.decoder = i.decoder
        /\ j.valueOrigin = i.valueOrigin /\ j.size = i.size /\ j.outerEnd = i.outerEnd
        /\ j.remaining = i.remaining
    BY <1>5 DEF Iterators
  <2> HIDE DEF j
  <2>2. IteratorOK(j)
    BY <1>3, <2>1 DEF IteratorOK
  <2> QED
    BY <1>6, <1>8, <2>2 DEF j
<1>9. CASE /\ ~i.err /\ i.remaining # 0 /\ value # Bad
           /\ iterator' = [i EXCEPT !.offset = value, !.valueOffset = value, !.pending = TRUE]
           /\ Hold(Cursor(i.decoder, value, 0))
  <2> DEFINE j == [i EXCEPT !.offset = value, !.valueOffset = value, !.pending = TRUE]
  <2>1. /\ i.valueOrigin \in Position(s) /\ r.n \in Nat /\ r.data \in Position(s)
        /\ i.size = r.n /\ i.remaining <= i.size /\ i.kind = r.kind /\ i.outerEnd = r.next
        /\ i.offset \in Position(s) /\ i.offset = EndOf(s, r.data, Passed(i)) /\ ~i.pending
    <3>1. r.kind # "bad" /\ i.valueOrigin \in Position(s)
      BY <1>3 DEF IteratorOK, Iterators
    <3> QED
      BY <1>3, <1>5, <1>9, <3>1, Resolved DEF IteratorOK
  <2>2. i.size \in Nat /\ i.remaining \in Nat /\ i.kind \in {"map", "slice"}
    BY <1>5 DEF Iterators
  <2>3. Passed(i) \in Nat
    BY <2>1, <2>2 DEF Passed
  <2>4. /\ value \in Position(s)
        /\ value = EndOf(s, r.data, IF i.kind = "map" THEN Passed(i) + 1 ELSE Passed(i))
    <3>1. CASE i.kind = "map"
      <4>1. value = decodeKey(s, i.offset)
        BY <3>1
      <4>2. value \in Position(s) /\ value = EndOf(s, i.offset, 1)
        BY <1>5, <1>9, <2>1, <4>1, KeyEnds
      <4> QED
        BY <1>5, <2>1, <2>3, <3>1, <4>2, OneMore
    <3>2. CASE i.kind # "map"
      BY <2>1, <3>2
    <3> QED
      BY <3>1, <3>2
  <2>5. value \in Nat
    BY <1>5, <2>4, RecordsTyped DEF Position
  <2> HIDE DEF value
  <2>6. /\ j \in Iterators /\ j.err = i.err /\ j.kind = i.kind /\ j.decoder = i.decoder
        /\ j.valueOrigin = i.valueOrigin /\ j.size = i.size /\ j.outerEnd = i.outerEnd
        /\ j.remaining = i.remaining /\ j.pending /\ j.offset = value /\ j.valueOffset = value
    BY <1>5, <2>5 DEF Iterators
  <2> HIDE DEF j
  <2>7. Passed(j) = IF i.kind = "map" THEN Passed(i) + 1 ELSE Passed(i)
    BY <2>1, <2>2, <2>6 DEF Passed
  <2>8. j.remaining > 0
    BY <1>9, <2>2, <2>6
  <2>9. IteratorOK(j)
    BY <2>1, <2>4, <2>6, <2>7, <2>8 DEF IteratorOK
  <2>10. CursorOK(Cursor(i.decoder, value, 0))
    BY <1>5, <2>4, CursorMade
  <2> QED
    BY <1>1, <1>9, <2>9, <2>10, Holding, SameSection DEF IInv, j
<1> QED
  BY <1>4, <1>7, <1>8, <1>9

\* When all entries have been passed the container's own value ends.
LEMMA EndPreserves ==
    ASSUME IInv, End
    PROVE  IInv'
<1> DEFINE i == iterator
           s == section[i.decoder]
           r == resolveCtrlData(s, i.valueOrigin)
           end == ContainerEnd(i.offset, i.outerEnd)
<1>1. /\ UNCHANGED <<section, position, iterator, reader>>
      /\ i.kind # None /\ ~i.err /\ ~i.pending /\ i.remaining = 0
      /\ Hold(Cursor(i.decoder, end, i.valueOrigin + 1))
  BY DEF End
<1>2. IteratorOK(i)
  BY <1>1 DEF IInv, NoIterator
<1>3. /\ i \in Iterators /\ i.decoder \in Decoders /\ s \in Seq(Record)
      /\ i.valueOrigin \in Position(s) /\ i.kind = r.kind /\ i.size = r.n /\ i.outerEnd = r.next
      /\ i.offset \in Position(s) /\ i.offset = EndOf(s, r.data, Passed(i))
  BY <1>1, <1>2 DEF IteratorOK, Iterators, IInv
<1>4. i.kind \in {"map", "slice"} /\ i.size \in Nat
  BY <1>3 DEF Iterators
<1>5. Passed(i) = Values(r)
  <2>1. Passed(i) = IF i.kind = "map" THEN 2 * i.size ELSE i.size
    BY <1>1, <1>4 DEF Passed
  <2>2. Values(r) = IF r.kind = "map" THEN 2 * r.n ELSE r.n
    BY <1>3, <1>4 DEF Values
  <2> QED
    BY <1>3, <2>1, <2>2
<1>6. end \in Position(s) /\ end = EndOf(s, i.valueOrigin, 1)
  BY <1>3, <1>4, <1>5, ContainerEnds
<1>7. CursorOK(Cursor(i.decoder, end, i.valueOrigin + 1))
  BY <1>3, <1>6, CursorMade
<1> QED
  BY <1>1, <1>7, Holding, SameSection DEF IInv

\* The counted loop of generated code: First, keys, values, End.
LEMMA OpenReaderPreserves ==
    ASSUME IInv, NEW c \in held, OpenReader(c)
    PROVE  IInv'
<1> DEFINE s == section[c.decoder]
           r == resolveCtrlData(s, c.offset)
           first == Cursor(c.decoder, r.data, 0)
           m == [phase |-> "key", decoder |-> c.decoder, valueOrigin |-> c.offset,
                 dataOffset |-> r.data, outerEnd |-> r.next, size |-> r.n, index |-> 0,
                 cursor |-> first]
<1>1. /\ UNCHANGED <<section, position, iterator>> /\ reader' = m
      /\ r.kind = "map" /\ Hold(first)
  BY DEF OpenReader, Section
<1>2. s \in Seq(Record) /\ c.decoder \in Decoders /\ c.offset \in Position(s) /\ c.offset \in Nat
  BY DEF IInv, CursorOK, Section
<1>3. r.n \in Nat /\ r.data \in Position(s) /\ r.next \in Nat /\ r.data \in Nat
  BY <1>1, <1>2, Resolved DEF Position
<1>4. r.data = EndOf(s, r.data, 0)
  BY <1>2, <1>3, EndOfNone DEF Position
<1>5. CursorOK(first)
  BY <1>2, <1>3, CursorMade
<1>6. /\ first \in [decoder : Decoders, offset : Nat, originToken : Nat]
      /\ first.decoder = c.decoder /\ first.offset = r.data
  BY <1>2, <1>3 DEF Cursor
<1> HIDE DEF first
<1>7. /\ m.phase = "key" /\ m.decoder = c.decoder /\ m.valueOrigin = c.offset
      /\ m.outerEnd = r.next /\ m.size = r.n /\ m.index = 0 /\ m.cursor = first
  OBVIOUS
<1>8. m \in Readers
  <2> HIDE DEF r
  <2> QED
    BY <1>2, <1>3, <1>6 DEF Readers
<1> HIDE DEF m
<1>9. ReaderOK(m)
  BY <1>1, <1>2, <1>3, <1>4, <1>6, <1>7, <1>8 DEF ReaderOK
<1> QED
  BY <1>1, <1>5, <1>9, Holding, SameSection DEF IInv

LEMMA ReaderStepPreserves ==
    ASSUME IInv, ReadMapKey \/ (\E next \in held : ReadField(next)) \/ ReaderEnd
    PROVE  IInv'
<1> DEFINE m == reader
           s == section[m.decoder]
           r == resolveCtrlData(s, m.valueOrigin)
           done == IF m.phase = "key" THEN 2 * m.index ELSE 2 * m.index + 1
<1>1. m.phase \in {"key", "value"} /\ UNCHANGED <<section, position, iterator>>
  BY DEF ReadMapKey, ReadField, ReaderEnd
<1>2. ReaderOK(m)
  BY <1>1 DEF IInv, NoReader, None
<1>3. /\ m \in Readers /\ m.decoder \in Decoders /\ s \in Seq(Record)
      /\ m.valueOrigin \in Position(s) /\ r.kind = "map" /\ m.size = r.n /\ m.outerEnd = r.next
      /\ m.index <= m.size /\ m.cursor.decoder = m.decoder /\ m.cursor.offset \in Position(s)
      /\ m.cursor.offset = EndOf(s, r.data, done)
      /\ m.phase = "value" => m.index < m.size
  BY <1>2 DEF ReaderOK, Readers, IInv
<1>4. m.index \in Nat /\ m.size \in Nat /\ done \in Nat
  BY <1>3 DEF Readers
<1>5. r.data \in Position(s)
  BY <1>3, Resolved
<1>6. CASE ReadMapKey
  <2> DEFINE value == decodeKey(s, m.cursor.offset)
             c == Cursor(m.decoder, value, 0)
             n == [m EXCEPT !.phase = "value", !.cursor = c]
  <2>1. /\ m.phase = "key" /\ m.index < m.size /\ value # Bad
        /\ reader' = n /\ Hold(c)
    BY <1>6 DEF ReadMapKey
  <2>2. value \in Position(s) /\ value = EndOf(s, m.cursor.offset, 1)
    BY <1>3, <2>1, KeyEnds
  <2>3. value = EndOf(s, r.data, done + 1)
    BY <1>3, <1>4, <1>5, <2>2, OneMore
  <2>4. CursorOK(c)
    BY <1>3, <2>2, CursorMade
  <2>5. value \in Nat
    BY <1>3, <2>2, RecordsTyped DEF Position
  <2> HIDE DEF value
  <2>6. /\ c \in [decoder : Decoders, offset : Nat, originToken : Nat]
        /\ c.decoder = m.decoder /\ c.offset = value
    BY <1>3, <2>5 DEF Cursor
  <2> HIDE DEF c
  <2>7. /\ n \in Readers /\ n.phase = "value" /\ n.decoder = m.decoder
        /\ n.valueOrigin = m.valueOrigin /\ n.outerEnd = m.outerEnd /\ n.size = m.size
        /\ n.index = m.index /\ n.cursor = c
    <3> HIDE DEF m
    <3> QED
      BY <1>3, <2>6 DEF Readers
  <2> HIDE DEF n
  <2>8. done + 1 = 2 * n.index + 1
    BY <1>4, <2>1, <2>7
  <2>9. ReaderOK(n)
    BY <1>3, <2>1, <2>2, <2>3, <2>6, <2>7, <2>8 DEF ReaderOK
  <2> QED
    BY <1>1, <2>1, <2>4, <2>9, Holding, SameSection DEF IInv
<1>7. CASE \E next \in held : ReadField(next)
  <2>1. PICK next \in held : ReadField(next)
    BY <1>7
  <2> DEFINE n == [m EXCEPT !.phase = "key", !.cursor = next, !.index = @ + 1]
  <2>2. /\ m.phase = "value" /\ reader' = n /\ UNCHANGED held
        /\ next.decoder = m.decoder /\ next.originToken = m.cursor.offset + 1
    BY <2>1 DEF ReadField, Proven
  <2>3. m.cursor.offset \in Nat
    BY <1>3, RecordsTyped DEF Position
  <2>4. next.originToken # 0 /\ next.originToken - 1 = m.cursor.offset
    BY <2>2, <2>3
  <2>5. /\ next \in [decoder : Decoders, offset : Nat, originToken : Nat]
        /\ next.offset \in Position(s) /\ next.offset = EndOf(s, m.cursor.offset, 1)
    BY <2>2, <2>4 DEF IInv, CursorOK, Section
  <2>6. next.offset = EndOf(s, r.data, done + 1)
    BY <1>3, <1>4, <1>5, <2>5, OneMore
  <2>7. /\ n \in Readers /\ n.phase = "key" /\ n.decoder = m.decoder
        /\ n.valueOrigin = m.valueOrigin /\ n.outerEnd = m.outerEnd /\ n.size = m.size
        /\ n.index = m.index + 1 /\ n.cursor = next
    <3>1. m.index + 1 \in Nat
      BY <1>4
    <3> HIDE DEF m
    <3> QED
      BY <1>3, <2>5, <3>1 DEF Readers
  <2> HIDE DEF n
  <2>8. done + 1 = 2 * n.index /\ n.index <= n.size
    BY <1>3, <1>4, <2>2, <2>7
  <2>9. ReaderOK(n)
    BY <1>3, <2>2, <2>5, <2>6, <2>7, <2>8 DEF ReaderOK
  <2> QED
    BY <1>1, <2>2, <2>9, SameSection DEF IInv
<1>8. CASE ReaderEnd
  <2> DEFINE end == ContainerEnd(m.cursor.offset, m.outerEnd)
  <2>1. /\ m.phase = "key" /\ m.index = m.size /\ reader' = NoReader
        /\ Hold(Cursor(m.decoder, end, m.valueOrigin + 1))
    BY <1>8 DEF ReaderEnd
  <2>2. done = Values(r)
    BY <1>3, <2>1 DEF Values
  <2>3. end \in Position(s) /\ end = EndOf(s, m.valueOrigin, 1)
    BY <1>3, <2>2, ContainerEnds
  <2>4. CursorOK(Cursor(m.decoder, end, m.valueOrigin + 1))
    BY <1>3, <2>3, CursorMade
  <2> QED
    BY <1>1, <2>1, <2>4, Holding, SameSection DEF IInv
<1> QED
  BY <1>6, <1>7, <1>8

LEMMA NextPreserves == IInv /\ [Next]_vars => IInv'
<1> SUFFICES ASSUME IInv, [Next]_vars PROVE IInv'
  OBVIOUS
<1>1. CASE UNCHANGED vars
  BY <1>1, SameSection DEF vars, IInv
<1>2. CASE Next
  <2>1. CASE \E c \in held :
               \/ Forget(c) \/ ReadString(c) \/ ReadNumber(c) \/ Skip(c)
               \/ Open(c) \/ OpenReader(c) \/ ReadField(c)
               \/ \E d \in Decoders : Advance(d, c)
    BY <2>1, ReadsPreserve, OpenPreserves, OpenReaderPreserves, ReaderStepPreserves, DecoderPreserves
  <2>2. CASE \E d \in Decoders : CursorOf(d)
    BY <2>2, DecoderPreserves
  <2>3. CASE \E c \in held \cup {zeroCursor} : NextEntry(c)
    BY <2>3, NextEntryPreserves
  <2>4. CASE End \/ ReadMapKey \/ ReaderEnd
    BY <2>4, EndPreserves, ReaderStepPreserves
  <2> QED
    BY <1>2, <2>1, <2>2, <2>3, <2>4 DEF Next
<1> QED
  BY <1>1, <1>2

\* A cursor's token is truthful, for any sections, complete or malformed, and any number
\* of databases, cursors and iterators.
THEOREM TokensAreProofs == Spec => []TokensProveSuccessors
<1>1. IInv => TokensProveSuccessors
  BY DEF IInv, CursorOK, TokensProveSuccessors
<1> QED
  BY <1>1, InitIInv, NextPreserves, PTL DEF Spec

\* An iterator stands on its next entry, whatever cursors it was offered.
THEOREM IteratorsKeepTheirPlace == Spec => []EntriesInOrder
<1>1. IInv => EntriesInOrder
  <2> SUFFICES ASSUME IInv, iterator.kind # None, ~iterator.err PROVE EntriesInOrder
    BY DEF EntriesInOrder
  <2> DEFINE s == section[iterator.decoder]
             data == resolveCtrlData(s, iterator.valueOrigin).data
             done == iterator.size - iterator.remaining
             key == IF iterator.kind = "map" /\ iterator.pending THEN 1 ELSE 0
  <2>1. IteratorOK(iterator)
    BY DEF IInv, NoIterator
  <2>2. /\ iterator \in Iterators /\ iterator.offset = EndOf(s, data, Passed(iterator))
        /\ iterator.pending => iterator.valueOffset = iterator.offset
    BY <2>1 DEF IteratorOK
  <2>3. Passed(iterator) = IF iterator.kind = "map" THEN 2 * done + key ELSE done
    BY DEF Passed
  <2> QED
    BY <2>2, <2>3 DEF EntriesInOrder, PendingValue
<1> QED
  BY <1>1, InitIInv, NextPreserves, PTL DEF Spec
=============================================================================
