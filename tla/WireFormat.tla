----------------------------- MODULE WireFormat -----------------------------
(***************************************************************************)
(* The bytes of the data section (data_decoder.go, decoder.go, cursor.go): *)
(* control bytes, extended kinds and sizes, pointers of four widths, and   *)
(* the several ways the decoders read the same record: general decoding,   *)
(* skipping, and the compact paths inlined into the string and key reads   *)
(* of the legacy decoder, of cursors and of reflection, copy by copy.      *)
(*                                                                         *)
(* A read of a string gives its payload as [data, size], the offset under  *)
(* which the string cache files it and the offset of the next value.       *)
(***************************************************************************)
EXTENDS Integers, Sequences

CONSTANTS
    Lengths,           \* lengths of buffers that go on after the chosen bytes, and 0
    Bytes(_),          \* the byte values that are chosen for a buffer of each of Lengths
    MaxChosen(_)       \* how many bytes of it are chosen

\* The bytes after the chosen ones: the header of a one-byte string at odd places, that
\* of a string with a size of one more byte at even ones; each is the other's payload.
Filler(i) == IF i % 2 = 1 THEN 65 ELSE 93
TooFar == 2^22         \* an offset or a size beyond every buffer

VARIABLES
    chosen,            \* the first bytes of the buffer
    length             \* its length if it goes on after them, else 0

vars == <<chosen, length>>

Init == chosen = <<>> /\ length \in Lengths

\* Every buffer, byte by byte.
Next ==
    /\ Len(chosen) < MaxChosen(length)
    /\ \E b \in Bytes(length) : chosen' = Append(chosen, b)
    /\ UNCHANGED length

Spec == Init /\ [][Next]_vars

bufferLen == IF length = 0 THEN Len(chosen) ELSE length
\* A read behind the end of the buffer has no value: TLC stops there, as the program
\* would, for want of a test that the code should have made.
buffer(i) == IF Len(chosen) <= i /\ i < length THEN Filler(i) ELSE chosen[i + 1]

-----------------------------------------------------------------------------
KindExtended == 0
KindPointer  == 1
KindString   == 2
KindMap      == 7
KindSlice    == 11
KindBool     == 14

pointerBase2 == 2048
pointerBase3 == 526336

KindOf(byte) == byte \div 32
SizeOf(byte) == byte % 32

\* n bytes as a number.  Numbers beyond every buffer are all the same (TooFar keeps
\* them within TLC's integers).
BigEndian(from, n) ==
    LET sum[k \in 0 .. n] ==
            IF k = 0 THEN 0
            ELSE IF sum[k - 1] >= TooFar THEN TooFar
            ELSE sum[k - 1] * 256 + buffer(from + k - 1)
    IN sum[n]

Bad == [ok |-> FALSE]
Failed(x) == ~x.ok

\* The size that follows a size field of 29, 30 or 31, in one, two or three bytes.
extendedSize(field, offset) ==
    CASE field = 29 -> 29 + BigEndian(offset, 1)
      [] field = 30 -> 285 + BigEndian(offset, 2)
      [] OTHER      -> 65821 + BigEndian(offset, 3)

\* The control record of this kind and size field whose header ends at after, but for
\* the bytes of a longer size.
controlRecord(kind, field, after) ==
    IF field < 29 \/ kind = KindPointer
    THEN [ok |-> TRUE, kind |-> kind, size |-> field, data |-> after]
    ELSE IF after + field - 28 > bufferLen THEN Bad
    ELSE [ok |-> TRUE, kind |-> kind, size |-> extendedSize(field, after),
          data |-> after + field - 28]

\* decodeCtrlData.  The kind in an extension byte is one byte wide and wraps.
decodeCtrlData(offset) ==
    IF offset >= bufferLen THEN Bad
    ELSE LET first == buffer(offset) IN
         IF KindOf(first) # KindExtended
         THEN controlRecord(KindOf(first), SizeOf(first), offset + 1)
         ELSE IF offset + 1 >= bufferLen THEN Bad
         ELSE controlRecord((buffer(offset + 1) + 7) % 256, SizeOf(first), offset + 2)

\* Where a pointer of width bytes at offset leads; width 4 ignores the field's bits.
pointerValue(field, width, offset) ==
    LET high == IF width = 4 THEN 0 ELSE (field % 8) * 256^width
        base == CASE width = 2 -> pointerBase2 [] width = 3 -> pointerBase3 [] OTHER -> 0
    IN high + BigEndian(offset, width) + base

pointerWidth(field) == 1 + ((field \div 8) % 4)

\* decodePointer.
decodePointer(field, offset) ==
    LET end == offset + pointerWidth(field) IN
    IF end > bufferLen THEN Bad
    ELSE [ok |-> TRUE, to |-> pointerValue(field, pointerWidth(field), offset), end |-> end]

\* resolveCtrlData: next is 0 unless a pointer was followed.
Resolved(c, next) ==
    [ok |-> TRUE, kind |-> c.kind, size |-> c.size, data |-> c.data, next |-> next]
pointerTarget(c, next) == IF Failed(c) \/ c.kind = KindPointer THEN Bad ELSE Resolved(c, next)
followPointer(p) == IF Failed(p) THEN Bad ELSE pointerTarget(decodeCtrlData(p.to), p.end)
followRecord(c) ==
    IF Failed(c) THEN Bad
    ELSE IF c.kind # KindPointer THEN Resolved(c, 0)
    ELSE followPointer(decodePointer(c.size, c.data))
resolveCtrlData(offset) == followRecord(decodeCtrlData(offset))

\* nextValueOffset for one value other than a map or slice.
payloadSize(c) ==
    CASE c.kind = KindPointer -> pointerWidth(c.size)
      [] c.kind = KindBool    -> 0
      [] OTHER                -> c.size
skipRecord(c) ==
    IF Failed(c) THEN Bad
    ELSE IF c.data + payloadSize(c) > bufferLen THEN Bad
    ELSE [ok |-> TRUE, end |-> c.data + payloadSize(c)]
skipScalar(offset) == skipRecord(decodeCtrlData(offset))

-----------------------------------------------------------------------------
(* Strings and map keys.  The compact encodings are decoded by hand in every *)
(* function that meets them.  Each copy is translated on its own here, its   *)
(* arithmetic and its tests too, so that a slip in one of them would show.   *)

String(data, size, cacheOffset, next) ==
    [ok |-> TRUE, data |-> data, size |-> size, cacheOffset |-> cacheOffset, next |-> next]

\* What a copy says of a record that it leaves to the general path.
Other == [ok |-> FALSE, left |-> TRUE]
OrElse(s, general) == IF s = Other THEN general ELSE s

\* Mutant: sizes of two and three more bytes are forgotten.
headerSizeShort(size) == IF size >= 29 THEN 2 ELSE 1
\* How many bytes of control record come before the payload, unless it is extended.
headerSize(size) ==
    CASE size < 29 -> 1 [] size < 285 -> 2 [] size < 65821 -> 3 [] OTHER -> 4

\* decodeString: the payload of a resolved string, and back to its control record.
decodeString(size, data) ==
    IF data + size > bufferLen \/ data < headerSize(size) THEN Bad
    ELSE String(data, size, data - headerSize(size), data + size)

WithNext(s, next) == IF Failed(s) \/ next = 0 THEN s ELSE [s EXCEPT !.next = next]

\* The general reading of a string: resolve, check the kind, decode.
resolvedString(r) ==
    IF Failed(r) \/ r.kind # KindString THEN Bad
    ELSE WithNext(decodeString(r.size, r.data), r.next)
generalString(offset) == resolvedString(resolveCtrlData(offset))

\* decodeStringValue, the legacy decoder's string: directly encoded ...
stringDirect(offset) ==
    LET size == SizeOf(buffer(offset)) next == offset + 1 + size IN
    IF size < 29 /\ next <= bufferLen THEN String(offset + 1, size, offset, next) ELSE Other

\* ... behind a one-byte pointer ...
stringNearPointer(offset) ==
    LET size    == SizeOf(buffer(offset))
        pointer == (size % 8) * 256 + buffer(offset + 1)
        pointed == buffer(pointer)
    IN IF /\ size < 8 /\ offset + 2 <= bufferLen /\ pointer < bufferLen
          /\ KindOf(pointed) = KindString /\ SizeOf(pointed) < 29
          /\ pointer + 1 + SizeOf(pointed) <= bufferLen
       THEN String(pointer + 1, SizeOf(pointed), pointer, offset + 2) ELSE Other

\* ... and behind a longer one.
stringFarPointer(offset) ==
    LET size    == SizeOf(buffer(offset))
        width   == 1 + ((size \div 8) % 4)
        end     == offset + 1 + width
        pointer == CASE width = 2 -> (size % 8) * 65536 + BigEndian(offset + 1, 2) + pointerBase2
                     [] width = 3 -> (size % 8) * 16777216 + BigEndian(offset + 1, 3) + pointerBase3
                     [] OTHER     -> BigEndian(offset + 1, 4)
        pointed == buffer(pointer)
    IN IF /\ size >= 8 /\ end <= bufferLen /\ pointer < bufferLen
          /\ KindOf(pointed) = KindString /\ SizeOf(pointed) < 29
          /\ SizeOf(pointed) <= bufferLen - (pointer + 1)
       THEN String(pointer + 1, SizeOf(pointed), pointer, end) ELSE Other

inlinedStringValue(offset) ==
    CASE offset >= bufferLen                  -> Other
      [] KindOf(buffer(offset)) = KindString  -> stringDirect(offset)
      [] KindOf(buffer(offset)) = KindPointer ->
            OrElse(stringNearPointer(offset), stringFarPointer(offset))
      [] OTHER                                -> Other
decodeStringValue(offset) == OrElse(inlinedStringValue(offset), generalString(offset))

\* decodeKeyAt: a direct compact key that does not fit fails at once.
keyDirect(offset) ==
    LET size == SizeOf(buffer(offset)) newOffset == offset + 1 + size IN
    IF size >= 29 THEN Other
    ELSE IF newOffset > bufferLen THEN Bad
    ELSE String(offset + 1, size, offset, newOffset)

\* The one-byte pointer that decodeKeyAt keeps inline.
keyNearPointer(offset) ==
    LET size    == SizeOf(buffer(offset))
        pointer == (size % 8) * 256 + buffer(offset + 1)
        pointed == buffer(pointer)
    IN IF /\ size < 8 /\ offset + 2 <= bufferLen /\ pointer < bufferLen
          /\ KindOf(pointed) = KindString /\ SizeOf(pointed) < 29
          /\ pointer + 1 + SizeOf(pointed) <= bufferLen
       THEN String(pointer + 1, SizeOf(pointed), pointer, offset + 2) ELSE Other

\* The pointer that decodePointerKeyFast reads, and the offset behind it.
keyPointer(size, width, payload) ==
    CASE width = 1 -> (size % 8) * 256 + buffer(payload)
      [] width = 2 -> (size % 8) * 65536 + BigEndian(payload, 2) + pointerBase2
      [] width = 3 -> (size % 8) * 16777216 + BigEndian(payload, 3) + pointerBase3
      [] OTHER     -> BigEndian(payload, 4)

\* Mutant: the value is taken to follow the key's target, not the pointer to it.
keyEndsAtTarget(offset) ==
    LET size    == SizeOf(buffer(offset))
        width   == 1 + ((size \div 8) % 4)
        pointer == keyPointer(size, width, offset + 1)
        pointed == buffer(pointer)
        data    == pointer + 1
    IN IF /\ offset + 1 + width <= bufferLen /\ pointer < bufferLen
          /\ KindOf(pointed) = KindString /\ SizeOf(pointed) < 29
          /\ data + SizeOf(pointed) <= bufferLen
       THEN String(data, SizeOf(pointed), data - 1, data + SizeOf(pointed)) ELSE Other
decodePointerKeyFast(offset) ==
    LET size    == SizeOf(buffer(offset))
        width   == 1 + ((size \div 8) % 4)
        pointer == keyPointer(size, width, offset + 1)
        pointed == buffer(pointer)
        data    == pointer + 1
    IN IF /\ offset + 1 + width <= bufferLen /\ pointer < bufferLen
          /\ KindOf(pointed) = KindString /\ SizeOf(pointed) < 29
          /\ data + SizeOf(pointed) <= bufferLen
       THEN String(data, SizeOf(pointed), data - 1, offset + 1 + width) ELSE Other

\* The rest of decodeKeyAt, which counts the header by itself.
keyHeaderSize(size) ==
    1 + (IF size >= 29 THEN 1 ELSE 0) + (IF size >= 285 THEN 1 ELSE 0)
      + (IF size >= 65821 THEN 1 ELSE 0)
resolvedKey(r) ==
    IF Failed(r) \/ r.kind # KindString THEN Bad
    ELSE IF r.data + r.size > bufferLen \/ r.data < keyHeaderSize(r.size) THEN Bad
    ELSE String(r.data, r.size, r.data - keyHeaderSize(r.size),
                IF r.next = 0 THEN r.data + r.size ELSE r.next)

inlinedKey(offset) ==
    CASE KindOf(buffer(offset)) = KindString  -> keyDirect(offset)
      [] KindOf(buffer(offset)) = KindPointer ->
            OrElse(keyNearPointer(offset), decodePointerKeyFast(offset))
      [] OTHER                                -> Other
decodeKeyAt(offset) ==
    IF offset >= bufferLen THEN Bad
    ELSE OrElse(inlinedKey(offset), resolvedKey(resolveCtrlData(offset)))

\* Cursor.ReadStringMaxSize: the three cases once more, each with its test of the
\* bound before the string is built.
Bounded(s, maximum) == IF s.size > maximum THEN Bad ELSE s

readDirect(offset, maximum) ==
    LET size == SizeOf(buffer(offset)) next == offset + 1 + size IN
    IF size < 29 /\ next <= bufferLen
    THEN Bounded(String(offset + 1, size, offset, next), maximum) ELSE Other

readNearPointer(offset, maximum) ==
    LET size    == SizeOf(buffer(offset))
        pointer == (size % 8) * 256 + buffer(offset + 1)
        pointed == buffer(pointer)
    IN IF /\ size < 8 /\ offset + 2 <= bufferLen /\ pointer < bufferLen
          /\ KindOf(pointed) = KindString /\ SizeOf(pointed) < 29
          /\ pointer + 1 + SizeOf(pointed) <= bufferLen
       THEN Bounded(String(pointer + 1, SizeOf(pointed), pointer, offset + 2), maximum)
       ELSE Other

\* The string behind a pointer of two to four bytes, before its bound is tested.
farPointed(offset) ==
    LET size    == SizeOf(buffer(offset))
        width   == 1 + ((size \div 8) % 4)
        end     == offset + 1 + width
        pointer == CASE width = 2 -> (size % 8) * 65536 + BigEndian(offset + 1, 2) + pointerBase2
                     [] width = 3 -> (size % 8) * 16777216 + BigEndian(offset + 1, 3) + pointerBase3
                     [] OTHER     -> BigEndian(offset + 1, 4)
        pointed == buffer(pointer)
    IN IF /\ size >= 8 /\ end <= bufferLen /\ pointer < bufferLen
          /\ KindOf(pointed) = KindString /\ SizeOf(pointed) < 29
          /\ SizeOf(pointed) <= bufferLen - (pointer + 1)
       THEN String(pointer + 1, SizeOf(pointed), pointer, end) ELSE Other
\* Mutant: this copy alone forgets the bound.
readFarPointerUnbounded(offset, maximum) == farPointed(offset)
readFarPointer(offset, maximum) ==
    LET s == farPointed(offset) IN IF Failed(s) THEN Other ELSE Bounded(s, maximum)

readResolved(r, maximum) ==
    IF Failed(r) \/ r.kind # KindString \/ r.size > maximum THEN Bad
    ELSE WithNext(decodeString(r.size, r.data), r.next)

inlinedRead(offset, maximum) ==
    CASE offset >= bufferLen                  -> Other
      [] KindOf(buffer(offset)) = KindString  -> readDirect(offset, maximum)
      [] KindOf(buffer(offset)) = KindPointer ->
            OrElse(readNearPointer(offset, maximum), readFarPointer(offset, maximum))
      [] OTHER                                -> Other
ReadStringMaxSize(offset, maximum) ==
    OrElse(inlinedRead(offset, maximum), readResolved(resolveCtrlData(offset), maximum))

\* Reflection, with a string as the destination.  unmarshalString shortens its way
\* when it charges a budget (DecodeBudget models the charge itself).
InRange(data, size) == size <= bufferLen /\ data <= bufferLen - size      \* hasBufferRange
unmarshalString(size, data, budgeted) ==
    IF budgeted /\ size < 29 /\ data > 0 /\ InRange(data, size)
    THEN String(data, size, data - 1, data + size)
    ELSE decodeString(size, data)

\* decodeFromType: a value that is no pointer,
unmarshalPlain(c, budgeted) ==
    IF Failed(c) \/ c.kind # KindString THEN Bad
    ELSE unmarshalString(c.size, c.data, budgeted)

\* and one that may be.  One pointer followed on is enough to tell whether any is.
followTarget(p, budgeted) ==
    IF Failed(p) THEN Bad ELSE WithNext(unmarshalPlain(decodeCtrlData(p.to), budgeted), p.end)
unmarshalValue(c, budgeted) ==
    IF ~Failed(c) /\ c.kind = KindPointer
    THEN followTarget(decodePointer(c.size, c.data), budgeted)
    ELSE unmarshalPlain(c, budgeted)

\* unmarshalPointer: looks at the target's control byte for a pointer or a compact
\* string before it decodes the target as any value.
unmarshalTarget(pointer, end, budgeted) ==
    LET first    == buffer(pointer)
        extended == KindOf(first) = KindExtended /\ pointer + 1 < bufferLen
        kind     == IF extended THEN (buffer(pointer + 1) + 7) % 256 ELSE KindOf(first)
        size     == SizeOf(first)
    IN IF pointer >= bufferLen \/ kind = KindPointer THEN Bad
       ELSE IF /\ KindOf(first) = KindString /\ size < 29
               /\ size <= bufferLen - (pointer + 1)
            THEN String(pointer + 1, size, pointer, end)
       ELSE WithNext(unmarshalValue(decodeCtrlData(pointer), budgeted), end)
unmarshalPointer(p, budgeted) == IF Failed(p) THEN Bad ELSE unmarshalTarget(p.to, p.end, budgeted)

decodeFromType(c, budgeted) ==
    IF ~Failed(c) /\ c.kind = KindPointer
    THEN unmarshalPointer(decodePointer(c.size, c.data), budgeted)
    ELSE unmarshalPlain(c, budgeted)

\* tryFastDecodeUnbudgetedString: direct strings of any size; its caller decodes the
\* rest, and does not use the offset of a next value.
tryFastDecodeUnbudgetedString(offset) ==
    LET size == SizeOf(buffer(offset)) data == offset + 1 IN
    IF offset < bufferLen /\ KindOf(buffer(offset)) = KindString /\ size < 29 /\ InRange(data, size)
    THEN String(data, size, data - 1, data + size)
    ELSE LET s == unmarshalPlain(decodeCtrlData(offset), FALSE) IN IF Failed(s) THEN Other ELSE s

Decode(offset, budgeted) ==
    LET decoded == decodeFromType(decodeCtrlData(offset), budgeted) IN
    IF budgeted THEN decoded ELSE OrElse(tryFastDecodeUnbudgetedString(offset), decoded)

\* Cursor.CheckMaxSize for strings, as generated code calls it before it reads.
sizeWithin(r, maximum) == r.ok /\ (r.kind = KindString => r.size <= maximum)
CheckMaxSize(offset, maximum) ==
    LET first == buffer(offset) IN
    IF /\ offset < bufferLen /\ SizeOf(first) < 29
       /\ KindOf(first) \notin {KindPointer, KindExtended}
    THEN KindOf(first) = KindString => SizeOf(first) <= maximum
    ELSE sizeWithin(resolveCtrlData(offset), maximum)

-----------------------------------------------------------------------------
(* Fixed-size scalars.                                                      *)

\* Cursor.scalar without its compact path.
resolvedScalar(expected, r) ==
    LET end == IF r.kind = KindBool THEN r.data ELSE r.data + r.size IN
    IF Failed(r) THEN Bad
    ELSE IF r.kind # expected THEN Bad
    ELSE [ok |-> TRUE, size |-> r.size, data |-> r.data, next |-> IF r.next # 0 THEN r.next ELSE end]
generalScalar(expected, offset) == resolvedScalar(expected, resolveCtrlData(offset))

\* Mutant: an extended kind's payload starts one byte early.
scalarFromKindByte(expected, offset) ==
    LET field    == SizeOf(buffer(offset))
        extended == KindOf(buffer(offset)) = KindExtended /\ offset + 1 < bufferLen
        kind     == IF extended THEN (buffer(offset + 1) + 7) % 256 ELSE KindOf(buffer(offset))
        data     == offset + 1
    IN IF offset < bufferLen /\ field < 29 /\ kind = expected
       THEN [ok |-> TRUE, size |-> field, data |-> data,
             next |-> IF kind = KindBool THEN data ELSE data + field]
       ELSE generalScalar(expected, offset)
\* Cursor.scalar: a value of the expected kind with a short size is read at once.
scalar(expected, offset) ==
    LET field    == SizeOf(buffer(offset))
        extended == KindOf(buffer(offset)) = KindExtended /\ offset + 1 < bufferLen
        kind     == IF extended THEN (buffer(offset + 1) + 7) % 256 ELSE KindOf(buffer(offset))
        data     == IF extended THEN offset + 2 ELSE offset + 1
    IN IF offset < bufferLen /\ field < 29 /\ kind = expected
       THEN [ok |-> TRUE, size |-> field, data |-> data,
             next |-> IF kind = KindBool THEN data ELSE data + field]
       ELSE generalScalar(expected, offset)

\* Kinds and the sizes their decode functions accept.
ScalarSizes == [k \in {3, 5, 6, 8, 9, 10, 14, 15} |->
    CASE k = 3 -> {8} [] k = 5 -> 0 .. 2 [] k \in {6, 8} -> 0 .. 4 [] k = 9 -> 0 .. 8
      [] k = 10 -> 0 .. 16 [] k = KindBool -> {0, 1} [] OTHER -> {4}]

\* decodeUint16, decodeBool, ...: whether the payload is accepted.
decodes(kind, s) ==
    /\ s.size \in ScalarSizes[kind]
    /\ kind # KindBool => s.data + s.size <= bufferLen

-----------------------------------------------------------------------------
\* Where records are read.  In a longer buffer the first two places do: what lies
\* further back differs in the pointers to it only.
Offsets == IF length = 0 THEN 0 .. Len(chosen) ELSE {0, 1}

\* The reads of a string or key at offset by every function that has its own copy of
\* the compact encodings.
Readings(offset) ==
    {decodeStringValue(offset), decodeKeyAt(offset), ReadStringMaxSize(offset, TooFar),
     Decode(offset, TRUE), Decode(offset, FALSE)}

\* The compact paths change nothing: for every shape of record and every cut of the
\* buffer, each copy reads keys and strings as the general path does, with the same
\* cache offset and the same next value, and refuses what the general path refuses.
FastPathsAgree == \A o \in Offsets : Readings(o) = {generalString(o)}

\* The offset under which a string is cached determines the string, through
\* whatever header, pointer or path it was reached; the cache compares nothing else.
SameCacheOffset(s, t) == s.ok /\ t.ok /\ s.cacheOffset = t.cacheOffset
CacheOffsetDeterminesString ==
    \A s, t \in UNION {{decodeStringValue(o), decodeKeyAt(o)} : o \in Offsets} :
        SameCacheOffset(s, t) => s.data = t.data /\ s.size = t.size

\* A value that is read ends where skipping over it ends: custom code that reads a
\* field and code that ignores it go on at the same place.
ReadsEndWhereSkipsEnd ==
    \A o \in Offsets : \E skipped \in {skipScalar(o)} :
        /\ \A s \in {generalString(o)} : s.ok => skipped = [ok |-> TRUE, end |-> s.next]
        /\ \A k \in DOMAIN ScalarSizes : \A s \in {scalar(k, o)} :
               s.ok /\ decodes(k, s) => skipped = [ok |-> TRUE, end |-> s.next]

\* A string is rejected for its size exactly when it is longer than the bound, in each
\* of the shapes that the bounded read decodes by itself, and the separate check that
\* generated code makes agrees with the bounded read.
SizeBoundExact ==
    \A o \in Offsets, maximum \in {0, 28, 300} : \A s \in {generalString(o)} :
        /\ ReadStringMaxSize(o, maximum).ok <=> s.ok /\ s.size <= maximum
        /\ s.ok => (CheckMaxSize(o, maximum) <=> s.size <= maximum)
=============================================================================
