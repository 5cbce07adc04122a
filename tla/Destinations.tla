---------------------------- MODULE Destinations ----------------------------
(***************************************************************************)
(* What decoding does to the Go value it decodes into: by reflection       *)
(* (reflection.go) and by the unmarshalers that maxminddb-gen writes       *)
(* (generate.go, the emit functions, and the Cursor methods they call).    *)
(* Both reuse what the caller's value already holds: slices with enough    *)
(* capacity, maps and pointers.  One value is decoded into again and       *)
(* again, by either decoder, from good and from bad records.               *)
(*                                                                         *)
(* Budgets, custom values and the preflight of large containers are left   *)
(* out (DecodeBudget, Cursors); embedded fields are in FieldTables.        *)
(***************************************************************************)
EXTENDS Integers, Sequences, FiniteSets, TLC

CONSTANTS
    Types,            \* the destination types
    Records(_),       \* Records(T): what a value of type T is decoded from
    Values(_),        \* Values(T): what the caller may pass at first
    Nil               \* a nil pointer, slice, map or interface

VARIABLES
    type,             \* the type of the destination
    dst,              \* its value
    last              \* the decode just made: [by, before, v, ok], or Nil

vars == <<type, dst, last>>

(* Go types.  A width of 8, 16, 32 or 64 bits is 2, 3, 4 or 5 bits here.    *)
Integer(signed, bits) == [k |-> "integer", signed |-> signed, bits |-> bits]
PointerTo(T)          == [k |-> "pointer", elem |-> T]
SliceOf(T)            == [k |-> "slice", elem |-> T]
MapOf(T)              == [k |-> "map", elem |-> T, customKey |-> FALSE]
CustomKeyMapOf(T)     == [k |-> "map", elem |-> T, customKey |-> TRUE]
\* fields: from names to types and bounds (maxsize)
Struct(fields)        == [k |-> "struct", fields |-> fields]
Field(T, maxSize)     == [type |-> T, maxSize |-> maxSize]
Bytes                 == [k |-> "bytes"]          \* exactly []byte
Interface             == [k |-> "any"]            \* an empty interface
NoMaximum             == 100

(* Values in the database.  A container that is cut declares more entries   *)
(* than the file has bytes left; a bad record cannot be decoded at all.     *)
Number(kind, n)     == [k |-> kind, n |-> n]
Text                == [k |-> "text"]             \* a value of any other kind
Bad                 == [k |-> "bad"]
ByteString(bytes)   == [k |-> "bytes", elems |-> bytes]
Array(elems, cut)   == [k |-> "slice", elems |-> elems, cut |-> cut]
Dict(entries, cut)  == [k |-> "map", entries |-> entries, cut |-> cut]
Entry(key, v)       == [key |-> key, v |-> v]
Reference(v)        == [k |-> "reference", to |-> v]
NumberKinds         == {"uint16", "uint32", "uint64", "int32"}
NoKey               == "not a string"             \* a key that is not a string
Refused             == "refused"                  \* a key that custom keys refuse

(* Go values.  An integer is a number, a pointer is what it points to, a    *)
(* slice is its backing array and its length, a map and a struct are        *)
(* functions, an interface holds a value and its type.                      *)
Pointee(x)          == [to |-> x]
Backing(cells, n)   == [cells |-> cells, len |-> n]
Boxed(T, x)         == [holds |-> T, x |-> x]

RECURSIVE Zero(_)
Zero(T) ==
    CASE T.k = "integer" -> 0
      [] T.k = "struct"  -> [f \in DOMAIN T.fields |-> Zero(T.fields[f].type)]
      [] OTHER           -> Nil

Zeros(T, n) == [i \in 1 .. n |-> Zero(T)]

Done(d) == [ok |-> TRUE, dst |-> d]
Fail(d) == [ok |-> FALSE, dst |-> d]

\* The declared size of a container or byte string.
Size(v) ==
    CASE v.k = "map"   -> Len(v.entries) + IF v.cut THEN 1 ELSE 0
      [] v.k = "slice" -> Len(v.elems) + IF v.cut THEN 1 ELSE 0
      [] v.k = "bytes" -> Len(v.elems)

\* resolveCtrlData: a pointer to a pointer is refused.
Resolve(v) ==
    IF v.k # "reference" THEN v ELSE IF v.to.k = "reference" THEN Bad ELSE v.to

\* Whether nextValueOffset can step over a value.  It does not follow pointers.
RECURSIVE Skippable(_)
Skippable(v) ==
    CASE v.k = "bad"   -> FALSE
      [] v.k = "slice" -> ~v.cut /\ \A i \in DOMAIN v.elems : Skippable(v.elems[i])
      [] v.k = "map"   -> ~v.cut /\ \A i \in DOMAIN v.entries : Skippable(v.entries[i].v)
      [] OTHER         -> TRUE

-----------------------------------------------------------------------------
(* Integers.                                                                *)

\* The numbers of an integer type, and conversion to it, which wraps.
InRange(T, n) ==
    IF T.signed THEN -(2^(T.bits - 1)) <= n /\ n < 2^(T.bits - 1) ELSE 0 <= n /\ n < 2^T.bits
Convert(T, n) ==
    LET m == n % 2^T.bits IN IF T.signed /\ m >= 2^(T.bits - 1) THEN m - 2^T.bits ELSE m
int64 == Integer(TRUE, 5)

\* unmarshalInt32 and unmarshalUint, which convert to int64 or stay with uint64 and
\* then ask whether the destination overflows.
unmarshalInteger(T, d, v) ==
    LET n == IF T.signed THEN Convert(int64, v.n) ELSE v.n IN
    IF InRange(T, n) THEN Done(n) ELSE Fail(d)

\* emitInteger: generated code converts, and compares the result with the number.
integerFits(T, v) ==
    LET converted == Convert(T, v.n) IN
    CASE v.k = "int32" /\ ~T.signed -> v.n >= 0 /\ converted = v.n
      [] v.k # "int32" /\ T.signed  -> converted >= 0 /\ converted = v.n
      [] OTHER                      -> converted = v.n
emitInteger(T, d, v) == IF integerFits(T, v) THEN Done(Convert(T, v.n)) ELSE Fail(d)

-----------------------------------------------------------------------------
(* Slices, maps and pointers that the destination already has.              *)

Capacity(d) == IF d = Nil THEN 0 ELSE Len(d.cells)

\* Mutant: only the part that is still visible is cleared.
ReuseKeepingTail(T, d, n) ==
    Backing([i \in DOMAIN d.cells |-> IF i <= n THEN Zero(T) ELSE d.cells[i]], n)
\* Reuse a backing array for n elements: clear them, and what was visible behind.
Reuse(T, d, n) ==
    Backing([i \in DOMAIN d.cells |->
                IF i <= n \/ i <= d.len THEN Zero(T) ELSE d.cells[i]], n)
\* The slice that n elements are decoded into.
SliceFor(T, d, n) ==
    IF d = Nil \/ Capacity(d) < n THEN Backing(Zeros(T, n), n) ELSE Reuse(T, d, n)

EmptyMap == [key \in {} |-> 0]
MapFor(d) == IF d = Nil THEN EmptyMap ELSE d

\* What a pointer is decoded into.
Target(T, d) == IF d = Nil THEN Zero(T.elem) ELSE d.to

\* The kinds of value that a maxsize option bounds.
RECURSIVE maxSizeKinds(_)
maxSizeKinds(T) ==
    CASE T.k = "pointer" -> maxSizeKinds(T.elem)
      [] T.k = "bytes"   -> {"bytes", "slice"}
      [] OTHER           -> {T.k}
\* CheckMaxSize.
WithinMaxSize(f, v) ==
    Resolve(v).k \in {"map", "slice", "bytes"} \cap maxSizeKinds(f.type)
        => Size(Resolve(v)) <= f.maxSize

-----------------------------------------------------------------------------
(* Decoding by reflection.                                                  *)

RECURSIVE Reflect(_, _, _), tryFastDecodeTyped(_, _, _), ReflectStruct(_, _, _),
          decodePointerStruct(_, _, _)

\* tryFastDecodeTyped: an integer stored in the kind of the same width, bytes, or
\* pointers to them.  Whatever it cannot do is done over by the general path.
sameWidth(T) ==
    CASE T.signed /\ T.bits = 4  -> "int32"  [] ~T.signed /\ T.bits = 3 -> "uint16"
      [] ~T.signed /\ T.bits = 4 -> "uint32" [] ~T.signed /\ T.bits = 5 -> "uint64"
      [] OTHER                   -> "none"
RECURSIVE isFastDecodeType(_)
isFastDecodeType(T) ==
    CASE T.k = "pointer" -> isFastDecodeType(T.elem)
      [] T.k = "integer" -> sameWidth(T) # "none"
      [] OTHER           -> T.k = "bytes"
\* A pointer on the fast path: a nil one is set to a new value once that is decoded.
setDecoded(d, r) ==
    IF d # Nil \/ r.ok THEN [ok |-> r.ok, dst |-> Pointee(r.dst)] ELSE Fail(Nil)
tryFastDecodeTyped(T, d, v) ==
    CASE T.k = "integer" -> IF v.k = sameWidth(T) THEN Done(v.n) ELSE Fail(d)
      [] T.k = "bytes"   -> IF v.k = "bytes" THEN Done(Backing(v.elems, Len(v.elems)))
                            ELSE Fail(d)
      [] T.k = "pointer" -> setDecoded(d, tryFastDecodeTyped(T.elem, Target(T, d), v))
\* An element, or a field without a bound; the general path starts from whatever the
\* fast one leaves.
ReflectElement(T, d, v) ==
    IF ~isFastDecodeType(T) THEN Reflect(T, d, v)
    ELSE LET fast == tryFastDecodeTyped(T, d, v) IN
         IF fast.ok THEN fast ELSE Reflect(T, fast.dst, v)

\* decodeSlice, from the slice its elements go into.
ReflectElements(T, slice, v) ==
    LET loop[i \in 0 .. Len(v.elems)] ==
            IF i = 0 THEN Done(slice)
            ELSE LET s == loop[i - 1] IN
                 IF ~s.ok THEN s
                 ELSE LET r == ReflectElement(T, s.dst.cells[i], v.elems[i]) IN
                      [ok |-> r.ok, dst |-> [s.dst EXCEPT !.cells[i] = r.dst]]
        end == loop[Len(v.elems)]
    IN IF v.cut THEN Fail(end.dst) ELSE end

\* unmarshalSlice: the declared size is checked unless the capacity suffices.
decodeSlice(T, d, v) ==
    IF v.cut /\ (d = Nil \/ Capacity(d) < Size(v)) THEN Fail(d)
    ELSE ReflectElements(T, SliceFor(T, d, Size(v)), v)

\* Mutant: the element decoded last is not zeroed before the next one.
FreshElementKept(T, s) == s.element
\* The value that the next entry of a map is decoded into.
FreshElement(T, s) == Zero(T.elem)
\* The key an entry is stored under, or NoKey if it is not a string or refused.
KeyOf(T, key) == IF T.customKey /\ key = Refused THEN NoKey ELSE key
\* decodeMap, from the map its entries go into.
ReflectEntries(T, map, v) ==
    LET loop[i \in 0 .. Len(v.entries)] ==
            IF i = 0 THEN [ok |-> TRUE, dst |-> map, element |-> Zero(T.elem)]
            ELSE LET s == loop[i - 1]  e == v.entries[i] IN
                 IF ~s.ok THEN s
                 ELSE IF KeyOf(T, e.key) = NoKey THEN [s EXCEPT !.ok = FALSE]
                 ELSE LET r == ReflectElement(T.elem, FreshElement(T, s), e.v) IN
                      [ok |-> r.ok, element |-> r.dst,
                       dst |-> IF r.ok THEN (e.key :> r.dst) @@ s.dst ELSE s.dst]
    IN [ok |-> loop[Len(v.entries)].ok, dst |-> loop[Len(v.entries)].dst]
decodeMap(T, d, v) == IF v.cut THEN Fail(d) ELSE ReflectEntries(T, MapFor(d), v)

\* Mutant: the copy of the cleanup for pointers to structs is forgotten.
cleanupForgotten(d, r) == [ok |-> r.ok, dst |-> Pointee(r.dst)]
\* A pointer to a struct, once the struct has been decoded: one that was allocated for
\* it is nil again if that failed.
cleanupAllocatedPointers(d, r) ==
    IF r.ok THEN Done(Pointee(r.dst)) ELSE Fail(IF d = Nil THEN Nil ELSE Pointee(r.dst))
\* decodePointerStructWithFields, for a map.
decodePointerStruct(T, d, v) ==
    IF T.k = "pointer"
    THEN cleanupAllocatedPointers(d, decodePointerStruct(T.elem, Target(T, d), v))
    ELSE ReflectStruct(T, d, v)
RECURSIVE IsPointerToStruct(_)
IsPointerToStruct(T) ==
    T.k = "pointer" /\ (T.elem.k = "struct" \/ IsPointerToStruct(T.elem))
\* tryDecodePointerStructWithFields: what is not a map is left to the general path.
tryDecodePointerStruct(T, d, v) ==
    CASE Resolve(v).k = "map" -> decodePointerStruct(T, d, Resolve(v))
      [] Resolve(v).k = "bad" -> Fail(d)
      [] OTHER                -> Reflect(T, d, v)

\* Mutant: the bound is checked once the value has been decoded.
maxSizeAfterDecode(f, d, v) ==
    LET r == Reflect(f.type, d, v) IN IF WithinMaxSize(f, v) THEN r ELSE Fail(r.dst)
decodeValueMaxSize(f, d, v) == IF WithinMaxSize(f, v) THEN Reflect(f.type, d, v) ELSE Fail(d)
\* The dispatch on a field; a struct is decoded as the general path does.
decodeField(f, d, v) ==
    IF f.maxSize # NoMaximum THEN decodeValueMaxSize(f, d, v)
    ELSE IF IsPointerToStruct(f.type) THEN tryDecodePointerStruct(f.type, d, v)
    ELSE ReflectElement(f.type, d, v)
\* decodeStructWithFields.
ReflectStruct(T, d, v) ==
    LET loop[i \in 0 .. Len(v.entries)] ==
            IF i = 0 THEN Done(d)
            ELSE LET s == loop[i - 1]  e == v.entries[i] IN
                 IF ~s.ok THEN s
                 ELSE IF e.key = NoKey THEN Fail(s.dst)
                 ELSE IF e.key \notin DOMAIN T.fields
                      THEN [ok |-> Skippable(e.v), dst |-> s.dst]
                 ELSE LET r == decodeField(T.fields[e.key], s.dst[e.key], e.v) IN
                      [ok |-> r.ok, dst |-> [s.dst EXCEPT ![e.key] = r.dst]]
        end == loop[Len(v.entries)]
    IN IF v.cut THEN Fail(end.dst) ELSE end

\* An empty interface: what a pointer in it points to, or a new value, which is
\* stored even if its container could not be decoded to the end.
ReflectAny(d, v) ==
    LET boxed(T, r) == [ok |-> r.ok, dst |-> Boxed(T, r.dst)] IN
    CASE v.k \in NumberKinds -> Done(Boxed([k |-> "integer"], v.n))
      [] v.k \in {"text", "bytes"} -> Done(Boxed([k |-> v.k], v))
      [] v.k = "slice" -> IF v.cut THEN Fail(d)
                          ELSE boxed(SliceOf(Interface), decodeSlice(Interface, Nil, v))
      [] v.k = "map"   -> IF v.cut THEN Fail(d)
                          ELSE boxed(MapOf(Interface), decodeMap(MapOf(Interface), Nil, v))
      [] OTHER         -> Fail(d)
HoldsPointer(d) == d # Nil /\ d.holds.k = "pointer" /\ d.x # Nil

\* decodeFromType.
decodeFromType(T, d, v) ==
    CASE T.k = "any" -> ReflectAny(d, v)
      [] v.k \in NumberKinds /\ T.k = "integer" -> unmarshalInteger(T, d, v)
      [] v.k = "bytes" /\ T.k = "bytes" -> Done(Backing(v.elems, Len(v.elems)))
      [] v.k = "slice" /\ T.k = "slice" -> decodeSlice(T.elem, d, v)
      [] v.k = "slice" /\ T.k = "bytes" -> decodeSlice(Integer(FALSE, 2), d, v)
      [] v.k = "map" /\ T.k = "map"     -> decodeMap(T, d, v)
      [] v.k = "map" /\ T.k = "struct"  -> ReflectStruct(T, d, v)
      [] OTHER -> Fail(d)

\* A pointer on the general path: one that was allocated is reset if decoding failed.
resetAllocated(d, r) ==
    IF ~r.ok /\ d = Nil THEN Fail(Nil) ELSE [ok |-> r.ok, dst |-> Pointee(r.dst)]
\* decodeValueImpl: allocate along pointers and follow a pointer held in an
\* interface, decode, and take back what was allocated if that failed.
Reflect(T, d, v) ==
    CASE T.k = "pointer" -> resetAllocated(d, Reflect(T.elem, Target(T, d), v))
      [] T.k = "any" /\ HoldsPointer(d) ->
             LET r == Reflect(d.holds, d.x, v) IN [ok |-> r.ok, dst |-> Boxed(d.holds, r.dst)]
      [] OTHER -> decodeFromType(T, d, Resolve(v))

-----------------------------------------------------------------------------
(* Generated unmarshalers.                                                  *)

RECURSIVE Generated(_, _, _)

\* emitSliceOpen: Slice checks the declared size before anything is changed.
emitSlice(T, d, v) ==
    LET n == Len(v.elems)
        loop[i \in 0 .. n] ==
            IF i = 0 THEN Done(SliceFor(T, d, n))
            ELSE LET s == loop[i - 1] IN
                 IF ~s.ok THEN s
                 ELSE LET r == Generated(T, s.dst.cells[i], v.elems[i]) IN
                      [ok |-> r.ok, dst |-> [s.dst EXCEPT !.cells[i] = r.dst]]
    IN IF v.cut THEN Fail(d) ELSE loop[n]

\* emitByteSliceHelper: bytes are copied into the destination's own backing array.
emitBytes(d, v) ==
    LET n == Len(v.elems) IN
    CASE v.k = "bytes" ->
             IF d = Nil \/ Capacity(d) < n THEN Done(Backing(v.elems, n))
             ELSE Done(Backing([i \in DOMAIN d.cells |->
                                   IF i <= n THEN v.elems[i] ELSE d.cells[i]], n))
      [] OTHER -> emitSlice(Integer(FALSE, 2), d, v)

\* emitMap and emitCustomKeyMap: the latter leaves the declared size unchecked unless
\* it makes the map.
emitMap(T, d, v) ==
    LET loop[i \in 0 .. Len(v.entries)] ==
            IF i = 0 THEN Done(MapFor(d))
            ELSE LET s == loop[i - 1]  e == v.entries[i] IN
                 IF ~s.ok THEN s
                 ELSE IF KeyOf(T, e.key) = NoKey THEN Fail(s.dst)
                 ELSE LET r == Generated(T.elem, Zero(T.elem), e.v) IN
                      [ok |-> r.ok, dst |-> IF r.ok THEN (e.key :> r.dst) @@ s.dst ELSE s.dst]
        end == loop[Len(v.entries)]
    IN IF v.cut /\ (~T.customKey \/ d = Nil) THEN Fail(d)
       ELSE IF v.cut THEN Fail(end.dst) ELSE end

\* emitStruct: a field's second occurrence is refused.
emitField(f, d, v) == IF ~WithinMaxSize(f, v) THEN Fail(d) ELSE Generated(f.type, d, v)
emitStruct(T, d, v) ==
    LET seen(i) == \E j \in 1 .. i - 1 : v.entries[j].key = v.entries[i].key
        loop[i \in 0 .. Len(v.entries)] ==
            IF i = 0 THEN Done(d)
            ELSE LET s == loop[i - 1]  e == v.entries[i] IN
                 IF ~s.ok THEN s
                 ELSE IF e.key = NoKey THEN Fail(s.dst)
                 ELSE IF e.key \notin DOMAIN T.fields
                      THEN [ok |-> Skippable(e.v), dst |-> s.dst]
                 ELSE IF seen(i) THEN Fail(s.dst)
                 ELSE LET r == emitField(T.fields[e.key], s.dst[e.key], e.v) IN
                      [ok |-> r.ok, dst |-> [s.dst EXCEPT ![e.key] = r.dst]]
        end == loop[Len(v.entries)]
    IN IF v.cut THEN Fail(end.dst) ELSE end

\* emitDecode.
emitValue(T, d, v) ==
    CASE v.k \in NumberKinds /\ T.k = "integer"      -> emitInteger(T, d, v)
      [] v.k \in {"bytes", "slice"} /\ T.k = "bytes" -> emitBytes(d, v)
      [] v.k = "slice" /\ T.k = "slice"              -> emitSlice(T.elem, d, v)
      [] v.k = "map" /\ T.k = "map"                  -> emitMap(T, d, v)
      [] v.k = "map" /\ T.k = "struct"               -> emitStruct(T, d, v)
      [] OTHER -> Fail(d)
\* The code emitted for a pointer: a nil one is set once a new value is decoded.
emitPointer(d, r) ==
    CASE d # Nil -> [ok |-> r.ok, dst |-> Pointee(r.dst)]
      [] r.ok    -> Done(Pointee(r.dst))
      [] OTHER   -> Fail(Nil)
Generated(T, d, v) ==
    IF T.k = "pointer" THEN emitPointer(d, Generated(T.elem, Target(T, d), v))
    ELSE emitValue(T, d, Resolve(v))

\* The generator takes no interfaces.
RECURSIVE Generates(_)
Generates(T) ==
    CASE T.k = "any" -> FALSE
      [] T.k \in {"pointer", "slice", "map"} -> Generates(T.elem)
      [] T.k = "struct" -> \A f \in DOMAIN T.fields : Generates(T.fields[f].type)
      [] OTHER -> TRUE

-----------------------------------------------------------------------------
Init == type \in Types /\ dst \in Values(type) /\ last = Nil

Decode(by, v, r) ==
    /\ dst' = r.dst /\ last' = [by |-> by, before |-> dst, v |-> v, ok |-> r.ok]
    /\ UNCHANGED type

DecodeByReflection(v) == Decode("reflection", v, Reflect(type, dst, v))
DecodeGenerated(v) == Generates(type) /\ Decode("generated", v, Generated(type, dst, v))

\* The caller keeps the value for its next record.
Keep == last # Nil /\ last' = Nil /\ UNCHANGED <<type, dst>>

Next ==
    \/ last = Nil /\ \E v \in Records(type) : DecodeByReflection(v) \/ DecodeGenerated(v)
    \/ Keep

Spec == Init /\ [][Next]_vars

-----------------------------------------------------------------------------
(* What decoding means, without capacities, reuse and order of steps.       *)

\* What the caller can see of a value.
RECURSIVE View(_, _)
View(T, d) ==
    IF d = Nil THEN Nil
    ELSE CASE T.k = "pointer" -> Pointee(View(T.elem, d.to))
           [] T.k = "slice"   -> [i \in 1 .. d.len |-> View(T.elem, d.cells[i])]
           [] T.k = "bytes"   -> IF "len" \in DOMAIN d THEN SubSeq(d.cells, 1, d.len) ELSE d
           [] T.k = "map"     -> [key \in DOMAIN d |-> View(T.elem, d[key])]
           [] T.k = "struct"  -> [f \in DOMAIN d |-> View(T.fields[f].type, d[f])]
           [] T.k = "any"     -> Boxed(d.holds, View(d.holds, d.x))
           [] OTHER           -> d

KeysOf(v) == {v.entries[i].key : i \in DOMAIN v.entries}
\* The value of the last entry with this key.
ValueOf(v, key) ==
    v.entries[CHOOSE i \in DOMAIN v.entries :
        /\ v.entries[i].key = key
        /\ \A j \in i + 1 .. Len(v.entries) : v.entries[j].key # key].v

\* Whether a value of type T that looks like w can be decoded from record u, and one
\* entry e of a record into a struct or a map.
RECURSIVE Fits(_, _, _)
EntryFits(T, w, e) ==
    IF T.k = "map" THEN KeyOf(T, e.key) # NoKey /\ Fits(T.elem, Zero(T.elem), e.v)
    ELSE /\ e.key # NoKey
         /\ IF e.key \in DOMAIN T.fields
            THEN WithinMaxSize(T.fields[e.key], e.v) /\ Fits(T.fields[e.key].type, w[e.key], e.v)
            ELSE Skippable(e.v)
Fits(T, w, u) ==
    LET v == Resolve(u) IN
    CASE T.k = "pointer" -> Fits(T.elem, IF w = Nil THEN Zero(T.elem) ELSE w.to, u)
      [] T.k = "any" /\ HoldsPointer(w) -> Fits(w.holds, w.x, u)
      [] v.k = "bad" -> FALSE
      [] T.k = "any" /\ v.k = "slice" ->
             ~v.cut /\ \A i \in DOMAIN v.elems : Fits(Interface, Nil, v.elems[i])
      [] T.k = "any" /\ v.k = "map" ->
             /\ ~v.cut /\ NoKey \notin KeysOf(v)
             /\ \A i \in DOMAIN v.entries : Fits(Interface, Nil, v.entries[i].v)
      [] T.k = "any" -> TRUE
      [] T.k = "integer" -> v.k \in NumberKinds /\ InRange(T, v.n)
      [] T.k = "bytes" -> \/ v.k = "bytes"
                          \/ /\ v.k = "slice" /\ ~v.cut
                             /\ \A i \in DOMAIN v.elems : Fits(Integer(FALSE, 2), 0, v.elems[i])
      [] T.k = "slice" ->
             /\ v.k = "slice" /\ ~v.cut
             /\ \A i \in DOMAIN v.elems : Fits(T.elem, Zero(T.elem), v.elems[i])
      [] OTHER -> /\ v.k = "map" /\ ~v.cut
                  /\ \A i \in DOMAIN v.entries : EntryFits(T, w, v.entries[i])

\* What it looks like then: elements of slices and maps are new, entries of a map
\* and fields that the record does not mention stay as they are.
RECURSIVE Meaning(_, _, _)
Meaning(T, w, u) ==
    LET v == Resolve(u) IN
    CASE T.k = "pointer" ->
             Pointee(Meaning(T.elem, IF w = Nil THEN Zero(T.elem) ELSE w.to, u))
      [] T.k = "any" /\ HoldsPointer(w) -> Boxed(w.holds, Meaning(w.holds, w.x, u))
      [] T.k = "any" /\ v.k = "slice" -> Boxed(SliceOf(Interface), Meaning(SliceOf(Interface), Nil, u))
      [] T.k = "any" /\ v.k = "map" -> Boxed(MapOf(Interface), Meaning(MapOf(Interface), Nil, u))
      [] v.k \in NumberKinds -> IF T.k = "any" THEN Boxed([k |-> "integer"], v.n) ELSE v.n
      [] T.k = "any" -> Boxed([k |-> v.k], v)
      [] v.k = "bytes" -> v.elems
      [] T.k = "bytes" -> [i \in DOMAIN v.elems |-> Resolve(v.elems[i]).n]
      [] T.k = "slice" -> [i \in DOMAIN v.elems |-> Meaning(T.elem, Zero(T.elem), v.elems[i])]
      [] T.k = "map" ->
             [key \in KeysOf(v) \cup DOMAIN MapFor(w) |->
                 IF key \in KeysOf(v) THEN Meaning(T.elem, Zero(T.elem), ValueOf(v, key))
                 ELSE w[key]]
      [] T.k = "struct" ->
             [f \in DOMAIN T.fields |->
                 IF f \in KeysOf(v) THEN Meaning(T.fields[f].type, w[f], ValueOf(v, f)) ELSE w[f]]

\* No struct meets one of its fields twice in the record.
RECURSIVE FieldsOnce(_, _)
FieldsOnce(T, u) ==
    LET v == Resolve(u) IN
    CASE T.k = "pointer" -> FieldsOnce(T.elem, u)
      [] T.k = "slice" /\ v.k = "slice" -> \A i \in DOMAIN v.elems : FieldsOnce(T.elem, v.elems[i])
      [] T.k = "map" /\ v.k = "map" -> \A i \in DOMAIN v.entries : FieldsOnce(T.elem, v.entries[i].v)
      [] T.k = "struct" /\ v.k = "map" ->
             \A i, j \in DOMAIN v.entries : v.entries[i].key \in DOMAIN T.fields =>
                 /\ v.entries[i].key = v.entries[j].key => i = j
                 /\ FieldsOnce(T.fields[v.entries[i].key].type, v.entries[i].v)
      [] OTHER -> TRUE

\* A uint64 beyond the largest int64 meets a signed integer: reflection converts it
\* before it asks for an overflow (reflection.go:1470) and may store another number.
RECURSIVE MeetsWrap(_, _)
MeetsWrap(T, u) ==
    LET v == Resolve(u) IN
    CASE T.k = "integer" -> T.signed /\ v.k = "uint64" /\ ~InRange(int64, v.n)
      [] T.k = "pointer" -> MeetsWrap(T.elem, u)
      [] T.k = "slice" /\ v.k = "slice" -> \E i \in DOMAIN v.elems : MeetsWrap(T.elem, v.elems[i])
      [] T.k = "map" /\ v.k = "map" -> \E i \in DOMAIN v.entries : MeetsWrap(T.elem, v.entries[i].v)
      [] T.k = "struct" /\ v.k = "map" ->
             \E i \in DOMAIN v.entries :
                 /\ v.entries[i].key \in DOMAIN T.fields
                 /\ MeetsWrap(T.fields[v.entries[i].key].type, v.entries[i].v)
      [] OTHER -> FALSE

\* No container of the record is cut.
RECURSIVE Whole(_)
Whole(v) ==
    CASE v.k = "reference" -> Whole(v.to)
      [] v.k = "slice" -> ~v.cut /\ \A i \in DOMAIN v.elems : Whole(v.elems[i])
      [] v.k = "map"   -> ~v.cut /\ \A i \in DOMAIN v.entries : Whole(v.entries[i].v)
      [] OTHER         -> TRUE

-----------------------------------------------------------------------------
(* Properties.                                                              *)

Decoded == last # Nil /\ FieldsOnce(type, last.v)
\* Not by reflection from a number that it wraps, the case of IntegersKeepTheirValue.
WithoutWrap == last.by = "generated" \/ ~MeetsWrap(type, last.v)

\* Whatever the destination held before and whichever decoder runs, decoding succeeds
\* exactly when the record fits the type, and then leaves what the record says:
\* nothing of an earlier record shows in a slice or map element, and what the record
\* does not mention is still there.  A uint64 with its top bit set that reflection
\* decodes into a signed integer is excepted: it does not fit and is stored all the
\* same (reflection.go:1470; IntegersKeepTheirValue).
DecodesAsDocumented ==
    Decoded /\ WithoutWrap => \A before \in {View(type, last.before)} :
        /\ last.ok <=> Fits(type, before, last.v)
        /\ last.ok => View(type, dst) = Meaning(type, before, last.v)

\* Generated code and reflection do the same to the same destination, also where
\* they fail half-way, unless a container declares more than the file holds or a
\* uint64 with its top bit set meets a signed integer, which generated code refuses
\* (generate.go:1894) and reflection wraps.
DecodersAgree ==
    Decoded /\ Generates(type) /\ Whole(last.v) /\ ~MeetsWrap(type, last.v) =>
        \A r \in {Reflect(type, last.before, last.v)}, g \in {Generated(type, last.before, last.v)} :
            r.ok = g.ok /\ View(type, r.dst) = View(type, g.dst)

\* Behind the visible end of a reused slice nothing of an earlier record is kept
\* alive, at any level of the destination.
RECURSIVE TailClear(_, _)
TailClear(T, d) ==
    IF d = Nil THEN TRUE
    ELSE CASE T.k = "pointer" -> TailClear(T.elem, d.to)
           [] T.k = "slice"   -> \A i \in DOMAIN d.cells :
                                    IF i <= d.len THEN TailClear(T.elem, d.cells[i])
                                    ELSE d.cells[i] = Zero(T.elem)
           [] T.k = "map"     -> \A key \in DOMAIN d : TailClear(T.elem, d[key])
           [] T.k = "struct"  -> \A f \in DOMAIN d : TailClear(T.fields[f].type, d[f])
           [] T.k = "any"     -> TailClear(d.holds, d.x)
           [] OTHER           -> TRUE
HiddenTailsClear == last # Nil => TailClear(type, dst)

\* The first entry of a map in the database that cannot be decoded into a value of
\* type T that looks like w, or one more than there are.
FirstUnfit(T, w, v) ==
    CHOOSE i \in 1 .. Len(v.entries) + 1 :
        /\ i \in DOMAIN v.entries => ~EntryFits(T, w, v.entries[i])
        /\ \A j \in 1 .. i - 1 : EntryFits(T, w, v.entries[j])

\* Value e of type T is a fair remainder of d, after record u could not be decoded into
\* it: changed, if at all, only by what comes before the failure.
RECURSIVE Contained(_, _, _, _)
Contained(T, d, e, u) ==
    LET v == Resolve(u) IN
    CASE T.k = "pointer" -> IF d = Nil THEN e = Nil ELSE e # Nil /\ Contained(T.elem, d.to, e.to, u)
      [] T.k = "struct" /\ v.k = "map" ->
             LET w == View(T, d)  first == FirstUnfit(T, w, v) IN
             \A f \in DOMAIN T.fields :
                 LET field == T.fields[f] IN
                 CASE \E i \in 1 .. first - 1 : v.entries[i].key = f ->
                          View(field.type, e[f]) = Meaning(field.type, w[f], ValueOf(v, f))
                   [] first \in DOMAIN v.entries /\ v.entries[first].key = f
                          /\ WithinMaxSize(field, v.entries[first].v) ->
                          Contained(field.type, d[f], e[f], v.entries[first].v)
                   [] OTHER -> e[f] = d[f]
      [] T.k = "map" /\ v.k = "map" ->
             LET first == FirstUnfit(T, View(T, d), v) IN
             /\ DOMAIN MapFor(d) \subseteq DOMAIN MapFor(e)
             /\ \A key \in DOMAIN MapFor(e) :
                    \/ key \in DOMAIN MapFor(d) /\ e[key] = d[key]
                    \/ \E i \in 1 .. first - 1 :
                           /\ v.entries[i].key = key
                           /\ View(T.elem, e[key]) = Meaning(T.elem, Zero(T.elem), v.entries[i].v)
      [] T.k \in {"slice", "bytes"} /\ v.k = "slice" ->
             LET elem == IF T.k = "bytes" THEN Integer(FALSE, 2) ELSE T.elem
                 fits(j) == Fits(elem, Zero(elem), v.elems[j])
             IN IF v.cut /\ (last.by = "generated" \/ Capacity(d) < Size(v)) THEN e = d
                ELSE /\ e # Nil /\ e.len = Size(v)
                     /\ \A i \in 1 .. e.len :
                           CASE i \in DOMAIN v.elems /\ \A j \in 1 .. i : fits(j) ->
                                    View(elem, e.cells[i]) = Meaning(elem, Zero(elem), v.elems[i])
                             [] i \in DOMAIN v.elems /\ ~fits(i) /\ \A j \in 1 .. i - 1 : fits(j) ->
                                    Contained(elem, Zero(elem), e.cells[i], v.elems[i])
                             [] OTHER -> e.cells[i] = Zero(elem)
      [] T.k = "any" -> HoldsPointer(d) => Contained(d.holds, d.x, e.x, u)
      [] OTHER -> e = d

\* A decode that fails half-way is contained, at every level of the destination: the
\* fields mentioned before the entry that fails have their whole value, the field that
\* fails is left alone when it is over its maxsize, and all others, those mentioned
\* after that entry and those not mentioned at all, are as they were.  A pointer that
\* was nil is nil again if its value fails, a map is only given whole values, and a
\* slice that was begun holds the elements before the failure and nothing of earlier
\* records.  What an interface receives may be partly filled, and the uint64 of
\* DecodesAsDocumented is excepted.
FailuresContained ==
    Decoded /\ WithoutWrap /\ ~last.ok => Contained(type, last.before, dst, last.v)

\* What UnmarshalTypeError is for: an integer that the destination's type cannot hold
\* is an error, never another integer.
IntegersKeepTheirValue ==
    type.k = "integer" /\ last # Nil /\ last.ok => dst = last.v.n
=============================================================================
