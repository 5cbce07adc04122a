----------------------------- MODULE FieldTables -----------------------------
(* How the decoder finds the field of a Go struct that a key of a database   *)
(* map belongs to.  The first decode into a struct type builds the type's    *)
(* field table (makeStructFieldsWithStack): a breadth-first walk over the    *)
(* embedded structs, the tables of nested struct types on the way, the       *)
(* precedence rules between fields of one name, and a table of fingerprints. *)
(* The table is published once per type in a sync.Map and then shared by     *)
(* all goroutines and all databases, which look keys up in it and leave      *)
(* hints, indexed by the key's offset in whatever database they read.        *)
(*                                                                           *)
(* A type declaration is a sequence of fields, a field a record              *)
(*   name      the key it stands for: its tag's name, or else its Go name    *)
(*   tag       "none", "named", "ignored", "bad" (refused by the tag parser, *)
(*             or a maxsize its type cannot have) or "malformed" (a tag that *)
(*             reflect.StructTag does not find)                              *)
(*   exported, anonymous, pointer    as declared                             *)
(*   type      the struct type it holds or points to, or Scalar              *)
(* The parser of tag texts is abstracted to that classification.             *)
EXTENDS Integers, Sequences, FiniteSets, SequencesExt

CONSTANTS Types,         \* the struct types
          Scalar,        \* every other type of a field
          Keys,          \* the keys of database maps, names of fields among them
          Fingerprint,   \* fieldKeyFingerprint, as far as its slot depends on it
          Slots,         \* fieldOffsetCacheSlots: the hints of a table
          Programs,      \* the programs that decode, see Init
          Nil

ASSUME FingerprintAssumption == Fingerprint \in [Keys -> Nat \ {0}]
ASSUME NilAssumption == Nil \notin Keys

VARIABLES decl,      \* the declarations of the program's struct types
          root,      \* per goroutine: the type it decodes into
          fieldsMap, \* the published table of a type, or Nil
          heap,      \* every table that was built, by the type and its builder
          frames,    \* per goroutine: its calls of makeStructFieldsWithStack
          table,     \* per goroutine: the table it decodes a struct with, or Nil
          lookup     \* per goroutine: the key it decodes, and the field found

vars == <<decl, root, fieldsMap, heap, frames, table, lookup>>

-----------------------------------------------------------------------------
(* The fields of one struct type.                                            *)

\* Unexported fields are skipped, except embedded structs; so are ignored ones.
Skipped(f) ==
    \/ ~f.exported /\ ~(f.anonymous /\ ~f.pointer /\ f.type # Scalar)
    \/ f.tag = "ignored"

\* getEmbeddedStructType: an anonymous field that is a struct or points to one.
Embedded(f) == f.anonymous /\ f.type # Scalar

HasTag(f) == f.tag = "named"

\* An embedded struct is a field of its own only under an explicit name.
IsField(f) == ~Embedded(f) \/ HasTag(f)

-----------------------------------------------------------------------------
(* Building a table.                                                         *)

Entry(typ, index) == [type |-> typ, index |-> index]

\* The start of makeStructFieldsWithStack.
NewFrame(typ) ==
    [type |-> typ, queue |-> <<Entry(typ, <<>>)>>, at |-> 1, seen |-> {typ},
     all |-> <<>>, err |-> FALSE]

\* The field the walk is at.
Current(frame) == decl[Head(frame.queue).type][frame.at]

\* handleEmbeddedField: an embedded type is queued the first time it is met.
handleEmbeddedField(frame, f, index) ==
    IF Embedded(f) /\ f.type \notin frame.seen
    THEN [frame EXCEPT !.queue = Append(@, Entry(f.type, index)), !.seen = @ \cup {f.type}]
    ELSE frame

\* One turn of the loop over a type's fields; nested is the table of the
\* field's own struct type where it has one.
Walk(frame, nested) ==
    LET f     == Current(frame)
        index == Append(Head(frame.queue).index, frame.at)
        next  == [frame EXCEPT !.at = @ + 1]
        info  == [name |-> f.name, index |-> index, hasTag |-> HasTag(f),
                  depth |-> Len(index) - 1, nested |-> nested]
        queued == handleEmbeddedField([next EXCEPT !.err = @ \/ f.tag = "bad"], f, index)
    IN  IF Skipped(f) THEN next
        ELSE IF IsField(f) THEN [queued EXCEPT !.all = Append(@, info)] ELSE queued

\* Mutant of Replaces: a tag counts more than depth.
TagBeforeDepth(candidate, dominant) ==
    \/ candidate.hasTag /\ ~dominant.hasTag
    \/ candidate.hasTag = dominant.hasTag /\ candidate.depth < dominant.depth

\* Shallowest, then explicitly tagged, then first declared: the candidate
\* takes the place of the dominant field only if it is strictly better.
Replaces(candidate, dominant) ==
    \/ candidate.depth < dominant.depth
    \/ candidate.depth = dominant.depth /\ candidate.hasTag /\ ~dominant.hasTag

Dominant(fields) ==
    FoldLeft(LAMBDA dominant, candidate :
                 IF Replaces(candidate, dominant) THEN candidate ELSE dominant,
             Head(fields), Tail(fields))

\* namedFields: the dominant field of every name.
NamedFields(all) ==
    [n \in {all[i].name : i \in DOMAIN all} |-> Dominant(SelectSeq(all, LAMBDA f : f.name = n))]

TableSize(count) ==
    CHOOSE s \in {1, 2, 4, 8, 16} : s >= 2 * count /\ (s = 1 \/ s < 4 * count)

\* The slot a fingerprint ends up in: its own or an empty one, by linear probing.
Probe(slots, fingerprint) ==
    LET size == Cardinality(DOMAIN slots)
        At(k) == (fingerprint + k) % size
        stop == CHOOSE k \in 0 .. size :
                    /\ slots[At(k)].fingerprint \in {0, fingerprint}
                    /\ \A j \in 0 .. k - 1 : slots[At(j)].fingerprint \notin {0, fingerprint}
    IN  At(stop)

\* Two fields with one fingerprint leave an entry without a field.
Insert(slots, name) ==
    LET i == Probe(slots, Fingerprint[name])
    IN  [slots EXCEPT ![i] =
            [fingerprint |-> Fingerprint[name],
             field |-> IF slots[i].fingerprint = 0 THEN name ELSE Nil]]

\* makeFingerprintFields, for one order of the map's iteration.
makeFingerprintFields(order) ==
    FoldLeft(Insert,
             [i \in 0 .. TableSize(Len(order)) - 1 |-> [fingerprint |-> 0, field |-> Nil]],
             order)

-----------------------------------------------------------------------------
(* Looking up a key.                                                         *)

\* fieldForKey: by fingerprint, and by name where that is not conclusive.
fieldForKey(t, key) ==
    LET entry == t.fingerprints[Probe(t.fingerprints, Fingerprint[key])]
    IN  IF entry.fingerprint = 0 THEN Nil
        ELSE IF entry.field = key THEN key
        ELSE IF key \in DOMAIN t.named THEN key ELSE Nil

\* Mutant of HintFor: the hint of the slot is used unseen.
AnyHint(hint, key) == hint

\* A hint counts only if it is about this very key.
HintFor(hint, key) == IF hint = key THEN hint ELSE Nil

-----------------------------------------------------------------------------
(* The steps of a goroutine.                                                 *)

NoLookup(left) == [step |-> "none", key |-> Nil, slot |-> Nil, field |-> Nil, left |-> left]

\* A program declares its types, and goroutine g decodes into the type root[g],
\* looking up at most lookups[g] keys.
Init ==
    /\ \E p \in Programs :
           /\ decl = p.decl
           /\ root = p.root
           /\ frames = [g \in DOMAIN p.lookups |-> << >>]
           /\ table = [g \in DOMAIN p.lookups |-> Nil]
           /\ lookup = [g \in DOMAIN p.lookups |-> NoLookup(p.lookups[g])]
    /\ fieldsMap = [t \in Types |-> Nil]
    /\ heap = << >>

Goroutines == DOMAIN frames

Top(g) == frames[g][Len(frames[g])]
Below(g) == SubSeq(frames[g], 1, Len(frames[g]) - 1)
SetTop(g, frame) == [frames EXCEPT ![g][Len(frames[g])] = frame]

\* stack: the types whose tables the goroutine is building.
Stack(g) == {frames[g][i].type : i \in DOMAIN frames[g]}

\* cachedFields for the struct that is to be decoded: load the table or build it.
LoadTable(g, typ) ==
    IF fieldsMap[typ] # Nil
    THEN table' = [table EXCEPT ![g] = fieldsMap[typ]] /\ UNCHANGED frames
    ELSE frames' = [frames EXCEPT ![g] = <<NewFrame(typ)>>] /\ table' = [table EXCEPT ![g] = Nil]

Decode(g) ==
    /\ frames[g] = << >> /\ table[g] = Nil
    /\ LoadTable(g, root[g])
    /\ UNCHANGED <<decl, root, fieldsMap, heap, lookup>>

\* The walk is at a field of the type at the head of the queue.
AtField(g) ==
    /\ frames[g] # << >>
    /\ Top(g).queue # << >>
    /\ Top(g).at <= Len(decl[Head(Top(g).queue).type])

\* A struct field whose type is not being built already gets that type's table.
NeedsTable(g) ==
    LET f == Current(Top(g))
    IN  ~Skipped(f) /\ IsField(f) /\ f.type # Scalar /\ f.type \notin Stack(g)

NextField(g) ==
    /\ AtField(g)
    /\ IF NeedsTable(g)
       THEN LET typ == Current(Top(g)).type
            IN  frames' = IF fieldsMap[typ] # Nil
                          THEN SetTop(g, Walk(Top(g), fieldsMap[typ]))
                          ELSE [frames EXCEPT ![g] = Append(@, NewFrame(typ))]
       ELSE frames' = SetTop(g, Walk(Top(g), Nil))
    /\ UNCHANGED <<decl, root, fieldsMap, heap, table, lookup>>

NextType(g) ==
    /\ frames[g] # << >> /\ Top(g).queue # << >> /\ ~AtField(g)
    /\ frames' = SetTop(g, [Top(g) EXCEPT !.queue = Tail(@), !.at = 1])
    /\ UNCHANGED <<decl, root, fieldsMap, heap, table, lookup>>

NewTable(frame, order) ==
    [named |-> NamedFields(frame.all), fingerprints |-> makeFingerprintFields(order),
     err |-> frame.err, hints |-> [s \in Slots |-> Nil]]

\* sync.Map.LoadOrStore: the first table published for a type stays.
LoadOrStore(typ, id) == IF fieldsMap[typ] = Nil THEN id ELSE fieldsMap[typ]

\* The table is complete: publish it, and use the one that is published.
Store(g) ==
    /\ frames[g] # << >> /\ Top(g).queue = << >>
    /\ LET frame  == Top(g)
           id     == <<frame.type, g>>
           actual == LoadOrStore(frame.type, id)
           below  == Below(g)
           rest   == Len(below)
       IN  /\ \E order \in SetToSeqs(DOMAIN NamedFields(frame.all)) :
                  heap' = [i \in DOMAIN heap \cup {id} |->
                              IF i = id THEN NewTable(frame, order) ELSE heap[i]]
           /\ fieldsMap' = [fieldsMap EXCEPT ![frame.type] = IF @ = Nil THEN id ELSE @]
           /\ frames' = [frames EXCEPT ![g] =
                             IF rest = 0 THEN << >>
                             ELSE [below EXCEPT ![rest] = Walk(@, actual)]]
           /\ table' = IF rest = 0 THEN [table EXCEPT ![g] = actual] ELSE table
    /\ UNCHANGED <<decl, root, lookup>>

Usable(g) == table[g] # Nil /\ frames[g] = << >> /\ ~heap[table[g]].err

\* The next key of the map, at some offset of some database: load the hint of
\* its slot.  A table without fields is not consulted (skipStructFields).
LoadHint(g) ==
    /\ Usable(g) /\ DOMAIN heap[table[g]].named # {}
    /\ lookup[g].step # "find" /\ lookup[g].left > 0
    /\ \E key \in Keys, slot \in Slots :
           LET hint == HintFor(heap[table[g]].hints[slot], key)
           IN  lookup' = [lookup EXCEPT ![g] =
                   [step |-> IF hint # Nil THEN "done" ELSE "find", key |-> key, slot |-> slot,
                    field |-> hint, left |-> @.left - 1]]
    /\ UNCHANGED <<decl, root, fieldsMap, heap, frames, table>>

\* No hint: search the table, and leave a hint in the slot if it is still empty.
Find(g) ==
    /\ lookup[g].step = "find"
    /\ LET field == fieldForKey(heap[table[g]], lookup[g].key)
           slot  == lookup[g].slot
       IN  /\ lookup' = [lookup EXCEPT ![g].step = "done", ![g].field = field]
           /\ heap' = [heap EXCEPT ![table[g]].hints[slot] =
                           IF field # Nil /\ @ = Nil THEN field ELSE @]
    /\ UNCHANGED <<decl, root, fieldsMap, frames, table>>

FoundField(g) == heap[table[g]].named[lookup[g].field]

\* The type of a table, and the declaration behind one of its fields.
TypeOf(id) == id[1]

TypeAt(typ, index) ==
    FoldLeft(LAMBDA t, i : decl[t][i].type, typ, index)

Declared(typ, index) == decl[TypeAt(typ, SubSeq(index, 1, Len(index) - 1))][index[Len(index)]]

\* The value found is a map and its field a struct: decode it with the field's
\* own table, or, where the types are recursive, with the one looked up now.
Descend(g) ==
    /\ Usable(g) /\ lookup[g].step = "done" /\ lookup[g].field # Nil
    /\ lookup[g].left > 0
    /\ LET f == FoundField(g)
           d == Declared(TypeOf(table[g]), f.index)
       IN  /\ d.type # Scalar
           /\ IF f.nested # Nil
              THEN table' = [table EXCEPT ![g] = f.nested] /\ UNCHANGED frames
              ELSE LoadTable(g, d.type)
    /\ lookup' = [lookup EXCEPT ![g] = NoLookup(lookup[g].left)]
    /\ UNCHANGED <<decl, root, fieldsMap, heap>>

Next == \E g \in Goroutines :
    \/ Decode(g)
    \/ NextField(g)
    \/ NextType(g)
    \/ Store(g)
    \/ LoadHint(g)
    \/ Find(g)
    \/ Descend(g)

Spec == Init /\ [][Next]_vars

-----------------------------------------------------------------------------
(* The generator's view of the same declarations.                            *)

\* analyzeStruct and analyzeType: nothing embedded, no recursion, no tag it
\* cannot read, no name twice, and the same of every nested struct.
analyzeStruct[arg \in Types \X SUBSET Types] ==
    LET fields == decl[arg[1]]
        Kept   == {i \in DOMAIN fields : fields[i].exported /\ fields[i].tag # "ignored"}
    IN  /\ arg[1] \notin arg[2]
        /\ \A i \in DOMAIN fields : ~fields[i].anonymous
        /\ \A i \in Kept :
               /\ fields[i].tag \notin {"bad", "malformed"}
               /\ \A j \in Kept : j # i => fields[j].name # fields[i].name
               /\ fields[i].type # Scalar => analyzeStruct[<<fields[i].type, arg[2] \cup {arg[1]}>>]

Generated(typ) == analyzeStruct[<<typ, {}>>]

\* structInfo.fields: the field decoded for a key.
GeneratedFields(typ) ==
    LET Kept == {i \in DOMAIN decl[typ] : decl[typ][i].exported /\ decl[typ][i].tag # "ignored"}
    IN  [n \in {decl[typ][i].name : i \in Kept} |->
            <<CHOOSE i \in Kept : decl[typ][i].name = n>>]

-----------------------------------------------------------------------------
(* What a struct type's fields are, said without a walk: every way through   *)
(* embedded structs to a field of the name is a candidate.                   *)

EmbeddingPaths[arg \in Types \X Nat] ==
    LET fields == decl[arg[1]]
        Into   == {i \in DOMAIN fields : ~Skipped(fields[i]) /\ Embedded(fields[i])}
    IN  {<< >>} \cup
        IF arg[2] = 0 THEN {}
        ELSE UNION {{<<i>> \o p : p \in EmbeddingPaths[<<fields[i].type, arg[2] - 1>>]} : i \in Into}

Candidates(typ) ==
    UNION {{Append(p, i) : i \in {i \in DOMAIN decl[TypeAt(typ, p)] :
                LET f == decl[TypeAt(typ, p)][i] IN ~Skipped(f) /\ IsField(f)}}
           : p \in EmbeddingPaths[<<typ, Cardinality(Types)>>]}

DeclaredBefore(p, q) ==
    \E k \in DOMAIN p \cap DOMAIN q : p[k] < q[k] /\ \A j \in 1 .. k - 1 : p[j] = q[j]

Wins(typ, p, q) ==
    LET tagged(x) == HasTag(Declared(typ, x))
    IN  \/ Len(p) < Len(q)
        \/ Len(p) = Len(q) /\ tagged(p) /\ ~tagged(q)
        \/ Len(p) = Len(q) /\ tagged(p) = tagged(q) /\ DeclaredBefore(p, q)

DocumentedFields(typ) ==
    LET all == Candidates(typ)
        named(n) == {p \in all : Declared(typ, p).name = n}
    IN  [n \in {Declared(typ, p).name : p \in all} |->
            CHOOSE p \in named(n) : \A q \in named(n) \ {p} : Wins(typ, p, q)]

(* Every table that is published maps each name to the shallowest field of   *)
(* that name, at one depth to the tagged one and then to the first declared, *)
(* over every path through embedded structs, recursive and repeated ones     *)
(* included; and a struct the generator accepts has no other fields in       *)
(* generated code than by reflection.                                        *)
FieldsResolved ==
    \A typ \in Types : fieldsMap[typ] # Nil =>
        LET t == heap[fieldsMap[typ]]
        IN  /\ ~t.err => [n \in DOMAIN t.named |-> t.named[n].index] = DocumentedFields(typ)
            /\ Generated(typ) => /\ ~t.err
                                 /\ [n \in DOMAIN t.named |-> t.named[n].index] = GeneratedFields(typ)

(* Whatever other goroutines build, publish and leave as hints for other     *)
(* keys of other databases, and however fingerprints collide, a key is       *)
(* decoded into the field of its name or, if there is none, skipped; and no  *)
(* goroutine and no field uses another table of a type than the published    *)
(* one, so that hints are shared and none is lost.                           *)
LookupsExact ==
    /\ \A g \in Goroutines :
           lookup[g].step = "done" =>
               lookup[g].field = IF lookup[g].key \in DOMAIN DocumentedFields(TypeOf(table[g]))
                                 THEN lookup[g].key ELSE Nil
    /\ \A g \in Goroutines : table[g] # Nil => table[g] = fieldsMap[TypeOf(table[g])]
    /\ \A id \in DOMAIN heap : \A n \in DOMAIN heap[id].named :
           LET nested == heap[id].named[n].nested
           IN  nested # Nil => nested = fieldsMap[TypeOf(nested)]
=============================================================================
