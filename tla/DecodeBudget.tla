---------------------------- MODULE DecodeBudget ----------------------------
(***************************************************************************)
(* How reflection decoding keeps a small record from expanding without     *)
(* bound (internal/decoder/reflection.go).  Containers may be shared       *)
(* through pointers, even in cycles, so that a value's size is not bounded *)
(* by the file's.  The first container of an operation activates a budget: *)
(* each container reserves its children, each string or key that is copied *)
(* reserves its bytes, and nesting is limited.  Before a large allocation  *)
(* the whole contents are walked by a validator with an allowance of its   *)
(* own.                                                                    *)
(*                                                                         *)
(* The recursion of decodeValue is made explicit in frames.  In a section  *)
(* a string's n is the length of its payload, and a number is of a kind    *)
(* that the validator accepts inline: a bool or a short unsigned integer.  *)
(***************************************************************************)
EXTENDS DataSection, FiniteSets

CONSTANTS
    Sections,          \* the data sections to decode
    Units,             \* decodeExpansionBudgetBytes in units: 32768
    Payload,           \* decodePayloadBudgetBytes: 2 MiB
    MaxDepth,          \* maximumDataStructureDepth: 512
    PreflightCount,    \* containerPreflightValueCount: 1024
    MaxPath            \* bound on the elements of a path

ASSUME BudgetAssumption ==
    /\ Sections \subseteq Seq(Record)
    /\ Units \in Nat /\ Payload \in Nat /\ MaxDepth \in Nat
    /\ PreflightCount \in Nat \ {0} /\ MaxPath \in Nat

VARIABLES
    section,           \* the data section
    root,              \* the offset given to Decode or DecodePath
    shape,             \* "any": an empty interface; "typed": structs, maps, slices
    path,              \* path elements not yet followed
    depth,             \* the nesting of the value at offset outside all frames
    offset,            \* the next value, or a map's next key
    frames,            \* the containers being decoded, innermost last
    budgetRemaining,   \* 0: not active; N: N - 1 units left
    payloadRemaining,
    visited,           \* children of containers decoded or skipped so far
    copied,            \* bytes of strings and keys copied so far
    verdict            \* "running", "ok", "tooLarge", or the other failures

vars == <<section, root, shape, path, depth, offset, frames, budgetRemaining,
          payloadRemaining, visited, copied, verdict>>
input == <<section, root, shape>>

Top == frames[Len(frames)]
Outer == SubSeq(frames, 1, Len(frames) - 1)

\* newBudgetedDecoder
FullBudget == Units + 1

Init ==
    /\ section \in Sections /\ root \in DOMAIN section
    /\ shape \in {"any", "typed"}
    /\ path \in 0 .. MaxPath /\ depth = path
    /\ offset = root /\ frames = <<>>
    /\ budgetRemaining = IF shape = "any" \/ path > 0 THEN FullBudget ELSE 0
    /\ payloadRemaining = Payload
    /\ visited = 0 /\ copied = 0 /\ verdict = "running"

Running == verdict = "running"
Active == budgetRemaining # 0

Stop(v) ==
    /\ verdict' = v
    /\ UNCHANGED <<input, path, depth, offset, frames, budgetRemaining, payloadRemaining,
                   visited, copied>>

-----------------------------------------------------------------------------
(* Reserving.                                                               *)

Exhausted == -1

\* reserveActiveContainer: the budget after a container, which stays above 0.
reserveActiveContainer(budget, kind, size) ==
    IF kind = "map"
    THEN IF size >= (budget + 1) \div 2 THEN Exhausted ELSE budget - 2 * size
    ELSE IF size >= budget THEN Exhausted ELSE budget - size

\* Mutant: a budget of which nothing is left counts as inactive.
payloadUnlessSpent(size) == IF budgetRemaining > 1 THEN size ELSE 0
\* reserveExactPayload: what a copied string or key is charged.
PayloadCharge(size) == IF Active THEN size ELSE 0

\* One turn of the loop of nextValueOffsetBudgetedSlow: the record at p is passed, and
\* a container's contents are reserved and come on top.
stepOver(skip, p) ==
    IF skip.left = 0 \/ skip.budget = Exhausted THEN skip
    ELSE [end    |-> p + 1,
          left   |-> skip.left - 1 + Values(section[p]),
          budget |-> IF section[p].kind \notin {"map", "slice"} THEN skip.budget
                     ELSE reserveActiveContainer(skip.budget, section[p].kind, section[p].n),
          seen   |-> skip.seen + Values(section[p])]

\* nextValueOffsetBudgetedSlow: skip n values and reserve what their containers
\* hold; pointers are not followed.
budgetedSkip(o, n, budget) ==
    LET walk[p \in o .. Len(section) + 1] ==
            IF p = o THEN [end |-> o, left |-> n, budget |-> budget, seen |-> 0]
            ELSE stepOver(walk[p - 1], p - 1)
        last == walk[Len(section) + 1]
    IN [end |-> IF last.left = 0 THEN last.end ELSE Bad,
        budget |-> last.budget, seen |-> last.seen]

\* structuralValidator: n values of a container of this kind, at this depth, with
\* the allowance left.  Targets are visited every time they are referenced.
Validated(kind, o, n, d, allowance) ==
    LET fail(why) == [end |-> Bad, left |-> 0, why |-> why]
        walk[k \in {"map", "slice"}, p \in Nat, m \in Nat, e \in Nat, left \in Nat] ==
            LET r == resolveCtrlData(section, p)
                deeper == IF r.next # 0 THEN e + 1 ELSE e
                isKey == k = "map" /\ m % 2 = 0
            IN IF m = 0 THEN [end |-> p, left |-> left, why |-> "ok"]
               ELSE IF r.kind = "bad" \/ (isKey /\ r.kind # "string") THEN fail("malformed")
               ELSE IF deeper > MaxDepth /\ (r.next # 0 \/ r.kind \in {"map", "slice"})
                    THEN fail("tooDeep")
               ELSE IF r.kind \notin {"map", "slice"} THEN walk[k, p + 1, m - 1, e, left]
               ELSE IF Values(r) > Len(section) - r.data + 1 THEN fail("malformed")
               ELSE IF Values(r) > left THEN fail("tooLarge")
               ELSE LET inside == walk[r.kind, r.data, Values(r), deeper + 1, left - Values(r)]
                    IN IF inside.end = Bad THEN inside
                       ELSE walk[k, IF r.next # 0 THEN r.next ELSE inside.end, m - 1, e, inside.left]
    IN walk[kind, o, n, d, allowance]

\* Mutant: the large container pays for its own children as well.
validateChargingChildren(kind, size, o, d) ==
    LET n == Values([kind |-> kind, n |-> size]) IN
    IF n > Len(section) - o + 1 THEN "malformed"
    ELSE IF n < PreflightCount THEN "ok"
    ELSE IF n > Units THEN "tooLarge"
    ELSE Validated(kind, o, n, d, Units - 2 * n).why
\* validateContainerSize: the bounds, and the validator from PreflightCount on.
validateContainerSize(kind, size, o, d) ==
    LET n == Values([kind |-> kind, n |-> size]) IN
    IF n > Len(section) - o + 1 THEN "malformed"
    ELSE IF n < PreflightCount THEN "ok"
    ELSE Validated(kind, o, n, d, Units).why

-----------------------------------------------------------------------------
(* The value at o, nested d deep.                                           *)

\* What the value leaves behind: the next offset, values visited, bytes copied.
Progress(next, values, bytes) ==
    /\ offset' = next /\ visited' = visited + values /\ copied' = copied + bytes
    /\ payloadRemaining' = payloadRemaining - PayloadCharge(bytes)

\* One entry of the innermost container is done, or the whole decode.
EntryDone ==
    IF frames = <<>> THEN UNCHANGED frames /\ verdict' = "ok"
    ELSE frames' = Append(Outer, [Top EXCEPT !.left = @ - 1]) /\ UNCHANGED verdict

\* A scalar, copied if it is a string.
decodeScalar(values, keyBytes, r) ==
    LET bytes == keyBytes + IF r.kind = "string" THEN r.n ELSE 0 IN
    IF PayloadCharge(bytes) > payloadRemaining THEN Stop("tooLarge")
    ELSE /\ Progress(IF r.next # 0 THEN r.next ELSE r.data, values, bytes) /\ EntryDone
         /\ UNCHANGED <<input, path, depth, budgetRemaining>>

\* unmarshalMap and unmarshalSlice.  dest is "all" when room is made for all entries,
\* "reused" when the caller's slice has that room, and "struct" when the fields that
\* the struct knows are read and the others skipped.
decodeContainer(d, values, keyBytes, r, dest) ==
    LET before == IF Active THEN budgetRemaining ELSE FullBudget
        after  == reserveActiveContainer(before, r.kind, r.n)
        sized  == IF dest = "all" THEN validateContainerSize(r.kind, r.n, r.data, d + 1) ELSE "ok"
    IN IF after = Exhausted THEN Stop("tooLarge")
       ELSE IF sized # "ok" THEN Stop(sized)
       ELSE /\ budgetRemaining' = after
            /\ frames' = Append(frames, [kind |-> r.kind, dest |-> dest, left |-> r.n,
                                         depth |-> d + 1, return |-> r.next])
            /\ Progress(r.data, values, keyBytes)
            /\ UNCHANGED <<input, path, depth, verdict>>

Destinations(kind) ==
    {"all"} \cup (IF shape = "any" THEN {} ELSE IF kind = "map" THEN {"struct"} ELSE {"reused"})

\* decodeValue, with the pointer followed if there is one.  Inside containers, typed
\* destinations read direct scalars on fast paths that do not look at the depth.
decodeValue(o, d, values, keyBytes) ==
    LET r  == resolveCtrlData(section, o)
        at == IF r.next # 0 THEN d + 1 ELSE d
        fast == shape = "typed" /\ frames # <<>> /\ r.next = 0
    IN \/ at > MaxDepth /\ Stop("tooDeep")
       \/ d <= MaxDepth /\ r.kind = "bad" /\ Stop("malformed")
       \/ /\ r.kind \in {"string", "number"} /\ (at <= MaxDepth \/ fast)
          /\ decodeScalar(values, keyBytes, r)
       \/ /\ r.kind \in {"map", "slice"} /\ at <= MaxDepth
          /\ \E dest \in Destinations(r.kind) : decodeContainer(at, values, keyBytes, r, dest)
       \/ \* the destination's type does not fit
          shape = "typed" /\ Stop("mismatch")

\* tryCustomUnmarshal: an Unmarshaler reads the value with no budget and the decoder
\* goes on behind it.
tryCustomUnmarshal(o, d, values, keyBytes) ==
    LET end == nextValueOffset(section, o, 1) IN
    /\ shape = "typed" /\ d <= MaxDepth
    /\ IF end = Bad THEN Stop("malformed")
       ELSE /\ Progress(end, values, keyBytes) /\ EntryDone
            /\ UNCHANGED <<input, path, depth, budgetRemaining>>

decodeAt(o, d, values, keyBytes) ==
    decodeValue(o, d, values, keyBytes) \/ tryCustomUnmarshal(o, d, values, keyBytes)

\* Decode, or the end of a path.
DecodeRoot ==
    /\ Running /\ path = 0 /\ frames = <<>> /\ decodeAt(offset, depth, 0, 0)

In(kind, dests) == Running /\ frames # <<>> /\ Top.kind = kind /\ Top.left > 0 /\ Top.dest \in dests

decodeElement == In("slice", {"all", "reused"}) /\ decodeAt(offset, Top.depth, 1, 0)

\* The key at offset: where its value starts and how long it is.
KeyEnd == decodeKey(section, offset)
KeyLength == resolveCtrlData(section, offset).n

\* An entry of a Go map, or of a struct's field, which needs no copy of the key.
decodeEntry ==
    /\ In("map", {"all", "struct"})
    /\ LET keyBytes == IF Top.dest = "all" THEN KeyLength ELSE 0 IN
       IF KeyEnd = Bad THEN Stop("malformed")
       ELSE IF PayloadCharge(keyBytes) > payloadRemaining THEN Stop("tooLarge")
       ELSE decodeAt(KeyEnd, Top.depth, 2, keyBytes)

\* A struct's unknown field: only an inline container is charged.
skipField ==
    /\ In("map", {"struct"})
    /\ LET end == budgetedSkip(KeyEnd, 1, budgetRemaining) IN
       IF KeyEnd = Bad THEN Stop("malformed")
       ELSE IF end.budget = Exhausted THEN Stop("tooLarge")
       ELSE IF end.end = Bad THEN Stop("malformed")
       ELSE /\ Progress(end.end, 2 + end.seen, 0) /\ budgetRemaining' = end.budget
            /\ EntryDone /\ UNCHANGED <<input, path, depth>>

\* The container is complete: go on behind it, or behind the pointer to it.
containerDone ==
    /\ Running /\ frames # <<>> /\ Top.left = 0 /\ Top.dest # "path"
    /\ offset' = IF Top.return # 0 THEN Top.return ELSE offset
    /\ IF Outer = <<>> THEN frames' = <<>> /\ verdict' = "ok"
       ELSE /\ frames' = [Outer EXCEPT ![Len(Outer)].left = @ - 1]
            /\ UNCHANGED verdict
    /\ UNCHANGED <<input, path, depth, budgetRemaining, payloadRemaining, visited, copied>>

-----------------------------------------------------------------------------
(* decodePath.                                                              *)

\* The next element of the path: the container at offset is paid for; a string asks
\* for a key of a map, an index for an element of a slice.
FollowPath ==
    /\ Running /\ path > 0 /\ frames = <<>>
    /\ LET r    == resolveCtrlData(section, offset)
           left == reserveActiveContainer(budgetRemaining, r.kind, r.n)
       IN CASE r.kind = "bad"                -> Stop("malformed")
            [] r.kind \in {"string", "number"} -> Stop("mismatch")
            [] r.kind \in {"map", "slice"} /\ left = Exhausted -> Stop("tooLarge")
            [] OTHER ->
               \/ Stop("mismatch")
               \/ /\ r.kind = "map"
                  /\ frames' = <<[kind |-> "map", dest |-> "path", left |-> r.n,
                                  depth |-> depth, return |-> 0]>>
                  /\ budgetRemaining' = left /\ offset' = r.data
                  /\ UNCHANGED <<input, path, depth, payloadRemaining, visited, copied, verdict>>
               \/ r.kind = "slice" /\ Stop("ok")
               \/ /\ r.kind = "slice"
                  /\ \E i \in 0 .. r.n - 1 :
                         LET end == budgetedSkip(r.data, i, left) IN
                         IF end.budget = Exhausted THEN Stop("tooLarge")
                         ELSE IF end.end = Bad THEN Stop("malformed")
                         ELSE /\ Progress(end.end, i + end.seen, 0)
                              /\ budgetRemaining' = end.budget /\ path' = path - 1
                              /\ UNCHANGED <<input, depth, frames, verdict>>

\* A key on the path's way is charged but not copied; then either it is the one, or
\* its value is skipped.
PathKey ==
    /\ In("map", {"path"})
    /\ LET charge == PayloadCharge(KeyLength)
           end    == budgetedSkip(KeyEnd, 1, budgetRemaining)
       IN IF KeyEnd = Bad THEN Stop("malformed")
          ELSE IF charge > payloadRemaining THEN Stop("tooLarge")
          ELSE \/ /\ offset' = KeyEnd /\ path' = path - 1 /\ frames' = <<>>
                  /\ visited' = visited + 1 /\ payloadRemaining' = payloadRemaining - charge
                  /\ UNCHANGED <<input, depth, budgetRemaining, copied, verdict>>
               \/ IF end.budget = Exhausted THEN Stop("tooLarge")
                  ELSE IF end.end = Bad THEN Stop("malformed")
                  ELSE /\ offset' = end.end /\ visited' = visited + 2 + end.seen
                       /\ payloadRemaining' = payloadRemaining - charge
                       /\ budgetRemaining' = end.budget /\ EntryDone
                       /\ UNCHANGED <<input, path, depth, copied>>

\* The key is not there: the destination stays as it was.
PathNotFound == Running /\ frames # <<>> /\ Top.dest = "path" /\ Top.left = 0 /\ Stop("ok")

\* The decode has returned.
Returned == ~Running /\ UNCHANGED vars

Next ==
    \/ DecodeRoot \/ decodeElement \/ decodeEntry \/ skipField \/ containerDone
    \/ FollowPath \/ PathKey \/ PathNotFound
    \/ Returned

Spec == Init /\ [][Next]_vars

-----------------------------------------------------------------------------
Children(f) == IF f.kind = "map" THEN 2 ELSE 1   \* of an entry

\* The children still to come of the outer n of some open containers, each of which is
\* in the middle of an entry, and of all that are open.
Under(fs, n) ==
    LET sum[i \in 0 .. n] ==
            IF i = 0 THEN 0 ELSE sum[i - 1] + Children(fs[i]) * (fs[i].left - 1)
    IN sum[n]
Outstanding ==
    IF frames = <<>> THEN 0
    ELSE Under(frames, Len(frames) - 1) + Children(Top) * Top.left

\* A budget once activated covers the whole operation: it never falls back to the
\* value that means inactive, and every child that is visited or still to come, and
\* every byte copied, has been paid for out of what there was, however the record
\* shares its parts.  So the decoder's own work is bounded by Units and its output by
\* Payload.
WorkIsPaidFor ==
    /\ budgetRemaining \in 0 .. FullBudget /\ payloadRemaining \in 0 .. Payload
    /\ frames # <<>> => Active
    /\ visited + Outstanding <= IF Active THEN FullBudget - budgetRemaining ELSE 0
    /\ Active => copied <= Payload - payloadRemaining

\* The size of the value at o when it is built in full, with all that its pointers
\* lead to, n levels down: how many children and how many bytes.
Expansion(o) ==
    LET sizes[p \in DOMAIN section, n \in 0 .. Units + 1] ==
            LET r == resolveCtrlData(section, p)
                ends == [i \in 0 .. Values(r) |-> EndOf(section, r.data, i)]
                total[i \in 0 .. Values(r)] ==
                    IF i = 0 THEN [children |-> Values(r), bytes |-> 0]
                    ELSE LET v == sizes[ends[i - 1], n - 1] IN
                         [children |-> total[i - 1].children + v.children,
                          bytes    |-> total[i - 1].bytes + v.bytes]
            IN IF r.kind \in {"bad", "number"} \/ n = 0 THEN [children |-> 0, bytes |-> 0]
               ELSE IF r.kind = "string" THEN [children |-> 0, bytes |-> r.n]
               ELSE total[Values(r)]
    IN sizes[o, Units + 1]

\* Into an empty interface, a record is rejected as too large exactly when it is:
\* neither the order of the reservations nor the preflight rejects one that would
\* have fitted, and none that does not fit is built.
RejectedExactlyWhenTooLarge ==
    shape = "any" /\ path = 0 /\ depth = 0 /\ Complete(section) =>
        LET e == Expansion(root) IN
        /\ verdict = "ok" => e.children <= Units /\ e.bytes <= Payload
        /\ verdict = "tooLarge" => e.children > Units \/ e.bytes > Payload

=============================================================================
