# maxminddb-golang in TLA+

This directory specifies the parts of the MaxMind DB reader in which control
matters: what goroutines share, what the garbage collector may do to a mapped
file, how the search tree is walked, iterated and verified, how the decoders
move through a data section that may be malformed or share its parts through
pointers, what they make of a Go value, how struct fields are found, and how the
generator keeps a package's files consistent. TLC checks every module on small
instances; TLAPS proves the central results about the concurrent parts, the verifier and
what its verdict means for iteration, the positions of both kinds of custom decoding,
the decode budget and the generator for every value of their constants.

`PROJECT.json` lists the runs, the lines of code each definition stands for, the
hazards with the properties that cover them, and the theorems.

Run a check with `tlc -config <X>.cfg <module>`, a proof with `tlapm <module>`.

## 1. Inventory

### Components, their state and operations

| Component | Code | State it keeps | Operations |
|---|---|---|---|
| Reader and mapping | `reader.go`, `mmap_*.go`, `result.go` | `buffer`, `hasMappedFile`, the armed cleanup, the mapping itself | `Open`, `OpenBytes`, `Close`, `Lookup`, `LookupOffset`, `Networks`, `Verify`, the runtime's cleanup |
| Search tree | `reader.go`, `result.go` | immutable: nodes, `ipv4Start`, `ipv4StartBitDepth`, `nodeOffsetMult` | `traverseTree`, `lookupPointer`, `resolveDataPointer`, `Result.Prefix`, the node readers |
| Network iteration | `traverse.go` | a stack of `netNode`s per iteration | `Networks`, `NetworksWithin` and their options |
| Verifier | `verifier.go`, `internal/decoder/verifier.go` | `nodeStates`, the set of data offsets, the recursion | `Verify` |
| String cache | `internal/decoder/string_cache.go` | `entries` and `recentMisses`, arrays of atomics shared by all goroutines | `internAt` |
| Wire format | `internal/decoder/data_decoder.go` | immutable bytes | `decodeCtrlData`, `decodePointer`, `decodeKey`, `decodeString`, `nextValueOffset` |
| Legacy Decoder | `internal/decoder/decoder.go` | `offset`, `nextOffset`, `hasNextOffset`; the locals of running iterators | `ReadMap`, `ReadSlice`, the scalar reads, `SkipValue` |
| Cursors | `internal/decoder/cursor.go` | immutable cursors with an origin token; iterators | reads, `Skip`, `MapCursor`, `SliceCursor`, `MapReader`, `UnmarshalCursor`, `Advance` |
| Reflection decoding | `internal/decoder/reflection.go` | `budgetRemaining`, `payloadRemaining`, the recursion, the Go destination | `Decode`, `DecodePath` |
| Struct field tables | `reflection.go` | `fieldsMap`; per-type tables with shared lookup hints | `cachedFields`, `makeStructFields`, `fieldForKey` |
| Struct tags | `internal/maxminddbtag` | none | `Parse` |
| Errors | `internal/mmdberrors`, `error_context.go`, `errors.go` | none | build error text and paths |
| Public facade | `mmdbdata` | none | aliases and wrappers |
| Generator | `maxminddb-gen` | the package's generated files on disk | `discoverTargets`, `generatePackage`, `writeAtomic`; the decoders it emits |

### How they interact

A `Reader` owns the mapping, the tree and one `ReflectionDecoder`. `Lookup` walks
the tree and returns a `Result` holding a pointer to the Reader and a data offset;
`Result.Decode` runs the reflection decoder, which reads through a `DataDecoder`
and interns strings in the cache that all goroutines share. Custom unmarshalers
are called back with a legacy `Decoder` from a pool, or with a `Cursor` that points
to the `DataDecoder` inside the Reader; the parent then works out where the value
ended. `NetworksWithin` is an iterator: its body runs between two yields and loads
`r.buffer` anew on each turn. `Close` and the cleanup compete for the mapping by a
compare-and-swap on `hasMappedFile`; `runtime.KeepAlive` keeps the Reader reachable
until an operation has read its last byte. A struct destination brings in the field
table of its type, built by the first goroutine that needs it and shared by all
Readers of the process. Generated decoders replace reflection for their types; the
runs that generate them see one another only through the files they leave.

### What is hard

* **Concurrency**: the cache has no lock, and an entry seen by one probe may be
  gone at the next; the cleanup runs whenever the collector thinks nobody refers
  to the Reader; `Close` may come between two turns of an iterator.
* **Sharing**: subtrees and containers are shared through pointers, so trees may
  contain cycles and small records may expand without bound; a container reached
  through a pointer ends elsewhere than its contents.
* **Abandonment**: callers break out of loops at any point, nest them, leave values
  unread, keep cursors for later.
* **Reuse and failure half-way**: a destination may hold the results of earlier
  decodes, with capacity, map entries and pointers to keep or to clear, and a decode
  may fail in the middle of it; a generator may be stopped between any two calls.
* **Arithmetic**: node offsets and section bounds wrap; a depth counts from two
  different origins for IPv4; budgets are stored plus one.
* **Duplicated code paths**: most reads exist twice or more (compact, general,
  budgeted, skipping; reflection and generated code), and must agree on every input.

### What makes each component correct

* Reader: no read after unmap, at most one unmap, an error after `Close`, no leak.
* Search tree and layout: an access touches its own node only; prefixes denote the
  network that was found.
* Iteration: agreement with `Lookup`, order, coverage, termination.
* Verifier: accepts exactly the well-formed databases, visiting each node once.
* Cache: returns the bytes of the record asked for; admits only after a recorded miss;
  keeps what it admits where probes find it.
* Wire format: all ways of reading a record agree, and the cache key determines the bytes.
* Legacy Decoder and cursors: each turn of a loop stands on its own entry, and the
  parent resumes exactly behind the value, whatever the callback did.
* Budget: no more work than paid for; into an empty interface exactly the records
  that are too large are rejected.
* Destinations: a success leaves what the documentation says of old and new contents,
  in both decoders; a failure is contained in the value that failed.
* Field tables: each key finds the field that the precedence rules give it, whoever
  else builds, shares and hints.
* Generator: an output file is the old one or a whole new one; runs in any order
  converge on one package that builds.

## 2. The modules

```
Interning <--refines-- StringCache --- StringCacheProofs
ReaderLifecycle --- ReaderLifecycleProofs
SearchTree --- Networks, Verifier  --- VerifiedIteration --- MCTree, VerifierProofs
NodeRecord --- Layout
WireFormat; DataSection --- DecoderPosition;  Layout  --- MCFileFormat
DataSection --- Cursors, DecodeBudget
FieldTables
Generator, Destinations  --- MCGeneratedCode

DataSectionProofs --- CursorsProofs, DecoderPositionProofs, DecodeBudgetProofs
                      (and, for induction, VerifierProofs and GeneratorProofs)
```

A module named `MC...` gives one of these its constants, or asks questions about
different parts of one subject in one run, a variable saying which part. A module named `...Proofs` holds the
theorems about its component. Definitions preceded by a comment "Mutant: ..." are
plausible bugs of the definition below them. Nothing uses them; each one, put in the
place of its definition, makes TLC report a property violated, which shows that the
property depends on that piece of code. `PROJECT.json` says which belongs to which.

**Interning, StringCache.** `StringCache` is `internAt` with one action per atomic
access: load of the primary slot, load of the alternate one, load of the miss array,
second load of the primary slot, and the store. `req`, `target` and `ret` are the
locals of a call; `prev` and `recorded` are history variables. `Interning` is what a
caller may rely on: a call for an offset returns that record's bytes. `StringCache`
implements it.

**ReaderLifecycle.** One Reader from `Open` to its collection. The operations are
reduced to when they load `r.buffer`, when they read memory, and what they leave
with the caller: a `Result` that found a record refers to the Reader, and so does a
kept cursor, because `PrepareForConcurrentUse` lets callbacks see the `DataDecoder`
inside `r.decoder`, an interior pointer to the Reader. A `Result` that found nothing
("absent") refers to no Reader and keeps nothing alive. `Reachable` is the collector's
view: frames up to their `KeepAlive`, kept values, a running `Open` or `Close`.
Not everything needs the memory, and what does not is answered the same after `Close`:
`Decode` of an absent or failed `Result` (`AnswerWithoutMemory`; result.go:46-51), the
bookkeeping of a container's cursors, an iterator with only empty networks left on its
stack, and one whose search starts at the empty record (`emptyStart`: a `node_count`
of 0, or no IPv4 subtree). `ErrorAfterClose` is about everything else.
Three guards of the model are the caller's part. Two are documented: the pooled legacy
Decoder is not kept beyond the callback, and no call overlaps `Close` except a paused
iterator. The third is not: cursor.go has no `KeepAlive`. Cursor operations that return
a successor or wrap an error use `c.decoder` after their last read and so keep the
Reader alive themselves; `Kind`, `Offset` and `CheckMaxSize` ("inspect") do not, and
`Drop` assumes that their caller still holds the cursor. A program whose last
use of the last reference to a Reader is such an inspection has no such protection.

**SearchTree.** `traverseTree`, `Lookup`, `setIPv4Start`, `resolveDataPointer` and
`Result.Prefix` as operators on a reader record. Addresses have `Bits` bits, of which
the last `V4Bits` are the IPv4 part, so that trees of both versions, IPv4 subtrees
at different depths and trees without one are within reach. Used by `Networks` and
`Verifier`.

**Networks.** The iterator with its explicit stack: one action for each thing the
inner loop does with a node. The consumer may stop at every yield.

**Verifier.** The recursion of `verifyNode` as a stack of frames, with the
node states as in the code (unvisited, visiting, or the height), then the separator
and the sweep over the data section.

**VerifiedIteration.** The two on one Reader: the database is verified and, whatever the
verdict, then iterated with one of the `Queries`, so that what acceptance means for the
iteration can be said.

**Layout.** The unsigned arithmetic of `OpenBytes` and of every access to node bytes,
modulo `2^WordBits`.

**NodeRecord.** The bytes of a node in the 24, 28 and 32 bit formats and the
functions that read one or both records, with bytes of `ByteBits` bits.

**WireFormat.** Buffers byte by byte. The general path, skipping, the size bounds, and
the compact paths that string and key reads inline. The code has these paths by hand
in several places, and so has the module: the three cases of `decodeStringValue`, the
two of `decodeKeyAt`, `decodePointerKeyFast`, the three of `ReadStringMaxSize`, and
reflection's `tryFastDecodeUnbudgetedString`, `unmarshalString` and `unmarshalPointer`
are operators of their own, each with its own arithmetic, range tests and (in
`ReadStringMaxSize`) test of the bound; the two counts of the header, `headerSize` and
`keyHeaderSize`, are separate too. The copies share only what the code shares, so a slip
in a single one makes it disagree with the general path. A byte behind the end of the
buffer has no value, so a missing range test stops TLC even where all results agree.
Reads of the containers' compact headers (`ReadMap` and the like) are not modelled
byte by byte.

**DataSection.** The same section one level up: a sequence of records, an offset
being an index into it. Where control flow over values is the subject, bytes would
only blow up the state; `WireFormat` is where they are checked.

**DecoderPosition.** A custom unmarshaler with a legacy Decoder: loops nested in
loops, breaks, values read, skipped, half-read or ignored, pointers, malformed data,
and the parent's continuation. `loops` holds the locals of the running iterators.
Contract assumed: the caller consumes at most one value per turn.

**Cursors.** A caller that holds several cursors of two databases, advances with any
of them, runs map and slice iterators and a generated `MapReader` loop, and a legacy
Decoder to `Advance`. `MapReader.End` trusts its caller; only the counted loop that
the generator emits is modelled.

**DecodeBudget.** `decodeValue`, `decodeMap`, `decodeSlice`, struct decoding with known
and unknown fields, `decodePath`, the activation of the budget, reservations, depth,
and the preflight. The recursion is a stack of `frames`. Payload and custom
unmarshalers appear by what they cost. Destinations are an empty interface or any
typed shape, chosen again for every container. `DecodeWithBudget`, which only starts
with the budget active, is not a separate entry.

**Destinations.** What a decode does to a Go value. Types are scalars of two widths,
bytes, pointers, slices, maps, structs with tagged fields and empty interfaces; a value
keeps what Go lets a later decode see, the hidden part of a slice's array included. Both
decoders are translated on their own: `Reflect...`, `decodeSlice`, `decodeMap` and their
fast paths from `reflection.go`, and the `emit...` operators from what the generator's
templates emit. One step decodes one record, by either, into the value left by the
steps before; records may be of the wrong kind, too large for a field's maxsize, or cut
short at any point. What becomes of a pointer that was allocated for a value that fails
is written by hand four times in the code, and is four operators here, each used where
its copy is: `resetAllocated` (reflection.go:671), `cleanupAllocatedPointers` (2135),
`setDecoded` on the fast path (2950) and `emitPointer` in generated code; a slip in any one
of them breaks `FailuresContained`. That property fixes the whole destination after a
failure: whole values before the entry that fails, the failing field contained
in the same way one level down, and everything mentioned later, or not at all, unchanged;
a decoder that goes on after an error breaks it. One case is excepted in `DecodesAsDocumented`,
`DecodersAgree` and `FailuresContained`, by name (`MeetsWrap`): a uint64 with its top bit
set that reflection decodes into a signed integer, which is the finding of the run
`integers` (section 6); such a number is among the records.

**FieldTables.** `makeStructFieldsWithStack` field by field, for every goroutine, with
the nested tables it asks for on the way, `sync.Map`'s `LoadOrStore`, the fingerprint
table in every order that Go's map iteration may fill it, and the lookups with their
hints: the load, and the search with the compare-and-swap. A declaration is data of
the model. The reference, `DocumentedFields`, ranks all paths through embedded structs
and does not walk. `analyzeStruct` is the generator's reading of the same declarations.

**Generator.** One run per source file: what earlier outputs contribute to the package
(`signatureOverlay`), Go's method sets, skipped and refused targets, callbacks and
helpers, the validation of the whole package, then one action per system call of
`writeAtomicWith`, each of which may fail. A run may be killed, and the machine may lose
power: an output then survives in its old or its new version, the new one whole only if
it was synced. Runs do not overlap, as under `go generate`; a file that somebody creates
at the output path during a run is not modelled, and the code would replace it.

## 3. The runs

| Run | Instance | Question |
|---|---|---|
| `string_cache` | 2 goroutines, 4 slots, colliding offsets | interleavings at every access: refinement, reachability, admission; and for a goroutine that is alone so far: two calls intern, what an admission may displace |
| `reader_lifecycle` | 2 goroutines, all operations | memory safety, single unmap, errors after Close from whatever needs the memory, no leak |
| `tree` | layered and arbitrary small trees of both versions, spoilt data sections, all prefixes and options | the Verifier accepts exactly the sound databases, with exact heights and one visit per node; iteration agrees with lookup, in order, complete, with errors only on unsound trees and none on verified ones; everything terminates |
| `containing_network` | sound trees of 2 nodes | a documented promise that fails (section 6) |
| `file_format` | 8-bit words and all node counts with 4-bit bytes; all buffers up to 4 bytes of 17 values, and longer ones; a legacy Decoder on all sections up to 4 records and larger shared ones | every access reads the records of its own node; every copy of the string and key decoders agrees with the general path, bounds and ends of values included; positions under nesting and abandonment |
| `open_bounds` | the same trees | a comment's claim that fails (section 6) |
| `cursors` | 6 sections, 3 cursors held, 2 databases | tokens are truthful, no foreign cursor is accepted |
| `decode_budget` | all sections up to 3 records, larger ones that share and loop | work is paid for; exact rejection |
| `generated_code` | 39 packages with 6 states of their outputs; 9 composite types, records of up to two entries per container, whole, wrong or cut | whole outputs and convergence of runs; repeated decodes by both decoders: documented results, agreement, cleared tails, contained failures |
| `integers` | integer types of 4 widths, every integer of every kind | an unsigned number that turns negative (section 6) |
| `field_tables` | 33,000 declarations of 3 types; 2 goroutines over recursive types and colliding names | field resolution, lookups under races |
| `generation_order` | the same packages, no outputs | a documented promise that fails (section 6) |

### Bounds, and why they are enough

* *String cache.* Four slots instead of 4096, with the real multiplier: there are
  pairs of offsets that share one slot, both slots, or each other's slots crosswise,
  and one offset is 0. Two goroutines displace each other's entries between any two
  accesses. Beyond that the proofs hold for any number.
* *Life cycle.* Two goroutines: one inside an operation while the other opens a race
  for the last reference. Proved for any number.
* *Addresses.* Four bits with three of IPv4 in `tree`, three with two in
  `containing_network`: the smallest sizes at which an IPv4 subtree has a depth, may be
  shared from outside, may be missing or be a single record, and at which a cycle
  passes the depth limit. Trees of two nodes are enumerated with cycles and stray
  pointers; the larger families share subtrees at different depths.
* *Words.* Eight bits with all 256 node counts: every wrap of the products and sums
  of `OpenBytes` occurs, since it depends on sizes relative to the word only.
* *Node bytes.* Four-bit bytes keep the shifts between the nibble byte and the others;
  each bit is set and cleared on its own.
* *Wire bytes.* Seventeen values cover each kind that has its own path, each size
  encoding, the largest size without one, each pointer width, the high bits of one-byte
  and two-byte pointers, the wrap-around of extended kinds, and a pointer with ignored
  bits. Three longer buffers (the longest with ten of the values) go on with alternating headers of short and of longer
  strings, so that pointers with either bias reach a compact string, another one, and
  one that the end cuts off, and so that sizes of all lengths fit. `TooFar` keeps offsets
  within TLC's integers; the high bits of a three-byte pointer lead beyond every buffer.
* *Sections.* All sections of up to three or four records contain every adjacent
  combination, truncation, pointer to pointer and self-reference; the larger ones
  nest and share containers three deep. `MaxNesting` and `MaxHeld` (3) exceed what two
  interfering loops or cursors need.
* *Budget.* `Units` 8, `Payload` 6, `MaxDepth` 4, `PreflightCount` 4, `MaxPath` 2
  instead of 32768, 2 MiB, 512, 1024: each limit is met exactly, passed by one, and
  reached before and after each other one.
* *Destinations.* Two entries per container: one more and one fewer than a slice held
  before, a map entry kept next to one replaced, an element that fails after one that
  succeeded. Types nest two deep, which is where a fast path meets a general one. The
  values that survive between steps are closed under further decodes, so any number of
  decodes is covered.
* *Declarations.* Three types with two, two and one fields: competing names at equal and
  different depths, a struct embedded twice, embedding and nesting cycles, tags against
  depth. Four names fall into one slot of the fingerprint table, two under one
  fingerprint. Two slots for hints instead of 64 make every key meet another's hint. Two
  lookups each: one leaves a hint, the other meets it.
* *Packages.* Two files with one target each, a struct nested by both, a handwritten and
  an embedding type. Outputs are absent, stale for other sources, handwritten, or left at
  a superseded path. One interruption; a second would start from a state that the
  first also leaves.

### Fairness

Safety needs none. `ReaderLifecycle` assumes weak fairness of `Open`, of the steps
of `Close` once begun, of the cleanup once the Reader is unreachable, and of
operation bodies: code without waiting, run by the Go scheduler and the runtime's
cleanup goroutine. The cleanup is assumed to run eventually; Go does not promise it
before the process exits, and then the mapping is gone anyway. Nothing obliges
the application to call, resume or forget anything. `VerifiedIteration`
is sequential: weak fairness of its steps says that the goroutine keeps
running and that a consumer still in its loop asks for the next network.

## 4. The proofs

Every module's own name for its inductive invariant is `IInv`; each proof shows that
`Init` implies it, that every action keeps it (one lemma per action), and that it
implies the property.

### Shared state

`StringCacheProofs`, for any goroutines, any set of offsets, any even number of
slots and any multiplier:

* `TwoSlots`: the alternate slot differs from the primary one (the step is odd, the
  number of slots even).
* `TypeCorrect`, `EntriesAlwaysReachable`, `AdmissionNeedsMiss`. `EntriesReachable`
  alone is not inductive: a store publishes what
  a goroutine prepared several steps earlier. `IInv` adds that a goroutine about to
  store holds one of its two slots and has seen its miss recorded (`RunningOK`) and
  that every value in the miss array was put there by a call that recorded it
  (`MissesOK`), which is where the bias of one is used.
* `Refinement`: `Spec => Interned!Spec`, with a call's request and result as the
  refinement mapping. Each step is a call, a return of the right
  bytes, or a stutter; a hit returns the right bytes because of `EntriesReachable`.
* `SecondCallAlwaysInterns` and `AdmissionDisplacesOnlyAlternate`, about a goroutine that
  has had the cache to itself. They need a second invariant, `AloneOK`: what such a
  goroutine has learnt on its way through `internAt` is still so, because nobody else
  has stored anything since.

`ReaderLifecycleProofs`, for any number of goroutines:

* `TypeCorrect`, `AtMostOneMunmap`, `MemorySafe`, `ClosedMeansError`, from `IInv`:
  nobody holds the Reader before `Open` succeeds (`OpeningOK`); a set `hasMappedFile`,
  a `Close` before its unmap and a running cleanup exclude one another and each mean
  that the memory is still mapped (`OwnershipOK`); an open, unclosed Reader has memory
  behind it (`BackedOK`); after the cleanup has begun nothing refers to the Reader
  (`ForgottenOK`); whoever reads, reads an open Reader whose memory it needs, and only
  iterators pause (`ReadingOK`); an inspected cursor is held by its caller
  (`InspectOK`). `ClosedMeansError` says of the operations that need the memory that
  they end with an error after `Close`, and of an absent `Result` that it does not.

### The search tree

`VerifierProofs`, for every database that `Open` may leave (any number of nodes with
any records, so cycles, sharing and stray pointers included, and any ends of values),
every address width and every separator. What is a sound tree is said by levels
(`Below(r, p, k)`, the records k steps below p), without a walk and without addresses.

* `HeightsAreExact`, `NodesExpandedOnce`, `VerifyIsExact`. In `IInv` the stack is the way
  from the root to the record at hand (`Path`) and its nodes are exactly those marked,
  each once (`Marked`): so a marked node met again lies on a cycle, and a cycle has ways of
  any length (`BelowCycle`). What has been returned is the real height, and everything
  below a finished node is finished, its data offsets collected (`Returns`): so the height
  of the root speaks for all ways down, also those that no single descent walked because
  their nodes were met before. Collected offsets are offsets that the tree points to
  (`Collected`). During the sweep, the offsets met so far are a chain of values from 0 to
  the current offset (`Sweeping`): they are all of the starts before it.
* `VerifiedDatabasesIterateCleanly` and `IterationErrorsMeanUnsound`, about Verify followed
  by NetworksWithin. The second invariant, `Surveyed`, holds of any tree: a netNode on the
  stack is below the root as far as its bit count says (`InPlace`), which for IPv4 queries
  rests on `setIPv4Start` and on counting from the depth it found (`StartPlaced`); in a sound
  tree, what was yielded is empty, or data the tree points to, or a value that
  SkipEmptyValues could not examine (`Clean`); and when all of the tree is asked for, a
  record that is not good has been reported or lies below a netNode still to come
  (`Exhaustive`), so none is left when the stack is empty. With `VerifyIsExact`, an
  accepted database has no values that cannot be examined.

### Positions in a data section

`DataSectionProofs` begins with induction about *sets* of numbers (`Induction`,
`IntervalInduction`) and the existence of functions defined by recursion
(`RecursiveFunction`, `LoopFunction`), all from the well-foundedness of the natural
numbers. A theorem about a set needs no operator as a parameter, so the provers can use
it, and what the recursive functions of `DataSection`, `DecodeBudget`, `SearchTree`,
`Verifier` and `Generator` compute can be proved. Then, for all sections:

* `SkipsToTheEnd`: `nextValueOffset`, which goes forward with a counter, returns
  `EndOf`, the bracket-matching definition of where n values end, and an error
  exactly if the section ends before. The lemmas on the way say how ends add up: n + k
  values end where k end that start where n end (`EndOfSum`), a container ends where its
  contents end, a pointer right behind itself.

`CursorsProofs`, for any decoders, sections and number of held cursors:

* `TokensAreProofs`: every token is truthful. Inductive only with what produces cursors:
  `IInv` adds that an iterator is about the container at its origin and stands behind
  the values it has passed (`IteratorOK`), and the counted loop likewise (`ReaderOK`).
* `IteratorsKeepTheirPlace`: an iterator accepts a cursor as the end of its pending value
  only where the token is that value's, so the next entry is where it ought to be.

`DecoderPositionProofs`, for any sections and any nesting:

* `TurnsAtTheirValues`: each turn stands at its own entry.
* `LoopsEndBehind`: a loop that ends leaves the Decoder behind its container, in a
  section whose values are complete. `IInv` says of every running loop where its entry
  is (`LoopOK`), and of the shared `nextOffset` that during a turn it is unset or the end
  of that turn's value (`NextOK`). `NextOK` needs completeness: in a malformed section
  the clean-up after a break drops its error (hazard at `decoder.go:394`).

`DecodeBudgetProofs`, for any sections, cyclic ones included, budgets, limits and
destinations:

* `WorkAlwaysPaidFor`. The invariant is about the sum, over all open containers, of the
  children still to come (`Outstanding`); its proof is the arithmetic of pushing,
  passing an entry and popping (`Pushed`, `Passed`, `Popped`), and that a budgeted skip
  takes from the budget exactly the children it passes over (`SkipPaid`). `IInv` adds
  that every frame but the innermost is in the middle of an entry, and that frames
  return to positions of the section (`FramesIn`).

### Generated files

`GeneratorProofs`, for any package, files and outputs to begin with:

* `OutputsAlwaysWhole`: `IInv` says, per step of `writeAtomicWith`, what the temporary file
  holds and what would survive a power failure.
* `OutputsConverge`: `CInv` adds that nothing on disk declares methods of types that
  never were targets (`TargetsOK`), and that what a run has settled on, or written, is what it
  would settle on in a package without outputs (`SourcesOK`). The argument is that Go's
  method sets change in one direction only when generated methods become visible
  (`LookupMonotonic`); where nothing handwritten gets lost (`PromotionsStable`),
  the analysis of every reachable type is the same (`StableRendered`).

### Assumptions

Each is an `ASSUME` that TLC evaluates in the component's run. `StringCache`: offsets are
naturals, an even number of slots, `Nil` is none of the other values. `Cursors`,
`DecoderPosition` and `DecodeBudget`: sections are sequences of records, limits are
naturals (`CursorsAssumption`, `SectionsAssumption`, `BudgetAssumption`). `SearchTree` and
`Verifier`: the IPv4 part of an address is smaller than the address, the visiting mark is
no height, nodes are numbered from 0 and have two records each, and decoding at an offset
ends somewhere or fails (`BitsAssumption`, `VisitingAssumption`, `DatabasesAssumption`).
`VerifiedIteration`: the IP version is 4 or 6, a value that `IsEmptyValueAt` cannot examine
does not decode, and a prefix is an address and a number of bits, valid or not
(`QueriesAssumption`). `Generator`: a
package has finitely many types, and a handwritten method is absent, right or wrong
(`PackagesAssumption`); `OutputsAlwaysWhole` needs not even that, and `ReaderLifecycle`
assumes nothing. No theorem assumes that a section is well-formed, except
`LoopsEndBehind` as said.

### Only model-checked

* Liveness (`EventuallyUnmapped`, `Terminates`): needs fairness and enabledness.
* `RejectedExactlyWhenTooLarge`: compares the decoder with a recursion over
  the expanded record, on two arguments at once.
* `AgreesWithLookup`, `Increasing`, `CoversLookups`, `EveryRecordListed`: they are about
  addresses as numbers, and the provers know nothing of `^`, not even that
  `2^(n + 1) = 2 * 2^n`.
* `Destinations`: its operators are recursive over Go types, and the provers lose their
  SMT backend in a module that declares such operators.
* `Layout`, `WireFormat` and `FieldTables`: no proofs of them yet.

## 5. What is not modelled

* Text without state: the grammar of struct tags, the code the generator prints, its
  import names and build-constraint expressions.
* Floats, big integers and booleans as destinations: they are assigned like the integers.
* Two generator processes at once in one package: `go generate` runs directives one
  after another. Packages whose handwritten code calls methods that are not yet generated
  do not load, and their first run is refused; they are in the model, and no property
  claims more.
* Error text and paths, the public facade: no state.
* The individual metadata and UTF-8 checks of the verifier: one outcome each.
* Numeric payloads: data nobody branches on.
* The operating system: `mmap` and `munmap` succeed or fail; reads of a mapping do
  not fail, as when the file is truncated by another process.

## 6. Disagreements between code and text

* `traverse.go:85-87` promises that a prefix inside a network yields exactly that
  network. Run `containing_network`: with an IPv4 subtree that is a single data
  record, `ipv4Start` is a data pointer; an unrelated network with the same record is
  then taken for an alias (`traverse.go:177`), and the iteration yields nothing.
* `reader.go:580-581` calls a check unreachable because `OpenBytes` enforces it. Run
  `open_bounds`: `OpenBytes` adds the separator to the tree's size without an overflow
  check (`reader.go:373`), so an absurd node count opens. The "unreachable" check is what
  then keeps lookups inside the buffer.
* `internal/mmdberrors/errors.go:32` says that a value which cannot be assigned to its
  destination is an `UnmarshalTypeError`. Run `integers`: reflection converts a uint64 to
  int64 before it asks whether it overflows (`reflection.go:1470`), so that 2^63 and more
  become negative numbers in a signed destination. Generated code refuses them.
* `maxminddb-gen/README.md:44-46` promises the same output whatever the order of the
  directives and whichever generated files exist. Run `generation_order`: a struct that
  embeds a type with a handwritten method and a target of another file promotes the
  handwritten method until the other file is generated, and nothing afterwards, because
  the two are ambiguous; its own file is then refused. Outputs that are written never
  differ either, with one exception of the same kind: if that struct has a handwritten
  decoder method of its own, its plan is the promoted cursor method before and its own
  method after, and the output changes. `GenerationConverges` is therefore claimed, and
  proved, where `PromotionsStable` holds.

## 7. Plan

Done, in this order: the string cache and its proofs; the Reader's life cycle and its
proofs; the search tree with iteration and verification, then both composed; layout and
node records; the data section with the legacy Decoder, cursors and the budget; the wire
format; destinations; field tables; the generator.

Proved since: the cache's promises to a lone goroutine, `DataSection`, `Cursors`,
`DecoderPosition`, `DecodeBudget`, `Generator`, `Verifier` and, with it, `Networks`.

Next, most important first:

1. *Proofs*: `FieldTables` (`LookupsExact` for any number of goroutines, declarations and
   fingerprints: hints are names of their own table and one table is published per type),
   `Layout` (`AccessesOwnNode` for every word width), `Increasing` and `EveryRecordListed`
   with powers of two as a recursive function.
2. *Metadata*: the search for the last marker and the checks `OpenBytes` makes on it.
3. *Composition*: `ReaderLifecycle` with the string cache of its decoder.
