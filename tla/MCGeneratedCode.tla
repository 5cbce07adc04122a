--------------------------- MODULE MCGeneratedCode ---------------------------
(* Code generation: what the runs of the generator leave in a package        *)
(* (Generator, with the packages of MCGenerator), and what the decoders that *)
(* they write do to a Go value, next to reflection (Destinations, with the   *)
(* types and records of MCDestinations).                                     *)
EXTENDS MCGenerator

CONSTANT Nil

VARIABLES
    stage,             \* "generate" or "decode"
    type, dst, last    \* as in Destinations

valueVars == <<type, dst, last>>

NoRecords(T) == {}
Shapes == INSTANCE MCDestinations WITH Types <- {}, Records <- NoRecords, Values <- NoRecords

RecordTable == [T \in Shapes!MCTypes |-> Shapes!MCRecords(T)]
RecordsOf(T) == RecordTable[T]
ValuesOf(T) == Shapes!MCValues(T)

Decoding == INSTANCE Destinations
    WITH Types <- Shapes!MCTypes, Records <- RecordsOf, Values <- ValuesOf

NoValue == type = Nil /\ dst = Nil /\ last = Nil

\* A package without sources, for which nothing is generated.
Empty == [types |-> << >>, built |-> {}, calls |-> {}, reserved |-> {}]
NoGeneration ==
    /\ pkg = Empty /\ initial = [p \in Paths |-> Absent] /\ disk = initial
    /\ surviving = [p \in Paths |-> {Absent}] /\ run = Idle /\ temp = {} /\ litter = {}
    /\ outcome = [f \in Files |-> "none"] /\ interruptions = 0

CodeInit ==
    \/ stage = "generate" /\ Init /\ NoValue
    \/ stage = "decode" /\ Decoding!Init /\ NoGeneration

CodeNext ==
    /\ UNCHANGED stage
    /\ \/ stage = "generate" /\ Next /\ UNCHANGED valueVars
       \/ stage = "decode" /\ Decoding!Next /\ UNCHANGED vars

CodeSpec == CodeInit /\ [][CodeNext]_<<vars, stage, valueVars>>

-----------------------------------------------------------------------------
(* The properties of Destinations.                                            *)

\* A decode succeeds exactly when the record fits the destination's type, and leaves what
\* the documentation says of the record and of what the destination held before.  The
\* uint64 that reflection wraps (reflection.go:1470) is excepted.
DecodesAsDocumented == stage = "decode" => Decoding!DecodesAsDocumented

\* Reflection and generated code do the same to a destination, except from a container
\* that is cut short and from a uint64 that reflection wraps and generated code refuses.
DecodersAgree == stage = "decode" => Decoding!DecodersAgree

\* A slice that decodeSlice or generated code reuses keeps nothing of an earlier record
\* behind its visible end.
HiddenTailsClear == stage = "decode" => Decoding!HiddenTailsClear

\* A decode that fails leaves whole fields before the entry that fails, and everything it
\* did not reach, be it mentioned later in the record or not at all, as it was.
FailuresContained == stage = "decode" => Decoding!FailuresContained
=============================================================================
