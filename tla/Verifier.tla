------------------------------ MODULE Verifier ------------------------------
(***************************************************************************)
(* Reader.Verify (verifier.go, internal/decoder/verifier.go): the metadata *)
(* checks, the memoised depth-first walk of the search tree, the separator *)
(* and the sweep of the data section.  The recursion of verifyNode is made *)
(* explicit: frames is its call stack, call the pointer handed to          *)
(* verifyPointer, height what the innermost call returns.                  *)
(*                                                                         *)
(* A reader has three more fields here: metadataOK and separatorOK, the    *)
(* outcomes of those checks, and end, from a data offset to the offset     *)
(* after the value there, or -1 if it does not decode as valid data.       *)
(***************************************************************************)
EXTENDS SearchTree, Sequences

CONSTANTS
    Databases,         \* the readers to verify, without setIPv4Start
    Visiting           \* searchTreeNodeVisiting: 255, more than any height

ASSUME VisitingAssumption == Visiting \in Nat /\ Visiting > Bits

\* What Open leaves of any file: nodes numbered from 0, each with two records, and
\* a data section in which decoding at an offset ends somewhere or fails.
ASSUME DatabasesAssumption ==
    \A d \in Databases :
        /\ {"version", "node", "dataSectionSize", "end", "metadataOK", "separatorOK",
            "ipv4Start", "ipv4StartBitDepth"} \subseteq DOMAIN d
        /\ IsFiniteSet(DOMAIN d.node) /\ DOMAIN d.node = 0 .. NodeCount(d) - 1
        /\ \A n \in DOMAIN d.node : d.node[n] \in Nat \X Nat
        /\ d.dataSectionSize \in Nat /\ DOMAIN d.end = 0 .. d.dataSectionSize - 1
        /\ \A o \in DOMAIN d.end : d.end[o] \in Int

Unvisited == 0
None == -1

VARIABLES
    r,                 \* the Reader
    phase,             \* "metadata", "tree", "separator", "data" or "end"
    frames,            \* verifyNode's stack: [node, bitDepth, left], left None before the left child
    call,              \* [pointer, bitDepth] about to be verified, or Nil
    height,            \* the height just returned, or None
    nodeStates,        \* Unvisited, Visiting or the height of the node's subtree
    offsets,           \* data offsets the tree points to, not yet met in the data section
    stateCount,        \* nodes visited
    offset,            \* the sweep's position in the data section
    verdict            \* "none", "ok" or "err"

vars == <<r, phase, frames, call, height, nodeStates, offsets, stateCount, offset, verdict>>
walk == <<frames, call, height, nodeStates, stateCount>>

Nil == [pointer |-> None]

rootDepth == IF r.version = 4 THEN V4Depth ELSE 0

Init ==
    /\ r \in {setIPv4Start(d) : d \in Databases}
    /\ phase = "metadata" /\ frames = <<>> /\ call = Nil /\ height = None
    /\ nodeStates = [n \in DOMAIN r.node |-> Unvisited]
    /\ offsets = {} /\ stateCount = 0 /\ offset = 0 /\ verdict = "none"

Fail == phase' = "end" /\ verdict' = "err"

verifyMetadata ==
    /\ phase = "metadata"
    /\ IF r.metadataOK
       THEN /\ phase' = "tree" /\ call' = [pointer |-> 0, bitDepth |-> rootDepth]
            /\ UNCHANGED verdict
       ELSE Fail /\ UNCHANGED call
    /\ UNCHANGED <<r, frames, height, nodeStates, stateCount, offsets, offset>>

-----------------------------------------------------------------------------
(* The walk.                                                                *)
Calling == phase = "tree" /\ call # Nil

Return(h) == call' = Nil /\ height' = h

\* verifyPointer on an empty record or a data pointer.
verifyPointer ==
    /\ Calling /\ call.pointer >= NodeCount(r)
    /\ LET o == resolveDataPointer(r, call.pointer) IN
       CASE call.pointer = NodeCount(r) ->
                Return(0) /\ UNCHANGED <<phase, verdict, offsets>>
         [] call.pointer > NodeCount(r) /\ o < 0 ->
                Fail /\ UNCHANGED <<call, height, offsets>>
         [] OTHER ->
                /\ Return(0) /\ offsets' = offsets \cup {o}
                /\ UNCHANGED <<phase, verdict>>
    /\ UNCHANGED <<r, frames, nodeStates, stateCount, offset>>

OnNode == Calling /\ call.pointer < NodeCount(r)

\* verifyNode gives up: too deep, or the node is one of its own ancestors.
RejectNode ==
    /\ OnNode /\ (call.bitDepth >= Bits \/ nodeStates[call.pointer] = Visiting)
    /\ Fail
    /\ UNCHANGED <<r, walk, offsets, offset>>

\* verifyNode meets a node it has finished: its height is known.
ReuseNode ==
    /\ OnNode /\ call.bitDepth < Bits
    /\ nodeStates[call.pointer] \notin {Unvisited, Visiting}
    /\ Return(nodeStates[call.pointer])
    /\ UNCHANGED <<r, phase, verdict, frames, nodeStates, stateCount, offsets, offset>>

\* Mutant: a node is not marked while its subtree is walked.
EnterUnmarked ==
    /\ OnNode /\ call.bitDepth < Bits /\ nodeStates[call.pointer] = Unvisited
    /\ stateCount' = stateCount + 1
    /\ frames' = Append(frames, [node |-> call.pointer, bitDepth |-> call.bitDepth,
                                 left |-> None])
    /\ call' = [pointer |-> r.node[call.pointer][1], bitDepth |-> call.bitDepth + 1]
    /\ UNCHANGED <<r, phase, verdict, height, nodeStates, offsets, offset>>

\* verifyNode enters a new node and turns to its left child.
EnterNode ==
    /\ OnNode /\ call.bitDepth < Bits /\ nodeStates[call.pointer] = Unvisited
    /\ nodeStates' = [nodeStates EXCEPT ![call.pointer] = Visiting]
    /\ stateCount' = stateCount + 1
    /\ frames' = Append(frames, [node |-> call.pointer, bitDepth |-> call.bitDepth,
                                 left |-> None])
    /\ call' = [pointer |-> r.node[call.pointer][1], bitDepth |-> call.bitDepth + 1]
    /\ UNCHANGED <<r, phase, verdict, height, offsets, offset>>

Returned == phase = "tree" /\ height # None
Top == frames[Len(frames)]

\* The left child is done: its height is kept and the right child is next.
LeftDone ==
    /\ Returned /\ frames # <<>> /\ Top.left = None
    /\ frames' = [frames EXCEPT ![Len(frames)].left = height]
    /\ call' = [pointer |-> r.node[Top.node][2], bitDepth |-> Top.bitDepth + 1]
    /\ height' = None
    /\ UNCHANGED <<r, phase, verdict, nodeStates, stateCount, offsets, offset>>

\* Mutant: the height is taken from the right child alone.
NodeHeightRight(f) == height + 1
\* The height of a node whose children are done.
NodeHeight(f) == Max({f.left, height}) + 1

\* Both children are done: record the node's height unless it is out of range.
RightDone ==
    /\ Returned /\ frames # <<>> /\ Top.left # None
    /\ IF Max({Top.left, height}) = Bits
       THEN Fail /\ UNCHANGED walk
       ELSE LET h == NodeHeight(Top) IN
            /\ nodeStates' = [nodeStates EXCEPT ![Top.node] = h]
            /\ frames' = SubSeq(frames, 1, Len(frames) - 1)
            /\ height' = h
            /\ UNCHANGED <<call, stateCount, phase, verdict>>
    /\ UNCHANGED <<r, offsets, offset>>

\* Mutant: the height of the root is not compared with the address width.
TreeDoneUnchecked ==
    /\ Returned /\ frames = <<>>
    /\ phase' = "separator" /\ UNCHANGED verdict
    /\ UNCHANGED <<r, walk, offsets, offset>>

\* verifySearchTreeWithStateCount: shared nodes may add up to paths that no single
\* descent saw, so the root's height has the last word.
TreeDone ==
    /\ Returned /\ frames = <<>>
    /\ IF rootDepth + height > Bits
       THEN Fail
       ELSE phase' = "separator" /\ UNCHANGED verdict
    /\ UNCHANGED <<r, walk, offsets, offset>>

-----------------------------------------------------------------------------
verifyDataSectionSeparator ==
    /\ phase = "separator"
    /\ IF r.separatorOK THEN phase' = "data" /\ UNCHANGED verdict ELSE Fail
    /\ UNCHANGED <<r, walk, offsets, offset>>

\* VerifyDataSection, one value: it must decode, be valid UTF-8, end further on and
\* be one the tree points to.
Sweep ==
    /\ phase = "data" /\ offset < r.dataSectionSize
    /\ IF r.end[offset] <= offset \/ offset \notin offsets
       THEN Fail /\ UNCHANGED <<offset, offsets>>
       ELSE /\ offset' = r.end[offset] /\ offsets' = offsets \ {offset}
            /\ UNCHANGED <<phase, verdict>>
    /\ UNCHANGED <<r, walk>>

\* Mutant: offsets the sweep never met are not missed.
SweepDoneLoosely ==
    /\ phase = "data" /\ offset >= r.dataSectionSize
    /\ phase' = "end" /\ verdict' = IF offset = r.dataSectionSize THEN "ok" ELSE "err"
    /\ UNCHANGED <<r, walk, offsets, offset>>

\* The sweep must end with the section, with every pointer of the tree met.
SweepDone ==
    /\ phase = "data" /\ offset >= r.dataSectionSize
    /\ phase' = "end"
    /\ verdict' = IF offset = r.dataSectionSize /\ offsets = {} THEN "ok" ELSE "err"
    /\ UNCHANGED <<r, walk, offsets, offset>>

Next == verifyMetadata \/ verifyPointer \/ RejectNode \/ ReuseNode \/ EnterNode
            \/ LeftDone \/ RightDone \/ TreeDone
            \/ verifyDataSectionSeparator \/ Sweep \/ SweepDone

Spec == Init /\ [][Next]_vars

-----------------------------------------------------------------------------
(* Properties.                                                             *)

\* The longest way down from record p takes h steps.
Height(p, h) == Below(r, p, h) # {} /\ Below(r, p, h + 1) = {}

\* A memoised height is the real one, wherever in the tree the node was first met,
\* so reusing it for a shared subtree hides no path.
HeightsExact ==
    \A n \in DOMAIN r.node :
        nodeStates[n] \notin {Unvisited, Visiting} => Height(n, nodeStates[n])

\* However often subtrees are shared, each node is expanded once: the marks on the
\* path, the heights left behind and the work done always agree.
EachNodeOnce ==
    /\ stateCount = Cardinality({n \in DOMAIN r.node : nodeStates[n] # Unvisited})
    /\ {frames[i].node : i \in DOMAIN frames} =
           {n \in DOMAIN r.node : nodeStates[n] = Visiting}

\* The data offsets the tree points to.
PointedTo ==
    {o \in 0 .. r.dataSectionSize - 1 :
        \E k \in 0 .. AddressBits(r) : NodeCount(r) + Separator + o \in Below(r, 0, k)}

\* The offsets at which the values of d start, at most k values behind offset 0.
StartsWithin(d, k) ==
    LET at[j \in Nat] ==
            IF j = 0 THEN {0} ELSE at[j - 1] \cup {d.end[o] : o \in at[j - 1] \cap DOMAIN d.end}
    IN at[k]
Starts == StartsWithin(r, r.dataSectionSize)

\* Values tile the data section, and are exactly what the tree points to.
DataSound ==
    /\ \A o \in Starts : o = r.dataSectionSize \/ (o \in DOMAIN r.end /\ r.end[o] > o)
    /\ Starts \ {r.dataSectionSize} = PointedTo

\* Verify accepts exactly the well-formed databases: no cycle, overlong path, stray
\* pointer or unreferenced value slips through, and no sharing is held against one.
VerifiedIffSound ==
    verdict # "none" =>
        (verdict = "ok" <=>
            r.metadataOK /\ TreeSound(r) /\ r.separatorOK /\ DataSound)
=============================================================================
