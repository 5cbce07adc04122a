------------------------------ MODULE Networks ------------------------------
(***************************************************************************)
(* Reader.NetworksWithin (traverse.go): the depth-first iterator over the  *)
(* networks of a database, its explicit stack, its options, and a consumer *)
(* that may break out of the loop at any yield.  The database, the prefix  *)
(* and the options are chosen in Init and then stay as they are.           *)
(***************************************************************************)
EXTENDS SearchTree, Sequences

CONSTANTS
    Databases,   \* the search trees to iterate, as readers without setIPv4Start
    Prefixes,    \* the prefixes asked for: [ip, bits]
    Options      \* sets of options: subsets of {"aliased", "empty", "skip"}

VARIABLES
    r,           \* the Reader
    prefix,      \* the argument of NetworksWithin; all addresses for Networks
    opts,        \* the options given
    nodes,       \* the stack of netNodes still to visit
    node,        \* the netNode being visited, or Nil between two of them
    out,         \* the Results yielded
    status       \* "start", "loop", "done", or "stopped" by the consumer

vars == <<r, prefix, opts, nodes, node, out, status>>

Nil == [bit |-> -1]
IsNode == node # Nil

Init ==
    /\ r \in {setIPv4Start(d) : d \in Databases}
    /\ prefix \in Prefixes
    /\ opts \in Options
    /\ nodes = <<>> /\ node = Nil /\ out = <<>> /\ status = "start"

\* yield(res); the consumer may answer false, after which nothing happens.
Yield(res, then) ==
    /\ out' = Append(out, res)
    /\ status' \in {then, "stopped"}
    /\ UNCHANGED <<r, prefix, opts>>

Skip == UNCHANGED <<r, prefix, opts, out, status>>

stopBit == prefix.bits + (IF prefix.ip.is4 THEN V4Depth ELSE 0)

\* An invalid prefix (bits = -1), an IPv6 prefix for an IPv4 database, or one
\* beyond the address width.
Rejected == prefix.bits < 0 \/ (r.version = 4 /\ ~prefix.ip.is4) \/ stopBit > Bits

\* Such an argument gives one error and no iteration.
Reject ==
    /\ status = "start" /\ Rejected
    /\ Yield(Result("fatal", prefix.ip, 0, -1, FALSE), "done")
    /\ UNCHANGED <<nodes, node>>

\* Walk to the prefix, or to the network that contains it.
Start ==
    /\ status = "start" /\ ~Rejected
    /\ LET t == traverseTree(r, prefix.ip, stopBit) IN
       nodes' = <<[ip |-> Masked(As16(prefix.ip), t[2]), bit |-> t[2], pointer |-> t[1]]>>
    /\ status' = "loop"
    /\ UNCHANGED <<r, prefix, opts, node, out>>

Pop ==
    /\ status = "loop" /\ ~IsNode /\ nodes # <<>>
    /\ node' = nodes[Len(nodes)]
    /\ nodes' = SubSeq(nodes, 1, Len(nodes) - 1)
    /\ Skip

\* The stack is empty.
Finish ==
    /\ status = "loop" /\ ~IsNode /\ nodes = <<>>
    /\ status' = "done"
    /\ UNCHANGED <<r, prefix, opts, nodes, node, out>>

Stepping == status = "loop" /\ IsNode

VisitEmpty ==
    /\ Stepping /\ node.pointer = NodeCount(r)
    /\ node' = Nil
    /\ IF "empty" \in opts
       THEN Yield(Result("empty", mappedIP(node.ip), node.bit, -1, FALSE), "loop")
       ELSE Skip
    /\ UNCHANGED nodes

\* The IPv4 subtree met again elsewhere.  Mutants: aliases are recognised even
\* inside the IPv4 subtree itself; they are never recognised.
AliasAnywhere ==
    /\ "aliased" \notin opts /\ r.ipv4Start # 0
    /\ node.pointer = r.ipv4Start
AliasNowhere == FALSE
IsAlias ==
    /\ "aliased" \notin opts /\ r.ipv4Start # 0
    /\ node.pointer = r.ipv4Start /\ ~isInIPv4Subtree(node.ip)

SkipAlias ==
    /\ Stepping /\ node.pointer # NodeCount(r) /\ IsAlias
    /\ node' = Nil
    /\ Skip /\ UNCHANGED nodes

\* Mutant: a record that does not resolve is passed over in silence.
VisitDataQuietly ==
    /\ Stepping /\ node.pointer > NodeCount(r) /\ ~IsAlias
    /\ node' = Nil
    /\ LET offset == resolveDataPointer(r, node.pointer) IN
       IF offset < 0 \/ ("skip" \in opts /\ r.value[offset] # "full")
       THEN Skip ELSE Yield(Result("data", mappedIP(node.ip), node.bit, offset, TRUE), "loop")
    /\ UNCHANGED nodes

\* A data record, unless SkipEmptyValues was given and IsEmptyValueAt finds an
\* empty map or array; an error of resolveDataPointer or IsEmptyValueAt is yielded.
VisitData ==
    /\ Stepping /\ node.pointer > NodeCount(r) /\ ~IsAlias
    /\ node' = Nil
    /\ LET offset == resolveDataPointer(r, node.pointer)
           res(kind) == Result(kind, mappedIP(node.ip), node.bit, offset, TRUE)
       IN CASE offset < 0 -> Yield(res("err"), "loop")
            [] offset >= 0 /\ "skip" \in opts /\ r.value[offset] = "corrupt" ->
                   Yield(res("err"), "loop")
            [] offset >= 0 /\ "skip" \in opts /\ r.value[offset] = "empty" -> Skip
            [] OTHER -> Yield(res("data"), "loop")
    /\ UNCHANGED nodes

Inner == Stepping /\ node.pointer < NodeCount(r) /\ ~IsAlias

\* Mutant: the depth is not checked.
DepthUnchecked == FALSE

\* An internal node below the last address bit: report it and give up.
TooDeep ==
    /\ Inner /\ node.bit >= Bits
    /\ Yield(Result("fatal", mappedIP(node.ip), node.bit, -1, FALSE), "done")
    /\ UNCHANGED <<nodes, node>>

\* Mutants: the right child keeps the left child's address; the right child is
\* visited first.
BranchSameAddress ==
    /\ Inner /\ node.bit < Bits
    /\ LET child(ip, i) == [ip |-> ip, bit |-> node.bit + 1, pointer |-> r.node[node.pointer][i]]
       IN /\ nodes' = Append(nodes, child(node.ip, 2))
          /\ node' = child(node.ip, 1)
    /\ Skip
BranchRightFirst ==
    /\ Inner /\ node.bit < Bits
    /\ LET ipRight == IPv6(node.ip.a + 2^(Bits - 1 - node.bit))
           child(ip, i) == [ip |-> ip, bit |-> node.bit + 1, pointer |-> r.node[node.pointer][i]]
       IN /\ nodes' = Append(nodes, child(node.ip, 1))
          /\ node' = child(ipRight, 2)
    /\ Skip

\* Push the right child, go on with the left one.
Branch ==
    /\ Inner /\ node.bit < Bits
    /\ LET ipRight == IPv6(node.ip.a + 2^(Bits - 1 - node.bit))
           child(ip, i) == [ip |-> ip, bit |-> node.bit + 1, pointer |-> r.node[node.pointer][i]]
       IN /\ nodes' = Append(nodes, child(ipRight, 2))
          /\ node' = child(node.ip, 1)
    /\ Skip

Next == Reject \/ Start \/ Pop \/ Finish \/ VisitEmpty \/ SkipAlias \/ VisitData
            \/ TooDeep \/ Branch

Spec == Init /\ [][Next]_vars

-----------------------------------------------------------------------------
(* Properties.                                                             *)

Networks == {i \in DOMAIN out : out[i].kind \in {"data", "empty"}}

\* The queried addresses, as the network NetworksWithin starts from.
QueriedRange ==
    LET t == traverseTree(r, prefix.ip, stopBit)
        p == Masked(As16(prefix.ip), t[2])
    IN p.a .. p.a + 2^(Bits - t[2]) - 1

\* What Lookup says of an address of the whole address space.
LookupAt(a) ==
    Lookup(r, IF isInIPv4Subtree(IPv6(a)) THEN v6ToV4(IPv6(a)) ELSE IPv6(a))

\* Iteration and lookup agree: every address of a yielded network looks up to the
\* yielded record, and to the same network, IPv4 or IPv6.
AgreesWithLookup ==
    \A i \in Networks : \A a \in Prefix(r, out[i]) :
        LET l == LookupAt(a) IN
        /\ l.kind = out[i].kind /\ l.offset = out[i].offset
        /\ Prefix(r, l) = Prefix(r, out[i])

\* Networks come in address order and never overlap, whatever nodes are shared.
Increasing ==
    \A i, j \in Networks : i < j =>
        \A a \in Prefix(r, out[i]), b \in Prefix(r, out[j]) : a < b

Completed == status = "done" /\ \A i \in DOMAIN out : out[i].kind # "fatal"

\* The address lies in a copy of the IPv4 subtree met below the queried prefix.
InAlias(a) ==
    \E d \in traverseTree(r, prefix.ip, stopBit)[2] .. Bits :
        /\ traverseTree(r, IPv6(a), d) = <<r.ipv4Start, d>>
        /\ ~isInIPv4Subtree(Masked(IPv6(a), d))

\* In a database with an IPv4 subtree, an iteration that ends on its own covers
\* exactly the addresses lookups find data for, less what the options leave out.
CoversLookups ==
    Completed /\ r.version = 6 /\ (hasIPv4Subtree(r) \/ "aliased" \in opts) =>
        \A a \in QueriedRange :
            LET l == LookupAt(a)
                wanted == /\ \/ l.kind = "data" /\ ~("skip" \in opts /\ r.value[l.offset] # "full")
                             \/ l.kind = "empty" /\ "empty" \in opts
                          /\ "aliased" \in opts \/ ~InAlias(a)
            IN wanted <=> \E i \in Networks : a \in Prefix(r, out[i])

\* Without SkipEmptyValues, iterating everything yields every record that any
\* lookup can find: skipping aliases loses networks but never a record.
EveryRecordListed ==
    Completed /\ prefix.bits = 0 /\ (r.version = 6 => ~prefix.ip.is4) /\ "skip" \notin opts =>
        \A ip \in Addresses :
            LET l == Lookup(r, ip) IN
            l.kind = "data" => \E i \in Networks : out[i].offset = l.offset

\* Iterating everything is a check of the tree: without SkipEmptyValues, a sound
\* tree yields no error, and an unsound one is reported if aliases are included.
ErrorsMeanUnsound ==
    ~Rejected /\ "skip" \notin opts =>
        /\ TreeSound(r) => \A i \in DOMAIN out : out[i].kind \in {"data", "empty"}
        /\ (/\ status = "done" /\ prefix.bits = 0 /\ (r.version = 6 => ~prefix.ip.is4)
            /\ "aliased" \in opts /\ ~TreeSound(r)) =>
               \E i \in DOMAIN out : out[i].kind \in {"err", "fatal"}

\* traverse.go, NetworksWithin: "If the provided prefix is contained within a
\* network in the database, the iterator will iterate over exactly one network,
\* the containing network."
ContainingNetworkYielded ==
    Completed /\ LookupAt(As16(prefix.ip).a).kind = "data"
              /\ traverseTree(r, prefix.ip, stopBit)[1] > NodeCount(r) =>
        Cardinality(Networks) = 1
=============================================================================
