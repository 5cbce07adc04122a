------------------------- MODULE VerifiedIteration -------------------------
(***************************************************************************)
(* Reader.Verify and then Reader.NetworksWithin on one Reader: Verifier    *)
(* and Networks composed.  The database is verified, and whatever the      *)
(* verdict, then iterated.                                                 *)
(***************************************************************************)
EXTENDS Verifier

CONSTANT Queries(_)   \* the calls made of a reader: <<prefix, options>>

\* The IP versions that there are; a value that IsEmptyValueAt cannot examine does
\* not decode either; a netip.Prefix is an address and a number of bits.
ASSUME QueriesAssumption ==
    \A d \in Databases :
        /\ d.version \in {4, 6}
        /\ "value" \in DOMAIN d
        /\ \A o \in DOMAIN d.end : d.value[o] = "corrupt" => d.end[o] <= o
        /\ \A q \in Queries(setIPv4Start(d)) :
               q[1].bits \in Int /\ q[1].ip.is4 \in BOOLEAN /\ q[1].ip.a \in Nat

VARIABLES prefix, opts, nodes, node, out, status

Iteration == INSTANCE Networks WITH Databases <- {}, Prefixes <- {}, Options <- {}
iteration == <<prefix, opts, nodes, node, out, status>>

\* All of the addresses, as Reader.Networks asks for them.
Everything == [ip |-> IF r.version = 6 THEN IPv6(0) ELSE IPv4(0), bits |-> 0]

TreeInit ==
    /\ Init
    /\ prefix = Everything /\ opts = {} /\ nodes = <<>> /\ node = Iteration!Nil
    /\ out = <<>> /\ status = "verifying"

Verify == Next /\ UNCHANGED iteration

\* The caller goes on to iterate, whatever Verify said.
Query ==
    /\ verdict # "none" /\ status = "verifying" /\ status' = "start"
    /\ \E q \in Queries(r) : prefix' = q[1] /\ opts' = q[2]
    /\ UNCHANGED <<nodes, node, out>> /\ UNCHANGED vars

Iterate == Iteration!Next /\ UNCHANGED vars

TreeNext == Verify \/ Query \/ Iterate

\* Everything runs in the caller's goroutine, and a consumer that stays in the loop
\* asks on.
TreeSpec == TreeInit /\ [][TreeNext]_<<vars, iteration>> /\ WF_<<vars, iteration>>(TreeNext)

-----------------------------------------------------------------------------
\* Every address of a network that the iterator yields looks up to the yielded record
\* and network.
AgreesWithLookup == Iteration!AgreesWithLookup

\* The iterator yields networks in address order and without overlaps.
Increasing == Iteration!Increasing

\* An iteration that ends on its own covers exactly what lookups find, less what the
\* options leave out.
CoversLookups == Iteration!CoversLookups

\* Skipping aliases loses networks but never a record.
EveryRecordListed == Iteration!EveryRecordListed

\* Iteration reports the unsound trees and only those.
ErrorsMeanUnsound == Iteration!ErrorsMeanUnsound

\* Verify and then NetworksWithin end on every database, cycles included: the one
\* because it marks the nodes on its way, the other because its depth is bounded.
Terminates == <>(status \in {"done", "stopped"})

\* What Verify is for: whatever is asked of a database that it accepts, the iterator
\* meets no error, and every record it yields decodes.
VerifiedIteratesCleanly ==
    verdict = "ok" /\ ~Iteration!Rejected =>
        \A i \in DOMAIN out :
            \/ out[i].kind = "empty"
            \/ out[i].kind = "data" /\ r.end[out[i].offset] > out[i].offset
=============================================================================
