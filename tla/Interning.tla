----------------------------- MODULE Interning -----------------------------
(***************************************************************************)
(* What string interning promises its callers: a call for the string       *)
(* record at a control offset returns that record's payload, whatever any  *)
(* other goroutine does meanwhile.  Whether the bytes are copied or shared *)
(* is not visible.  StringCache implements this specification.             *)
(***************************************************************************)
CONSTANTS
    Goroutines,   \* the goroutines decoding through one Reader
    Offsets,      \* control-record offsets of the strings they decode
    Payload,      \* Payload[o]: the bytes of the string record at o
    Nil           \* no call or no answer yet

VARIABLES
    req,          \* req[g]: the offset g's latest call asks for
    ret           \* ret[g]: the string that call returned, Nil while it runs

vars == <<req, ret>>

Init ==
    /\ req = [g \in Goroutines |-> Nil]
    /\ ret = [g \in Goroutines |-> Nil]

Running(g) == req[g] # Nil /\ ret[g] = Nil

Call(g, o) ==
    /\ ~Running(g)
    /\ req' = [req EXCEPT ![g] = o]
    /\ ret' = [ret EXCEPT ![g] = Nil]

Return(g) ==
    /\ Running(g)
    /\ ret' = [ret EXCEPT ![g] = Payload[req[g]]]
    /\ UNCHANGED req

Next == \E g \in Goroutines : Return(g) \/ \E o \in Offsets : Call(g, o)

Spec == Init /\ [][Next]_vars
=============================================================================
