--------------------------- MODULE MCDecodeBudget ---------------------------
(* DecodeBudget with room for eight children, six bytes of payload and four    *)
(* levels, over sections that fan out, share and loop.                         *)
EXTENDS DecodeBudget

Str(n) == [kind |-> "string", n |-> n]
Number == Scalar("number")

Records(n) ==
    {Str(2), Number, Map(1), Slice(1), Slice(2), Slice(5)} \cup {Pointer(i) : i \in 1 .. n}

Larger ==
    {<<Slice(2), Pointer(4), Pointer(4), Slice(2), Pointer(7), Pointer(7), Slice(2), Number, Number>>,
     <<Slice(2), Slice(2), Number, Number, Slice(2), Number, Number>>,
     <<Map(2), Str(1), Slice(1), Number, Str(1), Map(1), Str(3), Str(2)>>,
     <<Slice(4), Number, Number, Number, Slice(4), Number, Number, Number, Number>>,
     <<Slice(4), Pointer(6), Pointer(6), Number, Number, Slice(2), Number, Number>>,
     <<Slice(4), Pointer(6), Pointer(6), Pointer(6), Pointer(6), Slice(3), Number, Number, Number>>,
     <<Slice(4), Pointer(6), Pointer(6), Pointer(6), Number, Slice(2), Number, Number>>,
     <<Map(2), Map(2), Str(1), Number, Str(1), Number>>,
     <<Slice(2), Map(2), Str(0), Number, Str(0), Number, Map(3), Str(0), Number, Str(0), Number, Str(0), Number>>,
     <<Map(2), Str(1), Pointer(6), Pointer(2), Slice(1), Slice(4), Str(0), Str(1), Number, Number>>,
     <<Map(1), Str(0), Pointer(1)>>,
     <<Map(2), Str(0), Map(1), Str(0), Number, Pointer(4), Str(6)>>,
     <<Slice(2), Slice(1), Slice(1), Slice(1), Slice(1), Number, Slice(0)>>}

MCSections == Larger \cup UNION {[1 .. n -> Records(n)] : n \in 1 .. 3}
=============================================================================
