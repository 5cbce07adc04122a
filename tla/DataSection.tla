---------------------------- MODULE DataSection ----------------------------
(***************************************************************************)
(* The data section as a sequence of records, one per control record of    *)
(* the file, and how the decoders step over it (data_decoder.go,           *)
(* decoder.go).  An offset is a position in the sequence; a scalar and its *)
(* payload, or a pointer and its bytes, take one position, a container     *)
(* takes one for its header, followed by its keys and values.              *)
(***************************************************************************)
EXTENDS Integers, Sequences

(* A record: kind is "string", "number", "map", "slice" or "pointer"; n is  *)
(* the number of entries of a container, the target of a pointer, or 0.     *)
Record ==
    {r \in [kind : {"string", "number", "map", "slice", "pointer"}, n : Nat] :
        r.kind = "pointer" => r.n > 0}

Scalar(kind)    == [kind |-> kind, n |-> 0]
Pointer(to)     == [kind |-> "pointer", n |-> to]
Map(pairs)      == [kind |-> "map", n |-> pairs]
Slice(elements) == [kind |-> "slice", n |-> elements]

\* The result of a step that reports malformed data.
Bad == 0

Values(record) ==
    CASE record.kind = "map"   -> 2 * record.n
      [] record.kind = "slice" -> record.n
      [] OTHER                 -> 0

\* nextValueOffset: the offset after numberToSkip values that start at offset.
nextValueOffset(s, offset, numberToSkip) ==
    LET after[o \in 1 .. Len(s) + 1] ==
            [n \in Nat |-> IF n = 0 THEN o
                           ELSE IF o > Len(s) THEN Bad
                           ELSE after[o + 1][n - 1 + Values(s[o])]]
    IN after[offset][numberToSkip]

\* resolveCtrlData: the record at offset or the one its pointer leads to.  "data"
\* is the offset after that record's header, "next" the offset after the pointer
\* or 0 when there was none.
resolveCtrlData(s, offset) ==
    LET bad == [kind |-> "bad", n |-> 0, data |-> 0, next |-> 0] IN
    IF offset > Len(s) THEN bad
    ELSE IF s[offset].kind # "pointer"
         THEN [kind |-> s[offset].kind, n |-> s[offset].n, data |-> offset + 1, next |-> 0]
         ELSE LET to == s[offset].n IN
              IF to > Len(s) \/ s[to].kind = "pointer" THEN bad
              ELSE [kind |-> s[to].kind, n |-> s[to].n, data |-> to + 1, next |-> offset + 1]

\* decodeKey: the offset after the map key at offset.
decodeKey(s, offset) ==
    LET r == resolveCtrlData(s, offset) IN
    IF r.kind # "string" THEN Bad ELSE IF r.next # 0 THEN r.next ELSE r.data

-----------------------------------------------------------------------------
(* What a section means, without the decoders: values nest like brackets.   *)

\* How many values are still missing at position e, of n that start at o.
Missing(s, o, n, e) ==
    LET open[i \in o .. e] == IF i = o THEN n ELSE open[i - 1] - 1 + Values(s[i - 1])
    IN open[e]

\* The first position at which none is missing, or Bad if the section ends before.
EndOf(s, o, n) ==
    LET ends == {e \in o .. Len(s) + 1 :
                    Missing(s, o, n, e) = 0 /\ \A i \in o .. e - 1 : Missing(s, o, n, i) > 0}
    IN IF ends = {} THEN Bad ELSE CHOOSE e \in ends : TRUE

\* Every value of the section is complete.
Complete(s) == \A o \in 1 .. Len(s) : EndOf(s, o, 1) # Bad
=============================================================================
