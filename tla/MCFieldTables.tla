---------------------------- MODULE MCFieldTables ----------------------------
(* Instances of FieldTables.  Many declarations of three struct types, which *)
(* embed and nest one another in every way Go accepts, for one goroutine;    *)
(* and, for two goroutines that look keys up, types that nest one another,   *)
(* with keys whose fingerprints collide.                                     *)
EXTENDS FieldTables

\* Fields: exported, without a tag, of a scalar type.
Plain(n) == [name |-> n, tag |-> "none", exported |-> TRUE, anonymous |-> FALSE,
             pointer |-> FALSE, type |-> Scalar]
Tagged(n) == [Plain(n) EXCEPT !.tag = "named"]
Marked(n, tag) == [Plain(n) EXCEPT !.tag = tag]
Hidden(n) == [Plain(n) EXCEPT !.exported = FALSE]
Nest(n, t) == [Plain(n) EXCEPT !.pointer = TRUE, !.type = t]
NestValue(n, t) == [Plain(n) EXCEPT !.type = t]
Embed(t) == [Plain("Type") EXCEPT !.anonymous = TRUE, !.type = t]
EmbedPointer(t) == [Embed(t) EXCEPT !.pointer = TRUE]
EmbedTagged(n, t) == [EmbedPointer(t) EXCEPT !.tag = "named", !.name = n]
EmbedHidden(f) == [f EXCEPT !.exported = FALSE]
EmbedScalar(n) == [Plain(n) EXCEPT !.anonymous = TRUE]

\* What Go accepts: no two fields of one Go name, no struct inside itself.
GoNames(fields) ==
    \A i, j \in DOMAIN fields : i < j =>
        /\ {fields[i].tag, fields[j].tag} \cap {"named"} = {} /\ fields[i].name # "Type"
               => fields[i].name # fields[j].name
        /\ fields[i].anonymous /\ fields[j].anonymous => fields[i].type # fields[j].type

Holds(d, t) == {d[t][i].type : i \in {i \in DOMAIN d[t] : ~d[t][i].pointer}} \cap Types

Legal(d) ==
    /\ \A t \in Types : GoNames(d[t])
    /\ \A t \in Types :
           LET one == Holds(d, t)
               two == one \cup UNION {Holds(d, u) : u \in one}
           IN  t \notin two \cup UNION {Holds(d, u) : u \in two}

Outer == {Plain("a"), Tagged("a"), Marked("b", "ignored"), Marked("b", "bad"),
          Marked("b", "malformed"), Hidden("a"), EmbedScalar("a"),
          NestValue("b", "U"), Nest("b", "T"),
          Embed("U"), Embed("V"), EmbedPointer("U"), EmbedTagged("a", "U"),
          EmbedHidden(Embed("U")), EmbedHidden(EmbedPointer("V"))}
Middle == {Plain("a"), Tagged("a"), Plain("b"), Embed("V"), EmbedPointer("T"), Nest("b", "T"),
           Nest("a", "V")}
Inner == {Plain("a"), Tagged("a"), Tagged("b"), EmbedPointer("U"), Nest("b", "U")}

Pairs(S) == {<<f, g>> : f, g \in S}

Declarations ==
    {d \in {[t \in Types |-> CASE t = "T" -> x [] t = "U" -> y [] t = "V" -> z]
            : x \in Pairs(Outer), y \in Pairs(Middle), z \in {<<f>> : f \in Inner}} : Legal(d)}

-----------------------------------------------------------------------------
\* Mutually recursive types, and three names with colliding fingerprints, for
\* goroutines that race.
Shared ==
    {[t \in Types |-> CASE t = "T" -> <<Plain("a"), NestValue("b", "U")>>
                        [] t = "U" -> <<Plain("b"), Nest("c", "T")>>
                        [] OTHER -> << >>],
     [t \in Types |-> CASE t = "T" -> <<Tagged("a"), Tagged("b"), Tagged("c")>>
                        [] OTHER -> << >>]}

MCPrograms ==
    {[decl |-> d, root |-> <<"T">>, lookups |-> <<0>>] : d \in Declarations} \cup
    {[decl |-> d, root |-> r, lookups |-> <<2, 2>>] : d \in Shared, r \in {<<"T", "T">>, <<"T", "U">>}}

\* a and b have one fingerprint; c and d share its slot but not the fingerprint.
MCKeys == {"a", "b", "c", "d"}
MCFingerprint == [k \in MCKeys |-> CASE k = "a" -> 9 [] k = "b" -> 9
                                     [] k = "c" -> 1 [] k = "d" -> 17]
=============================================================================
