----------------------------- MODULE MCGenerator -----------------------------
(* Packages for Generator.  models.go holds the target City, other.go the    *)
(* target Name; point is a plain struct, custom one with a handwritten       *)
(* method, and wrapper a struct that embeds some of the others.              *)
EXTENDS Generator

None == [m \in Methods |-> "none"]
Hand(m, quality) == [None EXCEPT ![m] = quality]

Type(file, target) ==
    [file |-> file, target |-> target, embeds |-> {}, fields |-> {}, supported |-> TRUE,
     hand |-> None]

Package(city, name, point, wrapper) ==
    [types |-> [t \in {"City", "Name", "point", "custom", "wrapper"} |->
                   CASE t = "City" -> city [] t = "Name" -> name [] t = "point" -> point
                     [] t = "wrapper" -> wrapper
                     [] OTHER -> [Type("other.go", FALSE) EXCEPT !.hand = Hand("cursor", "good")]],
     built |-> {"models.go", "other.go"}, calls |-> {}, reserved |-> {}]

City(fields) == [Type("models.go", TRUE) EXCEPT !.fields = fields]
Name(fields, hand) == [Type("other.go", TRUE) EXCEPT !.fields = fields, !.hand = hand]
Point == Type("models.go", FALSE)
Wrapper(embeds) == [Type("models.go", FALSE) EXCEPT !.embeds = embeds]

Hands == {None, Hand("cursor", "good"), Hand("decoder", "good"), Hand("cursor", "odd"),
          [Hand("cursor", "good") EXCEPT !["decoder"] = "odd"]}

\* Structs that share a nested one, types taken over by hand, recursion, and
\* structs that promote a handwritten method, a generated one, both or none.
Ordinary ==
    {Package(City(c), Name(n, h), Point, Wrapper({})) :
        c \in {{"Name", "point"}, {"custom", "point"}},
        n \in {{"City"}, {"custom", "point"}}, h \in Hands}

Embedding ==
    {Package(City(c), Name({"point"}, h), Point, Wrapper(w)) :
        c \in {{"wrapper", "point"}}, h \in {None, Hand("cursor", "good")},
        w \in {{"point"}, {"custom"}, {"Name"}, {"custom", "point"}, {"custom", "Name"}}}

\* Calls from handwritten code, names taken, files left out by the build,
\* a second target of the file, and fields that are not supported.
Special ==
    LET base == Package(City({"point"}), Name({"point"}, None), Point, Wrapper({}))
    IN  {[base EXCEPT !.calls = {"Name"}], [base EXCEPT !.calls = {"point"}],
         [base EXCEPT !.reserved = {<<"other.go", "point">>}],
         [base EXCEPT !.built = {"models.go"}],
         [base EXCEPT !.types["point"].target = TRUE],
         [base EXCEPT !.types["Name"].target = FALSE],
         [base EXCEPT !.types["point"].supported = FALSE],
         [base EXCEPT !.types["wrapper"] =
              [Type("models.go", TRUE) EXCEPT !.embeds = {"custom"}]],
         [base EXCEPT !.types["City"].fields = {"wrapper"},
                      !.types["wrapper"].embeds = {"custom", "Name"},
                      !.types["wrapper"].hand = Hand("decoder", "good")]}

AllPackages == Ordinary \cup Embedding \cup Special

\* What earlier runs, for other sources, or somebody else left at the output paths.
Stale(targets) == Source(targets, << >>)

Holding(a, b, c) ==
    [p \in Paths |-> CASE p = "models.go" -> a [] p = "other.go" -> b [] OTHER -> c]

AllOutputs ==
    LET models == Stale({"City", "wrapper", "removed"})
        other  == Stale({"Name", "point", "custom"})
    IN  {Holding(Absent, Absent, Absent), Holding(models, other, Absent),
         Holding(models, Absent, Absent), Holding(Absent, other, Absent),
         Holding(Handwritten, other, Absent), Holding(Absent, Absent, Stale({"City", "Name"}))}

NoOutputs == {[p \in Paths |-> Absent]}
=============================================================================
