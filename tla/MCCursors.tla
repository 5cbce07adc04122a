------------------------------ MODULE MCCursors ------------------------------
(* Cursors of a database under test, over sections that nest, share through   *)
(* pointers or end too early, and of a second database, whose cursors must be *)
(* refused.                                                                   *)
EXTENDS Cursors, TLC

Key == Scalar("string")
Number == Scalar("number")

Tested ==
    {<<Map(1), Key, Number, Key>>,
     <<Map(1), Pointer(4), Slice(1), Key>>,
     <<Slice(2), Slice(1), Pointer(5), Pointer(2), Key>>,
     <<Map(2), Key, Map(0), Key, Number>>,
     <<Pointer(2), Map(1), Key, Slice(0)>>,
     <<Map(1), Key, Map(1), Key>>}

Second == <<Slice(1), Number>>

MCDatabases == {("a" :> s) @@ ("b" :> Second) : s \in Tested}
=============================================================================
