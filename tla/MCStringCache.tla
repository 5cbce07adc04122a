--------------------------- MODULE MCStringCache ---------------------------
(* StringCache on four slots.  Offsets 0 and 16 contend for both slots of     *)
(* each other, 4 shares only its primary slot with them, and 2 is a string    *)
(* too short to cache.                                                        *)
EXTENDS StringCache

MCOffsets == {0, 2, 4, 16}
MCPayload == [o \in Offsets |-> <<"bytes at", o>>]
MCSize == [o \in Offsets |-> IF o = 2 THEN 1 ELSE 2]
=============================================================================
