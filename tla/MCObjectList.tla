---------------------------- MODULE MCObjectList ----------------------------
(***************************************************************************)
(* A body that the physics may hit, and two items: three levels of parents *)
(* at the most.                                                            *)
(***************************************************************************)
EXTENDS ObjectList

CONSTANTS Body, Item1, Item2

MCObjects == {Body, Item1, Item2}
MCUses == [o \in Objects |-> IF o = Body THEN 2 ELSE 1]
Items == Permutations({Item1, Item2})
=============================================================================
