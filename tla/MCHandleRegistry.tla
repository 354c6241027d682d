-------------------------- MODULE MCHandleRegistry --------------------------
(***************************************************************************)
(* Small instances of HandleRegistry.  There is one address more than      *)
(* values that get one, so that a second object for a value finds room.    *)
(***************************************************************************)
EXTENDS HandleRegistry, FiniteSets

ASSUME RoomForASecondObject ==
    Cardinality(GoAddrs) > Cardinality(GoObjs \ Uncomparable)
=============================================================================
