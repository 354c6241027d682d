------------------------- MODULE MCResolvedAccessors -------------------------
(* The accessors of every struct of packages resolved_ast and types.  A C    *)
(* int has three bits here; a list has at most two items, a text at most two *)
(* bytes.                                                                    *)
EXTENDS NodeAccessors, ResolvedSchema, TypesSchema

MCIntSpan    == 8
MCClasses    == ResolvedClasses @@ TypesClasses
MCInterfaces == ResolvedInterfaces
MCDispatch   == NewNodeOf
MCOtherwise  == NilNode
MCCppOnly    == NewerKinds
MCObjects    == ObjectWrappers
MCGoInts     == {-1, 0, 3, 4, 7, 8}
MCTextValues == UNION {[1..n -> {Char, Nul}] : n \in 0..2}
=============================================================================
