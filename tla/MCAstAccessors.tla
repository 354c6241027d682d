--------------------------- MODULE MCAstAccessors ---------------------------
(* The accessors of every struct of package ast, with the bounds of          *)
(* MCResolvedAccessors.  Every object a getter answers is checked for nil.   *)
EXTENDS NodeAccessors, AstSchema, TypesSchema

MCIntSpan    == 8
MCClasses    == AstClasses
MCInterfaces == AstInterfaces
MCDispatch   == AstNewNodeOf
MCOtherwise  == "BaseNode"
MCCppOnly    == AstKindsWithoutStruct
MCObjects    == ObjectWrappers @@ JoinErrorWrapper
MCGoInts     == {-1, 0, 3, 4, 7, 8}
MCTextValues == UNION {[1..n -> {Char, Nul}] : n \in 0..2}
=============================================================================
