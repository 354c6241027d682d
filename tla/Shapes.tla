------------------------------- MODULE Shapes -------------------------------
(* The vocabulary of the schemas.  Every accessor of the wrapper structs is  *)
(* one of a dozen shapes around a cgo call: which C value the call fills in, *)
(* and which conversion makes a Go value of it.  A schema gives each struct  *)
(* its embedded struct and each getter its shape; the setter and the adder   *)
(* of a field have the shape of its getter.                                  *)
EXTENDS Naturals

NoBase   == "no base"
NilNode  == "nil node"       \* a case of newNode that returns nil
NoFields == [f \in {} |-> {}]

\* A struct with the struct it embeds and the getters it declares itself.
Class(base, fields) == [base |-> base, fields |-> fields]

\* A Go interface with the C++ class its name stands for and its getters.
Interface(base, methods) == [base |-> base, methods |-> methods]

\* item: the conversion.  of: the Go type named by it.  many: a list of such
\* items.  settable: there is a setter.  answer: what the getter makes of the
\* C value; "converted" unless the code leaves the conversion out.
Shape(item, of, many) ==
  [item |-> item, of |-> of, many |-> many, settable |-> TRUE, answer |-> "converted"]

Flag     == Shape("flag", "bool", FALSE)
Num      == Shape("num", "int", FALSE)
Text     == Shape("text", "string", FALSE)
Enum(t)  == Shape("num", t, FALSE)
One(t)   == Shape("node", t, FALSE)
Obj(t)   == Shape("object", t, FALSE)
Word     == Shape("word", "int", FALSE)
Nums     == Shape("word", "int", TRUE)
Texts    == Shape("text", "string", TRUE)
Enums(t) == Shape("word", t, TRUE)
Many(t)  == Shape("node", t, TRUE)
Objs(t)  == Shape("object", t, TRUE)

\* A getter without a setter.
ReadOnly(s) == [s EXCEPT !.settable = FALSE]

\* A getter that answers the zero value whatever C++ holds.
AnswersZero(s) == [s EXCEPT !.answer = "zero"]
Stub(s)        == ReadOnly(AnswersZero(s))

\* A getter that converts the list's header in place of each item.
ReadsHeader(s) == [s EXCEPT !.answer = "header"]

\* The children of an AST node: C++ owns them, there is no setter.
Child(t)    == ReadOnly(One(t))
Children(t) == ReadOnly(Many(t))

\* A child whose getter asserts the Go type without asking for nil first.
Unguarded(t) == [Child(t) EXCEPT !.answer = "unguarded"]
-----------------------------------------------------------------------------
(* Wrappers of objects that are no nodes: newX and getRawX of package types. *)

\* link: the result type of the function that resolved_ast links to, where it
\* is not the declared one: a struct for an interface, or the reverse.
Wrapping(checksNil, nilSafe, link) ==
  [checksNil |-> checksNil, nilSafe |-> nilSafe, link |-> link]

NilIsNil   == Wrapping(TRUE, FALSE, "same")   \* newX(nil) is nil
NilIsEmpty == Wrapping(FALSE, FALSE, "same")  \* newX(nil) wraps the null address
=============================================================================
