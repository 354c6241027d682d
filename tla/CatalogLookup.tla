--------------------------- MODULE CatalogLookup ---------------------------
(***************************************************************************)
(* A lookup by the analyzer through catalogs of both languages             *)
(* (types/catalog.go).                                                     *)
(*                                                                         *)
(* The C++ analyzer asks a catalog.  A user-written one answers by the     *)
(* closure that getRawCatalog made of it; its code may decide by itself,   *)
(* ask any other catalog through BaseCatalog.FindX, which is C++ again, or *)
(* use a getter of a SimpleCatalog.  A SimpleCatalog answers from its own  *)
(* entries or asks a catalog added to it, which may be user-written again. *)
(* The call stack is explicit; every return converts what it passes on.    *)
(*                                                                         *)
(* What the C++ catalogs do is external, as the Go code relies on it.      *)
(***************************************************************************)
EXTENDS Naturals, Sequences

CONSTANTS
    GoCatalogs,   \* user-written types.Catalog values
    CxxCatalogs,  \* SimpleCatalogs
    Objects,      \* addresses of C++ tables, models, functions, ...
    Tables,       \* user-written types.Table values
    MaxDepth,     \* bound: calls under way at once
    Null

\* What FindX answers with is an interface, or a pointer.
Interfaces == {"table", "model", "connection", "table_valued_function", "type", "constant"}
Kinds == Interfaces \cup {"function", "procedure"}

ASSUME LookupAssumption ==
    /\ GoCatalogs \cap CxxCatalogs = {}
    /\ MaxDepth \in Nat \ {0}
    /\ Null \notin Objects \cup Tables
    /\ Objects \cap Tables = {}

VARIABLES
    kind,    \* what is looked up
    stack,   \* the calls under way: the catalog, and the language it runs in
    answer,  \* what the call that just returned hands to the one below it
    leaf     \* history: what the catalog that decided the lookup said

vars == <<kind, stack, answer, leaf>>

Catalogs == GoCatalogs \cup CxxCatalogs

\* Addresses; a user-written table has one of its own (HandleRegistry).
Addresses == Objects \cup Tables

\* Statuses that a C++ lookup returns.
Found(a) == [is |-> "found", at |-> a]
NotFound == [is |-> "notfound", at |-> Null]
Error == [is |-> "error", at |-> Null]
Statuses == {Found(a) : a \in Addresses} \cup {NotFound, Error}

\* Go values that a user's FindX returns: a nil interface or pointer, a non-nil
\* interface around a nil pointer (its own, or a wrapper's), a user-written table
\* of a type that cannot be a map key, a wrapper of a C++ address, an error.
Nil == [is |-> "nil", at |-> Null]
TypedNil == [is |-> "typednil", at |-> Null]
Unhashable == [is |-> "unhashable", at |-> Null]
Wrapper(a) == [is |-> "wrapper", at |-> a]

\* What a closure returns to C++: an address, or Null, without an error.
Pointer(a) == [is |-> "pointer", at |-> a]
Panic == [is |-> "panic", at |-> Null]
NoAnswer == [is |-> "none", at |-> Null]

Answers == Statuses \cup {Pointer(a) : a \in Addresses \cup {Null}} \cup {Panic, NoAnswer}
Leaves == Statuses \cup {Nil, TypedNil, Unhashable, NoAnswer}

-----------------------------------------------------------------------------
(***************************************************************************)
(* The conversions, by kind.                                               *)
(***************************************************************************)

\* newBaseTable, newModel, newFunction, ... of what C++ returned.
NewOf(k, a) ==
    CASE a = Null /\ k \in {"table", "model", "table_valued_function"} -> TypedNil
      [] a = Null /\ k = "type" -> Nil
      [] OTHER -> Wrapper(a)

\* The closures that ask the result for its address without looking for nil.
Unchecked == {"model", "connection", "table_valued_function", "type"}

\* Mutant: no closure looks for nil.
RawOfUnchecked(k, x) ==
    CASE x = Error -> Error
      [] x = Nil -> Panic
      [] x \in {TypedNil, Unhashable} -> Panic
      [] OTHER -> Pointer(x.at)

\* Mutant: the error is dropped.
RawOfNoError(k, x) ==
    CASE x = Error -> Pointer(Null)
      [] x = Nil -> IF k \in Unchecked THEN Panic ELSE Pointer(Null)
      [] x \in {TypedNil, Unhashable} -> Panic
      [] OTHER -> Pointer(x.at)

\* The end of a closure: the error, or the address of the value; a table's by
\* getRawTable, which looks it up in its map (HandleRegistry).
RawOf(k, x) ==
    CASE x = Error -> Error
      [] x = Nil -> IF k \in Unchecked THEN Panic ELSE Pointer(Null)
      [] x \in {TypedNil, Unhashable} -> Panic
      [] OTHER -> Pointer(x.at)

-----------------------------------------------------------------------------
Init ==
    /\ kind \in Kinds
    /\ stack = <<>>
    /\ answer = NoAnswer
    /\ leaf = NoAnswer

Top == stack[Len(stack)]
Pop == SubSeq(stack, 1, Len(stack) - 1)
Call(c, side) == [catalog |-> c, side |-> side]

\* The call on top is for catalog c in a language, and has just begun.
Begins(side, Kind) == /\ stack # <<>> /\ answer = NoAnswer
                      /\ Top.side = side /\ Top.catalog \in Kind

\* It is waiting for the call above it, which has returned.
Resumes(side, Kind) == /\ stack # <<>> /\ answer \notin {NoAnswer, Panic}
                       /\ Top.side = side /\ Top.catalog \in Kind

Push(c, side) ==
    /\ Len(stack) < MaxDepth
    /\ stack' = Append(stack, Call(c, side))
    /\ answer' = NoAnswer

ReturnWith(x) ==
    /\ stack' = Pop
    /\ answer' = x

\* The analyzer looks a name up in the catalog it was given, and goes on to the
\* next name whatever the answer.
Analyze(k, c) ==
    /\ stack = <<>>
    /\ kind' = k
    /\ leaf' = NoAnswer
    /\ Push(c, "cxx")

-----------------------------------------------------------------------------
(***************************************************************************)
(* C++: SimpleCatalog and GoCatalog.                                       *)
(***************************************************************************)
CxxDecides ==
    /\ Begins("cxx", CxxCatalogs)
    /\ \E x \in {Found(a) : a \in Objects} \cup {NotFound} :
        /\ ReturnWith(x)
        /\ leaf' = x
    /\ UNCHANGED kind

CxxAsksNested ==
    /\ Begins("cxx", CxxCatalogs)
    /\ \E c \in Catalogs : Push(c, "cxx")
    /\ UNCHANGED <<kind, leaf>>

CxxNestedReturns ==
    /\ Resumes("cxx", CxxCatalogs)
    /\ ReturnWith(answer)
    /\ UNCHANGED <<kind, leaf>>

\* GoCatalog calls the closure of its Go catalog.
CallsBack ==
    /\ Begins("cxx", GoCatalogs)
    /\ Push(Top.catalog, "go")
    /\ UNCHANGED <<kind, leaf>>

\* A null address without an error is "not found".
CallbackReturns ==
    /\ Resumes("cxx", GoCatalogs)
    /\ ReturnWith(IF answer = Error THEN Error
                  ELSE IF answer.at = Null THEN NotFound ELSE Found(answer.at))
    /\ UNCHANGED <<kind, leaf>>

-----------------------------------------------------------------------------
(***************************************************************************)
(* Go: the closures of getRawCatalog around the user's FindX.              *)
(***************************************************************************)

\* The user's code decides: an object it has, a table written in Go, some nil, or
\* an error (BaseCatalog.FindConnection always answers with one).
GoDecides ==
    /\ Begins("go", GoCatalogs)
    /\ \/ \E a \in Objects \cup (IF kind = "table" THEN Tables ELSE {}) :
            /\ ReturnWith(RawOf(kind, Wrapper(a)))
            /\ leaf' = Found(a)
       \/ \E x \in {Nil, Error} \cup (IF kind \in Interfaces THEN {TypedNil} ELSE {})
                               \cup (IF kind = "table" THEN {Unhashable} ELSE {}) :
            /\ ReturnWith(RawOf(kind, x))
            /\ leaf' = x
    /\ UNCHANGED kind

\* It uses SimpleCatalog.Table, Model, Function, ..., which answer for a name
\* they do not have with an OK status and a null address.
GoGets ==
    /\ Begins("go", GoCatalogs)
    /\ CxxCatalogs # {} /\ kind \notin {"connection", "constant"}
    /\ \E a \in Objects \cup {Null} :
        /\ ReturnWith(RawOf(kind, NewOf(kind, a)))
        /\ leaf' = IF a # Null THEN Found(a)
                   ELSE IF NewOf(kind, a) = Wrapper(Null) THEN NotFound
                   ELSE NewOf(kind, a)
    /\ UNCHANGED kind

\* It asks another catalog, BaseCatalog.FindX.
GoAsks ==
    /\ Begins("go", GoCatalogs)
    /\ kind # "connection"
    /\ \E c \in Catalogs : Push(c, "cxx")
    /\ UNCHANGED <<kind, leaf>>

\* Mutant: the address is not put into the result.
GoAskedReturnsEmpty ==
    /\ Resumes("go", GoCatalogs)
    /\ ReturnWith(RawOf(kind, IF answer.is = "found" THEN Nil ELSE Error))
    /\ UNCHANGED <<kind, leaf>>

\* It returns what the other catalog answered.  Any status but OK, "not found"
\* among them, is an error here.
GoAskedReturns ==
    /\ Resumes("go", GoCatalogs)
    /\ ReturnWith(RawOf(kind, IF answer.is = "found" THEN NewOf(kind, answer.at) ELSE Error))
    /\ UNCHANGED <<kind, leaf>>

\* It looks at the error and goes on to decide otherwise.
GoRetries ==
    /\ Resumes("go", GoCatalogs)
    /\ answer.is # "found"
    /\ answer' = NoAnswer
    /\ UNCHANGED <<kind, stack, leaf>>

\* A panic unwinds every call.
Unwind ==
    /\ stack # <<>> /\ answer = Panic
    /\ stack' = Pop
    /\ UNCHANGED <<kind, answer, leaf>>

\* Beyond the bound nothing is modelled: the analysis is given up.
GiveUp ==
    /\ Len(stack) = MaxDepth /\ answer = NoAnswer
    /\ stack' = <<>>
    /\ UNCHANGED <<kind, answer, leaf>>

Next ==
    \/ \E k \in Kinds : \E c \in Catalogs : Analyze(k, c)
    \/ CxxDecides \/ CxxAsksNested \/ CxxNestedReturns \/ CallsBack \/ CallbackReturns
    \/ GoDecides \/ GoGets \/ GoAsks \/ GoAskedReturns \/ GoRetries
    \/ Unwind \/ GiveUp

Spec == Init /\ [][Next]_vars

-----------------------------------------------------------------------------
Calls == [catalog : Catalogs, side : {"cxx", "go"}]

TypeOK ==
    /\ kind \in Kinds
    /\ stack \in Seq(Calls)
    /\ answer \in Answers
    /\ leaf \in Leaves

Answered == stack = <<>> /\ answer # NoAnswer

\* Whatever catalogs a lookup passes through, in whichever language, the
\* analyzer gets the object that the deciding catalog named, and none other.
ObjectComesThrough ==
    Answered => \A a \in Addresses : answer = Found(a) <=> leaf = Found(a)

\* A failure is never mistaken for an absence: the analyzer hears "not found"
\* only when the deciding catalog had nothing of that name.
ErrorsAreReported ==
    Answered /\ answer = NotFound => leaf \in {Nil, NotFound}

\* Values that a closure cannot turn into an address: nil where it does not look for
\* nil, a nil pointer in an interface, as the getters of a SimpleCatalog answer for what
\* they do not have, and a table that getRawTable cannot look up.
Bad(k, x) == \/ x = Nil /\ k \in Unchecked
             \/ x = TypedNil /\ k \in Interfaces
             \/ x = Unhashable /\ k = "table"

\* A lookup panics exactly when the catalog that decided it answered with a value
\* like that: the panic starts in a callback of C++, no catalog below turns it into
\* an answer, and nothing else that a catalog answers makes one.
PanicsOnBadValues == answer = Panic <=> Bad(kind, leaf)
=============================================================================
