---------------------------- MODULE NodeAccessors ----------------------------
(* The accessors of the wrapper structs.  A wrapper is a Go struct around    *)
(* the address of a C++ object; a getter asks C++ for a value and converts   *)
(* it, a setter converts a Go value and hands it to C++.  The structs and    *)
(* the shapes of their getters come from a schema (Classes); the behaviour   *)
(* is one client that reads, writes and walks one field of one object, in    *)
(* any order, and passes what it read on to the setter.                      *)
EXTENDS Shapes, Conversions, Sequences, SequencesExt

CONSTANTS
  Classes,      \* struct -> [base, fields], the schema
  Interfaces,   \* Go interface -> [base, methods]: the C++ class its name
                \* stands for, and the getters that make a struct satisfy it
  Dispatch,     \* node kind -> the struct newNode makes for it, or NilNode
  Otherwise,    \* the struct newNode makes for any other kind, or NilNode
  CppOnly,      \* kinds of C++ classes without a case in newNode -> the
                \* struct of the nearest class that has one
  Objects,      \* type of a wrapped object -> how its wrapper is made
  Addrs,        \* addresses of C++ objects
  GoInts, TextValues, MaxLen,          \* what a client passes, what C++ holds
  Char, Nul,                           \* the bytes a text is made of
  Nil, Null, Garbage, Panic, None      \* distinguished values

\* The tables by names of their own: TLC evaluates a definition once, and a
\* constant that stands for a table again at each use.
Structs      == Classes
GoInterfaces == Interfaces
NewNodeCases == Dispatch
Wrappings    == Objects

\* The struct and all it embeds, directly or not.
Chain[c \in DOMAIN Structs] ==
  {c} \cup IF Structs[c].base = NoBase THEN {} ELSE Chain[Structs[c].base]

Getters(c) == UNION {DOMAIN Structs[b].fields : b \in Chain[c]}

IsInterface(t) == t \in DOMAIN GoInterfaces

Satisfies(c, t) == GoInterfaces[t].methods \subseteq Getters(c)

\* The kinds a C++ accessor declared with type t can answer: C++'s classes
\* derive from each other as the structs embed each other.
CppClass(t)   == IF IsInterface(t) THEN GoInterfaces[t].base ELSE t
KindsBelow(t) ==
  {k \in DOMAIN NewNodeCases : NewNodeCases[k] # NilNode /\ CppClass(t) \in Chain[NewNodeCases[k]]}
    \cup {k \in DOMAIN CppOnly : CppClass(t) \in Chain[CppOnly[k]]}

\* A shape that the code has: a list's header is converted in place of its
\* items by getters of texts alone where there is a setter, and a getter that
\* drops an object has no setter.
WellFormed(s) ==
  /\ s.item \in {"flag", "num", "word", "text", "node", "object"} /\ s.of \in STRING
  /\ s.answer \in {"converted", "unguarded", "zero", "header"}
  /\ s.many \in BOOLEAN /\ s.settable \in BOOLEAN
  /\ s.item = "object" =>
       /\ s.of \in DOMAIN Wrappings
       /\ Wrappings[s.of] \in [checksNil : BOOLEAN, nilSafe : BOOLEAN, link : {"same", "interface", "struct"}]
       /\ s.answer = "zero" => ~s.settable
  /\ s.answer = "header" => s.many /\ (s.settable => s.item = "text")

ASSUME SchemaAssumption ==
  \A c \in DOMAIN Structs : \A f \in DOMAIN Structs[c].fields : WellFormed(Structs[c].fields[f])

\* newNode's structs satisfy the interfaces of the C++ classes they stand for.
ASSUME DispatchAssumption ==
  /\ "Node" \in DOMAIN GoInterfaces /\ Otherwise \in STRING
  /\ \A k \in DOMAIN NewNodeCases : NewNodeCases[k] \in STRING
  /\ \A k \in DOMAIN CppOnly \cap DOMAIN NewNodeCases : NewNodeCases[k] = NilNode
  /\ \A k \in DOMAIN NewNodeCases, t \in DOMAIN GoInterfaces :
       NewNodeCases[k] # NilNode /\ GoInterfaces[t].base \in Chain[NewNodeCases[k]] =>
         Satisfies(NewNodeCases[k], t)

\* The data: what a text, an address and a wrapper can be, and the rest.
TextData == Seq({Char, Nul})
Boxes    == [boxed : Addrs \cup {Null, Garbage}]
Wrappers == [class : STRING, raw : Addrs \cup {Null} \cup Boxes]
Data     == BOOLEAN \cup Int \cup TextData \cup Addrs \cup Boxes \cup Wrappers

\* The distinguished values are distinct, and no data; an address is no box.
ASSUME ValuesAssumption ==
  /\ GoInts \subseteq Int /\ TextValues \subseteq TextData /\ MaxLen \in Nat
  /\ Nil \notin {Null, Garbage, Panic, None} /\ Null \notin {Garbage, Panic, None}
  /\ Garbage \notin {Panic, None} /\ Panic # None
  /\ Addrs \cap Boxes = {}
  /\ \A x \in {Nil, Null, Garbage, Panic, None} :
       x \notin Data /\ x \notin Seq(Data \cup {Nil, Null, Garbage})

VARIABLES
  subject,   \* the struct and the getter under test, and the kind of the
             \* nodes the field holds
  stored,    \* what the C++ object holds in the field
  answer,    \* what the getter answered last, or None
  seen,      \* what the field held then
  visited,   \* the wrapper a walk gave for the field's node then, or None
  given,     \* what a setter passed last, or None
  status     \* "running", or "crashed" once a call panicked

vars == <<subject, stored, answer, seen, visited, given, status>>

shape == Structs[subject.class].fields[subject.getter]
-----------------------------------------------------------------------------
(* Wrappers *)

Wrapper(c, a) == [class |-> c, raw |-> a]

\* newNode: by the kind k of the node.
NewNode(k, a) ==
  LET c == IF k \in DOMAIN NewNodeCases THEN NewNodeCases[k] ELSE Otherwise
  IN  IF c = NilNode THEN Nil ELSE Wrapper(c, a)

\* Mutant: an interface gets the base struct of its name.
NewOfTypeBase(t, k, a) == IF t = "Node" THEN NewNode(k, a) ELSE Wrapper(CppClass(t), a)

\* newNode(v).(T) for an interface, newT(v) for a struct.
NewOfType(t, k, a) ==
  IF ~IsInterface(t) THEN Wrapper(t, a)
  ELSE IF t = "Node" THEN NewNode(k, a)
  ELSE IF NewNode(k, a) # Nil /\ Satisfies(NewNode(k, a).class, t) THEN NewNode(k, a)
  ELSE Panic

\* newX of package types.  Where the linked function has another result type
\* than the declaration, the caller takes an address of a Go object for the
\* first word of an interface, or for the struct itself.
NewObject(t, a) ==
  LET o == Wrappings[t]
  IN  IF a = Null /\ o.checksNil THEN Nil
      ELSE IF o.link = "interface" THEN Garbage
      ELSE Wrapper(t, IF o.link = "struct" THEN [boxed |-> a] ELSE a)

\* Mutant: the wrapper of nil is asked for its address.
RawObjectUnchecked(t, g) ==
  IF g \in {Nil, Garbage} THEN Panic
  ELSE IF Wrappings[t].link # "struct" THEN g.raw
  ELSE IF g.raw = Null THEN Panic
  ELSE IF g.raw \in [boxed : Addrs \cup {Null}] THEN g.raw.boxed
  ELSE Garbage

\* getRawX of package types; a struct in place of a pointer is dereferenced.
RawObject(t, g) ==
  LET o == Wrappings[t]
  IN  IF g = Nil THEN (IF o.nilSafe THEN Null ELSE Panic)
      ELSE IF g = Garbage THEN Panic
      ELSE IF o.link # "struct" THEN g.raw
      ELSE IF g.raw = Null THEN Panic
      ELSE IF g.raw \in [boxed : Addrs \cup {Null}] THEN g.raw.boxed
      ELSE Garbage
-----------------------------------------------------------------------------
(* Conversions *)

\* Mutant: texts are passed with their length.
WholeText(t) == t

\* C.CString and std::string(const char*), C.GoString: up to the first NUL.
UpToNul(t) ==
  IF Contains(t, Nul) THEN SubSeq(t, 1, SelectInSeq(t, LAMBDA b : b = Nul) - 1) ELSE t

\* Mutant: a getter does not ask for nil before it makes a node.
FromCUnchecked(s, k, x) ==
  CASE s.item = "num"    -> ReadInt(x)
    [] s.item = "text"   -> UpToNul(x)
    [] s.item = "node"   -> IF x = Null THEN Panic ELSE NewOfType(s.of, k, x)
    [] s.item = "object" -> NewObject(s.of, x)
    [] OTHER             -> x

FromC(s, k, x) ==
  CASE s.item = "num"    -> ReadInt(x)
    [] s.item = "text"   -> IF x = Garbage THEN x ELSE UpToNul(x)
    [] s.item = "node"   -> IF x # Null THEN NewOfType(s.of, k, x)
                            ELSE IF s.answer = "unguarded" THEN Panic ELSE Nil
    [] s.item = "object" -> NewObject(s.of, x)
    [] OTHER             -> x

ToC(s, g) ==
  CASE s.item = "num"    -> CInt(g)
    [] s.item = "text"   -> IF g = Garbage THEN g ELSE UpToNul(g)
    [] s.item = "node"   -> IF g = Nil THEN Panic ELSE g.raw
    [] s.item = "object" -> RawObject(s.of, g)
    [] OTHER             -> g

\* helper.PtrToSlice and helper.SliceToPtr convert item by item; a panic in
\* one of them is the panic of the call.
AllOf(r) == IF \E i \in DOMAIN r : r[i] = Panic THEN Panic ELSE r

Zero(s) ==
  IF s.many \/ s.item = "text" THEN <<>>
  ELSE CASE s.item = "flag" -> FALSE [] s.item \in {"num", "word"} -> 0 [] OTHER -> Nil

Read(s, k, c) ==
  IF s.answer = "zero" THEN Zero(s)
  ELSE IF s.answer = "header" THEN [i \in DOMAIN c |-> Garbage]
  ELSE IF s.many THEN AllOf([i \in DOMAIN c |-> FromC(s, k, c[i])]) ELSE FromC(s, k, c)

Write(s, g) == IF s.many THEN AllOf([i \in DOMAIN g |-> ToC(s, g[i])]) ELSE ToC(s, g)
-----------------------------------------------------------------------------
(* The values of a field, on both sides *)

Lists(S) == UNION {[1..n -> S] : n \in 0..MaxLen}

CItems(s) ==
  CASE s.item = "flag" -> BOOLEAN
    [] s.item = "num"  -> CInts
    [] s.item = "word" -> {0, 1}
    [] s.item = "text" -> TextValues
    [] OTHER           -> IF s.many THEN Addrs ELSE Addrs \cup {Null}

GoItems(s, k) ==
  CASE s.item = "flag"   -> BOOLEAN
    [] s.item = "num"    -> GoInts
    [] s.item = "word"   -> {0, 1}
    [] s.item = "text"   -> TextValues
    [] s.item = "node"   -> ({NewOfType(s.of, k, a) : a \in Addrs} \ {Panic}) \cup {Nil}
    [] s.item = "object" -> {Wrapper(s.of, a) : a \in Addrs} \cup
                              {IF Wrappings[s.of].link = "struct" THEN Wrapper(s.of, Null) ELSE Nil}

CValues(s)  == IF s.many THEN Lists(CItems(s)) ELSE CItems(s)
GoValues(s, k) == IF s.many THEN Lists(GoItems(s, k)) ELSE GoItems(s, k)
-----------------------------------------------------------------------------
Fields == UNION {{c} \X DOMAIN Structs[c].fields : c \in DOMAIN Structs}

FieldShape(x) == Structs[x[1]].fields[x[2]]

\* Every getter; a node's with each kind the field can hold.
Subjects ==
  LET nodes == {x \in Fields : FieldShape(x).item = "node"}
      Of(t) == {x \in nodes : FieldShape(x).of = t}
      Subject(X, K) == {[class |-> x[1], getter |-> x[2], kind |-> k] : x \in X, k \in K}
  IN  Subject(Fields \ nodes, {None})
        \cup UNION {Subject(Of(t), KindsBelow(t)) : t \in {FieldShape(x).of : x \in nodes}}

Init ==
  /\ subject \in Subjects
  /\ stored \in CValues(shape)
  /\ answer = None /\ seen = None /\ visited = None /\ given = None
  /\ status = "running"

Crash == status' = "crashed" /\ UNCHANGED <<subject, stored, answer, seen, visited, given>>

\* X()
Get ==
  LET r == Read(shape, subject.kind, stored)
  IN  /\ status = "running"
      /\ \/ r = Panic /\ Crash
         \/ /\ r # Panic
            /\ answer' = r /\ seen' = stored
            /\ visited' = IF seen = stored THEN visited ELSE None
            /\ UNCHANGED <<subject, stored, given, status>>

\* SetX(g)
SetTo(g) ==
  LET c == Write(shape, g)
  IN  /\ status = "running" /\ shape.settable
      /\ \/ c = Panic /\ Crash
         \/ /\ c # Panic
            /\ stored' = c /\ given' = g
            /\ answer' = None /\ seen' = None /\ visited' = None
            /\ UNCHANGED <<subject, status>>

Set == \E g \in GoValues(shape, subject.kind) : SetTo(g)

\* SetX(X()): the client moves a value from one node to another like it.
WriteBack == answer # None /\ SetTo(answer)

\* AddX(g)
Add ==
  /\ shape.many /\ shape.settable /\ status = "running"
  /\ \E g \in GoItems(shape, subject.kind) :
       LET c == ToC(shape, g)
       IN  \/ c = Panic /\ Crash
           \/ /\ c # Panic /\ Len(stored) < MaxLen
              /\ stored' = Append(stored, c)
              /\ given' = IF given = None THEN None ELSE Append(given, g)
              /\ answer' = None /\ seen' = None /\ visited' = None
              /\ UNCHANGED <<subject, status>>

\* Child(i) or ChildNodes() of the parent: the same node, by way of newNode.
Visit ==
  /\ status = "running" /\ shape.item = "node"
  /\ seen = stored /\ stored \notin {Null, <<>>}
  /\ visited' = NewNode(subject.kind, IF shape.many THEN stored[1] ELSE stored)
  /\ UNCHANGED <<subject, stored, answer, seen, given, status>>

Next == Get \/ Set \/ WriteBack \/ Add \/ Visit

Spec == Init /\ [][Next]_vars
-----------------------------------------------------------------------------
(* Properties *)

Items(q) == IF shape.many THEN {q[i] : i \in DOMAIN q} ELSE {q}

\* Where an answer is known not to say what C++ holds.
NegativeInt(x)  == shape.item = "num" /\ x < 0
CutText(x)      == shape.item = "text" /\ x # Garbage /\ Contains(x, Nul)
AbsentObject(x) == shape.item = "object" /\ x = Null /\ ~Wrappings[shape.of].checksNil
OtherLink(x)    == shape.item = "object" /\ Wrappings[shape.of].link # "same" /\ x # Null
Unboxed(g)      == Wrappings[shape.of].link = "struct" /\ g.raw \in Addrs
StaticClass(x)  == /\ shape.item = "node" /\ x # Null
                   /\ \/ NewNode(subject.kind, x) = Nil
                      \/ NewNode(subject.kind, x).class # shape.of /\ ~IsInterface(shape.of)

Dropped         == shape.answer \in {"zero", "header"}

\* What a Go value says of a C value: the same flag, number or text, nil for
\* no object, and otherwise a wrapper of the object's own class and address.
Says(g, x) ==
  CASE shape.item = "node"   -> IF x = Null THEN g = Nil ELSE g = NewNode(subject.kind, x) /\ g # Nil
    [] shape.item = "object" -> IF x = Null THEN g = Nil ELSE g = Wrapper(shape.of, x)
    [] OTHER                 -> g = x

\* A getter's answer says what the C++ object holds, item by item and in
\* order, except in the listed cases, and there it never does: a negative
\* number, a text with a NUL byte, an absent object whose constructor does not
\* ask for nil, an object linked with another result type, a node whose
\* static class is not its own, and a getter that drops what C++ answered.
AnswerSaysWhatIsStored ==
  answer # None /\ Garbage \notin Items(seen) =>
    LET exact == IF shape.many
                 THEN /\ DOMAIN answer = DOMAIN seen
                      /\ \A i \in DOMAIN seen : Says(answer[i], seen[i])
                 ELSE Says(answer, seen)
        known == IF Dropped THEN seen \notin {Null, Zero(shape)}
                 ELSE \E x \in Items(seen) :
                        \/ NegativeInt(x) \/ CutText(x) \/ AbsentObject(x)
                        \/ OtherLink(x) \/ StaticClass(x)
    IN  exact <=> ~known

\* What a setter passed comes back from the getter, for ints from 0 up to the
\* whole range of a C int although C++ sees the upper half as negative; not
\* for other ints, texts with a NUL byte, nil where no constructor asks for
\* it, objects linked with another type, or a getter that drops its answer.
WrittenComesBack ==
  answer # None /\ given # None /\ Garbage \notin Items(given) =>
    LET lost(g) ==
          CASE shape.item = "num"    -> g \notin 0 .. IntSpan - 1
            [] shape.item = "text"   -> Contains(g, Nul)
            [] shape.item = "object" ->
                 IF g = Nil THEN ~Wrappings[shape.of].checksNil
                 ELSE Wrappings[shape.of].link = "interface" \/ Unboxed(g)
            [] OTHER -> FALSE
    IN  answer = given <=> /\ \A g \in Items(given) : ~lost(g)
                           /\ Dropped => given = Zero(shape)

\* A call panics only where there is no object: nil passed to a setter or
\* read back for one, a getter that asserts the type of an absent child, a
\* node of a kind newNode does not know, or an object linked with another type.
PanicsOnlyWithoutObject ==
  status = "crashed" =>
    \/ shape.item = "node" /\ (shape.settable \/ (shape.answer = "unguarded" /\ stored = Null))
    \/ /\ shape.item = "node" /\ IsInterface(shape.of)
       /\ subject.kind \notin {k \in DOMAIN NewNodeCases : NewNodeCases[k] # NilNode}
    \/ shape.item = "object" /\ (~Wrappings[shape.of].nilSafe \/ Wrappings[shape.of].link # "same")

\* The getter of a child and a walk to it give the client the same wrapper, so
\* that a type switch in a walk sees what the getters promise, except for the
\* getters that drop what C++ answered, and for nodes of a kind newNode does
\* not know or whose class is below the one the getter is declared with: they
\* never do, unless the getter makes no more than a Node of its child.
WalkSeesWhatGettersAnswer ==
  visited # None /\ ~Dropped =>
    LET got == IF shape.many THEN answer[1] ELSE answer
        x   == IF shape.many THEN seen[1] ELSE seen
    IN  visited = got <=> (StaticClass(x) => shape.of = "Node")
=============================================================================
