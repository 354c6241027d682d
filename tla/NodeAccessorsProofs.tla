------------------------- MODULE NodeAccessorsProofs -------------------------
(* Proofs about the accessors for any schema, any width of a C int, and any  *)
(* texts, lists and addresses.                                               *)
(*                                                                           *)
(* Numbers come first: what a Go int keeps on its way through a C int.  Then *)
(* what one item keeps on its way to Go and back, item by item of the        *)
(* shapes; a list is converted item by item.  IInv says that the answer, the *)
(* stored value and the given one are one conversion apart.                  *)
EXTENDS NodeAccessors, WellFoundedInduction, TLAPS


LEMMA HalfFacts == Half \in Nat /\ Half > 0 /\ IntSpan = 2 * Half
BY IntSpanAssumption DEF Half

\* The remainder of an int within the span, and of one just below it.
LEMMA Remainders ==
  ASSUME NEW v \in Int
  PROVE  /\ v \in 0 .. IntSpan - 1 => v % IntSpan = v
         /\ v \in -IntSpan .. -1 => v % IntSpan = v + IntSpan
BY IntSpanAssumption

\* The result of a truncation is a C int.
LEMMA CIntType == ASSUME NEW v \in Int PROVE CInt(v) \in CInts
<1>1. v % IntSpan \in 0 .. IntSpan - 1
  BY IntSpanAssumption
<1>2. QED
  BY <1>1, HalfFacts, IntSpanAssumption DEF CInt, CInts

\* What a getter makes of a C int is an int of the unsigned range.
LEMMA ReadIntType == ASSUME NEW c \in CInts PROVE ReadInt(c) \in 0 .. IntSpan - 1
BY HalfFacts, IntSpanAssumption DEF ReadInt, CInts

\* An int of the unsigned range survives a setter and the getter after it,
\* the upper half too, which C++ sees as negative numbers.
THEOREM IntWrittenComesBack ==
  ASSUME NEW v \in 0 .. IntSpan - 1
  PROVE  ReadInt(CInt(v)) = v
<1>1. v % IntSpan = v
  BY Remainders, IntSpanAssumption
<1>2. CASE v < Half
  BY <1>1, <1>2 DEF CInt, ReadInt
<1>3. CASE v >= Half
  BY <1>1, <1>3, HalfFacts, IntSpanAssumption DEF CInt, ReadInt
<1>4. QED
  BY <1>2, <1>3, HalfFacts, IntSpanAssumption

\* Whatever a getter answered, the setter writes the C int back as it was.
THEOREM IntReadIsWrittenBack ==
  ASSUME NEW c \in CInts
  PROVE  CInt(ReadInt(c)) = c
<1>1. CASE c >= 0
  BY <1>1, Remainders, HalfFacts, IntSpanAssumption DEF CInt, ReadInt, CInts
<1>2. CASE c < 0
  <2>1. ReadInt(c) = c + IntSpan /\ c + IntSpan \in Half .. IntSpan - 1
    BY <1>2, HalfFacts, IntSpanAssumption DEF ReadInt, CInts
  <2>2. (c + IntSpan) % IntSpan = c + IntSpan
    BY <2>1, Remainders, HalfFacts, IntSpanAssumption
  <2>3. QED
    BY <2>1, <2>2, HalfFacts, IntSpanAssumption DEF CInt, CInts
<1>3. QED
  BY <1>1, <1>2 DEF CInts

\* A getter answers the number C++ holds exactly when it is not negative.
THEOREM SignIsLost ==
  ASSUME NEW c \in CInts
  PROVE  ReadInt(c) = c <=> c >= 0
BY IntSpanAssumption DEF ReadInt, CInts
-----------------------------------------------------------------------------
(* The types of the items of a field, in C++ and in Go: what the schemas and *)
(* the client start with, and what comes of it when it is written back.      *)

CType(s) ==
  CASE s.item = "flag" -> BOOLEAN
    [] s.item = "num"  -> CInts
    [] s.item = "word" -> {0, 1}
    [] s.item = "text" -> TextData \cup {Garbage}
    [] s.item = "node" -> IF s.many THEN Addrs ELSE Addrs \cup {Null}
    [] OTHER           -> Addrs \cup {Null} \cup (IF Wrappings[s.of].link = "struct" THEN {Garbage} ELSE {})

\* An object is nil, what another result type makes of it, or a wrapper.
ObjectType(t) ==
  {g \in {Nil, Garbage} \cup {Wrapper(t, a) : a \in Addrs \cup {Null} \cup Boxes} :
    LET o == Wrappings[t]
    IN  /\ g = Garbage => o.link = "interface"
        /\ g \notin {Nil, Garbage} =>
             /\ g.raw \in Boxes => o.link = "struct"
             /\ g.raw = Null /\ o.link # "struct" => ~o.checksNil
             /\ g.raw = [boxed |-> Null] => ~o.checksNil}

GoType(s, k) ==
  CASE s.item = "flag" -> BOOLEAN
    [] s.item = "num"  -> Int
    [] s.item = "word" -> {0, 1}
    [] s.item = "text" -> TextData \cup {Garbage}
    [] s.item = "node" -> ({NewOfType(s.of, k, a) : a \in Addrs} \ {Panic}) \cup {Nil}
    [] OTHER           -> ObjectType(s.of)

CState(s)     == IF s.many THEN Seq(CType(s)) ELSE CType(s)
GoState(s, k) == IF s.many THEN Seq(GoType(s, k)) ELSE GoType(s, k)

\* Every set of naturals with an element has a least one.
LEMMA LeastNatural ==
  ASSUME NEW S \in SUBSET Nat, S # {}
  PROVE  \E n \in S : \A m \in S : n =< m
<1> DEFINE Less == {p \in Nat \X Nat : p[1] < p[2]}
<1>1. IsWellFoundedOn(Less, Nat)
  BY NatLessThanWellFounded, SMT DEF OpToRel
<1>2. \E n \in S : \A m \in S : <<m, n>> \notin Less
  <2> HIDE DEF Less
  <2>. QED
    BY <1>1, WFMin
<1>3. ASSUME NEW n \in S, NEW m \in S, <<m, n>> \notin Less
      PROVE  n =< m
  <2>1. n \in Nat /\ m \in Nat /\ ~(m < n)
    BY <1>3
  <2>. QED
    BY <2>1
<1> HIDE DEF Less
<1>. QED
  BY <1>2, <1>3, Zenon

\* A text is cut exactly if it has a NUL byte, and not twice.
LEMMA TextFacts ==
  ASSUME NEW t \in TextData
  PROVE  /\ UpToNul(t) \in TextData /\ ~Contains(UpToNul(t), Nul)
         /\ UpToNul(t) = t <=> ~Contains(t, Nul)
<1>1. CASE ~Contains(t, Nul)
  BY <1>1 DEF UpToNul
<1>2. CASE Contains(t, Nul)
  <2> DEFINE I == {i \in 1..Len(t) : t[i] = Nul}
             n == SelectInSeq(t, LAMBDA b : b = Nul)
  <2>1. Len(t) \in Nat /\ I \in SUBSET Nat /\ I # {}
    BY <1>2 DEF TextData, Contains
  <2>2. PICK m \in I : \A i \in I : m =< i
    <3> HIDE DEF I
    <3>. QED
      BY <2>1, LeastNatural
  <2>3. n \in I /\ \A i \in I : n =< i
    <3>1. n = Min(I)
      BY <2>1 DEF SelectInSeq
    <3>. QED
      BY <2>2, <3>1 DEF Min
  <2>4. UpToNul(t) = SubSeq(t, 1, n - 1)
    BY <1>2 DEF UpToNul
  <2> HIDE DEF n
  <2>5. n \in 1..Len(t) /\ \A i \in 1..(n - 1) : t[i] # Nul
    BY <2>1, <2>3
  <2> HIDE DEF I
  <2>6. /\ SubSeq(t, 1, n - 1) \in TextData /\ Len(SubSeq(t, 1, n - 1)) = n - 1
        /\ \A i \in 1..(n - 1) : SubSeq(t, 1, n - 1)[i] = t[i]
    BY <2>5 DEF TextData
  <2>. QED
    BY <1>2, <2>4, <2>5, <2>6 DEF Contains
<1>. QED
  BY <1>1, <1>2

\* What newNode and newT make of an address, if they do not panic.
LEMMA NodeFacts ==
  ASSUME NEW t \in STRING, NEW k, NEW a \in Addrs
  PROVE  /\ NewNode(k, a) = Nil \/ (NewNode(k, a) \in Wrappers /\ NewNode(k, a).raw = a)
         /\ NewOfType(t, k, a) # Panic =>
              \/ NewOfType(t, k, a) = Nil
              \/ (NewOfType(t, k, a) \in Wrappers /\ NewOfType(t, k, a).raw = a)
         /\ NewOfType(t, k, a) # Panic /\ IsInterface(t) => NewOfType(t, k, a) = NewNode(k, a)
         /\ NewOfType(t, k, a) = Panic => IsInterface(t) /\ t # "Node"
<1>1. NewNode(k, a) = Nil \/ (NewNode(k, a) \in Wrappers /\ NewNode(k, a).raw = a)
  BY DispatchAssumption DEF NewNode, Wrapper, Wrappers
<1>2. Nil # Panic /\ Panic \notin Wrappers
  BY ValuesAssumption DEF Data
<1>3. CASE ~IsInterface(t)
  <2>1. Wrapper(t, a) \in Wrappers /\ Wrapper(t, a).raw = a
    BY DEF Wrapper, Wrappers
  <2>. QED
    BY <1>1, <1>2, <1>3, <2>1 DEF NewOfType
<1>4. CASE IsInterface(t)
  BY <1>1, <1>2, <1>4 DEF NewOfType
<1>. QED
  BY <1>3, <1>4, <1>1

\* The distinguished values are no items.
LEMMA Distinct ==
  /\ Nil \notin Wrappers /\ Garbage \notin Wrappers /\ Panic \notin Wrappers
  /\ Nil \notin {Null, Garbage, Panic, None} /\ Null \notin {Garbage, Panic, None}
  /\ Garbage \notin {Panic, None} /\ Panic # None
  /\ \A x \in {Nil, Null, Garbage, Panic, None} :
       x \notin Addrs /\ x \notin Boxes /\ x \notin Int /\ x \notin BOOLEAN /\ x \notin TextData
  /\ \A b \in Boxes : b \notin Addrs
BY ValuesAssumption DEF Data

\* What newX makes of an address: the parts of an object, and its type.
LEMMA ObjectFacts ==
  ASSUME NEW s, WellFormed(s), s.item = "object", NEW x \in CType(s)
  PROVE  NewObject(s.of, x) \in ObjectType(s.of) /\ NewObject(s.of, x) # Panic
<1> DEFINE o == Wrappings[s.of]
<1>1. /\ o.link \in {"same", "interface", "struct"} /\ o.checksNil \in BOOLEAN /\ s.of \in STRING
  BY DEF WellFormed
<1>2. x \in Addrs \cup {Null} \/ (x = Garbage /\ o.link = "struct")
  BY DEF CType
<1>3. CASE x = Null /\ o.checksNil
  BY <1>3, Distinct DEF NewObject, ObjectType
<1>4. CASE ~(x = Null /\ o.checksNil) /\ o.link = "interface"
  BY <1>4, Distinct DEF NewObject, ObjectType
<1>5. CASE ~(x = Null /\ o.checksNil) /\ o.link = "struct"
  <2>1. NewObject(s.of, x) = Wrapper(s.of, [boxed |-> x]) /\ [boxed |-> x] \in Boxes
    BY <1>2, <1>5 DEF NewObject, Boxes
  <2>2. Wrapper(s.of, [boxed |-> x]).raw = [boxed |-> x] /\ Wrapper(s.of, [boxed |-> x]) \in Wrappers
    BY <1>1, <2>1 DEF Wrapper, Wrappers
  <2>3. [boxed |-> x] = [boxed |-> Null] => x = Null
    OBVIOUS
  <2>. QED
    BY <1>5, <2>1, <2>2, <2>3, Distinct DEF ObjectType
<1>6. CASE ~(x = Null /\ o.checksNil) /\ o.link = "same"
  <2>1. NewObject(s.of, x) = Wrapper(s.of, x) /\ x \in Addrs \cup {Null}
    BY <1>2, <1>6 DEF NewObject
  <2>2. Wrapper(s.of, x).raw = x /\ Wrapper(s.of, x) \in Wrappers
    BY <1>1, <2>1 DEF Wrapper, Wrappers
  <2>3. x \notin Boxes /\ [boxed |-> Null] \in Boxes
    BY <2>1, Distinct DEF Boxes
  <2>. QED
    BY <1>6, <2>1, <2>2, <2>3, Distinct DEF ObjectType
<1>. QED
  BY <1>1, <1>3, <1>4, <1>5, <1>6

\* An object that does not come back: nil where newX does not ask for it, and
\* what is linked with another type, but for a box.
LostObject(t, g) ==
  IF g = Nil THEN ~Wrappings[t].checksNil
  ELSE Wrappings[t].link = "interface" \/ (Wrappings[t].link = "struct" /\ g.raw \in Addrs)

\* getRawX: its type, when it panics, and what newX makes of its answer.
LEMMA RawFacts ==
  ASSUME NEW s, WellFormed(s), s.item = "object", NEW g \in ObjectType(s.of)
  PROVE  LET r == RawObject(s.of, g)
         IN  /\ r # Panic => r \in CType(s)
             /\ r = Panic => ~Wrappings[s.of].nilSafe \/ Wrappings[s.of].link # "same"
             /\ r # Panic /\ g # Garbage => (NewObject(s.of, r) = g <=> ~LostObject(s.of, g))
<1> DEFINE o == Wrappings[s.of]
           r == RawObject(s.of, g)
<1>1. /\ o.link \in {"same", "interface", "struct"} /\ o.checksNil \in BOOLEAN /\ s.of \in STRING
      /\ CType(s) = Addrs \cup {Null} \cup (IF o.link = "struct" THEN {Garbage} ELSE {})
  BY DEF WellFormed, CType
<1>2. CASE g = Nil
  <2>1. r = IF o.nilSafe THEN Null ELSE Panic
    BY <1>2 DEF RawObject
  <2>2. LostObject(s.of, g) <=> ~o.checksNil
    BY <1>2 DEF LostObject
  <2>3. NewObject(s.of, Null) = Nil <=> o.checksNil
    <3>1. ASSUME ~o.checksNil PROVE NewObject(s.of, Null) \in Wrappers \cup {Garbage}
      BY <1>1, <3>1 DEF NewObject, Wrapper, Wrappers, Boxes
    <3>2. ASSUME o.checksNil PROVE NewObject(s.of, Null) = Nil
      BY <3>2 DEF NewObject
    <3>. QED
      BY <3>1, <3>2, Distinct
  <2>. QED
    BY <1>1, <1>2, <2>1, <2>2, <2>3, Distinct
<1>3. CASE g = Garbage
  BY <1>1, <1>3, Distinct DEF RawObject, ObjectType
<1>4. CASE g \notin {Nil, Garbage}
  <2>1. PICK a \in Addrs \cup {Null} \cup Boxes : g = Wrapper(s.of, a)
    BY <1>4 DEF ObjectType
  <2>2. /\ g.raw = a /\ g = Wrapper(s.of, a) /\ g \in Wrappers
        /\ a \in Boxes => o.link = "struct"
        /\ a = Null /\ o.link # "struct" => ~o.checksNil
        /\ a = [boxed |-> Null] => ~o.checksNil
    BY <1>1, <1>4, <2>1 DEF ObjectType, Wrapper, Wrappers
  <2>3. ASSUME NEW b, Wrapper(s.of, a) = Wrapper(s.of, b) PROVE a = b
    BY <2>3 DEF Wrapper
  <2>4. CASE o.link # "struct"
    <3>1. r = a /\ a \in Addrs \cup {Null}
      BY <1>4, <2>2, <2>4 DEF RawObject
    <3>2. CASE o.link = "interface"
      <4>1. LostObject(s.of, g) /\ NewObject(s.of, r) \in {Nil, Garbage}
        BY <1>4, <3>2 DEF LostObject, NewObject
      <4>. QED
        BY <1>1, <1>4, <3>1, <3>2, <4>1, Distinct
    <3>3. CASE o.link = "same"
      <4>1. ~LostObject(s.of, g) /\ NewObject(s.of, r) = g
        BY <1>4, <2>2, <3>1, <3>3 DEF LostObject, NewObject
      <4>. QED
        BY <1>1, <3>1, <4>1, Distinct
    <3>. QED
      BY <1>1, <2>4, <3>2, <3>3
  <2>5. CASE o.link = "struct" /\ a = Null
    BY <1>4, <2>2, <2>5 DEF RawObject
  <2>6. CASE o.link = "struct" /\ a \in Addrs
    <3>1. r = Garbage
      BY <1>4, <2>2, <2>6, Distinct DEF RawObject, Boxes
    <3>2. NewObject(s.of, r) = Wrapper(s.of, [boxed |-> Garbage]) /\ [boxed |-> Garbage] \in Boxes
      BY <2>6, <3>1, Distinct DEF NewObject, Boxes
    <3>3. NewObject(s.of, r) # g /\ LostObject(s.of, g)
      BY <1>4, <2>2, <2>3, <2>6, <3>2, Distinct DEF LostObject
    <3>. QED
      BY <1>1, <2>6, <3>1, <3>3, Distinct
  <2>7. CASE o.link = "struct" /\ a \in Boxes
    <3>1. PICK b \in Addrs \cup {Null, Garbage} : a = [boxed |-> b]
      BY <2>7 DEF Boxes
    <3>2. r = b
      BY <1>4, <2>2, <2>7, <3>1, Distinct DEF RawObject, Boxes
    <3>3. ~(b = Null /\ o.checksNil)
      BY <2>2, <3>1
    <3>4. NewObject(s.of, b) = g
      BY <2>1, <2>7, <3>1, <3>3 DEF NewObject
    <3>5. ~LostObject(s.of, g)
      BY <1>4, <2>2, <2>7, Distinct DEF LostObject
    <3>. QED
      BY <1>1, <2>7, <3>2, <3>4, <3>5, Distinct
  <2>. QED
    BY <2>4, <2>5, <2>6, <2>7
<1>. QED
  BY <1>2, <1>3, <1>4

-----------------------------------------------------------------------------
(* One item *)

\* The types of the items are data, but for the distinguished values.
LEMMA TypesAreData ==
  ASSUME NEW s, WellFormed(s), NEW k
  PROVE  /\ CType(s) \subseteq Data \cup {Nil, Null, Garbage}
         /\ GoType(s, k) \subseteq Data \cup {Nil, Null, Garbage}
         /\ None \notin CType(s) /\ Panic \notin CType(s)
         /\ None \notin GoType(s, k) /\ Panic \notin GoType(s, k)
<1>1. /\ s.item \in {"flag", "num", "word", "text", "node", "object"} /\ s.of \in STRING
      /\ s.many \in BOOLEAN
  BY DEF WellFormed
<1>2. CInts \subseteq Int /\ {0, 1} \subseteq Int
  BY HalfFacts DEF CInts
<1>3. CType(s) \subseteq Data \cup {Nil, Null, Garbage}
  BY <1>1, <1>2 DEF CType, Data
<1>4. ObjectType(s.of) \subseteq Wrappers \cup {Nil, Garbage}
  BY <1>1 DEF ObjectType, Wrapper, Wrappers
<1>5. {NewOfType(s.of, k, a) : a \in Addrs} \ {Panic} \subseteq Wrappers \cup {Nil}
  BY <1>1, NodeFacts
<1>6. GoType(s, k) \subseteq Data \cup {Nil, Null, Garbage}
  BY <1>1, <1>2, <1>4, <1>5 DEF GoType, Data
<1>7. None \notin Data \cup {Nil, Null, Garbage} /\ Panic \notin Data \cup {Nil, Null, Garbage}
  BY ValuesAssumption
<1>. QED
  BY <1>3, <1>6, <1>7

\* What a getter makes of an item is of its type, if it is no panic.
LEMMA FromCType ==
  ASSUME NEW s, WellFormed(s), NEW k, NEW x \in CType(s), FromC(s, k, x) # Panic
  PROVE  FromC(s, k, x) \in GoType(s, k)
<1>1. CASE s.item \in {"flag", "word"}
  BY <1>1 DEF CType, GoType, FromC
<1>2. CASE s.item = "num"
  BY <1>2, ReadIntType, IntSpanAssumption DEF CType, GoType, FromC
<1>3. CASE s.item = "text"
  BY <1>3, TextFacts DEF CType, GoType, FromC
<1>4. CASE s.item = "node"
  <2>1. x \in Addrs \cup {Null}
    BY <1>4 DEF CType
  <2>. QED
    BY <1>4, <2>1, Distinct DEF GoType, FromC
<1>5. CASE s.item = "object"
  BY <1>5, ObjectFacts DEF GoType, FromC
<1>. QED
  BY <1>1, <1>2, <1>3, <1>4, <1>5 DEF WellFormed

\* What a setter makes of an item is of its type, if it is no panic.
LEMMA ToCType ==
  ASSUME NEW s, WellFormed(s), NEW k, NEW g \in GoType(s, k), ToC(s, g) # Panic
  PROVE  ToC(s, g) \in CType(s)
<1>1. CASE s.item \in {"flag", "word"}
  BY <1>1 DEF CType, GoType, ToC
<1>2. CASE s.item = "num"
  BY <1>2, CIntType DEF CType, GoType, ToC
<1>3. CASE s.item = "text"
  BY <1>3, TextFacts DEF CType, GoType, ToC
<1>4. CASE s.item = "node"
  <2>1. g # Nil
    BY <1>4 DEF ToC
  <2>2. PICK a \in Addrs : g = NewOfType(s.of, k, a) /\ g # Panic
    BY <1>4, <2>1 DEF GoType
  <2>3. g.raw = a
    <3>1. s.of \in STRING
      BY DEF WellFormed
    <3>. QED
      BY <2>1, <2>2, <3>1, NodeFacts
  <2>. QED
    BY <1>4, <2>1, <2>3 DEF CType, ToC
<1>5. CASE s.item = "object"
  <2>1. g \in ObjectType(s.of) /\ ToC(s, g) = RawObject(s.of, g)
    BY <1>5 DEF GoType, ToC
  <2>. QED
    BY <1>5, <2>1, RawFacts
<1>. QED
  BY <1>1, <1>2, <1>3, <1>4, <1>5 DEF WellFormed

\* What the client passes to a setter is of the type, as what it read is.
LEMMA ClientTypes ==
  ASSUME NEW s, WellFormed(s), NEW k
  PROVE  CItems(s) \subseteq CType(s) /\ GoItems(s, k) \subseteq GoType(s, k)
<1>1. CItems(s) \subseteq CType(s)
  BY ValuesAssumption DEF CItems, CType, WellFormed
<1>2. CASE s.item # "object"
  BY <1>1, <1>2, ValuesAssumption DEF GoItems, GoType, WellFormed
<1>3. CASE s.item = "object"
  <2>1. s.of \in STRING /\ Wrappings[s.of].link \in {"same", "interface", "struct"}
    BY <1>3 DEF WellFormed
  <2>2. ASSUME NEW a \in Addrs \cup {Null}, a = Null => Wrappings[s.of].link = "struct"
        PROVE  Wrapper(s.of, a) \in ObjectType(s.of)
    <3>1. Wrapper(s.of, a).raw = a /\ Wrapper(s.of, a) \in Wrappers
      BY <2>1 DEF Wrapper, Wrappers
    <3>2. a \notin Boxes /\ [boxed |-> Null] \in Boxes
      BY Distinct DEF Boxes
    <3>. QED
      BY <2>2, <3>1, <3>2, Distinct DEF ObjectType
  <2>3. Nil \in ObjectType(s.of)
    BY Distinct DEF ObjectType
  <2>4. \A a \in Addrs : Wrapper(s.of, a) \in ObjectType(s.of)
    BY <2>2, Distinct
  <2>5. Wrappings[s.of].link = "struct" => Wrapper(s.of, Null) \in ObjectType(s.of)
    BY <2>2
  <2>. QED
    BY <1>1, <1>3, <2>3, <2>4, <2>5 DEF GoItems, GoType
<1>. QED
  BY <1>1, <1>2, <1>3

\* The items a setter does not bring to the getter after it.
LostItem(s, g) ==
  CASE s.item = "num"    -> g \notin 0 .. IntSpan - 1
    [] s.item = "text"   -> Contains(g, Nul)
    [] s.item = "object" -> LostObject(s.of, g)
    [] OTHER             -> FALSE

LEMMA ItemComesBack ==
  ASSUME NEW s, WellFormed(s), NEW k, NEW g \in GoType(s, k), g # Garbage,
         ToC(s, g) # Panic
  PROVE  FromC(s, k, ToC(s, g)) = g <=> ~LostItem(s, g)
<1>1. CASE s.item \in {"flag", "word"}
  BY <1>1 DEF LostItem, ToC, FromC
<1>2. CASE s.item = "num"
  <2>1. g \in Int /\ CInt(g) \in CInts /\ ReadInt(CInt(g)) \in 0 .. IntSpan - 1
    BY <1>2, CIntType, ReadIntType DEF GoType
  <2>2. g \in 0 .. IntSpan - 1 => ReadInt(CInt(g)) = g
    BY IntWrittenComesBack
  <2>. QED
    BY <1>2, <2>1, <2>2 DEF LostItem, ToC, FromC
<1>3. CASE s.item = "text"
  <2>1. g \in TextData
    BY <1>3 DEF GoType
  <2>2. UpToNul(g) \in TextData /\ UpToNul(UpToNul(g)) = UpToNul(g)
    BY <2>1, TextFacts
  <2>3. UpToNul(g) # Garbage
    BY <2>2, Distinct
  <2>4. FromC(s, k, ToC(s, g)) = UpToNul(g)
    BY <1>3, <2>2, <2>3 DEF ToC, FromC
  <2>. QED
    BY <1>3, <2>1, <2>4, TextFacts DEF LostItem
<1>4. CASE s.item = "node"
  <2>1. g # Nil
    BY <1>4 DEF ToC
  <2>2. PICK a \in Addrs : g = NewOfType(s.of, k, a) /\ g # Panic
    BY <1>4, <2>1 DEF GoType
  <2>3. g.raw = a
    <3>1. s.of \in STRING
      BY DEF WellFormed
    <3>. QED
      BY <2>1, <2>2, <3>1, NodeFacts
  <2>. QED
    BY <1>4, <2>1, <2>2, <2>3, Distinct DEF LostItem, ToC, FromC
<1>5. CASE s.item = "object"
  <2>1. g \in ObjectType(s.of) /\ ToC(s, g) = RawObject(s.of, g)
    BY <1>5 DEF GoType, ToC
  <2>2. FromC(s, k, ToC(s, g)) = NewObject(s.of, RawObject(s.of, g))
    BY <1>5, <2>1 DEF FromC
  <2>3. LostItem(s, g) <=> LostObject(s.of, g)
    BY <1>5 DEF LostItem
  <2>. QED
    BY <1>5, <2>1, <2>2, <2>3, RawFacts
<1>. QED
  BY <1>1, <1>2, <1>3, <1>4, <1>5 DEF WellFormed

\* The kind of a node is one that a C++ accessor of its type can answer.
KindFits(s, k) == s.item = "node" => k \in KindsBelow(s.of)

\* A getter panics at an absent child, or at a kind newNode does not know.
LEMMA GetterPanics ==
  ASSUME NEW s, WellFormed(s), NEW k, KindFits(s, k), NEW x \in CType(s), FromC(s, k, x) = Panic
  PROVE  /\ s.item = "node"
         /\ \/ ~s.many /\ x = Null /\ s.answer = "unguarded"
            \/ IsInterface(s.of) /\ k \notin {c \in DOMAIN NewNodeCases : NewNodeCases[c] # NilNode}
<1>1. s.item = "node"
  <2>1. CASE s.item \in {"flag", "word"}
    BY <2>1, Distinct DEF CType, FromC
  <2>2. CASE s.item = "num"
    BY <2>2, ReadIntType, IntSpanAssumption, Distinct DEF CType, FromC
  <2>3. CASE s.item = "text"
    BY <2>3, TextFacts, Distinct DEF CType, FromC
  <2>4. CASE s.item = "object"
    BY <2>4, ObjectFacts DEF FromC
  <2>. QED
    BY <2>1, <2>2, <2>3, <2>4 DEF WellFormed
<1>2. x \in IF s.many THEN Addrs ELSE Addrs \cup {Null}
  BY <1>1 DEF CType
<1>3. CASE x = Null
  <2>1. ~s.many
    BY <1>2, <1>3, Distinct
  <2>2. s.answer = "unguarded"
    BY <1>1, <1>3, Distinct DEF FromC
  <2>. QED
    BY <1>1, <1>3, <2>1, <2>2
<1>4. CASE x # Null
  <2>1. x \in Addrs /\ NewOfType(s.of, k, x) = Panic /\ s.of \in STRING
    BY <1>1, <1>2, <1>4 DEF FromC, WellFormed
  <2>2. IsInterface(s.of) /\ s.of # "Node"
    BY <2>1, NodeFacts
  <2>3. ASSUME k \in DOMAIN NewNodeCases, NewNodeCases[k] # NilNode PROVE FALSE
    <3>1. NewNode(k, x) = Wrapper(NewNodeCases[k], x)
      BY <2>3 DEF NewNode
    <3>2. NewNode(k, x) # Nil /\ NewNode(k, x) # Panic
      <4>1. NewNode(k, x) \in Wrappers
        BY <2>1, <2>3, <3>1, DispatchAssumption DEF Wrapper, Wrappers
      <4>. QED
        BY <4>1, Distinct
    <3>3. ~Satisfies(NewNodeCases[k], s.of)
      BY <2>1, <2>2, <3>1, <3>2 DEF NewOfType, Wrapper
    <3>4. k \notin DOMAIN CppOnly
      BY <2>3, DispatchAssumption
    <3>5. CppClass(s.of) \in Chain[NewNodeCases[k]]
      BY <1>1, <2>3, <3>4 DEF KindFits, KindsBelow
    <3>6. GoInterfaces[s.of].base \in Chain[NewNodeCases[k]] /\ s.of \in DOMAIN GoInterfaces
      BY <2>2, <3>5 DEF CppClass, IsInterface
    <3>. QED
      BY <2>3, <3>3, <3>6, DispatchAssumption
  <2>. QED
    BY <1>1, <2>2, <2>3
<1>. QED
  BY <1>3, <1>4

\* A setter panics at nil, or at an object linked with another type.
LEMMA SetterPanics ==
  ASSUME NEW s, WellFormed(s), NEW k, NEW g \in GoType(s, k), ToC(s, g) = Panic
  PROVE  \/ s.item = "node"
         \/ s.item = "object" /\ (~Wrappings[s.of].nilSafe \/ Wrappings[s.of].link # "same")
<1>1. CASE s.item \in {"flag", "word"}
  BY <1>1, Distinct DEF GoType, ToC
<1>2. CASE s.item = "num"
  <2>1. CInt(g) \in Int
    BY <1>2, CIntType, HalfFacts DEF GoType, CInts
  <2>. QED
    BY <1>2, <2>1, Distinct DEF ToC
<1>3. CASE s.item = "text"
  BY <1>3, TextFacts, Distinct DEF GoType, ToC
<1>4. CASE s.item = "object"
  <2>1. g \in ObjectType(s.of) /\ RawObject(s.of, g) = Panic
    BY <1>4 DEF GoType, ToC
  <2>. QED
    BY <1>4, <2>1, RawFacts
<1>. QED
  BY <1>1, <1>2, <1>3, <1>4 DEF WellFormed
-----------------------------------------------------------------------------
(* Lists *)

LEMMA AllOfFacts ==
  ASSUME NEW T, Panic \notin Seq(T), NEW r, NEW n \in Nat, DOMAIN r = 1..n,
         r = [i \in 1..n |-> r[i]], \A i \in 1..n : r[i] # Panic => r[i] \in T
  PROVE  /\ AllOf(r) = Panic <=> \E i \in 1..n : r[i] = Panic
         /\ AllOf(r) # Panic => AllOf(r) = r /\ r \in Seq(T)
<1>1. CASE \E i \in 1..n : r[i] = Panic
  BY <1>1 DEF AllOf
<1>2. CASE ~\E i \in 1..n : r[i] = Panic
  <2>1. r \in [1..n -> T]
    BY <1>2
  <2>2. r \in Seq(T)
    BY <2>1
  <2>3. AllOf(r) = r
    BY <1>2 DEF AllOf
  <2>. QED
    BY <1>2, <2>2, <2>3
<1>. QED
  BY <1>1, <1>2

LEMMA ListsAreNoPanic ==
  ASSUME NEW s, WellFormed(s), NEW k
  PROVE  /\ Panic \notin CState(s) /\ None \notin CState(s)
         /\ Panic \notin GoState(s, k) /\ None \notin GoState(s, k)
         /\ s.many => Null \notin CState(s)
         /\ Panic \notin Seq(CType(s)) /\ Panic \notin Seq(GoType(s, k))
         /\ Panic \notin Seq({Garbage})
<1>1. /\ Seq(CType(s)) \subseteq Seq(Data \cup {Nil, Null, Garbage})
      /\ Seq(GoType(s, k)) \subseteq Seq(Data \cup {Nil, Null, Garbage})
      /\ Seq({Garbage}) \subseteq Seq(Data \cup {Nil, Null, Garbage})
  BY TypesAreData
<1>2. \A x \in {Null, Panic, None} : x \notin Seq(Data \cup {Nil, Null, Garbage})
  BY ValuesAssumption
<1>3. s.many \in BOOLEAN
  BY DEF WellFormed
<1>. QED
  BY <1>1, <1>2, <1>3, TypesAreData DEF CState, GoState

\* What a call of the setter leaves in C++.
LEMMA WriteFacts ==
  ASSUME NEW s, WellFormed(s), NEW k, NEW g \in GoState(s, k)
  PROVE  /\ Write(s, g) # Panic => Write(s, g) \in CState(s)
         /\ s.many => LET n == Len(g) IN
              /\ n \in Nat /\ DOMAIN g = 1..n /\ \A i \in 1..n : g[i] \in GoType(s, k)
              /\ Write(s, g) = Panic <=> \E i \in 1..n : ToC(s, g[i]) = Panic
              /\ Write(s, g) # Panic => Write(s, g) = [i \in 1..n |-> ToC(s, g[i])]
         /\ ~s.many => g \in GoType(s, k) /\ Write(s, g) = ToC(s, g)
<1>1. CASE s.many
  <2> DEFINE n == Len(g)
             r == [i \in 1..n |-> ToC(s, g[i])]
  <2>1. g \in Seq(GoType(s, k)) /\ CState(s) = Seq(CType(s))
    BY <1>1 DEF GoState, CState
  <2>2. n \in Nat /\ DOMAIN g = 1..n /\ \A i \in 1..n : g[i] \in GoType(s, k)
    BY <2>1
  <2>3. Write(s, g) = AllOf(r)
    BY <1>1, <2>2 DEF Write
  <2>4. \A i \in 1..n : ToC(s, g[i]) # Panic => ToC(s, g[i]) \in CType(s)
    BY <2>2, ToCType
  <2> HIDE DEF n
  <2>5. /\ DOMAIN r = 1..n /\ r = [i \in 1..n |-> r[i]]
        /\ \A i \in 1..n : r[i] = ToC(s, g[i])
        /\ \A i \in 1..n : r[i] # Panic => r[i] \in CType(s)
    BY <2>4
  <2>6. Panic \notin Seq(CType(s))
    BY ListsAreNoPanic
  <2>7. r = [i \in 1..n |-> ToC(s, g[i])]
    OBVIOUS
  <2> HIDE DEF r
  <2>8. /\ AllOf(r) = Panic <=> \E i \in 1..n : r[i] = Panic
        /\ AllOf(r) # Panic => AllOf(r) = r /\ r \in Seq(CType(s))
    BY <2>2, <2>5, <2>6, AllOfFacts
  <2>9. n = Len(g)
    BY DEF n
  <2>. QED
    BY <1>1, <2>1, <2>2, <2>3, <2>5, <2>7, <2>8, <2>9
<1>2. CASE ~s.many
  BY <1>2, ToCType DEF GoState, CState, Write
<1>. QED
  BY <1>1, <1>2

\* What a getter answers that does not drop what C++ holds.
LEMMA ReadFacts ==
  ASSUME NEW s, WellFormed(s), NEW k, NEW c \in CState(s), s.answer \notin {"zero", "header"}
  PROVE  /\ Read(s, k, c) # Panic => Read(s, k, c) \in GoState(s, k)
         /\ s.many => LET n == Len(c) IN
              /\ n \in Nat /\ DOMAIN c = 1..n /\ \A i \in 1..n : c[i] \in CType(s)
              /\ Read(s, k, c) = Panic <=> \E i \in 1..n : FromC(s, k, c[i]) = Panic
              /\ Read(s, k, c) # Panic => Read(s, k, c) = [i \in 1..n |-> FromC(s, k, c[i])]
         /\ ~s.many => c \in CType(s) /\ Read(s, k, c) = FromC(s, k, c)
<1>1. CASE s.many
  <2> DEFINE n == Len(c)
             r == [i \in 1..n |-> FromC(s, k, c[i])]
  <2>1. c \in Seq(CType(s)) /\ GoState(s, k) = Seq(GoType(s, k))
    BY <1>1 DEF GoState, CState
  <2>2. n \in Nat /\ DOMAIN c = 1..n /\ \A i \in 1..n : c[i] \in CType(s)
    BY <2>1
  <2>3. Read(s, k, c) = AllOf(r)
    BY <1>1, <2>2 DEF Read
  <2>4. \A i \in 1..n : FromC(s, k, c[i]) # Panic => FromC(s, k, c[i]) \in GoType(s, k)
    BY <2>2, FromCType
  <2> HIDE DEF n
  <2>5. /\ DOMAIN r = 1..n /\ r = [i \in 1..n |-> r[i]]
        /\ \A i \in 1..n : r[i] = FromC(s, k, c[i])
        /\ \A i \in 1..n : r[i] # Panic => r[i] \in GoType(s, k)
    BY <2>4
  <2>6. Panic \notin Seq(GoType(s, k))
    BY ListsAreNoPanic
  <2>7. r = [i \in 1..n |-> FromC(s, k, c[i])]
    OBVIOUS
  <2> HIDE DEF r
  <2>8. /\ AllOf(r) = Panic <=> \E i \in 1..n : r[i] = Panic
        /\ AllOf(r) # Panic => AllOf(r) = r /\ r \in Seq(GoType(s, k))
    BY <2>2, <2>5, <2>6, AllOfFacts
  <2>9. n = Len(c)
    BY DEF n
  <2>. QED
    BY <1>1, <2>1, <2>2, <2>3, <2>5, <2>7, <2>8, <2>9
<1>2. CASE ~s.many
  BY <1>2, FromCType DEF GoState, CState, Read
<1>. QED
  BY <1>1, <1>2

\* What a getter answers that does.
LEMMA DropFacts ==
  ASSUME NEW s, WellFormed(s), NEW k, NEW c \in CState(s), s.answer \in {"zero", "header"}
  PROVE  /\ Read(s, k, c) # Panic
         /\ s.settable => Read(s, k, c) \in GoState(s, k)
         /\ s.answer = "zero" => Read(s, k, c) = Zero(s)
         /\ s.answer = "header" => /\ s.many /\ Len(c) \in Nat /\ DOMAIN c = 1..Len(c)
                                   /\ Read(s, k, c) = [i \in 1..Len(c) |-> Garbage]
<1>1. CASE s.answer = "zero"
  <2>1. Zero(s) \in GoState(s, k) /\ Zero(s) # Panic
    <3>1. CASE s.many
      <4>1. Zero(s) = <<>> /\ Zero(s) \in GoState(s, k)
        BY <3>1 DEF Zero, GoState
      <4>. QED
        BY <4>1, ListsAreNoPanic
    <3>2. CASE ~s.many
      <4>1. <<>> \in TextData
        BY DEF TextData
      <4>2. Nil \in ObjectType(s.of)
        BY Distinct DEF ObjectType
      <4>3. Zero(s) \in GoType(s, k)
        <5>1. s.item = "text" => Zero(s) \in GoType(s, k)
          BY <3>2, <4>1 DEF Zero, GoType
        <5>2. s.item \in {"flag", "num", "word"} => Zero(s) \in GoType(s, k)
          <6>1. s.item = "flag" => Zero(s) = FALSE /\ GoType(s, k) = BOOLEAN
            BY <3>2 DEF Zero, GoType
          <6>2. s.item \in {"num", "word"} => Zero(s) = 0 /\ 0 \in GoType(s, k)
            BY <3>2 DEF Zero, GoType
          <6>. QED
            BY <6>1, <6>2
        <5>3. s.item = "node" => Zero(s) \in GoType(s, k)
          BY <3>2 DEF Zero, GoType
        <5>4. s.item = "object" => Zero(s) \in GoType(s, k)
          BY <3>2, <4>2 DEF Zero, GoType
        <5>. QED
          BY <5>1, <5>2, <5>3, <5>4 DEF WellFormed
      <4>4. Zero(s) # Panic
        BY <4>3, TypesAreData
      <4>. QED
        BY <3>2, <4>3, <4>4 DEF GoState
    <3>. QED
      BY <3>1, <3>2
  <2>. QED
    BY <1>1, <2>1 DEF Read
<1>2. CASE s.answer = "header"
  <2> DEFINE n == Len(c)
             r == [i \in 1..n |-> Garbage]
  <2>1. s.many /\ (s.settable => s.item = "text") /\ s.settable \in BOOLEAN
    BY <1>2 DEF WellFormed
  <2>2. c \in Seq(CType(s))
    BY <2>1 DEF CState
  <2>3. n \in Nat /\ DOMAIN c = 1..n
    BY <2>2
  <2>4. Read(s, k, c) = r
    BY <1>2, <2>3 DEF Read
  <2>5. r \in Seq({Garbage})
    BY <2>3
  <2>6. s.settable => r \in Seq(GoType(s, k))
    <3>1. s.settable => Garbage \in GoType(s, k)
      BY <2>1 DEF GoType
    <3>. QED
      BY <2>3, <3>1
  <2>. QED
    BY <1>2, <2>1, <2>3, <2>4, <2>5, <2>6, ListsAreNoPanic DEF GoState
<1>. QED
  BY <1>1, <1>2

\* A call of the getter panics for one of its items, a call of the setter too.
LEMMA ReadPanics ==
  ASSUME NEW s, WellFormed(s), NEW k, KindFits(s, k), NEW c \in CState(s), Read(s, k, c) = Panic
  PROVE  /\ s.item = "node"
         /\ \/ c = Null /\ s.answer = "unguarded"
            \/ IsInterface(s.of) /\ k \notin {d \in DOMAIN NewNodeCases : NewNodeCases[d] # NilNode}
<1>1. s.answer \notin {"zero", "header"}
  BY DropFacts
<1>2. CASE s.many
  <2>1. PICK i \in 1..Len(c) : c[i] \in CType(s) /\ FromC(s, k, c[i]) = Panic
    BY <1>1, <1>2, ReadFacts
  <2>. QED
    BY <1>2, <2>1, GetterPanics
<1>3. CASE ~s.many
  <2>1. c \in CType(s) /\ FromC(s, k, c) = Panic
    BY <1>1, <1>3, ReadFacts
  <2>. QED
    BY <2>1, GetterPanics
<1>. QED
  BY <1>2, <1>3

LEMMA WritePanics ==
  ASSUME NEW s, WellFormed(s), NEW k, NEW g \in GoState(s, k), Write(s, g) = Panic
  PROVE  \/ s.item = "node"
         \/ s.item = "object" /\ (~Wrappings[s.of].nilSafe \/ Wrappings[s.of].link # "same")
<1>1. CASE s.many
  <2>1. PICK i \in 1..Len(g) : g[i] \in GoType(s, k) /\ ToC(s, g[i]) = Panic
    BY <1>1, WriteFacts
  <2>. QED
    BY <2>1, SetterPanics
<1>2. CASE ~s.many
  <2>1. g \in GoType(s, k) /\ ToC(s, g) = Panic
    BY <1>2, WriteFacts
  <2>. QED
    BY <2>1, SetterPanics
<1>. QED
  BY <1>1, <1>2

\* An item added on both sides is the list written whole.
LEMMA AppendWrites ==
  ASSUME NEW s, WellFormed(s), s.many, NEW k, NEW q \in GoState(s, k), Write(s, q) # Panic,
         NEW g \in GoType(s, k), ToC(s, g) # Panic
  PROVE  /\ Append(q, g) \in GoState(s, k)
         /\ Write(s, Append(q, g)) = Append(Write(s, q), ToC(s, g))
         /\ Write(s, Append(q, g)) # Panic
<1> DEFINE n == Len(q)
           p == Append(q, g)
<1>1. q \in Seq(GoType(s, k))
  BY DEF GoState
<1>2. p \in GoState(s, k) /\ Len(p) = n + 1 /\ n \in Nat
  BY <1>1 DEF GoState
<1>3. /\ \A i \in 1..n : p[i] = q[i]
      /\ p[n + 1] = g
  BY <1>1
<1>4. /\ \A i \in 1..n : ToC(s, q[i]) # Panic
      /\ Write(s, q) = [i \in 1..n |-> ToC(s, q[i])]
  BY WriteFacts
<1> HIDE DEF p, n
<1>5. \A i \in 1..(n + 1) : ToC(s, p[i]) # Panic
  BY <1>2, <1>3, <1>4
<1>6. Write(s, p) # Panic /\ Write(s, p) = [i \in 1..(n + 1) |-> ToC(s, p[i])]
  BY <1>2, <1>5, WriteFacts
<1>7. [i \in 1..n |-> ToC(s, q[i])] \in Seq(CType(s)) /\ Len([i \in 1..n |-> ToC(s, q[i])]) = n
  <2>1. Write(s, q) \in Seq(CType(s))
    BY WriteFacts DEF CState
  <2>. QED
    BY <1>2, <1>4, <2>1
<1>8. Append([i \in 1..n |-> ToC(s, q[i])], ToC(s, g)) = [i \in 1..(n + 1) |-> ToC(s, p[i])]
  BY <1>2, <1>3, <1>7
<1>. QED
  BY <1>2, <1>4, <1>6, <1>8 DEF p

\* The lists of bounded length are lists.
LEMMA ListsAreSeqs ==
  ASSUME NEW S, NEW T, S \subseteq T
  PROVE  Lists(S) \subseteq Seq(T)
<1>1. ASSUME NEW n \in 0..MaxLen, NEW q \in [1..n -> S] PROVE q \in Seq(T)
  <2>1. n \in Nat
    BY <1>1, ValuesAssumption
  <2>. QED
    BY <2>1
<1>. QED
  BY <1>1 DEF Lists

LEMMA ClientStates ==
  ASSUME NEW s, WellFormed(s), NEW k
  PROVE  CValues(s) \subseteq CState(s) /\ GoValues(s, k) \subseteq GoState(s, k)
<1>1. CItems(s) \subseteq CType(s) /\ GoItems(s, k) \subseteq GoType(s, k)
  BY ClientTypes
<1>2. Lists(CItems(s)) \subseteq Seq(CType(s)) /\ Lists(GoItems(s, k)) \subseteq Seq(GoType(s, k))
  BY <1>1, ListsAreSeqs
<1>. QED
  BY <1>1, <1>2 DEF CValues, GoValues, CState, GoState

\* A getter of the schema, with a kind it can meet.
LEMMA SubjectsFit ==
  ASSUME NEW x \in Subjects
  PROVE  /\ WellFormed(Structs[x.class].fields[x.getter])
         /\ KindFits(Structs[x.class].fields[x.getter], x.kind)
<1> DEFINE nodes == {f \in Fields : FieldShape(f).item = "node"}
           Of(t) == {f \in nodes : FieldShape(f).of = t}
<1>1. \A f \in Fields : WellFormed(FieldShape(f))
  BY SchemaAssumption DEF Fields, FieldShape, Structs
<1>2. CASE \E f \in Fields \ nodes : x = [class |-> f[1], getter |-> f[2], kind |-> None]
  <2>1. PICK f \in Fields \ nodes : x = [class |-> f[1], getter |-> f[2], kind |-> None]
    BY <1>2
  <2>2. Structs[x.class].fields[x.getter] = FieldShape(f)
    BY <2>1 DEF FieldShape
  <2>. QED
    BY <1>1, <2>1, <2>2 DEF KindFits
<1>3. CASE \E t \in {FieldShape(f).of : f \in nodes} : \E f \in Of(t), k \in KindsBelow(t) :
             x = [class |-> f[1], getter |-> f[2], kind |-> k]
  <2>0. PICK t \in {FieldShape(f).of : f \in nodes} : \E f \in Of(t), k \in KindsBelow(t) :
               x = [class |-> f[1], getter |-> f[2], kind |-> k]
    BY <1>3
  <2>1. PICK f \in Of(t), k \in KindsBelow(t) : x = [class |-> f[1], getter |-> f[2], kind |-> k]
    BY <2>0
  <2>2. /\ f \in Fields /\ FieldShape(f).of = t
        /\ Structs[x.class].fields[x.getter] = FieldShape(f) /\ x.kind = k
    BY <2>1 DEF FieldShape
  <2>. QED
    BY <1>1, <2>1, <2>2 DEF KindFits
<1>4. \/ \E f \in Fields \ nodes, k \in {None} : x = [class |-> f[1], getter |-> f[2], kind |-> k]
      \/ \E t \in {FieldShape(f).of : f \in nodes} : \E f \in Of(t), k \in KindsBelow(t) :
             x = [class |-> f[1], getter |-> f[2], kind |-> k]
  BY DEF Subjects
<1> HIDE DEF nodes, Of
<1>. QED
  BY <1>2, <1>3, <1>4
-----------------------------------------------------------------------------
(* The inductive invariant *)

SubjectInv == WellFormed(shape) /\ KindFits(shape, subject.kind)

\* The answer is the getter's of what is stored, until that changes.
AnswerInv ==
  /\ answer # None => seen # None
  /\ seen # None => seen = stored /\ answer = Read(shape, subject.kind, stored) /\ answer # Panic

\* What was given is what the setter made of it.
GivenInv ==
  given # None => /\ shape.settable /\ given \in GoState(shape, subject.kind)
                  /\ stored = Write(shape, given) /\ stored # Panic

\* A walk came by while the answer was the getter's.
VisitedInv ==
  visited # None =>
    /\ shape.item = "node" /\ seen = stored /\ stored \notin {Null, <<>>}
    /\ visited = NewNode(subject.kind, IF shape.many THEN stored[1] ELSE stored)

IInv ==
  /\ SubjectInv
  /\ stored \in CState(shape)
  /\ AnswerInv
  /\ GivenInv
  /\ VisitedInv
  /\ PanicsOnlyWithoutObject

LEMMA InitIInv == Init => IInv
<1> SUFFICES ASSUME Init PROVE IInv
  OBVIOUS
<1>1. SubjectInv
  BY SubjectsFit DEF Init, SubjectInv, shape
<1>2. stored \in CState(shape)
  BY <1>1, ClientStates DEF Init, SubjectInv
<1>. QED
  BY <1>1, <1>2 DEF Init, IInv, AnswerInv, GivenInv, VisitedInv, PanicsOnlyWithoutObject

\* A call of the setter keeps the invariant, whatever was passed of the type.
LEMMA SetToKeeps ==
  ASSUME IInv, NEW g, g \in GoState(shape, subject.kind), SetTo(g)
  PROVE  IInv'
<1> DEFINE c == Write(shape, g)
<1>1. WellFormed(shape) /\ shape.settable
  BY DEF IInv, SubjectInv, SetTo
<1>2. CASE c = Panic /\ Crash
  <2>1. UNCHANGED <<subject, stored, answer, seen, visited, given>> /\ shape' = shape
    BY <1>2 DEF Crash, shape
  <2>2. \/ shape.item = "node"
        \/ shape.item = "object" /\ (~Wrappings[shape.of].nilSafe \/ Wrappings[shape.of].link # "same")
    BY <1>1, <1>2, WritePanics
  <2>3. PanicsOnlyWithoutObject'
    BY <1>1, <2>1, <2>2 DEF PanicsOnlyWithoutObject
  <2>. QED
    BY <2>1, <2>3 DEF IInv, SubjectInv, AnswerInv, GivenInv, VisitedInv
<1>3. CASE /\ c # Panic /\ stored' = c /\ given' = g
           /\ answer' = None /\ seen' = None /\ visited' = None
           /\ UNCHANGED <<subject, status>>
  <2>1. shape' = shape /\ subject' = subject
    BY <1>3 DEF shape
  <2>2. c \in CState(shape)
    BY <1>1, <1>3, WriteFacts
  <2>3. PanicsOnlyWithoutObject'
    BY <1>3 DEF SetTo, PanicsOnlyWithoutObject
  <2>. QED
    BY <1>1, <1>3, <2>1, <2>2, <2>3 DEF IInv, SubjectInv, AnswerInv, GivenInv, VisitedInv
<1>. QED
  BY <1>2, <1>3 DEF SetTo

LEMMA NextIInv == IInv /\ [Next]_vars => IInv'
<1> SUFFICES ASSUME IInv, [Next]_vars PROVE IInv'
  OBVIOUS
<1>1. /\ WellFormed(shape) /\ KindFits(shape, subject.kind) /\ stored \in CState(shape)
      /\ AnswerInv /\ GivenInv /\ VisitedInv
  BY DEF IInv, SubjectInv
<1>2. CASE Get
  <2> DEFINE r == Read(shape, subject.kind, stored)
  <2>1. CASE r = Panic /\ Crash
    <3>1. UNCHANGED <<subject, stored, answer, seen, visited, given>> /\ shape' = shape
      BY <2>1 DEF Crash, shape
    <3>2. /\ shape.item = "node"
          /\ \/ stored = Null /\ shape.answer = "unguarded"
             \/ /\ IsInterface(shape.of)
                /\ subject.kind \notin {d \in DOMAIN NewNodeCases : NewNodeCases[d] # NilNode}
      BY <1>1, <2>1, ReadPanics
    <3>3. PanicsOnlyWithoutObject'
      BY <3>1, <3>2 DEF PanicsOnlyWithoutObject
    <3>. QED
      BY <1>1, <3>1, <3>3 DEF IInv, SubjectInv, AnswerInv, GivenInv, VisitedInv
  <2>2. CASE /\ r # Panic /\ answer' = r /\ seen' = stored
             /\ visited' = IF seen = stored THEN visited ELSE None
             /\ UNCHANGED <<subject, stored, given, status>>
    <3>1. shape' = shape /\ subject' = subject /\ status = "running"
      BY <1>2, <2>2 DEF shape, Get
    <3>2. PanicsOnlyWithoutObject'
      BY <2>2, <3>1 DEF PanicsOnlyWithoutObject
    <3>3. SubjectInv' /\ (stored \in CState(shape))' /\ GivenInv'
      BY <1>1, <2>2, <3>1 DEF SubjectInv, GivenInv
    <3>4. AnswerInv'
      <4>1. seen' # None
        BY <1>1, <2>2, ListsAreNoPanic
      <4>. QED
        BY <2>2, <3>1, <4>1 DEF AnswerInv
    <3>5. VisitedInv'
      BY <1>1, <2>2, <3>1 DEF VisitedInv
    <3>. QED
      BY <3>2, <3>3, <3>4, <3>5 DEF IInv
  <2>. QED
    BY <1>2, <2>1, <2>2 DEF Get
<1>3. CASE Set
  <2>1. PICK g \in GoValues(shape, subject.kind) : SetTo(g)
    BY <1>3 DEF Set
  <2>2. g \in GoState(shape, subject.kind)
    BY <1>1, <2>1, ClientStates
  <2>. QED
    BY <2>1, <2>2, SetToKeeps
<1>4. CASE WriteBack
  <2>1. PICK g : g = answer /\ SetTo(g)
    BY <1>4 DEF WriteBack
  <2>2. g = Read(shape, subject.kind, stored) /\ g # Panic /\ shape.settable
    BY <1>1, <1>4, <2>1 DEF WriteBack, AnswerInv, SetTo
  <2>3. g \in GoState(shape, subject.kind)
    BY <1>1, <2>2, ReadFacts, DropFacts
  <2>. QED
    BY <2>1, <2>3, SetToKeeps
<1>5. CASE Add
  <2>1. PICK g \in GoItems(shape, subject.kind) :
          \/ ToC(shape, g) = Panic /\ Crash
          \/ /\ ToC(shape, g) # Panic /\ Len(stored) < MaxLen
             /\ stored' = Append(stored, ToC(shape, g))
             /\ given' = IF given = None THEN None ELSE Append(given, g)
             /\ answer' = None /\ seen' = None /\ visited' = None
             /\ UNCHANGED <<subject, status>>
    BY <1>5 DEF Add
  <2>2. shape.many /\ shape.settable /\ status = "running" /\ g \in GoType(shape, subject.kind)
    BY <1>1, <1>5, <2>1, ClientTypes DEF Add
  <2>3. CASE ToC(shape, g) = Panic /\ Crash
    <3>1. UNCHANGED <<subject, stored, answer, seen, visited, given>> /\ shape' = shape
      BY <2>3 DEF Crash, shape
    <3>2. \/ shape.item = "node"
          \/ shape.item = "object" /\ (~Wrappings[shape.of].nilSafe \/ Wrappings[shape.of].link # "same")
      BY <1>1, <2>2, <2>3, SetterPanics
    <3>3. PanicsOnlyWithoutObject'
      BY <2>2, <3>1, <3>2 DEF PanicsOnlyWithoutObject
    <3>. QED
      BY <1>1, <3>1, <3>3 DEF IInv, SubjectInv, AnswerInv, GivenInv, VisitedInv
  <2>4. CASE /\ ToC(shape, g) # Panic /\ Len(stored) < MaxLen
             /\ stored' = Append(stored, ToC(shape, g))
             /\ given' = IF given = None THEN None ELSE Append(given, g)
             /\ answer' = None /\ seen' = None /\ visited' = None
             /\ UNCHANGED <<subject, status>>
    <3>1. shape' = shape /\ subject' = subject
      BY <2>4 DEF shape
    <3>2. PanicsOnlyWithoutObject'
      BY <2>2, <2>4 DEF PanicsOnlyWithoutObject
    <3>3. Append(stored, ToC(shape, g)) \in CState(shape)
      BY <1>1, <2>2, <2>4, ToCType DEF CState
    <3>4. GivenInv'
      <4>1. CASE given = None
        BY <2>4, <4>1 DEF GivenInv
      <4>2. CASE given # None
        <5>1. given \in GoState(shape, subject.kind) /\ stored = Write(shape, given) /\ stored # Panic
          BY <1>1, <4>2 DEF GivenInv
        <5>2. /\ Append(given, g) \in GoState(shape, subject.kind)
              /\ Write(shape, Append(given, g)) = Append(stored, ToC(shape, g))
              /\ Write(shape, Append(given, g)) # Panic
          BY <1>1, <2>2, <2>4, <5>1, AppendWrites
        <5>. QED
          BY <2>2, <2>4, <3>1, <4>2, <5>2 DEF GivenInv
      <4>. QED
        BY <4>1, <4>2
    <3>. QED
      BY <1>1, <2>4, <3>1, <3>2, <3>3, <3>4 DEF IInv, SubjectInv, AnswerInv, VisitedInv
  <2>. QED
    BY <2>1, <2>3, <2>4
<1>6. CASE Visit
  <2>1. shape' = shape /\ UNCHANGED <<subject, stored, answer, seen, given, status>>
    BY <1>6 DEF Visit, shape
  <2>2. VisitedInv'
    BY <1>6, <2>1 DEF Visit, VisitedInv
  <2>3. PanicsOnlyWithoutObject'
    BY <1>6, <2>1 DEF Visit, PanicsOnlyWithoutObject
  <2>. QED
    BY <1>1, <2>1, <2>2, <2>3 DEF IInv, SubjectInv, AnswerInv, GivenInv
<1>7. CASE UNCHANGED vars
  BY <1>7 DEF vars, IInv, SubjectInv, AnswerInv, GivenInv, VisitedInv, PanicsOnlyWithoutObject, shape
<1>. QED
  BY <1>2, <1>3, <1>4, <1>5, <1>6, <1>7 DEF Next

\* The strengthened invariant holds in every reachable state.
THEOREM InvariantHolds == Spec => []IInv
BY InitIInv, NextIInv, PTL DEF Spec
-----------------------------------------------------------------------------
(* The properties *)

\* A call panics only where there is no object: nil, an absent child whose
\* type is asserted, a kind newNode does not know, another type in the link.
THEOREM PanicsExplained == Spec => []PanicsOnlyWithoutObject
<1>1. IInv => PanicsOnlyWithoutObject
  BY DEF IInv
<1>. QED
  BY <1>1, InvariantHolds, PTL

\* An item that a getter does not say as it is.
UnsaidItem(x) ==
  \/ NegativeInt(x) \/ CutText(x) \/ AbsentObject(x) \/ OtherLink(x) \/ StaticClass(x)

LEMMA ItemSaid ==
  ASSUME WellFormed(shape), NEW x, x \in CType(shape), x # Garbage,
         FromC(shape, subject.kind, x) # Panic
  PROVE  Says(FromC(shape, subject.kind, x), x) <=> ~UnsaidItem(x)
<1> DEFINE k == subject.kind
           y == FromC(shape, k, x)
<1>1. CASE shape.item \in {"flag", "word"}
  BY <1>1 DEF Says, FromC, UnsaidItem, NegativeInt, CutText, AbsentObject, OtherLink, StaticClass
<1>2. CASE shape.item = "num"
  <2>1. x \in CInts /\ y = ReadInt(x)
    BY <1>2 DEF CType, FromC
  <2>2. ReadInt(x) = x <=> ~(x < 0)
    BY <2>1, SignIsLost, HalfFacts DEF CInts
  <2>3. (Says(y, x) <=> y = x) /\ (UnsaidItem(x) <=> x < 0)
    BY <1>2 DEF Says, UnsaidItem, NegativeInt, CutText, AbsentObject, OtherLink, StaticClass
  <2>. QED
    BY <2>1, <2>2, <2>3
<1>3. CASE shape.item = "text"
  <2>1. x \in TextData /\ y = UpToNul(x)
    BY <1>3 DEF CType, FromC
  <2>2. (Says(y, x) <=> y = x) /\ (UnsaidItem(x) <=> Contains(x, Nul))
    BY <1>3 DEF Says, UnsaidItem, NegativeInt, CutText, AbsentObject, OtherLink, StaticClass
  <2>. QED
    BY <2>1, <2>2, TextFacts
<1>4. CASE shape.item = "node"
  <2>1. (Says(y, x) <=> IF x = Null THEN y = Nil ELSE y = NewNode(k, x) /\ y # Nil)
    BY <1>4 DEF Says
  <2>2. UnsaidItem(x) <=> StaticClass(x)
    BY <1>4 DEF UnsaidItem, NegativeInt, CutText, AbsentObject, OtherLink
  <2>3. CASE x = Null
    BY <1>4, <2>1, <2>2, <2>3 DEF FromC, StaticClass
  <2>4. CASE x # Null
    <3>1. x \in Addrs /\ y = NewOfType(shape.of, k, x) /\ y # Panic /\ shape.of \in STRING
      BY <1>4, <2>4 DEF CType, FromC, WellFormed
    <3>2. CASE IsInterface(shape.of)
      <4>1. y = NewNode(k, x)
        BY <3>1, <3>2, NodeFacts
      <4>. QED
        BY <1>4, <2>1, <2>2, <2>4, <3>2, <4>1 DEF StaticClass
    <3>3. CASE ~IsInterface(shape.of)
      <4>1. y = Wrapper(shape.of, x) /\ y \in Wrappers
        BY <3>1, <3>3 DEF NewOfType, Wrapper, Wrappers
      <4>2. y # Nil
        BY <4>1, Distinct
      <4>3. NewNode(k, x) # Nil => (y = NewNode(k, x) <=> NewNode(k, x).class = shape.of)
        BY <4>1 DEF NewNode, Wrapper
      <4>4. StaticClass(x) <=> NewNode(k, x) = Nil \/ NewNode(k, x).class # shape.of
        BY <1>4, <2>4, <3>3 DEF StaticClass
      <4>. QED
        BY <2>1, <2>2, <2>4, <4>2, <4>3, <4>4
    <3>. QED
      BY <3>2, <3>3
  <2>. QED
    BY <2>3, <2>4
<1>5. CASE shape.item = "object"
  <2> DEFINE t == shape.of
             o == Wrappings[t]
  <2>1. /\ o.link \in {"same", "interface", "struct"} /\ t \in STRING
        /\ y = NewObject(t, x) /\ x \in Addrs \cup {Null}
    BY <1>5 DEF CType, FromC, WellFormed
  <2>2. Says(y, x) <=> IF x = Null THEN y = Nil ELSE y = Wrapper(t, x)
    BY <1>5 DEF Says
  <2>3. UnsaidItem(x) <=> IF x = Null THEN ~o.checksNil ELSE o.link # "same"
    BY <1>5 DEF UnsaidItem, NegativeInt, CutText, AbsentObject, OtherLink, StaticClass
  <2>4. CASE x = Null
    <3>1. CASE o.checksNil
      BY <2>1, <2>2, <2>3, <2>4, <3>1 DEF NewObject
    <3>2. CASE ~o.checksNil
      <4>1. y \in Wrappers \cup {Garbage}
        BY <2>1, <2>4, <3>2 DEF NewObject, Wrapper, Wrappers, Boxes
      <4>. QED
        BY <2>2, <2>3, <2>4, <3>2, <4>1, Distinct
    <3>. QED
      BY <3>1, <3>2
  <2>5. CASE x # Null
    <3>1. x \in Addrs /\ Wrapper(t, x) \in Wrappers
      BY <2>1, <2>5 DEF Wrapper, Wrappers
    <3>2. CASE o.link = "same"
      BY <2>1, <2>2, <2>3, <2>5, <3>2 DEF NewObject
    <3>3. CASE o.link = "interface"
      <4>1. y = Garbage
        BY <2>1, <2>5, <3>3 DEF NewObject
      <4>. QED
        BY <2>2, <2>3, <2>5, <3>1, <3>3, <4>1, Distinct
    <3>4. CASE o.link = "struct"
      <4>1. y = Wrapper(t, [boxed |-> x]) /\ [boxed |-> x] \in Boxes
        BY <2>1, <2>5, <3>4 DEF NewObject, Boxes
      <4>2. [boxed |-> x] # x
        BY <3>1, <4>1, Distinct
      <4>3. y # Wrapper(t, x)
        BY <4>1, <4>2 DEF Wrapper
      <4>. QED
        BY <2>2, <2>3, <2>5, <3>4, <4>3
    <3>. QED
      BY <2>1, <3>2, <3>3, <3>4
  <2>. QED
    BY <2>4, <2>5
<1>. QED
  BY <1>1, <1>2, <1>3, <1>4, <1>5 DEF WellFormed

\* What a getter says that drops what it was answered: nothing, and that is
\* right of an absent object, an empty list, or the zero itself.
LEMMA DroppedSaid ==
  ASSUME WellFormed(shape), NEW c, c \in CState(shape), Dropped, Garbage \notin Items(c)
  PROVE  LET r == Read(shape, subject.kind, c)
         IN  /\ shape.many => ((DOMAIN r = DOMAIN c /\ \A i \in DOMAIN c : Says(r[i], c[i]))
                                 <=> c \in {Null, Zero(shape)})
             /\ ~shape.many => (Says(r, c) <=> c \in {Null, Zero(shape)})
<1> DEFINE r == Read(shape, subject.kind, c)
<1>1. shape.answer \in {"zero", "header"}
  BY DEF Dropped
<1>2. CASE shape.many
  <2>1. c \in Seq(CType(shape)) /\ c # Null /\ Zero(shape) = <<>>
    BY <1>2, ListsAreNoPanic DEF CState, Zero
  <2>2. Len(c) \in Nat /\ DOMAIN c = 1..Len(c)
    BY <2>1
  <2>3. c = <<>> <=> Len(c) = 0
    BY <2>1
  <2>4. CASE shape.answer = "zero"
    <3>1. r = <<>>
      BY <1>1, <2>1, <2>4, DropFacts
    <3>2. DOMAIN r = 1..0
      BY <3>1
    <3>3. DOMAIN r = DOMAIN c <=> Len(c) = 0
      BY <2>2, <3>2
    <3>4. Len(c) = 0 => \A i \in DOMAIN c : Says(r[i], c[i])
      BY <2>2
    <3>. QED
      BY <1>2, <2>1, <2>3, <3>3, <3>4
  <2>5. CASE shape.answer = "header"
    <3>1. r = [i \in 1..Len(c) |-> Garbage]
      BY <1>1, <2>5, DropFacts
    <3>2. DOMAIN r = DOMAIN c /\ \A i \in DOMAIN c : r[i] = Garbage
      BY <2>2, <3>1
    <3>3. ASSUME NEW i \in DOMAIN c PROVE ~Says(Garbage, c[i])
      <4>1. c[i] \in CType(shape) /\ c[i] # Garbage /\ shape.of \in STRING
        BY <1>2, <2>1, <2>2, <3>3 DEF Items, WellFormed
      <4>2. CASE shape.item = "node"
        <5>1. c[i] \in Addrs
          BY <1>2, <4>1, <4>2 DEF CType
        <5>2. NewNode(subject.kind, c[i]) \in Wrappers \cup {Nil}
          BY <4>1, <5>1, NodeFacts
        <5>. QED
          BY <4>2, <5>2, Distinct DEF Says
      <4>3. CASE shape.item = "object"
        <5>1. c[i] \in Addrs \cup {Null}
          BY <4>1, <4>3 DEF CType
        <5>2. Wrapper(shape.of, c[i]) \in Wrappers
          BY <4>1, <5>1 DEF Wrapper, Wrappers
        <5>. QED
          BY <4>3, <5>2, Distinct DEF Says
      <4>4. CASE shape.item \notin {"node", "object"}
        BY <4>1, <4>4 DEF Says
      <4>. QED
        BY <4>2, <4>3, <4>4
    <3>4. (\A i \in DOMAIN c : Says(r[i], c[i])) <=> DOMAIN c = {}
      BY <3>2, <3>3
    <3>. QED
      BY <1>2, <2>1, <2>2, <2>3, <3>2, <3>4
  <2>. QED
    BY <1>1, <1>2, <2>4, <2>5
<1>3. CASE ~shape.many
  <2>1. shape.answer = "zero" /\ c \in CType(shape) /\ shape.of \in STRING
    BY <1>1, <1>3 DEF CState, WellFormed
  <2>2. r = Zero(shape)
    BY <1>1, <2>1, DropFacts
  <2>3. c # Garbage
    BY <1>3 DEF Items
  <2>4. CASE shape.item = "node"
    <3>1. Zero(shape) = Nil /\ c \in Addrs \cup {Null}
      BY <1>3, <2>1, <2>4 DEF Zero, CType
    <3>2. Says(Nil, c) <=> c = Null
      BY <2>4 DEF Says
    <3>. QED
      BY <1>3, <2>2, <3>1, <3>2, Distinct
  <2>5. CASE shape.item = "object"
    <3>1. Zero(shape) = Nil /\ c \in Addrs \cup {Null}
      BY <1>3, <2>1, <2>3, <2>5 DEF Zero, CType
    <3>2. Wrapper(shape.of, c) \in Wrappers
      BY <2>1, <3>1 DEF Wrapper, Wrappers
    <3>3. Says(Nil, c) <=> c = Null
      BY <2>5, <3>2, Distinct DEF Says
    <3>. QED
      BY <1>3, <2>2, <3>1, <3>3, Distinct
  <2>6. CASE shape.item \notin {"node", "object"}
    <3>1. Says(r, c) <=> r = c
      BY <2>6 DEF Says
    <3>2. c # Null
      <4>1. CType(shape) \subseteq BOOLEAN \cup Int \cup TextData \cup {Garbage}
        BY <2>6, HalfFacts DEF CType, CInts, WellFormed
      <4>. QED
        BY <2>1, <4>1, Distinct
    <3>. QED
      BY <1>3, <2>2, <3>1, <3>2
  <2>. QED
    BY <2>4, <2>5, <2>6
<1>. QED
  BY <1>2, <1>3

\* A getter's answer says what the C++ object holds but for the listed cases,
\* and in those it never does.
THEOREM AnswersAreExact == Spec => []AnswerSaysWhatIsStored
<1>1. ASSUME IInv PROVE AnswerSaysWhatIsStored
  <2> SUFFICES ASSUME answer # None, Garbage \notin Items(seen)
      PROVE  (IF shape.many THEN /\ DOMAIN answer = DOMAIN seen
                                 /\ \A i \in DOMAIN seen : Says(answer[i], seen[i])
              ELSE Says(answer, seen))
             <=> ~(IF Dropped THEN seen \notin {Null, Zero(shape)}
                   ELSE \E x \in Items(seen) : UnsaidItem(x))
    BY DEF AnswerSaysWhatIsStored, UnsaidItem
  <2>1. /\ WellFormed(shape) /\ seen \in CState(shape)
        /\ answer = Read(shape, subject.kind, seen) /\ answer # Panic
    BY <1>1 DEF IInv, SubjectInv, AnswerInv
  <2>2. CASE Dropped
    BY <2>1, <2>2, DroppedSaid
  <2>3. CASE ~Dropped /\ shape.many
    <3>1. /\ DOMAIN seen = 1..Len(seen) /\ Len(seen) \in Nat
          /\ \A i \in 1..Len(seen) : seen[i] \in CType(shape)
          /\ answer = [i \in 1..Len(seen) |-> FromC(shape, subject.kind, seen[i])]
          /\ \A i \in 1..Len(seen) : FromC(shape, subject.kind, seen[i]) # Panic
      BY <2>1, <2>3, ReadFacts DEF Dropped
    <3>2. \A i \in DOMAIN seen : seen[i] # Garbage
      BY <2>3 DEF Items
    <3>3. DOMAIN answer = DOMAIN seen
      BY <3>1
    <3>4. \A i \in DOMAIN seen : Says(answer[i], seen[i]) <=> ~UnsaidItem(seen[i])
      BY <2>1, <3>1, <3>2, ItemSaid
    <3>5. (\E x \in Items(seen) : UnsaidItem(x)) <=> \E i \in DOMAIN seen : UnsaidItem(seen[i])
      BY <2>3 DEF Items
    <3>. QED
      BY <2>3, <3>3, <3>4, <3>5
  <2>4. CASE ~Dropped /\ ~shape.many
    <3>1. /\ seen \in CType(shape) /\ answer = FromC(shape, subject.kind, seen)
          /\ FromC(shape, subject.kind, seen) # Panic /\ Items(seen) = {seen}
      BY <2>1, <2>4, ReadFacts DEF Dropped, Items
    <3>2. Says(answer, seen) <=> ~UnsaidItem(seen)
      BY <2>1, <3>1, ItemSaid
    <3>. QED
      BY <2>4, <3>1, <3>2
  <2>. QED
    BY <2>2, <2>3, <2>4
<1>. QED
  BY <1>1, InvariantHolds, PTL

\* Of a getter that drops its answer only the zero comes back.
LEMMA DroppedComesBack ==
  ASSUME NEW s, WellFormed(s), s.settable, s.answer \in {"zero", "header"}, NEW k,
         NEW g \in GoState(s, k), Write(s, g) # Panic,
         s.many => \A i \in DOMAIN g : g[i] # Garbage
  PROVE  /\ Read(s, k, Write(s, g)) = g <=> g = Zero(s)
         /\ g = Zero(s) => IF s.many THEN DOMAIN g = {} ELSE ~LostItem(s, g)
<1> DEFINE c == Write(s, g)
<1>1. c \in CState(s)
  BY WriteFacts
<1>2. CASE s.many
  <2>1. Zero(s) = <<>> /\ g \in Seq(GoType(s, k))
    BY <1>2 DEF Zero, GoState
  <2>2. Len(g) \in Nat /\ DOMAIN g = 1..Len(g) /\ (g = <<>> <=> Len(g) = 0)
    BY <2>1
  <2>3. CASE s.answer = "zero"
    <3>1. Read(s, k, c) = Zero(s)
      BY <1>1, <2>3, DropFacts
    <3>. QED
      BY <1>2, <2>1, <2>2, <3>1
  <2>4. CASE s.answer = "header"
    <3>1. Len(c) = Len(g)
      <4>1. c = [i \in 1..Len(g) |-> ToC(s, g[i])] /\ c \in Seq(CType(s))
        BY <1>1, <1>2, WriteFacts DEF CState
      <4>. QED
        BY <2>2, <4>1
    <3>2. Read(s, k, c) = [i \in 1..Len(g) |-> Garbage]
      BY <1>1, <2>4, <3>1, DropFacts
    <3>3. Len(g) = 0 => Read(s, k, c) = <<>>
      <4>1. Len(g) = 0 => [i \in 1..Len(g) |-> Garbage] \in Seq({Garbage})
        BY <2>2
      <4>. QED
        BY <2>2, <3>2, <4>1
    <3>4. Len(g) # 0 => Read(s, k, c)[1] # g[1]
      BY <1>2, <2>2, <3>2
    <3>. QED
      BY <1>2, <2>1, <2>2, <3>3, <3>4
  <2>. QED
    BY <2>3, <2>4
<1>3. CASE ~s.many
  <2>1. s.answer = "zero" /\ s.item # "object"
    BY <1>3 DEF WellFormed
  <2>2. Read(s, k, c) = Zero(s)
    BY <1>1, <2>1, DropFacts
  <2>3. s.item = "text" => ~LostItem(s, Zero(s))
    <3>1. s.item = "text" => Zero(s) = <<>> /\ ~Contains(<<>>, Nul)
      BY <1>3 DEF Zero, Contains
    <3>. QED
      BY <3>1 DEF LostItem
  <2>4. s.item = "num" => ~LostItem(s, Zero(s))
    <3>1. s.item = "num" => Zero(s) = 0
      BY <1>3 DEF Zero
    <3>. QED
      BY <3>1, IntSpanAssumption DEF LostItem
  <2>5. s.item \notin {"text", "num"} => ~LostItem(s, Zero(s))
    BY <2>1 DEF LostItem
  <2>. QED
    BY <1>3, <2>2, <2>3, <2>4, <2>5
<1>. QED
  BY <1>2, <1>3

\* What a setter passed comes back from the getter but for the listed values,
\* and those never do.
THEOREM GivenIsAnswered == Spec => []WrittenComesBack
<1>1. ASSUME IInv PROVE WrittenComesBack
  <2> SUFFICES ASSUME answer # None, given # None, Garbage \notin Items(given)
      PROVE  answer = given <=> /\ \A g \in Items(given) : ~LostItem(shape, g)
                                /\ Dropped => given = Zero(shape)
    BY DEF WrittenComesBack, LostItem, LostObject, Unboxed
  <2>1. /\ WellFormed(shape) /\ stored \in CState(shape)
        /\ answer = Read(shape, subject.kind, stored) /\ answer # Panic
        /\ shape.settable /\ given \in GoState(shape, subject.kind)
        /\ stored = Write(shape, given) /\ stored # Panic
    BY <1>1 DEF IInv, SubjectInv, AnswerInv, GivenInv
  <2>2. CASE Dropped
    <3>1. shape.answer \in {"zero", "header"} /\ (shape.many => \A i \in DOMAIN given : given[i] # Garbage)
      BY <2>2 DEF Dropped, Items
    <3>2. answer = given <=> given = Zero(shape)
      BY <2>1, <3>1, DroppedComesBack
    <3>3. given = Zero(shape) => IF shape.many THEN DOMAIN given = {} ELSE ~LostItem(shape, given)
      BY <2>1, <3>1, DroppedComesBack
    <3>4. given = Zero(shape) => \A g \in Items(given) : ~LostItem(shape, g)
      BY <3>3 DEF Items
    <3>. QED
      BY <2>2, <3>2, <3>4
  <2>3. CASE ~Dropped /\ shape.many
    <3> DEFINE n == Len(given)
    <3>1. /\ n \in Nat /\ DOMAIN given = 1..n /\ given \in Seq(GoType(shape, subject.kind))
          /\ \A i \in 1..n : given[i] \in GoType(shape, subject.kind)
          /\ \A i \in 1..n : ToC(shape, given[i]) # Panic
          /\ stored = [i \in 1..n |-> ToC(shape, given[i])]
      BY <2>1, <2>3, WriteFacts DEF GoState
    <3>2. Len(stored) = n
      BY <2>1, <2>3, <3>1 DEF CState
    <3>3. answer = [i \in 1..n |-> FromC(shape, subject.kind, ToC(shape, given[i]))]
      <4>1. answer = [i \in 1..n |-> FromC(shape, subject.kind, stored[i])]
        BY <2>1, <2>3, <3>2, ReadFacts DEF Dropped
      <4>2. \A i \in 1..n : stored[i] = ToC(shape, given[i])
        BY <3>1
      <4>. QED
        BY <4>1, <4>2
    <3>4. \A i \in 1..n : given[i] # Garbage
      BY <2>3, <3>1 DEF Items
    <3>5. \A i \in 1..n : FromC(shape, subject.kind, ToC(shape, given[i])) = given[i]
                            <=> ~LostItem(shape, given[i])
      BY <2>1, <3>1, <3>4, ItemComesBack
    <3>6. given = [i \in 1..n |-> given[i]]
      BY <3>1
    <3>7. answer = given <=> \A i \in 1..n : FromC(shape, subject.kind, ToC(shape, given[i])) = given[i]
      <4>1. \A i \in 1..n : answer[i] = FromC(shape, subject.kind, ToC(shape, given[i]))
        BY <3>3
      <4>. QED
        BY <3>3, <3>6, <4>1
    <3>8. Items(given) = {given[i] : i \in 1..n}
      BY <2>3, <3>1 DEF Items
    <3>. QED
      BY <2>3, <3>5, <3>7, <3>8
  <2>4. CASE ~Dropped /\ ~shape.many
    <3>1. /\ given \in GoType(shape, subject.kind) /\ stored = ToC(shape, given)
          /\ ToC(shape, given) # Panic /\ Items(given) = {given} /\ given # Garbage
      BY <2>1, <2>4, WriteFacts DEF Items
    <3>2. answer = FromC(shape, subject.kind, ToC(shape, given))
      BY <2>1, <2>4, <3>1, ReadFacts DEF Dropped
    <3>3. answer = given <=> ~LostItem(shape, given)
      BY <2>1, <3>1, <3>2, ItemComesBack
    <3>. QED
      BY <2>4, <3>1, <3>3
  <2>. QED
    BY <2>2, <2>3, <2>4
<1>. QED
  BY <1>1, InvariantHolds, PTL

\* A walk and a getter give the same wrapper of a child, but for the kinds and
\* the classes listed, and there they never do.
THEOREM WalksAgree == Spec => []WalkSeesWhatGettersAnswer
<1>1. ASSUME IInv PROVE WalkSeesWhatGettersAnswer
  <2> DEFINE k   == subject.kind
             x   == IF shape.many THEN seen[1] ELSE seen
             got == IF shape.many THEN answer[1] ELSE answer
  <2> SUFFICES ASSUME visited # None, ~Dropped
      PROVE  visited = got <=> (StaticClass(x) => shape.of = "Node")
    BY DEF WalkSeesWhatGettersAnswer
  <2>1. /\ WellFormed(shape) /\ shape.of \in STRING /\ seen \in CState(shape) /\ seen \notin {Null, <<>>}
        /\ answer = Read(shape, k, seen) /\ answer # Panic
        /\ shape.item = "node" /\ visited = NewNode(k, x)
    <3>1. /\ WellFormed(shape) /\ stored \in CState(shape) /\ seen = stored /\ stored \notin {Null, <<>>}
          /\ shape.item = "node" /\ visited = NewNode(k, IF shape.many THEN stored[1] ELSE stored)
      BY <1>1 DEF IInv, SubjectInv, VisitedInv
    <3>2. seen # None
      BY <3>1, ListsAreNoPanic
    <3>. QED
      BY <1>1, <3>1, <3>2 DEF IInv, AnswerInv, WellFormed
  <2>2. x \in Addrs /\ got = FromC(shape, k, x) /\ got # Panic
    <3>1. CASE shape.many
      <4>1. /\ Len(seen) \in Nat /\ \A i \in 1..Len(seen) : seen[i] \in CType(shape)
            /\ answer = [i \in 1..Len(seen) |-> FromC(shape, k, seen[i])]
            /\ \A i \in 1..Len(seen) : FromC(shape, k, seen[i]) # Panic
        BY <2>1, <3>1, ReadFacts DEF Dropped
      <4>2. 1 \in 1..Len(seen)
        BY <2>1, <3>1, <4>1 DEF CState
      <4>3. answer[1] = FromC(shape, k, seen[1]) /\ seen[1] \in CType(shape)
        BY <4>1, <4>2
      <4>. QED
        BY <2>1, <3>1, <4>1, <4>2, <4>3 DEF CType
    <3>2. CASE ~shape.many
      <4>1. seen \in CType(shape) /\ answer = FromC(shape, k, seen)
        BY <2>1, <3>2, ReadFacts DEF Dropped
      <4>. QED
        BY <2>1, <3>2, <4>1 DEF CType
    <3>. QED
      BY <3>1, <3>2
  <2> HIDE DEF x, got
  <2>3. x # Null /\ got = NewOfType(shape.of, k, x)
    BY <2>1, <2>2, Distinct DEF FromC
  <2>4. StaticClass(x) <=> \/ visited = Nil
                           \/ visited.class # shape.of /\ ~IsInterface(shape.of)
    BY <2>1, <2>3 DEF StaticClass
  <2>5. CASE IsInterface(shape.of)
    <3>1. got = visited
      <4>1. x \in Addrs /\ shape.of \in STRING /\ NewOfType(shape.of, k, x) # Panic
        BY <2>1, <2>2, <2>3
      <4>2. NewOfType(shape.of, k, x) = NewNode(k, x)
        BY <2>5, <4>1, NodeFacts
      <4>. QED
        BY <2>1, <2>3, <4>2
    <3>2. visited = Nil => shape.of = "Node"
      BY <2>1, <2>2, <2>3, <2>5, <3>1 DEF NewOfType
    <3>. QED
      BY <2>4, <2>5, <3>1, <3>2
  <2>6. CASE ~IsInterface(shape.of)
    <3>1. got = Wrapper(shape.of, x) /\ got \in Wrappers /\ got # Nil
      BY <2>1, <2>2, <2>3, <2>6, Distinct DEF NewOfType, Wrapper, Wrappers
    <3>2. visited # Nil => (visited = got <=> visited.class = shape.of)
      BY <2>1, <3>1 DEF NewNode, Wrapper
    <3>3. shape.of # "Node"
      BY <2>6, DispatchAssumption DEF IsInterface
    <3>. QED
      BY <2>4, <2>6, <3>1, <3>2, <3>3
  <2>. QED
    BY <2>5, <2>6
<1>. QED
  BY <1>1, InvariantHolds, PTL
=============================================================================
