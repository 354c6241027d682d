------------------------ MODULE CatalogLookupProofs ------------------------
(***************************************************************************)
(* Proofs about CatalogLookup for any catalogs, objects, tables and depth  *)
(* of nesting.                                                             *)
(*                                                                         *)
(* The properties speak of a lookup that has ended; what makes them hold   *)
(* is that every return on the way keeps them, in both languages and for   *)
(* every kind: an answer on its way names an object exactly when the       *)
(* deciding catalog did.                                                   *)
(***************************************************************************)
EXTENDS CatalogLookup, SequenceTheorems, TLAPS

\* Answer x, on its way in a lookup of kind k that was decided by l: the address
\* it names is the one that was named, an absence was stated, and there is a panic
\* just if a closure was given a value it cannot convert.
Good(x, l, k) ==
    /\ x \in Answers /\ l \in Leaves
    /\ \A a \in Addresses : x \in {Found(a), Pointer(a)} <=> l = Found(a)
    /\ x \in {NotFound, Pointer(Null)} => l \in {Nil, NotFound}
    /\ x = Panic <=> Bad(k, l)

\* A closure runs for the C++ catalog that called it back.
StackInv ==
    /\ stack \in Seq(Calls)
    /\ \A k \in DOMAIN stack :
        stack[k].side = "go" =>
            /\ k > 1
            /\ stack[k - 1].side = "cxx" /\ stack[k - 1].catalog \in GoCatalogs

\* Only a call like that one gets the result of a closure; all others get statuses.
AnswerInv ==
    answer \notin Statuses \cup {NoAnswer, Panic} =>
        stack # <<>> /\ Top.side = "cxx" /\ Top.catalog \in GoCatalogs

IInv ==
    /\ kind \in Kinds
    /\ Good(answer, leaf, kind)
    /\ StackInv /\ AnswerInv

USE LookupAssumption

\* Answers of different sorts, and about different addresses, differ.
LEMMA Distinct ==
    ASSUME NEW a, NEW b
    PROVE  /\ Found(a) = Found(b) => a = b
           /\ Pointer(a) = Pointer(b) => a = b
           /\ Wrapper(a) = Wrapper(b) => a = b
           /\ Found(a).is = "found" /\ Found(a).at = a
           /\ Pointer(a).is = "pointer" /\ Pointer(a).at = a
           /\ Wrapper(a).is = "wrapper" /\ Wrapper(a).at = a
           /\ NotFound.is = "notfound" /\ NotFound.at = Null
           /\ Error.is = "error" /\ Error.at = Null
           /\ Nil.is = "nil" /\ TypedNil.is = "typednil" /\ Unhashable.is = "unhashable"
           /\ Panic.is = "panic" /\ NoAnswer.is = "none"
<1>1. /\ Found(a).is = "found" /\ Found(a).at = a /\ Found(b).at = b
      /\ Pointer(a).is = "pointer" /\ Pointer(a).at = a /\ Pointer(b).at = b
      /\ Wrapper(a).is = "wrapper" /\ Wrapper(a).at = a /\ Wrapper(b).at = b
  BY DEF Found, Pointer, Wrapper
<1>2. /\ NotFound.is = "notfound" /\ NotFound.at = Null
      /\ Error.is = "error" /\ Error.at = Null
      /\ Nil.is = "nil" /\ TypedNil.is = "typednil" /\ Unhashable.is = "unhashable"
      /\ Panic.is = "panic" /\ NoAnswer.is = "none"
  BY DEF NotFound, Error, Nil, TypedNil, Unhashable, Panic, NoAnswer
<1>. QED
  BY <1>1, <1>2

\* The answers that are good, by sort.
LEMMA GoodObjects ==
    ASSUME NEW k, NEW a \in Addresses
    PROVE  Good(Found(a), Found(a), k) /\ Good(Pointer(a), Found(a), k)
<1>1. /\ Found(a) \in Answers /\ Pointer(a) \in Answers /\ Found(a) \in Leaves
      /\ Null \notin Addresses
  BY DEF Answers, Leaves, Statuses, Addresses
<1>2. \A b \in Addresses : /\ Found(a) # Pointer(b) /\ Pointer(a) # Found(b)
                           /\ Found(a) = Found(b) => a = b
                           /\ Pointer(a) = Pointer(b) => a = b
  BY Distinct
<1>3. /\ Found(a) \notin {NotFound, Pointer(Null), Panic, Nil, TypedNil, Unhashable}
      /\ Pointer(a) # NotFound /\ Pointer(a) # Pointer(Null) /\ Pointer(a) # Panic
  BY <1>1, Distinct
<1>. QED
  BY <1>1, <1>2, <1>3 DEF Good, Bad

LEMMA GoodOthers ==
    ASSUME NEW k, NEW l \in Leaves, \A a \in Addresses : l # Found(a),
           ~Bad(k, l)
    PROVE  /\ Good(Error, l, k) /\ Good(NoAnswer, l, k)
           /\ l \in {Nil, NotFound} => Good(NotFound, l, k) /\ Good(Pointer(Null), l, k)
<1>1. /\ {NotFound, Pointer(Null), Error, Panic, NoAnswer} \subseteq Answers
      /\ Null \notin Addresses
  BY DEF Answers, Statuses, Addresses
<1>2. ASSUME NEW b \in Addresses
      PROVE  {NotFound, Pointer(Null), Error, Panic, NoAnswer} \cap {Found(b), Pointer(b)} = {}
  <2>1. b # Null /\ Found(b).is = "found" /\ Pointer(b).is = "pointer" /\ Pointer(b).at = b
    BY <1>1, Distinct
  <2>2. Pointer(Null).is = "pointer" /\ Pointer(Null).at = Null
    BY Distinct
  <2>. QED
    BY <2>1, <2>2, Distinct
<1>3. /\ NotFound # Panic /\ Pointer(Null) # Panic
      /\ Error # NotFound /\ Error # Pointer(Null) /\ Error # Panic
      /\ NoAnswer # NotFound /\ NoAnswer # Pointer(Null) /\ NoAnswer # Panic
  BY Distinct
<1>4. Good(Error, l, k) /\ Good(NoAnswer, l, k)
  BY <1>1, <1>2, <1>3 DEF Good
<1>5. l \in {Nil, NotFound} => Good(NotFound, l, k) /\ Good(Pointer(Null), l, k)
  BY <1>1, <1>2, <1>3 DEF Good
<1>. QED
  BY <1>4, <1>5

\* So is a panic about a bad value.
LEMMA GoodPanics ==
    ASSUME NEW k, NEW l \in {Nil, TypedNil, Unhashable}, Bad(k, l)
    PROVE  Good(Panic, l, k)
<1>1. Panic \in Answers /\ l \in Leaves
  BY DEF Answers, Leaves
<1>2. Panic # NotFound /\ \A a : Panic \notin {Found(a), Pointer(a)} /\ l # Found(a)
  BY Distinct
<1>. QED
  BY <1>1, <1>2 DEF Good

\* The leaves that name no object.
LEMMA OtherLeaves ==
    /\ {Nil, TypedNil, Unhashable, NotFound, Error, NoAnswer} \subseteq Leaves
    /\ \A a : Found(a) \notin {Nil, TypedNil, Unhashable, NotFound, Error, NoAnswer}
    /\ \A k : \A l \in {NotFound, Error, NoAnswer} : ~Bad(k, l)
    /\ \A k : Bad(k, Nil) <=> k \in Unchecked
    /\ \A k : Bad(k, TypedNil) <=> k \in Interfaces
    /\ Bad("table", Unhashable)
<1>1. /\ {Nil, TypedNil, Unhashable, NotFound, Error, NoAnswer} \subseteq Leaves
      /\ \A a : Found(a) \notin {Nil, TypedNil, Unhashable, NotFound, Error, NoAnswer}
  BY Distinct DEF Leaves, Statuses
<1>2. /\ Nil \notin {TypedNil, Unhashable, NotFound, Error, NoAnswer}
      /\ TypedNil \notin {Nil, Unhashable, NotFound, Error, NoAnswer}
      /\ Unhashable \notin {Nil, TypedNil, NotFound, Error, NoAnswer}
  BY Distinct
<1>. QED
  BY <1>1, <1>2 DEF Bad

LEMMA InitEstablishes == Init => IInv
<1> SUFFICES ASSUME Init PROVE IInv
  OBVIOUS
<1>1. answer = NoAnswer /\ leaf = NoAnswer /\ kind \in Kinds
  BY DEF Init
<1>2. Good(NoAnswer, NoAnswer, kind)
  BY OtherLeaves, GoodOthers
<1>. QED
  BY <1>1, <1>2 DEF Init, IInv, StackInv, AnswerInv

\* What a closure makes of a value that the user's code returns.
LEMMA RawOfFacts ==
    ASSUME NEW k \in Kinds, NEW a \in Addresses \cup {Null}
    PROVE  /\ RawOf(k, Wrapper(a)) = Pointer(a)
           /\ RawOf(k, Error) = Error
           /\ RawOf(k, Nil) = IF k \in Unchecked THEN Panic ELSE Pointer(Null)
           /\ RawOf(k, TypedNil) = Panic /\ RawOf(k, Unhashable) = Panic
<1>1. /\ Wrapper(a) \notin {Error, Nil, TypedNil, Unhashable} /\ Wrapper(a).at = a
      /\ Nil \notin {Error, TypedNil, Unhashable}
      /\ TypedNil # Error /\ Unhashable # Error
      /\ TypedNil # Nil /\ Unhashable # Nil
  BY Distinct
<1>. QED
  BY <1>1 DEF RawOf

LEMMA AnswerStep == IInv /\ Next => kind' \in Kinds /\ Good(answer', leaf', kind')
<1> DEFINE Kept == kind' \in Kinds /\ Good(answer', leaf', kind')
<1> SUFFICES ASSUME IInv, Next PROVE Kept
  OBVIOUS
<1>0. /\ kind \in Kinds /\ Good(answer, leaf, kind)
      /\ answer \in Answers /\ leaf \in Leaves
      /\ AnswerInv
  BY DEF IInv, Good
<1>1. ASSUME NEW k \in Kinds, NEW c \in Catalogs, Analyze(k, c) PROVE Kept
  <2>1. kind' = k /\ leaf' = NoAnswer /\ answer' = NoAnswer
    BY <1>1 DEF Analyze, Push
  <2>2. Good(NoAnswer, NoAnswer, k)
    BY OtherLeaves, GoodOthers
  <2>. QED
    BY <2>1, <2>2
<1>2. CASE CxxDecides
  <2>1. PICK x \in {Found(a) : a \in Objects} \cup {NotFound} :
            answer' = x /\ leaf' = x /\ kind' = kind
    BY <1>2 DEF CxxDecides, ReturnWith
  <2>2. Good(x, x, kind)
    <3>1. CASE x = NotFound
      <4>1. Good(NotFound, NotFound, kind)
        BY OtherLeaves, GoodOthers
      <4>. QED
        BY <3>1, <4>1
    <3>2. CASE x # NotFound
      <4>1. PICK a \in Objects : x = Found(a)
        BY <3>2
      <4>. QED
        BY <1>0, <4>1, GoodObjects DEF Addresses
    <3>. QED
      BY <3>1, <3>2
  <2>. QED
    BY <1>0, <2>1, <2>2
<1>3. CASE CxxAsksNested \/ CallsBack \/ GoAsks
  <2>1. answer = NoAnswer /\ answer' = answer /\ leaf' = leaf /\ kind' = kind
    BY <1>3 DEF CxxAsksNested, CallsBack, GoAsks, Begins, Push
  <2>. QED
    BY <1>0, <2>1
<1>4. CASE CxxNestedReturns \/ Unwind
  <2>1. answer' = answer /\ leaf' = leaf /\ kind' = kind
    BY <1>4 DEF CxxNestedReturns, Unwind, ReturnWith
  <2>. QED
    BY <1>0, <2>1
<1>5. CASE CallbackReturns
  <2>1. /\ answer \notin {NoAnswer, Panic} /\ leaf' = leaf /\ kind' = kind
        /\ answer' = (IF answer = Error THEN Error
                      ELSE IF answer.at = Null THEN NotFound ELSE Found(answer.at))
    BY <1>5 DEF CallbackReturns, Resumes, ReturnWith
  <2>2. CASE answer = Error
    BY <1>0, <2>1, <2>2
  <2>3. CASE answer \in {NotFound, Pointer(Null)}
    <3>1. answer.at = Null /\ answer # Error
      BY <2>3, Distinct
    <3>2. leaf \in {Nil, NotFound}
      BY <1>0, <2>3 DEF Good
    <3>3. Good(NotFound, leaf, kind)
      <4>1. ~Bad(kind, leaf)
        <5>1. answer # Panic
          BY <2>1
        <5>. QED
          BY <1>0, <5>1 DEF Good
      <4>. QED
        BY <3>2, <4>1, OtherLeaves, GoodOthers
    <3>. QED
      BY <1>0, <2>1, <3>1, <3>3
  <2>4. ASSUME NEW a \in Addresses, answer \in {Found(a), Pointer(a)} PROVE Kept
    <3>1. answer.at = a /\ a # Null /\ answer # Error
      BY <2>4, Distinct DEF Addresses
    <3>2. leaf = Found(a)
      BY <1>0, <2>4 DEF Good
    <3>. QED
      BY <1>0, <2>1, <3>1, <3>2, GoodObjects
  <2>. QED
    BY <1>0, <2>1, <2>2, <2>3, <2>4 DEF Answers, Statuses
<1>6. CASE GoDecides
  <2>1. kind' = kind
    BY <1>6 DEF GoDecides
  <2>2. ASSUME NEW a \in Addresses, answer' = RawOf(kind, Wrapper(a)), leaf' = Found(a)
        PROVE  Kept
    BY <1>0, <2>1, <2>2, RawOfFacts, GoodObjects
  <2>3. CASE answer' = RawOf(kind, Nil) /\ leaf' = Nil
    <3>1. /\ kind \in Unchecked => Good(Panic, Nil, kind)
          /\ kind \notin Unchecked => Good(Pointer(Null), Nil, kind)
      BY OtherLeaves, GoodOthers, GoodPanics
    <3>2. RawOf(kind, Nil) = IF kind \in Unchecked THEN Panic ELSE Pointer(Null)
      BY <1>0, RawOfFacts
    <3>. QED
      BY <1>0, <2>1, <2>3, <3>1, <3>2
  <2>4. CASE answer' = RawOf(kind, Error) /\ leaf' = Error
    <3>1. RawOf(kind, Error) = Error
      BY <1>0, RawOfFacts
    <3>2. Good(Error, Error, kind)
      BY OtherLeaves, GoodOthers
    <3>. QED
      BY <1>0, <2>1, <2>4, <3>1, <3>2
  <2>5. ASSUME NEW x \in {TypedNil, Unhashable}, Bad(kind, x),
               answer' = RawOf(kind, x), leaf' = x
        PROVE  Kept
    <3>1. answer' = Panic /\ Good(Panic, x, kind)
      BY <1>0, <2>5, RawOfFacts, GoodPanics
    <3>. QED
      BY <1>0, <2>1, <2>5, <3>1
  <2>6. CASE \E a \in Addresses : answer' = RawOf(kind, Wrapper(a)) /\ leaf' = Found(a)
    BY <2>2, <2>6
  <2>7. CASE \E x \in {Nil, Error} \cup (IF kind \in Interfaces THEN {TypedNil} ELSE {})
                                   \cup (IF kind = "table" THEN {Unhashable} ELSE {}) :
                answer' = RawOf(kind, x) /\ leaf' = x
    <3>1. PICK x \in {Nil, Error} \cup (IF kind \in Interfaces THEN {TypedNil} ELSE {})
                                  \cup (IF kind = "table" THEN {Unhashable} ELSE {}) :
              answer' = RawOf(kind, x) /\ leaf' = x
      BY <2>7
    <3>2. CASE x \in {Nil, Error}
      BY <2>3, <2>4, <3>1, <3>2
    <3>3. CASE x \notin {Nil, Error}
      <4>1. x \in {TypedNil, Unhashable} /\ Bad(kind, x)
        BY <3>1, <3>3, OtherLeaves
      <4>. QED
        BY <2>5, <3>1, <4>1
    <3>. QED
      BY <3>2, <3>3
  <2>8. \/ \E a \in Addresses : answer' = RawOf(kind, Wrapper(a)) /\ leaf' = Found(a)
        \/ \E x \in {Nil, Error} \cup (IF kind \in Interfaces THEN {TypedNil} ELSE {})
                                 \cup (IF kind = "table" THEN {Unhashable} ELSE {}) :
                answer' = RawOf(kind, x) /\ leaf' = x
    BY <1>6 DEF GoDecides, ReturnWith, Addresses
  <2>. QED
    BY <2>6, <2>7, <2>8
<1>7. CASE GoGets
  <2>1. PICK a \in Objects \cup {Null} :
            /\ answer' = RawOf(kind, NewOf(kind, a)) /\ kind' = kind
            /\ leaf' = IF a # Null THEN Found(a)
                       ELSE IF NewOf(kind, a) = Wrapper(Null) THEN NotFound
                       ELSE NewOf(kind, a)
    BY <1>7 DEF GoGets, ReturnWith
  <2>2. CASE a # Null
    <3>1. NewOf(kind, a) = Wrapper(a) /\ a \in Addresses
      BY <2>2 DEF NewOf, Addresses
    <3>2. answer' = Pointer(a) /\ leaf' = Found(a)
      BY <1>0, <2>1, <2>2, <3>1, RawOfFacts
    <3>. QED
      BY <1>0, <2>1, <3>1, <3>2, GoodObjects
  <2>3. CASE a = Null /\ kind \in {"table", "model", "table_valued_function"}
    <3>1. NewOf(kind, a) = TypedNil /\ TypedNil # Wrapper(Null)
      BY <2>3, Distinct DEF NewOf
    <3>2. answer' = Panic /\ leaf' = TypedNil
      BY <1>0, <2>1, <2>3, <3>1, RawOfFacts
    <3>3. Good(Panic, TypedNil, kind)
      <4>1. kind \in Interfaces
        BY <2>3 DEF Interfaces
      <4>. QED
        BY <4>1, OtherLeaves, GoodPanics
    <3>. QED
      BY <1>0, <2>1, <3>2, <3>3
  <2>4. CASE a = Null /\ kind = "type"
    <3>1. NewOf(kind, a) = Nil /\ Nil # Wrapper(Null) /\ kind \in Unchecked
      BY <2>4, Distinct DEF NewOf, Unchecked
    <3>2. answer' = Panic /\ leaf' = Nil
      BY <1>0, <2>1, <2>4, <3>1, RawOfFacts
    <3>3. Good(Panic, Nil, kind)
      BY <3>1, OtherLeaves, GoodPanics
    <3>. QED
      BY <1>0, <2>1, <3>2, <3>3
  <2>5. CASE a = Null /\ kind \notin {"table", "model", "table_valued_function", "type"}
    <3>1. NewOf(kind, a) = Wrapper(Null)
      BY <2>5 DEF NewOf
    <3>2. answer' = Pointer(Null) /\ leaf' = NotFound
      BY <1>0, <2>1, <2>5, <3>1, RawOfFacts
    <3>3. Good(Pointer(Null), NotFound, kind)
      BY OtherLeaves, GoodOthers
    <3>. QED
      BY <1>0, <2>1, <3>2, <3>3
  <2>. QED
    BY <2>2, <2>3, <2>4, <2>5
<1>8. CASE GoAskedReturns
  <2>1. /\ answer \notin {NoAnswer, Panic} /\ leaf' = leaf /\ kind' = kind
        /\ answer' = RawOf(kind, IF answer.is = "found" THEN NewOf(kind, answer.at) ELSE Error)
    BY <1>8 DEF GoAskedReturns, Resumes, ReturnWith
  <2>2. ASSUME NEW a \in Addresses, answer = Found(a) PROVE Kept
    <3>1. answer.is = "found" /\ answer.at = a /\ a # Null
      BY <2>2, Distinct DEF Addresses
    <3>2. leaf = Found(a)
      BY <1>0, <2>2 DEF Good
    <3>3. NewOf(kind, a) = Wrapper(a)
      BY <3>1 DEF NewOf
    <3>4. answer' = Pointer(a)
      BY <1>0, <2>1, <3>1, <3>3, RawOfFacts
    <3>. QED
      BY <1>0, <2>1, <3>2, <3>4, GoodObjects
  <2>3. CASE answer \in {NotFound, Error}
    <3>1. answer.is # "found"
      BY <2>3, Distinct
    <3>2. answer' = Error
      BY <1>0, <2>1, <3>1, RawOfFacts
    <3>3. ~Bad(kind, leaf) /\ \A a \in Addresses : leaf # Found(a)
      BY <1>0, <2>1, <2>3, Distinct DEF Good
    <3>4. Good(Error, leaf, kind)
      BY <1>0, <3>3, GoodOthers
    <3>. QED
      BY <1>0, <2>1, <3>2, <3>4
  <2>4. answer \in Statuses
    BY <1>0, <1>8 DEF AnswerInv, GoAskedReturns, Resumes
  <2>. QED
    BY <2>2, <2>3, <2>4 DEF Statuses
<1>9. CASE GoRetries
  <2>1. /\ answer' = NoAnswer /\ leaf' = leaf /\ kind' = kind /\ answer.is # "found"
    BY <1>9 DEF GoRetries
  <2>2. answer \in Statuses
    BY <1>0, <1>9 DEF AnswerInv, GoRetries, Resumes
  <2>3. answer \in {NotFound, Error}
    BY <2>1, <2>2, Distinct DEF Statuses
  <2>4. ~Bad(kind, leaf) /\ \A a \in Addresses : leaf # Found(a)
    BY <1>0, <2>3, Distinct DEF Good
  <2>5. Good(NoAnswer, leaf, kind)
    BY <1>0, <2>4, GoodOthers
  <2>. QED
    BY <1>0, <2>1, <2>5
<1>10. CASE GiveUp
  <2>1. answer' = answer /\ leaf' = leaf /\ kind' = kind
    BY <1>10 DEF GiveUp
  <2>. QED
    BY <1>0, <2>1
<1>. QED
  BY <1>1, <1>2, <1>3, <1>4, <1>5, <1>6, <1>7, <1>8, <1>9, <1>10 DEF Next

LEMMA PopFacts ==
    ASSUME stack \in Seq(Calls), stack # <<>>
    PROVE  /\ Pop \in Seq(Calls)
           /\ Len(stack) \in Nat \ {0} /\ Len(Pop) = Len(stack) - 1
           /\ \A k \in 1..(Len(stack) - 1) : Pop[k] = stack[k]
<1>1. Len(stack) \in Nat \ {0} /\ \A k \in 1..Len(stack) : stack[k] \in Calls
  OBVIOUS
<1>2. PICK n \in Nat : n = Len(stack) - 1
  BY <1>1
<1>3. 1 \in Int /\ n \in Int /\ \A k \in 1..n : stack[k] \in Calls
  BY <1>1, <1>2
<1>4. /\ SubSeq(stack, 1, n) \in Seq(Calls)
      /\ Len(SubSeq(stack, 1, n)) = IF 1 <= n THEN n - 1 + 1 ELSE 0
      /\ \A k \in 1..(n - 1 + 1) : SubSeq(stack, 1, n)[k] = stack[1 + k - 1]
  BY <1>3, SubSeqProperties
<1>5. n - 1 + 1 = n /\ \A k \in 1..n : 1 + k - 1 = k
  BY <1>2
<1>6. Len(SubSeq(stack, 1, n)) = n
  BY <1>2, <1>4
<1>7. \A k \in 1..n : SubSeq(stack, 1, n)[k] = stack[k]
  BY <1>4, <1>5
<1>. QED
  BY <1>1, <1>2, <1>4, <1>6, <1>7 DEF Pop

\* A call that returns leaves a stack of the same shape.
LEMMA PopKeepsShape ==
    ASSUME StackInv, stack # <<>>, stack' = Pop
    PROVE  /\ StackInv'
           /\ Top.side = "go" =>
                /\ stack' # <<>>
                /\ Top'.side = "cxx" /\ Top'.catalog \in GoCatalogs
<1>1. /\ stack \in Seq(Calls) /\ Pop \in Seq(Calls)
      /\ Len(stack) \in Nat \ {0} /\ Len(Pop) = Len(stack) - 1
      /\ DOMAIN Pop = 1..(Len(stack) - 1) /\ DOMAIN stack = 1..Len(stack)
  BY PopFacts DEF StackInv
<1>2. \A k \in 1..(Len(stack) - 1) : Pop[k] = stack[k]
  BY <1>1, PopFacts
<1>3. ASSUME NEW k \in DOMAIN Pop, Pop[k].side = "go"
      PROVE  k > 1 /\ Pop[k - 1].side = "cxx" /\ Pop[k - 1].catalog \in GoCatalogs
  <2>1. k \in DOMAIN stack /\ stack[k].side = "go"
    BY <1>1, <1>2, <1>3
  <2>2. k > 1 /\ stack[k - 1].side = "cxx" /\ stack[k - 1].catalog \in GoCatalogs
    BY <2>1 DEF StackInv
  <2>3. k - 1 \in 1..(Len(stack) - 1)
    BY <1>1, <2>1, <2>2
  <2>. QED
    BY <1>2, <2>2, <2>3
<1>4. ASSUME Top.side = "go"
      PROVE  /\ Pop # <<>>
             /\ Pop[Len(Pop)].side = "cxx" /\ Pop[Len(Pop)].catalog \in GoCatalogs
  <2>1. /\ Len(stack) > 1
        /\ stack[Len(stack) - 1].side = "cxx"
        /\ stack[Len(stack) - 1].catalog \in GoCatalogs
    BY <1>1, <1>4 DEF StackInv, Top
  <2>2. Len(stack) - 1 \in 1..(Len(stack) - 1) /\ Pop # <<>>
    BY <1>1, <2>1
  <2>. QED
    BY <1>1, <1>2, <2>1, <2>2
<1>. QED
  BY <1>1, <1>3, <1>4 DEF StackInv, Top

\* So does a call that begins, of a closure by its C++ catalog or of C++.
LEMMA PushKeepsShape ==
    ASSUME StackInv, NEW c \in Catalogs, NEW s \in {"cxx", "go"},
           stack' = Append(stack, Call(c, s)),
           s = "go" => stack # <<>> /\ Top.side = "cxx" /\ Top.catalog \in GoCatalogs
    PROVE  StackInv'
<1>1. Call(c, s) \in Calls /\ Call(c, s).side = s
  BY DEF Call, Calls
<1>2. /\ stack \in Seq(Calls) /\ Len(stack) \in Nat
      /\ stack' \in Seq(Calls) /\ Len(stack') = Len(stack) + 1
      /\ DOMAIN stack' = 1..(Len(stack) + 1) /\ DOMAIN stack = 1..Len(stack)
      /\ \A k \in 1..Len(stack) : stack'[k] = stack[k]
      /\ stack'[Len(stack) + 1] = Call(c, s)
  BY <1>1 DEF StackInv
<1>3. ASSUME NEW k \in DOMAIN stack', stack'[k].side = "go"
      PROVE  k > 1 /\ stack'[k - 1].side = "cxx" /\ stack'[k - 1].catalog \in GoCatalogs
  <2>1. CASE k = Len(stack) + 1
    <3>1. s = "go" /\ Len(stack) \in 1..Len(stack)
      BY <1>1, <1>2, <1>3, <2>1
    <3>. QED
      BY <1>2, <2>1, <3>1 DEF Top
  <2>2. CASE k # Len(stack) + 1
    <3>1. k \in DOMAIN stack /\ stack[k].side = "go"
      BY <1>2, <1>3, <2>2
    <3>2. k > 1 /\ stack[k - 1].side = "cxx" /\ stack[k - 1].catalog \in GoCatalogs
      BY <3>1 DEF StackInv
    <3>3. k - 1 \in 1..Len(stack)
      BY <1>2, <3>1, <3>2
    <3>. QED
      BY <1>2, <3>2, <3>3
  <2>. QED
    BY <2>1, <2>2
<1>. QED
  BY <1>2, <1>3 DEF StackInv

LEMMA ShapeStep == IInv /\ Next => StackInv' /\ AnswerInv'
<1> SUFFICES ASSUME IInv, Next PROVE StackInv' /\ AnswerInv'
  OBVIOUS
<1>0. StackInv /\ AnswerInv /\ Len(stack) \in Nat
  BY DEF IInv, StackInv
<1>1. ASSUME NEW k \in Kinds, NEW c \in Catalogs, Analyze(k, c)
      PROVE  StackInv' /\ AnswerInv'
  <2>1. stack' = Append(stack, Call(c, "cxx")) /\ answer' = NoAnswer
    BY <1>1 DEF Analyze, Push
  <2>. QED
    BY <1>0, <2>1, PushKeepsShape DEF AnswerInv
<1>2. CASE CxxAsksNested \/ GoAsks
  <2>1. PICK c \in Catalogs : stack' = Append(stack, Call(c, "cxx")) /\ answer' = NoAnswer
    BY <1>2 DEF CxxAsksNested, GoAsks, Push
  <2>. QED
    BY <1>0, <2>1, PushKeepsShape DEF AnswerInv
<1>3. CASE CallsBack
  <2>1. /\ stack # <<>> /\ Top.side = "cxx" /\ Top.catalog \in GoCatalogs
        /\ stack' = Append(stack, Call(Top.catalog, "go")) /\ answer' = NoAnswer
    BY <1>3 DEF CallsBack, Begins, Push
  <2>2. Top.catalog \in Catalogs
    BY <2>1 DEF Catalogs
  <2>. QED
    BY <1>0, <2>1, <2>2, PushKeepsShape DEF AnswerInv
<1>4. CASE CxxDecides \/ CxxNestedReturns \/ CallbackReturns \/ Unwind
  <2>1. stack # <<>> /\ stack' = Pop
    BY <1>4 DEF CxxDecides, CxxNestedReturns, CallbackReturns, Unwind, Begins, Resumes,
       ReturnWith
  <2>2. answer' \in Statuses \cup {NoAnswer, Panic}
    <3>1. CASE CxxDecides
      BY <3>1 DEF CxxDecides, ReturnWith, Statuses, Addresses
    <3>2. CASE CxxNestedReturns
      <4>1. Top.catalog \notin GoCatalogs /\ stack # <<>> /\ answer' = answer
        BY <3>2 DEF CxxNestedReturns, Resumes, ReturnWith
      <4>. QED
        BY <1>0, <4>1 DEF AnswerInv
    <3>3. CASE CallbackReturns
      <4>1. answer \in Answers /\ answer \notin {NoAnswer, Panic}
        BY <3>3 DEF IInv, Good, CallbackReturns, Resumes
      <4>2. answer.at \in Addresses \cup {Null}
        BY <4>1, Distinct DEF Answers, Statuses
      <4>. QED
        BY <3>3, <4>2 DEF CallbackReturns, ReturnWith, Statuses
    <3>4. CASE Unwind
      BY <3>4 DEF Unwind
    <3>. QED
      BY <1>4, <3>1, <3>2, <3>3, <3>4
  <2>. QED
    BY <1>0, <2>1, <2>2, PopKeepsShape DEF AnswerInv
<1>5. CASE GoDecides \/ GoGets \/ GoAskedReturns
  <2>1. stack # <<>> /\ stack' = Pop /\ Top.side = "go"
    <3>1. CASE GoDecides
      BY <3>1 DEF GoDecides, Begins, ReturnWith
    <3>2. CASE GoGets
      BY <3>2 DEF GoGets, Begins, ReturnWith
    <3>3. CASE GoAskedReturns
      BY <3>3 DEF GoAskedReturns, Resumes, ReturnWith
    <3>. QED
      BY <1>5, <3>1, <3>2, <3>3
  <2>. QED
    BY <1>0, <2>1, PopKeepsShape DEF AnswerInv
<1>6. CASE GoRetries \/ GiveUp
  <2>1. answer' = NoAnswer /\ (stack' = stack \/ stack' = <<>>)
    BY <1>6 DEF GoRetries, GiveUp
  <2>2. stack' = stack => StackInv'
    BY <1>0 DEF StackInv
  <2>3. stack' = <<>> => StackInv'
    BY DEF StackInv
  <2>. QED
    BY <2>1, <2>2, <2>3 DEF AnswerInv
<1>. QED
  BY <1>1, <1>2, <1>3, <1>4, <1>5, <1>6 DEF Next

LEMMA InvariantHolds == Spec => []IInv
<1>1. Init => IInv
  BY InitEstablishes
<1>2. IInv /\ [Next]_vars => IInv'
  <2>1. ASSUME IInv, Next PROVE IInv'
    BY <2>1, AnswerStep, ShapeStep DEF IInv
  <2>2. ASSUME IInv, UNCHANGED vars PROVE IInv'
    <3>1. kind' = kind /\ stack' = stack /\ answer' = answer /\ leaf' = leaf
      BY <2>2 DEF vars
    <3>. QED
      BY <2>2, <3>1 DEF IInv, StackInv, AnswerInv, Top
  <2>. QED
    BY <2>1, <2>2
<1>. QED
  BY <1>1, <1>2, PTL DEF Spec

\* Every answer, and every frame of the two languages' common call stack, is of
\* the sorts that the conversions of types/catalog.go can produce.
THEOREM TypeCorrect == Spec => []TypeOK
<1>1. IInv => TypeOK
  BY DEF IInv, Good, StackInv, TypeOK
<1>. QED
  BY <1>1, InvariantHolds, PTL

\* The object a catalog names reaches the analyzer through any nesting of Go and
\* C++ catalogs, for every kind.
THEOREM ObjectsComeThrough == Spec => []ObjectComesThrough
<1>1. IInv => ObjectComesThrough
  <2> SUFFICES ASSUME IInv, Answered, NEW a \in Addresses
               PROVE  answer = Found(a) <=> leaf = Found(a)
    BY DEF ObjectComesThrough
  <2>1. answer # Pointer(a)
    <3>1. Pointer(a) \notin Statuses \cup {NoAnswer, Panic}
      BY Distinct DEF Statuses
    <3>. QED
      BY <3>1 DEF IInv, AnswerInv, Answered
  <2>. QED
    BY <2>1 DEF IInv, Good
<1>. QED
  BY <1>1, InvariantHolds, PTL

\* No failure on the way is taken for "not found".
THEOREM ErrorsReported == Spec => []ErrorsAreReported
<1>1. IInv => ErrorsAreReported
  BY DEF IInv, Good, ErrorsAreReported
<1>. QED
  BY <1>1, InvariantHolds, PTL

\* A lookup panics just if the deciding catalog answered with a value that the
\* closure on top cannot convert, at any depth and through any catalogs.
THEOREM PanicsAreOfBadValues == Spec => []PanicsOnBadValues
<1>1. IInv => PanicsOnBadValues
  BY DEF IInv, Good, PanicsOnBadValues
<1>. QED
  BY <1>1, InvariantHolds, PTL
=============================================================================
