------------------------- MODULE StatementLoopProofs -------------------------
(* Proofs about StatementLoop for texts of any length and calls in any order. *)
(*                                                                           *)
(* Every call does one of two things: it gives the statement at the location *)
(* and moves past it, or it answers with an error and may move or not.  A    *)
(* loop that stops at errors has therefore been given exactly the statements *)
(* before the location, which is what LoopInv adds to the properties.        *)
EXTENDS StatementLoop, SequenceTheorems, TLAPS

LoopInv ==
  careful =>
    /\ last = None => pos = 1
    /\ last = None \/ last.err = "none" => delivered = [i \in 1 .. pos - 1 |-> i]
    /\ last # None /\ last.err = "none" /\ last.isEnd => pos = Len(input) + 1

IInv == TypeOK /\ NothingLost /\ NothingTwice /\ LoopInv

-----------------------------------------------------------------------------
USE KindsAssumption

\* A call that gives the statement at the location.
Gives(a) ==
  /\ a \in Answers /\ a.err = "none" /\ a.node = pos /\ pos \in DOMAIN input
  /\ a.isEnd = (pos = Len(input))
  /\ pos' = pos + 1

\* A call that answers with an error.
Refuses(a) ==
  /\ a \in Answers /\ a.err # "none" /\ a.node = None
  /\ pos' \in {pos, pos + 1} /\ (pos' = pos + 1 => pos \in DOMAIN input)

MayCall == IF careful THEN MayGoOn ELSE calls < MaxCalls

LEMMA InitEstablishes == Init => IInv
<1> SUFFICES ASSUME Init PROVE IInv
  OBVIOUS
<1>1. PICK n \in 0 .. MaxStatements : input \in [1 .. n -> Statements]
  BY DEF Init
<1>2. input \in Seq(Statements)
  BY <1>1
<1>3. TypeOK
  <2>1. Len(input) \in Nat /\ 1 \in 1 .. Len(input) + 1 /\ 0 \in 0 .. MaxCalls
    BY <1>2
  <2>2. uses \subseteq Calls /\ careful \in BOOLEAN
    BY DEF Init, Calls
  <2>3. delivered \in Seq(1 .. Len(input))
    BY DEF Init
  <2>. QED
    BY <1>2, <2>1, <2>2, <2>3 DEF Init, TypeOK
<1>4. NothingLost /\ NothingTwice
  BY DEF Init, NothingLost, NothingTwice
<1>5. delivered = [i \in 1 .. pos - 1 |-> i]
  BY DEF Init
<1>. QED
  BY <1>3, <1>4, <1>5 DEF Init, IInv, LoopInv

\* Whatever call it is, it gives a statement or it answers with an error.
LEMMA CallShape ==
    ASSUME TypeOK, Next
    PROVE  MayCall /\ \E a : Deliver(a) /\ (Gives(a) \/ Refuses(a))
<1>0. pos \in Int /\ pos # None
  BY DEF TypeOK
<1>1. ASSUME NEW scripting \in BOOLEAN, ParseNext(scripting)
      PROVE  MayCall /\ \E a : Deliver(a) /\ (Gives(a) \/ Refuses(a))
  <2>1. MayCall
    BY <1>1 DEF ParseNext, Calling, MayCall
  <2>2. CASE Parses(pos, scripting) /\ Wrapped(pos)
    <3>1. Deliver(Answer(pos, pos = Len(input), "none")) /\ pos' = pos + 1 /\ pos \in DOMAIN input
      BY <1>1, <2>2 DEF ParseNext, Parses
    <3>2. Gives(Answer(pos, pos = Len(input), "none"))
      BY <1>0, <3>1 DEF Gives, Answer, Answers, Errors
    <3>. QED
      BY <2>1, <3>1, <3>2
  <2>3. CASE Parses(pos, scripting) /\ ~Wrapped(pos)
    <3>1. Deliver(Answer(None, pos = Len(input), "ErrParseStatement")) /\ pos' = pos + 1 /\ pos \in DOMAIN input
      BY <1>1, <2>3 DEF ParseNext, Parses
    <3>2. Refuses(Answer(None, pos = Len(input), "ErrParseStatement"))
      BY <1>0, <3>1 DEF Refuses, Answer, Answers, Errors
    <3>. QED
      BY <2>1, <3>1, <3>2
  <2>4. CASE ~Parses(pos, scripting)
    <3>1. PICK isEnd \in BOOLEAN : Deliver(Answer(None, isEnd, "status"))
      BY <1>1, <2>4 DEF ParseNext
    <3>2. pos' = pos
      BY <1>1, <2>4 DEF ParseNext
    <3>3. Refuses(Answer(None, isEnd, "status"))
      BY <1>0, <3>2 DEF Refuses, Answer, Answers, Errors
    <3>. QED
      BY <2>1, <3>1, <3>3
  <2>. QED
    BY <2>2, <2>3, <2>4
<1>2. CASE AnalyzeNext
  <2>1. MayCall
    BY <1>2 DEF AnalyzeNext, Calling, MayCall
  <2>2. CASE Deliver(Answer(None, FALSE, "ErrRequiredCatalog")) /\ UNCHANGED pos
    <3>1. Refuses(Answer(None, FALSE, "ErrRequiredCatalog"))
      BY <1>0, <2>2 DEF Refuses, Answer, Answers, Errors
    <3>. QED
      BY <2>1, <2>2, <3>1
  <2>3. CASE Parses(pos, FALSE) /\ pos' = pos + 1 /\ Deliver(Answer(pos, pos = Len(input), "none"))
    <3>1. Gives(Answer(pos, pos = Len(input), "none"))
      BY <1>0, <2>3 DEF Gives, Answer, Answers, Errors, Parses
    <3>. QED
      BY <2>1, <2>3, <3>1
  <2>4. CASE /\ pos' \in IF Parses(pos, FALSE) THEN {pos, pos + 1} ELSE {pos}
             /\ Deliver(Answer(None, FALSE, "status"))
    <3>1. Refuses(Answer(None, FALSE, "status"))
      BY <1>0, <2>4 DEF Refuses, Answer, Answers, Errors, Parses
    <3>. QED
      BY <2>1, <2>4, <3>1
  <2>. QED
    BY <1>2, <2>2, <2>3, <2>4 DEF AnalyzeNext
<1>. QED
  BY <1>1, <1>2 DEF Next

LEMMA GivesPreserves ==
    ASSUME IInv, MayCall, NEW a, Deliver(a), Gives(a)
    PROVE  IInv'
<1> USE DEF Deliver, Gives
<1>1. /\ input' = input /\ careful' = careful /\ uses' = uses /\ last' = a /\ a # None
      /\ reported' = reported /\ delivered' = Append(delivered, pos)
      /\ pos \in 1 .. Len(input) /\ pos' = pos + 1 /\ Len(input) \in Nat
      /\ delivered \in Seq(1 .. Len(input))
  BY DEF IInv, TypeOK, Answers
<1>2. TypeOK'
  <2>1. calls' \in 0 .. MaxCalls
    BY DEF IInv, TypeOK, MayCall
  <2>2. delivered' \in Seq(1 .. Len(input))
    <3>1. Append(delivered, pos) \in Seq(1 .. Len(input))
      BY <1>1, AppendProperties, Zenon
    <3>. QED
      BY <3>1, <1>1
  <2>3. a.node # None
    BY <1>1
  <2>. QED
    BY <1>1, <2>1, <2>2, <2>3 DEF IInv, TypeOK
<1>3. /\ Len(delivered') = Len(delivered) + 1 /\ Len(delivered) \in Nat
      /\ DOMAIN delivered' = 1 .. Len(delivered) + 1 /\ DOMAIN delivered = 1 .. Len(delivered)
      /\ \A j \in DOMAIN delivered : delivered'[j] = delivered[j]
      /\ delivered'[Len(delivered) + 1] = pos
  BY <1>1
<1>4. NothingLost'
  <2> SUFFICES ASSUME NEW i \in 1 .. pos, i \notin reported
               PROVE  \E j \in DOMAIN delivered' : delivered'[j] = i
    BY <1>1 DEF NothingLost
  <2>1. CASE i = pos
    BY <2>1, <1>3
  <2>2. CASE i # pos
    <3>1. i \in 1 .. pos - 1
      BY <2>2, <1>1
    <3>2. PICK j \in DOMAIN delivered : delivered[j] = i
      BY <3>1 DEF IInv, NothingLost
    <3>. QED
      BY <3>2, <1>3
  <2>. QED
    BY <2>1, <2>2
<1>5. NothingTwice'
  <2>1. \A i \in DOMAIN delivered : delivered[i] \in Int /\ delivered[i] < pos
    BY <1>1 DEF IInv, NothingTwice
  <2> SUFFICES ASSUME NEW i \in DOMAIN delivered', NEW j \in DOMAIN delivered'
               PROVE  /\ delivered'[i] < pos'
                      /\ i < j => delivered'[i] < delivered'[j]
    BY DEF NothingTwice
  <2>2. delivered'[i] < pos'
    BY <2>1, <1>1, <1>3
  <2>3. ASSUME i < j PROVE delivered'[i] < delivered'[j]
    <3>1. i \in DOMAIN delivered /\ delivered'[i] = delivered[i]
      BY <2>3, <1>3
    <3>2. CASE j = Len(delivered) + 1
      BY <3>1, <3>2, <2>1, <1>3
    <3>3. CASE j \in DOMAIN delivered
      BY <3>1, <3>3, <2>3, <1>3 DEF IInv, NothingTwice
    <3>. QED
      BY <3>2, <3>3, <1>3
  <2>. QED
    BY <2>2, <2>3
<1>6. LoopInv'
  <2> SUFFICES ASSUME careful
               PROVE  /\ delivered' = [i \in 1 .. pos |-> i]
                      /\ a.isEnd => pos + 1 = Len(input) + 1
    BY <1>1 DEF LoopInv
  <2>1. delivered = [i \in 1 .. pos - 1 |-> i]
    BY DEF MayCall, MayGoOn, IInv, LoopInv
  <2>2. Len(delivered) = pos - 1
    BY <2>1, <1>1, <1>3
  <2>3. DOMAIN delivered' = 1 .. pos /\ \A j \in 1 .. pos : delivered'[j] = j
    BY <2>1, <2>2, <1>1, <1>3
  <2>4. delivered' = [j \in DOMAIN delivered' |-> delivered'[j]]
    BY <1>1
  <2>. QED
    BY <2>3, <2>4, <1>1
<1>. QED
  BY <1>2, <1>4, <1>5, <1>6 DEF IInv

LEMMA BeforeFacts ==
    ASSUME NEW p \in Nat, NEW q \in {p, p + 1}, NEW i \in 1 .. q - 1, i # p
    PROVE  i \in 1 .. p - 1
  OBVIOUS

LEMMA RefusesPreserves ==
    ASSUME IInv, MayCall, NEW a, Deliver(a), Refuses(a)
    PROVE  IInv'
<1>1. /\ input' = input /\ careful' = careful /\ uses' = uses /\ last' = a /\ a # None
      /\ reported' = reported \cup {pos} /\ delivered' = delivered
      /\ pos \in 1 .. Len(input) + 1 /\ Len(input) \in Nat
      /\ pos' \in {pos, pos + 1} /\ pos' \in 1 .. Len(input) + 1
  BY DEF IInv, TypeOK, Answers, Deliver, Refuses
<1>2. TypeOK'
  <2>1. calls' \in 0 .. MaxCalls
    BY DEF IInv, TypeOK, MayCall, Deliver
  <2>. QED
    BY <1>1, <2>1 DEF IInv, TypeOK, Refuses
<1>3. NothingLost'
  <2> SUFFICES ASSUME NEW i \in 1 .. pos' - 1, i \notin reported'
               PROVE  \E j \in DOMAIN delivered : delivered[j] = i
    BY <1>1 DEF NothingLost
  <2>1. i \notin reported /\ i # pos
    BY <1>1
  <2>2. i \in 1 .. pos - 1
    <3>1. pos \in Nat
      BY <1>1
    <3>2. pos' \in {pos, pos + 1}
      BY <1>1
    <3>3. i # pos
      BY <2>1
    <3>. QED
      BY <3>1, <3>2, <3>3, BeforeFacts
  <2>. QED
    BY <2>1, <2>2 DEF IInv, NothingLost
<1>4. NothingTwice'
  <2>1. \A i \in DOMAIN delivered : delivered[i] \in Int
    BY DEF IInv, TypeOK
  <2>. QED
    BY <2>1, <1>1 DEF IInv, NothingTwice
<1>5. LoopInv'
  BY <1>1 DEF LoopInv, Refuses
<1>. QED
  BY <1>2, <1>3, <1>4, <1>5 DEF IInv

LEMMA NextPreserves == IInv /\ [Next]_vars => IInv'
<1>1. ASSUME IInv, Next PROVE IInv'
  BY <1>1, CallShape, GivesPreserves, RefusesPreserves DEF IInv
<1>2. ASSUME IInv, UNCHANGED vars PROVE IInv'
  BY <1>2 DEF vars, IInv, TypeOK, NothingLost, NothingTwice, LoopInv
<1>. QED
  BY <1>1, <1>2

\* The strengthened invariant holds in every reachable state.
THEOREM InvariantHolds == Spec => []IInv
  BY InitEstablishes, NextPreserves, PTL DEF Spec

-----------------------------------------------------------------------------
\* The location stays within the text, and an answer has a node or an error.
THEOREM TypeCorrect == Spec => []TypeOK
<1>1. IInv => TypeOK
  BY DEF IInv
<1>. QED
  BY <1>1, InvariantHolds, PTL

\* No statement the location has passed is lost.
THEOREM NoneLost == Spec => []NothingLost
<1>1. IInv => NothingLost
  BY DEF IInv
<1>. QED
  BY <1>1, InvariantHolds, PTL

\* No statement is given twice or out of order.
THEOREM NoneTwice == Spec => []NothingTwice
<1>1. IInv => NothingTwice
  BY DEF IInv
<1>. QED
  BY <1>1, InvariantHolds, PTL

\* A loop that stops without an error has been given the whole text.
THEOREM StopsAfterAll == Spec => []StopMeansAll
<1>1. IInv => StopMeansAll
  <2> SUFFICES ASSUME IInv, careful, ~MayGoOn, last.err = "none"
               PROVE  delivered = [i \in 1 .. Len(input) |-> i]
    BY DEF StopMeansAll
  <2>1. last # None /\ last.isEnd
    BY DEF MayGoOn, IInv, TypeOK
  <2>2. pos = Len(input) + 1 /\ delivered = [i \in 1 .. pos - 1 |-> i] /\ Len(input) \in Nat
    BY <2>1 DEF IInv, LoopInv, TypeOK
  <2>3. pos - 1 = Len(input)
    BY <2>2
  <2>. QED
    BY <2>2, <2>3
<1>. QED
  BY <1>1, InvariantHolds, PTL

\* Each call of a loop that looks at the error ends it or moves past a statement, so
\* that a text of n statements takes it at most n + 1 calls (pos is at most n + 1).
CallsMoveOn == [][careful => ~MayGoOn' \/ pos' = pos + 1]_vars

THEOREM CarefulLoopAdvances == Spec => CallsMoveOn
<1>1. ASSUME IInv, Next PROVE ~MayGoOn' \/ pos' = pos + 1
  <2>1. TypeOK
    BY <1>1 DEF IInv
  <2>2. PICK a : Deliver(a) /\ (Gives(a) \/ Refuses(a))
    BY <1>1, <2>1, CallShape
  <2>3. CASE Gives(a)
    BY <2>3 DEF Gives
  <2>4. CASE Refuses(a)
    <3>1. last' = a /\ a.err # "none" /\ a \in Answers
      BY <2>2, <2>4 DEF Deliver, Refuses
    <3>2. last' # None
      BY <3>1, KindsAssumption
    <3>. QED
      BY <3>1, <3>2 DEF MayGoOn
  <2>. QED
    BY <2>2, <2>3, <2>4
<1>2. ASSUME IInv, [Next]_vars PROVE [careful => ~MayGoOn' \/ pos' = pos + 1]_vars
  BY <1>1, <1>2
<1>. QED
  BY <1>2, InvariantHolds, PTL DEF Spec, CallsMoveOn
=============================================================================
