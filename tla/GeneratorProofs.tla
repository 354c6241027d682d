--------------------------- MODULE GeneratorProofs ---------------------------
(* Proofs about DependencyResolver and Generator for any libraries, graphs,  *)
(* dependency lists and YAML files.                                          *)
(*                                                                           *)
(* The resolver marks a library only when its call returns, so the marks are *)
(* closed because each frame of the stack has handled the dependencies       *)
(* before its index, but for the one whose call is above it.  Both halves of *)
(* ResultIsReachable come from closed sets, with no induction over paths:    *)
(* the marks are one, and every other one with the root in it holds them.    *)
(*                                                                           *)
(* The generator takes the steps of its resolver and otherwise leaves it     *)
(* alone, so that what is proved of DependencyResolver holds of it.  What    *)
(* the files promise each other rests on what each library's files say once  *)
(* they are written, which later steps write over with the same again.       *)
EXTENDS Generator, SequenceTheorems, TLAPS

\* A frame waits for the call above it, which is for its last dependency.
ChainInv ==
    \A k \in 1..(Len(stack) - 1) :
        /\ stack[k].i >= 2
        /\ deps[stack[k].lib][stack[k].i - 1] = stack[k + 1].lib

\* The dependencies a frame has passed are marked or unknown, but for the one
\* it waits for.
HandledInv ==
    \A k \in DOMAIN stack : \A j \in 1..(stack[k].i - 1) :
        \/ deps[stack[k].lib][j] \notin libMap \ pkgMap
        \/ k < Len(stack) /\ j = stack[k].i - 1

\* A search stays inside every closed set that it started in.
InsideInv ==
    \A S \in SUBSET libMap :
        current \in S /\ IsClosed(S) =>
            /\ pkgMap \subseteq S
            /\ \A k \in DOMAIN stack : stack[k].lib \in S

\* The search starts with the library it is for, and ends when that is marked.
RootInv ==
    /\ current = NoLib => stack = <<>>
    /\ current # NoLib /\ stack = <<>> => current \in pkgMap
    /\ stack # <<>> => stack[1].lib = current

IInv ==
    /\ TypeOK /\ Acyclic
    /\ ChainInv /\ HandledInv /\ InsideInv /\ RootInv
    /\ MarksAreClosed /\ ResultIsReachable

USE ResolverAssumption

LEMMA InitEstablishes == Init => IInv
<1> SUFFICES ASSUME Init PROVE IInv
  OBVIOUS
<1>1. TypeOK
  BY DEF Init, TypeOK, Frames
<1>. QED
  BY <1>1 DEF Init, IInv, ChainInv, HandledInv, InsideInv, RootInv, MarksAreClosed,
     ResultIsReachable

\* What the top of the stack and its dependency are.
LEMMA TopFacts ==
    ASSUME TypeOK, stack # <<>>
    PROVE  /\ Len(stack) \in Nat \ {0}
           /\ Top \in Frames /\ Top.lib \in libMap /\ Top.i \in Nat \ {0}
           /\ Top.i <= Len(deps[Top.lib]) + 1
           /\ deps[Top.lib] \in Seq(Libs)
           /\ HasDep => Top.i \in DOMAIN deps[Top.lib] /\ Dep \in Libs
<1>1. Len(stack) \in Nat \ {0}
  BY DEF TypeOK
<1>2. Top \in Frames /\ Top.i <= Len(deps[Top.lib]) + 1
  BY <1>1 DEF TypeOK, Top
<1>3. Top.lib \in libMap /\ Top.i \in Nat \ {0}
  BY <1>2 DEF Frames
<1>4. deps[Top.lib] \in Seq(Libs)
  BY <1>3 DEF TypeOK
<1>. QED
  BY <1>1, <1>2, <1>3, <1>4 DEF HasDep, Dep

\* The stack after one more dependency of the top is passed.
LEMMA AdvancedFacts ==
    ASSUME TypeOK, HasDep
    PROVE  /\ Advanced \in Seq(Frames) /\ Len(Advanced) = Len(stack)
           /\ \A k \in 1..(Len(stack) - 1) : Advanced[k] = stack[k]
           /\ Advanced[Len(stack)].lib = Top.lib
           /\ Advanced[Len(stack)].i = Top.i + 1
           /\ \A k \in DOMAIN stack : Advanced[k].i <= Len(deps[Advanced[k].lib]) + 1
<1>1. stack # <<>> /\ Top.i <= Len(deps[Top.lib])
  BY DEF HasDep
<1>2. /\ Len(stack) \in Nat \ {0} /\ Top \in Frames /\ Top.i \in Nat \ {0}
      /\ deps[Top.lib] \in Seq(Libs)
  BY <1>1, TopFacts
<1>3. /\ [Top EXCEPT !.i = Top.i + 1] \in Frames
      /\ [Top EXCEPT !.i = Top.i + 1].lib = Top.lib
      /\ [Top EXCEPT !.i = Top.i + 1].i = Top.i + 1
  BY <1>2 DEF Frames
<1>4. Advanced = [stack EXCEPT ![Len(stack)] = [Top EXCEPT !.i = Top.i + 1]]
  BY DEF Advanced, Top
<1>5. /\ Advanced \in Seq(Frames) /\ Len(Advanced) = Len(stack)
      /\ \A k \in 1..(Len(stack) - 1) : Advanced[k] = stack[k]
      /\ Advanced[Len(stack)] = [Top EXCEPT !.i = Top.i + 1]
  BY <1>2, <1>3, <1>4 DEF TypeOK
<1>6. ASSUME NEW k \in DOMAIN stack
      PROVE  Advanced[k].i <= Len(deps[Advanced[k].lib]) + 1
  <2>1. /\ DOMAIN stack = 1..Len(stack)
        /\ stack[k].i <= Len(deps[stack[k].lib]) + 1
    BY DEF TypeOK
  <2>2. CASE k = Len(stack)
    <3>1. Advanced[k].lib = Top.lib /\ Advanced[k].i = Top.i + 1
      BY <1>3, <1>5, <2>2
    <3>2. Len(deps[Top.lib]) \in Nat
      BY <1>2
    <3>. QED
      BY <1>1, <1>2, <3>1, <3>2
  <2>3. CASE k # Len(stack)
    <3>1. Advanced[k] = stack[k]
      BY <1>2, <1>5, <2>1, <2>3
    <3>. QED
      BY <2>1, <3>1
  <2>. QED
    BY <2>2, <2>3
<1>. QED
  BY <1>3, <1>5, <1>6

LEMMA AdvancedLibs ==
    ASSUME TypeOK, HasDep, NEW k \in 1..Len(stack)
    PROVE  Advanced[k].lib = stack[k].lib
<1>1. Len(stack) \in Nat
  BY DEF TypeOK
<1>2. CASE k = Len(stack)
  BY <1>2, AdvancedFacts DEF Top
<1>3. CASE k # Len(stack)
  <2>1. k \in 1..(Len(stack) - 1)
    BY <1>1, <1>3
  <2>. QED
    BY <2>1, AdvancedFacts
<1>. QED
  BY <1>2, <1>3

LEMMA PushFacts ==
    ASSUME TypeOK, ResolveDep
    PROVE  /\ HasDep /\ Dep \in libMap \ pkgMap
           /\ stack' \in Seq(Frames) /\ Len(stack') = Len(stack) + 1
           /\ \A k \in 1..Len(stack) : stack'[k] = Advanced[k]
           /\ stack'[Len(stack) + 1].lib = Dep /\ stack'[Len(stack) + 1].i = 1
<1>1. HasDep /\ Dep \in libMap \ pkgMap
  BY DEF ResolveDep
<1>2. Frame(Dep) \in Frames /\ Frame(Dep).lib = Dep /\ Frame(Dep).i = 1
  BY <1>1 DEF Frame, Frames
<1>3. Advanced \in Seq(Frames) /\ Len(Advanced) = Len(stack)
  BY <1>1, AdvancedFacts
<1>4. stack' = Append(Advanced, Frame(Dep))
  BY DEF ResolveDep
<1>. QED
  BY <1>1, <1>2, <1>3, <1>4

LEMMA PopFacts ==
    ASSUME TypeOK, stack # <<>>
    PROVE  /\ Pop \in Seq(Frames) /\ Len(Pop) = Len(stack) - 1
           /\ \A k \in 1..(Len(stack) - 1) : Pop[k] = stack[k]
<1>1. Len(stack) \in Nat \ {0} /\ \A k \in 1..(Len(stack) - 1) : stack[k] \in Frames
  BY DEF TypeOK
<1>2. PICK n \in Nat : n = Len(stack) - 1
  BY <1>1
<1>3. 1 \in Int /\ n \in Int /\ \A k \in 1..n : stack[k] \in Frames
  BY <1>1, <1>2
<1>4. /\ SubSeq(stack, 1, n) \in Seq(Frames)
      /\ Len(SubSeq(stack, 1, n)) = IF 1 <= n THEN n - 1 + 1 ELSE 0
      /\ \A k \in 1..(n - 1 + 1) : SubSeq(stack, 1, n)[k] = stack[1 + k - 1]
  BY <1>3, SubSeqProperties
<1>5. n - 1 + 1 = n /\ \A k \in 1..n : 1 + k - 1 = k
  BY <1>2
<1>6. Len(SubSeq(stack, 1, n)) = n
  BY <1>2, <1>4
<1>7. \A k \in 1..n : SubSeq(stack, 1, n)[k] = stack[k]
  BY <1>4, <1>5
<1>. QED
  BY <1>2, <1>4, <1>6, <1>7 DEF Pop

LEMMA TypeStep == IInv /\ Next => TypeOK'
<1> SUFFICES ASSUME IInv, Next PROVE TypeOK'
  OBVIOUS
<1>0. TypeOK
  BY DEF IInv
<1>1. ASSUME NEW l \in Libs, Search(l) PROVE TypeOK'
  <2>1. Frame(l) \in Frames /\ Frame(l).lib = l /\ Frame(l).i = 1
    BY <1>0, <1>1 DEF Search, TypeOK, Frame, Frames
  <2>2. deps[l] \in Seq(Libs)
    BY <1>0 DEF TypeOK
  <2>3. stack' = <<Frame(l)>> /\ deps' = deps
    BY <1>1 DEF Search, graph
  <2>4. /\ stack' \in Seq(Frames)
        /\ \A k \in DOMAIN stack' : stack'[k].i <= Len(deps'[stack'[k].lib]) + 1
    BY <2>1, <2>2, <2>3
  <2>. QED
    BY <1>0, <1>1, <2>4 DEF Search, TypeOK, graph, Frames
<1>2. CASE SkipDep
  <2>1. HasDep /\ stack' = Advanced /\ deps' = deps /\ libMap' = libMap
    BY <1>2 DEF SkipDep, graph
  <2>2. stack' \in Seq(Frames) /\ DOMAIN stack' = DOMAIN stack
    BY <1>0, <2>1, AdvancedFacts DEF TypeOK
  <2>3. \A k \in DOMAIN stack' : stack'[k].i <= Len(deps'[stack'[k].lib]) + 1
    BY <1>0, <2>1, <2>2, AdvancedFacts
  <2>. QED
    BY <1>0, <1>2, <2>2, <2>3 DEF SkipDep, TypeOK, graph, Frames
<1>3. CASE ResolveDep
  <2>1. deps[Dep] \in Seq(Libs)
    BY <1>0, <1>3, PushFacts DEF TypeOK
  <2>2. ASSUME NEW k \in DOMAIN stack'
        PROVE  stack'[k].i <= Len(deps[stack'[k].lib]) + 1
    <3>1. CASE k = Len(stack) + 1
      BY <1>0, <1>3, <2>1, <3>1, PushFacts
    <3>2. CASE k # Len(stack) + 1
      <4>1. k \in DOMAIN stack /\ k \in 1..Len(stack)
        BY <1>0, <1>3, <2>2, <3>2, PushFacts DEF TypeOK
      <4>. QED
        BY <1>0, <1>3, <4>1, PushFacts, AdvancedFacts
    <3>. QED
      BY <3>1, <3>2
  <2>. QED
    BY <1>0, <1>3, <2>2, PushFacts DEF ResolveDep, TypeOK, graph, Frames
<1>4. CASE Mark
  <2>1. stack # <<>> /\ Top.lib \in libMap
    BY <1>0, <1>4, TopFacts DEF Mark
  <2>2. ASSUME NEW k \in DOMAIN stack'
        PROVE  stack'[k].i <= Len(deps[stack'[k].lib]) + 1
    <3>1. stack' = Pop
      BY <1>4 DEF Mark
    <3>2. Pop \in Seq(Frames) /\ Len(Pop) = Len(stack) - 1 /\ Len(stack) \in Nat
      BY <1>0, <2>1, PopFacts DEF TypeOK
    <3>3. k \in 1..(Len(stack) - 1) /\ k \in DOMAIN stack
      BY <1>0, <2>2, <3>1, <3>2 DEF TypeOK
    <3>4. Pop[k] = stack[k]
      BY <1>0, <2>1, <3>3, PopFacts
    <3>. QED
      BY <1>0, <3>1, <3>3, <3>4 DEF TypeOK
  <2>. QED
    BY <1>0, <1>4, <2>1, <2>2, PopFacts DEF Mark, TypeOK, graph, Frames
<1>5. CASE Record
  BY <1>0, <1>5 DEF Record, TypeOK, graph, Frames
<1>6. CASE Done
  BY <1>0, <1>6 DEF Done, TypeOK, vars, Frames
<1>. QED
  BY <1>1, <1>2, <1>3, <1>4, <1>5, <1>6 DEF Next

LEMMA ChainStep == IInv /\ Next => ChainInv'
<1> SUFFICES ASSUME IInv, Next PROVE ChainInv'
  OBVIOUS
<1>0. TypeOK /\ ChainInv
  BY DEF IInv
<1>1. CASE \E l \in Libs : Search(l)
  BY <1>1 DEF Search, ChainInv
<1>2. CASE SkipDep
  <2>1. HasDep /\ stack # <<>> /\ stack' = Advanced /\ deps' = deps
    BY <1>2 DEF SkipDep, graph, HasDep
  <2>2. Len(stack) \in Nat \ {0} /\ Len(stack') = Len(stack)
    BY <1>0, <2>1, TopFacts, AdvancedFacts
  <2>3. ASSUME NEW k \in 1..(Len(stack) - 1)
        PROVE  stack'[k] = stack[k] /\ stack'[k + 1].lib = stack[k + 1].lib
    <3>1. Advanced[k] = stack[k]
      BY <1>0, <2>1, AdvancedFacts
    <3>2. CASE k + 1 = Len(stack)
      BY <1>0, <2>1, <3>1, <3>2, AdvancedFacts DEF Top
    <3>3. CASE k + 1 # Len(stack)
      <4>1. k + 1 \in 1..(Len(stack) - 1)
        BY <2>2, <3>3
      <4>. QED
        BY <1>0, <2>1, <3>1, <4>1, AdvancedFacts
    <3>. QED
      BY <3>2, <3>3
  <2>. QED
    BY <1>0, <2>1, <2>2, <2>3 DEF ChainInv
<1>3. CASE ResolveDep
  <2> SUFFICES ASSUME NEW k \in 1..Len(stack)
               PROVE  stack'[k].i >= 2 /\ deps[stack'[k].lib][stack'[k].i - 1] = stack'[k + 1].lib
    BY <1>0, <1>3, PushFacts DEF ChainInv, ResolveDep, graph, TypeOK
  <2>1. stack'[k] = Advanced[k] /\ HasDep /\ Len(stack) \in Nat \ {0} /\ Top.i \in Nat \ {0}
    BY <1>0, <1>3, PushFacts, TopFacts DEF HasDep
  <2>2. CASE k = Len(stack)
    BY <1>0, <1>3, <2>1, <2>2, PushFacts, AdvancedFacts DEF Dep
  <2>3. CASE k # Len(stack)
    <3>1. k \in 1..(Len(stack) - 1) /\ k + 1 \in 1..Len(stack)
      BY <2>1, <2>3
    <3>2. stack'[k] = stack[k] /\ stack'[k + 1] = Advanced[k + 1]
      BY <1>0, <1>3, <2>1, <3>1, PushFacts, AdvancedFacts
    <3>3. Advanced[k + 1].lib = stack[k + 1].lib
      BY <1>0, <2>1, <3>1, AdvancedFacts DEF Top
    <3>. QED
      BY <1>0, <3>1, <3>2, <3>3 DEF ChainInv
  <2>. QED
    BY <2>2, <2>3
<1>4. CASE Mark
  <2>1. stack # <<>> /\ stack' = Pop /\ deps' = deps
    BY <1>4 DEF Mark, graph
  <2>2. Len(stack) \in Nat \ {0} /\ Len(stack') = Len(stack) - 1
    BY <1>0, <2>1, TopFacts, PopFacts
  <2>3. ASSUME NEW k \in 1..(Len(stack) - 2)
        PROVE  stack'[k] = stack[k] /\ stack'[k + 1] = stack[k + 1]
    <3>1. k \in 1..(Len(stack) - 1) /\ k + 1 \in 1..(Len(stack) - 1)
      BY <2>2
    <3>. QED
      BY <1>0, <2>1, <3>1, PopFacts
  <2>4. 1..(Len(stack') - 1) = 1..(Len(stack) - 2) /\ 1..(Len(stack) - 2) \subseteq 1..(Len(stack) - 1)
    BY <2>2
  <2>. QED
    BY <1>0, <2>1, <2>3, <2>4 DEF ChainInv
<1>5. CASE Record \/ Done
  BY <1>0, <1>5 DEF Record, Done, ChainInv, graph, vars
<1>. QED
  BY <1>1, <1>2, <1>3, <1>4, <1>5 DEF Next

\* No step changes what a search is about.
LEMMA GraphStays ==
    ASSUME [Next]_vars
    PROVE  /\ libMap' = libMap /\ deps' = deps /\ linked' = linked
           /\ Acyclic' = Acyclic
           /\ \A l : Needs(l)' = Needs(l)
           /\ \A S : IsClosed(S)' = IsClosed(S)
           /\ \A l : Reachable(l)' = Reachable(l)
<1>1. libMap' = libMap /\ deps' = deps /\ linked' = linked
  BY DEF Next, Search, SkipDep, ResolveDep, Mark, Record, Done, graph, vars
<1>2. \A l : Needs(l)' = Needs(l)
  BY <1>1 DEF Needs
<1>3. \A S : IsClosed(S)' = IsClosed(S)
  BY <1>2 DEF IsClosed
<1>. QED
  BY <1>1, <1>2, <1>3 DEF Acyclic, Reachable

LEMMA HandledStep == IInv /\ Next => HandledInv'
<1> SUFFICES ASSUME IInv, Next PROVE HandledInv'
  OBVIOUS
<1>0. /\ TypeOK /\ ChainInv /\ HandledInv
      /\ libMap' = libMap /\ deps' = deps
  BY GraphStays DEF IInv
<1> DEFINE Handled(k, j) ==
             \/ deps[stack[k].lib][j] \notin libMap \ pkgMap
             \/ k < Len(stack) /\ j = stack[k].i - 1
<1>00. \A k \in DOMAIN stack : \A j \in 1..(stack[k].i - 1) : Handled(k, j)
  BY <1>0 DEF HandledInv
<1>1. CASE \E l \in Libs : Search(l)
  BY <1>1 DEF Search, HandledInv, Frame
<1>2. CASE SkipDep
  <2>1. HasDep /\ stack # <<>> /\ stack' = Advanced /\ pkgMap' = pkgMap
    BY <1>2 DEF SkipDep, HasDep
  <2>2. Len(stack) \in Nat \ {0} /\ Len(stack') = Len(stack) /\ DOMAIN stack' = 1..Len(stack)
    BY <1>0, <2>1, TopFacts, AdvancedFacts
  <2> SUFFICES ASSUME NEW k \in 1..Len(stack), NEW j \in 1..(stack'[k].i - 1)
               PROVE  Handled(k, j)'
    BY <1>0, <2>2 DEF HandledInv
  <2>3. CASE k = Len(stack)
    <3>1. stack'[k].i = Top.i + 1 /\ stack'[k].lib = Top.lib /\ Top.i \in Nat \ {0}
      BY <1>0, <2>1, <2>3, AdvancedFacts, TopFacts
    <3>2. CASE j = Top.i
      BY <1>0, <1>2, <2>1, <3>1, <3>2 DEF SkipDep, Dep
    <3>3. CASE j # Top.i
      <4>1. k \in DOMAIN stack /\ j \in 1..(stack[k].i - 1) /\ stack[k].lib = Top.lib
        BY <1>0, <2>2, <2>3, <3>1, <3>3 DEF Top
      <4>2. Handled(k, j)
        BY <1>00, <4>1
      <4>. QED
        BY <1>0, <2>1, <2>2, <2>3, <3>1, <4>1, <4>2
    <3>. QED
      BY <3>2, <3>3
  <2>4. CASE k # Len(stack)
    <3>0. k \in DOMAIN stack
      BY <1>0 DEF TypeOK
    <3>1. k \in 1..(Len(stack) - 1) /\ k \in DOMAIN stack
      BY <2>2, <2>4, <3>0
    <3>2. stack'[k] = stack[k]
      BY <1>0, <2>1, <3>1, AdvancedFacts
    <3>3. Handled(k, j)
      BY <1>00, <3>1, <3>2
    <3>. QED
      BY <1>0, <2>1, <2>2, <3>2, <3>3
  <2>. QED
    BY <2>3, <2>4
<1>3. CASE ResolveDep
  <2>1. /\ HasDep /\ stack # <<>> /\ pkgMap' = pkgMap
        /\ Len(stack') = Len(stack) + 1 /\ stack' \in Seq(Frames)
        /\ \A k \in 1..Len(stack) : stack'[k] = Advanced[k]
        /\ stack'[Len(stack) + 1].i = 1
    BY <1>0, <1>3, PushFacts DEF ResolveDep, HasDep
  <2>2. Len(stack) \in Nat \ {0} /\ DOMAIN stack' = 1..(Len(stack) + 1)
    BY <1>0, <2>1, TopFacts
  <2> SUFFICES ASSUME NEW k \in 1..(Len(stack) + 1), NEW j \in 1..(stack'[k].i - 1)
               PROVE  Handled(k, j)'
    BY <1>0, <2>2 DEF HandledInv
  <2>3. CASE k = Len(stack)
    <3>1. stack'[k].i = Top.i + 1 /\ stack'[k].lib = Top.lib /\ Top.i \in Nat \ {0}
      BY <1>0, <2>1, <2>3, AdvancedFacts, TopFacts
    <3>2. CASE j = Top.i
      BY <2>1, <2>2, <2>3, <3>1, <3>2
    <3>3. CASE j # Top.i
      <4>1. k \in DOMAIN stack /\ j \in 1..(stack[k].i - 1) /\ stack[k].lib = Top.lib
        BY <1>0, <2>2, <2>3, <3>1, <3>3 DEF Top
      <4>2. Handled(k, j)
        BY <1>00, <4>1
      <4>. QED
        BY <1>0, <2>1, <2>2, <2>3, <3>1, <4>1, <4>2
    <3>. QED
      BY <3>2, <3>3
  <2>4. CASE k = Len(stack) + 1
    BY <2>1, <2>4
  <2>5. CASE k \notin {Len(stack), Len(stack) + 1}
    <3>1. k \in 1..(Len(stack) - 1) /\ k \in DOMAIN stack /\ k \in 1..Len(stack)
      BY <2>2, <2>5
    <3>2. stack'[k] = stack[k]
      BY <1>0, <2>1, <3>1, AdvancedFacts
    <3>3. Handled(k, j)
      BY <1>00, <3>1, <3>2
    <3>. QED
      BY <1>0, <2>1, <2>2, <3>2, <3>3
  <2>. QED
    BY <2>3, <2>4, <2>5
<1>4. CASE Mark
  <2>1. /\ stack # <<>> /\ stack' = Pop /\ pkgMap' = pkgMap \cup {Top.lib}
    BY <1>4 DEF Mark
  <2>2. /\ Len(stack) \in Nat \ {0} /\ Len(stack') = Len(stack) - 1
        /\ DOMAIN stack' = 1..(Len(stack) - 1)
    BY <1>0, <2>1, TopFacts, PopFacts
  <2> SUFFICES ASSUME NEW k \in 1..(Len(stack) - 1), NEW j \in 1..(stack'[k].i - 1)
               PROVE  Handled(k, j)'
    BY <1>0, <2>2 DEF HandledInv
  <2>3. stack'[k] = stack[k] /\ k \in DOMAIN stack
    BY <1>0, <2>1, <2>2, PopFacts
  <2>4. Handled(k, j)
    BY <1>00, <2>3
  <2>5. CASE deps[stack[k].lib][j] \notin libMap \ pkgMap
    BY <1>0, <2>1, <2>3, <2>5
  <2>6. CASE j = stack[k].i - 1 /\ k + 1 = Len(stack)
    <3>1. deps[stack[k].lib][j] = Top.lib
      BY <1>0, <2>6 DEF ChainInv, Top
    <3>. QED
      BY <1>0, <2>1, <2>3, <3>1
  <2>7. CASE j = stack[k].i - 1 /\ k + 1 # Len(stack)
    <3>1. k < Len(stack')
      BY <2>2, <2>7
    <3>. QED
      BY <2>3, <2>7, <3>1
  <2>. QED
    BY <2>4, <2>5, <2>6, <2>7
<1>5. CASE Record \/ Done
  BY <1>0, <1>5 DEF Record, Done, HandledInv, vars
<1>. QED
  BY <1>1, <1>2, <1>3, <1>4, <1>5 DEF Next

LEMMA InsideStep == IInv /\ Next => InsideInv'
<1> SUFFICES ASSUME IInv, Next,
                    NEW S \in SUBSET libMap, current' \in S, IsClosed(S)
             PROVE  /\ pkgMap' \subseteq S
                    /\ \A k \in DOMAIN stack' : stack'[k].lib \in S
  BY GraphStays DEF InsideInv
<1>0. TypeOK /\ (current \in S => /\ pkgMap \subseteq S
                                 /\ \A k \in 1..Len(stack) : stack[k].lib \in S)
  BY DEF IInv, InsideInv, TypeOK
<1>1. CASE \E l \in Libs : Search(l)
  BY <1>1 DEF Search, Frame
<1>2. CASE SkipDep
  <2>1. /\ HasDep /\ stack' = Advanced /\ pkgMap' = pkgMap /\ current' = current
        /\ Advanced \in Seq(Frames) /\ Len(Advanced) = Len(stack)
    BY <1>0, <1>2, AdvancedFacts DEF SkipDep
  <2>. QED
    BY <1>0, <2>1, AdvancedLibs
<1>3. CASE ResolveDep
  <2>1. /\ HasDep /\ pkgMap' = pkgMap /\ current' = current /\ stack # <<>>
        /\ stack' \in Seq(Frames) /\ Len(stack') = Len(stack) + 1
        /\ stack'[Len(stack) + 1].lib = Dep /\ Dep \in libMap
    BY <1>0, <1>3, PushFacts DEF ResolveDep, HasDep
  <2>2. \A k \in 1..Len(stack) : stack'[k].lib = stack[k].lib
    BY <1>0, <1>3, <2>1, PushFacts, AdvancedLibs
  <2>3. Len(stack) \in 1..Len(stack) /\ Len(stack) \in Nat
    BY <1>0, <2>1, TopFacts
  <2>4. Dep \in S
    <3>1. Dep \in Needs(Top.lib)
      BY <1>0, <2>1, TopFacts DEF Needs, Dep
    <3>2. Top.lib \in S
      BY <1>0, <2>1, <2>3 DEF Top
    <3>. QED
      BY <3>1, <3>2 DEF IsClosed
  <2>. QED
    BY <1>0, <2>1, <2>2, <2>3, <2>4
<1>4. CASE Mark
  <2>1. /\ stack # <<>> /\ stack' = Pop /\ current' = current
        /\ pkgMap' = pkgMap \cup {Top.lib}
    BY <1>4 DEF Mark
  <2>2. /\ Len(stack) \in 1..Len(stack) /\ Len(stack) \in Nat
        /\ Pop \in Seq(Frames) /\ Len(Pop) = Len(stack) - 1
    BY <1>0, <2>1, TopFacts, PopFacts
  <2>3. \A k \in 1..(Len(stack) - 1) : stack'[k] = stack[k]
    BY <1>0, <2>1, PopFacts
  <2>. QED
    BY <1>0, <2>1, <2>2, <2>3 DEF Top
<1>5. CASE Record \/ Done
  BY <1>0, <1>5 DEF Record, Done, vars, TypeOK
<1>. QED
  BY <1>1, <1>2, <1>3, <1>4, <1>5 DEF Next

LEMMA RootStep == IInv /\ Next => RootInv'
<1> SUFFICES ASSUME IInv, Next PROVE RootInv'
  OBVIOUS
<1>0. TypeOK /\ RootInv
  BY DEF IInv
<1>1. CASE \E l \in Libs : Search(l)
  BY <1>0, <1>1 DEF Search, RootInv, Frame, TypeOK
<1>2. CASE SkipDep
  <2>1. /\ HasDep /\ stack # <<>> /\ stack' = Advanced /\ current' = current
        /\ Len(Advanced) = Len(stack) /\ Len(stack) \in Nat \ {0} /\ 1 \in 1..Len(stack)
    BY <1>0, <1>2, AdvancedFacts, TopFacts DEF SkipDep, HasDep
  <2>. QED
    BY <1>0, <2>1, AdvancedLibs DEF RootInv
<1>3. CASE ResolveDep
  <2>1. /\ HasDep /\ stack # <<>> /\ current' = current
        /\ Len(stack') = Len(stack) + 1 /\ Len(stack) \in Nat \ {0} /\ 1 \in 1..Len(stack)
        /\ stack'[1] = Advanced[1]
    BY <1>0, <1>3, PushFacts, TopFacts DEF ResolveDep, HasDep
  <2>2. stack' # <<>>
    BY <2>1
  <2>. QED
    BY <1>0, <2>1, <2>2, AdvancedLibs DEF RootInv
<1>4. CASE Mark
  <2>1. /\ stack # <<>> /\ stack' = Pop /\ current' = current
        /\ pkgMap' = pkgMap \cup {Top.lib}
    BY <1>4 DEF Mark
  <2>2. Len(stack) \in Nat \ {0} /\ Len(Pop) = Len(stack) - 1
    BY <1>0, <2>1, TopFacts, PopFacts
  <2>3. CASE Len(stack) = 1
    <3>1. Pop = <<>>
      BY <1>0, <2>1, <2>2, <2>3, PopFacts
    <3>. QED
      BY <1>0, <2>1, <2>3, <3>1 DEF RootInv, Top
  <2>4. CASE Len(stack) # 1
    <3>1. 1 \in 1..(Len(stack) - 1) /\ Pop # <<>>
      BY <2>2, <2>4
    <3>2. Pop[1] = stack[1]
      BY <1>0, <2>1, <3>1, PopFacts
    <3>. QED
      BY <1>0, <2>1, <3>1, <3>2 DEF RootInv
  <2>. QED
    BY <2>3, <2>4
<1>5. CASE Record \/ Done
  BY <1>0, <1>5 DEF Record, Done, vars, RootInv
<1>. QED
  BY <1>1, <1>2, <1>3, <1>4, <1>5 DEF Next

\* All that a library needs is marked when its loop is over.
LEMMA MarksStep == IInv /\ Next => MarksAreClosed'
<1> SUFFICES ASSUME IInv, Next PROVE MarksAreClosed'
  OBVIOUS
<1>0. TypeOK /\ HandledInv /\ MarksAreClosed /\ \A l : Needs(l)' = Needs(l)
  BY GraphStays DEF IInv
<1>1. CASE Mark
  <2>1. stack # <<>> /\ ~HasDep /\ pkgMap' = pkgMap \cup {Top.lib}
    BY <1>1 DEF Mark
  <2>2. /\ Len(stack) \in DOMAIN stack /\ Len(stack) \in Nat
        /\ deps[Top.lib] \in Seq(Libs) /\ Top.i \in Nat /\ Top.i > Len(deps[Top.lib])
    BY <1>0, <2>1, TopFacts DEF TypeOK, HasDep
  <2>3. ASSUME NEW j \in DOMAIN deps[Top.lib]
        PROVE  deps[Top.lib][j] \notin libMap \ pkgMap
    <3>1. j \in 1..(stack[Len(stack)].i - 1)
      BY <2>2 DEF Top
    <3>2. stack[Len(stack)].lib = Top.lib /\ ~(Len(stack) < Len(stack))
      BY <2>2 DEF Top
    <3>. QED
      BY <1>0, <2>2, <3>1, <3>2 DEF HandledInv
  <2>4. Needs(Top.lib) \subseteq pkgMap
    BY <2>3 DEF Needs
  <2>. QED
    BY <1>0, <2>1, <2>4 DEF MarksAreClosed
<1>2. CASE ~Mark
  <2>1. pkgMap' = pkgMap \/ pkgMap' = {}
    BY <1>2 DEF Next, Search, SkipDep, ResolveDep, Record, Done, vars
  <2>. QED
    BY <1>0, <2>1 DEF MarksAreClosed
<1>. QED
  BY <1>1, <1>2

\* What is marked when a search is over is what its root reaches.
LEMMA MarkedIsReachable ==
    ASSUME IInv, current # NoLib, stack = <<>>
    PROVE  pkgMap = Reachable(current)
<1>0. /\ pkgMap \subseteq libMap /\ current \in libMap /\ current \in pkgMap
      /\ MarksAreClosed /\ InsideInv
  BY DEF IInv, TypeOK, RootInv
<1>1. IsClosed(pkgMap)
  BY <1>0 DEF IsClosed, MarksAreClosed
<1>2. Reachable(current) \subseteq pkgMap
  BY <1>0, <1>1 DEF Reachable
<1>3. pkgMap \subseteq Reachable(current)
  BY <1>0 DEF Reachable, InsideInv
<1>. QED
  BY <1>2, <1>3

LEMMA ResultStep == IInv /\ Next => ResultIsReachable'
<1> SUFFICES ASSUME IInv, Next PROVE ResultIsReachable'
  OBVIOUS
<1>0. TypeOK /\ RootInv /\ ResultIsReachable
  BY DEF IInv
<1>1. /\ libMap' = libMap /\ linked' = linked
      /\ \A l : Reachable(l)' = Reachable(l)
  BY GraphStays
<1>2. CASE \E l \in Libs : Search(l)
  BY <1>0, <1>1, <1>2 DEF Search, ResultIsReachable, TypeOK
<1>3. CASE Record
  <2>1. /\ result' = [result EXCEPT ![current] = pkgMap \cap linked]
        /\ current' = NoLib /\ todo' = todo /\ current \in Libs
    BY <1>0, <1>3 DEF Record, TypeOK
  <2>2. result'[current] = Reachable(current) \cap linked
    BY <1>0, <1>3, <2>1, MarkedIsReachable DEF Record, TypeOK
  <2>3. ASSUME NEW l \in libMap \ (todo \cup {current})
        PROVE  result'[l] = Reachable(l) \cap linked
    BY <1>0, <2>1 DEF TypeOK, ResultIsReachable
  <2>. QED
    BY <1>1, <2>1, <2>2, <2>3 DEF ResultIsReachable
<1>4. CASE SkipDep \/ ResolveDep \/ Mark \/ Done
  <2>1. result' = result /\ current' = current /\ todo' = todo
    BY <1>4 DEF SkipDep, ResolveDep, Mark, Done, vars
  <2>. QED
    BY <1>0, <1>1, <2>1 DEF ResultIsReachable
<1>. QED
  BY <1>2, <1>3, <1>4 DEF Next

LEMMA InvariantHolds == Spec => []IInv
<1>1. Init => IInv
  BY InitEstablishes
<1>2. IInv /\ [Next]_vars => IInv'
  <2>1. ASSUME IInv, Next PROVE IInv'
    <3>1. Acyclic'
      BY <2>1, GraphStays DEF IInv
    <3>. QED
      BY <2>1, <3>1, TypeStep, ChainStep, HandledStep, InsideStep, RootStep, MarksStep,
         ResultStep DEF IInv
  <2>2. ASSUME IInv, UNCHANGED vars PROVE IInv'
    <3>0. TypeOK' /\ RootInv'
      BY <2>2 DEF IInv, vars, TypeOK, Frames, RootInv
    <3>1. ChainInv' /\ HandledInv'
      <4>1. ChainInv /\ HandledInv
        BY <2>2 DEF IInv
      <4>. QED
        BY <2>2, <4>1 DEF vars, ChainInv, HandledInv
    <3>2. Acyclic' /\ InsideInv' /\ MarksAreClosed' /\ ResultIsReachable'
      <4>1. Acyclic /\ InsideInv /\ MarksAreClosed /\ ResultIsReachable
        BY <2>2 DEF IInv
      <4>2. Acyclic' /\ InsideInv'
        BY <2>2, <4>1, GraphStays DEF vars, InsideInv
      <4>3. MarksAreClosed' /\ ResultIsReachable'
        BY <2>2, <4>1, GraphStays DEF vars, MarksAreClosed, ResultIsReachable
      <4>. QED
        BY <4>2, <4>3
    <3>. QED
      BY <3>0, <3>1, <3>2 DEF IInv
  <2>. QED
    BY <2>1, <2>2
<1>. QED
  BY <1>1, <1>2, PTL DEF Spec

\* The variables of createAllDependencyMap and resolveDeps keep their types, and
\* the loop of a call never runs past the end of its library's Deps.
THEOREM TypeCorrect == Spec => []TypeOK
BY InvariantHolds, PTL DEF IInv

\* pkgMap is closed under dependencies at every step of a search.
THEOREM MarksClosed == Spec => []MarksAreClosed
BY InvariantHolds, PTL DEF IInv

\* createAllDependencyMap computes the libraries reachable from each library,
\* whatever the graph, as long as it has no cycle.
THEOREM ResultCorrect == Spec => []ResultIsReachable
BY InvariantHolds, PTL DEF IInv

\* The calls above a call for l are for libraries l depends on: a second call
\* for l would close a cycle.
LEMMA NoRepetition == IInv => RecursionIsBounded
<1> SUFFICES ASSUME IInv, NEW j \in DOMAIN stack, NEW m \in DOMAIN stack,
                    j < m, stack[j].lib = stack[m].lib
             PROVE  FALSE
  <2>1. DOMAIN stack \subseteq Nat
    BY DEF IInv, TypeOK
  <2>. QED
    BY <2>1 DEF RecursionIsBounded
<1>1. /\ stack \in Seq(Frames) /\ Len(stack) \in Nat /\ j \in 1..Len(stack) /\ m \in 1..Len(stack)
      /\ ChainInv /\ Acyclic
  BY DEF IInv, TypeOK
<1> DEFINE Cycle == {stack[k].lib : k \in j..(m - 1)}
<1>2. Cycle \in SUBSET libMap /\ Cycle # {}
  <2>0. j \in Nat /\ m \in Nat /\ 1 <= j /\ m <= Len(stack) /\ j < m
    BY <1>1
  <2>1. j \in j..(m - 1) /\ j..(m - 1) \subseteq 1..Len(stack)
    BY <1>1, <2>0
  <2>2. \A k \in 1..Len(stack) : stack[k].lib \in libMap
    <3>1. \A k \in 1..Len(stack) : stack[k] \in Frames
      BY <1>1
    <3>. QED
      BY <3>1 DEF Frames
  <2>. QED
    BY <2>1, <2>2
<1>3. ASSUME NEW l \in Cycle PROVE Needs(l) \cap Cycle # {}
  <2>1. PICK k \in j..(m - 1) : l = stack[k].lib
    OBVIOUS
  <2>2. /\ k \in 1..(Len(stack) - 1) /\ k \in Nat
        /\ stack[k] \in Frames /\ stack[k + 1] \in Frames
        /\ k + 1 \in j..(m - 1) \/ k + 1 = m
    BY <1>1
  <2>3. stack[k].i >= 2 /\ deps[l][stack[k].i - 1] = stack[k + 1].lib
    BY <1>1, <2>1, <2>2 DEF ChainInv
  <2>4. stack[k + 1].lib \in Needs(l)
    <3>1. l \in libMap /\ stack[k + 1].lib \in libMap /\ stack[k].i \in Nat
      BY <2>1, <2>2 DEF Frames
    <3>2. k \in DOMAIN stack /\ TypeOK
      BY <1>1, <2>2 DEF IInv
    <3>3. stack[k].i <= Len(deps[l]) + 1
      BY <2>1, <3>2 DEF TypeOK
    <3>4. deps[l] \in Seq(Libs)
      BY <3>1, <3>2 DEF TypeOK
    <3>5. stack[k].i - 1 \in DOMAIN deps[l]
      BY <2>3, <3>1, <3>3, <3>4
    <3>. QED
      BY <2>3, <3>1, <3>5 DEF Needs
  <2>5. stack[k + 1].lib \in Cycle
    <3>1. CASE k + 1 \in j..(m - 1)
      BY <3>1
    <3>2. CASE k + 1 = m
      <4>1. j \in j..(m - 1)
        BY <1>1
      <4>. QED
        BY <3>2, <4>1
    <3>. QED
      BY <2>2, <3>1, <3>2
  <2>. QED
    BY <2>4, <2>5
<1>. QED
  BY <1>1, <1>2, <1>3 DEF Acyclic

\* resolveDeps never recurses into a library whose search is under way: on a
\* graph without cycles its depth is at most the number of libraries.
THEOREM BoundedRecursion == Spec => []RecursionIsBounded
BY InvariantHolds, NoRepetition, PTL
-----------------------------------------------------------------------------
(* The generator *)

\* What the resolver is not asked about has the shape the actions rely on.
ShapeInv ==
  /\ DOMAIN disk = Libs /\ \A l \in Libs : DOMAIN disk[l] = Files
  /\ libMap \subseteq Libs /\ protos \subseteq Libs /\ built \subseteq libMap

\* The files are written when the resolver has come to its end.
PhaseInv ==
  pending # NoLib =>
    /\ current = NoLib /\ todo = {}
    /\ linked \subseteq built
    /\ config \in Configs
    /\ pending \subseteq Outputs

\* What the files of a library say once they are written.
Written(l) ==
  /\ \A f \in Included : disk[l][f] # Absent
  /\ disk[l]["bind.cc"] = Deps(l)
  /\ disk[l]["bridge.inc"] = Methods(l)
  /\ l \in built => disk[l]["bind_os.go"] = BindGo(l) /\ disk[l]["bind.go"] = Absent

WrittenInv == pending # NoLib => \A l \in Outputs \ pending : Written(l)

ExportInv ==
  pending # NoLib => \A l \in Outputs : \A d \in Deps(l) : d \in Libs /\ disk[d]["export.inc"] # Absent

RootsInv ==
  /\ fresh => /\ pending # NoLib
              /\ root.includes = Packages
              /\ root.calls = UNION {{p} \X Methods(p) : p \in Packages \cap config.renamed}
  /\ outcome = "done" => pending = {} /\ fresh

GenInv == ShapeInv /\ PhaseInv /\ WrittenInv /\ ExportInv /\ RootsInv

-----------------------------------------------------------------------------
\* Every step of the generator is a step of its resolver or leaves it alone.
LEMMA StepOfResolver == [GenNext]_genVars => [Next]_vars
<1> SUFFICES ASSUME GenNext PROVE [Next]_vars
  BY DEF genVars
<1>. QED
  BY DEF GenNext, Resolve, EnsureExports, GenerateRoot, Finish, Ended, Done, GenerateLib, GenerateFails, Next

\* The generator runs its resolver: what it does besides, the resolver does not see.
THEOREM ResolverRuns == GenSpec => Spec
<1>1. GenInit => Init
  BY DEF GenInit
<1>. QED
  BY <1>1, StepOfResolver, PTL DEF GenSpec, Spec

\* What is proved of the resolver alone holds of it inside the generator.
THEOREM ResultInGenerator == GenSpec => []ResultIsReachable
  BY ResolverRuns, ResultCorrect, PTL

\* Nor does the resolver recurse deeper inside it.
THEOREM RecursionInGenerator == GenSpec => []RecursionIsBounded
  BY ResolverRuns, BoundedRecursion, PTL

LEMMA TypesInGenerator == GenSpec => []TypeOK
  BY ResolverRuns, TypeCorrect, PTL

-----------------------------------------------------------------------------
USE GeneratorAssumption

LEMMA GenInitEstablishes == GenInit => GenInv
<1> SUFFICES ASSUME GenInit PROVE GenInv
  OBVIOUS
<1>1. pending = NoLib /\ fresh = FALSE /\ outcome = "running"
  BY DEF GenInit
<1>2. ShapeInv
  BY DEF GenInit, Init, ShapeInv
<1>. QED
  BY <1>1, <1>2 DEF GenInv, PhaseInv, WrittenInv, ExportInv, RootsInv

LEMMA ResolvePreserves == GenInv /\ Resolve => GenInv'
<1> SUFFICES ASSUME GenInv, Resolve PROVE GenInv'
  OBVIOUS
<1>1. /\ pending' = NoLib /\ fresh' = fresh /\ outcome' = outcome /\ root' = root
      /\ disk' = disk /\ protos' = protos /\ built' = built /\ config' = config
  BY DEF Resolve, inputs, output
<1>2. libMap' = libMap
  BY DEF Resolve, Search, SkipDep, ResolveDep, Mark, Record, graph
<1>3. fresh = FALSE \/ ~fresh
  BY DEF GenInv, RootsInv, Resolve
<1>. QED
  BY <1>1, <1>2, <1>3 DEF GenInv, ShapeInv, PhaseInv, WrittenInv, ExportInv, RootsInv, Resolve

LEMMA EnsurePreserves == GenInv /\ TypeOK /\ EnsureExports => GenInv'
<1> SUFFICES ASSUME GenInv, TypeOK, EnsureExports PROVE GenInv'
  OBVIOUS
<1> USE DEF EnsureExports
<1>1. PICK left \in Leftovers : disk' = Exports(Outputs', Found(left))
  OBVIOUS
<1>2. /\ UNCHANGED <<libMap, deps, linked, current, todo, protos, root, fresh, outcome>>
      /\ pending' = Outputs'
  BY DEF vars
<1>3. ShapeInv'
  BY <1>1, <1>2 DEF GenInv, ShapeInv, Exports, Found
<1>4. Outputs' \subseteq Libs /\ pending' # NoLib
  BY <1>2, <1>3 DEF ShapeInv, Outputs
<1>5. PhaseInv'
  BY <1>2 DEF PhaseInv
<1>6. \A l \in Libs : Deps(l)' = Deps(l) /\ Deps(l) \subseteq Libs
  BY <1>2, ResolverAssumption DEF Deps, TypeOK
<1>7. ExportInv'
  <2> SUFFICES ASSUME NEW l \in Outputs', NEW d \in Deps(l)'
               PROVE  d \in Libs /\ disk'[d]["export.inc"] # Absent
    BY DEF ExportInv
  <2>1. d \in Libs /\ d \in Deps(l)
    BY <1>4, <1>6
  <2>2. disk'[d] = [Found(left)[d] EXCEPT !["export.inc"] = {}]
    BY <1>1, <2>1 DEF Exports
  <2>. QED
    BY <2>1, <2>2 DEF Found, Files, Included
<1>8. WrittenInv'
  BY <1>2 DEF WrittenInv
<1>9. RootsInv'
  BY <1>2 DEF GenInv, RootsInv
<1>. QED
  BY <1>3, <1>5, <1>7, <1>8, <1>9 DEF GenInv

\* The parameters of the templates depend on nothing that is written.
LEMMA ParametersStay ==
    ASSUME UNCHANGED <<vars, inputs>>
    PROVE  /\ Outputs' = Outputs /\ Packages' = Packages
           /\ \A l : Deps(l)' = Deps(l) /\ Methods(l)' = Methods(l)
                     /\ MethodsByName(l)' = MethodsByName(l) /\ BindGo(l)' = BindGo(l)
  BY DEF vars, inputs, Outputs, Packages, Deps, Methods, MethodsByName, BindGo, Bind, Links

\* What generate writes for a library is what the others rely on.
LEMMA ContentsFacts ==
    ASSUME GenInv, pending # NoLib, NEW l \in Libs
    PROVE  LET c == Contents(l) IN
           /\ DOMAIN c = Files
           /\ \A f \in Included : c[f] # Absent
           /\ c["bind.cc"] = Deps(l)
           /\ c["bridge.inc"] = Methods(l)
           /\ l \in built => c["bind_os.go"] = BindGo(l) /\ c["bind.go"] = Absent
<1> DEFINE c == Contents(l)
<1>1. config.methods[l] # Absent
  BY DEF GenInv, PhaseInv
<1>2. Methods(l) # Absent /\ MethodsByName(l) # Absent
  BY <1>1 DEF Methods, MethodsByName
<1>3. DOMAIN c = Files /\ c["bind.cc"] = Deps(l)
  BY DEF Contents, Files
<1>4. c["bridge_extern.h"] = MethodsByName(l) /\ c["bridge.inc"] = Methods(l)
  BY DEF Contents, Files, Included
<1>5. c["export.inc"] = {} /\ c["bridge.h"] = {}
  BY DEF Contents, Files, Included
<1>6. c["bridge_cc.inc"] # Absent
  BY DEF Contents, Files, Included
<1>7. l \in built => c["bind_os.go"] = BindGo(l) /\ c["bind.go"] = Absent
  BY DEF Contents, Files
<1>. QED
  BY <1>2, <1>3, <1>4, <1>5, <1>6, <1>7 DEF Included

LEMMA GenerateLibPreserves == ASSUME GenInv, NEW l \in Libs, GenerateLib(l) PROVE GenInv'
<1> USE DEF GenerateLib
<1>1. /\ UNCHANGED <<libMap, linked, current, todo, protos, built, config, root, outcome>>
      /\ UNCHANGED <<vars, inputs>>
      /\ pending # NoLib /\ l \in pending /\ outcome = "running"
      /\ pending' = pending \ {l} /\ ~fresh'
  BY DEF vars, inputs
<1>2. /\ DOMAIN disk' = Libs /\ disk'[l] = Contents(l)
      /\ \A m \in Libs \ {l} : disk'[m] = disk[m]
  BY DEF GenInv, ShapeInv
<1>3. ShapeInv'
  BY <1>1, <1>2, ContentsFacts DEF GenInv, ShapeInv
<1>4. PhaseInv'
  BY <1>1, ParametersStay DEF GenInv, PhaseInv
<1>5. Outputs \subseteq Libs
  BY DEF GenInv, ShapeInv, Outputs
<1>6. WrittenInv'
  <2> SUFFICES ASSUME NEW m \in Outputs \ pending' PROVE Written(m)'
    BY <1>1, ParametersStay DEF WrittenInv
  <2>1. CASE m = l
    BY <2>1, <1>1, <1>2, ParametersStay, ContentsFacts DEF Written
  <2>2. CASE m # l
    <3>1. Written(m) /\ disk'[m] = disk[m]
      BY <2>2, <1>1, <1>2, <1>5 DEF GenInv, WrittenInv
    <3>. QED
      BY <3>1, <1>1, ParametersStay DEF Written
  <2>. QED
    BY <2>1, <2>2
<1>7. ExportInv'
  BY <1>1, <1>2, ParametersStay, ContentsFacts DEF GenInv, ExportInv, Included
<1>8. RootsInv'
  BY <1>1 DEF RootsInv
<1>. QED
  BY <1>3, <1>4, <1>6, <1>7, <1>8 DEF GenInv

LEMMA GenerateFailsPreserves == ASSUME GenInv, NEW l \in Libs, GenerateFails(l) PROVE GenInv'
<1> USE DEF GenerateFails
<1>1. /\ UNCHANGED <<libMap, linked, current, todo, protos, built, config, root, pending, fresh>>
      /\ UNCHANGED <<vars, inputs>>
      /\ pending # NoLib /\ l \in pending /\ outcome' = "failed"
  BY DEF vars, inputs
<1>2. PICK S \in Leftovers :
        disk' = [disk EXCEPT ![l] = [f \in Files |-> IF f \in S THEN Contents(l)[f] ELSE disk[l][f]]]
  OBVIOUS
<1>3. /\ DOMAIN disk' = Libs
      /\ disk'[l] = [f \in Files |-> IF f \in S THEN Contents(l)[f] ELSE disk[l][f]]
      /\ \A m \in Libs \ {l} : disk'[m] = disk[m]
  BY <1>2 DEF GenInv, ShapeInv
<1>4. ShapeInv'
  BY <1>1, <1>3 DEF GenInv, ShapeInv
<1>5. PhaseInv'
  BY <1>1, ParametersStay DEF GenInv, PhaseInv
<1>6. WrittenInv'
  <2> SUFFICES ASSUME NEW m \in Outputs \ pending PROVE Written(m)'
    BY <1>1, ParametersStay DEF WrittenInv
  <2>1. Written(m) /\ disk'[m] = disk[m]
    BY <1>1, <1>3 DEF GenInv, ShapeInv, WrittenInv, Outputs
  <2>. QED
    BY <2>1, <1>1, ParametersStay DEF Written
<1>7. ExportInv'
  <2> SUFFICES ASSUME NEW m \in Outputs, NEW d \in Deps(m)
               PROVE  d \in Libs /\ disk'[d]["export.inc"] # Absent
    BY <1>1, ParametersStay DEF ExportInv
  <2>1. d \in Libs /\ disk[d]["export.inc"] # Absent
    BY <1>1 DEF GenInv, ExportInv
  <2>2. CASE d = l
    BY <2>1, <2>2, <1>1, <1>3, ContentsFacts DEF Files, Included
  <2>3. CASE d # l
    BY <2>1, <2>3, <1>3
  <2>. QED
    BY <2>1, <2>2, <2>3
<1>8. RootsInv'
  BY <1>1, ParametersStay DEF GenInv, RootsInv
<1>. QED
  BY <1>4, <1>5, <1>6, <1>7, <1>8 DEF GenInv

LEMMA GenerateRootPreserves == GenInv /\ GenerateRoot => GenInv'
<1> SUFFICES ASSUME GenInv, GenerateRoot PROVE GenInv'
  OBVIOUS
<1> USE DEF GenerateRoot
<1>1. /\ UNCHANGED <<libMap, linked, current, todo, protos, built, config, pending, outcome>>
      /\ UNCHANGED <<vars, inputs>>
      /\ pending # NoLib /\ outcome = "running" /\ fresh'
  BY DEF vars, inputs
<1>2. /\ DOMAIN disk' = Libs
      /\ \A p \in Libs : /\ DOMAIN disk'[p] = Files
                         /\ \A f \in Files \ {"bridge.inc"} : disk'[p][f] = disk[p][f]
                         /\ disk'[p]["bridge.inc"] \in {disk[p]["bridge.inc"], Methods(p)}
  BY DEF GenInv, ShapeInv, Files, Included
<1>3. ShapeInv'
  BY <1>1, <1>2 DEF GenInv, ShapeInv
<1>4. PhaseInv'
  BY <1>1, ParametersStay DEF GenInv, PhaseInv
<1>5. WrittenInv'
  <2> SUFFICES ASSUME NEW m \in Outputs \ pending PROVE Written(m)'
    BY <1>1, ParametersStay DEF WrittenInv
  <2>1. m \in Libs /\ Written(m)
    BY <1>1 DEF GenInv, ShapeInv, WrittenInv, Outputs
  <2>2. \A f \in Files : disk'[m][f] = disk[m][f]
    BY <2>1, <1>2 DEF Written
  <2>. QED
    BY <2>1, <2>2, <1>1, ParametersStay DEF Written, Files
<1>6. ExportInv'
  <2> SUFFICES ASSUME NEW m \in Outputs, NEW d \in Deps(m)
               PROVE  d \in Libs /\ disk'[d]["export.inc"] # Absent
    BY <1>1, ParametersStay DEF ExportInv
  <2>1. d \in Libs /\ disk[d]["export.inc"] # Absent
    BY <1>1 DEF GenInv, ExportInv
  <2>. QED
    BY <2>1, <1>2 DEF Files, Included
<1>7. RootsInv'
  <2>1. /\ root' = [includes |-> Packages,
                    calls |-> UNION {{p} \X Methods(p) : p \in Packages \cap config.renamed}]
        /\ Packages' = Packages /\ config' = config
    BY <1>1, ParametersStay
  <2>2. \A p : Methods(p)' = Methods(p)
    BY <1>1, ParametersStay
  <2>. QED
    BY <2>1, <2>2, <1>1 DEF RootsInv
<1>. QED
  BY <1>3, <1>4, <1>5, <1>6, <1>7 DEF GenInv

\* The generator's own variables stay as they are, but for the outcome.
LEMMA OutcomePreserves ==
    ASSUME GenInv, UNCHANGED <<vars, inputs, disk, root, pending, fresh>>,
           outcome' = "done" => pending = {} /\ fresh
    PROVE  GenInv'
<1>1. UNCHANGED <<libMap, linked, current, todo, protos, built, config>>
  BY DEF vars, inputs
<1>2. ShapeInv'
  BY <1>1 DEF GenInv, ShapeInv
<1>3. PhaseInv'
  BY <1>1, ParametersStay DEF GenInv, PhaseInv
<1>4. WrittenInv'
  BY <1>1, ParametersStay DEF GenInv, WrittenInv, Written
<1>5. ExportInv'
  BY ParametersStay DEF GenInv, ExportInv
<1>6. RootsInv'
  BY <1>1, ParametersStay DEF GenInv, RootsInv
<1>. QED
  BY <1>2, <1>3, <1>4, <1>5, <1>6 DEF GenInv

LEMMA GenNextPreserves == TypeOK /\ GenInv /\ [GenNext]_genVars => GenInv'
<1> SUFFICES ASSUME TypeOK, GenInv, [GenNext]_genVars PROVE GenInv'
  OBVIOUS
<1>1. CASE Resolve
  BY <1>1, ResolvePreserves
<1>2. CASE EnsureExports
  BY <1>2, EnsurePreserves
<1>3. CASE GenerateRoot
  BY <1>3, GenerateRootPreserves
<1>4. CASE Finish
  BY <1>4, OutcomePreserves DEF Finish
<1>5. CASE Ended \/ UNCHANGED genVars
  BY <1>5, OutcomePreserves DEF Ended, Done, genVars, output, GenInv, RootsInv
<1>6. ASSUME NEW l \in Libs, GenerateLib(l) PROVE GenInv'
  BY <1>6, GenerateLibPreserves
<1>7. ASSUME NEW l \in Libs, GenerateFails(l) PROVE GenInv'
  BY <1>7, GenerateFailsPreserves
<1>. QED
  BY <1>1, <1>2, <1>3, <1>4, <1>5, <1>6, <1>7 DEF GenNext

\* The files of the libraries that are through say what they should.
THEOREM GenInvariantHolds == GenSpec => []GenInv
  BY GenInitEstablishes, GenNextPreserves, TypesInGenerator, PTL DEF GenSpec

-----------------------------------------------------------------------------
\* Every file that a bind.cc includes is there after a successful run.
THEOREM IncludesAreThere == GenSpec => []IncludesExist
<1>1. GenInv => IncludesExist
  <2> SUFFICES ASSUME GenInv, outcome = "done"
               PROVE  /\ \A l \in Outputs :
                           On(l, Included) /\ \A d \in disk[l]["bind.cc"] : On(d, {"export.inc"})
                      /\ \A p \in root.includes : p \in Outputs => On(p, Included)
    BY DEF IncludesExist
  <2>1. pending = {} /\ pending # NoLib
    BY DEF GenInv, RootsInv
  <2>2. \A l \in Outputs : Written(l)
    BY <2>1 DEF GenInv, WrittenInv
  <2>. QED
    BY <2>1, <2>2 DEF GenInv, ExportInv, Written, On
<1>. QED
  BY <1>1, GenInvariantHolds, PTL

\* No Go file calls or links to a function that nobody defines: what the
\* resolver recorded is linked, and only a library with sources of its own is.
THEOREM CallsHaveTargets == GenSpec => []CallsAreDefined
<1>1. GenInv /\ TypeOK /\ ResultIsReachable => CallsAreDefined
  <2> SUFFICES ASSUME GenInv, TypeOK, ResultIsReachable, outcome = "done"
               PROVE  /\ \A l \in built :
                           /\ disk[l]["bind_os.go"].funcs = disk[l]["bridge.inc"]
                           /\ disk[l]["bind.go"] = Absent
                           /\ \A k \in disk[l]["bind_os.go"].links :
                                k[1] \in built /\ k[2] \in disk[k[1]]["bind_os.go"].funcs
                      /\ \A k \in root.calls :
                           k[1] \in built => k[2] \in disk[k[1]]["bind_os.go"].funcs
    BY DEF CallsAreDefined
  <2>1. /\ pending = {} /\ pending # NoLib /\ fresh
        /\ current = NoLib /\ todo = {} /\ linked \subseteq built /\ built \subseteq libMap
    BY DEF GenInv, RootsInv, PhaseInv, ShapeInv
  <2>2. \A l \in built : Written(l)
    BY <2>1 DEF GenInv, WrittenInv, Outputs
  <2>3. \A l \in built : /\ disk[l]["bind_os.go"].funcs = Methods(l)
                         /\ disk[l]["bind_os.go"].links = Links(l)
                         /\ disk[l]["bridge.inc"] = Methods(l) /\ disk[l]["bind.go"] = Absent
    <3> TAKE l \in built
    <3>1. Written(l) /\ BindGo(l) = [funcs |-> Methods(l), links |-> Links(l)]
      BY <2>2 DEF BindGo, Bind
    <3>. QED
      BY <3>1 DEF Written
  <2>4. \A l \in built : result[l] \subseteq built
    <3> TAKE l \in built
    <3>1. l \in libMap \ (todo \cup {current})
      BY <2>1, ResolverAssumption DEF GenInv, ShapeInv
    <3>. QED
      BY <3>1, <2>1 DEF ResultIsReachable
  <2>5. ASSUME NEW l \in built, NEW k \in Links(l)
        PROVE  k[1] \in built /\ k[2] \in Methods(k[1])
    <3>1. PICK d \in (result[l] \ {l}) \cap (config.imported \ config.renamed) :
            k \in {d} \X config.methods[d]
      BY <2>5 DEF Links
    <3>. QED
      BY <3>1, <2>4 DEF Methods
  <2>6. ASSUME NEW k \in root.calls PROVE k[2] \in Methods(k[1])
    <3>1. PICK p : k \in {p} \X Methods(p)
      BY <2>1, <2>6 DEF GenInv, RootsInv
    <3>. QED
      BY <3>1
  <2>. QED
    BY <2>3, <2>5, <2>6
<1>. QED
  BY <1>1, GenInvariantHolds, TypesInGenerator, ResultInGenerator, PTL
=============================================================================
