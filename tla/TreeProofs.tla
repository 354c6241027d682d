----------------------------- MODULE TreeProofs -----------------------------
(***************************************************************************)
(* Proofs about the two walks, for any tree with any nil nodes and any     *)
(* number of children that the callback adds; and about NodeMap, for any   *)
(* two trees, nil nodes and ranges.                                        *)
(*                                                                         *)
(* Walk goes through Tree, in which a nil node has no children.  A frame   *)
(* of the call stack has visited exactly the children before its index: a  *)
(* child is visited in the step that passes it, and one that is added      *)
(* meanwhile is new and comes last.  That no node is visited twice rests   *)
(* on the shape of the tree: a node is the child of one node, once, and    *)
(* the children of a node that was not visited were not either.            *)
(*                                                                         *)
(* A search of NodeMap climbs from a node to the lowest of its ancestors   *)
(* near which something is filed, or a child is nil.                       *)
(***************************************************************************)
EXTENDS Walk, NodeMap, FiniteSetTheorems, SequenceTheorems, WellFoundedInduction, TLAPS

USE WalkAssumption

\* Every set of naturals with an element has a least one.
LEMMA LeastNatural ==
    ASSUME NEW S \in SUBSET Nat, S # {}
    PROVE  \E n \in S : \A m \in S : n =< m
<1> DEFINE Less == {p \in Nat \X Nat : p[1] < p[2]}
<1>1. IsWellFoundedOn(Less, Nat)
  BY NatLessThanWellFounded, SMT DEF OpToRel
<1>2. \E n \in S : \A m \in S : <<m, n>> \notin Less
  <2> HIDE DEF Less
  <2>. QED
    BY <1>1, WFMin
<1>3. ASSUME NEW n \in S, NEW m \in S, <<m, n>> \notin Less
      PROVE  n =< m
  <2>1. n \in Nat /\ m \in Nat /\ ~(m < n)
    BY <1>3
  <2>. QED
    BY <2>1
<1> HIDE DEF Less
<1>. QED
  BY <1>2, <1>3, Zenon

\* An enumeration of a set of numbers in ascending order.
IsAscending(s, S) ==
    /\ s \in [1..Cardinality(S) -> S]
    /\ \A i, j \in 1..Cardinality(S) : i < j => s[i] < s[j]

LEMMA OneLess ==
    ASSUME NEW S, IsFiniteSet(S), NEW m \in S
    PROVE  /\ Cardinality(S) \in Nat /\ Cardinality(S) > 0
           /\ IsFiniteSet(S \ {m}) /\ Cardinality(S \ {m}) = Cardinality(S) - 1
<1>1. Cardinality(S) \in Nat
  BY FS_CardinalityType
<1>2. Cardinality(S) # 0
  BY FS_EmptySet
<1>3. IsFiniteSet(S \ {m}) /\ Cardinality(S \ {m}) = Cardinality(S) - 1
  BY FS_RemoveElement
<1>. QED
  BY <1>1, <1>2, <1>3

\* A set is enumerated by its least element and an enumeration of the others.
LEMMA OneMore ==
    ASSUME NEW S \in SUBSET Nat, IsFiniteSet(S), NEW m \in S, \A k \in S : m =< k,
           NEW t, IsAscending(t, S \ {m})
    PROVE  \E s : IsAscending(s, S)
<1> DEFINE n == Cardinality(S)
           s == [i \in 1..n |-> IF i = 1 THEN m ELSE t[i - 1]]
<1>1. n \in Nat /\ n > 0 /\ Cardinality(S \ {m}) = n - 1
  BY OneLess
<1>2. t \in [1..(n - 1) -> S \ {m}] /\ \A i, j \in 1..(n - 1) : i < j => t[i] < t[j]
  BY <1>1 DEF IsAscending
<1> HIDE DEF n
<1>3. \A i \in 1..n : s[i] = (IF i = 1 THEN m ELSE t[i - 1])
  OBVIOUS
<1>4. s \in [1..n -> S]
  BY <1>1, <1>2
<1> HIDE DEF s
<1>5. ASSUME NEW i \in 1..n, NEW j \in 1..n, i < j PROVE s[i] < s[j]
  <2>1. j - 1 \in 1..(n - 1) /\ s[j] = t[j - 1]
    BY <1>1, <1>3, <1>5
  <2>2. CASE i = 1
    <3>1. s[i] = m /\ t[j - 1] \in S \ {m}
      BY <1>2, <1>3, <2>1, <2>2
    <3>2. m \in Nat /\ t[j - 1] \in Nat /\ m =< t[j - 1] /\ m # t[j - 1]
      BY <3>1
    <3>. QED
      BY <2>1, <3>1, <3>2
  <2>3. CASE i # 1
    <3>1. i - 1 \in 1..(n - 1) /\ s[i] = t[i - 1] /\ i - 1 < j - 1
      BY <1>1, <1>3, <1>5, <2>3
    <3>. QED
      BY <1>2, <2>1, <3>1
  <2>. QED
    BY <2>2, <2>3
<1>. QED
  BY <1>4, <1>5 DEF IsAscending, n

\* Every finite set of numbers has an enumeration: otherwise one of the least
\* size has none, and the set without its least element has one.
LEMMA Enumerated ==
    ASSUME NEW S \in SUBSET Nat, IsFiniteSet(S)
    PROVE  \E s : IsAscending(s, S)
<1> DEFINE Without == {n \in Nat : \E T \in SUBSET Nat :
                          IsFiniteSet(T) /\ Cardinality(T) = n /\ ~\E s : IsAscending(s, T)}
<1>1. SUFFICES ASSUME Without # {} PROVE FALSE
  BY FS_CardinalityType
<1>2. PICK n \in Without : \A k \in Without : n =< k
  BY <1>1, LeastNatural
<1>3. PICK T \in SUBSET Nat : IsFiniteSet(T) /\ Cardinality(T) = n /\ ~\E s : IsAscending(s, T)
  BY <1>2
<1>4. CASE T = {}
  <2>1. Cardinality(T) = 0
    BY <1>4, FS_EmptySet
  <2>2. IsAscending([i \in 1..0 |-> i], T)
    BY <1>4, <2>1 DEF IsAscending
  <2>. QED
    BY <1>3, <2>2
<1>5. CASE T # {}
  <2>1. PICK m \in T : \A k \in T : m =< k
    BY <1>5, LeastNatural
  <2>2. IsFiniteSet(T \ {m}) /\ Cardinality(T \ {m}) = n - 1 /\ n - 1 \in Nat
    BY <1>3, <2>1, OneLess
  <2>3. n - 1 \notin Without
    BY <1>2, <2>2
  <2>4. \E s : IsAscending(s, T \ {m})
    BY <2>2, <2>3
  <2>. QED
    BY <1>3, <2>1, <2>4, OneMore
<1>. QED
  BY <1>4, <1>5

\* Every element of a set, and none twice.
ListsOnce(s, S) ==
    /\ s \in Seq(S)
    /\ \A x \in S : \E i \in 1..Len(s) : s[i] = x
    /\ \A i, j \in 1..Len(s) : s[i] = s[j] => i = j

LEMMA AscendingFacts ==
    ASSUME NEW S \in SUBSET Nat, IsFiniteSet(S)
    PROVE  ListsOnce(Ascending(S), S)
<1> DEFINE n == Cardinality(S)
           s == Ascending(S)
<1>1. n \in Nat
  BY FS_CardinalityType
<1>2. s \in [1..n -> S] /\ \A i, j \in 1..n : i < j => s[i] < s[j]
  BY Enumerated DEF Ascending, IsAscending
<1> HIDE DEF n, s
<1>3. s \in Seq(S) /\ Len(s) = n /\ DOMAIN s = 1..n
  BY <1>1, <1>2
<1>4. \A i, j \in 1..n : s[i] = s[j] => i = j
  <2>1. SUFFICES ASSUME NEW i \in 1..n, NEW j \in 1..n, s[i] = s[j], i # j PROVE FALSE
    OBVIOUS
  <2>2. s[i] \in Nat /\ s[j] \in Nat
    BY <1>2
  <2>3. i < j \/ j < i
    BY <1>1, <2>1
  <2>. QED
    BY <1>2, <2>1, <2>2, <2>3
<1>5. \A x \in S : \E i \in 1..n : s[i] = x
  <2>1. s \in Injection(1..n, S)
    BY <1>2, <1>4 DEF Injection, IsInjective
  <2>2. Cardinality(1..n) = n
    BY <1>1, FS_Interval
  <2>3. s \in Surjection(1..n, S)
    BY <2>1, <2>2, FS_Injection DEF n
  <2>. QED
    BY <2>3 DEF Surjection
<1>. QED
  BY <1>3, <1>4, <1>5 DEF ListsOnce, s

-----------------------------------------------------------------------------
(* The nodes of a tree *)

LEMMA TreeFacts ==
    ASSUME NEW N \in Nat, NEW parent \in TreesOf(N)
    PROVE  /\ DOMAIN parent = 1..N
           /\ \A n \in 1..N : n # 1 => parent[n] \in 1..(n - 1) /\ parent[n] # NoParent
           /\ \A n \in 1..N : n # 1 => \A m \in (parent[n] + 1)..(n - 1) : parent[m] >= parent[n]
           /\ \A n \in 1..N : n = 1 => parent[n] = NoParent
BY DEF TreesOf, NoParent

Listed(s, S) == \E k \in Nat : DOMAIN s = 1..k /\ \A i \in 1..k : s[i] \in S

\* The children in a tree of any size.
LEMMA KidsFacts ==
    ASSUME NEW N \in Nat, NEW parent \in TreesOf(N), NEW n \in 1..N
    PROVE  /\ ListsOnce(KidsOf(parent)[n], {m \in 1..N : parent[m] = n})
           /\ \A m \in 1..N : IsChild(KidsOf(parent), m, n) <=> parent[m] = n
           /\ Listed(KidsOf(parent)[n], 1..N)
           /\ Range(KidsOf(parent)[n]) = {m \in 1..N : parent[m] = n}
<1> DEFINE S == {m \in 1..N : parent[m] = n}
           s == KidsOf(parent)[n]
<1>1. DOMAIN parent = 1..N
  BY TreeFacts
<1>2. s = Ascending(S)
  BY <1>1 DEF KidsOf
<1>3. S \in SUBSET Nat /\ IsFiniteSet(S) /\ \A m : m \in S <=> m \in 1..N /\ parent[m] = n
  <2>1. IsFiniteSet(1..N) /\ S \in SUBSET (1..N)
    BY FS_Interval
  <2>2. IsFiniteSet(S)
    BY <2>1, FS_Subset
  <2>. QED
    BY <2>2
<1> HIDE DEF S, s
<1>4. ListsOnce(s, S)
  BY <1>2, <1>3, AscendingFacts
<1>5. /\ s \in Seq(S) /\ DOMAIN s = 1..Len(s) /\ Len(s) \in Nat
      /\ \A i \in 1..Len(s) : s[i] \in S
      /\ \A x \in S : \E i \in 1..Len(s) : s[i] = x
  BY <1>4 DEF ListsOnce
<1>6. Range(s) = S
  BY <1>5 DEF Range
<1>7. \A m \in 1..N : IsChild(KidsOf(parent), m, n) <=> parent[m] = n
  BY <1>3, <1>5 DEF IsChild, s
<1>8. Listed(s, 1..N)
  BY <1>3, <1>5 DEF Listed
<1>. QED
  BY <1>4, <1>5, <1>6, <1>7, <1>8 DEF S, s

\* Above a node are the node, its parent, and what is above that.
LEMMA AncestorsFacts ==
    ASSUME NEW N \in Nat, NEW parent \in TreesOf(N), NEW n \in 1..N
    PROVE  /\ n \in Ancestors(parent, n) /\ Ancestors(parent, n) \subseteq 1..n
           /\ n # 1 => \A m : m \in Ancestors(parent, n)
                                <=> m = n \/ m \in Ancestors(parent, parent[n])
<1>1. n \in Ancestors(parent, n) /\ Ancestors(parent, n) \subseteq 1..n
  BY DEF Ancestors
<1>2. ASSUME n # 1, NEW m
      PROVE  m \in Ancestors(parent, n) <=> m = n \/ m \in Ancestors(parent, parent[n])
  <2>1. PICK p \in 1..(n - 1) : p = parent[n] /\ \A k \in (p + 1)..(n - 1) : parent[k] >= p
    BY <1>2, TreeFacts
  <2>2. \A k \in 1..n : parent[k] \in Nat
    BY TreeFacts DEF NoParent
  <2>3. ASSUME m \in Ancestors(parent, n), m # n PROVE m \in Ancestors(parent, p)
    <3>1. m \in 1..(n - 1) /\ \A k \in (m + 1)..n : parent[k] >= m
      BY <2>3 DEF Ancestors
    <3>2. p >= m
      BY <2>1, <3>1
    <3>3. \A k \in (m + 1)..p : k \in (m + 1)..n
      BY <2>1, <3>1
    <3>4. m \in 1..p
      BY <3>1, <3>2, <2>1
    <3>. QED
      BY <3>1, <3>3, <3>4 DEF Ancestors
  <2>4. ASSUME m \in Ancestors(parent, p) PROVE m \in Ancestors(parent, n)
    <3>1. m \in 1..p /\ \A k \in (m + 1)..p : parent[k] >= m
      BY <2>4 DEF Ancestors
    <3>2. ASSUME NEW k \in (m + 1)..n PROVE parent[k] >= m
      <4>1. k \in (m + 1)..p \/ k \in (p + 1)..(n - 1) \/ k = n
        BY <2>1, <3>1
      <4>2. k \in 1..n
        BY <3>1
      <4>. QED
        BY <2>1, <2>2, <3>1, <4>1, <4>2
    <3>3. m \in 1..n
      BY <2>1, <3>1
    <3>. QED
      BY <3>2, <3>3 DEF Ancestors
  <2>. QED
    BY <1>1, <2>1, <2>3, <2>4
<1>. QED
  BY <1>1, <1>2

-----------------------------------------------------------------------------
(* The tree, and what a frame has to do with it *)

\* What Walk can go through: what it is offered.
Tree == [n \in Nodes |-> Offered(kids, n)]

\* The nodes below a node are greater, so that the root is below none; none is
\* the child of two nodes or twice of one.
TreeFits(tree, new) ==
    /\ tree \in [Nodes -> Seq(Nodes)]
    /\ \A n \in Nodes : \A i \in 1..Len(tree[n]) :
         tree[n][i] \in Initial \cup new /\ tree[n][i] > n
    /\ \A n, m \in Nodes : \A i \in 1..Len(tree[n]), j \in 1..Len(tree[m]) :
         tree[n][i] = tree[m][j] => n = m /\ i = j

\* The children of Walk's tree hang on their parents, except on the hidden ones.
ShapeFits(tree, parent, hidden) ==
    /\ \A m \in Initial \ {Root} :
         parent[m] \notin hidden => \E i \in 1..Len(tree[parent[m]]) : tree[parent[m]][i] = m
    /\ \A n \in Nodes : \A i \in 1..Len(tree[n]) :
         tree[n][i] \in Initial => n \notin hidden /\ n = parent[tree[n][i]]

Frames == [node : Nodes, slice : Seq(Nodes), i : Nat \ {0}]

\* Children in any tree.
ChildrenIn(isLive, tree, f) == IF isLive THEN tree[f.node] ELSE f.slice

\* A frame's slice was all the children when its loop began, and the children
\* before its index are the visited ones.
FrameFits(isLive, tree, f, seen) ==
    /\ f \in Frames /\ f.node \in seen
    /\ Len(f.slice) =< Len(tree[f.node])
    /\ \A j \in 1..Len(f.slice) : f.slice[j] = tree[f.node][j]
    /\ \A j \in 1..Len(tree[f.node]) : tree[f.node][j] \in Initial => j =< Len(f.slice)
    /\ f.i =< Len(ChildrenIn(isLive, tree, f)) + 1
    /\ \A j \in 1..Len(ChildrenIn(isLive, tree, f)) :
         ChildrenIn(isLive, tree, f)[j] \in seen <=> j < f.i

StackFits(isLive, tree, frames, seen) ==
    /\ frames \in Seq(Frames)
    /\ \A k \in 1..Len(frames) : FrameFits(isLive, tree, frames[k], seen)
    /\ \A k, l \in 1..Len(frames) : frames[k].node = frames[l].node => k = l

\* A parent is called before its children, and siblings in their order.
CalledInOrder ==
    \A n \in Nodes : \A i \in 1..Len(Tree[n]), y \in DOMAIN called :
        called[y] = Tree[n][i] =>
            /\ \E x \in 1..(y - 1) : called[x] = n
            /\ \A j \in 1..(i - 1) : \E x \in 1..(y - 1) : called[x] = Tree[n][j]

CalledOnce == \A x, y \in DOMAIN called : called[x] = called[y] => x = y

TypeOK ==
    /\ live \in BOOLEAN
    /\ above \in TreesOf(Size) /\ nil \subseteq Initial
    /\ kids \in [Nodes -> Seq(Nodes)]
    /\ called \in Seq(Nodes) /\ Range(called) \subseteq Initial \cup added
    /\ Cardinality(added) \in 0..MaxAdds
    /\ added = (Size + 1)..(Size + Cardinality(added))
    /\ status \in {"start", "running", "returned", "failed"}

\* No loop has begun at a node that was not visited.
UnvisitedInv ==
    \A n \in Nodes \ Range(called) : \A i \in 1..Len(Tree[n]) : Tree[n][i] \notin Range(called)

\* A call that has returned has visited the children of Walk's tree.
ReturnedInv ==
    status # "failed" =>
        \A n \in Range(called) :
            \/ \E k \in 1..Len(stack) : stack[k].node = n
            \/ \A i \in 1..Len(Tree[n]) : Tree[n][i] \in Initial => Tree[n][i] \in Range(called)

\* Nothing below a nil node was visited.
VisibleInv == Range(called) \cap Skipped = {}

StatusInv ==
    /\ status = "start" => called = <<>>
    /\ status = "running" => stack # <<>>
    /\ status # "running" => stack = <<>>
    /\ status # "start" => Root \in Range(called)

IInv ==
    /\ TypeOK
    /\ TreeFits(Tree, added) /\ ShapeFits(Tree, above, nil)
    /\ StackFits(live, Tree, stack, Range(called))
    /\ CalledOnce /\ CalledInOrder
    /\ UnvisitedInv /\ ReturnedInv /\ VisibleInv /\ StatusInv

\* The tree after AddChild of c to m.
Grown(tree, m, c) == [tree EXCEPT ![m] = Append(@, c)]

\* Every place of the grown tree is an old one, or the last of m.
GrowsTo(tree, m, c, t) ==
    /\ t \in [Nodes -> Seq(Nodes)]
    /\ \A n \in Nodes :
         /\ Len(tree[n]) \in Nat /\ Len(t[n]) \in Nat
         /\ Len(t[n]) \in {Len(tree[n]), Len(tree[n]) + 1}
         /\ \A i \in 1..Len(tree[n]) : i \in 1..Len(t[n]) /\ t[n][i] = tree[n][i]
         /\ \A i \in 1..Len(t[n]) :
              \/ i \in 1..Len(tree[n]) /\ t[n][i] = tree[n][i]
              \/ n = m /\ i = Len(tree[n]) + 1 /\ t[n][i] = c

LEMMA GrownFacts ==
    ASSUME NEW tree \in [Nodes -> Seq(Nodes)], NEW m \in Nodes, NEW c \in Nodes
    PROVE  GrowsTo(tree, m, c, Grown(tree, m, c))
<1> DEFINE t == Grown(tree, m, c)
<1>1. \A n \in Nodes : tree[n] \in Seq(Nodes) /\ Len(tree[n]) \in Nat
  OBVIOUS
<1>2. t[m] = Append(tree[m], c) /\ \A n \in Nodes \ {m} : t[n] = tree[n]
  BY DEF Grown
<1>3. t \in [Nodes -> Seq(Nodes)]
  BY <1>1 DEF Grown
<1>4. /\ Len(Append(tree[m], c)) = Len(tree[m]) + 1
      /\ \A i \in 1..Len(tree[m]) : Append(tree[m], c)[i] = tree[m][i]
      /\ Append(tree[m], c)[Len(tree[m]) + 1] = c
  BY <1>1
<1> HIDE DEF t
<1>5. ASSUME NEW n \in Nodes
      PROVE  /\ Len(tree[n]) \in Nat /\ Len(t[n]) \in Nat
             /\ Len(t[n]) \in {Len(tree[n]), Len(tree[n]) + 1}
             /\ \A i \in 1..Len(tree[n]) : i \in 1..Len(t[n]) /\ t[n][i] = tree[n][i]
             /\ \A i \in 1..Len(t[n]) :
                  \/ i \in 1..Len(tree[n]) /\ t[n][i] = tree[n][i]
                  \/ n = m /\ i = Len(tree[n]) + 1 /\ t[n][i] = c
  <2>1. CASE n = m
    <3>1. Len(tree[n]) \in Nat /\ Len(t[n]) = Len(tree[n]) + 1
      BY <1>1, <1>2, <1>4, <2>1
    <3>2. /\ \A i \in 1..Len(tree[n]) : t[n][i] = tree[n][i]
          /\ t[n][Len(tree[n]) + 1] = c
      BY <1>2, <1>4, <2>1
    <3>. QED
      BY <2>1, <3>1, <3>2
  <2>2. CASE n # m
    <3>1. Len(tree[n]) \in Nat /\ t[n] = tree[n]
      BY <1>1, <1>2, <2>2
    <3>. QED
      BY <3>1
  <2>. QED
    BY <2>1, <2>2
<1>. QED
  BY <1>3, <1>5 DEF GrowsTo, t

LEMMA GrownTree ==
    ASSUME NEW new, NEW tree, TreeFits(tree, new), new \subseteq Nodes,
           NEW m \in Initial \cup new, NEW c \in Nodes,
           c \notin Initial \cup new, \A n \in Initial \cup new : c > n
    PROVE  TreeFits(Grown(tree, m, c), new \cup {c})
<1> DEFINE t == Grown(tree, m, c)
<1>1. m \in Nodes /\ tree \in [Nodes -> Seq(Nodes)]
  BY DEF TreeFits, Initial, Nodes
<1>2. GrowsTo(tree, m, c, t)
  BY <1>1, GrownFacts
<1> HIDE DEF t
<1>3. ASSUME NEW n \in Nodes
      PROVE  /\ Len(tree[n]) \in Nat
             /\ \A i \in 1..Len(tree[n]) : i \in 1..Len(t[n]) /\ t[n][i] = tree[n][i]
             /\ \A i \in 1..Len(t[n]) :
                  \/ i \in 1..Len(tree[n]) /\ t[n][i] = tree[n][i]
                  \/ n = m /\ i = Len(tree[m]) + 1 /\ t[n][i] = c
  BY <1>2, <1>3 DEF GrowsTo
<1>4. \A n \in Nodes : \A i \in 1..Len(tree[n]) : tree[n][i] \in Initial \cup new /\ tree[n][i] > n
  BY DEF TreeFits
<1>5. ASSUME NEW n \in Nodes, NEW i \in 1..Len(t[n])
      PROVE  t[n][i] \in Initial \cup (new \cup {c}) /\ t[n][i] > n
  BY <1>3, <1>4, <1>5
<1>6. ASSUME NEW n \in Nodes, NEW k \in Nodes, NEW i \in 1..Len(t[n]), NEW j \in 1..Len(t[k]),
             t[n][i] = t[k][j]
      PROVE  n = k /\ i = j
  <2>1. /\ \/ i \in 1..Len(tree[n]) /\ t[n][i] = tree[n][i]
           \/ n = m /\ i = Len(tree[m]) + 1 /\ t[n][i] = c
        /\ \/ j \in 1..Len(tree[k]) /\ t[k][j] = tree[k][j]
           \/ k = m /\ j = Len(tree[m]) + 1 /\ t[k][j] = c
    BY <1>3
  <2>. QED
    BY <1>4, <1>6, <2>1 DEF TreeFits
<1>. QED
  BY <1>2, <1>5, <1>6 DEF TreeFits, GrowsTo, t

LEMMA GrownShape ==
    ASSUME NEW tree \in [Nodes -> Seq(Nodes)], NEW parent \in TreesOf(Size), NEW hidden,
           ShapeFits(tree, parent, hidden),
           NEW m \in Nodes, NEW c \in Nodes \ Initial
    PROVE  ShapeFits(Grown(tree, m, c), parent, hidden)
<1> DEFINE t == Grown(tree, m, c)
<1>1. GrowsTo(tree, m, c, t)
  BY GrownFacts
<1> HIDE DEF t
<1>2. ASSUME NEW k \in Initial \ {Root}, parent[k] \notin hidden
      PROVE  \E i \in 1..Len(t[parent[k]]) : t[parent[k]][i] = k
  <2>1. parent[k] \in Nodes
    BY <1>2 DEF TreesOf, Initial, Nodes, Root
  <2>2. PICK i \in 1..Len(tree[parent[k]]) : tree[parent[k]][i] = k
    BY <1>2 DEF ShapeFits
  <2>3. i \in 1..Len(t[parent[k]]) /\ t[parent[k]][i] = k
    BY <1>1, <2>1, <2>2 DEF GrowsTo
  <2>. QED
    BY <2>3
<1>3. ASSUME NEW n \in Nodes, NEW i \in 1..Len(t[n]), t[n][i] \in Initial
      PROVE  n \notin hidden /\ n = parent[t[n][i]]
  <2>1. i \in 1..Len(tree[n]) /\ t[n][i] = tree[n][i]
    BY <1>1, <1>3 DEF GrowsTo
  <2>. QED
    BY <1>3, <2>1 DEF ShapeFits
<1>. QED
  BY <1>2, <1>3 DEF ShapeFits, t

LEMMA GrownFrame ==
    ASSUME NEW isLive \in BOOLEAN, NEW tree \in [Nodes -> Seq(Nodes)], NEW seen, NEW f,
           FrameFits(isLive, tree, f, seen),
           NEW m \in Nodes, NEW c \in Nodes, c \notin seen, c \notin Initial
    PROVE  FrameFits(isLive, Grown(tree, m, c), f, seen)
<1> DEFINE t == Grown(tree, m, c)
<1>1. f.node \in Nodes /\ f.slice \in Seq(Nodes) /\ f.i \in Nat \ {0}
  BY DEF FrameFits, Frames
<1>2. GrowsTo(tree, m, c, t)
  BY GrownFacts
<1> HIDE DEF t
<1>3. /\ Len(tree[f.node]) \in Nat /\ Len(t[f.node]) \in Nat
      /\ Len(t[f.node]) \in {Len(tree[f.node]), Len(tree[f.node]) + 1}
      /\ \A i \in 1..Len(tree[f.node]) : i \in 1..Len(t[f.node]) /\ t[f.node][i] = tree[f.node][i]
      /\ \A i \in 1..Len(t[f.node]) :
           \/ i \in 1..Len(tree[f.node]) /\ t[f.node][i] = tree[f.node][i]
           \/ i = Len(tree[f.node]) + 1 /\ t[f.node][i] = c
  BY <1>1, <1>2 DEF GrowsTo
<1>4. /\ Len(f.slice) \in Nat /\ Len(f.slice) =< Len(tree[f.node])
      /\ \A j \in 1..Len(f.slice) : f.slice[j] = tree[f.node][j]
  BY <1>1 DEF FrameFits
<1>5. Len(f.slice) =< Len(t[f.node]) /\ \A j \in 1..Len(f.slice) : f.slice[j] = t[f.node][j]
  <2>1. \A j \in 1..Len(f.slice) : j \in 1..Len(tree[f.node])
    BY <1>3, <1>4
  <2>2. Len(f.slice) =< Len(t[f.node])
    BY <1>3, <1>4
  <2>. QED
    BY <1>3, <1>4, <2>1, <2>2
<1>6. \A j \in 1..Len(t[f.node]) : t[f.node][j] \in Initial => j =< Len(f.slice)
  BY <1>3 DEF FrameFits
<1>7. CASE isLive
  <2>1. ChildrenIn(isLive, t, f) = t[f.node] /\ ChildrenIn(isLive, tree, f) = tree[f.node]
    BY <1>7 DEF ChildrenIn
  <2>2. f.i =< Len(t[f.node]) + 1
    BY <1>1, <1>3, <2>1 DEF FrameFits
  <2>3. ASSUME NEW j \in 1..Len(t[f.node]) PROVE t[f.node][j] \in seen <=> j < f.i
    <3>1. CASE j \in 1..Len(tree[f.node]) /\ t[f.node][j] = tree[f.node][j]
      BY <2>1, <3>1 DEF FrameFits
    <3>2. CASE j = Len(tree[f.node]) + 1 /\ t[f.node][j] = c
      BY <1>1, <1>3, <2>1, <3>2 DEF FrameFits
    <3>. QED
      BY <1>3, <3>1, <3>2
  <2>. QED
    BY <1>5, <1>6, <2>1, <2>2, <2>3 DEF FrameFits, t
<1>8. CASE ~isLive
  <2>1. ChildrenIn(isLive, t, f) = ChildrenIn(isLive, tree, f)
    BY <1>8 DEF ChildrenIn
  <2>. QED
    BY <1>5, <1>6, <2>1 DEF FrameFits, t
<1>. QED
  BY <1>7, <1>8

\* The tree that Walk is called on.
LEMMA InitialTree ==
    ASSUME NEW parent \in TreesOf(Size), NEW hidden \in SUBSET Initial, NEW t,
           t = [n \in Nodes |-> IF n \in Initial \ hidden THEN KidsOf(parent)[n] ELSE <<>>]
    PROVE  TreeFits(t, {}) /\ ShapeFits(t, parent, hidden)
<1> DEFINE Kids(n) == {m \in 1..Size : parent[m] = n}
<1>1. /\ DOMAIN parent = 1..Size /\ parent[Root] = NoParent
      /\ \A m \in 1..Size : m # Root => parent[m] \in 1..(m - 1)
  BY DEF TreesOf, Root
<1>2. Initial = 1..Size /\ Initial \subseteq Nodes /\ Root \in Initial /\ Root = 1
      /\ \A n \in Nodes : n \in Nat /\ n >= 1
  BY DEF Initial, Nodes, Root
<1>3. ASSUME NEW n \in Initial \ hidden
      PROVE  /\ t[n] \in Seq(Kids(n))
             /\ \A x \in Kids(n) : \E i \in 1..Len(t[n]) : t[n][i] = x
             /\ \A i, j \in 1..Len(t[n]) : t[n][i] = t[n][j] => i = j
  <2>1. t[n] = Ascending(Kids(n))
    BY <1>1, <1>2, <1>3 DEF KidsOf
  <2>2. Kids(n) \in SUBSET Nat /\ IsFiniteSet(Kids(n))
    <3>1. IsFiniteSet(1..Size)
      BY FS_Interval
    <3>2. Kids(n) \in SUBSET (1..Size)
      OBVIOUS
    <3> HIDE DEF Kids
    <3>3. IsFiniteSet(Kids(n))
      BY <3>1, <3>2, FS_Subset
    <3>. QED
      BY <3>2, <3>3
  <2> HIDE DEF Kids
  <2>3. ListsOnce(t[n], Kids(n))
    BY <2>1, <2>2, AscendingFacts
  <2>. QED
    BY <2>3 DEF ListsOnce
<1>4. ASSUME NEW n \in Nodes, n \notin Initial \ hidden PROVE t[n] = <<>> /\ Len(t[n]) = 0
  BY <1>4
<1>5. \A n \in Initial : \A m \in Kids(n) : m \in Initial /\ m > n /\ m # Root /\ parent[m] = n
  BY <1>1, <1>2 DEF NoParent
<1>6. t \in [Nodes -> Seq(Nodes)]
  <2>1. ASSUME NEW n \in Initial \ hidden PROVE KidsOf(parent)[n] \in Seq(Nodes)
    <3>1. t[n] = KidsOf(parent)[n]
      BY <1>2, <2>1
    <3>2. Kids(n) \subseteq Nodes
      BY <1>2
    <3>3. t[n] \in Seq(Kids(n))
      BY <1>3, <2>1
    <3> HIDE DEF Kids
    <3>. QED
      BY <3>1, <3>2, <3>3
  <2>. QED
    BY <2>1
<1>7. \A m \in Initial \ {Root} : m \in Kids(parent[m]) /\ parent[m] \in Initial
  BY <1>1, <1>2
<1> HIDE DEF Kids
<1>8. ASSUME NEW n \in Nodes, NEW i \in 1..Len(t[n])
      PROVE  n \in Initial \ hidden /\ t[n][i] \in Kids(n)
  <2>1. n \in Initial \ hidden
    BY <1>4, <1>8
  <2>. QED
    BY <1>3, <1>8, <2>1
<1>9. ASSUME NEW n \in Nodes, NEW m \in Nodes, NEW i \in 1..Len(t[n]), NEW j \in 1..Len(t[m]),
             t[n][i] = t[m][j]
      PROVE  n = m /\ i = j
  <2>1. n = m
    BY <1>5, <1>8, <1>9
  <2>. QED
    BY <1>3, <1>8, <1>9, <2>1
<1>10. ShapeFits(t, parent, hidden)
  <2>1. ASSUME NEW m \in Initial \ {Root}, parent[m] \notin hidden
        PROVE  \E i \in 1..Len(t[parent[m]]) : t[parent[m]][i] = m
    BY <1>3, <1>7, <2>1
  <2>2. ASSUME NEW n \in Nodes, NEW i \in 1..Len(t[n])
        PROVE  n \notin hidden /\ n = parent[t[n][i]]
    BY <1>5, <1>8
  <2>. QED
    BY <2>1, <2>2 DEF ShapeFits
<1>11. \A n \in Nodes : \A i \in 1..Len(t[n]) : t[n][i] \in Initial \cup {} /\ t[n][i] > n
  BY <1>5, <1>8
<1>. QED
  BY <1>6, <1>9, <1>10, <1>11 DEF TreeFits

\* What is below a nil node, in terms of parents.
LEMMA SkippedFacts ==
    ASSUME above \in TreesOf(Size)
    PROVE  /\ Root \notin Skipped
           /\ \A n \in Initial \ {Root} :
                /\ above[n] \in Initial /\ above[n] < n
                /\ n \in Skipped <=> above[n] \in nil \cup Skipped
<1>1. Initial = 1..Size /\ Root = 1
  BY DEF Initial, Root
<1>2. Root \notin Skipped
  <2>1. Ancestors(above, 1) \subseteq 1..1
    BY <1>1, AncestorsFacts
  <2>. QED
    BY <1>1, <2>1 DEF Skipped
<1>3. ASSUME NEW n \in Initial \ {Root}
      PROVE  /\ above[n] \in Initial /\ above[n] < n
             /\ n \in Skipped <=> above[n] \in nil \cup Skipped
  <2>1. above[n] \in 1..(n - 1)
    BY <1>1, TreeFacts
  <2>2. above[n] \in 1..Size /\ above[n] < n
    BY <1>1, <2>1
  <2>3. \A m : m \in Ancestors(above, n) <=> m = n \/ m \in Ancestors(above, above[n])
    BY <1>1, AncestorsFacts
  <2>4. above[n] \in Ancestors(above, above[n]) /\ Ancestors(above, above[n]) \subseteq 1..above[n]
    BY <2>2, AncestorsFacts
  <2>5. n \notin Ancestors(above, above[n])
    BY <2>1, <2>4
  <2>6. Ancestors(above, n) \ {n} = Ancestors(above, above[n])
    BY <2>3, <2>5
  <2>7. n \in Skipped <=> Ancestors(above, above[n]) \cap nil # {}
    BY <2>6 DEF Skipped
  <2>8. above[n] \in Skipped <=> (Ancestors(above, above[n]) \ {above[n]}) \cap nil # {}
    BY <1>1, <2>2 DEF Skipped
  <2>. QED
    BY <1>1, <2>2, <2>4, <2>7, <2>8
<1>. QED
  BY <1>2, <1>3

\* The numbers of the nodes.
LEMMA NodesFacts ==
    ASSUME TypeOK
    PROVE  Initial \subseteq Nodes /\ added \subseteq Nodes /\ Nodes \subseteq Nat
<1>1. PICK k \in 0..MaxAdds : added = (Size + 1)..(Size + k)
  BY DEF TypeOK
<1>. QED
  BY <1>1 DEF Initial, Nodes

\* The frame of a call and what it loops over, in terms of the tree offered.
LEMMA OfferedFacts ==
    /\ \A n \in Nodes : Offered(kids, n) = Tree[n]
    /\ UNCHANGED given => \A n \in Nodes : Offered(kids', n) = Tree'[n]
BY DEF Tree, Offered, given

LEMMA InitIInv == Init => IInv
<1> SUFFICES ASSUME Init PROVE IInv
  OBVIOUS
<1>1. /\ TreeFits(Tree, added) /\ ShapeFits(Tree, above, nil)
      /\ kids \in [Nodes -> Seq(Nodes)]
  <2>1. /\ above \in TreesOf(Size) /\ nil \in SUBSET Initial /\ added = {}
        /\ kids = [n \in Nodes |-> IF n \in Initial THEN KidsOf(above)[n] ELSE <<>>]
    BY DEF Init
  <2>2. kids = [n \in Nodes |-> IF n \in Initial \ {} THEN KidsOf(above)[n] ELSE <<>>]
    BY <2>1
  <2>3. TreeFits(kids, {})
    BY <2>1, <2>2, InitialTree
  <2>4. Tree = [n \in Nodes |-> IF n \in Initial \ nil THEN KidsOf(above)[n] ELSE <<>>]
    BY <2>1 DEF Tree, Offered
  <2>5. TreeFits(Tree, {}) /\ ShapeFits(Tree, above, nil)
    BY <2>1, <2>4, InitialTree
  <2>. QED
    BY <2>1, <2>3, <2>5 DEF TreeFits
<1>2. Cardinality(added) = 0 /\ Range(called) = {}
  BY FS_EmptySet DEF Init, Range
<1>3. TypeOK
  BY <1>1, <1>2 DEF Init, TypeOK
<1>4. StackFits(live, Tree, stack, Range(called))
  BY DEF Init, StackFits
<1>. QED
  BY <1>1, <1>2, <1>3, <1>4
  DEF Init, IInv, CalledOnce, CalledInOrder, UnvisitedInv, ReturnedInv, VisibleInv, StatusInv

-----------------------------------------------------------------------------
(* The steps *)

\* What the callback does to the tree, whatever frames there are: it has the
\* shape of before, and what is new in it was not visited.
LEMMA CallbackFacts ==
    ASSUME IInv, UNCHANGED given, MayAddChild
    PROVE  /\ TreeFits(Tree', added') /\ ShapeFits(Tree', above, nil)
           /\ kids' \in [Nodes -> Seq(Nodes)]
           /\ added \subseteq added' /\ Cardinality(added') \in 0..MaxAdds
           /\ added' = (Size + 1)..(Size + Cardinality(added'))
           /\ \A f, seen : seen \subseteq Initial \cup added /\ FrameFits(live, Tree, f, seen)
                             => FrameFits(live, Tree', f, seen)
           /\ \A n \in Nodes : \A i \in 1..Len(Tree[n]) :
                i \in 1..Len(Tree'[n]) /\ Tree'[n][i] = Tree[n][i]
           /\ \A n \in Nodes : \A i \in 1..Len(Tree'[n]) :
                \/ i \in 1..Len(Tree[n]) /\ Tree'[n][i] = Tree[n][i]
                \/ Tree'[n][i] \notin Initial \cup added
<1>1. /\ TreeFits(Tree, added) /\ Tree \in [Nodes -> Seq(Nodes)] /\ live \in BOOLEAN
      /\ Cardinality(added) \in 0..MaxAdds /\ added = (Size + 1)..(Size + Cardinality(added))
      /\ ShapeFits(Tree, above, nil) /\ above \in TreesOf(Size)
      /\ kids \in [Nodes -> Seq(Nodes)]
  BY DEF IInv, TypeOK, TreeFits
<1>2. CASE UNCHANGED <<kids, added>>
  <2>1. Tree' = Tree
    BY <1>2 DEF Tree, Offered, given
  <2>. QED
    BY <1>1, <1>2, <2>1
<1>3. CASE \E m \in (Initial \cup added) \ nil :
             LET new == Size + Cardinality(added) + 1
             IN  /\ new \in Nodes
                 /\ kids' = [kids EXCEPT ![m] = Append(@, new)]
                 /\ added' = added \cup {new}
  <2>0. PICK k \in 0..MaxAdds : k = Cardinality(added) /\ added = (Size + 1)..(Size + k)
    BY <1>1
  <2>a. added = (Size + 1)..(Size + k) /\ k \in Nat /\ k =< MaxAdds
    BY <2>0
  <2> DEFINE new == Size + k + 1
  <2>1. PICK m \in (Initial \cup added) \ nil :
           new \in Nodes /\ kids' = [kids EXCEPT ![m] = Append(@, new)] /\ added' = added \cup {new}
    BY <1>3, <2>0
  <2>2. /\ added \subseteq Nodes /\ m \in Nodes /\ Initial = 1..Size
        /\ new \notin Initial \cup added /\ \A n \in Initial \cup added : new > n
    <3>1. Initial = 1..Size /\ Nodes = 1..(Size + MaxAdds) /\ Size \in Nat /\ MaxAdds \in Nat
      BY DEF Initial, Nodes
    <3>2. \A n \in added : n \in Nat /\ n >= Size + 1 /\ n =< Size + k /\ n \in Nodes
      BY <2>a, <3>1
    <3>3. \A n \in Initial : n \in Nat /\ n =< Size /\ n \in Nodes
      BY <3>1
    <3>4. new \in Nat /\ new > Size + k /\ new > Size
      BY <2>a, <3>1
    <3>5. \A n \in Initial \cup added : new > n /\ n # new /\ n \in Nodes
      BY <3>2, <3>3, <3>4
    <3>. QED
      BY <2>1, <3>1, <3>5
  <2>b. kids' \in [Nodes -> Seq(Nodes)]
    <3>1. kids[m] \in Seq(Nodes)
      BY <1>1, <2>2
    <3>2. Append(kids[m], new) \in Seq(Nodes)
      BY <2>1, <3>1
    <3>. QED
      BY <1>1, <2>1, <2>2, <3>2
  <2>c. Tree' = Grown(Tree, m, new)
    <3>1. Tree' = [n \in Nodes |-> IF n \in nil THEN <<>> ELSE kids'[n]]
      BY DEF Tree, Offered, given
    <3>2. Tree = [n \in Nodes |-> IF n \in nil THEN <<>> ELSE kids[n]]
      BY DEF Tree, Offered
    <3>3. Grown(Tree, m, new) = [n \in Nodes |-> IF n = m THEN Append(Tree[m], new) ELSE Tree[n]]
      BY <2>2, <3>2 DEF Grown
    <3>4. \A n \in Nodes : kids'[n] = IF n = m THEN Append(kids[m], new) ELSE kids[n]
      BY <1>1, <2>1, <2>2
    <3> HIDE DEF new
    <3>5. m \notin nil /\ Tree[m] = kids[m]
      BY <2>1, <2>2, <3>2
    <3>6. \A n \in Nodes : (IF n \in nil THEN <<>> ELSE kids'[n])
                            = (IF n = m THEN Append(Tree[m], new) ELSE Tree[n])
      BY <3>2, <3>4, <3>5
    <3>. QED
      BY <3>1, <3>3, <3>6
  <2>d. ShapeFits(Tree', above, nil)
    BY <1>1, <2>1, <2>2, <2>c, GrownShape
  <2>3. TreeFits(Tree', added')
    BY <1>1, <2>1, <2>2, <2>c, GrownTree
  <2>4. GrowsTo(Tree, m, new, Tree')
    BY <1>1, <2>1, <2>2, <2>c, GrownFacts
  <2>5. \A f, seen : seen \subseteq Initial \cup added /\ FrameFits(live, Tree, f, seen)
                       => FrameFits(live, Tree', f, seen)
    BY <1>1, <2>1, <2>2, <2>c, GrownFrame
  <2>6. Cardinality(added') = k + 1
    <3>1. IsFiniteSet(added)
      BY <2>0, FS_Interval
    <3>. QED
      BY <2>0, <2>1, <2>2, <3>1, FS_AddElement
  <2>7. Cardinality(added') \in 0..MaxAdds /\ added' = (Size + 1)..(Size + Cardinality(added'))
    <3>1. k + 1 =< MaxAdds
      BY <2>0, <2>1 DEF Nodes
    <3>2. added \cup {new} = (Size + 1)..(Size + (k + 1))
      BY <2>a
    <3>3. k + 1 \in 0..MaxAdds
      BY <2>0, <3>1
    <3>. QED
      BY <2>1, <2>6, <3>2, <3>3
  <2>8. /\ \A n \in Nodes : \A i \in 1..Len(Tree[n]) :
             i \in 1..Len(Tree'[n]) /\ Tree'[n][i] = Tree[n][i]
        /\ \A n \in Nodes : \A i \in 1..Len(Tree'[n]) :
             \/ i \in 1..Len(Tree[n]) /\ Tree'[n][i] = Tree[n][i]
             \/ Tree'[n][i] \notin Initial \cup added
    <3> HIDE DEF new
    <3>. QED
      BY <2>2, <2>4 DEF GrowsTo
  <2>9. added \subseteq added'
    BY <2>1
  <2>. QED
    BY <2>3, <2>5, <2>7, <2>8, <2>9, <2>b, <2>d
<1>. QED
  BY <1>2, <1>3 DEF MayAddChild

\* The frame of a new call.
LEMMA NewFrame ==
    ASSUME NEW isLive \in BOOLEAN, NEW tree \in [Nodes -> Seq(Nodes)], NEW seen, NEW n \in Nodes,
           n \in seen, \A i \in 1..Len(tree[n]) : tree[n][i] \notin seen
    PROVE  FrameFits(isLive, tree, [node |-> n, slice |-> tree[n], i |-> 1], seen)
<1> DEFINE f == [node |-> n, slice |-> tree[n], i |-> 1]
<1>1. f \in Frames /\ f.node = n /\ f.slice = tree[n] /\ f.i = 1
  BY DEF Frames
<1>2. ChildrenIn(isLive, tree, f) = tree[n] /\ Len(tree[n]) \in Nat
  BY <1>1 DEF ChildrenIn
<1> HIDE DEF f
<1>. QED
  BY <1>1, <1>2 DEF FrameFits, f

\* One more frame.
LEMMA PushedFrame ==
    ASSUME NEW isLive, NEW tree, NEW seen, NEW frames, StackFits(isLive, tree, frames, seen),
           NEW f, FrameFits(isLive, tree, f, seen),
           \A k \in 1..Len(frames) : frames[k].node # f.node
    PROVE  StackFits(isLive, tree, Append(frames, f), seen)
<1> DEFINE s == Append(frames, f)
<1>1. frames \in Seq(Frames) /\ f \in Frames /\ Len(frames) \in Nat
  BY DEF StackFits, FrameFits
<1>2. /\ s \in Seq(Frames) /\ Len(s) = Len(frames) + 1
      /\ \A k \in 1..Len(frames) : s[k] = frames[k]
      /\ s[Len(frames) + 1] = f
  BY <1>1
<1> HIDE DEF s
<1>3. \A k \in 1..Len(s) : (k \in 1..Len(frames) /\ s[k] = frames[k]) \/ (k = Len(frames) + 1 /\ s[k] = f)
  BY <1>1, <1>2
<1>4. \A k \in 1..Len(s) : FrameFits(isLive, tree, s[k], seen)
  BY <1>3 DEF StackFits
<1>5. \A k, l \in 1..Len(s) : s[k].node = s[l].node => k = l
  BY <1>3 DEF StackFits
<1>. QED
  BY <1>2, <1>4, <1>5 DEF StackFits, s

\* The callback for n and the loop that begins after it, in a call of Walk
\* whose callers' frames count n as visited already.
LEMMA VisitKeeps ==
    ASSUME IInv, status # "failed", NEW n \in Initial \cup added, n \notin Range(called),
           n = Root \/ Root \in Range(called), n \notin Skipped,
           NEW callers, Visit(n, callers),
           StackFits(live, Tree, callers, Range(called) \cup {n}),
           \A k \in 1..Len(callers) : callers[k].node \in Range(called),
           \A k \in 1..Len(stack) : \E l \in 1..Len(callers) : callers[l].node = stack[k].node,
           \A m \in Nodes : \A i \in 1..Len(Tree[m]) :
             Tree[m][i] = n => /\ m \in Range(called)
                               /\ \A j \in 1..(i - 1) : Tree[m][j] \in Range(called)
    PROVE  IInv'
<1> DEFINE seen == Range(called) \cup {n}
<1>1. /\ called \in Seq(Nodes) /\ Range(called) \subseteq Initial \cup added /\ live \in BOOLEAN
      /\ Initial \subseteq Nodes /\ added \subseteq Nodes /\ n \in Nodes
      /\ CalledOnce /\ CalledInOrder /\ UnvisitedInv /\ ReturnedInv /\ VisibleInv
      /\ seen \subseteq Initial \cup added
      /\ above \in TreesOf(Size) /\ nil \subseteq Initial
  <2>1. Initial \subseteq Nodes /\ added \subseteq Nodes
    BY NodesFacts DEF IInv
  <2>. QED
    BY <2>1 DEF IInv, TypeOK
<1>2. /\ TreeFits(Tree', added') /\ ShapeFits(Tree', above, nil)
      /\ kids' \in [Nodes -> Seq(Nodes)]
      /\ added \subseteq added' /\ Cardinality(added') \in 0..MaxAdds
      /\ added' = (Size + 1)..(Size + Cardinality(added'))
      /\ \A f : FrameFits(live, Tree, f, seen) => FrameFits(live, Tree', f, seen)
      /\ \A m \in Nodes : \A i \in 1..Len(Tree[m]) :
           i \in 1..Len(Tree'[m]) /\ Tree'[m][i] = Tree[m][i]
      /\ \A m \in Nodes : \A i \in 1..Len(Tree'[m]) :
           \/ i \in 1..Len(Tree[m]) /\ Tree'[m][i] = Tree[m][i]
           \/ Tree'[m][i] \notin Initial \cup added
  BY <1>1, CallbackFacts DEF Visit
<1>3. /\ called' = Append(called, n) /\ live' = live /\ status' \in {"failed", "running"}
      /\ above' = above /\ nil' = nil
  BY DEF Visit, given
<1>4. /\ called' \in Seq(Nodes) /\ Len(called) \in Nat /\ Len(called') = Len(called) + 1
      /\ DOMAIN called = 1..Len(called) /\ DOMAIN called' = 1..(Len(called) + 1)
      /\ \A x \in 1..Len(called) : called'[x] = called[x]
      /\ called'[Len(called) + 1] = n
  BY <1>1, <1>3
<1>5. Range(called') = seen
  BY <1>4 DEF Range
<1> HIDE DEF seen
<1>6. seen = Range(called) \cup {n}
  BY DEF seen
<1>7. TypeOK'
  BY <1>1, <1>2, <1>3, <1>4, <1>5 DEF TypeOK
<1>v. ShapeFits(Tree', above', nil') /\ VisibleInv'
  <2>1. Skipped' = Skipped
    BY <1>3 DEF Skipped
  <2>. QED
    BY <1>1, <1>2, <1>3, <1>5, <1>6, <2>1 DEF VisibleInv
<1>8. CalledOnce'
  <2>1. \A x \in 1..Len(called) : called[x] # n
    BY <1>4 DEF Range
  <2>. QED
    BY <1>1, <1>4, <2>1 DEF CalledOnce
<1>9. CalledInOrder'
  <2> SUFFICES ASSUME NEW m \in Nodes, NEW i \in 1..Len(Tree'[m]), NEW y \in DOMAIN called',
                      called'[y] = Tree'[m][i]
               PROVE  /\ \E x \in 1..(y - 1) : called'[x] = m
                      /\ \A j \in 1..(i - 1) : \E x \in 1..(y - 1) : called'[x] = Tree'[m][j]
    BY DEF CalledInOrder
  <2>1. called'[y] \in Initial \cup added
    BY <1>1, <1>5 DEF Range
  <2>2. i \in 1..Len(Tree[m]) /\ Tree[m][i] = called'[y]
    BY <1>2, <2>1
  <2>3. \A j \in 1..(i - 1) : Tree'[m][j] = Tree[m][j]
    <3>1. \A j \in 1..(i - 1) : j \in 1..Len(Tree[m])
      BY <2>2
    <3>. QED
      BY <1>2, <3>1
  <2>4. CASE y \in 1..Len(called)
    <3>1. called[y] = Tree[m][i] /\ y \in DOMAIN called
      BY <1>4, <2>2, <2>4
    <3>2. /\ \E x \in 1..(y - 1) : called[x] = m
          /\ \A j \in 1..(i - 1) : \E x \in 1..(y - 1) : called[x] = Tree[m][j]
      <4>1. CalledInOrder
        BY <1>1
      <4>. QED
        BY <2>2, <3>1, <4>1 DEF CalledInOrder
    <3>3. \A x \in 1..(y - 1) : called'[x] = called[x]
      BY <1>4, <2>4
    <3>. QED
      BY <2>3, <3>2, <3>3
  <2>5. CASE y = Len(called) + 1
    <3>1. m \in Range(called) /\ \A j \in 1..(i - 1) : Tree[m][j] \in Range(called)
      BY <1>4, <2>2, <2>5
    <3>2. \A v \in Range(called) : \E x \in 1..(y - 1) : called'[x] = v
      BY <1>4, <2>5 DEF Range
    <3>. QED
      BY <2>3, <3>1, <3>2
  <2>. QED
    BY <1>4, <2>4, <2>5
<1>10. UnvisitedInv'
  <2> SUFFICES ASSUME NEW m \in Nodes, m \notin seen, NEW i \in 1..Len(Tree'[m])
               PROVE  Tree'[m][i] \notin seen
    BY <1>5 DEF UnvisitedInv
  <2>1. CASE i \in 1..Len(Tree[m]) /\ Tree'[m][i] = Tree[m][i]
    BY <1>1, <1>6, <2>1 DEF UnvisitedInv
  <2>2. CASE Tree'[m][i] \notin Initial \cup added
    BY <1>1, <2>2 DEF seen
  <2>. QED
    BY <1>2, <2>1, <2>2
\* No child of n was visited: n was not.
<1>11. \A i \in 1..Len(Tree'[n]) : Tree'[n][i] \notin seen
  <2> SUFFICES ASSUME NEW i \in 1..Len(Tree'[n]) PROVE Tree'[n][i] \notin seen
    OBVIOUS
  <2>1. Tree'[n][i] # n
    <3>1. Tree'[n][i] > n
      BY <1>1, <1>2 DEF TreeFits
    <3>2. n \in Nat
      BY <1>1, NodesFacts DEF IInv
    <3>. QED
      BY <3>1, <3>2
  <2>2. CASE i \in 1..Len(Tree[n]) /\ Tree'[n][i] = Tree[n][i]
    BY <1>1, <1>6, <2>1, <2>2 DEF UnvisitedInv
  <2>3. CASE Tree'[n][i] \notin Initial \cup added
    BY <1>1, <2>3 DEF seen
  <2>. QED
    BY <1>1, <1>2, <2>2, <2>3
<1>12. CASE status' = "failed" /\ stack' = <<>>
  <2>1. StackFits(live', Tree', stack', Range(called'))
    BY <1>12 DEF StackFits
  <2>2. ReturnedInv' /\ StatusInv'
    BY <1>4, <1>5, <1>6, <1>12 DEF ReturnedInv, StatusInv
  <2>. QED
    BY <1>2, <1>7, <1>8, <1>9, <1>10, <1>v, <2>1, <2>2 DEF IInv
<1>13. CASE status' = "running" /\ stack' = Append(callers, [node |-> n, slice |-> Tree'[n], i |-> 1])
  <2> DEFINE f == [node |-> n, slice |-> Tree'[n], i |-> 1]
  <2>1. StackFits(live, Tree', callers, seen)
    BY <1>2, <1>6 DEF StackFits
  <2>2. Tree' \in [Nodes -> Seq(Nodes)] /\ n \in seen /\ f.node = n
    BY <1>2, <1>6 DEF TreeFits
  <2>3. FrameFits(live, Tree', f, seen)
    BY <1>1, <1>11, <2>2, NewFrame
  <2> HIDE DEF f
  <2>4. \A k \in 1..Len(callers) : callers[k].node # f.node
    BY <2>2
  <2>5. StackFits(live', Tree', stack', Range(called'))
    BY <1>3, <1>5, <1>13, <2>1, <2>3, <2>4, PushedFrame DEF f
  <2>6. /\ stack' = Append(callers, f) /\ callers \in Seq(Frames)
    BY <1>13, <2>1 DEF f, StackFits
  <2>7. /\ Len(callers) \in Nat /\ Len(stack') = Len(callers) + 1
        /\ \A k \in 1..Len(callers) : k \in 1..Len(stack') /\ stack'[k] = callers[k]
        /\ stack'[Len(callers) + 1] = f /\ Len(callers) + 1 \in 1..Len(stack')
    BY <2>6
  <2>8. ReturnedInv'
    <3> SUFFICES ASSUME NEW m \in seen
                 PROVE  \/ \E k \in 1..Len(stack') : stack'[k].node = m
                        \/ \A i \in 1..Len(Tree'[m]) : Tree'[m][i] \in Initial => Tree'[m][i] \in seen
      BY <1>5 DEF ReturnedInv
    <3>1. CASE m = n
      BY <2>2, <2>7, <3>1
    <3>2. CASE m \in Range(called) /\ \E k \in 1..Len(stack) : stack[k].node = m
      BY <2>7, <3>2
    <3>3. CASE m \in Range(called) /\ \A i \in 1..Len(Tree[m]) : Tree[m][i] \in Initial => Tree[m][i] \in Range(called)
      BY <1>1, <1>2, <1>6, <3>3
    <3>. QED
      BY <1>1, <1>6, <3>1, <3>2, <3>3 DEF ReturnedInv
  <2>9. StatusInv'
    <3>1. stack' # <<>> /\ Root \in seen
      BY <1>6, <2>7
    <3>. QED
      BY <1>5, <1>13, <3>1 DEF StatusInv
  <2>. QED
    BY <1>2, <1>7, <1>8, <1>9, <1>10, <1>v, <2>5, <2>8, <2>9 DEF IInv
<1>14. Offered(kids', n) = Tree'[n]
  BY <1>1, OfferedFacts DEF Visit
<1>. QED
  BY <1>12, <1>13, <1>14 DEF Visit

\* The loop under way, on the top of the stack.
LEMMA TopFacts ==
    ASSUME IInv, stack # <<>>
    PROVE  /\ stack \in Seq(Frames) /\ Len(stack) \in Nat \ {0} /\ Len(stack) \in 1..Len(stack)
           /\ \A k \in 1..Len(stack) : stack[k] \in Frames /\ FrameFits(live, Tree, stack[k], Range(called))
           /\ Top = stack[Len(stack)]
           /\ Children(Top) = ChildrenIn(live, Tree, Top) /\ Len(Children(Top)) \in Nat
           /\ \A j \in 1..Len(Children(Top)) :
                j \in 1..Len(Tree[Top.node]) /\ Children(Top)[j] = Tree[Top.node][j]
           /\ status = "running" /\ Root \in Range(called) /\ live \in BOOLEAN
<1>1. /\ StackFits(live, Tree, stack, Range(called)) /\ TreeFits(Tree, added)
      /\ live \in BOOLEAN /\ StatusInv
  BY DEF IInv, TypeOK
<1>2. stack \in Seq(Frames) /\ Len(stack) \in Nat \ {0} /\ Len(stack) \in 1..Len(stack)
  BY <1>1 DEF StackFits
<1>3. \A k \in 1..Len(stack) : stack[k] \in Frames /\ FrameFits(live, Tree, stack[k], Range(called))
  BY <1>1 DEF StackFits, FrameFits
<1>4. Top \in Frames /\ FrameFits(live, Tree, Top, Range(called))
  BY <1>2, <1>3 DEF Top
<1>5. Top.node \in Nodes /\ Top.slice \in Seq(Nodes) /\ Tree[Top.node] \in Seq(Nodes)
  BY <1>1, <1>4 DEF Frames, TreeFits
<1>6. Children(Top) = ChildrenIn(live, Tree, Top)
  BY <1>5, OfferedFacts DEF Children, ChildrenIn
<1>7. /\ Len(Children(Top)) \in Nat
      /\ \A j \in 1..Len(Children(Top)) :
           j \in 1..Len(Tree[Top.node]) /\ Children(Top)[j] = Tree[Top.node][j]
  <2>1. CASE live
    BY <1>5, <1>6, <2>1 DEF ChildrenIn
  <2>2. CASE ~live
    <3>1. Children(Top) = Top.slice /\ Len(Top.slice) =< Len(Tree[Top.node])
      BY <1>4, <1>6, <2>2 DEF ChildrenIn, FrameFits
    <3>2. \A j \in 1..Len(Top.slice) : j \in 1..Len(Tree[Top.node]) /\ Top.slice[j] = Tree[Top.node][j]
      BY <1>4, <1>5, <3>1 DEF FrameFits
    <3>. QED
      BY <1>5, <3>1, <3>2
  <2>. QED
    BY <2>1, <2>2
<1>8. status = "running" /\ Root \in Range(called)
  BY <1>1 DEF StatusInv
<1>. QED
  BY <1>1, <1>2, <1>3, <1>6, <1>7, <1>8 DEF Top

\* The stack of frames when the loop on top goes on to the next child, and when
\* it ends.
LEMMA NextChildStack ==
    ASSUME NEW s \in Seq(Frames), s # <<>>
    PROVE  \E g \in Frames :
             /\ g.node = s[Len(s)].node /\ g.slice = s[Len(s)].slice /\ g.i = s[Len(s)].i + 1
             /\ [s EXCEPT ![Len(s)].i = @ + 1] = [s EXCEPT ![Len(s)] = g]
<1> DEFINE f == s[Len(s)]
           g == [f EXCEPT !.i = f.i + 1]
<1>1. f \in Frames
  OBVIOUS
<1>2. g \in Frames /\ g.node = f.node /\ g.slice = f.slice /\ g.i = f.i + 1
  BY <1>1 DEF Frames
<1>3. [s EXCEPT ![Len(s)].i = @ + 1] = [s EXCEPT ![Len(s)] = g]
  OBVIOUS
<1> HIDE DEF g
<1>. QED
  BY <1>2, <1>3

LEMMA FrontOfStack ==
    ASSUME NEW s \in Seq(Frames), s # <<>>
    PROVE  /\ Front(s) \in Seq(Frames) /\ Len(Front(s)) = Len(s) - 1
           /\ \A k \in 1..(Len(s) - 1) : k \in 1..Len(s) /\ Front(s)[k] = s[k]
<1> DEFINE n == Len(s) - 1
<1>1. Len(s) \in Nat \ {0} /\ n \in Nat /\ n \in Int /\ 1 \in Int
  OBVIOUS
<1>2. Front(s) = SubSeq(s, 1, n)
  BY DEF Front
<1>3. \A k \in 1..n : k \in 1..Len(s) /\ s[k] \in Frames
  BY <1>1
<1> HIDE DEF n
<1>4. /\ SubSeq(s, 1, n) \in Seq(Frames)
      /\ Len(SubSeq(s, 1, n)) = IF 1 =< n THEN n - 1 + 1 ELSE 0
      /\ \A k \in 1..(n - 1 + 1) : SubSeq(s, 1, n)[k] = s[1 + k - 1]
  BY <1>1, <1>3, SubSeqProperties
<1>5. n - 1 + 1 = n /\ \A k \in 1..n : 1 + k - 1 = k
  BY <1>1
<1>6. Len(SubSeq(s, 1, n)) = n
  BY <1>1, <1>4
<1>7. \A k \in 1..n : SubSeq(s, 1, n)[k] = s[k]
  BY <1>4, <1>5
<1>. QED
  BY <1>2, <1>3, <1>4, <1>6, <1>7 DEF n

LEMMA DescendKeeps == IInv /\ Descend => IInv'
<1> SUFFICES ASSUME IInv, Descend PROVE IInv'
  OBVIOUS
<1> DEFINE n == Children(Top)[Top.i]
           L == Len(stack)
           callers == [stack EXCEPT ![Len(stack)].i = @ + 1]
           seen == Range(called) \cup {n}
<1>1. stack # <<>> /\ HasChild(Top) /\ Visit(n, callers)
  BY DEF Descend
<1>2. /\ stack \in Seq(Frames) /\ L \in Nat \ {0} /\ L \in 1..L
      /\ \A k \in 1..L : stack[k] \in Frames /\ FrameFits(live, Tree, stack[k], Range(called))
      /\ Top = stack[L]
      /\ Children(Top) = ChildrenIn(live, Tree, Top) /\ Len(Children(Top)) \in Nat
      /\ \A j \in 1..Len(Children(Top)) :
           j \in 1..Len(Tree[Top.node]) /\ Children(Top)[j] = Tree[Top.node][j]
      /\ status = "running" /\ Root \in Range(called) /\ live \in BOOLEAN
  BY <1>1, TopFacts
<1>3. /\ TreeFits(Tree, added) /\ StackFits(live, Tree, stack, Range(called))
  BY DEF IInv
<1>4. Top.i \in 1..Len(Children(Top)) /\ Top.i \in Nat /\ Top.node \in Nodes /\ FrameFits(live, Tree, Top, Range(called))
  <2>1. Top \in Frames /\ FrameFits(live, Tree, Top, Range(called))
    BY <1>2
  <2>2. Top.i \in Nat \ {0} /\ Top.node \in Nodes
    BY <2>1 DEF Frames
  <2>3. Top.i =< Len(Children(Top))
    BY <1>1 DEF HasChild
  <2>. QED
    BY <1>2, <2>1, <2>2, <2>3
<1>5. n = Tree[Top.node][Top.i] /\ Top.i \in 1..Len(Tree[Top.node])
  BY <1>2, <1>4
<1>6. n \in Initial \cup added /\ n \notin Range(called)
  <2>1. n \in Initial \cup added
    BY <1>3, <1>4, <1>5 DEF TreeFits
  <2>2. n \notin Range(called)
    BY <1>2, <1>4 DEF FrameFits
  <2>. QED
    BY <2>1, <2>2
<1>7. \A m \in Nodes : \A i \in 1..Len(Tree[m]) : Tree[m][i] = n => m = Top.node /\ i = Top.i
  BY <1>3, <1>4, <1>5 DEF TreeFits
<1>8. \A j \in 1..(Top.i - 1) : Tree[Top.node][j] \in Range(called)
  <2>1. \A j \in 1..Len(Children(Top)) : Children(Top)[j] \in Range(called) <=> j < Top.i
    BY <1>2, <1>4 DEF FrameFits
  <2>2. \A j \in 1..(Top.i - 1) : j \in 1..Len(Children(Top)) /\ j < Top.i
    BY <1>2, <1>4
  <2>. QED
    BY <1>2, <2>1, <2>2
<1>v. n \notin Skipped
  <2>1. CASE n \in Initial
    <3>1. Top.node \notin nil /\ Top.node = above[n]
      BY <1>4, <1>5, <2>1 DEF IInv, ShapeFits
    <3>2. Top.node \notin Skipped
      BY <1>4 DEF IInv, VisibleInv, FrameFits
    <3>. QED
      BY <2>1, <3>1, <3>2, SkippedFacts DEF IInv, TypeOK
  <2>. QED
    BY <2>1 DEF Skipped
<1>9. \E g \in Frames :
        /\ g.node = Top.node /\ g.slice = Top.slice /\ g.i = Top.i + 1
        /\ callers = [stack EXCEPT ![L] = g]
  BY <1>1, <1>2, NextChildStack
<1> HIDE DEF n, L, callers
<1>10. /\ callers \in Seq(Frames) /\ Len(callers) = L
       /\ \A k \in 1..L : k # L => callers[k] = stack[k]
       /\ callers[L] \in Frames
       /\ callers[L].node = Top.node /\ callers[L].slice = Top.slice /\ callers[L].i = Top.i + 1
  <2>1. PICK g \in Frames : /\ g.node = Top.node /\ g.slice = Top.slice /\ g.i = Top.i + 1
                            /\ callers = [stack EXCEPT ![L] = g]
    BY <1>9
  <2>2. Len(stack) = L
    BY DEF L
  <2>3. /\ callers \in Seq(Frames) /\ Len(callers) = L
        /\ \A k \in 1..L : k # L => callers[k] = stack[k]
        /\ callers[L] = g
    BY <1>2, <2>1, <2>2
  <2>. QED
    BY <2>1, <2>3
<1>11. \A k \in 1..L : callers[k].node = stack[k].node
  BY <1>2, <1>10
<1>12. ASSUME NEW k \in 1..L PROVE FrameFits(live, Tree, callers[k], seen)
  <2>1. CASE k # L
    <3>1. callers[k] = stack[k] /\ FrameFits(live, Tree, stack[k], Range(called)) /\ stack[k] \in Frames
      <4>1. FrameFits(live, Tree, stack[k], Range(called)) /\ stack[k] \in Frames
        BY <1>2, Zenon
      <4>2. callers[k] = stack[k]
        BY <1>10, <2>1, Zenon
      <4>. QED
        BY <4>1, <4>2
    <3>2. stack[k].node # Top.node /\ stack[k].node \in Nodes
      <4>1. stack[k].node \in Nodes
        BY <3>1 DEF Frames
      <4>2. \A l, m \in 1..L : stack[l].node = stack[m].node => l = m
        BY <1>3 DEF StackFits, L
      <4>3. stack[k].node # stack[L].node
        BY <1>2, <2>1, <4>2, Zenon
      <4>. QED
        BY <1>2, <4>1, <4>3
    <3>3. \A j \in 1..Len(ChildrenIn(live, Tree, stack[k])) : ChildrenIn(live, Tree, stack[k])[j] # n
      <4>1. \A j \in 1..Len(Tree[stack[k].node]) : Tree[stack[k].node][j] # n
        BY <1>7, <3>2
      <4>2. \A j \in 1..Len(stack[k].slice) : stack[k].slice[j] # n
        <5>1. stack[k].slice \in Seq(Nodes) /\ Tree[stack[k].node] \in Seq(Nodes)
          BY <1>3, <3>1, <3>2 DEF Frames, TreeFits
        <5>2. /\ Len(stack[k].slice) =< Len(Tree[stack[k].node])
              /\ \A j \in 1..Len(stack[k].slice) : stack[k].slice[j] = Tree[stack[k].node][j]
          BY <3>1 DEF FrameFits
        <5>3. \A j \in 1..Len(stack[k].slice) : j \in 1..Len(Tree[stack[k].node])
          BY <5>1, <5>2
        <5>. QED
          BY <4>1, <5>2, <5>3
      <4>. QED
        BY <4>1, <4>2 DEF ChildrenIn
    <3>. QED
      BY <3>1, <3>3 DEF FrameFits
  <2>2. CASE k = L
    <3> DEFINE g == callers[L]
    <3>1. /\ g \in Frames /\ g.node = Top.node /\ g.slice = Top.slice /\ g.i = Top.i + 1
          /\ ChildrenIn(live, Tree, g) = Children(Top)
      BY <1>2, <1>10 DEF ChildrenIn
    <3> HIDE DEF g
    <3>2. \A j \in 1..Len(Children(Top)) : Children(Top)[j] \in Range(called) <=> j < Top.i
      BY <1>2, <1>4 DEF FrameFits
    <3>3. \A j \in 1..Len(Children(Top)) : Children(Top)[j] = n <=> j = Top.i
      BY <1>2, <1>4, <1>7 DEF n
    <3>4. \A j \in 1..Len(Children(Top)) : Children(Top)[j] \in seen <=> j < Top.i + 1
      BY <1>2, <1>4, <3>2, <3>3
    <3>5. Top.i + 1 =< Len(Children(Top)) + 1
      BY <1>2, <1>4
    <3>6. FrameFits(live, Tree, g, seen)
      BY <1>4, <3>1, <3>4, <3>5 DEF FrameFits
    <3>. QED
      BY <2>2, <3>6 DEF g
  <2>. QED
    BY <2>1, <2>2
<1>13. StackFits(live, Tree, callers, seen)
  <2>1. \A k, l \in 1..L : callers[k].node = callers[l].node => k = l
    BY <1>3, <1>11 DEF StackFits, L
  <2>. QED
    BY <1>10, <1>12, <2>1 DEF StackFits
<1>14. \A k \in 1..Len(callers) : callers[k].node \in Range(called)
  BY <1>2, <1>10, <1>11 DEF FrameFits
<1>15. \A k \in 1..Len(stack) : \E l \in 1..Len(callers) : callers[l].node = stack[k].node
  BY <1>10, <1>11 DEF L
<1>16. \A m \in Nodes : \A i \in 1..Len(Tree[m]) :
          Tree[m][i] = n => /\ m \in Range(called)
                            /\ \A j \in 1..(i - 1) : Tree[m][j] \in Range(called)
  BY <1>4, <1>7, <1>8 DEF FrameFits
<1>. QED
  BY <1>1, <1>2, <1>6, <1>13, <1>14, <1>15, <1>16, <1>v, VisitKeeps

LEMMA StartKeeps == IInv /\ Start => IInv'
<1> SUFFICES ASSUME IInv, Start PROVE IInv'
  OBVIOUS
<1>1. status = "start" /\ Visit(Root, <<>>) /\ stack = <<>> /\ called = <<>>
  BY DEF Start, IInv, StatusInv
<1>2. Root \in Initial \cup added /\ Range(called) = {} /\ Len(stack) = 0
  BY <1>1 DEF Root, Initial, Range
<1>3. StackFits(live, Tree, <<>>, Range(called) \cup {Root})
  BY DEF StackFits
<1>4. \A m \in Nodes : \A i \in 1..Len(Tree[m]) : Tree[m][i] # Root
  <2>1. \A m \in Nodes : \A i \in 1..Len(Tree[m]) : Tree[m][i] > m /\ Tree[m][i] \in Initial \cup added
    BY DEF IInv, TreeFits
  <2>2. \A m \in Nodes : m \in Nat /\ m >= 1
    BY DEF Nodes
  <2>. QED
    BY <2>1, <2>2 DEF Root
<1>5. Root \notin Skipped
  BY SkippedFacts DEF IInv, TypeOK
<1>. QED
  BY <1>1, <1>2, <1>3, <1>4, <1>5, VisitKeeps

\* A loop that has no next child has visited what it iterates over, and so the
\* children of Walk's tree.
LEMMA LoopDone ==
    ASSUME IInv, stack # <<>>, ~HasChild(Top)
    PROVE  /\ \A j \in 1..Len(Children(Top)) : Children(Top)[j] \in Range(called)
           /\ \A j \in 1..Len(Tree[Top.node]) :
                Tree[Top.node][j] \in Initial => Tree[Top.node][j] \in Range(called)
<1>1. /\ Top \in Frames /\ FrameFits(live, Tree, Top, Range(called))
      /\ Children(Top) = ChildrenIn(live, Tree, Top) /\ Len(Children(Top)) \in Nat
  BY TopFacts
<1>2. Top.i \in Nat /\ ~(Top.i =< Len(Children(Top))) /\ Top.slice \in Seq(Nodes)
  BY <1>1 DEF HasChild, Frames
<1>3. \A j \in 1..Len(Children(Top)) : Children(Top)[j] \in Range(called)
  <2>1. \A j \in 1..Len(Children(Top)) : Children(Top)[j] \in Range(called) <=> j < Top.i
    BY <1>1 DEF FrameFits
  <2>2. \A j \in 1..Len(Children(Top)) : j < Top.i
    BY <1>1, <1>2
  <2>. QED
    BY <2>1, <2>2
<1>4. ASSUME NEW j \in 1..Len(Tree[Top.node]), Tree[Top.node][j] \in Initial
      PROVE  Tree[Top.node][j] \in Range(called)
  <2>1. CASE live
    <3>1. Children(Top) = Tree[Top.node]
      BY <1>1, <2>1 DEF ChildrenIn
    <3>. QED
      BY <1>3, <3>1
  <2>2. CASE ~live
    <3>1. Children(Top) = Top.slice
      BY <1>1, <2>2 DEF ChildrenIn
    <3>2. j =< Len(Top.slice) /\ j \in Nat /\ j >= 1
      BY <1>1, <1>4 DEF FrameFits
    <3>3. Len(Top.slice) \in Nat
      BY <1>2
    <3>4. j \in 1..Len(Top.slice)
      BY <3>2, <3>3
    <3>5. Top.slice[j] = Tree[Top.node][j]
      BY <1>1, <3>4 DEF FrameFits
    <3>. QED
      BY <1>3, <3>1, <3>4, <3>5
  <2>. QED
    BY <2>1, <2>2
<1>. QED
  BY <1>3, <1>4

LEMMA ReturnKeeps == IInv /\ Return => IInv'
<1> SUFFICES ASSUME IInv, Return PROVE IInv'
  OBVIOUS
<1>1. /\ stack # <<>> /\ ~HasChild(Top) /\ stack' = Front(stack)
      /\ status' = IF Len(stack) = 1 THEN "returned" ELSE "running"
      /\ live' = live /\ above' = above /\ nil' = nil /\ kids' = kids
      /\ Tree' = Tree /\ added' = added /\ called' = called
  BY DEF Return, given, Tree, Offered
<1>2. stack \in Seq(Frames) /\ Len(stack) \in Nat \ {0} /\ Top = stack[Len(stack)]
      /\ Root \in Range(called)
  BY <1>1, TopFacts
<1>3. /\ stack' \in Seq(Frames) /\ Len(stack') = Len(stack) - 1
      /\ \A k \in 1..(Len(stack) - 1) : k \in 1..Len(stack) /\ stack'[k] = stack[k]
  BY <1>1, <1>2, FrontOfStack
<1>4. StackFits(live', Tree', stack', Range(called'))
  <2>1. StackFits(live, Tree, stack, Range(called))
    BY DEF IInv
  <2>2. \A k \in 1..Len(stack') : FrameFits(live, Tree, stack'[k], Range(called))
    BY <1>3, <2>1 DEF StackFits
  <2>3. \A k, l \in 1..Len(stack') : stack'[k].node = stack'[l].node => k = l
    BY <1>3, <2>1 DEF StackFits
  <2>. QED
    BY <1>1, <1>3, <2>2, <2>3 DEF StackFits
<1>5. ReturnedInv'
  <2> SUFFICES ASSUME NEW n \in Range(called)
               PROVE  \/ \E k \in 1..Len(stack') : stack'[k].node = n
                      \/ \A i \in 1..Len(Tree[n]) :
                           Tree[n][i] \in Initial => Tree[n][i] \in Range(called)
    BY <1>1 DEF ReturnedInv
  <2>1. CASE n = Top.node
    BY <1>1, <2>1, LoopDone
  <2>2. CASE n # Top.node /\ \E k \in 1..Len(stack) : stack[k].node = n
    <3>1. PICK k \in 1..Len(stack) : stack[k].node = n
      BY <2>2
    <3>2. k # Len(stack)
      BY <1>2, <2>2, <3>1
    <3>3. k \in 1..(Len(stack) - 1) /\ k \in 1..Len(stack')
      BY <1>2, <1>3, <3>1, <3>2
    <3>. QED
      BY <1>3, <3>1, <3>3
  <2>3. status = "running" /\ ReturnedInv
    BY <1>1, TopFacts DEF IInv
  <2>. QED
    BY <2>1, <2>2, <2>3 DEF ReturnedInv
<1>6. StatusInv'
  <2>1. CASE Len(stack) = 1
    <3>1. stack' = <<>> /\ status' = "returned"
      BY <1>1, <1>3, <2>1
    <3>. QED
      BY <1>1, <1>2, <3>1 DEF StatusInv
  <2>2. CASE Len(stack) # 1
    <3>1. stack' # <<>> /\ status' = "running"
      BY <1>1, <1>2, <1>3, <2>2
    <3>. QED
      BY <1>1, <1>2, <3>1 DEF StatusInv
  <2>. QED
    BY <2>1, <2>2
<1>7. /\ TypeOK' /\ TreeFits(Tree', added') /\ ShapeFits(Tree', above', nil')
      /\ CalledOnce' /\ CalledInOrder' /\ UnvisitedInv' /\ VisibleInv'
  <2>1. TypeOK'
    BY <1>1 DEF IInv, TypeOK
  <2>2. CalledOnce' /\ CalledInOrder' /\ UnvisitedInv'
    BY <1>1 DEF IInv, CalledOnce, CalledInOrder, UnvisitedInv
  <2>3. ShapeFits(Tree', above', nil') /\ VisibleInv'
    BY <1>1 DEF IInv, VisibleInv, Skipped
  <2>. QED
    BY <1>1, <2>1, <2>2, <2>3 DEF IInv
<1>. QED
  BY <1>4, <1>5, <1>6, <1>7 DEF IInv

LEMMA UnchangedKeeps == IInv /\ UNCHANGED vars => IInv'
<1> SUFFICES ASSUME IInv, UNCHANGED vars PROVE IInv'
  OBVIOUS
<1>1. /\ UNCHANGED <<live, above, nil, kids, added, stack, called, status>>
      /\ Tree' = Tree /\ Skipped' = Skipped
  BY DEF vars, given, Tree, Offered, Skipped
<1>. QED
  BY <1>1
  DEF IInv, TypeOK, CalledOnce, CalledInOrder, UnvisitedInv, ReturnedInv, VisibleInv, StatusInv

LEMMA NextIInv == IInv /\ [Next]_vars => IInv'
BY StartKeeps, DescendKeeps, ReturnKeeps, UnchangedKeeps DEF Next, Done

-----------------------------------------------------------------------------
(* What Walk promises *)

\* ast.Walk and resolved_ast.Walk keep the inductive invariant.
THEOREM InvariantHolds == Spec => []IInv
BY InitIInv, NextIInv, PTL DEF Spec

\* No child is left behind by a loop that ends.
THEOREM LoopsAreComplete == Spec => NoChildLeftBehind
<1> DEFINE Kept == stack # <<>> /\ stack' = Front(stack) /\ status' # "failed" =>
                       Range(IF live THEN Offered(kids, Top.node) ELSE Top.slice)
                           \subseteq Range(called)
<1>1. ASSUME IInv, [Next]_vars PROVE [Kept]_vars
  <2>1. CASE UNCHANGED vars
    BY <2>1
  <2>2. CASE Start \/ Done
    <3>1. stack = <<>>
      BY <1>1, <2>2 DEF Start, Done, IInv, StatusInv
    <3>. QED
      BY <3>1
  <2>3. CASE Descend
    <3>1. stack # <<>> /\ stack \in Seq(Frames) /\ Len(stack) \in Nat \ {0}
      BY <1>1, <2>3, TopFacts DEF Descend
    <3>2. Len(Front(stack)) = Len(stack) - 1
      BY <3>1, FrontOfStack
    <3>3. \/ status' = "failed"
          \/ \E f : stack' = Append([stack EXCEPT ![Len(stack)].i = @ + 1], f)
      BY <2>3 DEF Descend, Visit
    <3>4. ASSUME NEW f, stack' = Append([stack EXCEPT ![Len(stack)].i = @ + 1], f)
          PROVE  stack' # Front(stack)
      <4>1. PICK g \in Frames : [stack EXCEPT ![Len(stack)].i = @ + 1] = [stack EXCEPT ![Len(stack)] = g]
        BY <3>1, NextChildStack
      <4>2. [stack EXCEPT ![Len(stack)] = g] \in Seq(Frames) /\ Len([stack EXCEPT ![Len(stack)] = g]) = Len(stack)
        BY <3>1, <4>1
      <4>3. Len(stack') = Len(stack) + 1
        BY <3>4, <4>1, <4>2
      <4>. QED
        BY <3>1, <3>2, <4>3
    <3>. QED
      BY <3>3, <3>4
  <2>4. CASE Return
    <3>1. /\ stack # <<>> /\ \A j \in 1..Len(Children(Top)) : Children(Top)[j] \in Range(called)
      BY <1>1, <2>4, LoopDone DEF Return
    <3>2. DOMAIN Children(Top) = 1..Len(Children(Top))
      <4>1. Top \in Frames
        BY <1>1, <3>1, TopFacts
      <4>2. Tree \in [Nodes -> Seq(Nodes)]
        BY <1>1 DEF IInv, TreeFits
      <4>3. /\ Tree[Top.node] \in Seq(Nodes) /\ Top.slice \in Seq(Nodes)
            /\ Offered(kids, Top.node) = Tree[Top.node]
        BY <4>1, <4>2, OfferedFacts DEF Frames
      <4>. QED
        BY <4>3 DEF Children
    <3>3. Range(Children(Top)) \subseteq Range(called)
      BY <3>1, <3>2 DEF Range
    <3>. QED
      BY <3>3 DEF Children
  <2>. QED
    BY <1>1, <2>1, <2>2, <2>3, <2>4 DEF Next
<1>. QED
  BY <1>1, InvariantHolds, PTL DEF Spec, NoChildLeftBehind, Kept

\* When Walk returns nil, it has left out exactly what is below a nil node: the
\* least other node that it left out has a parent that is not nil and was
\* visited, and whose call has returned.
LEMMA AllCalled ==
    ASSUME IInv, status = "returned"
    PROVE  Initial \ Range(called) = Skipped
<1>1. /\ stack = <<>> /\ Root \in Range(called) /\ ReturnedInv /\ TreeFits(Tree, added)
      /\ ShapeFits(Tree, above, nil) /\ above \in TreesOf(Size) /\ VisibleInv
  BY DEF IInv, StatusInv, TypeOK
<1>2. Skipped \subseteq Initial \ Range(called)
  BY <1>1 DEF VisibleInv, Skipped
<1>3. SUFFICES ASSUME Initial \ (Range(called) \cup Skipped) # {} PROVE FALSE
  BY <1>2
<1>4. PICK n \in Initial \ (Range(called) \cup Skipped) :
         \A m \in Initial \ (Range(called) \cup Skipped) : n =< m
  <2>1. Initial \ (Range(called) \cup Skipped) \in SUBSET Nat
    BY DEF Initial
  <2>. QED
    BY <1>3, <2>1, LeastNatural
<1>5. n \in Initial \ {Root} /\ n \notin Skipped
  BY <1>1, <1>4
<1> DEFINE p == above[n]
<1>6. p \in Initial /\ p < n /\ p \notin nil /\ p \notin Skipped
  BY <1>1, <1>5, SkippedFacts
<1>7. PICK i \in 1..Len(Tree[p]) : Tree[p][i] = n
  BY <1>1, <1>5, <1>6 DEF ShapeFits
<1> HIDE DEF p
<1>8. p \in Range(called)
  <2>1. ~(n =< p)
    BY <1>5, <1>6 DEF Initial
  <2>. QED
    BY <1>4, <1>6, <2>1
<1>9. n \in Range(called)
  BY <1>1, <1>5, <1>7, <1>8 DEF ReturnedInv
<1>. QED
  BY <1>4, <1>9

-----------------------------------------------------------------------------
(* Depth first *)

\* Every visited node but the root is the child of one visited before.
ParentedInv ==
    \A y \in DOMAIN called :
        called[y] = Root \/ \E x \in 1..(y - 1) : IsChild(Tree, called[y], called[x])

\* What was visited since a loop began that is under way is below its node, and
\* the loops under way began in the order of the stack.
OpenInv ==
    \A k \in 1..Len(stack), x \in DOMAIN called :
        called[x] = stack[k].node =>
            /\ \A z \in (x + 1)..Len(called) :
                 \E w \in x..(z - 1) : IsChild(Tree, called[z], called[w])
            /\ \A l \in 1..(k - 1), y \in DOMAIN called : called[y] = stack[l].node => y < x

\* Between a node and its child come only nodes from below the children before,
\* with all the children that they had in Walk's tree.
TurnInv ==
    \A x, y \in DOMAIN called :
        IsChild(Tree, called[y], called[x]) =>
            \A z \in (x + 1)..(y - 1) :
                /\ \E w \in x..(z - 1) : IsChild(Tree, called[z], called[w])
                /\ \A j \in DOMAIN Tree[called[z]] :
                     Tree[called[z]][j] \in Initial =>
                         \E w \in (z + 1)..(y - 1) : called[w] = Tree[called[z]][j]

OrderInv == IInv /\ ParentedInv /\ OpenInv /\ TurnInv

\* The places in a well-formed tree and list of calls.
LEMMA Places ==
    ASSUME IInv
    PROVE  /\ called \in Seq(Nodes) /\ Len(called) \in Nat /\ DOMAIN called = 1..Len(called)
           /\ \A x \in 1..Len(called) : called[x] \in Initial \cup added /\ called[x] \in Nodes
           /\ \A v : v \in Range(called) <=> \E x \in 1..Len(called) : called[x] = v
           /\ \A n \in Nodes : Len(Tree[n]) \in Nat /\ DOMAIN Tree[n] = 1..Len(Tree[n])
           /\ Initial \subseteq Nodes /\ added \subseteq Nodes
<1>1. /\ called \in Seq(Nodes) /\ Range(called) \subseteq Initial \cup added
      /\ Tree \in [Nodes -> Seq(Nodes)] /\ Initial \subseteq Nodes /\ added \subseteq Nodes
  <2>1. Initial \subseteq Nodes /\ added \subseteq Nodes
    BY NodesFacts DEF IInv
  <2>. QED
    BY <2>1 DEF IInv, TypeOK, TreeFits
<1>2. Len(called) \in Nat /\ DOMAIN called = 1..Len(called)
  BY <1>1
<1>3. \A v : v \in Range(called) <=> \E x \in 1..Len(called) : called[x] = v
  BY <1>2 DEF Range
<1>4. \A n \in Nodes : Len(Tree[n]) \in Nat /\ DOMAIN Tree[n] = 1..Len(Tree[n])
  <2> SUFFICES ASSUME NEW n \in Nodes PROVE Len(Tree[n]) \in Nat /\ DOMAIN Tree[n] = 1..Len(Tree[n])
    OBVIOUS
  <2>1. Tree[n] \in Seq(Nodes)
    BY <1>1
  <2>. QED
    BY <2>1
<1>. QED
  BY <1>1, <1>2, <1>3, <1>4

\* A child is visited after its parent.
LEMMA ParentFirst ==
    ASSUME IInv, NEW x \in DOMAIN called, NEW y \in DOMAIN called,
           NEW i \in DOMAIN Tree[called[x]], called[y] = Tree[called[x]][i]
    PROVE  x < y
<1>1. called[x] \in Nodes /\ i \in 1..Len(Tree[called[x]]) /\ x \in Nat /\ y \in Nat
      /\ DOMAIN called = 1..Len(called)
  BY Places
<1>2. PICK v \in 1..(y - 1) : called[v] = called[x]
  BY <1>1 DEF IInv, CalledInOrder
<1>3. v \in DOMAIN called
  BY <1>1, <1>2
<1>4. v = x
  BY <1>2, <1>3 DEF IInv, CalledOnce
<1>. QED
  BY <1>1, <1>2, <1>4

\* So the calls are in depth-first order.
LEMMA OrderIsPreOrder == OrderInv => InPreOrder(Tree, Root, Initial, called)
<1> SUFFICES ASSUME OrderInv PROVE InPreOrder(Tree, Root, Initial, called)
  OBVIOUS
<1>1. IInv /\ CalledOnce /\ CalledInOrder /\ ParentedInv /\ TurnInv
  BY DEF OrderInv, IInv
<1>2. ASSUME NEW x \in DOMAIN called, NEW y \in DOMAIN called, NEW i \in DOMAIN Tree[called[x]],
             called[y] = Tree[called[x]][i]
      PROVE  /\ \A j \in 1..(i - 1) : \E w \in (x + 1)..(y - 1) : called[w] = Tree[called[x]][j]
             /\ \A z \in (x + 1)..(y - 1) :
                  /\ \E w \in x..(z - 1) : IsChild(Tree, called[z], called[w])
                  /\ \A j \in DOMAIN Tree[called[z]] :
                       Tree[called[z]][j] \in Initial =>
                           \E w \in (z + 1)..(y - 1) : called[w] = Tree[called[z]][j]
  <2>1. /\ called[x] \in Nodes /\ i \in 1..Len(Tree[called[x]]) /\ DOMAIN called = 1..Len(called)
        /\ Len(called) \in Nat /\ x \in Nat /\ y \in 1..Len(called)
        /\ DOMAIN Tree[called[x]] = 1..Len(Tree[called[x]]) /\ Len(Tree[called[x]]) \in Nat
    BY <1>1, Places
  <2>2. ASSUME NEW j \in 1..(i - 1)
        PROVE  \E w \in (x + 1)..(y - 1) : called[w] = Tree[called[x]][j]
    <3>1. PICK w \in 1..(y - 1) : called[w] = Tree[called[x]][j]
      BY <1>1, <1>2, <2>1 DEF CalledInOrder
    <3>2. w \in DOMAIN called /\ j \in DOMAIN Tree[called[x]]
      BY <2>1, <3>1
    <3>3. x < w
      BY <1>1, <3>1, <3>2, ParentFirst
    <3>4. w \in (x + 1)..(y - 1)
      BY <2>1, <3>1, <3>3
    <3>. QED
      BY <3>1, <3>4
  <2>3. IsChild(Tree, called[y], called[x])
    BY <1>2 DEF IsChild
  <2>. QED
    BY <1>1, <2>2, <2>3 DEF TurnInv
<1>. QED
  BY <1>1, <1>2 DEF InPreOrder, CalledOnce, ParentedInv

\* The visit of n, the root or a child of the node on top of the stack.
LEMMA VisitKeepsOrder ==
    ASSUME OrderInv, IInv', status # "failed",
           NEW n \in Initial \cup added, n \notin Range(called),
           NEW callers \in Seq(Frames), Visit(n, callers),
           Len(callers) = Len(stack),
           \A k \in 1..Len(stack) : callers[k].node = stack[k].node,
           \/ n = Root /\ stack = <<>> /\ called = <<>>
           \/ stack # <<>> /\ \A m \in Nodes : IsChild(Tree, n, m) <=> m = Top.node
    PROVE  OrderInv'
<1>1. /\ IInv /\ ParentedInv /\ OpenInv /\ TurnInv
      /\ CalledOnce /\ CalledInOrder /\ UnvisitedInv /\ ReturnedInv /\ TreeFits(Tree, added)
  BY DEF OrderInv, IInv
<1>2. PICK N \in Nat :
        /\ N = Len(called) /\ DOMAIN called = 1..N
        /\ \A x \in 1..N : called[x] \in Initial \cup added /\ called[x] \in Nodes /\ called[x] # n
        /\ \A v : v \in Range(called) <=> \E x \in 1..N : called[x] = v
  BY <1>1, Places
<1>3. called \in Seq(Nodes) /\ n \in Nodes /\ Initial \subseteq Nodes /\ added \subseteq Nodes
  BY <1>1, Places
<1>4. /\ called' = Append(called, n) /\ MayAddChild
      /\ \/ status' = "failed" /\ stack' = <<>>
         \/ \E f \in Frames : f.node = n /\ stack' = Append(callers, f)
  <2>1. Tree'[n] \in Seq(Nodes)
    BY <1>3 DEF IInv, TreeFits
  <2>2. [node |-> n, slice |-> Tree'[n], i |-> 1] \in Frames
    BY <1>3, <2>1 DEF Frames
  <2>. QED
    BY <1>3, <2>2, OfferedFacts DEF Visit
<1>5. /\ Len(called') = N + 1 /\ DOMAIN called' = 1..(N + 1)
      /\ \A x \in 1..N : called'[x] = called[x]
      /\ called'[N + 1] = n
  BY <1>2, <1>3, <1>4
<1>6. /\ \A m \in Nodes : DOMAIN Tree[m] = 1..Len(Tree[m]) /\ Len(Tree[m]) \in Nat
      /\ \A m \in Nodes : DOMAIN Tree'[m] = 1..Len(Tree'[m]) /\ Len(Tree'[m]) \in Nat
  <2>1. Tree \in [Nodes -> Seq(Nodes)] /\ Tree' \in [Nodes -> Seq(Nodes)]
    BY <1>1 DEF IInv, TreeFits
  <2> SUFFICES ASSUME NEW m \in Nodes
               PROVE  /\ DOMAIN Tree[m] = 1..Len(Tree[m]) /\ Len(Tree[m]) \in Nat
                      /\ DOMAIN Tree'[m] = 1..Len(Tree'[m]) /\ Len(Tree'[m]) \in Nat
    OBVIOUS
  <2>2. Tree[m] \in Seq(Nodes) /\ Tree'[m] \in Seq(Nodes)
    BY <2>1
  <2>. QED
    BY <2>2
<1>g. UNCHANGED given
  BY DEF Visit
<1>7. /\ \A m \in Nodes : \A i \in DOMAIN Tree[m] : i \in DOMAIN Tree'[m] /\ Tree'[m][i] = Tree[m][i]
      /\ \A m \in Nodes : \A i \in DOMAIN Tree'[m] :
           \/ i \in DOMAIN Tree[m] /\ Tree'[m][i] = Tree[m][i]
           \/ Tree'[m][i] \notin Initial \cup added
  BY <1>1, <1>4, <1>6, <1>g, CallbackFacts
\* Nothing new is a child of anything old.
<1>8. \A v \in Initial \cup added, m \in Nodes : IsChild(Tree', v, m) <=> IsChild(Tree, v, m)
  BY <1>7 DEF IsChild
\* What is visited by now is no child of n.
<1>9. ASSUME NEW y \in 1..(N + 1) PROVE ~IsChild(Tree', called'[y], n)
  <2>1. CASE y = N + 1
    <3>1. \A i \in DOMAIN Tree[n] : Tree[n][i] > n /\ n \in Nat
      BY <1>1, <1>3, <1>6 DEF TreeFits, Nodes
    <3>2. \A i \in DOMAIN Tree[n] : Tree[n][i] # n
      BY <3>1
    <3>3. ~IsChild(Tree, n, n)
      BY <3>2 DEF IsChild
    <3>. QED
      BY <1>3, <1>5, <1>8, <2>1, <3>3
  <2>2. CASE y \in 1..N
    <3>1. called[y] \in Range(called) /\ called'[y] = called[y] /\ called[y] \in Initial \cup added
      BY <1>2, <1>5, <2>2
    <3>2. \A i \in DOMAIN Tree[n] : Tree[n][i] \notin Range(called)
      BY <1>1, <1>3, <1>6 DEF UnvisitedInv
    <3>3. ~IsChild(Tree, called[y], n)
      BY <3>1, <3>2 DEF IsChild
    <3>. QED
      BY <1>3, <1>8, <3>1, <3>3
  <2>. QED
    BY <1>2, <2>1, <2>2
<1>10. \A x, y \in 1..N : IsChild(Tree', called'[y], called'[x]) <=> IsChild(Tree, called[y], called[x])
  BY <1>2, <1>5, <1>8
<1>11. \A x \in 1..N : IsChild(Tree', n, called'[x]) <=> stack # <<>> /\ called[x] = Top.node
  <2>1. \A x \in 1..N : IsChild(Tree', n, called'[x]) <=> IsChild(Tree, n, called[x])
    BY <1>2, <1>5, <1>8
  <2>2. N = 0 \/ (stack # <<>> /\ \A m \in Nodes : IsChild(Tree, n, m) <=> m = Top.node)
    BY <1>2
  <2>. QED
    BY <1>2, <2>1, <2>2
\* The node on top of the stack was visited.
<1>12. ASSUME stack # <<>>
       PROVE  /\ Len(stack) \in Nat /\ Len(stack) \in 1..Len(stack) /\ Top = stack[Len(stack)]
              /\ \E x \in 1..N : called[x] = Top.node
              /\ \A k \in 1..Len(stack) : stack[k].node \in Range(called)
  <2>1. /\ Len(stack) \in Nat /\ Len(stack) \in 1..Len(stack) /\ Top = stack[Len(stack)]
        /\ \A k \in 1..Len(stack) : FrameFits(live, Tree, stack[k], Range(called))
    BY <1>1, <1>12, TopFacts
  <2>2. \A k \in 1..Len(stack) : stack[k].node \in Range(called)
    BY <2>1 DEF FrameFits
  <2>. QED
    BY <1>2, <2>1, <2>2
<1>13. ParentedInv'
  <2> SUFFICES ASSUME NEW y \in 1..(N + 1)
               PROVE  called'[y] = Root \/ \E x \in 1..(y - 1) : IsChild(Tree', called'[y], called'[x])
    BY <1>5 DEF ParentedInv
  <2>1. CASE y \in 1..N
    <3>1. called[y] = Root \/ \E x \in 1..(y - 1) : IsChild(Tree, called[y], called[x])
      BY <1>1, <1>2, <2>1 DEF ParentedInv
    <3>2. \A x \in 1..(y - 1) : x \in 1..N
      BY <1>2, <2>1
    <3>. QED
      BY <1>5, <1>10, <2>1, <3>1, <3>2
  <2>2. CASE y = N + 1
    <3>1. CASE n = Root
      BY <1>5, <2>2, <3>1
    <3>2. CASE stack # <<>>
      <4>1. PICK x \in 1..N : called[x] = Top.node
        BY <1>12, <3>2
      <4>2. IsChild(Tree', n, called'[x]) /\ x \in 1..(y - 1)
        BY <1>2, <1>11, <2>2, <3>2, <4>1
      <4>. QED
        BY <1>5, <2>2, <4>2
    <3>. QED
      BY <3>1, <3>2
  <2>. QED
    BY <1>2, <2>1, <2>2
<1>14. TurnInv'
  <2> DEFINE Between(x, y, z) ==
               /\ \E w \in x..(z - 1) : IsChild(Tree', called'[z], called'[w])
               /\ \A j \in DOMAIN Tree'[called'[z]] :
                    Tree'[called'[z]][j] \in Initial =>
                        \E w \in (z + 1)..(y - 1) : called'[w] = Tree'[called'[z]][j]
  <2>0. (\A x, y \in DOMAIN called' :
            IsChild(Tree', called'[y], called'[x]) => \A z \in (x + 1)..(y - 1) : Between(x, y, z))
            => TurnInv'
    BY DEF TurnInv
  <2> SUFFICES ASSUME NEW x \in 1..(N + 1), NEW y \in 1..(N + 1),
                      IsChild(Tree', called'[y], called'[x]), NEW z \in (x + 1)..(y - 1)
               PROVE  Between(x, y, z)
    <3> HIDE DEF Between
    <3>. QED
      BY <1>5, <2>0
  <2>1. x \in 1..N
    BY <1>2, <1>5, <1>9
  <2>2. /\ z \in 1..N /\ \A w \in x..(z - 1) : w \in 1..N
        /\ \A w \in (z + 1)..(y - 1) : w \in 1..N
    BY <1>2, <2>1
  <2>3. /\ called[z] \in Nodes /\ called'[z] = called[z] /\ z \in DOMAIN called /\ x \in DOMAIN called
    BY <1>2, <1>5, <2>1, <2>2
  <2>4. \A j \in DOMAIN Tree'[called[z]] :
          Tree'[called[z]][j] \in Initial =>
              j \in DOMAIN Tree[called[z]] /\ Tree[called[z]][j] = Tree'[called[z]][j]
    BY <1>7, <2>3
  <2>5. SUFFICES /\ \E w \in x..(z - 1) : IsChild(Tree, called[z], called[w])
                 /\ \A j \in DOMAIN Tree[called[z]] :
                      Tree[called[z]][j] \in Initial =>
                          \E w \in (z + 1)..(y - 1) : called[w] = Tree[called[z]][j]
    <3>1. ASSUME \E w \in x..(z - 1) : IsChild(Tree, called[z], called[w])
          PROVE  \E w \in x..(z - 1) : IsChild(Tree', called'[z], called'[w])
      BY <1>10, <2>2, <3>1
    <3>2. ASSUME \A j \in DOMAIN Tree[called[z]] :
                   Tree[called[z]][j] \in Initial =>
                       \E w \in (z + 1)..(y - 1) : called[w] = Tree[called[z]][j],
                 NEW j \in DOMAIN Tree'[called[z]], Tree'[called[z]][j] \in Initial
          PROVE  \E w \in (z + 1)..(y - 1) : called'[w] = Tree'[called[z]][j]
      <4>1. j \in DOMAIN Tree[called[z]] /\ Tree[called[z]][j] = Tree'[called[z]][j]
        BY <2>4, <3>2
      <4>2. PICK w \in (z + 1)..(y - 1) : called[w] = Tree[called[z]][j]
        BY <3>2, <4>1
      <4>. QED
        BY <1>5, <2>2, <4>1, <4>2
    <3>. QED
      BY <2>3, <3>1, <3>2
  <2>6. CASE y \in 1..N
    <3>1. IsChild(Tree, called[y], called[x])
      BY <1>10, <2>1, <2>6
    <3>2. x \in DOMAIN called /\ y \in DOMAIN called
      BY <1>2, <2>1, <2>6
    <3>3. TurnInv /\ z \in (x + 1)..(y - 1)
      BY <1>1
    <3>. QED
      BY <3>1, <3>2, <3>3, Zenon DEF TurnInv
  <2>7. CASE y = N + 1
    <3>1. stack # <<>> /\ called[x] = Top.node
      BY <1>5, <1>11, <2>1, <2>7
    <3>2. /\ Len(stack) \in Nat /\ Len(stack) \in 1..Len(stack) /\ Top = stack[Len(stack)]
      BY <1>12, <3>1
    <3>3. z \in (x + 1)..Len(called)
      BY <1>2, <2>1, <2>2
    <3>4. /\ \E w \in x..(z - 1) : IsChild(Tree, called[z], called[w])
          /\ \A l \in 1..(Len(stack) - 1), v \in DOMAIN called : called[v] = stack[l].node => v < x
      BY <1>1, <2>3, <3>1, <3>2, <3>3 DEF OpenInv
    \* The loop at z has ended.
    <3>5. \A k \in 1..Len(stack) : stack[k].node # called[z]
      <4> SUFFICES ASSUME NEW k \in 1..Len(stack), stack[k].node = called[z] PROVE FALSE
        OBVIOUS
      <4>1. CASE k = Len(stack)
        <5>1. called[z] = called[x]
          BY <3>1, <3>2, <4>1
        <5>2. z = x
          BY <1>1, <2>3, <5>1 DEF CalledOnce
        <5>. QED
          BY <2>1, <5>2
      <4>2. CASE k # Len(stack)
        <5>1. k \in 1..(Len(stack) - 1)
          BY <3>2, <4>2
        <5>2. z < x
          BY <2>3, <3>4, <5>1
        <5>. QED
          BY <2>1, <5>2
      <4>. QED
        BY <4>1, <4>2
    <3>6. ASSUME NEW j \in DOMAIN Tree[called[z]], Tree[called[z]][j] \in Initial
          PROVE  \E w \in (z + 1)..(y - 1) : called[w] = Tree[called[z]][j]
      <4>1. called[z] \in Range(called) /\ j \in 1..Len(Tree[called[z]])
        BY <1>2, <1>6, <2>2, <2>3
      <4>2. Tree[called[z]][j] \in Range(called)
        BY <1>1, <3>5, <3>6, <4>1 DEF ReturnedInv
      <4>3. PICK w \in 1..N : called[w] = Tree[called[z]][j]
        BY <1>2, <4>2
      <4>4. z < w
        BY <1>1, <1>2, <2>3, <4>3, ParentFirst
      <4>5. w \in (z + 1)..(y - 1)
        BY <1>2, <2>2, <2>7, <4>4
      <4>. QED
        BY <4>3, <4>5
    <3>. QED
      BY <3>4, <3>6
  <2>. QED
    BY <1>2, <2>6, <2>7
<1>15. OpenInv'
  <2>1. CASE stack' = <<>>
    BY <2>1 DEF OpenInv
  <2>2. CASE \E f \in Frames : f.node = n /\ stack' = Append(callers, f)
    <3>1. PICK f \in Frames : f.node = n /\ stack' = Append(callers, f)
      BY <2>2
    <3>2. PICK L \in Nat : L = Len(stack) /\ L = Len(callers)
      OBVIOUS
    <3>3. /\ Len(stack') = L + 1 /\ stack'[L + 1].node = n
          /\ \A k \in 1..L : stack'[k].node = stack[k].node
      BY <3>1, <3>2
    <3>4. \A k \in 1..L : stack[k].node \in Range(called) /\ stack[k].node # n
      <4>1. L = 0 \/ stack # <<>>
        BY <3>2
      <4>. QED
        BY <1>2, <1>12, <3>2, <4>1
    <3> SUFFICES ASSUME NEW k \in 1..(L + 1), NEW x \in 1..(N + 1), called'[x] = stack'[k].node
                 PROVE  /\ \A z \in (x + 1)..(N + 1) :
                             \E w \in x..(z - 1) : IsChild(Tree', called'[z], called'[w])
                        /\ \A l \in 1..(k - 1), y \in 1..(N + 1) :
                             called'[y] = stack'[l].node => y < x
      BY <1>5, <3>3 DEF OpenInv
    <3>5. CASE k = L + 1
      <4>1. x = N + 1
        BY <1>2, <1>5, <3>3, <3>5
      <4>2. ASSUME NEW l \in 1..(k - 1), NEW y \in 1..(N + 1), called'[y] = stack'[l].node
            PROVE  y < x
        <5>1. l \in 1..L
          BY <3>2, <3>5
        <5>2. called'[y] # n
          BY <3>3, <3>4, <4>2, <5>1
        <5>3. y # N + 1
          BY <1>5, <5>2
        <5>. QED
          BY <1>2, <4>1, <5>3
      <4>3. \A z \in (x + 1)..(N + 1) : FALSE
        BY <1>2, <4>1
      <4>. QED
        BY <4>2, <4>3
    <3>6. CASE k \in 1..L
      <4>1. called'[x] = stack[k].node /\ called'[x] # n
        BY <3>3, <3>4, <3>6
      <4>2. x \in 1..N /\ called[x] = stack[k].node /\ x \in DOMAIN called /\ k \in 1..Len(stack)
        BY <1>2, <1>5, <3>2, <3>6, <4>1
      <4>3. /\ \A z \in (x + 1)..N : \E w \in x..(z - 1) : IsChild(Tree, called[z], called[w])
            /\ \A l \in 1..(k - 1), y \in DOMAIN called : called[y] = stack[l].node => y < x
        BY <1>1, <1>2, <4>2 DEF OpenInv
      <4>4. ASSUME NEW l \in 1..(k - 1), NEW y \in 1..(N + 1), called'[y] = stack'[l].node
            PROVE  y < x
        <5>1. l \in 1..L
          BY <3>2, <3>6
        <5>2. called'[y] = stack[l].node /\ called'[y] # n
          BY <3>3, <3>4, <4>4, <5>1
        <5>3. y \in 1..N /\ called[y] = stack[l].node
          BY <1>2, <1>5, <5>2
        <5>. QED
          BY <1>2, <4>3, <5>3
      <4>5. ASSUME NEW z \in (x + 1)..(N + 1)
            PROVE  \E w \in x..(z - 1) : IsChild(Tree', called'[z], called'[w])
        <5>1. CASE z = N + 1
          <6>1. stack # <<>>
            BY <3>2, <3>6
          <6>2. PICK t \in 1..N : called[t] = Top.node
            BY <1>12, <6>1
          <6>3. IsChild(Tree', called'[z], called'[t])
            BY <1>5, <1>11, <5>1, <6>1, <6>2
          <6>4. x =< t
            <7>1. Top = stack[L] /\ L \in 1..Len(stack) /\ t \in DOMAIN called
              BY <1>2, <1>12, <3>2, <6>1, <6>2
            <7>2. CASE k = L
              <8>1. called[t] = called[x]
                BY <4>2, <6>2, <7>1, <7>2
              <8>2. t = x
                BY <1>1, <4>2, <7>1, <8>1 DEF CalledOnce
              <8>. QED
                BY <4>2, <8>2
            <7>3. CASE k # L
              <8>1. k \in 1..(L - 1)
                BY <3>2, <3>6, <7>3
              <8>2. \A l \in 1..(L - 1), y \in DOMAIN called : called[y] = stack[l].node => y < t
                BY <1>1, <6>2, <7>1 DEF OpenInv
              <8>3. x < t
                BY <4>2, <8>1, <8>2
              <8>. QED
                BY <4>2, <6>2, <8>3
            <7>. QED
              BY <7>2, <7>3
          <6>5. t \in x..(z - 1)
            BY <1>2, <4>2, <5>1, <6>2, <6>4
          <6>. QED
            BY <6>3, <6>5
        <5>2. CASE z # N + 1
          <6>1. z \in (x + 1)..N /\ z \in 1..N /\ \A w \in x..(z - 1) : w \in 1..N
            <7>1. N \in Nat /\ x \in 1..N /\ z \in (x + 1)..(N + 1)
              BY <1>2, <4>2, <4>5
            <7>2. z \in (x + 1)..N
              BY <5>2, <7>1
            <7>. QED
              BY <7>1, <7>2
          <6>2. PICK w \in x..(z - 1) : IsChild(Tree, called[z], called[w])
            BY <4>3, <6>1
          <6>3. IsChild(Tree', called'[z], called'[w])
            BY <1>10, <6>1, <6>2
          <6>. QED
            BY <6>3
        <5>. QED
          BY <5>1, <5>2
      <4>. QED
        BY <4>4, <4>5
    <3>. QED
      BY <3>2, <3>5, <3>6
  <2>. QED
    BY <1>4, <2>1, <2>2
<1>. QED
  BY <1>13, <1>14, <1>15 DEF OrderInv

LEMMA InitOrder == Init => OrderInv
<1> SUFFICES ASSUME Init PROVE OrderInv
  OBVIOUS
<1>1. IInv
  BY InitIInv
<1>2. called = <<>> /\ DOMAIN called = {}
  BY DEF Init
<1>. QED
  BY <1>1, <1>2 DEF OrderInv, ParentedInv, OpenInv, TurnInv

LEMMA StartKeepsOrder == OrderInv /\ Start => OrderInv'
<1> SUFFICES ASSUME OrderInv, Start PROVE OrderInv'
  OBVIOUS
<1>1. IInv /\ IInv'
  BY StartKeeps DEF OrderInv
<1>2. status = "start" /\ Visit(Root, <<>>) /\ stack = <<>> /\ called = <<>>
  BY <1>1 DEF Start, IInv, StatusInv
<1>3. Root \in Initial \cup added /\ Range(called) = {} /\ <<>> \in Seq(Frames) /\ Len(stack) = 0
  BY <1>2 DEF Root, Initial, Range
<1>. QED
  BY <1>1, <1>2, <1>3, VisitKeepsOrder

LEMMA DescendKeepsOrder == OrderInv /\ Descend => OrderInv'
<1> SUFFICES ASSUME OrderInv, Descend PROVE OrderInv'
  OBVIOUS
<1> DEFINE n == Children(Top)[Top.i]
           callers == [stack EXCEPT ![Len(stack)].i = @ + 1]
<1>1. IInv /\ IInv' /\ TreeFits(Tree, added)
  BY DescendKeeps DEF OrderInv, IInv
<1>2. stack # <<>> /\ HasChild(Top) /\ Visit(n, callers)
  BY DEF Descend
<1>3. /\ stack \in Seq(Frames) /\ Len(stack) \in Nat \ {0} /\ Len(stack) \in 1..Len(stack)
      /\ Top = stack[Len(stack)] /\ Top \in Frames /\ FrameFits(live, Tree, Top, Range(called))
      /\ Children(Top) = ChildrenIn(live, Tree, Top) /\ Len(Children(Top)) \in Nat
      /\ \A j \in 1..Len(Children(Top)) :
           j \in 1..Len(Tree[Top.node]) /\ Children(Top)[j] = Tree[Top.node][j]
      /\ status = "running"
  BY <1>1, <1>2, TopFacts
<1>4. Top.i \in 1..Len(Children(Top)) /\ Top.node \in Nodes
  BY <1>2, <1>3 DEF HasChild, Frames
<1>5. n \notin Range(called)
  BY <1>3, <1>4 DEF FrameFits
<1>6. n = Tree[Top.node][Top.i] /\ Top.i \in 1..Len(Tree[Top.node])
  BY <1>3, <1>4
<1> HIDE DEF n, callers
<1>7. n \in Initial \cup added
  BY <1>1, <1>4, <1>6 DEF TreeFits
<1>8. \A m \in Nodes : DOMAIN Tree[m] = 1..Len(Tree[m])
  BY <1>1, Places
<1>9. ASSUME NEW m \in Nodes PROVE IsChild(Tree, n, m) <=> m = Top.node
  <2>1. ASSUME IsChild(Tree, n, m) PROVE m = Top.node
    <3>1. PICK i \in 1..Len(Tree[m]) : Tree[m][i] = n
      BY <1>8, <2>1 DEF IsChild
    <3>. QED
      BY <1>1, <1>4, <1>6, <3>1 DEF TreeFits
  <2>2. IsChild(Tree, n, Top.node)
    BY <1>4, <1>6, <1>8 DEF IsChild
  <2>. QED
    BY <2>1, <2>2
<1>10. PICK g \in Frames : g.node = Top.node /\ callers = [stack EXCEPT ![Len(stack)] = g]
  BY <1>2, <1>3, NextChildStack DEF callers
<1>11. /\ callers \in Seq(Frames) /\ Len(callers) = Len(stack)
       /\ \A k \in 1..Len(stack) : callers[k] = IF k = Len(stack) THEN g ELSE stack[k]
  BY <1>3, <1>10
<1>12. \A k \in 1..Len(stack) : callers[k].node = stack[k].node
  BY <1>3, <1>10, <1>11
<1>. QED
  BY <1>1, <1>2, <1>3, <1>5, <1>7, <1>9, <1>11, <1>12, VisitKeepsOrder

LEMMA ReturnKeepsOrder == OrderInv /\ Return => OrderInv'
<1> SUFFICES ASSUME OrderInv, Return PROVE OrderInv'
  OBVIOUS
<1>1. IInv /\ IInv' /\ OpenInv /\ stack # <<>>
  BY ReturnKeeps DEF OrderInv, Return
<1>2. Tree' = Tree /\ called' = called /\ stack' = Front(stack)
  BY DEF Return, given, Tree, Offered
<1>3. stack \in Seq(Frames)
  BY <1>1, TopFacts
<1>4. \A k \in 1..Len(stack') : k \in 1..Len(stack) /\ stack'[k] = stack[k]
  BY <1>1, <1>2, <1>3, FrontOfStack
<1>5. Len(stack') \in Nat
  BY <1>1, <1>2, <1>3, FrontOfStack
<1>6. OpenInv'
  <2> SUFFICES ASSUME NEW k \in 1..Len(stack'), NEW x \in DOMAIN called,
                      called[x] = stack'[k].node
               PROVE  /\ \A z \in (x + 1)..Len(called) :
                           \E w \in x..(z - 1) : IsChild(Tree, called[z], called[w])
                      /\ \A l \in 1..(k - 1), y \in DOMAIN called :
                           called[y] = stack'[l].node => y < x
    BY <1>2 DEF OpenInv
  <2>1. \A l \in 1..(k - 1) : l \in 1..Len(stack') /\ stack'[l] = stack[l]
    BY <1>4, <1>5
  <2>. QED
    BY <1>1, <1>4, <2>1 DEF OpenInv
<1>7. ParentedInv' /\ TurnInv'
  BY <1>2 DEF OrderInv, ParentedInv, TurnInv
<1>. QED
  BY <1>1, <1>6, <1>7 DEF OrderInv

LEMMA UnchangedKeepsOrder == OrderInv /\ UNCHANGED vars => OrderInv'
<1> SUFFICES ASSUME OrderInv, UNCHANGED vars PROVE OrderInv'
  OBVIOUS
<1>1. IInv' /\ UNCHANGED <<Tree, stack, called>>
  BY UnchangedKeeps DEF OrderInv, vars, given, Tree, Offered
<1>. QED
  BY <1>1 DEF OrderInv, ParentedInv, OpenInv, TurnInv

\* Walk's calls are in depth-first order, and when it returns nil it has left out
\* exactly what is below a nil node.
THEOREM CallsAreInPreOrder == Spec => []CallsInPreOrder
<1>1. Init => OrderInv
  BY InitOrder
<1>2. OrderInv /\ [Next]_vars => OrderInv'
  BY StartKeepsOrder, DescendKeepsOrder, ReturnKeepsOrder, UnchangedKeepsOrder DEF Next, Done
<1>3. OrderInv => CallsInPreOrder
  BY OrderIsPreOrder, AllCalled DEF OrderInv, CallsInPreOrder, Tree
<1>. QED
  BY <1>1, <1>2, <1>3, PTL DEF Spec

-----------------------------------------------------------------------------
(* NodeMap: the trees and the searches in them *)

\* A search that stops at certain nodes with what is near them, and is otherwise
\* the search at the parent.
IsClimb(f, N, parent, Stop, near) ==
    f = [m \in 1..N |-> IF m \in Stop THEN near[m] ELSE f[parent[m]]]

\* There is such a function: otherwise there is a least number of nodes that it
\* does not exist for.
LEMMA ClimbExists ==
    ASSUME NEW N \in Nat, NEW parent \in TreesOf(N), NEW Stop, 1 \in Stop, NEW near
    PROVE  \E f : IsClimb(f, N, parent, Stop, near)
<1> DEFINE Without == {k \in Nat : k =< N /\ ~\E f : IsClimb(f, k, parent, Stop, near)}
<1>1. SUFFICES ASSUME Without # {} PROVE FALSE
  OBVIOUS
<1>2. PICK k \in Without : \A j \in Without : k =< j
  BY <1>1, LeastNatural
<1>3. k \in Nat /\ k =< N /\ ~\E f : IsClimb(f, k, parent, Stop, near)
  OBVIOUS
<1>4. CASE k = 0
  <2>1. IsClimb([m \in 1..0 |-> m], 0, parent, Stop, near)
    BY DEF IsClimb
  <2>. QED
    BY <1>3, <1>4, <2>1
<1>5. CASE k # 0
  <2>1. k - 1 \in Nat /\ k - 1 =< N /\ k - 1 \notin Without
    BY <1>2, <1>3, <1>5
  <2>2. PICK g : IsClimb(g, k - 1, parent, Stop, near)
    BY <2>1
  <2> HIDE DEF Without
  <2>3. \A m \in 1..(k - 1) : g[m] = IF m \in Stop THEN near[m] ELSE g[parent[m]]
    BY <2>2 DEF IsClimb
  <2> DEFINE last == IF k \in Stop THEN near[k] ELSE g[parent[k]]
             f == [m \in 1..k |-> IF m = k THEN last ELSE g[m]]
  <2>4. \A m \in 1..k : m \notin Stop => parent[m] \in 1..(m - 1)
    BY <1>3, TreeFacts
  <2>5. \A m \in 1..k : f[m] = IF m = k THEN last ELSE g[m]
    OBVIOUS
  <2>6. DOMAIN f = 1..k /\ f = [m \in 1..k |-> f[m]]
    OBVIOUS
  <2>7. last = IF k \in Stop THEN near[k] ELSE g[parent[k]]
    OBVIOUS
  <2> HIDE DEF f, last
  <2>8. ASSUME NEW m \in 1..k PROVE f[m] = IF m \in Stop THEN near[m] ELSE f[parent[m]]
    <3>1. m \notin Stop => parent[m] \in 1..k /\ parent[m] # k /\ f[parent[m]] = g[parent[m]]
      BY <1>3, <2>4, <2>5
    <3>2. CASE m = k
      BY <2>5, <2>7, <3>1, <3>2
    <3>3. CASE m # k
      <4>1. m \in 1..(k - 1)
        BY <1>3, <3>3
      <4>. QED
        BY <2>3, <2>5, <3>1, <3>3, <4>1
    <3>. QED
      BY <3>2, <3>3
  <2>9. f = [m \in 1..k |-> IF m \in Stop THEN near[m] ELSE f[parent[m]]]
    BY <2>6, <2>8
  <2>10. IsClimb(f, k, parent, Stop, near)
    BY <2>9 DEF IsClimb
  <2>. QED
    BY <1>3, <2>10
<1>. QED
  BY <1>4, <1>5

\* The answer is the one of the lowest node, from n upwards, that stops it.
ClimbEnds(f, parent, Stop, near, n, s) ==
    /\ s \in Ancestors(parent, n) /\ s \in Stop /\ f[n] = near[s]
    /\ \A k \in Ancestors(parent, n) : k \in Stop => k =< s

LEMMA ClimbStops ==
    ASSUME NEW N \in Nat, NEW parent \in TreesOf(N), NEW Stop, 1 \in Stop, NEW near,
           NEW f, IsClimb(f, N, parent, Stop, near), NEW n \in 1..N
    PROVE  \E s : ClimbEnds(f, parent, Stop, near, n, s)
<1> DEFINE Without == {k \in 1..N : ~\E s : ClimbEnds(f, parent, Stop, near, k, s)}
<1>1. SUFFICES ASSUME Without # {} PROVE FALSE
  OBVIOUS
<1>2. PICK k \in Without : \A j \in Without : k =< j
  <2>1. Without \in SUBSET Nat
    OBVIOUS
  <2>. QED
    BY <1>1, <2>1, LeastNatural
<1>3. k \in 1..N /\ ~\E s : ClimbEnds(f, parent, Stop, near, k, s)
  OBVIOUS
<1>4. f[k] = IF k \in Stop THEN near[k] ELSE f[parent[k]]
  BY <1>3 DEF IsClimb
<1>5. /\ k \in Ancestors(parent, k) /\ Ancestors(parent, k) \subseteq 1..k
      /\ k # 1 => \A m : m \in Ancestors(parent, k) <=> m = k \/ m \in Ancestors(parent, parent[k])
  BY <1>3, AncestorsFacts
<1>6. CASE k \in Stop
  <2>1. ClimbEnds(f, parent, Stop, near, k, k)
    BY <1>3, <1>4, <1>5, <1>6 DEF ClimbEnds
  <2>. QED
    BY <1>3, <2>1
<1>7. CASE k \notin Stop
  <2>1. k # 1 /\ parent[k] \in 1..(k - 1)
    BY <1>3, <1>7, TreeFacts
  <2>2. parent[k] \in 1..N /\ parent[k] \notin Without
    BY <1>2, <1>3, <2>1
  <2>3. PICK s : ClimbEnds(f, parent, Stop, near, parent[k], s)
    BY <2>2
  <2>4. ClimbEnds(f, parent, Stop, near, k, s)
    BY <1>4, <1>5, <1>7, <2>1, <2>3 DEF ClimbEnds
  <2>. QED
    BY <1>3, <2>4
<1>. QED
  BY <1>6, <1>7

\* The first answer that is not empty.
LEMMA FirstFoundFacts ==
    ASSUME NEW k \in Nat, NEW answers, DOMAIN answers = 1..k
    PROVE  /\ (FirstFound(answers) = {}) <=> \A i \in 1..k : answers[i] = {}
           /\ FirstFound(answers) # {} =>
                \E i \in 1..k : /\ FirstFound(answers) = answers[i]
                               /\ \A j \in 1..(i - 1) : answers[j] = {}
<1> DEFINE found == {i \in DOMAIN answers : answers[i] # {}}
<1>1. CASE found = {}
  BY <1>1 DEF FirstFound
<1>2. CASE found # {}
  <2>1. found \in SUBSET Nat
    OBVIOUS
  <2>2. \E i \in found : \A j \in found : i =< j
    BY <1>2, <2>1, LeastNatural
  <2>3. PICK i \in found : FirstFound(answers) = answers[i] /\ \A j \in found : i =< j
    BY <1>2, <2>2 DEF FirstFound
  <2>4. \A j \in 1..(i - 1) : j \in 1..k /\ ~(i =< j)
    BY <2>1, <2>3
  <2>5. \A j \in 1..(i - 1) : answers[j] = {}
    BY <2>3, <2>4
  <2>. QED
    BY <2>3, <2>5
<1>. QED
  BY <1>1, <1>2

LEMMA FirstOfNone ==
    ASSUME NEW answers, DOMAIN answers = {}
    PROVE  FirstFound(answers) = {}
BY DEF FirstFound

LEMMA FirstOfOne ==
    ASSUME NEW answers, DOMAIN answers = {1}
    PROVE  FirstFound(answers) = answers[1]
<1>1. DOMAIN answers = 1..1 /\ 1 \in Nat
  OBVIOUS
<1>2. /\ (FirstFound(answers) = {}) <=> \A i \in 1..1 : answers[i] = {}
      /\ FirstFound(answers) # {} => \E i \in 1..1 : FirstFound(answers) = answers[i]
  BY <1>1, FirstFoundFacts
<1>. QED
  BY <1>2

LEMMA FirstOfTwo ==
    ASSUME NEW a, NEW b
    PROVE  FirstFound(<<a, b>>) = IF a # {} THEN a ELSE b
<1> DEFINE s == <<a, b>>
           found == {i \in DOMAIN s : s[i] # {}}
           c == CHOOSE i \in found : \A j \in found : i =< j
<1>1. DOMAIN s = 1..2 /\ s[1] = a /\ s[2] = b
  OBVIOUS
<1>2. FirstFound(s) = IF found = {} THEN {} ELSE s[c]
  BY DEF FirstFound
<1> HIDE DEF s
<1>3. /\ \A i : i \in found <=> i \in {1, 2} /\ s[i] # {}
      /\ found \in SUBSET Nat
  BY <1>1
<1>4. CASE found = {}
  BY <1>1, <1>2, <1>3, <1>4 DEF s
<1>5. CASE found # {}
  <2>1. \E i \in found : \A j \in found : i =< j
    BY <1>3, <1>5, LeastNatural
  <2>2. c \in found /\ \A j \in found : c =< j
    BY <2>1
  <2> HIDE DEF c, found
  <2>3. c = IF a # {} THEN 1 ELSE 2
    BY <1>1, <1>3, <2>2
  <2>. QED
    BY <1>1, <1>2, <1>5, <2>3 DEF s
<1>. QED
  BY <1>4, <1>5

\* The trees and ranges, and what NewNodeMap has made of them.
TreesInv ==
    /\ astParent \in TreesOf(AstSize) /\ astRange \in [AstNodes -> Ranges]
    /\ resolvedParent \in TreesOf(ResolvedSize)
    /\ resolvedRange \in [ResolvedNodes -> Ranges \cup {NoRange}]
    /\ astNil \subseteq AstNodes /\ resolvedNil \subseteq ResolvedNodes

Filed ==
    /\ ~HasNilChild
    /\ nodesAt = [r \in Ranges |-> Located(AstSeen, astRange, r)]
    /\ resolvedAt = [r \in Ranges |-> Located(ResolvedSeen, resolvedRange, r)]
    /\ \A n \in ResolvedSeen :
         parentsOf[n] = IF n = 1 THEN <<>> ELSE <<resolvedParent[n]>>

\* What a walk gives of a tree.
LEMMA VisibleFacts ==
    ASSUME NEW N \in Nat, NEW parent \in TreesOf(N), NEW hidden
    PROVE  /\ Visible(parent, hidden) \subseteq 1..N
           /\ \A n \in Visible(parent, hidden) :
                Ancestors(parent, n) \subseteq 1..N /\ Ancestors(parent, n) \cap hidden = {}
<1>1. \A n \in Visible(parent, hidden) : n \in 1..N /\ Ancestors(parent, n) \cap hidden = {}
  BY TreeFacts DEF Visible
<1>2. \A n \in 1..N : Ancestors(parent, n) \subseteq 1..n
  BY AncestorsFacts
<1>. QED
  BY <1>1, <1>2

\* After a walk that met no nil child, the program has all of the resolved tree
\* or, its root being nil, nothing: the least other nil node would be a child of
\* a visible one.
LEMMA AllOrNothing ==
    ASSUME TreesInv, ~HasNilChild
    PROVE  ResolvedSeen = {} \/ (ResolvedSeen = ResolvedNodes /\ resolvedNil = {})
<1>1. /\ ResolvedSize \in Nat \ {0} /\ ResolvedNodes = 1..ResolvedSize
      /\ resolvedParent \in TreesOf(ResolvedSize) /\ DOMAIN resolvedParent = 1..ResolvedSize
      /\ resolvedNil \subseteq ResolvedNodes
  BY NodeMapAssumption, TreeFacts DEF ResolvedNodes, TreesInv
<1>2. CASE resolvedNil = {}
  BY <1>1, <1>2 DEF ResolvedSeen, Visible
<1>3. CASE 1 \in resolvedNil
  <2>1. ASSUME NEW n \in 1..ResolvedSize PROVE 1 \in Ancestors(resolvedParent, n)
    <3>1. \A k \in 2..n : k \in 1..ResolvedSize /\ k # 1
      BY <1>1
    <3>2. \A k \in 2..n : resolvedParent[k] \in 1..(k - 1)
      BY <1>1, <3>1, TreeFacts
    <3>3. \A k \in 2..n : resolvedParent[k] >= 1
      BY <3>1, <3>2
    <3>. QED
      BY <1>1, <3>3 DEF Ancestors
  <2>. QED
    BY <1>1, <1>3, <2>1 DEF ResolvedSeen, Visible
<1>4. CASE resolvedNil # {} /\ 1 \notin resolvedNil
  <2>1. PICK m \in resolvedNil : \A k \in resolvedNil : m =< k
    <3>1. resolvedNil \in SUBSET Nat
      BY <1>1
    <3>. QED
      BY <1>4, <3>1, LeastNatural
  <2> DEFINE p == resolvedParent[m]
  <2>2. m \in 1..ResolvedSize /\ m # 1
    BY <1>1, <1>4
  <2>3. p \in 1..(m - 1)
    BY <1>1, <2>2, TreeFacts
  <2>4. p \in 1..ResolvedSize /\ \A k \in 1..p : ~(m =< k)
    BY <1>1, <2>2, <2>3
  <2>5. Ancestors(resolvedParent, p) \subseteq 1..p
    BY <1>1, <2>4, AncestorsFacts
  <2>6. p \in ResolvedSeen
    BY <1>1, <2>1, <2>4, <2>5 DEF ResolvedSeen, Visible
  <2>7. m \in Range(ResolvedKids[p])
    <3>1. Range(KidsOf(resolvedParent)[p]) = {k \in 1..ResolvedSize : resolvedParent[k] = p}
      BY <1>1, <2>4, KidsFacts
    <3>. QED
      BY <2>2, <3>1 DEF ResolvedKids
  <2>. QED
    BY <2>6, <2>7 DEF HasNilChild
<1>. QED
  BY <1>2, <1>3, <1>4

\* A node is filed under one parent.
LEMMA ParentsFacts ==
    ASSUME TreesInv, ~HasNilChild, NEW n \in ResolvedSeen
    PROVE  Parents(n) = IF n = 1 THEN <<>> ELSE <<resolvedParent[n]>>
<1> DEFINE S == {m \in ResolvedSeen : IsChild(ResolvedKids, n, m)}
           s == Parents(n)
<1>1. /\ ResolvedSize \in Nat /\ ResolvedNodes = 1..ResolvedSize
      /\ resolvedParent \in TreesOf(ResolvedSize) /\ ResolvedSeen = ResolvedNodes
      /\ n \in ResolvedNodes
  BY NodeMapAssumption, AllOrNothing DEF ResolvedNodes, TreesInv
<1>2. \A m : m \in S <=> m \in ResolvedNodes /\ resolvedParent[n] = m
  BY <1>1, KidsFacts DEF ResolvedKids
<1>3. S \in SUBSET Nat /\ IsFiniteSet(S)
  <2>1. IsFiniteSet(1..ResolvedSize) /\ S \in SUBSET (1..ResolvedSize)
    BY <1>1, FS_Interval
  <2>2. IsFiniteSet(S)
    BY <2>1, FS_Subset
  <2>. QED
    BY <2>1, <2>2
<1>4. s = Ascending(S)
  BY DEF Parents
<1> HIDE DEF S, s
<1>5. ListsOnce(s, S)
  BY <1>3, <1>4, AscendingFacts
<1>6. /\ s \in Seq(S) /\ Len(s) \in Nat /\ \A i \in 1..Len(s) : s[i] \in S
      /\ \A x \in S : \E i \in 1..Len(s) : s[i] = x
      /\ \A i, j \in 1..Len(s) : s[i] = s[j] => i = j
  BY <1>5 DEF ListsOnce
<1>7. CASE n = 1
  <2>1. S = {}
    BY <1>1, <1>2, <1>7, TreeFacts DEF NoParent
  <2>2. Len(s) = 0
    BY <1>6, <2>1
  <2>3. s = <<>>
    BY <1>6, <2>2
  <2>. QED
    BY <1>7, <2>3 DEF s
<1>8. CASE n # 1
  <2>1. resolvedParent[n] \in S
    <3>1. n \in 1..ResolvedSize /\ resolvedParent[n] \in 1..(n - 1)
      BY <1>1, <1>8, TreeFacts
    <3>. QED
      BY <1>1, <1>2, <3>1
  <2>2. \A i \in 1..Len(s) : s[i] = resolvedParent[n]
    BY <1>2, <1>6
  <2>3. PICK i \in 1..Len(s) : s[i] = resolvedParent[n]
    BY <1>6, <2>1
  <2>4. 1 \in 1..Len(s) /\ Len(s) \in 1..Len(s)
    BY <1>6, <2>3
  <2>5. Len(s) = 1 /\ s[1] = resolvedParent[n]
    BY <1>6, <2>2, <2>4
  <2>6. s = <<resolvedParent[n]>>
    BY <1>6, <2>5
  <2>. QED
    BY <1>8, <2>6 DEF s
<1>. QED
  BY <1>7, <1>8

\* The two lookups by range.
LEMMA InFacts ==
    ASSUME TreesInv, Filed
    PROVE  /\ \A m \in ResolvedNodes :
                NodesIn(resolvedRange[m]) = {a \in AstSeen : astRange[a] = resolvedRange[m]}
           /\ \A a \in AstNodes :
                ResolvedIn(astRange[a]) = {m \in ResolvedSeen : resolvedRange[m] = astRange[a]}
<1>1. /\ NoRange \notin Ranges /\ \A a \in AstNodes : astRange[a] \in Ranges
      /\ AstSeen \subseteq AstNodes
  <2>1. AstSeen \subseteq AstNodes
    BY NodeMapAssumption, VisibleFacts DEF TreesInv, AstSeen, AstNodes
  <2>. QED
    BY <2>1, NodeMapAssumption DEF TreesInv
<1>2. \A m \in ResolvedNodes : resolvedRange[m] \in Ranges \cup {NoRange}
  BY DEF TreesInv
<1>3. ASSUME NEW r \in Ranges
      PROVE  NodesIn(r) = {a \in AstSeen : astRange[a] = r}
             /\ ResolvedIn(r) = {m \in ResolvedSeen : resolvedRange[m] = r}
  BY <1>1, <1>3 DEF Filed, NodesIn, ResolvedIn, Located
<1>4. NodesIn(NoRange) = {} /\ {a \in AstSeen : astRange[a] = NoRange} = {}
  BY <1>1 DEF NodesIn
<1>. QED
  BY <1>1, <1>2, <1>3, <1>4

\* The search from a resolved node as a climb.
StopNodes == {m \in ResolvedNodes : m = 1 \/ NodesNear(m) # {}}
Near == [m \in ResolvedNodes |-> NodesNear(m)]

LEMMA FindNodeClimbs ==
    ASSUME TreesInv, Filed, NEW n \in ResolvedSeen
    PROVE  \E f : /\ IsClimb(f, ResolvedSize, resolvedParent, StopNodes, Near)
                  /\ FindNode(n) = f[n]
<1> DEFINE Up(f, m) == FirstFound([i \in DOMAIN parentsOf[m] |-> f[parentsOf[m][i]]])
           Body(f) == [m \in ResolvedNodes |-> FirstFound(<<NodesNear(m), Up(f, m)>>)]
           Rule(f) == [m \in 1..ResolvedSize |->
                         IF m \in StopNodes THEN Near[m] ELSE f[resolvedParent[m]]]
<1>1. /\ ResolvedSize \in Nat \ {0} /\ ResolvedNodes = 1..ResolvedSize
      /\ resolvedParent \in TreesOf(ResolvedSize) /\ 1 \in ResolvedNodes
      /\ ResolvedSeen = ResolvedNodes
  BY NodeMapAssumption, AllOrNothing DEF ResolvedNodes, TreesInv, Filed
<1>2. ASSUME NEW f, NEW m \in ResolvedNodes
      PROVE  FirstFound(<<NodesNear(m), Up(f, m)>>)
                 = IF m \in StopNodes THEN Near[m] ELSE f[resolvedParent[m]]
  <2>1. FirstFound(<<NodesNear(m), Up(f, m)>>) = IF NodesNear(m) # {} THEN NodesNear(m) ELSE Up(f, m)
    BY FirstOfTwo
  <2>2. Near[m] = NodesNear(m) /\ (m \in StopNodes <=> m = 1 \/ NodesNear(m) # {})
    BY DEF Near, StopNodes
  <2>3. CASE m = 1
    <3>1. parentsOf[m] = <<>>
      BY <1>1, <2>3 DEF Filed
    <3>2. DOMAIN [i \in DOMAIN parentsOf[m] |-> f[parentsOf[m][i]]] = {}
      BY <3>1
    <3>3. Up(f, m) = {}
      BY <3>2, FirstOfNone
    <3>. QED
      BY <2>1, <2>2, <2>3, <3>3
  <2>4. CASE m # 1
    <3>1. parentsOf[m] = <<resolvedParent[m]>>
      BY <1>1, <2>4 DEF Filed
    <3> DEFINE up == [i \in DOMAIN parentsOf[m] |-> f[parentsOf[m][i]]]
    <3>2. DOMAIN up = {1} /\ up[1] = f[resolvedParent[m]]
      BY <3>1
    <3>3. Up(f, m) = up[1]
      BY <3>2, FirstOfOne
    <3>. QED
      BY <2>1, <2>2, <2>4, <3>2, <3>3
  <2>. QED
    BY <2>3, <2>4
<1>3. \A f : Body(f) = Rule(f)
  BY <1>1, <1>2
<1>4. \E f : IsClimb(f, ResolvedSize, resolvedParent, StopNodes, Near)
  <2>1. 1 \in StopNodes
    BY <1>1 DEF StopNodes
  <2>. QED
    BY <1>1, <2>1, ClimbExists
<1>5. \E f : f = Body(f)
  <2>1. PICK f : f = Rule(f)
    BY <1>4 DEF IsClimb
  <2> HIDE DEF Body, Rule
  <2>. QED
    BY <1>3, <2>1
<1> DEFINE find == CHOOSE f : f = Body(f)
<1>6. FindNode(n) = find[n]
  BY DEF FindNode
<1>7. find = Body(find)
  <2> HIDE DEF Body
  <2>. QED
    BY <1>5
<1> HIDE DEF find, Body
<1>8. IsClimb(find, ResolvedSize, resolvedParent, StopNodes, Near)
  BY <1>3, <1>7 DEF IsClimb
<1>. QED
  BY <1>6, <1>8

\* The syntax nodes with the range of a resolved node.
OwnNodes(m) == {a \in AstSeen : astRange[a] = resolvedRange[m]}

\* What is found at a resolved node: its own nodes, or else nodes at or above its
\* anchors, and something whenever there is an anchor.
LEMMA NodesNearFacts ==
    ASSUME TreesInv, Filed, NEW m \in ResolvedSeen
    PROVE  /\ NodesNear(m) \in SUBSET AstNodes
           /\ NodesNear(m) = {} <=> AnchorsOf(m) = {}
           /\ OwnNodes(m) # {} => NodesNear(m) = OwnNodes(m)
           /\ OwnNodes(m) = {} => \A a \in NodesNear(m) : \E b \in AnchorsOf(m) : a \in {b, astParent[b]}
<1> DEFINE s == ResolvedKids[m]
           Of(k) == {a \in AstSeen : astRange[a] = resolvedRange[k]}
           found == [i \in DOMAIN s |-> AboveChild(s[i])]
<1>1. /\ ResolvedNodes = 1..ResolvedSize /\ ResolvedSize \in Nat
      /\ AstNodes = 1..AstSize /\ AstSize \in Nat
      /\ resolvedParent \in TreesOf(ResolvedSize) /\ astParent \in TreesOf(AstSize)
      /\ m \in ResolvedNodes /\ resolvedNil = {} /\ AstSeen \subseteq AstNodes
  <2>1. AstSeen \subseteq AstNodes
    BY NodeMapAssumption, VisibleFacts DEF TreesInv, AstSeen, AstNodes
  <2>. QED
    BY <2>1, NodeMapAssumption, AllOrNothing DEF ResolvedNodes, AstNodes, TreesInv, Filed
<1>2. PICK l \in Nat : DOMAIN s = 1..l /\ \A i \in 1..l : s[i] \in ResolvedNodes
  <2>1. m \in 1..ResolvedSize
    BY <1>1
  <2>2. Listed(KidsOf(resolvedParent)[m], 1..ResolvedSize)
    BY <1>1, <2>1, KidsFacts
  <2>3. s = KidsOf(resolvedParent)[m]
    BY DEF ResolvedKids
  <2> HIDE DEF s
  <2>. QED
    BY <1>1, <2>2, <2>3 DEF Listed
<1>3. /\ \A i \in 1..l : NodesIn(resolvedRange[s[i]]) = Of(s[i])
      /\ NodesIn(resolvedRange[m]) = OwnNodes(m)
  BY <1>1, <1>2, InFacts DEF OwnNodes
<1>4. \A a \in AstNodes : astParent[a] # NoParent => astParent[a] \in AstNodes
  BY <1>1, TreeFacts
<1>5. AnchorsOf(m) = {a \in AstSeen : a \in OwnNodes(m) \/ \E i \in 1..l : a \in Of(s[i])}
  <2>1. Around(ResolvedKids, m) = {m} \cup {s[i] : i \in 1..l}
    BY <1>2 DEF Around, Range
  <2>. QED
    BY <2>1 DEF AnchorsOf, OwnNodes
<1>6. NodesNear(m) = IF OwnNodes(m) # {} THEN OwnNodes(m) ELSE FirstFound(found)
  BY <1>3, FirstOfTwo DEF NodesNear
<1>7. DOMAIN found = 1..l /\ \A i \in 1..l : found[i] = AstParents(Of(s[i]))
  BY <1>1, <1>2, <1>3 DEF AboveChild
<1>8. ASSUME NEW k
      PROVE  /\ AstParents(Of(k)) \in SUBSET AstNodes
             /\ AstParents(Of(k)) = {} <=> Of(k) = {}
             /\ \A a \in AstParents(Of(k)) : \E b \in Of(k) : a \in {b, astParent[b]}
  <2> DEFINE Over(a) == IF astParent[a] = NoParent THEN a ELSE astParent[a]
  <2>1. \A a \in AstNodes : Over(a) \in AstNodes /\ Over(a) \in {a, astParent[a]}
    BY <1>4
  <2>2. Of(k) \in SUBSET AstNodes
    BY <1>1
  <2>3. AstParents(Of(k)) = {Over(a) : a \in Of(k)}
    BY DEF AstParents
  <2> HIDE DEF Over, Of
  <2>. QED
    BY <2>1, <2>2, <2>3
<1> HIDE DEF s, Of, found
<1>9. /\ FirstFound(found) = {} <=> \A i \in 1..l : found[i] = {}
      /\ FirstFound(found) # {} => \E i \in 1..l : FirstFound(found) = found[i]
  BY <1>7, FirstFoundFacts
<1>10. CASE OwnNodes(m) # {}
  <2>1. OwnNodes(m) \subseteq AstSeen /\ OwnNodes(m) \subseteq AstNodes
    BY <1>1 DEF OwnNodes
  <2>. QED
    BY <1>5, <1>6, <1>10, <2>1
<1>11. CASE OwnNodes(m) = {}
  <2>1. NodesNear(m) = FirstFound(found)
    BY <1>6, <1>11
  <2>2. \A i \in 1..l : Of(s[i]) \in SUBSET AstSeen
    BY DEF Of
  <2>3. NodesNear(m) = {} <=> AnchorsOf(m) = {}
    <3>1. \A i \in 1..l : found[i] = {} <=> Of(s[i]) = {}
      BY <1>7, <1>8
    <3>2. AnchorsOf(m) = {} <=> \A i \in 1..l : Of(s[i]) = {}
      BY <1>5, <1>11, <2>2
    <3>. QED
      BY <1>9, <2>1, <3>1, <3>2
  <2>4. CASE NodesNear(m) # {}
    <3>1. PICK i \in 1..l : NodesNear(m) = AstParents(Of(s[i]))
      BY <1>7, <1>9, <2>1, <2>4
    <3>2. Of(s[i]) \subseteq AnchorsOf(m)
      BY <1>5, <2>2
    <3>. QED
      BY <1>8, <1>11, <2>3, <3>1, <3>2
  <2>. QED
    BY <1>11, <2>3, <2>4
<1>. QED
  BY <1>10, <1>11

\* The resolved nodes with the range of a syntax node.
OwnResolved(a) == {m \in ResolvedSeen : resolvedRange[m] = astRange[a]}

\* What is found at a syntax node is what has its own range, if anything has.
LEMMA OwnFirst ==
    ASSUME TreesInv, Filed, NEW a \in AstNodes
    PROVE  /\ ResolvedIn(astRange[a]) = OwnResolved(a)
           /\ OwnResolved(a) # {} => /\ ResolvedNear(a) = OwnResolved(a)
                                     /\ ResolvedNear(a) # Panic
<1>1. ResolvedIn(astRange[a]) = OwnResolved(a)
  BY InFacts DEF OwnResolved
<1>2. OwnResolved(a) # {} => ResolvedNear(a) = OwnResolved(a)
  BY <1>1, FirstOfTwo DEF ResolvedNear
<1>3. OwnResolved(a) # Panic
  <2>1. ResolvedSeen \subseteq 1..ResolvedSize
    BY NodeMapAssumption, VisibleFacts DEF TreesInv, ResolvedSeen
  <2>2. OwnResolved(a) \in SUBSET (1..ResolvedSize)
    BY <2>1 DEF OwnResolved
  <2>. QED
    BY <2>2, NodeMapAssumption
<1>. QED
  BY <1>1, <1>2, <1>3

\* What is found above a child: a panic for nil, and otherwise something whenever
\* there is a resolved node with its range.
LEMMA AboveAstChildFacts ==
    ASSUME TreesInv, Filed, NEW b \in AstNodes
    PROVE  /\ b \in astNil => AboveAstChild(b) = Panic
           /\ b \notin astNil => /\ AboveAstChild(b) # Panic
                                 /\ AboveAstChild(b) = {} <=> ~Anchored(b)
<1>1. /\ ResolvedNodes = 1..ResolvedSize /\ ResolvedSize \in Nat
      /\ resolvedParent \in TreesOf(ResolvedSize)
      /\ ResolvedSeen = {} \/ ResolvedSeen = ResolvedNodes
  BY NodeMapAssumption, AllOrNothing DEF ResolvedNodes, TreesInv, Filed
<1>2. ASSUME NEW m \in ResolvedSeen
      PROVE  \/ parentsOf[m] = <<>>
             \/ parentsOf[m] = <<resolvedParent[m]>> /\ resolvedParent[m] \in ResolvedNodes
  <2>1. m \in 1..ResolvedSize
    BY <1>1
  <2>2. m # 1 => resolvedParent[m] \in 1..(m - 1)
    BY <1>1, <2>1, TreeFacts
  <2>3. m # 1 => resolvedParent[m] \in 1..ResolvedSize
    BY <1>1, <2>1, <2>2
  <2>. QED
    BY <1>1, <2>3 DEF Filed
<1> DEFINE Over(m) == IF parentsOf[m] = <<>> THEN {m} ELSE Range(parentsOf[m])
<1>3. ASSUME NEW m \in ResolvedSeen PROVE Over(m) \in SUBSET ResolvedNodes /\ Over(m) # {}
  <2>1. CASE parentsOf[m] = <<>>
    BY <1>1, <2>1
  <2>2. CASE parentsOf[m] = <<resolvedParent[m]>> /\ resolvedParent[m] \in ResolvedNodes
    <3>1. Range(parentsOf[m]) = {resolvedParent[m]} /\ parentsOf[m] # <<>>
      BY <2>2 DEF Range
    <3>. QED
      BY <2>2, <3>1
  <2>. QED
    BY <1>2, <2>1, <2>2
<1>4. ResolvedParents(OwnResolved(b)) = UNION {Over(m) : m \in OwnResolved(b)}
  BY DEF ResolvedParents
<1>5. OwnResolved(b) \subseteq ResolvedSeen /\ ResolvedIn(astRange[b]) = OwnResolved(b)
  BY InFacts DEF OwnResolved
<1> HIDE DEF Over
<1>6. /\ ResolvedParents(OwnResolved(b)) \in SUBSET ResolvedNodes
      /\ ResolvedParents(OwnResolved(b)) = {} <=> OwnResolved(b) = {}
  BY <1>3, <1>4, <1>5
<1>7. ResolvedParents(OwnResolved(b)) # Panic
  BY <1>1, <1>6, NodeMapAssumption
<1>8. b \notin astNil => (Anchored(b) <=> OwnResolved(b) # {})
  BY DEF Anchored, OwnResolved
<1>. QED
  BY <1>5, <1>6, <1>7, <1>8 DEF AboveAstChild

\* What is found at a syntax node that is not nil: nothing exactly when it is
\* passed, and a panic exactly when it is a dead end.
LEMMA ResolvedNearFacts ==
    ASSUME TreesInv, Filed, NEW a \in AstNodes, a \notin astNil
    PROVE  /\ ResolvedNear(a) = {} <=> Passed(a)
           /\ ResolvedNear(a) = Panic <=> DeadEnd(a)
<1> DEFINE s == AstKids[a]
           found == [i \in DOMAIN s |-> AboveAstChild(s[i])]
<1>1. AstNodes = 1..AstSize /\ AstSize \in Nat /\ astParent \in TreesOf(AstSize)
  BY NodeMapAssumption DEF AstNodes, TreesInv
<1>2. PICK l \in Nat : DOMAIN s = 1..l /\ \A i \in 1..l : s[i] \in AstNodes
  <2>1. Listed(KidsOf(astParent)[a], 1..AstSize)
    BY <1>1, KidsFacts
  <2>2. s = KidsOf(astParent)[a]
    BY DEF AstKids
  <2> HIDE DEF s
  <2>. QED
    BY <1>1, <2>1, <2>2 DEF Listed
<1>3. Panic # {}
  BY NodeMapAssumption
<1>4. /\ ResolvedNear(a) = IF OwnResolved(a) # {} THEN OwnResolved(a) ELSE FirstFound(found)
      /\ OwnResolved(a) # {} => OwnResolved(a) # Panic
  <2>1. ResolvedIn(astRange[a]) = OwnResolved(a)
    BY OwnFirst
  <2>. QED
    BY <2>1, OwnFirst, FirstOfTwo DEF ResolvedNear
<1>5. Anchored(a) <=> OwnResolved(a) # {}
  BY DEF Anchored, OwnResolved
<1>6. Passed(a) <=> ~Anchored(a) /\ \A i \in 1..l : s[i] \notin astNil /\ ~Anchored(s[i])
  <2>1. Around(AstKids, a) = {a} \cup {s[i] : i \in 1..l}
    BY <1>2 DEF Around, Range
  <2>. QED
    BY <2>1 DEF Passed
<1>7. DeadEnd(a) <=> /\ ~Anchored(a)
                     /\ \E i \in 1..l : s[i] \in astNil /\ \A j \in 1..(i - 1) : ~Anchored(s[j])
  BY <1>2 DEF DeadEnd
<1>8. DOMAIN found = 1..l /\ \A i \in 1..l : found[i] = AboveAstChild(s[i])
  BY <1>2
<1> HIDE DEF s, found
<1>9. \A i \in 1..l : /\ s[i] \in astNil => found[i] = Panic
                      /\ s[i] \notin astNil => found[i] # Panic /\ (found[i] = {} <=> ~Anchored(s[i]))
  BY <1>2, <1>8, AboveAstChildFacts
<1>10. /\ FirstFound(found) = {} <=> \A i \in 1..l : found[i] = {}
       /\ FirstFound(found) # {} =>
            \E i \in 1..l : FirstFound(found) = found[i] /\ \A j \in 1..(i - 1) : found[j] = {}
  BY <1>8, FirstFoundFacts
<1>11. CASE OwnResolved(a) # {}
  BY <1>4, <1>5, <1>6, <1>7, <1>11
<1>12. CASE OwnResolved(a) = {}
  <2>1. ResolvedNear(a) = FirstFound(found) /\ ~Anchored(a)
    BY <1>4, <1>5, <1>12
  <2>2. ResolvedNear(a) = {} <=> Passed(a)
    BY <1>3, <1>6, <1>9, <1>10, <2>1
  <2>3. ASSUME ResolvedNear(a) = Panic PROVE DeadEnd(a)
    <3>1. PICK i \in 1..l : found[i] = Panic /\ \A j \in 1..(i - 1) : found[j] = {}
      BY <1>3, <1>10, <2>1, <2>3
    <3>2. s[i] \in astNil
      BY <1>9, <3>1
    <3>3. \A j \in 1..(i - 1) : j \in 1..l /\ ~Anchored(s[j])
      <4>1. \A j \in 1..(i - 1) : j \in 1..l
        BY <3>1
      <4>. QED
        BY <1>3, <1>9, <3>1, <4>1
    <3>. QED
      BY <1>7, <2>1, <3>2, <3>3
  <2>4. ASSUME DeadEnd(a) PROVE ResolvedNear(a) = Panic
    <3>1. PICK i \in 1..l : s[i] \in astNil /\ \A j \in 1..(i - 1) : ~Anchored(s[j])
      BY <1>7, <2>4
    <3>2. found[i] = Panic /\ FirstFound(found) # {}
      BY <1>3, <1>9, <1>10, <3>1
    <3>3. PICK k \in 1..l : FirstFound(found) = found[k] /\ \A j \in 1..(k - 1) : found[j] = {}
      BY <1>10, <3>2
    <3>4. ~(i < k)
      <4>1. i < k => i \in 1..(k - 1)
        OBVIOUS
      <4>. QED
        BY <1>3, <3>2, <3>3, <4>1
    <3>5. CASE k = i
      BY <2>1, <3>2, <3>3, <3>5
    <3>6. CASE k # i
      <4>1. k \in 1..(i - 1)
        BY <3>4, <3>6
      <4>2. ~Anchored(s[k]) /\ found[k] # {}
        BY <3>1, <3>2, <3>3, <4>1
      <4>3. found[k] = Panic
        BY <1>9, <4>2
      <4>. QED
        BY <2>1, <3>3, <4>3
    <3>. QED
      BY <3>5, <3>6
  <2>. QED
    BY <2>2, <2>3, <2>4
<1>. QED
  BY <1>11, <1>12

\* The search from a syntax node as a climb.
AstStopNodes == {a \in AstNodes : a = 1 \/ ResolvedNear(a) # {}}
AstNear == [a \in AstNodes |-> IF ResolvedNear(a) # {} THEN ResolvedNear(a) ELSE Panic]

LEMMA FindResolvedClimbs ==
    ASSUME TreesInv, NEW n \in AstNodes
    PROVE  \E f : /\ IsClimb(f, AstSize, astParent, AstStopNodes, AstNear)
                  /\ FindResolved(n) = f[n]
<1> DEFINE Body(f) == [a \in AstNodes |->
                         IF ResolvedNear(a) # {} THEN ResolvedNear(a)
                         ELSE IF astParent[a] = NoParent THEN Panic ELSE f[astParent[a]]]
           Rule(f) == [a \in 1..AstSize |->
                         IF a \in AstStopNodes THEN AstNear[a] ELSE f[astParent[a]]]
<1>1. /\ AstSize \in Nat \ {0} /\ AstNodes = 1..AstSize
      /\ astParent \in TreesOf(AstSize) /\ 1 \in AstNodes
  BY NodeMapAssumption DEF AstNodes, TreesInv
<1>2. \A a \in AstNodes : astParent[a] = NoParent <=> a = 1
  BY <1>1, TreeFacts
<1>3. \A f : Body(f) = Rule(f)
  BY <1>1, <1>2 DEF AstStopNodes, AstNear
<1>4. \E f : IsClimb(f, AstSize, astParent, AstStopNodes, AstNear)
  <2>1. 1 \in AstStopNodes
    BY <1>1 DEF AstStopNodes
  <2>. QED
    BY <1>1, <2>1, ClimbExists
<1>5. \E f : f = Body(f)
  <2>1. PICK f : f = Rule(f)
    BY <1>4 DEF IsClimb
  <2> HIDE DEF Body, Rule
  <2>. QED
    BY <1>3, <2>1
<1> DEFINE find == CHOOSE f : f = Body(f)
<1>6. FindResolved(n) = find[n]
  BY DEF FindResolved
<1>7. find = Body(find)
  <2> HIDE DEF Body
  <2>. QED
    BY <1>5
<1> HIDE DEF find, Body
<1>8. IsClimb(find, AstSize, astParent, AstStopNodes, AstNear)
  BY <1>3, <1>7 DEF IsClimb
<1>. QED
  BY <1>6, <1>8

-----------------------------------------------------------------------------
(* NodeMap: its invariant *)

\* What AnswerIsNearest says of a query, and PanicsOnlyAtNil.
IsNearest(n, ans) ==
    /\ ans = {} <=> AnsweredAt(n) = {}
    /\ \A m \in AnsweredAt(n) :
           LET own == {a \in AstSeen : astRange[a] = resolvedRange[m]}
           IN IF own # {} THEN ans = own
              ELSE \A a \in ans : \E b \in AnchorsOf(m) : a \in {b, astParent[b]}

PanicsAtNil(n, ans) == ans = Panic <=> \A a \in StopsAt(n) : DeadEnd(a)

QueryInv ==
    \/ query = NoQuery
    \/ \E n \in ResolvedSeen, ans \in SUBSET AstNodes :
         /\ built = "returned" /\ query = [tree |-> "resolved", node |-> n] /\ answer = ans
         /\ IsNearest(n, ans)
    \/ \E n \in AstSeen : \E ans :
         /\ built = "returned" /\ query = [tree |-> "ast", node |-> n] /\ answer = ans
         /\ PanicsAtNil(n, ans)

MapInv ==
    /\ TreesInv
    /\ built = "returned" => Filed
    /\ QueryInv

LEMMA FindNodeIsNearest ==
    ASSUME TreesInv, Filed, NEW n \in ResolvedSeen
    PROVE  FindNode(n) \in SUBSET AstNodes /\ IsNearest(n, FindNode(n))
<1>1. /\ ResolvedNodes = 1..ResolvedSize /\ ResolvedSize \in Nat \ {0}
      /\ resolvedParent \in TreesOf(ResolvedSize) /\ n \in 1..ResolvedSize
      /\ ResolvedSeen = ResolvedNodes
  BY NodeMapAssumption, AllOrNothing DEF ResolvedNodes, TreesInv, Filed
<1>2. PICK f : /\ IsClimb(f, ResolvedSize, resolvedParent, StopNodes, Near)
               /\ FindNode(n) = f[n]
  BY FindNodeClimbs
<1>3. 1 \in StopNodes
  BY <1>1 DEF StopNodes
<1>4. PICK s : ClimbEnds(f, resolvedParent, StopNodes, Near, n, s)
  BY <1>1, <1>2, <1>3, ClimbStops
<1>5. /\ s \in Ancestors(resolvedParent, n) /\ s \in StopNodes /\ f[n] = Near[s]
      /\ \A k \in Ancestors(resolvedParent, n) : k \in StopNodes => k =< s
  BY <1>4 DEF ClimbEnds
<1>6. Ancestors(resolvedParent, n) \subseteq ResolvedNodes
  <2>1. Ancestors(resolvedParent, n) \subseteq 1..n
    BY <1>1, AncestorsFacts
  <2>. QED
    BY <1>1, <2>1
<1>7. s \in ResolvedNodes /\ FindNode(n) = NodesNear(s)
  BY <1>2, <1>5, <1>6 DEF Near
<1>8. \A m \in ResolvedNodes : NodesNear(m) = {} <=> AnchorsOf(m) = {}
  BY <1>1, NodesNearFacts
<1>9. \A m \in Ancestors(resolvedParent, n) : AnchorsOf(m) # {} => m =< s
  BY <1>5, <1>6, <1>8 DEF StopNodes
<1>10. FindNode(n) \in SUBSET AstNodes
  BY <1>1, <1>7, NodesNearFacts
<1>11. CASE AnchorsOf(s) = {}
  <2>1. s = 1 /\ FindNode(n) = {}
    BY <1>5, <1>7, <1>8, <1>11 DEF StopNodes
  <2>2. \A m \in Ancestors(resolvedParent, n) : AnchorsOf(m) = {}
    BY <1>1, <1>6, <1>9, <1>11, <2>1
  <2>3. AnsweredAt(n) = {}
    BY <2>2 DEF AnsweredAt
  <2>. QED
    BY <1>10, <2>1, <2>3 DEF IsNearest
<1>12. CASE AnchorsOf(s) # {}
  <2>1. AnsweredAt(n) = {s}
    <3>1. s \in AnsweredAt(n)
      BY <1>5, <1>9, <1>12 DEF AnsweredAt
    <3>2. ASSUME NEW m \in AnsweredAt(n) PROVE m = s
      <4>1. m =< s /\ s =< m /\ m \in ResolvedNodes
        BY <1>5, <1>6, <1>9, <1>12 DEF AnsweredAt
      <4>. QED
        BY <1>1, <1>7, <4>1
    <3>. QED
      BY <3>1, <3>2
  <2>2. FindNode(n) # {}
    BY <1>7, <1>8, <1>12
  <2>3. /\ OwnNodes(s) # {} => FindNode(n) = OwnNodes(s)
        /\ OwnNodes(s) = {} => \A a \in FindNode(n) : \E b \in AnchorsOf(s) : a \in {b, astParent[b]}
    BY <1>1, <1>7, NodesNearFacts
  <2>. QED
    BY <1>10, <2>1, <2>2, <2>3 DEF IsNearest, OwnNodes
<1>. QED
  BY <1>11, <1>12

LEMMA FindResolvedPanics ==
    ASSUME TreesInv, Filed, NEW n \in AstSeen
    PROVE  PanicsAtNil(n, FindResolved(n))
<1>1. /\ AstNodes = 1..AstSize /\ AstSize \in Nat \ {0}
      /\ astParent \in TreesOf(AstSize)
  BY NodeMapAssumption DEF AstNodes, TreesInv
<1>2. /\ n \in AstNodes
      /\ Ancestors(astParent, n) \subseteq AstNodes /\ Ancestors(astParent, n) \cap astNil = {}
  BY <1>1, VisibleFacts DEF AstSeen
<1>3. PICK f : /\ IsClimb(f, AstSize, astParent, AstStopNodes, AstNear)
               /\ FindResolved(n) = f[n]
  BY <1>2, FindResolvedClimbs
<1>4. PICK s : ClimbEnds(f, astParent, AstStopNodes, AstNear, n, s)
  <2>1. 1 \in AstStopNodes
    BY <1>1 DEF AstStopNodes
  <2>. QED
    BY <1>1, <1>2, <1>3, <2>1, ClimbStops
<1>5. /\ s \in Ancestors(astParent, n) /\ s \in AstStopNodes /\ f[n] = AstNear[s]
      /\ \A k \in Ancestors(astParent, n) : k \in AstStopNodes => k =< s
  BY <1>4 DEF ClimbEnds
<1>6. FindResolved(n) = IF ResolvedNear(s) # {} THEN ResolvedNear(s) ELSE Panic
  BY <1>2, <1>3, <1>5 DEF AstNear
<1>7. \A a \in Ancestors(astParent, n) : /\ ResolvedNear(a) = {} <=> Passed(a)
                                         /\ ResolvedNear(a) = Panic <=> DeadEnd(a)
  BY <1>2, ResolvedNearFacts
<1>8. \A a \in Ancestors(astParent, n) : ~Passed(a) => a =< s
  BY <1>2, <1>5, <1>7 DEF AstStopNodes
<1>9. CASE ResolvedNear(s) # {}
  <2>1. StopsAt(n) = {s}
    <3>1. s \in StopsAt(n)
      BY <1>5, <1>7, <1>8, <1>9 DEF StopsAt
    <3>2. ASSUME NEW a \in StopsAt(n) PROVE a = s
      <4>1. a =< s /\ s =< a /\ a \in AstNodes /\ s \in AstNodes
        BY <1>2, <1>5, <1>7, <1>8, <1>9 DEF StopsAt
      <4>. QED
        BY <1>1, <4>1
    <3>. QED
      BY <3>1, <3>2
  <2>2. FindResolved(n) = Panic <=> DeadEnd(s)
    BY <1>5, <1>6, <1>7, <1>9
  <2>. QED
    BY <2>1, <2>2 DEF PanicsAtNil
<1>10. CASE ResolvedNear(s) = {}
  <2>1. FindResolved(n) = Panic /\ s = 1 /\ Passed(s)
    BY <1>5, <1>6, <1>7, <1>10 DEF AstStopNodes
  <2>2. ASSUME NEW a \in Ancestors(astParent, n) PROVE Passed(a)
    <3>1. a \in AstNodes /\ (~Passed(a) => a =< 1)
      BY <1>2, <1>8, <2>1
    <3>2. ~Passed(a) => a = 1
      BY <1>1, <3>1
    <3>. QED
      BY <2>1, <3>2
  <2>3. StopsAt(n) = {}
    BY <2>2 DEF StopsAt
  <2>. QED
    BY <2>1, <2>3 DEF PanicsAtNil
<1>. QED
  BY <1>9, <1>10

LEMMA InitMapInv == MapInit => MapInv
BY DEF MapInit, MapInv, TreesInv, QueryInv

\* The properties of a query are about the trees, which no step changes.
LEMMA TreesStay ==
    ASSUME UNCHANGED trees
    PROVE  /\ TreesInv => TreesInv'
           /\ AstSeen' = AstSeen /\ ResolvedSeen' = ResolvedSeen
           /\ HasNilChild' <=> HasNilChild
           /\ \A n, ans : IsNearest(n, ans) => IsNearest(n, ans)'
           /\ \A n, ans : PanicsAtNil(n, ans) => PanicsAtNil(n, ans)'
<1>1. /\ astParent' = astParent /\ astRange' = astRange /\ astNil' = astNil
      /\ resolvedParent' = resolvedParent /\ resolvedRange' = resolvedRange
      /\ resolvedNil' = resolvedNil
  BY DEF trees
<1>2. TreesInv => TreesInv'
  BY <1>1 DEF TreesInv
<1>3. /\ AstSeen' = AstSeen /\ ResolvedSeen' = ResolvedSeen
      /\ AstKids' = AstKids /\ ResolvedKids' = ResolvedKids
  BY <1>1 DEF AstSeen, ResolvedSeen, AstKids, ResolvedKids
<1>4. HasNilChild' <=> HasNilChild
  BY <1>1, <1>3 DEF HasNilChild
<1>5. ASSUME NEW m PROVE AnchorsOf(m)' = AnchorsOf(m)
  BY <1>1, <1>3 DEF AnchorsOf, Around
<1>6. ASSUME NEW n PROVE AnsweredAt(n)' = AnsweredAt(n)
  BY <1>1, <1>5 DEF AnsweredAt
<1>7. ASSUME NEW n, NEW ans PROVE IsNearest(n, ans) => IsNearest(n, ans)'
  BY <1>1, <1>3, <1>5, <1>6 DEF IsNearest
<1>8. ASSUME NEW a PROVE Anchored(a)' <=> Anchored(a)
  BY <1>1, <1>3 DEF Anchored
<1>9. ASSUME NEW a PROVE (Passed(a)' <=> Passed(a)) /\ (DeadEnd(a)' <=> DeadEnd(a))
  <2>1. \A b : Anchored(b)' <=> Anchored(b)
    BY <1>8
  <2>. QED
    BY <1>1, <1>3, <2>1 DEF Passed, DeadEnd, Around
<1>10. ASSUME NEW n PROVE StopsAt(n)' = StopsAt(n)
  BY <1>1, <1>9 DEF StopsAt
<1>11. ASSUME NEW n, NEW ans PROVE PanicsAtNil(n, ans) => PanicsAtNil(n, ans)'
  BY <1>9, <1>10 DEF PanicsAtNil
<1>. QED
  BY <1>2, <1>3, <1>4, <1>7, <1>11

LEMMA NextMapInv == MapInv /\ [MapNext]_mapVars => MapInv'
<1> SUFFICES ASSUME MapInv, [MapNext]_mapVars PROVE MapInv'
  OBVIOUS
<1>1. TreesInv /\ (built = "returned" => Filed) /\ QueryInv
  BY DEF MapInv
<1>2. UNCHANGED trees
  BY DEF MapNext, Build, FindNodeFromResolvedNode, FindResolvedNodeFromNode, mapVars
<1>3. /\ TreesInv'
      /\ AstSeen' = AstSeen /\ ResolvedSeen' = ResolvedSeen /\ (HasNilChild' <=> HasNilChild)
      /\ \A n, ans : IsNearest(n, ans) => IsNearest(n, ans)'
      /\ \A n, ans : PanicsAtNil(n, ans) => PanicsAtNil(n, ans)'
  BY <1>1, <1>2, TreesStay
<1>4. /\ astParent' = astParent /\ astRange' = astRange
      /\ resolvedParent' = resolvedParent /\ resolvedRange' = resolvedRange
  BY <1>2 DEF trees
<1>5. CASE Build
  <2>1. ASSUME built' = "returned" PROVE Filed'
    <3>1. /\ ~HasNilChild
          /\ nodesAt' = [r \in Ranges |-> Located(AstSeen, astRange, r)]
          /\ resolvedAt' = [r \in Ranges |-> Located(ResolvedSeen, resolvedRange, r)]
          /\ parentsOf' = [n \in ResolvedNodes |-> Parents(n)]
      BY <1>5, <2>1 DEF Build
    <3>2. \A n \in ResolvedSeen : Parents(n) = IF n = 1 THEN <<>> ELSE <<resolvedParent[n]>>
      BY <1>1, <3>1, ParentsFacts
    <3>3. ResolvedSeen \subseteq ResolvedNodes
      BY <1>1, NodeMapAssumption, VisibleFacts DEF TreesInv, ResolvedSeen, ResolvedNodes
    <3>4. \A n \in ResolvedSeen' : parentsOf'[n] = IF n = 1 THEN <<>> ELSE <<resolvedParent'[n]>>
      BY <1>3, <1>4, <3>1, <3>2, <3>3
    <3>5. /\ nodesAt' = [r \in Ranges |-> Located(AstSeen', astRange', r)]
          /\ resolvedAt' = [r \in Ranges |-> Located(ResolvedSeen', resolvedRange', r)]
      BY <1>3, <1>4, <3>1
    <3>. QED
      BY <1>3, <3>1, <3>4, <3>5 DEF Filed
  <2>2. QueryInv'
    BY <1>1, <1>5 DEF Build, QueryInv
  <2>. QED
    BY <1>3, <2>1, <2>2 DEF MapInv
<1>6. ASSUME UNCHANGED <<maps, built>> PROVE (built = "returned" => Filed)'
  BY <1>1, <1>3, <1>4, <1>6 DEF Filed, maps
<1>7. CASE \E n \in ResolvedSeen : FindNodeFromResolvedNode(n)
  <2>1. PICK n \in ResolvedSeen : FindNodeFromResolvedNode(n)
    BY <1>7
  <2>2. /\ built = "returned"
        /\ query' = [tree |-> "resolved", node |-> n] /\ answer' = FindNode(n)
        /\ UNCHANGED <<maps, built>>
    BY <2>1 DEF FindNodeFromResolvedNode
  <2>3. PICK ans \in SUBSET AstNodes : ans = FindNode(n) /\ IsNearest(n, ans)
    BY <1>1, <2>2, FindNodeIsNearest
  <2>4. IsNearest(n, ans)'
    BY <1>3, <2>3
  <2>5. QueryInv'
    BY <1>3, <2>2, <2>3, <2>4 DEF QueryInv
  <2>. QED
    BY <1>3, <1>6, <2>2, <2>5 DEF MapInv
<1>8. CASE \E n \in AstSeen : FindResolvedNodeFromNode(n)
  <2>1. PICK n \in AstSeen : FindResolvedNodeFromNode(n)
    BY <1>8
  <2>2. /\ built = "returned"
        /\ query' = [tree |-> "ast", node |-> n] /\ answer' = FindResolved(n)
        /\ UNCHANGED <<maps, built>>
    BY <2>1 DEF FindResolvedNodeFromNode
  <2>3. PICK ans : ans = FindResolved(n) /\ PanicsAtNil(n, ans)
    BY <1>1, <2>2, FindResolvedPanics
  <2>4. PanicsAtNil(n, ans)'
    BY <1>3, <2>3
  <2>5. QueryInv'
    BY <1>3, <2>2, <2>3, <2>4 DEF QueryInv
  <2>. QED
    BY <1>3, <1>6, <2>2, <2>5 DEF MapInv
<1>9. CASE UNCHANGED mapVars
  <2>1. UNCHANGED <<maps, built, query, answer>>
    BY <1>9 DEF mapVars
  <2>2. QueryInv'
    BY <1>1, <1>3, <2>1 DEF QueryInv
  <2>. QED
    BY <1>3, <1>6, <2>1, <2>2 DEF MapInv
<1>. QED
  BY <1>5, <1>7, <1>8, <1>9 DEF MapNext

-----------------------------------------------------------------------------
(* What NodeMap promises *)

\* What is filed and what the last search found stay as the trees have it.
THEOREM MapInvariantHolds == MapSpec => []MapInv
BY InitMapInv, NextMapInv, PTL DEF MapSpec

\* A search from a resolved node is answered as low in the tree as can be, and
\* finds nothing only when there is nothing at its ancestors.
THEOREM AnswersAreNearest == MapSpec => []AnswerIsNearest
<1>1. ASSUME MapInv, AskedResolved PROVE IsNearest(query.node, answer)
  BY <1>1 DEF MapInv, QueryInv, NoQuery, AskedResolved
<1>2. MapInv => AnswerIsNearest
  BY <1>1 DEF AnswerIsNearest, IsNearest
<1>. QED
  BY <1>2, MapInvariantHolds, PTL

\* A search from a syntax node panics exactly when nothing is located around it
\* and its ancestors, or the lowest of them that is not passed has nothing of its
\* own and a nil child first.
THEOREM PanicsAreAtNil == MapSpec => []PanicsOnlyAtNil
<1>1. ASSUME MapInv, AskedAst PROVE PanicsAtNil(query.node, answer)
  BY <1>1 DEF MapInv, QueryInv, NoQuery, AskedAst
<1>2. MapInv => PanicsOnlyAtNil
  BY <1>1 DEF PanicsOnlyAtNil, PanicsAtNil
<1>. QED
  BY <1>2, MapInvariantHolds, PTL

\* A resolved node with a range is found again from the syntax nodes of that
\* range.
THEOREM TheMapsAgree == MapSpec => []RoundTrip
<1>1. ASSUME MapInv, AskedResolved, NEW a \in answer,
             resolvedRange[query.node] \in Ranges, astRange[a] = resolvedRange[query.node]
      PROVE  FindResolved(a) # Panic /\ query.node \in FindResolved(a)
  <2>1. /\ TreesInv /\ Filed /\ query.node \in ResolvedSeen /\ a \in AstNodes
    BY <1>1 DEF MapInv, QueryInv, NoQuery, AskedResolved
  <2>2. query.node \in ResolvedIn(astRange[a])
    BY <1>1, <2>1, InFacts
  <2>3. ResolvedNear(a) = ResolvedIn(astRange[a]) /\ ResolvedNear(a) # {} /\ ResolvedNear(a) # Panic
    BY <2>1, <2>2, OwnFirst
  <2>4. PICK f : /\ IsClimb(f, AstSize, astParent, AstStopNodes, AstNear)
                 /\ FindResolved(a) = f[a]
    BY <2>1, FindResolvedClimbs
  <2>5. a \in AstStopNodes /\ a \in 1..AstSize /\ AstNear[a] = ResolvedNear(a)
    BY <2>1, <2>3 DEF AstStopNodes, AstNear, AstNodes
  <2>6. FindResolved(a) = ResolvedNear(a)
    BY <2>4, <2>5 DEF IsClimb
  <2>. QED
    BY <2>2, <2>3, <2>6
<1>2. MapInv => RoundTrip
  BY <1>1 DEF RoundTrip
<1>. QED
  BY <1>2, MapInvariantHolds, PTL
=============================================================================
