------------------------------ MODULE NodeMap ------------------------------
(***************************************************************************)
(* NodeMap (map.go): the correspondence between the syntax tree and the    *)
(* resolved tree of a statement, by the ranges of source text that their   *)
(* nodes record.                                                           *)
(*                                                                         *)
(* NewNodeMap walks both trees and files every node under its range.       *)
(* Every syntax node has a range, a resolved node may have none.  Walk     *)
(* shows what ast.Walk and resolved_ast.Walk call back for, and in which   *)
(* order: of the nodes that newNode answers nil for, the callbacks get the *)
(* nil, and of those below them nothing.  Asking a nil node for its range  *)
(* or its handle panics.                                                   *)
(* A range is a name here: nothing in map.go looks inside one.  The nodes  *)
(* of a range, and those that a search finds, are sets: only the first of  *)
(* several parents or children matters to a search.                        *)
(* The searches fall back to the children of a node and then climb to its  *)
(* parent; only the one that climbs the syntax tree lacks an end.          *)
(***************************************************************************)
EXTENDS Trees

CONSTANTS
    AstSize, ResolvedSize,  \* nodes of the two trees
    Ranges,                 \* ranges of source text
    NoRange, Panic

ASSUME NodeMapAssumption ==
    /\ AstSize \in Nat \ {0} /\ ResolvedSize \in Nat \ {0}
    /\ NoRange \notin Ranges
    /\ \A nodes \in (SUBSET (1..AstSize)) \cup (SUBSET (1..ResolvedSize)) : Panic # nodes

AstNodes == 1..AstSize
ResolvedNodes == 1..ResolvedSize

VARIABLES
    astParent, astRange,            \* the syntax tree: Parent, ParseLocationRange
    resolvedParent, resolvedRange,  \* the resolved tree
    astNil, resolvedNil,            \* their nodes that newNode answers nil for
    nodesAt,     \* locationToNodeMap
    resolvedAt,  \* locationToResolvedNodeMap
    parentsOf,   \* resolvedNodeToParentMap, in the order of the walk
    built,       \* NewNodeMap: "not yet", "returned", or "panicked"
    query,       \* the last call: its tree and node
    answer       \* and what it returned

trees == <<astParent, astRange, resolvedParent, resolvedRange, astNil, resolvedNil>>
maps == <<nodesAt, resolvedAt, parentsOf>>
mapVars == <<trees, maps, built, query, answer>>

NoQuery == [tree |-> "none", node |-> 0]

AstKids == KidsOf(astParent)
ResolvedKids == KidsOf(resolvedParent)

\* The nodes that the walks give to a program.
AstSeen == Visible(astParent, astNil)
ResolvedSeen == Visible(resolvedParent, resolvedNil)

MapInit ==
    /\ astParent \in TreesOf(AstSize)
    /\ astRange \in [AstNodes -> Ranges]
    /\ resolvedParent \in TreesOf(ResolvedSize)
    /\ resolvedRange \in [ResolvedNodes -> Ranges \cup {NoRange}]
    /\ astNil \in SUBSET AstNodes
    /\ resolvedNil \in SUBSET ResolvedNodes
    /\ nodesAt = [r \in Ranges |-> {}]
    /\ resolvedAt = [r \in Ranges |-> {}]
    /\ parentsOf = [n \in ResolvedNodes |-> <<>>]
    /\ built = "not yet"
    /\ query = NoQuery
    /\ answer = {}

-----------------------------------------------------------------------------
\* Mutant: a node replaces the one filed under its range before.
LocatedLast(nodes, range, r) ==
    {n \in nodes : range[n] = r /\ \A m \in nodes : range[m] = r => m <= n}

\* What the callbacks append to the list of a key, over the whole walk.
Located(nodes, range, r) == {n \in nodes : range[n] = r}

\* The nodes that the walk lists n among the children of, in its order.
Parents(n) == Ascending({m \in ResolvedSeen : IsChild(ResolvedKids, n, m)})

\* The callback asks every child of a resolved node for its handle.
HasNilChild == \E n \in ResolvedSeen : Range(ResolvedKids[n]) \cap resolvedNil # {}

\* NewNodeMap and init.  A panic leaves the caller without a map.
Build ==
    /\ built = "not yet"
    /\ \/ /\ HasNilChild
          /\ built' = "panicked"
          /\ UNCHANGED maps
       \/ /\ ~HasNilChild
          /\ built' = "returned"
          /\ nodesAt' = [r \in Ranges |-> Located(AstSeen, astRange, r)]
          /\ resolvedAt' = [r \in Ranges |-> Located(ResolvedSeen, resolvedRange, r)]
          /\ parentsOf' = [n \in ResolvedNodes |-> Parents(n)]
    /\ UNCHANGED <<trees, query, answer>>

-----------------------------------------------------------------------------
NodesIn(r) == IF r = NoRange THEN {} ELSE nodesAt[r]
ResolvedIn(r) == IF r = NoRange THEN {} ELSE resolvedAt[r]

\* The first of a sequence of answers that is not empty.
FirstFound(answers) ==
    LET found == {i \in DOMAIN answers : answers[i] # {}}
    IN IF found = {} THEN {} ELSE answers[CHOOSE i \in found : \A j \in found : i <= j]

\* The parents of syntax nodes; a root stands for itself.
AstParents(nodes) == {IF astParent[a] = NoParent THEN a ELSE astParent[a] : a \in nodes}

\* The same for resolved nodes, by resolvedNodeToParentMap.
ResolvedParents(nodes) ==
    UNION {IF parentsOf[m] = <<>> THEN {m} ELSE Range(parentsOf[m]) : m \in nodes}

\* What is found above the range of a child, which panics when that is nil.
AboveChild(m) == IF m \in resolvedNil THEN Panic ELSE AstParents(NodesIn(resolvedRange[m]))
AboveAstChild(a) == IF a \in astNil THEN Panic ELSE ResolvedParents(ResolvedIn(astRange[a]))

\* What is found at a node itself: by its range, or else above the range of its
\* first child that has one.
NodesNear(m) ==
    FirstFound(<< NodesIn(resolvedRange[m]),
                  FirstFound([i \in DOMAIN ResolvedKids[m] |-> AboveChild(ResolvedKids[m][i])]) >>)

ResolvedNear(a) ==
    FirstFound(<< ResolvedIn(astRange[a]),
                  FirstFound([i \in DOMAIN AstKids[a] |-> AboveAstChild(AstKids[a][i])]) >>)

\* Mutant: the search climbs before it looks at the children.
FindNodeClimbsFirst(n) ==
    LET find[m \in ResolvedNodes] ==
        FirstFound(<< NodesIn(resolvedRange[m]),
                      FirstFound([i \in DOMAIN parentsOf[m] |-> find[parentsOf[m][i]]]),
                      NodesNear(m) >>)
    IN find[n]

\* findNodeFromResolvedNode: at the node itself, and then the same for its
\* parents.
FindNode(n) ==
    LET find[m \in ResolvedNodes] ==
        FirstFound(<< NodesNear(m),
                      FirstFound([i \in DOMAIN parentsOf[m] |-> find[parentsOf[m][i]]]) >>)
    IN find[n]

\* Mutant: the children of a syntax node are not looked at.
FindResolvedSkipsKids(n) ==
    LET find[a \in AstNodes] ==
        IF ResolvedIn(astRange[a]) # {} THEN ResolvedIn(astRange[a])
        ELSE IF astParent[a] = NoParent THEN Panic ELSE find[astParent[a]]
    IN find[n]

\* findResolvedNodeFromNode.  It calls itself on Parent(), which is nil above
\* the root: asking nil for its range panics.
FindResolved(n) ==
    LET find[a \in AstNodes] ==
        IF ResolvedNear(a) # {} THEN ResolvedNear(a)
        ELSE IF astParent[a] = NoParent THEN Panic ELSE find[astParent[a]]
    IN find[n]

FindNodeFromResolvedNode(n) ==
    /\ built = "returned"
    /\ query' = [tree |-> "resolved", node |-> n]
    /\ answer' = FindNode(n)
    /\ UNCHANGED <<trees, maps, built>>

FindResolvedNodeFromNode(n) ==
    /\ built = "returned"
    /\ query' = [tree |-> "ast", node |-> n]
    /\ answer' = FindResolved(n)
    /\ UNCHANGED <<trees, maps, built>>

MapNext ==
    \/ Build
    \/ \E n \in ResolvedSeen : FindNodeFromResolvedNode(n)
    \/ \E n \in AstSeen : FindResolvedNodeFromNode(n)

MapSpec == MapInit /\ [][MapNext]_mapVars

-----------------------------------------------------------------------------
AskedResolved == query.tree = "resolved"
AskedAst == query.tree = "ast"

Around(kids, n) == {n} \cup Range(kids[n])

\* The syntax nodes with the range of resolved node n or of one of its children.
AnchorsOf(n) ==
    {a \in AstSeen : \E m \in Around(ResolvedKids, n) : resolvedRange[m] = astRange[a]}

\* The resolved node that n's search is answered at: the lowest of n and its
\* ancestors that has an anchor.
AnsweredAt(n) ==
    {m \in Ancestors(resolvedParent, n) :
        /\ AnchorsOf(m) # {}
        /\ \A k \in Ancestors(resolvedParent, n) : AnchorsOf(k) # {} => k <= m}

\* A search from a resolved node is answered as low in the tree as can be, with
\* the syntax nodes that share a range there, or with their parents; never with
\* both an anchor's parent and a node of the search's own range, and not at all
\* only when there is nothing at it, at its ancestors and at their children.
AnswerIsNearest ==
    AskedResolved =>
        /\ answer = {} <=> AnsweredAt(query.node) = {}
        /\ \A m \in AnsweredAt(query.node) :
               LET own == {a \in AstSeen : astRange[a] = resolvedRange[m]}
               IN IF own # {} THEN answer = own
                  ELSE \A a \in answer :
                           \E b \in AnchorsOf(m) : a \in {b, astParent[b]}

\* Syntax node a has the range of a resolved node.
Anchored(a) == a \notin astNil /\ \E m \in ResolvedSeen : resolvedRange[m] = astRange[a]

\* Neither syntax node a nor a child of it leads to a resolved node, or is nil.
Passed(a) == \A b \in Around(AstKids, a) : b \notin astNil /\ ~Anchored(b)

\* A nil child of syntax node a comes before everything that leads further.
DeadEnd(a) ==
    /\ ~Anchored(a)
    /\ \E i \in DOMAIN AstKids[a] :
         /\ AstKids[a][i] \in astNil
         /\ \A j \in 1..(i - 1) : ~Anchored(AstKids[a][j])

\* The syntax node that a's search ends at: the lowest that it does not pass.
StopsAt(a) ==
    {b \in Ancestors(astParent, a) :
        /\ ~Passed(b)
        /\ \A c \in Ancestors(astParent, a) : ~Passed(c) => c <= b}

\* The search from a syntax node panics in two cases, and in no other: it climbs
\* past the root, when no resolved node is located at the node, at its ancestors
\* or at any of their children, none of them nil; or the lowest of them that it
\* does not pass has no located range itself, and a nil child comes before every
\* child that has one.
PanicsOnlyAtNil ==
    AskedAst => (answer = Panic <=> \A a \in StopsAt(query.node) : DeadEnd(a))

\* The two maps agree: a resolved node with a range is found again from every
\* syntax node that its own range leads to.
RoundTrip ==
    AskedResolved /\ resolvedRange[query.node] \in Ranges =>
        \A a \in answer :
            astRange[a] = resolvedRange[query.node] => FindResolved(a) # Panic /\ query.node \in FindResolved(a)
=============================================================================
