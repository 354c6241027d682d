------------------------------- MODULE Trees -------------------------------
(***************************************************************************)
(* The trees that ast.Node and resolved_ast.Node values form, as the       *)
(* modules of this project number them: in depth-first order.  So the root *)
(* is 1, siblings are in ascending order, and the nodes below a node are   *)
(* the ones that follow it up to some number.  Every ordered tree can be   *)
(* numbered so.                                                            *)
(***************************************************************************)
EXTENDS Naturals, Sequences, FiniteSets, SequencesExt

NoParent == 0

\* The trees of N nodes, each as the parent of every node: what comes between a
\* node and one of its children is below the node.
TreesOf(N) ==
    {parent \in [1..N -> 0..(N - 1)] :
        \A n \in 1..N :
            IF n = 1 THEN parent[n] = NoParent
            ELSE /\ parent[n] \in 1..(n - 1)
                 /\ \A m \in (parent[n] + 1)..(n - 1) : parent[m] >= parent[n]}

\* The elements of a finite set of numbers in ascending order.
Ascending(S) ==
    CHOOSE s \in [1..Cardinality(S) -> S] :
        \A i, j \in 1..Cardinality(S) : i < j => s[i] < s[j]

\* The children of every node, in order.
KidsOf(parent) ==
    [n \in DOMAIN parent |-> Ascending({m \in DOMAIN parent : parent[m] = n})]

IsChild(kids, n, m) == \E i \in DOMAIN kids[m] : kids[m][i] = n

\* A depth-first order, stated of a sequence of nodes that may end early: none
\* comes twice; the root is first; between a node and one of its children come
\* the children before that one and otherwise only nodes from below those, each
\* with all its children that are in nodes.
InPreOrder(kids, root, nodes, s) ==
    /\ \A x, y \in DOMAIN s : s[x] = s[y] => x = y
    /\ \A y \in DOMAIN s : s[y] = root \/ \E x \in 1..(y - 1) : IsChild(kids, s[y], s[x])
    /\ \A x, y \in DOMAIN s : \A i \in DOMAIN kids[s[x]] :
         s[y] = kids[s[x]][i] =>
            /\ \A j \in 1..(i - 1) : \E w \in (x + 1)..(y - 1) : s[w] = kids[s[x]][j]
            /\ \A z \in (x + 1)..(y - 1) :
                 /\ \E w \in x..(z - 1) : IsChild(kids, s[z], s[w])
                 /\ \A j \in DOMAIN kids[s[z]] :
                      kids[s[z]][j] \in nodes =>
                          \E w \in (z + 1)..(y - 1) : s[w] = kids[s[z]][j]

\* n and the nodes above it: the nodes after m, up to n, are below m.
Ancestors(parent, n) == {m \in 1..n : \A k \in (m + 1)..n : parent[k] >= m}

\* The nodes that are not in hidden, nor below one that is.
Visible(parent, hidden) ==
    {n \in DOMAIN parent : Ancestors(parent, n) \cap hidden = {}}
=============================================================================
