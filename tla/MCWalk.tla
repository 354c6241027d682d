------------------------------- MODULE MCWalk -------------------------------
(* The trees of five nodes, to which the callback adds two.                   *)
(* What Trees says of a depth-first order and of the nodes above a node is     *)
(* compared with the recursion.                                                *)
EXTENDS Walk

\* The nodes of the subtree of every node, itself first: depth-first.
PreOrder(tree) ==
    LET order[n \in DOMAIN tree] ==
            <<n>> \o FlattenSeq([i \in DOMAIN tree[n] |-> order[tree[n][i]]])
    IN order

ASSUME NumberedInPreOrder ==
    \A parent \in TreesOf(Size) : PreOrder(KidsOf(parent))[Root] = [n \in Initial |-> n]

ASSUME InPreOrderIsPreOrder ==
    \A parent \in TreesOf(Size), s \in SeqOf(Initial, Size) :
        InPreOrder(KidsOf(parent), Root, Initial, s)
            <=> IsPrefix(s, PreOrder(KidsOf(parent))[Root])

\* n and the nodes above it, parent by parent.
Above(parent) ==
    LET up[n \in DOMAIN parent] ==
            {n} \cup IF parent[n] = NoParent THEN {} ELSE up[parent[n]]
    IN up

ASSUME AncestorsAreAbove ==
    \A parent \in TreesOf(Size), n \in Initial : Ancestors(parent, n) = Above(parent)[n]
=============================================================================
