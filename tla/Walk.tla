-------------------------------- MODULE Walk --------------------------------
(***************************************************************************)
(* ast.Walk and resolved_ast.Walk: a recursive traversal that calls back   *)
(* for a node, then walks its children, and stops at the first error.      *)
(*                                                                         *)
(* A child may be nil: newNode answers nil for some kinds (START BATCH,    *)
(* Unknown and Fake in ast, whatever a later library adds in resolved_ast).*)
(* The callback gets the nil, and the walk leaves out what is below it.    *)
(*                                                                         *)
(* The two differ in what they iterate over.  ast.Walk asks for            *)
(* NumChildren and Child(i) again at every turn of its loop;               *)
(* resolved_ast.Walk takes the slice of ChildNodes once.  The callback may *)
(* add children to any node meanwhile.  The call stack is explicit.        *)
(***************************************************************************)
EXTENDS Trees

CONSTANTS
    Size,    \* nodes of the tree that Walk is called on
    MaxAdds  \* bound: children that the callback adds

ASSUME WalkAssumption == Size \in Nat \ {0} /\ MaxAdds \in Nat

Root == 1
Initial == 1..Size
Nodes == 1..(Size + MaxAdds)

VARIABLES
    live,   \* ast.Walk, as opposed to resolved_ast.Walk
    above,  \* the library's tree that Walk is called on, as the parents of its nodes
    nil,    \* its nodes that newNode answers nil for
    kids,   \* the children of every node
    added,  \* the nodes that the callback has added
    stack,  \* the calls of Walk under way
    called, \* the nodes the callback was called for, in order
    status  \* "start", "running", "returned", or "failed"

given == <<live, above, nil>>
vars == <<given, kids, added, stack, called, status>>

Top == stack[Len(stack)]

\* The children that Walk(n) goes on to in a tree: a nil node is asked for none.
Offered(tree, n) == IF n \in nil THEN <<>> ELSE tree[n]

\* Mutant: ast.Walk lists the children once, too.
ChildrenOnce(f) == f.slice

\* What the loop of a call iterates over.
Children(f) == IF live THEN Offered(kids, f.node) ELSE f.slice

HasChild(f) == f.i <= Len(Children(f))

Init ==
    /\ live \in BOOLEAN
    /\ above \in TreesOf(Size)
    /\ nil \in SUBSET Initial
    /\ kids = [n \in Nodes |-> IF n \in Initial THEN KidsOf(above)[n] ELSE <<>>]
    /\ added = {}
    /\ stack = <<>>
    /\ called = <<>>
    /\ status = "start"

\* Inside the callback: nothing, or AddChild for a node m of the tree; there is
\* no calling it on nil.
MayAddChild ==
    \/ UNCHANGED <<kids, added>>
    \/ \E m \in (Initial \cup added) \ nil :
        LET new == Size + Cardinality(added) + 1
        IN /\ new \in Nodes
           /\ kids' = [kids EXCEPT ![m] = Append(@, new)]
           /\ added' = added \cup {new}

\* Walk(n): the callback, and then the loop over what children n has by now,
\* unless n is nil.  An error returns through every call.
Visit(n, callers) ==
    /\ called' = Append(called, n)
    /\ MayAddChild
    /\ \/ /\ status' = "failed"
          /\ stack' = <<>>
       \/ /\ status' = "running"
          /\ stack' = Append(callers, [node |-> n, slice |-> Offered(kids', n), i |-> 1])
    /\ UNCHANGED given

Start ==
    /\ status = "start"
    /\ Visit(Root, <<>>)

\* Mutant: the children are taken from the last to the first.
DescendBackwards ==
    /\ stack # <<>> /\ HasChild(Top)
    /\ Visit(Children(Top)[Len(Children(Top)) + 1 - Top.i],
             [stack EXCEPT ![Len(stack)].i = @ + 1])

Descend ==
    /\ stack # <<>> /\ HasChild(Top)
    /\ Visit(Children(Top)[Top.i], [stack EXCEPT ![Len(stack)].i = @ + 1])

Return ==
    /\ stack # <<>> /\ ~HasChild(Top)
    /\ stack' = Front(stack)
    /\ status' = IF Len(stack) = 1 THEN "returned" ELSE "running"
    /\ UNCHANGED <<given, kids, added, called>>

\* Walk has returned to its caller.
Done ==
    /\ status \in {"returned", "failed"}
    /\ UNCHANGED vars

Next == Start \/ Descend \/ Return \/ Done

Spec == Init /\ [][Next]_vars

-----------------------------------------------------------------------------
\* The nodes of Walk's tree that are below a nil one.
Skipped == {n \in Initial : (Ancestors(above, n) \ {n}) \cap nil # {}}

\* The callback sees the nodes in depth-first order and none of them twice, even
\* while it adds children to nodes whose loops are under way, and no loop is left
\* for the next before all of Walk's tree below it was seen.  When Walk returns
\* nil, it has left out exactly what is below a nil node.
CallsInPreOrder ==
    /\ InPreOrder([n \in Nodes |-> Offered(kids, n)], Root, Initial, called)
    /\ status = "returned" => Initial \ Range(called) = Skipped

\* No child is left behind: when the call for a node returns, every child was
\* visited that the node had when its loop began, and with ast.Walk those too
\* that were added to it during the loop.
NoChildLeftBehind ==
    [][stack # <<>> /\ stack' = Front(stack) /\ status' # "failed" =>
            Range(IF live THEN Offered(kids, Top.node) ELSE Top.slice) \subseteq Range(called)]_vars
=============================================================================
