-------------------------- MODULE DependencyResolver --------------------------
(***************************************************************************)
(* createAllDependencyMap and resolveDeps of the bridge generator          *)
(* (cmd/generator/pkg/generator.go): for every library of libMap, the set  *)
(* of libraries it needs, found by a depth-first search that marks a       *)
(* library in pkgMap only after its dependencies.                          *)
(*                                                                         *)
(* The call stack of resolveDeps is explicit here.  The libraries' Deps    *)
(* name libraries that libMap may not have: those are passed over.  The    *)
(* order in which Go ranges over libMap is any order.                      *)
(***************************************************************************)
EXTENDS Naturals, Sequences

CONSTANTS
    Libs,     \* the libraries named anywhere, as "BasePkg/Name"
    DepLists, \* the dependency lists a library may have
    NoLib

ASSUME ResolverAssumption ==
    /\ DepLists \subseteq Seq(Libs)
    /\ NoLib \notin Libs

VARIABLES
    libMap,  \* the known libraries
    deps,    \* Deps of each library
    linked,  \* the libraries with sources of their own, not header-only
    stack,   \* the calls of resolveDeps under way: the library, the next dep
    pkgMap,  \* the libraries marked in this search
    current, \* the library whose needs are searched for
    todo,    \* the libraries of libMap not yet searched from
    result   \* pkgToAllDeps

vars == <<libMap, deps, linked, stack, pkgMap, current, todo, result>>
graph == <<libMap, deps, linked>>

Top == stack[Len(stack)]
Pop == SubSeq(stack, 1, Len(stack) - 1)
Frame(l) == [lib |-> l, i |-> 1]

\* The dependencies of l that a search follows.
Needs(l) == {deps[l][i] : i \in DOMAIN deps[l]} \cap libMap

\* Bazel refuses BUILD files whose libraries depend on each other in a cycle.
Acyclic ==
    \A S \in SUBSET libMap : S # {} => \E l \in S : Needs(l) \cap S = {}

Init ==
    /\ libMap \in SUBSET Libs
    /\ deps \in [Libs -> DepLists]
    /\ Acyclic
    /\ linked \in SUBSET libMap
    /\ stack = <<>>
    /\ pkgMap = {}
    /\ current = NoLib
    /\ todo = libMap
    /\ result = [l \in Libs |-> {}]

\* The next library that range libMap yields, with a fresh pkgMap.
Search(l) ==
    /\ current = NoLib
    /\ l \in todo
    /\ current' = l
    /\ pkgMap' = {}
    /\ stack' = <<Frame(l)>>
    /\ todo' = todo \ {l}
    /\ UNCHANGED <<graph, result>>

\* The loop of resolveDeps has a dependency left: it is skipped when it is
\* marked or unknown, and resolved first otherwise.
Dep == deps[Top.lib][Top.i]
HasDep == stack # <<>> /\ Top.i <= Len(deps[Top.lib])
Advanced == [stack EXCEPT ![Len(stack)].i = Top.i + 1]

\* Mutant: the dependency that is looked at is not told from the library.
ResolveDepShadowed ==
    /\ HasDep
    /\ Dep \in libMap \ pkgMap
    /\ stack' = Append(Advanced, Frame(Top.lib))
    /\ UNCHANGED <<graph, pkgMap, current, todo, result>>

SkipDep ==
    /\ HasDep
    /\ Dep \in pkgMap \/ Dep \notin libMap
    /\ stack' = Advanced
    /\ UNCHANGED <<graph, pkgMap, current, todo, result>>

ResolveDep ==
    /\ HasDep
    /\ Dep \in libMap \ pkgMap
    /\ stack' = Append(Advanced, Frame(Dep))
    /\ UNCHANGED <<graph, pkgMap, current, todo, result>>

\* The loop is over: the library is marked and the call returns.
Mark ==
    /\ stack # <<>> /\ ~HasDep
    /\ pkgMap' = pkgMap \cup {Top.lib}
    /\ stack' = Pop
    /\ UNCHANGED <<graph, current, todo, result>>

\* Mutant: what need not be linked is not left out.
RecordUnfiltered ==
    /\ current # NoLib /\ stack = <<>>
    /\ result' = [result EXCEPT ![current] = pkgMap]
    /\ current' = NoLib
    /\ UNCHANGED <<graph, stack, pkgMap, todo>>

\* The search is over: what is to be linked goes into pkgToAllDeps.
Record ==
    /\ current # NoLib /\ stack = <<>>
    /\ result' = [result EXCEPT ![current] = pkgMap \cap linked]
    /\ current' = NoLib
    /\ UNCHANGED <<graph, stack, pkgMap, todo>>

\* createAllDependencyMap has returned.
Done ==
    /\ current = NoLib /\ todo = {}
    /\ UNCHANGED vars

Next ==
    \/ \E l \in Libs : Search(l)
    \/ SkipDep \/ ResolveDep \/ Mark \/ Record
    \/ Done

Spec == Init /\ [][Next]_vars

-----------------------------------------------------------------------------
Frames == [lib : libMap, i : Nat \ {0}]

TypeOK ==
    /\ libMap \subseteq Libs
    /\ deps \in [Libs -> DepLists]
    /\ linked \subseteq libMap
    /\ stack \in Seq(Frames)
    /\ \A k \in DOMAIN stack : stack[k].i <= Len(deps[stack[k].lib]) + 1
    /\ pkgMap \subseteq libMap
    /\ current \in libMap \cup {NoLib}
    /\ todo \subseteq libMap
    /\ result \in [Libs -> SUBSET libMap]

\* resolveDeps never calls itself, however deep, for a library whose search is
\* still under way: the recursion is no deeper than the libraries are many,
\* although a library is marked only when its call returns.
RecursionIsBounded ==
    \A j, k \in DOMAIN stack : stack[j].lib = stack[k].lib => j = k

\* A marked library is never without one of its dependencies: pkgMap is closed
\* whenever a search looks at it.
MarksAreClosed == \A l \in pkgMap : Needs(l) \subseteq pkgMap

IsClosed(S) == \A l \in S : Needs(l) \subseteq S

\* The libraries reachable from l: those in every closed set with l in it.
Reachable(l) ==
    {m \in libMap : \A S \in SUBSET libMap : l \in S /\ IsClosed(S) => m \in S}

\* pkgToAllDeps has, for each library searched from, exactly what is to be
\* linked of the libraries reachable from it.
ResultIsReachable ==
    \A l \in libMap \ (todo \cup {current}) : result[l] = Reachable(l) \cap linked
=============================================================================
