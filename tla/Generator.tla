------------------------------ MODULE Generator ------------------------------
(* Generate of the bridge generator: first the dependencies of every library *)
(* (DependencyResolver), then the files of each library, whose includes,     *)
(* functions and imports have to fit together although they are written one  *)
(* by one, some of them twice, over what earlier runs have left.             *)
(*                                                                           *)
(* A file is what the others need of it: an include file the functions or    *)
(* the libraries in it, a Go file the functions it calls and links to.       *)
EXTENDS DependencyResolver

CONSTANTS
  Configs,   \* the YAML files, as [methods, imported, renamed]
  Leftovers, \* what earlier runs may have left: sets of file names
  Old,       \* what is in such a file
  Absent

Included == {"export.inc", "bridge.h", "bridge_extern.h", "bridge_cc.inc", "bridge.inc"}
\* bind_os.go: bind_darwin.go and bind_linux.go.  bind.go is of old versions.
Files    == Included \cup {"bind.cc", "bind_os.go", "bind.go"}

ASSUME GeneratorAssumption ==
  /\ Leftovers \subseteq SUBSET Files
  /\ (\A S \in SUBSET Libs : S # NoLib) /\ Absent # {}
  /\ \A c \in Configs : /\ DOMAIN c.methods = Libs
                        /\ \A l \in Libs : c.methods[l] # Absent
                        /\ c.imported \subseteq Libs /\ c.renamed \subseteq Libs

VARIABLES
  protos,   \* the ccprotos, which libMap does not have
  built,    \* the cclibs of the BUILD files, of which libMap also has others
  config,   \* the YAML files; these two are not looked at by the resolver
  disk,     \* internal/ccall: the files of each library
  root,     \* go-googlesql/bind.cc and bind_os.go
  pending,  \* the libraries to be written; before they are counted, NoLib
  fresh,    \* whether the root files are newer than the libraries
  outcome   \* "running", "done" or "failed"

inputs  == <<built, protos, config>>
output  == <<disk, root, pending, fresh, outcome>>
genVars == <<vars, inputs, output>>

Outputs == built \cup protos

Bind(funcs, links) == [funcs |-> funcs, links |-> links]

GenInit ==
  /\ Init
  /\ protos \in SUBSET (Libs \ libMap)
  /\ \A l \in Libs \ (libMap \cup protos) : deps[l] = <<>>
  /\ built = {} /\ config = Absent
  /\ disk = [l \in Libs |-> [f \in Files |-> Absent]]
  /\ root = Absent /\ pending = NoLib /\ fresh = FALSE /\ outcome = "running"
-----------------------------------------------------------------------------
(* The parameters of the templates.  bridge.yaml calls a library of           *)
(* go-googlesql zetasql/...: it is found under its own name or, where the     *)
(* code falls back to it, under that one.                                     *)

MethodsByName(l) == IF l \in config.renamed THEN {} ELSE config.methods[l]

\* createBridgeIncParam, createBindGoParam: by either name.
Methods(l) == config.methods[l]

\* The packages of both YAML files that have methods.
Packages == {p \in Libs : config.methods[p] # {}}

\* What a library's Go files link to: the imported symbols of what it needs.
Links(l) ==
  UNION {{d} \X config.methods[d] : d \in (result[l] \ {l}) \cap (config.imported \ config.renamed)}

\* Mutant: the name of bridge.yaml is not tried.
BindGoByName(l) == Bind(MethodsByName(l), Links(l))

BindGo(l) == Bind(Methods(l), Links(l))

Deps(l) == {deps[l][i] : i \in DOMAIN deps[l]}

\* What generate writes for a library, and the bind.go it removes; a proto
\* library has no Go files, and a bridge_cc.inc stays as it is.
Contents(l) ==
  [f \in Files |->
     CASE f = "bind.cc"         -> Deps(l)
       [] f = "bridge_extern.h" -> MethodsByName(l)
       [] f = "bridge_cc.inc"   -> IF disk[l][f] = Absent THEN {} ELSE disk[l][f]
       [] f = "bridge.inc"      -> Methods(l)
       [] f = "bind_os.go"    -> IF l \in built THEN BindGo(l) ELSE disk[l][f]
       [] f = "bind.go"       -> IF l \in built THEN Absent ELSE disk[l][f]
       [] OTHER                 -> {}]
-----------------------------------------------------------------------------
\* createAllDependencyMap
Resolve ==
  /\ pending = NoLib
  /\ (\E l \in Libs : Search(l)) \/ SkipDep \/ ResolveDep \/ Mark \/ Record
  /\ UNCHANGED <<inputs, output>>

\* What the resolver has not looked at: which libraries are not config.yaml's,
\* the YAML files, and the directories as an earlier run has left them.
Found(left) ==
  [l \in Libs |-> [f \in Files |->
     IF f \notin left THEN Absent ELSE IF f = "bind_os.go" THEN Bind({Old}, {}) ELSE {Old}]]

\* Mutant: only libraries that are built themselves get an export.inc.
ExportsOfBuilt(outputs, files) ==
  [d \in Libs |-> IF d \in outputs /\ \E l \in outputs : d \in Deps(l)
                  THEN [files[d] EXCEPT !["export.inc"] = {}] ELSE files[d]]

\* ensureExportIncForAllDeps
Exports(outputs, files) ==
  [d \in Libs |-> IF \E l \in outputs : d \in Deps(l)
                  THEN [files[d] EXCEPT !["export.inc"] = {}] ELSE files[d]]

EnsureExports ==
  /\ pending = NoLib /\ current = NoLib /\ todo = {}
  /\ built' \in SUBSET libMap /\ linked \subseteq built'
  /\ config' \in Configs
  /\ UNCHANGED <<vars, protos, root, fresh, outcome>>
  /\ \E left \in Leftovers : disk' = Exports(Outputs', Found(left))
  /\ pending' = Outputs'

\* generate, for one library of a BUILD file.
GenerateLib(l) ==
  /\ outcome = "running" /\ pending # NoLib /\ l \in pending
  /\ disk' = [disk EXCEPT ![l] = Contents(l)]
  /\ pending' = pending \ {l} /\ fresh' = FALSE
  /\ UNCHANGED <<vars, inputs, root, outcome>>

\* An error ends everything after some of the files.
GenerateFails(l) ==
  /\ outcome = "running" /\ pending # NoLib /\ l \in pending
  /\ \E S \in Leftovers :
       disk' = [disk EXCEPT ![l] = [f \in Files |-> IF f \in S THEN Contents(l)[f] ELSE disk[l][f]]]
  /\ outcome' = "failed"
  /\ UNCHANGED <<vars, inputs, root, pending, fresh>>

\* generate, after the libraries of a BUILD file: bridge.inc once more for the
\* packages of the YAML files, and the files of the root.
GenerateRoot ==
  /\ outcome = "running" /\ pending # NoLib /\ ~fresh
  /\ disk' = [p \in Libs |-> IF p \in Packages THEN [disk[p] EXCEPT !["bridge.inc"] = Methods(p)]
                             ELSE disk[p]]
  /\ root' = [includes |-> Packages,
              calls    |-> UNION {{p} \X Methods(p) : p \in Packages \cap config.renamed}]
  /\ fresh' = TRUE
  /\ UNCHANGED <<vars, inputs, pending, outcome>>

Finish ==
  /\ outcome = "running" /\ pending = {} /\ fresh
  /\ outcome' = "done"
  /\ UNCHANGED <<vars, inputs, disk, root, pending, fresh>>

Ended ==
  /\ outcome # "running"
  /\ Done /\ UNCHANGED <<inputs, output>>

GenNext ==
  \/ Resolve \/ EnsureExports \/ GenerateRoot \/ Finish \/ Ended
  \/ \E l \in Libs : GenerateLib(l) \/ GenerateFails(l)

GenSpec == GenInit /\ [][GenNext]_genVars
-----------------------------------------------------------------------------
(* Properties *)

On(l, names) == \A f \in names : disk[l][f] # Absent

\* After a successful run every file is there that a bind.cc includes: its
\* library's own, and the export.inc of its dependencies, known or not; and
\* for the root, those of every package a library was built for.
IncludesExist ==
  outcome = "done" =>
    /\ \A l \in Outputs : On(l, Included) /\ \A d \in disk[l]["bind.cc"] : On(d, {"export.inc"})
    /\ \A p \in root.includes : p \in Outputs => On(p, Included)

\* After a successful run no Go file calls or links to a function that nobody
\* defines, or that an old file defines again: the C functions are those of
\* the bridge.inc, the last of the two that were written; a linked function is
\* one of another library's Go file, so that the resolver must have left out
\* what has none; and the root calls functions that a Go file has, for every
\* package a cclib was built for.
CallsAreDefined ==
  outcome = "done" =>
    /\ \A l \in built :
         /\ disk[l]["bind_os.go"].funcs = disk[l]["bridge.inc"] /\ disk[l]["bind.go"] = Absent
         /\ \A k \in disk[l]["bind_os.go"].links :
              k[1] \in built /\ k[2] \in disk[k[1]]["bind_os.go"].funcs
    /\ \A k \in root.calls : k[1] \in built => k[2] \in disk[k[1]]["bind_os.go"].funcs
=============================================================================
