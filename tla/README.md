# A TLA+ model of go-googlesql

go-googlesql gives Go programs the GoogleSQL (ZetaSQL) parser and analyzer. The
library itself is C++; this repository holds the Go wrappers around it, the
generator of the cgo layer, an updater that copies the C++ sources, and an
installer that fetches a pre-built tree. Most of the 37,000 lines of Go are
accessors of a dozen shapes. This project models them as data, a schema of each
package, under one behaviour; and the parts where steps meet as state machines:
the registries that tie Go values to C++ objects, the callbacks from C++ into
user-written catalogs, loops over the statements of a text, the walks and
searches over the two syntax trees, an installer that shares a cache with others,
a generator whose files have to fit together, and an updater that is run again
over what it left. TLC checks them, and TLAPS proves every safety property that a
passing run checks, for any values of the constants.

`tlc -config X.cfg M` checks a run of the table below; `tlapm M.tla` checks the
proofs of a module.

## 1. Inventory

| Component | State | Operations | Interacts with | What makes it correct |
|---|---|---|---|---|
| Handle registries, `types/table.go:237-330`, `types/catalog.go:608-743` | `tableMap`, `catalogMap`: Go value to C++ address; a mutex each | `getRawTable`, `getRawCatalog`, `newTable` | every analysis with a user's catalog; C++, which keeps the addresses | one object per value, addresses for good, an address leads back to its value, no concurrent map access, every call returns |
| Catalog callbacks, `types/catalog.go` | the stack of calls in two languages | the closures of `getRawCatalog`, `BaseCatalog.FindX`, getters of `SimpleCatalog` | the analyzer, user code, the registries | objects, absences and errors come through every conversion as what they are |
| Analyzer and parser session, `analyzer.go`, `parser.go` | a `ParseResumeLocation`, the last status | `AnalyzeStatement`, `AnalyzeNextStatement`, `ParseNextStatement`, ... | catalogs, options | a statement loop ends, errors are told from the end of the input |
| Options, `language_options.go`, `analyzer.go` | C++ option objects, aliased or copied | setters and getters | the session | a setting reaches the analysis it was meant for |
| AST wrappers, `ast/node.go`, `resolved_ast/node.go` | none; the tree is in C++ | about 2,100 accessors, `newNode` by kind | walks, `NodeMap` | a getter says what C++ holds, what was set comes back, no panic on an absent child, walks and getters agree |
| Tree walks, `ast/walk.go`, `resolved_ast/walk.go` | the recursion | `Walk` | the caller's callback, which may change the tree | depth-first, no node twice, none left out but below a nil one, stop at the first error |
| `NodeMap`, `map.go` | three maps built once | `NewNodeMap`, two searches | both trees | an answer as near as can be, no answer only if there is none, a panic only on nil |
| Types, values, functions, `types/*.go` | none | accessors | everything | as for the AST |
| Installer, `install/`, `cmd/install` | the cache, `internal/ccall` of a module | `Install`, `InstallToModule` | other installers, by the file system | a link has a tree behind it, a complete one if nothing failed; an old tree is not given up for nothing |
| Bridge generator, `cmd/generator` | `libMap`, `pkgToAllDeps`, output files | `createAllDependencyMap`, `generate`, root passes | BUILD files, `bridge.yaml` | all and only the reachable libraries are linked; what the files include, call and link to is there |
| Updater, `cmd/updater` | the `ccall` tree | copy, patch, write stubs, check | Bazel's output | what a run copied is as it should be and patched once |
| `internal/ccall` | the C++ side | called through cgo | everything | not in the repository: external |

The hard behaviours: goroutines that use the registries at once; panics in the
middle of a critical section; callbacks that nest through both languages;
processes that share a cache without a lock, fail half-way and are killed;
callbacks that change the tree that is being walked; results that depend on the
order in which Go ranges over a map. `PROJECT.json` lists each one under
`hazards`, at its line, with the properties that cover it or the reason why none
does.

## 2. Modules

| Module | Models | Theorems |
|---|---|---|
| `HandleRegistry` | the two registries, a step per lock, lookup, construction and store | `HandleRegistryProofs` |
| `AtomicRegistry` | what the registries promise, each call at one instant | `HandleRegistryProofs` |
| `CatalogLookup` | a lookup through nested catalogs of both languages | `CatalogLookupProofs` |
| `StatementLoop` | the calls that read statements from one resume location | `StatementLoopProofs` |
| `Installer` | concurrent installers, a step per system call | `InstallerProofs` |
| `DependencyResolver` | `createAllDependencyMap`, `resolveDeps` | `GeneratorProofs` |
| `Generator` | the whole generator: the resolver, then the files | `GeneratorProofs` |
| `Updater` | copies, patches, stubs and the check, run after run | `UpdaterProofs` |
| `Trees`, `Walk`, `NodeMap` | both walks with their callback; the three maps and two searches | `TreeProofs` |
| `Shapes` | the vocabulary of the schemas: a getter's item, type and conversion | |
| `Conversions` | a Go int through a C int and back | `NodeAccessorsProofs` |
| `ResolvedSchema`, `AstSchema`, `TypesSchema` | the structs, getters, kinds and wrappers of the three packages, as data | |
| `NodeAccessors` | get, set, add, write back and visit on any field of a schema | `NodeAccessorsProofs` |
| `MC...` | instances for TLC: symmetry, small graphs, texts, checkouts, the schemas put together; `MCWalk` compares a depth-first order with the recursion | |

### HandleRegistry

`reg` is both maps in one (a table and a catalog are never the same value), with
`NoAddr` for a missing key; `native` is the C++ objects made so far, by address,
each with the value that its `cgo.Handle` holds; `mu` the two mutexes. Each
goroutine has a `pc` and its locals. `GetRaw`, `RawLock`, `RawHit`, `RawMiss`,
`RawPanic`, `RawNew` and `RawStore` are the statements of `getRawTable` and
`getRawCatalog` (which differ only in the type switch); `GetRawUnregistered` is
the switch that answers for nil tables and the library's own types; `NewTable`,
`NewLock`, `NewScan` and `NewReturn` are `newTable`. `RawReturn` and `handed` are
the caller: it hands the address of a table to C++, and only such an address, one
that C++ made itself, or nil comes back to `newTable`. Keys are compared by Go's
`==`, so a Go value stands for a class of equal values; values of a type that
cannot be hashed are `Uncomparable`, and looking one up panics with the mutex
held, which the deferred unlock then releases. The code never deletes an entry.
The construction in C++ is external; it is taken not to call back into Go.

`AtomicRegistry` has neither mutexes nor objects: an injective partial function
that only grows, and calls that take effect at one instant. The refinement
mapping (at the end of `HandleRegistry`) takes a call to be pending until it has
found the value, stored it, panicked on it or scanned the map.

### CatalogLookup

The stack holds the calls of one lookup, each with its catalog and language.
`NewOf` is what `newBaseTable`, `newModel`, `newFunction` and so on make of an
address, `RawOf` what the closure of each kind makes of the user's answer: four
kinds look for nil, four do not; none looks for a nil pointer in a non-nil interface
(`TypedNil`); and a table goes through `getRawTable`, which panics on one whose type
cannot be a map key (`Unhashable`: what `HandleRegistry!RawPanic` is). `GoDecides`, `GoGets` and `GoAsks` are what a
user's `FindX` may do: answer by itself, use a getter of a `SimpleCatalog`, or
delegate through `BaseCatalog.FindX`. The C++ side (`CxxDecides`,
`CxxAsksNested`, `CallsBack`, `CallbackReturns`) is external, modelled from what
the Go code relies on: a null address without an error means "not found". `leaf`
is a history variable, what the deciding catalog said, so that the properties can
compare it with what the analyzer gets.

### Installer

The cache is a directory per version of archive entries, each absent, or whole or
not, with the process that truncated it last; `link` is `internal/ccall` of each
module directory: nothing, a directory, what is left of one, or a link. An installer
is a `pc`, its options and its next archive entry.
`StatCached` to `StatCcall` are `Install` with `downloadTarball` and
`extractTarGz`; `LstatModule` to `LinkFails` are `InstallToModule`. Between
any two the other installers may run and `Crash` may end the process. Two
installers of one version write the same bytes; a write after another's truncation
may or may not leave a whole file, both are allowed. An installer that has ended
may be started again with other options.

Every system call may fail, for any reason: a failed `Stat` in the cache counts as
"not there" and a failed `Lstat` or `Readlink` is ignored, as the code does; a failed
`MkdirAll`, `RemoveAll` or `Symlink` ends the installer (`LinkFails`), after
`RemoveAll` has possibly deleted a part of the old tree (`RemoveBegins`, `Remains`).
`stranded` is a history variable: the modules that are without a tree because the
installer that was about to link one failed or died.

Abstracted: the archive's own names and the filter on them, the URLs, entries of
other types (skipped by the code too), the platform (one per cache here). `Close`
of an extracted file is deferred and its error ignored: a file system that reports a
lost write only there is not modelled. An archive has at least one entry below
`ccall/go-googlesql`, and directories come before what is in them.

### DependencyResolver

`Init` is any result of `createLibMap`: any set of known libraries, any
dependency lists, with unknown names, repetitions and any set of header-only
libraries, provided that the known ones form no cycle, which Bazel guarantees for
BUILD files. The recursion of `resolveDeps` is the explicit `stack`, the loop
over the libraries (`Search`, `Record`) takes them in any order, as Go does.

### Generator

`Generator` extends `DependencyResolver` and takes its steps first (`Resolve`);
then `EnsureExports`, `GenerateLib` for each library of the BUILD files and
`GenerateRoot`, which comes again after every file, in any order. A library is a
cclib (`built`), a ccproto (`protos`, which `libMap` does not have), one of
config.yaml (in `libMap`, without sources, hence not `linked`) or unknown. `disk`
says of each file what the others need of it: of an include file the functions or
libraries named in it, of the two `bind_*.go` (here `bind_os.go`) the functions
they call and link to; `Absent` if it is not there. An earlier run may have left
none or all of them, with other contents, and an old `bind.go`. `renamed` is the
packages that bridge.yaml names `zetasql/...`: `createBridgeIncParam` and
`createBindGoParam` try both names (`Methods`), `createBridgeExternParam` only
one (`MethodsByName`), so that bridge_extern.h of a renamed package is empty. No
property asks for its contents: a renamed package's own Go files get the functions
from bridge.inc, and no other library links to it (`Links`).

Abstracted: the two directories of an absl library, and the rest of the template
text. `IncludesExist` asks nothing of packages of the YAML files that no BUILD
file has: they get a bridge.inc from the root pass and nothing else, although the
root's bind.cc includes four more files of each.

### Updater

A body of a source file is what its patch tells apart: of a file with names the
sequence of the places that have the old name or the new one, each with the text
around it, by which a replacement finds it; no replacement looks for a drifted one.
`Rename` stands for the six patches that put a new name for an old one, unless the new
one is there: up to three replacements (`Replacements`), each of the first place that
has its text, one of analytic_op.cc of every place. `Guard` is `patchPublicSuffixListDataH`, by the counts of `#ifndef` and `#endif`,
the guard's name, "static inline", the declaration it looks for and the bare
`#endif` it cuts off. `Copy` goes file by file through the checkout, bin and
genfiles; an error ends the tree and is ignored (`CopyFails`, `missed`), a missing
directory panics (`StartPanics`, `NextTree`), a patch that fails ends the run and
may leave a half written file, and `Kill` may come anywhere. Between runs the
checkout and Bazel's output may change (`Prepare`). A half written file has no
body, and what a patch does to one is not followed. The copies of the external
libraries have the shape of the source copy and are left out.

### StatementLoop

A text is a sequence of statements, each with its kind and the fault that C++
finds in it. `ParseNext` is `ParseNextStatement` and `ParseNextScriptStatement`,
`AnalyzeNext` is `AnalyzeNextStatement`, all on one `pos`; a client mixes them or
not, and stops as the comments demand (`careful`) or does not. A statement whose
kind `newNode` leaves out (START BATCH) parses, moves the location and is answered
by `ErrParseStatement`: `Wrapped` takes this from `AstSchema`. What C++ leaves in
isEnd after an error, and whether a failed analysis has moved the location, is
external and open in the model.

### Shapes, schemas, Conversions, NodeAccessors

A schema is a record of structs, each with the struct it embeds and the getters
it declares, a getter with its `Shape`: what the cgo call fills in (a flag, a
number, a text, a node, another object; one or a list), the Go type made of it,
whether there is a setter (and, for a list, an adder), and where the code leaves
the conversion out: getters that answer the zero value whatever C++ holds
(`AnswersZero`, `Stub`), one that converts the list's header at each item
(`ReadsHeader`), and some of ast that assert the type of a child without looking
for nil (`Unguarded`).
`NewNodeOf` and `AstNewNodeOf` are `newNode`'s cases, some of which answer nil; kinds
without a case answer nil in resolved_ast and a `BaseNode` in ast. `Wrapping` says of `newX` and `getRawX`
of package types whether they look for nil, and where the `go:linkname`
declaration in resolved_ast has another result type than the function.

`NodeAccessors` picks a field of a struct, with each kind of node C++ can have
there, and lets a client read, write, add, write back what it read and walk, in
any order. `Says` and `Satisfies` do not use the shapes' conversions, so that
`AnswerSaysWhatIsStored` compares what the code makes of a value with what the
value is; the exceptions it names are exact (`exact <=> ~known`): there the getter
never tells the truth. Numbers go through `Conversions`: the generator's
`int -> C.int` cuts an argument off, and a result is written into the lower half of
a zeroed Go int. `IntSpan` is 2^32 in the build, 8 for TLC.

Every wrapper, getter and kind of the three packages is in the schemas. A struct
in one line of a schema stands for the dozens of lines of its accessors; that the
accessors of one shape are alike was checked by reading them, and the ones that
are not have a shape of their own.

### Trees, Walk, NodeMap

`Trees` numbers the nodes of a tree in depth-first order (`TreesOf`): the root is 1,
and what comes between a node and one of its children is below the node. Every
ordered tree can be numbered so, and the theorems then need no induction over the
shape of a tree: what is above a node can be read from the numbers (`Ancestors`),
and a depth-first order is one sentence about a sequence (`InPreOrder`).

`Walk` has an explicit stack, whose frames hold both what `ast.Walk` iterates over
(nothing: it asks for `NumChildren` and `Child` again at each turn) and what
`resolved_ast.Walk` does (the slice of `ChildNodes`); `live` chooses. `above` is the
library's tree as the walk finds it, and `nil` any set of its nodes: those that
`newNode` answers nil for (in ast START BATCH, Unknown, Fake and two more kinds, in
resolved_ast a kind of a later library). The callback gets the nil, and the walk asks a
nil node for no children (`Offered`). The callback may add a child to any node that is
not nil, and may fail.

`NodeMap` files what the walks give to a program: the nodes that are not nil nor below a
nil one (`AstSeen`, `ResolvedSeen`), in the order of the numbers. A nil child of a
resolved node makes `NewNodeMap` panic (`HasNilChild`); a nil child of a syntax node
makes a search panic that comes to it (`AboveAstChild`). A query asks for a node that a
walk gives, since a program has no other way to one here; a getter that answers a node
below a nil one is not considered. Ranges are names, for
`map.go` only uses their strings as keys. The lists of nodes in the maps and in the
answers are sets: no search looks at their order, only at the first child or parent
that has something. The two recursive searches are recursive functions over what is
found at a node itself (`NodesNear`, `ResolvedNear`).

## 3. Runs

| Run | States | Question and bounds |
|---|---|---|
| `registry` | 108,000 | 2 goroutines, 2 tables, a table that cannot be hashed, a catalog, one address more than needed (so that a second object for a value finds room), one table of C++'s own. Safety, refinement and, under `LiveSpec`, that every call returns |
| `installer_safety` | 2.7 million | 2 installers, 2 versions, 1 module, 3 entries; crashes, failing system calls and SkipIfPresent on |
| `installer_no_crash` | 1.3 million | the same without crashes and failed extractions, but with failing `MkdirAll`, `RemoveAll` and `Symlink`; 3 entries, two of them files, so that two extractions can be a file apart; under `LiveSpec` |
| `installer_skip_partial` (violation) | | 1 installer, run twice: the partial tree needs no race |
| `generator` | 5 million | every acyclic graph of 3 libraries, lists of length 0 to 2 (chains, diamonds with a shared end, unknown names), each library built, proto, config.yaml's or unknown; methods for all libraries or all but one, at most one renamed; files of an earlier run or none; failure at any library |
| `walk` | 168,000 | every tree of 5 nodes, any of them nil, up to 2 added children, either walk, failure at any node |
| `node_map` | 1.3 million | every pair of trees of 3 nodes, any of them nil, 3 ranges or none: a range shared by two nodes of a tree, by none, by all |
| `catalog_lookup` | 3,300 | 2 user-written catalogs, a SimpleCatalog, depth 5: Go to C++ to Go to C++ and back |
| `resolved_accessors` | 132,000 | every field of resolved_ast and types, every kind that fits; 2 addresses, lists and texts up to length 2, a C int of 3 bits, Go ints at each of its boundaries |
| `ast_accessors` | 74,000 | the same for ast, with kinds of a later C++ library |
| `statement_loop` | 96,000 | texts of up to 3 statements of 3 kinds with 3 faults; a careful loop, or up to 5 calls of a client that goes on; under `FairSpec` |
| `updater` | 2.5 million | 2 runs, 5 checkouts (as expected with a second and a third use, drifted definition or use, renamed upstream, every place replaced, without the files), each with another suffix list, 5 outputs of Bazel |

A long text or a deeper graph adds nothing that a client or a search could tell
from these: the calls look at one statement, the search at one edge, a copy at one
file at a time. The named bounds are `MaxDepth` (nested calls of a lookup, given up
beyond it), `MaxAdds` (children a callback adds), `Last` (archive entries),
`MaxStatements`, `MaxCalls`, `MaxLen` (lists and texts), `MaxRuns` (of the updater).
Deadlock is not checked where the system may stop: a client that has had enough, a
call or a `NewNodeMap` that panicked. Symmetry is used without liveness only, over installers,
versions and libraries, none of which the modules tell apart.

### Fairness

`HandleRegistry!LiveSpec`: a goroutine that can run does (weak fairness of its
steps, `Step`, not of its decision to call), and `sync.Mutex` hands the lock to a
waiter after a millisecond, so that nobody starves: strong fairness of `RawLock`
and `NewLock`. `Installer!LiveSpec`: a process that can take a step does; nothing is
assumed of its being started. `StatementLoop!FairSpec`: a program goes on with its
loop.

### What the violated property shows

`DoneMeansComplete` (`installer_skip_partial`): an installer crashes after it has
extracted `ccall/go-googlesql`'s directory. The next one, with SkipIfPresent, finds
the directory, links the module to it and ends well. The tree has no files.
`install.go:28` promises a skip only if the cache has "the correct version".

### What the properties that hold say of the code

The properties are exact about where the code does not do what one would expect:

- A negative number never comes back from a getter: it is answered plus 2^32
  (`NegativeInt`). `FunctionSignature.FirstRepeatedArgumentIndex` (types/function.go:701)
  answers 4294967295 where C++ says -1.
- A text is cut off at a NUL byte, both ways (`CutText`).
- Some getters drop what C++ answered (`Dropped`): `AssertStmtNode.Expression`
  (resolved_ast/node.go:6191), documented at 6184, answers nil;
  `RenameToActionNode.NewPath` (8617), documented at 8611, converts the header of the
  list at each item; a dozen of package types, among them `AnnotatedType.Type` and
  `Connection.Name`, are stubs.
- `go:linkname` in resolved_ast/link.go:57 and :87 declares other result types than
  types/model.go:92 and types/procedure.go:50 have: the models and procedures that
  resolved nodes answer are not usable (`OtherLink`, `Unboxed`).
- A walk gives each node the struct of its kind, a getter the one it declares; they
  differ for nodes of a subclass, and `newNode` is nil for kinds it does not know
  (`StaticClass`).
- A setter panics on nil nodes, and some getters of ast on absent children
  (`PanicsOnlyWithoutObject`).
- `ParseStatement` and the loop answer `ErrParseStatement` for START BATCH after the
  location has moved (`NothingLost` counts such a statement as reported).
- A loop that ignores errors asks for the same statement for ever
  (`CarefulLoopEnds` is stated for the others), and isEnd says nothing after an error.
- `Walk` returns nil without having seen what is below a nil node, although
  resolved_ast/walk.go:3 says that it traverses all nodes (`CallsInPreOrder` says which ones it leaves out).
- `FindResolvedNodeFromNode` panics when nothing is located on the way to the
  root, which with the default analyzer options, that record no locations, is every
  node; and when it comes to a nil child before anything that leads further
  (`PanicsOnlyAtNil`). `NewNodeMap` panics on any nil child in the resolved tree
  (`HasNilChild`).
- A lookup panics on a nil that a user's `FindModel` answered without an error, as
  the test's catalog does (`catalog_test.go:31`), on the nil pointers that the
  getters of `SimpleCatalog` return for an unknown table, model or table-valued
  function, and on a user-written table of a type that cannot be a map key
  (`PanicsOnBadValues`).
- An installer that reported success may find its module without a tree afterwards:
  another one removed it, and died or failed before its own link (`ModuleStaysLinked`,
  `RemovedComesBack`: in this case only). With SkipIfPresent a tree built from source is
  given up for the partial one that a killed installer has left
  (`OldTreeKeptUntilReplacement` asks for a whole archive of all the others).
- A rename replaces the first use only, but for one of analytic_op.cc's and for the
  suffix of a use in resolver_query.cc: a file with a second use, or a drifted one, ends
  up with both names (`NamesAgree` names the places that keep the old one). A suffix list
  whose declaration has drifted and that has no bare `#endif` gets another `#endif` from
  each run that does not copy it (`Grows`, `EndsPatched`).
- `patchPublicSuffixListDataH` (patches.go:64) adds one half of a guard to two shapes of
  list (`Unclosable`): to one that ends in a bare `#endif` without the guard's name it
  adds the `#ifndef` alone (70), to one that has the name already but is not static,
  with a comment after its `#endif`, the `#endif` alone (79). `GuardClosed` says that
  these two are left open and all others are not. A proof of an earlier form of it,
  that named the first shape only, failed at the second.
- The updater's final check (main.go:247) is satisfied by a file of an earlier run:
  `CopiedIsIntended` claims the files whose copy did not fail.

Facts met on the way that no property states: `make update` runs `go run main.go`,
which leaves patches.go out and does not compile; the generator's `createStubHeaders`
(generator.go:134) overwrites four of the updater's seven stubs with other text;
`FormatSQL` drops its text when there is an error, although the comment at
sql_formatter.go:14 says it is always populated.

The type invariants are proved, so that no run repeats them.

## 4. Proofs

All theorems are for any values of the constants that satisfy the modules' named
assumptions: any number of goroutines, values, addresses, installers, versions,
libraries, catalogs, runs and checkouts, any depth, texts of any length, trees of any
size, any schema, C ints of any even span. `AgreeingNames` alone assumes more of the
constants than its module does: `CheckoutsAgree`, that where a checkout has a new name
already it is as the patch leaves one, without which `NamesAgree` is false; `MCUpdater`
has TLC evaluate it.

The induction theorems of the library take an operator and are of no use to the
provers here. Where an induction is needed, the proof takes a least counterexample
instead: the theorem on well-founded relations that is about sets gives every set of
naturals a least element (`LeastNatural`), and of the least size or number that a
statement is wrong for it is then shown to be right. So are shown that every finite
set of numbers has one ascending enumeration (`AscendingFacts`), that a search that
climbs a tree is defined at all (`ClimbExists`: a recursive function in TLA+ is a CHOOSE)
and where it stops (`ClimbStops`).

**HandleRegistryProofs.** `IInv` adds to the type invariant: a goroutine inside a
critical section holds its mutex (`LockInv`); what it found there is still so
(`CallInv`); an entry names an object that holds the entry's key (`RegInv`); an
object is registered or its maker is about to (`NativeInv`); what was handed to
C++ is registered (`HandedInv`). None can be left out: `OneObjectPerValue` is not
inductive, for nothing in it says that the goroutine at `RawNew` is alone and
that its value has no object yet. Mutual exclusion, unique objects, the round
trip and the stability of addresses follow. `Refinement` proves
from `IInv` that every step maps to a step or a stutter of `AtomicRegistry`: the
store is the step at which a value is registered, and that no other value has
the address then is `NativeInv`. `LocksAreLetGo` is the part of `CallsReturn` that needs
no fairness: the holder of a mutex is at a step inside its section, where nothing waits
for a mutex, and no call that returned or panicked holds one.

**InstallerProofs.** `LinkTargetsExist` needs that each installer past `Install`
has a tree (`PresentInv`), how far each extraction has come (`ProgressInv`), and
that no file ever disappears from the cache. `OldTreeKeptUntilReplacement` needs that an
installer past `Install` still has all of its archive there, or skipped the extraction
(`ReplacementInv`), whatever the others truncate. `QuiescentTreesWhole`, assumed
`~CanCrash` and `~CanFail`, needs two more: a file that is not whole has a writer,
the process that truncated it last, and a tree with a hole has an extractor that
has not come to it yet. `ModuleStaysLinked` assumes nothing about failures and crashes,
and is inductive over `IInv`.

**CatalogLookupProofs.** The properties speak of an answered lookup; `IInv` says
the same of the answer at every level of the stack (`Good`), with the shape of
the stack (`StackInv`) and of what may be pending on each side (`AnswerInv`).
`PanicsOnBadValues` is an equivalence: `RawOf` panics on a bad value, and every
conversion below hands a panic on and makes none.

**StatementLoopProofs.** Every call gives the statement at the location and moves past
it, or answers with an error and may move or not (`CallShape`). The four invariants
follow with `LoopInv`: a loop that stops at errors has been given exactly the
statements before the location. `CarefulLoopAdvances` is the part of `CarefulLoopEnds`
that needs no fairness: each call ends the loop or moves on.

**GeneratorProofs.** First the resolver by itself: the marks are closed since each frame has handled
the dependencies before its index, but for the one whose call is above it
(`HandledInv`, `ChainInv`). That the search finds all and only what is reachable
is shown by closed sets, not by induction over paths: the marks are closed and
have the root, so they hold everything reachable; every closed set with the root
holds the marks (`InsideInv`), so they hold nothing else. `BoundedRecursion` takes
a library twice on the stack for a set of libraries without a sink, against
`Acyclic`.

The generator takes the resolver's steps and otherwise leaves its
variables alone (`ResolverRuns`), so the resolver's theorems hold inside it.
`GenInv` says what each library's files contain once they are written (`Written`),
which the root pass writes over with the same again, and that the export.inc of
every dependency is there (`ExportInv`). `CallsAreDefined` needs more than the files:
that a linked function has a Go file follows from `ResultIsReachable`, since only
libraries with sources are recorded and those come from BUILD files.

**UpdaterProofs.** `IInv` says of each phase of a run what it has done: how far the
files of a tree are copied (`TreeInv`), that a file is patched when `patched` is past its
place in the list (`PatchedInv`), and that a file whose copy did not fail in this run
is the checkout's, or that one patched once (`SourceInv`), or the version that Bazel's
trees have, the later tree first (`GeneratedInv`); `ShapeInv` is its types. "Patched once"
is where the patches come in: each leaves a file that it has patched as it is, but for
the suffix list that grows (`PatchFacts`), and the places that a rename leaves old are
those that its replacements do not look for or that come after one they have replaced
(`RenameFacts`, `PatchKeepsAgreement`). `SourceInv` and
`GeneratedInv` speak of the files this run copied alone, `PatchedInv` of what earlier
runs left too: so the three action properties hold of any number of runs. `NamesAgree` is inductive over
`IInv`.

**NodeAccessorsProofs.** Of `Conversions`, for every even span: an int from 0 to the
whole span comes back as it was written, writing back what was read changes nothing,
and a negative C int is never answered as itself. Of the accessors, for any schema
(`SchemaAssumption` says that its shapes are consistent, `DispatchAssumption` that the
structs `newNode` makes have the methods of their C++ classes; the runs evaluate both
on the schemas of the three packages): `IInv` says that the answer is the getter's of
what is stored until that changes (`AnswerInv`), that what is stored is what the setter
made of what it was given (`GivenInv`), and that a walk saw the object the answer is of
(`VisitedInv`). The exceptions in
`AnswerSaysWhatIsStored` are exact, so each is proved in both directions: where one
applies, the answer is never what C++ holds.

**TreeProofs.** Of `Walk`: a frame has visited exactly the children before its index,
and its slice is a beginning of the children its node has by now (`StackFits`); a node is
a child of one node, once (`TreeFits`), and what the walk is offered of the library's tree
is that tree but for the children of nil nodes (`ShapeFits`); the children of a node that
was not visited were not either (`UnvisitedInv`), and of one whose call has returned all
were that the tree began with (`ReturnedInv`); nothing below a nil node was
(`VisibleInv`). `LoopsAreComplete` follows. For the order, `OrderInv` adds
that each node's parent was visited before it (`ParentedInv`), that what was visited since
a loop began that is under way is below its node, and the loops began in the order of
the stack (`OpenInv`), and that between a node and a child come only nodes from below
the children before, with all of theirs (`TurnInv`); without them `CallsInPreOrder` is not inductive,
as it says nothing of a loop that is under way. When `Walk` has returned nil, every node
was called that is not below a nil one: the least that was not would have a parent that
was, and whose loop is over (`AllCalled`); with `VisibleInv`, exactly those.

Of `NodeMap`: once `Build` has filed the nodes (`Filed`), both searches are climbs, which
stop at the lowest ancestor near which something is filed or a nil child is met
(`NodesNearFacts`, `ResolvedNearFacts`), or at the root. From a resolved node an anchor
stops them and nothing else does: a resolved tree with a nil child has no map, so all of
it or none is seen (`AllOrNothing`). Hence `AnswerIsNearest`, and `RoundTrip` for a node
that stops its own search. From a syntax node the stop is an anchor or a nil child,
whichever comes first (`AboveAstChildFacts`): hence both directions of `PanicsOnlyAtNil`.
`MapInv` keeps that of the last query, since no step changes a tree.

Only model-checked: the liveness properties `CallsReturn`, `RemovedComesBack` and
`CarefulLoopEnds`, which are out of the prover's reach, as is all that rests on ENABLED;
the violated property; and what `Trees` says of trees against the recursions of `MCWalk`:
that the numbering and `InPreOrder` are what `PreOrder` computes, by concatenating the
orders of subtrees, and `Ancestors` what `Above` does, parent by parent. TLC evaluates
the three for every tree of five nodes.

## 5. Not modelled

- `Language()` of the analyzer options aliases the C++ object and `SetLanguage` copies
  it (analyzer.go:35, 42): two lines without a sequence of steps of their own.
- `FindConversion` and `ExtendedTypeSuperTypes` answer null whatever the user's catalog
  found; `SuggestX`, comparisons, casts, value constructors and the adders of
  `SimpleCatalog` pass their arguments to C++ and keep no state.
- `ParseStatement`, `ParseScript`, `ParseType`, `ParseExpression`, `FormatSQL` and
  `Unparse` are one call each, without state.
- `AddChildFront` during a walk, which shifts the children under it.
- Starlark syntax of BUILD files, template text, the stub headers' contents, enums and
  `kind.go`'s names, workflows, Docker and make files, formatting of messages.
- The C++ library and `internal/ccall`, which is not in the repository.

What is left of the plan: the callbacks of `CatalogLookup` named above, its composition
with the registries, and `AddChildFront` in `Walk`; of proofs, the numbering by `PreOrder`
for trees of any size.
