------------------------------- MODULE Updater -------------------------------
(* cmd/updater: copies the checkout of the upstream sources and what Bazel    *)
(* generated from it into internal/ccall, patches the copies, writes the stub *)
(* headers, and looks whether the required files are there.  The errors of    *)
(* the copies are ignored, and a run finds what earlier ones left in ccall.   *)
EXTENDS Integers, Sequences

CONSTANTS
  NameFiles,     \* sources whose patch renames a definition and its uses
  SuffixFile,    \* public_suffix_list_data.h
  Required,      \* the generated files the check at the end asks for
  Upstreams,     \* checkouts: source file -> body, or Absent
  Exports,       \* [bin, genfiles]: generated file -> version, or Absent; or
                 \* NoTree (the directory has no zetasql) or NoDir
  PatchOrder,    \* applyPatches' list
  MaxRuns,       \* bound on the runs
  Absent, Partial, NoTree, NoDir, None

Sources == NameFiles \cup {SuffixFile}

\* What the patch looks at in a suffix list.
SuffixLists ==
  [ifs : Nat, endifs : Nat, named : BOOLEAN, static : BOOLEAN, declared : BOOLEAN, bare : BOOLEAN]

\* A place where a file with names has the old name or the new one.  The text
\* around it decides which replacements look for it; for a drifted one, none does.
Place(text, new) == [text |-> text, new |-> new]
Places == [text : {"definition", "use", "alias", "drifted"}, new : BOOLEAN]

\* Each file is in applyPatches' list once.
ASSUME UpdaterAssumption ==
  /\ SuffixFile \notin NameFiles /\ Required \cap Sources = {}
  /\ PatchOrder \in Seq(Sources) /\ \A f \in Sources : \E i \in DOMAIN PatchOrder : PatchOrder[i] = f
  /\ \A i, j \in DOMAIN PatchOrder : PatchOrder[i] = PatchOrder[j] => i = j
  /\ \A u \in Upstreams : /\ DOMAIN u = Sources
                          /\ u[SuffixFile] \in SuffixLists \cup {Absent}
                          /\ \A f \in NameFiles : u[f] \in Seq(Places) \cup {Absent}
  /\ \A e \in Exports : \A t \in {e.bin, e.genfiles} \ {NoTree, NoDir} : DOMAIN t = Required
  /\ MaxRuns \in Nat

VARIABLES
  upstream,  \* the checkout
  export,    \* the output of Bazel in the cache
  ccall,     \* internal/ccall: file -> body or version, Absent or Partial
  stubs,     \* whether the stub headers are there
  pc,        \* what the updater does, or "idle"
  todo,      \* the files of the tree that is being copied
  patched,   \* how far applyPatches is
  missed,    \* the files whose last copy in this run failed
  code,      \* the exit code of the last run, or None
  runs

vars == <<upstream, export, ccall, stubs, pc, todo, patched, missed, code, runs>>
-----------------------------------------------------------------------------
(* Patches.  The body of a file with names is the sequence of their places.  *)
(* Of the suffix list it counts #ifndef and #endif, and says whether the      *)
(* guard's name and "static inline" are in it, whether the declaration to     *)
(* replace is, and whether it ends in "#endif".                               *)

First(texts) == [texts |-> texts, all |-> FALSE]
Every(texts) == [texts |-> texts, all |-> TRUE]

\* The calls of strings.Replace in a patch, in their order: the first place with
\* one of these texts, or every one.  The third one of resolver_query.cc looks for
\* the end of a use alone, so that it finds a second use, too.
Replacements(f) ==
  CASE f = "resolver_query.cc" -> <<First({"definition"}), First({"use"}), First({"use", "alias"})>>
    [] f = "analytic_op.cc" -> <<First({"definition"}), Every({"use"}), First({})>>
    [] OTHER -> <<First({"definition"}), First({"use"}), First({})>>

Replace(b, r) ==
  LET found == {i \in DOMAIN b : ~b[i].new /\ b[i].text \in r.texts}
  IN  [i \in DOMAIN b |-> IF i \in found /\ (r.all \/ \A j \in found : i <= j)
                          THEN Place(b[i].text, TRUE) ELSE b[i]]

Renamed(b) == \E i \in DOMAIN b : b[i].new

\* Mutant: the first replacement alone is made.
RenameFirst(f, b) == IF Renamed(b) THEN b ELSE Replace(b, Replacements(f)[1])

\* patchTypeCc, patchResolverQueryCc, ...: not if the new name is there.
Rename(f, b) ==
  IF Renamed(b) THEN b
  ELSE LET r == Replacements(f) IN Replace(Replace(Replace(b, r[1]), r[2]), r[3])

SuffixList(ifs, endifs, named, static, declared, bare) ==
  [ifs |-> ifs, endifs |-> endifs, named |-> named, static |-> static,
   declared |-> declared, bare |-> bare]

\* Mutant: the #endif of a guard that was added is forgotten.
GuardUnclosed(b) ==
  IF b.named /\ b.static THEN b
  ELSE [b EXCEPT !.ifs = IF b.named THEN @ ELSE @ + 1, !.named = TRUE,
                 !.static = @ \/ b.declared, !.declared = @ /\ b.static]

\* patchPublicSuffixListDataH
Guard(b) ==
  IF b.named /\ b.static THEN b
  ELSE LET static == b.static \/ b.declared
           ifs    == IF b.named THEN b.ifs ELSE b.ifs + 1
           endifs == IF b.bare THEN b.endifs ELSE b.endifs + 1
       IN  SuffixList(ifs, endifs, TRUE, static, b.declared /\ b.static, b.bare)

Patch(f, b) == IF b \in {Absent, Partial} THEN b ELSE IF f = SuffixFile THEN Guard(b) ELSE Rename(f, b)
-----------------------------------------------------------------------------
Init ==
  /\ upstream \in Upstreams /\ export \in Exports
  /\ ccall = [f \in Sources \cup Required |-> Absent] /\ stubs = FALSE
  /\ pc = "idle" /\ todo = {} /\ patched = 0 /\ missed = {} /\ code = None /\ runs = 0

\* make clone-googlesql, make export; or the cache is emptied
Prepare ==
  /\ pc = "idle"
  /\ upstream' \in Upstreams /\ export' \in Exports
  /\ UNCHANGED <<ccall, stubs, pc, todo, patched, missed, code, runs>>

Exit(c) ==
  /\ pc' = "idle" /\ code' = c /\ todo' = {} /\ patched' = 0
  /\ UNCHANGED <<upstream, export, runs>>

Tree(phase) == CASE phase = "source" -> upstream [] phase = "bin" -> export.bin [] OTHER -> export.genfiles

InTree(phase) == LET t == Tree(phase) IN {f \in DOMAIN t : t[f] # Absent}

Start ==
  /\ pc = "idle" /\ runs < MaxRuns /\ runs' = runs + 1
  /\ export.bin # NoDir
  /\ pc' = "source" /\ todo' = InTree("source")
  /\ missed' = {} /\ code' = None
  /\ UNCHANGED <<upstream, export, ccall, stubs, patched>>

\* No bazel-out at all: discoverOutDir panics before the sources are copied.
StartPanics ==
  /\ pc = "idle" /\ runs < MaxRuns /\ runs' = runs + 1
  /\ export.bin = NoDir
  /\ code' = 2 /\ missed' = {}
  /\ UNCHANGED <<upstream, export, ccall, stubs, pc, todo, patched>>

Copying == pc \in {"source", "bin", "genfiles"}

\* Mutant: what is there is not copied again.
CopySkipsExisting ==
  /\ Copying
  /\ \E f \in todo :
       /\ ccall' = [ccall EXCEPT ![f] = IF @ = Absent THEN Tree(pc)[f] ELSE @]
       /\ todo' = todo \ {f} /\ missed' = missed \ {f}
  /\ UNCHANGED <<upstream, export, stubs, pc, patched, code, runs>>

Copy ==
  /\ Copying
  /\ \E f \in todo :
       /\ ccall' = [ccall EXCEPT ![f] = Tree(pc)[f]]
       /\ todo' = todo \ {f} /\ missed' = missed \ {f}
  /\ UNCHANGED <<upstream, export, stubs, pc, patched, code, runs>>

\* An error ends the copying of the tree, and nobody looks at it.
CopyFails ==
  /\ Copying
  /\ \E f \in todo : ccall' \in {ccall, [ccall EXCEPT ![f] = Partial]}
  /\ todo' = {} /\ missed' = missed \cup todo
  /\ UNCHANGED <<upstream, export, stubs, pc, patched, code, runs>>

\* The next tree: bin, then genfiles where there is one, then the patches.
\* discoverOutTree panics where the directory has no zetasql.
NextTree(phase) ==
  IF Tree(phase) = NoTree THEN Exit(2) /\ UNCHANGED <<ccall, stubs, missed>>
  ELSE /\ IF Tree(phase) = NoDir THEN pc' = "patch" /\ UNCHANGED todo
          ELSE pc' = phase /\ todo' = InTree(phase)
       /\ UNCHANGED <<upstream, export, ccall, stubs, patched, missed, code, runs>>

CopiedSource == pc = "source" /\ todo = {} /\ NextTree("bin")

CopiedBin == pc = "bin" /\ todo = {} /\ NextTree("genfiles")

CopiedGenfiles ==
  /\ pc = "genfiles" /\ todo = {} /\ pc' = "patch"
  /\ UNCHANGED <<upstream, export, ccall, stubs, todo, patched, missed, code, runs>>

\* Mutant: a file that is not there ends the patches.
PatchFileStops ==
  /\ pc = "patch" /\ patched < Len(PatchOrder)
  /\ LET f == PatchOrder[patched + 1]
     IN  /\ ccall' = [ccall EXCEPT ![f] = Patch(f, @)]
         /\ patched' = IF ccall[f] = Absent THEN Len(PatchOrder) ELSE patched + 1
  /\ UNCHANGED <<upstream, export, stubs, pc, todo, missed, code, runs>>

\* applyPatch: reads, patches and writes the file, if it is there.
PatchFile ==
  /\ pc = "patch" /\ patched < Len(PatchOrder)
  /\ LET f == PatchOrder[patched + 1] IN ccall' = [ccall EXCEPT ![f] = Patch(f, @)]
  /\ patched' = patched + 1
  /\ UNCHANGED <<upstream, export, stubs, pc, todo, missed, code, runs>>

\* Reading fails, or writing does, which leaves a part of the file.
PatchFails ==
  /\ pc = "patch" /\ patched < Len(PatchOrder)
  /\ LET f == PatchOrder[patched + 1]
     IN  /\ ccall[f] # Absent
         /\ \/ UNCHANGED ccall
            \/ Patch(f, ccall[f]) # ccall[f] /\ ccall' = [ccall EXCEPT ![f] = Partial]
  /\ Exit(1) /\ UNCHANGED <<stubs, missed>>

\* A stub that cannot be written is left short, or its directory is missing.
WriteStubs ==
  /\ pc = "patch" /\ patched = Len(PatchOrder)
  /\ \/ stubs' = TRUE /\ pc' = "check" /\ UNCHANGED <<upstream, export, todo, patched, code, runs>>
     \/ Exit(1) /\ stubs' \in {stubs, FALSE}
  /\ UNCHANGED <<ccall, missed>>

Check ==
  /\ pc = "check"
  /\ Exit(IF \E f \in Required : ccall[f] = Absent THEN 1 ELSE 0)
  /\ UNCHANGED <<ccall, stubs, missed>>

\* The process is killed.
Kill == pc # "idle" /\ Exit(9) /\ UNCHANGED <<ccall, stubs, missed>>

Next ==
  \/ Prepare \/ Start \/ StartPanics \/ Copy \/ CopyFails \/ CopiedSource \/ CopiedBin \/ CopiedGenfiles
  \/ PatchFile \/ PatchFails \/ WriteStubs \/ Check \/ Kill

Spec == Init /\ [][Next]_vars
-----------------------------------------------------------------------------
(* Properties *)

\* A list that its patch does not get static, and that does not end in "#endif",
\* gets one more #endif each time it is patched.
Grows(b) == ~b.static /\ ~b.bare

\* A run that ends well leaves no whole file that its patch would still change, in
\* the files that earlier runs left and this one did not copy, too; but for a
\* suffix list that grows, which each run that does not copy it makes longer.
EndsPatched ==
  [][Check /\ code' = 0 =>
       \A f \in Sources : LET b == ccall'[f]
                          IN  b \notin {Absent, Partial} =>
                                (Patch(f, b) # b <=> f = SuffixFile /\ Grows(b))]_vars

\* What a run should put into ccall: of a generated file the version in
\* genfiles, which is copied last, and the one in bin where that has none.
Intended(f) ==
  IF f \in Sources THEN Patch(f, upstream[f])
  ELSE IF export.genfiles # NoDir /\ export.genfiles[f] # Absent THEN export.genfiles[f]
       ELSE export.bin[f]

\* A run that ends well has put every file it should there, new and patched
\* once, whatever earlier runs, their crashes and half written files left,
\* but where its own copy failed.
CopiedIsIntended ==
  [][Check /\ code' = 0 =>
       \A f \in (Sources \cup Required) \ missed : Intended(f) # Absent => ccall'[f] = Intended(f)]_vars

\* The replacements that look for the text at i, if any, were for places before it.
PassedOver(f, b, i) ==
  \A k \in 1..3 :
    LET r == Replacements(f)[k]
    IN  b[i].text \in r.texts =>
          ~r.all /\ \E j \in 1..(i - 1) : b[j].new /\ b[j].text \in r.texts

Agreeing(f, b) ==
  b \in {Absent, Partial} \/ (Renamed(b) => \A i \in DOMAIN b : b[i].new \/ PassedOver(f, b, i))

\* As of what is renamed upstream.
CheckoutsAgree == \A u \in Upstreams : \A f \in NameFiles : Agreeing(f, u[f])

\* Once a file has the new name anywhere, the old one is left only where its text has
\* drifted or after as many places as the patch replaces: where each text is there
\* once and none has drifted, no definition and use ever differ, and no crash between
\* two patches leaves a file half renamed.
NamesAgree == \A f \in NameFiles : Agreeing(f, ccall[f])

\* Where the patch adds one half of a guard: the #ifndef alone to a list that
\* ends in "#endif" and has not the guard's name, the #endif alone to one that
\* has a guard of that name, with a comment after its #endif.
Unclosable(b) == ~(b.named /\ b.static) /\ (b.named <=> ~b.bare)

\* A run that ends well has guarded the list it copied and made what it could
\* of it static; every guard is closed if they were upstream, except in the
\* two cases, and there it never is.
GuardClosed ==
  [][Check /\ code' = 0 /\ upstream[SuffixFile] \notin {Absent, Partial} /\ SuffixFile \notin missed =>
       LET u == upstream[SuffixFile]
           b == ccall'[SuffixFile]
       IN  /\ b.named /\ (b.static <=> u.static \/ u.declared)
           /\ u.ifs = u.endifs => (b.ifs = b.endifs <=> ~Unclosable(u))]_vars
=============================================================================
