----------------------------- MODULE Installer -----------------------------
(***************************************************************************)
(* cmd/install and package install: processes that fetch the pre-built     *)
(* ccall tree of a version, extract it into the cache, and make            *)
(* internal/ccall of a module directory a symbolic link to it.             *)
(*                                                                         *)
(* The cache and the module directories are files: every installer of the  *)
(* machine shares them, takes no lock, and works on the final paths with   *)
(* no temporary directory.  A process may be killed between any two system *)
(* calls, and any of these may fail; what it did to the file system stays. *)
(*                                                                         *)
(* The archive is a sequence of entries, directories before what is in     *)
(* them; an entry of the cache is absent, or whole or not, and remembers   *)
(* which process made or truncated it last.                                *)
(***************************************************************************)
EXTENDS Naturals

CONSTANTS
    Procs,       \* runs of the installer, by process
    Versions,    \* released versions, named with the leading "v"
    Modules,     \* module directories
    Last,        \* number of entries of an archive
    DirEntries,  \* the entries that are directories
    BindEntries, \* ccall/go-googlesql and the entries below it
    CanSkip,     \* some installers run with SkipIfPresent
    CanFail,     \* extraction can fail: a bad archive, a full disk
    CanCrash,    \* a process can be killed
    NoLink, Directory,
    Remains,     \* what RemoveAll leaves of a directory when it ends early
    Absent

Entries == 1..Last
Files == [whole : BOOLEAN, by : Procs]

ASSUME InstallerAssumption ==
    /\ Last \in Nat \ {0}
    /\ DirEntries \subseteq Entries
    /\ BindEntries \subseteq Entries /\ BindEntries # {}
    /\ {CanSkip, CanFail, CanCrash} \subseteq BOOLEAN
    /\ Absent \notin Files
    /\ Versions \cap {NoLink, Directory, Remains} = {}
    /\ NoLink # Directory /\ NoLink # Remains /\ Directory # Remains

VARIABLES
    cache,    \* cache[d][e]: entry e below the extraction directory d
    link,     \* internal/ccall of each module: absent, a directory, what
              \* is left of one, or a link
    pc,       \* what each installer does next
    opt,      \* its options and arguments
    next,     \* the archive entry it extracts next
    stranded  \* history: the modules without a tree because the installer that was
              \* about to put one there failed or died

vars == <<cache, link, pc, opt, next, stranded>>

IsFile(x) == x # Absent
Options == [version : Versions, module : Modules, skip : BOOLEAN]

\* cacheDir/<version>/<platform> of one cache and one platform.
ExtractDir(v) == v

\* The installer's own extraction directory.
Dir(p) == ExtractDir(opt[p].version)

AtRest == {"idle", "done", "failed"}
Locations == AtRest \cup
    {"stat_cached", "download", "open", "write", "stat_ccall",
     "lstat", "readlink", "remove", "symlink"}

\* os.Stat of ccall/go-googlesql, and of ccall.
BindPresent(d) == \E e \in BindEntries : IsFile(cache[d][e])
CcallPresent(d) == \E e \in Entries : IsFile(cache[d][e])

Init ==
    /\ cache = [d \in Versions |-> [e \in Entries |-> Absent]]
    /\ link \in [Modules -> {NoLink, Directory}]
    /\ pc = [p \in Procs |-> "idle"]
    /\ opt \in [Procs -> Options]
    /\ next = [p \in Procs |-> 1]
    /\ stranded = {}

Goto(p, from, to) ==
    /\ pc[p] = from
    /\ pc' = [pc EXCEPT ![p] = to]

-----------------------------------------------------------------------------
(***************************************************************************)
(* Install.                                                                *)
(***************************************************************************)

Start(p, o) ==
    /\ pc[p] \in AtRest
    /\ o.skip => CanSkip
    /\ opt' = [opt EXCEPT ![p] = o]
    /\ next' = [next EXCEPT ![p] = 1]
    /\ pc' = [pc EXCEPT ![p] = IF o.skip THEN "stat_cached" ELSE "download"]
    /\ UNCHANGED <<cache, link, stranded>>

\* SkipIfPresent: one Stat decides that the cache "has the correct version"; any
\* error of it counts as not there.
StatCached(p) ==
    /\ \/ BindPresent(Dir(p)) /\ Goto(p, "stat_cached", "lstat")
       \/ Goto(p, "stat_cached", "download")
    /\ UNCHANGED <<cache, link, opt, next, stranded>>

\* The whole body is read into memory before anything is written; that, or making
\* the extraction directory, may fail.
Download(p) ==
    /\ \/ Goto(p, "download", "open")
       \/ Goto(p, "download", "failed")
    /\ UNCHANGED <<cache, link, opt, next, stranded>>

\* Mutant: the last entry is taken for the end of the archive.
AdvanceStopsEarly(p) ==
    /\ next' = [next EXCEPT ![p] = next[p] + 1]
    /\ pc' = [pc EXCEPT ![p] = IF next[p] + 1 >= Last THEN "stat_ccall" ELSE "open"]

\* tar.Next, until io.EOF.
Advance(p) ==
    /\ next' = [next EXCEPT ![p] = next[p] + 1]
    /\ pc' = [pc EXCEPT ![p] = IF next[p] = Last THEN "stat_ccall" ELSE "open"]

\* The next entry is a directory: MkdirAll makes it or finds it.
MakeDir(p) ==
    /\ pc[p] = "open"
    /\ next[p] \in DirEntries
    /\ cache' = [cache EXCEPT ![Dir(p)][next[p]] = [whole |-> TRUE, by |-> p]]
    /\ Advance(p)
    /\ UNCHANGED <<link, opt, stranded>>

\* The next entry is a file: it is opened with O_TRUNC.
OpenEntry(p) ==
    /\ Goto(p, "open", "write")
    /\ next[p] \notin DirEntries
    /\ cache' = [cache EXCEPT ![Dir(p)][next[p]] = [whole |-> FALSE, by |-> p]]
    /\ UNCHANGED <<link, opt, next, stranded>>

\* The entry's bytes are written from offset 0.  When another installer has
\* truncated the file since, what p wrote earlier may be gone; when that one has
\* already written it all, p's bytes are the same.
WriteEntry(p) ==
    /\ pc[p] = "write"
    /\ \E w \in BOOLEAN :
        LET f == cache[Dir(p)][next[p]]
        IN /\ f.by = p \/ f.whole => w
           /\ cache' = [cache EXCEPT ![Dir(p)][next[p]] = [f EXCEPT !.whole = w]]
    /\ Advance(p)
    /\ UNCHANGED <<link, opt, stranded>>

\* Mutant: the error of extractTarGz is dropped.
ExtractFailureDropped(p) ==
    /\ CanFail
    /\ pc[p] \in {"open", "write"}
    /\ pc' = [pc EXCEPT ![p] = "lstat"]
    /\ UNCHANGED <<cache, link, opt, next, stranded>>

\* tar.Next, MkdirAll, OpenFile or Copy fails: what is extracted stays.
ExtractFails(p) ==
    /\ CanFail
    /\ pc[p] \in {"open", "write"}
    /\ pc' = [pc EXCEPT ![p] = "failed"]
    /\ UNCHANGED <<cache, link, opt, next, stranded>>

StatCcall(p) ==
    /\ \/ CcallPresent(Dir(p)) /\ Goto(p, "stat_ccall", "lstat")
       \/ Goto(p, "stat_ccall", "failed")
    /\ UNCHANGED <<cache, link, opt, next, stranded>>

-----------------------------------------------------------------------------
(***************************************************************************)
(* InstallToModule, after Install.                                         *)
(***************************************************************************)

\* Lstat: a link is read next, anything else is removed.  Where nothing is, or
\* Lstat fails for another reason, the link is made at once.
LstatModule(p) ==
    /\ \/ link[opt[p].module] \in Versions /\ Goto(p, "lstat", "readlink")
       \/ link[opt[p].module] \in {Directory, Remains} /\ Goto(p, "lstat", "remove")
       \/ Goto(p, "lstat", "symlink")
    /\ UNCHANGED <<cache, link, opt, next, stranded>>

\* An error of Readlink is ignored: it counts as a link to somewhere else.
ReadLink(p) ==
    /\ \/ link[opt[p].module] = Dir(p) /\ Goto(p, "readlink", "done")
       \/ Goto(p, "readlink", "remove")
    /\ UNCHANGED <<cache, link, opt, next, stranded>>

\* RemoveAll has deleted some of a directory.
RemoveBegins(p) ==
    /\ pc[p] = "remove"
    /\ link[opt[p].module] = Directory
    /\ link' = [link EXCEPT ![opt[p].module] = Remains]
    /\ UNCHANGED <<cache, pc, opt, next, stranded>>

\* Mutant: the installer is done once the old tree is gone.
RemoveModuleOnly(p) ==
    /\ Goto(p, "remove", "done")
    /\ link' = [link EXCEPT ![opt[p].module] = NoLink]
    /\ UNCHANGED <<cache, opt, next, stranded>>

RemoveModule(p) ==
    /\ Goto(p, "remove", "symlink")
    /\ link' = [link EXCEPT ![opt[p].module] = NoLink]
    /\ UNCHANGED <<cache, opt, next, stranded>>

\* Mutant: the link is made under another name and never moved to its place.
SymlinkElsewhere(p) ==
    /\ Goto(p, "symlink", "done")
    /\ link[opt[p].module] = NoLink
    /\ UNCHANGED <<cache, link, opt, next, stranded>>

SymlinkModule(p) ==
    /\ Goto(p, "symlink", "done")
    /\ link[opt[p].module] = NoLink
    /\ link' = [link EXCEPT ![opt[p].module] = Dir(p)]
    /\ stranded' = stranded \ {opt[p].module}
    /\ UNCHANGED <<cache, opt, next>>

\* Somebody else was faster: os.Symlink fails with EEXIST.
SymlinkExists(p) ==
    /\ Goto(p, "symlink", "failed")
    /\ link[opt[p].module] # NoLink
    /\ UNCHANGED <<cache, link, opt, next, stranded>>

Linking(p, m) == pc[p] = "symlink" /\ opt[p].module = m

\* The modules that are without a tree as p ends here.
Strands(p) ==
    stranded' = stranded \cup {m \in Modules : Linking(p, m) /\ link[m] = NoLink}

\* MkdirAll, RemoveAll or Symlink fails (no permission, a full disk, ...).
LinkFails(p) ==
    /\ pc[p] \in {"lstat", "remove", "symlink"}
    /\ pc' = [pc EXCEPT ![p] = "failed"]
    /\ Strands(p)
    /\ UNCHANGED <<cache, link, opt, next>>

-----------------------------------------------------------------------------
\* The process is killed between two system calls.
Crash(p) ==
    /\ CanCrash
    /\ pc[p] \notin AtRest
    /\ pc' = [pc EXCEPT ![p] = "idle"]
    /\ Strands(p)
    /\ UNCHANGED <<cache, link, opt, next>>

Step(p) ==
    \/ StatCached(p) \/ Download(p) \/ MakeDir(p) \/ OpenEntry(p) \/ WriteEntry(p)
    \/ StatCcall(p)
    \/ LstatModule(p) \/ ReadLink(p) \/ RemoveModule(p)
    \/ SymlinkModule(p) \/ SymlinkExists(p)

Next ==
    \E p \in Procs :
        \/ \E o \in Options : Start(p, o)
        \/ Step(p)
        \/ RemoveBegins(p)
        \/ ExtractFails(p) \/ LinkFails(p)
        \/ Crash(p)

Spec == Init /\ [][Next]_vars

\* The operating system runs every installer that can run.
LiveSpec == Spec /\ \A p \in Procs : WF_vars(Step(p))

-----------------------------------------------------------------------------
TypeOK ==
    /\ cache \in [Versions -> [Entries -> Files \cup {Absent}]]
    /\ link \in [Modules -> Versions \cup {NoLink, Directory, Remains}]
    /\ pc \in [Procs -> Locations]
    /\ opt \in [Procs -> Options]
    /\ next \in [Procs -> 1..(Last + 1)]
    /\ stranded \in SUBSET Modules

\* A module is never linked to a path where no ccall directory is, however
\* installers fail, crash and overtake each other.
LinkTargetsExist ==
    \A m \in Modules : link[m] \in Versions => CcallPresent(link[m])

\* All of p's archive is there, and whole but where another installer of the
\* version has truncated it after p.
Extracted(p) ==
    \A e \in Entries :
        /\ IsFile(cache[Dir(p)][e])
        /\ cache[Dir(p)][e].by = p => cache[Dir(p)][e].whole

\* When an installer has come to the end of its archive, all of it is extracted.
OwnEntriesWhole == \A p \in Procs : pc[p] = "stat_ccall" => Extracted(p)

\* A tree built from source (a real internal/ccall directory) is touched only by
\* an installer that has extracted all of its archive: a failed download, a
\* failed extraction or a crash before that never costs the user the old tree.
\* With SkipIfPresent less is enough: the old tree goes as soon as there is a
\* ccall/go-googlesql, be it what a killed installer has left.
OldTreeKeptUntilReplacement ==
    [][\A m \in Modules :
        link[m] = Directory /\ link'[m] # Directory =>
            \E p \in Procs :
                /\ pc[p] = "remove" /\ opt[p].module = m
                /\ \/ Extracted(p)
                   \/ opt[p].skip /\ BindPresent(Dir(p))]_vars

Whole(d) == \A e \in Entries : IsFile(cache[d][e]) /\ cache[d][e].whole

AllAtRest == \A p \in Procs : pc[p] \in AtRest

\* Without crashes and failed extractions: once every installer has ended, each
\* linked tree is complete, in spite of installers that linked it while another
\* one was still extracting or extracting again.
QuiescentTreesWhole ==
    AllAtRest => \A m \in Modules : link[m] \in Versions => Whole(link[m])

\* The module of an installer that ended well has a tree, or another installer is
\* about to put its own there, or died or failed when it was: several installers
\* that remove and link one module do not lose its tree between them.
ModuleStaysLinked ==
    \A p \in Procs :
        pc[p] = "done" /\ link[opt[p].module] = NoLink =>
            \/ opt[p].module \in stranded
            \/ \E q \in Procs : Linking(q, opt[p].module)

\* A module whose tree was removed gets one back, although the symlink of the
\* installer that removed it may fail because another one's came first; but if
\* the symlink fails for another reason, or its installer dies, it may not.
RemovedComesBack ==
    \A p \in Procs : \A m \in Modules :
        Linking(p, m) ~> link[m] # NoLink \/ m \in stranded

\* What InstallOptions.SkipIfPresent and Install promise: an installer that
\* ended well leaves a complete tree behind.
DoneMeansComplete ==
    \A p \in Procs :
        pc[p] = "done" /\ (\A q \in Procs \ {p} : pc[q] \in AtRest) => Whole(Dir(p))
=============================================================================
