--------------------------- MODULE InstallerProofs ---------------------------
(***************************************************************************)
(* Proofs about Installer for any processes, versions, modules and         *)
(* archives.  LinkTargetsExist depends on what each installer has seen in  *)
(* the cache before it comes to the link, and on nobody ever removing a    *)
(* file from the cache.  QuiescentTreesWhole, which holds only where no    *)
(* installer crashes or fails to extract, depends on every file that is    *)
(* not whole having a writer, and every tree with a hole an extractor      *)
(* still to reach it.                                                      *)
(***************************************************************************)
EXTENDS Installer, TLAPS

\* Install has returned: the tree it returned is there.
PresentInv ==
    \A p \in Procs :
        pc[p] \in {"lstat", "readlink", "remove", "symlink"} => CcallPresent(Dir(p))

\* That tree is the archive that p has extracted, or with SkipIfPresent whatever
\* was found.
ReplacementInv ==
    \A p \in Procs :
        /\ pc[p] = "stat_cached" => opt[p].skip
        /\ pc[p] \in {"lstat", "readlink", "remove", "symlink"} =>
              Extracted(p) \/ (opt[p].skip /\ BindPresent(Dir(p)))

\* How far an extraction has come.
ProgressInv ==
    \A p \in Procs :
        /\ pc[p] \in {"stat_cached", "download"} => next[p] = 1
        /\ pc[p] \in {"open", "write"} => next[p] \in Entries
        /\ pc[p] = "write" => IsFile(cache[Dir(p)][next[p]])
        /\ pc[p] = "stat_ccall" => next[p] = Last + 1
        /\ pc[p] \in {"open", "write", "stat_ccall"} =>
              \A e \in 1..(next[p] - 1) :
                 /\ IsFile(cache[Dir(p)][e])
                 /\ cache[Dir(p)][e].by = p => cache[Dir(p)][e].whole

IInv == TypeOK /\ PresentInv /\ ReplacementInv /\ LinkTargetsExist /\ ProgressInv

USE InstallerAssumption

LEMMA InitEstablishes == Init => IInv
  BY DEF Init, IInv, TypeOK, PresentInv, ReplacementInv, LinkTargetsExist, ProgressInv,
     Locations, AtRest

\* What opening an entry does to the cache.
LEMMA OpenEffect ==
    ASSUME IInv, NEW p \in Procs, OpenEntry(p)
    PROVE  /\ Dir(p) \in Versions /\ next[p] \in Entries
           /\ IsFile(cache'[Dir(p)][next[p]])
           /\ cache'[Dir(p)][next[p]] = [whole |-> FALSE, by |-> p]
           /\ \A d \in Versions : \A e \in Entries :
                 d # Dir(p) \/ e # next[p] => cache'[d][e] = cache[d][e]
<1>1. Dir(p) \in Versions /\ next[p] \in Entries
  BY DEF IInv, TypeOK, ProgressInv, OpenEntry, Goto, Dir, ExtractDir, Options
<1>2. [whole |-> FALSE, by |-> p] \in Files
  BY DEF Files
<1>. QED
  BY <1>1, <1>2 DEF OpenEntry, IInv, TypeOK, IsFile

\* What making a directory does.
LEMMA MakeDirEffect ==
    ASSUME IInv, NEW p \in Procs, MakeDir(p)
    PROVE  /\ Dir(p) \in Versions /\ next[p] \in Entries
           /\ IsFile(cache'[Dir(p)][next[p]])
           /\ cache'[Dir(p)][next[p]] = [whole |-> TRUE, by |-> p]
           /\ \A d \in Versions : \A e \in Entries :
                 d # Dir(p) \/ e # next[p] => cache'[d][e] = cache[d][e]
<1>1. Dir(p) \in Versions /\ next[p] \in Entries
  BY DEF IInv, TypeOK, ProgressInv, MakeDir, Dir, ExtractDir, Options
<1>2. [whole |-> TRUE, by |-> p] \in Files
  BY DEF Files
<1>. QED
  BY <1>1, <1>2 DEF MakeDir, IInv, TypeOK, IsFile

\* What writing an entry does: it may turn whole, and never stops being so.
LEMMA WriteEffect ==
    ASSUME IInv, NEW p \in Procs, WriteEntry(p)
    PROVE  /\ Dir(p) \in Versions /\ next[p] \in Entries
           /\ cache[Dir(p)][next[p]] \in Files
           /\ IsFile(cache'[Dir(p)][next[p]])
           /\ cache'[Dir(p)][next[p]].by = cache[Dir(p)][next[p]].by
           /\ cache[Dir(p)][next[p]].by = p \/ cache[Dir(p)][next[p]].whole
                  => cache'[Dir(p)][next[p]].whole
           /\ \A d \in Versions : \A e \in Entries :
                 d # Dir(p) \/ e # next[p] => cache'[d][e] = cache[d][e]
<1>1. Dir(p) \in Versions /\ next[p] \in Entries
  BY DEF IInv, TypeOK, ProgressInv, WriteEntry, Dir, ExtractDir, Options
<1>2. cache[Dir(p)][next[p]] \in Files
  BY <1>1 DEF IInv, TypeOK, ProgressInv, WriteEntry, IsFile
<1>3. PICK w \in BOOLEAN :
        /\ cache[Dir(p)][next[p]].by = p \/ cache[Dir(p)][next[p]].whole => w
        /\ cache' = [cache EXCEPT ![Dir(p)][next[p]] = [cache[Dir(p)][next[p]] EXCEPT !.whole = w]]
  BY DEF WriteEntry
<1>4. /\ [cache[Dir(p)][next[p]] EXCEPT !.whole = w] \in Files
      /\ [cache[Dir(p)][next[p]] EXCEPT !.whole = w].whole = w
      /\ [cache[Dir(p)][next[p]] EXCEPT !.whole = w].by = cache[Dir(p)][next[p]].by
  BY <1>2 DEF Files
<1>5. cache'[Dir(p)][next[p]] = [cache[Dir(p)][next[p]] EXCEPT !.whole = w]
  BY <1>1, <1>3 DEF IInv, TypeOK
<1>6. \A d \in Versions : \A e \in Entries :
        d # Dir(p) \/ e # next[p] => cache'[d][e] = cache[d][e]
  BY <1>1, <1>3 DEF IInv, TypeOK
<1>. QED
  BY <1>1, <1>2, <1>3, <1>4, <1>5, <1>6 DEF IsFile

\* No step removes a file from the cache.
LEMMA FilesStay ==
    ASSUME IInv, Next, NEW d \in Versions, NEW e \in Entries, IsFile(cache[d][e])
    PROVE  IsFile(cache'[d][e])
<1>1. CASE UNCHANGED cache
  BY <1>1
<1>2. CASE \E p \in Procs : OpenEntry(p)
  BY <1>2, OpenEffect
<1>3. CASE \E p \in Procs : WriteEntry(p)
  BY <1>3, WriteEffect
<1>4. CASE \E p \in Procs : MakeDir(p)
  BY <1>4, MakeDirEffect
<1>. QED
  BY <1>1, <1>2, <1>3, <1>4 DEF Next, Step, Start, StatCached, Download, ExtractFails,
     StatCcall,
     LstatModule, ReadLink, RemoveModule, RemoveBegins, SymlinkModule, SymlinkExists,
     LinkFails, Crash

LEMMA TreesStay ==
    ASSUME IInv, Next, NEW d \in Versions, CcallPresent(d)
    PROVE  CcallPresent(d)'
  BY FilesStay DEF CcallPresent

LEMMA TypeStep == IInv /\ Next => TypeOK'
<1> SUFFICES ASSUME IInv, Next PROVE TypeOK'
  OBVIOUS
<1> USE DEF TypeOK, Locations, AtRest, IInv
<1>1. ASSUME NEW p \in Procs, NEW o \in Options, Start(p, o) PROVE TypeOK'
  BY <1>1 DEF Start
<1>2. ASSUME NEW p \in Procs, OpenEntry(p) PROVE TypeOK'
  BY <1>2 DEF OpenEntry, Goto, Files, Dir, ExtractDir, Options
<1>3. ASSUME NEW p \in Procs, WriteEntry(p) PROVE TypeOK'
  <2>1. PICK w \in BOOLEAN :
          cache' = [cache EXCEPT ![Dir(p)][next[p]] = [cache[Dir(p)][next[p]] EXCEPT !.whole = w]]
    BY <1>3 DEF WriteEntry
  <2>2. cache[Dir(p)][next[p]] \in Files /\ Dir(p) \in Versions /\ next[p] \in Entries
    BY <1>3 DEF WriteEntry, ProgressInv, IsFile, Dir, ExtractDir, Options
  <2>3. [cache[Dir(p)][next[p]] EXCEPT !.whole = w] \in Files
    BY <2>2 DEF Files
  <2>4. cache' \in [Versions -> [Entries -> Files \cup {Absent}]]
    BY <2>1, <2>2, <2>3
  <2>. QED
    BY <1>3, <2>2, <2>4 DEF WriteEntry, Advance, Entries
<1>4. ASSUME NEW p \in Procs,
             StatCached(p) \/ Download(p) \/ ExtractFails(p) \/ StatCcall(p) \/ LstatModule(p)
             \/ ReadLink(p) \/ SymlinkExists(p) \/ LinkFails(p) \/ Crash(p)
      PROVE  TypeOK'
  BY <1>4 DEF StatCached, Download, ExtractFails, StatCcall, LstatModule, ReadLink,
     SymlinkExists, LinkFails, Strands, Crash, Goto
<1>5. ASSUME NEW p \in Procs, RemoveModule(p) \/ RemoveBegins(p) \/ SymlinkModule(p)
      PROVE  TypeOK'
  BY <1>5 DEF RemoveModule, RemoveBegins, SymlinkModule, Goto, Dir, ExtractDir, Options
<1>6. ASSUME NEW p \in Procs, MakeDir(p) PROVE TypeOK'
  <2>1. Dir(p) \in Versions /\ next[p] \in Entries /\ [whole |-> TRUE, by |-> p] \in Files
    BY <1>6 DEF MakeDir, ProgressInv, Dir, ExtractDir, Options, Files
  <2>2. cache' \in [Versions -> [Entries -> Files \cup {Absent}]]
    BY <1>6, <2>1 DEF MakeDir
  <2>. QED
    BY <1>6, <2>1, <2>2 DEF MakeDir, Advance, Entries
<1>. QED
  BY <1>1, <1>2, <1>3, <1>4, <1>5, <1>6 DEF Next, Step

LEMMA PresentStep == IInv /\ Next => PresentInv'
<1> SUFFICES ASSUME IInv, Next, NEW q \in Procs,
                    pc'[q] \in {"lstat", "readlink", "remove", "symlink"}
             PROVE  CcallPresent(Dir(q))'
  BY DEF PresentInv
<1>1. Dir(q) \in Versions
  BY DEF IInv, TypeOK, Dir, ExtractDir, Options
<1>2. CASE pc[q] \in {"lstat", "readlink", "remove", "symlink"} /\ opt'[q] = opt[q]
  BY <1>1, <1>2, TreesStay DEF IInv, PresentInv, Dir, ExtractDir, CcallPresent
<1>3. CASE StatCached(q) \/ StatCcall(q)
  <2>1. UNCHANGED <<cache, opt>> /\ (BindPresent(Dir(q)) \/ CcallPresent(Dir(q)))
    BY <1>3 DEF StatCached, StatCcall, Goto, IInv, TypeOK
  <2>. QED
    BY <2>1 DEF CcallPresent, BindPresent, Dir, ExtractDir
<1>. QED
  BY <1>2, <1>3 DEF Next, Step, Start, StatCached, Download, MakeDir, OpenEntry,
     WriteEntry, Advance, ExtractFails,
     StatCcall, LstatModule, ReadLink, RemoveModule, RemoveBegins, SymlinkModule,
     SymlinkExists, LinkFails, Crash, Goto, IInv, TypeOK, AtRest

\* What an installer has extracted is not lost to it, whatever the others do.
LEMMA ExtractedStays ==
    ASSUME IInv, Next, NEW q \in Procs, Extracted(q), Dir(q)' = Dir(q),
           pc[q] \notin {"open", "write"}
    PROVE  Extracted(q)'
<1>1. Dir(q) \in Versions
  BY DEF IInv, TypeOK, Dir, ExtractDir, Options
<1> SUFFICES ASSUME NEW e \in Entries, cache'[Dir(q)][e].by = q
             PROVE  cache'[Dir(q)][e].whole
  BY <1>1, FilesStay DEF Extracted, IsFile
<1>2. CASE cache'[Dir(q)][e] = cache[Dir(q)][e]
  BY <1>2 DEF Extracted
<1>3. ASSUME NEW p \in Procs, MakeDir(p) \/ OpenEntry(p)
      PROVE  cache'[Dir(q)][e] = cache[Dir(q)][e]
  <2>1. p # q
    BY <1>3 DEF MakeDir, OpenEntry, Goto
  <2>2. CASE Dir(q) = Dir(p) /\ e = next[p]
    <3>1. \E w \in BOOLEAN : cache'[Dir(q)][e] = [whole |-> w, by |-> p]
      BY <1>3, <2>2, MakeDirEffect, OpenEffect
    <3>2. cache'[Dir(q)][e].by = p
      BY <3>1
    <3>. QED
      BY <2>1, <3>2
  <2>3. CASE Dir(q) # Dir(p) \/ e # next[p]
    <3>1. \A d \in Versions : \A k \in Entries :
            d # Dir(p) \/ k # next[p] => cache'[d][k] = cache[d][k]
      BY <1>3, MakeDirEffect, OpenEffect
    <3>. QED
      BY <1>1, <2>3, <3>1
  <2>. QED
    BY <2>2, <2>3
<1>4. ASSUME NEW p \in Procs, WriteEntry(p)
      PROVE  cache'[Dir(q)][e].whole
  <2>1. CASE Dir(q) = Dir(p) /\ e = next[p]
    <3>1. cache[Dir(q)][e].by = q /\ cache[Dir(q)][e].whole
      BY <1>4, <2>1, WriteEffect DEF Extracted
    <3>. QED
      BY <1>4, <2>1, <3>1, WriteEffect
  <2>2. CASE Dir(q) # Dir(p) \/ e # next[p]
    <3>1. cache'[Dir(q)][e] = cache[Dir(q)][e]
      BY <1>1, <1>4, <2>2, WriteEffect
    <3>. QED
      BY <3>1 DEF Extracted
  <2>. QED
    BY <2>1, <2>2
<1>5. CASE UNCHANGED cache
  BY <1>2, <1>5
<1>. QED
  BY <1>2, <1>3, <1>4, <1>5 DEF Next, Step, Start, StatCached, Download, ExtractFails,
     StatCcall, LstatModule, ReadLink, RemoveModule, RemoveBegins, SymlinkModule,
     SymlinkExists, LinkFails, Crash

LEMMA ReplacementStep == IInv /\ Next => ReplacementInv'
<1> SUFFICES ASSUME IInv, Next, NEW q \in Procs PROVE
        /\ pc'[q] = "stat_cached" => opt'[q].skip
        /\ pc'[q] \in {"lstat", "readlink", "remove", "symlink"} =>
              Extracted(q)' \/ (opt'[q].skip /\ BindPresent(Dir(q))')
  BY DEF ReplacementInv
<1>1. Dir(q) \in Versions
  BY DEF IInv, TypeOK, Dir, ExtractDir, Options
<1>2. ASSUME opt'[q] = opt[q], BindPresent(Dir(q))
      PROVE  BindPresent(Dir(q))'
  BY <1>1, <1>2, FilesStay DEF BindPresent, Dir, ExtractDir
<1>3. CASE /\ pc[q] \in {"lstat", "readlink", "remove", "symlink"}
           /\ opt'[q] = opt[q] /\ pc'[q] # "stat_cached"
  <2>1. CASE Extracted(q)
    BY <1>3, <2>1, ExtractedStays DEF Dir, ExtractDir
  <2>2. CASE ~Extracted(q)
    BY <1>2, <1>3, <2>2 DEF IInv, ReplacementInv
  <2>. QED
    BY <1>3, <2>1, <2>2
<1>4. CASE StatCached(q)
  <2>1. opt' = opt /\ opt[q].skip /\ pc'[q] # "stat_cached"
    BY <1>4 DEF StatCached, Goto, IInv, TypeOK, ReplacementInv
  <2>2. \/ pc'[q] = "lstat" /\ BindPresent(Dir(q))
        \/ pc'[q] = "download"
    BY <1>4 DEF StatCached, Goto, IInv, TypeOK
  <2>. QED
    BY <1>2, <2>1, <2>2
<1>5. CASE StatCcall(q)
  <2>1. Extracted(q) /\ UNCHANGED <<cache, opt>> /\ pc'[q] # "stat_cached"
    BY <1>5 DEF StatCcall, Goto, IInv, TypeOK, ProgressInv, Extracted, Entries
  <2>2. Extracted(q)'
    BY <2>1 DEF Extracted, Dir, ExtractDir
  <2>. QED
    BY <2>1, <2>2
<1>6. CASE \E o \in Options : Start(q, o)
  BY <1>6 DEF Start, IInv, TypeOK
<1>7. CASE /\ pc'[q] = pc[q] /\ opt'[q] = opt[q]
           /\ pc[q] \notin {"lstat", "readlink", "remove", "symlink"}
  BY <1>7 DEF IInv, ReplacementInv
<1>8. CASE pc'[q] \notin {"stat_cached", "lstat", "readlink", "remove", "symlink"}
  BY <1>8
<1>. QED
  BY <1>3, <1>4, <1>5, <1>6, <1>7, <1>8 DEF Next, Step, Start, StatCached, Download,
     MakeDir, OpenEntry, WriteEntry, Advance, ExtractFails, StatCcall, LstatModule,
     ReadLink, RemoveModule, RemoveBegins, SymlinkModule, SymlinkExists, LinkFails, Crash,
     Goto, IInv, TypeOK, AtRest

LEMMA LinkStep == IInv /\ Next => LinkTargetsExist'
<1> SUFFICES ASSUME IInv, Next, NEW m \in Modules, link'[m] \in Versions
             PROVE  CcallPresent(link[m])'
  BY DEF LinkTargetsExist
<1>1. CASE link'[m] = link[m]
  BY <1>1, TreesStay DEF IInv, LinkTargetsExist, CcallPresent
<1>2. ASSUME NEW p \in Procs, SymlinkModule(p), opt[p].module = m
      PROVE  CcallPresent(link[m])'
  <2>1. link'[m] = Dir(p) /\ CcallPresent(Dir(p)) /\ Dir(p) \in Versions
    BY <1>2 DEF SymlinkModule, Goto, IInv, TypeOK, PresentInv, Dir, ExtractDir, Options
  <2>. QED
    BY <2>1, TreesStay DEF CcallPresent
<1>. QED
  BY <1>1, <1>2 DEF Next, Step, Start, StatCached, Download, MakeDir, OpenEntry,
     WriteEntry, Advance, ExtractFails,
     StatCcall, LstatModule, ReadLink, RemoveModule, RemoveBegins, SymlinkModule,
     SymlinkExists, LinkFails, Crash, Goto, IInv, TypeOK

LEMMA ProgressStep == IInv /\ Next => ProgressInv'
<1> SUFFICES ASSUME IInv, Next PROVE ProgressInv'
  OBVIOUS
<1> USE DEF IInv, TypeOK, ProgressInv
<1>1. ASSUME NEW p \in Procs, NEW o \in Options, Start(p, o) PROVE ProgressInv'
  BY <1>1 DEF Start, Dir, ExtractDir
<1>2. ASSUME NEW p \in Procs, OpenEntry(p) PROVE ProgressInv'
  <2>1. /\ pc[p] = "open" /\ pc' = [pc EXCEPT ![p] = "write"]
        /\ next' = next /\ opt' = opt
    BY <1>2 DEF OpenEntry, Goto
  <2>0. \A d \in Versions : \A k \in Entries :
          d # Dir(p) \/ k # next[p] => cache'[d][k] = cache[d][k]
    BY <1>2, OpenEffect
  <2>2. ASSUME NEW q \in Procs, pc'[q] \in {"open", "write", "stat_ccall"},
               NEW e \in 1..(next[q] - 1)
        PROVE  /\ IsFile(cache'[Dir(q)][e])
               /\ cache'[Dir(q)][e].by = q => cache'[Dir(q)][e].whole
    <3>1. pc[q] \in {"open", "write", "stat_ccall"} /\ e \in Entries /\ Dir(q) \in Versions
      BY <2>1, <2>2 DEF Entries, Dir, ExtractDir, Options
    <3>2. CASE Dir(q) = Dir(p) /\ e = next[p]
      <4>1. q # p
        BY <2>2, <3>2 DEF Entries
      <4>2. cache'[Dir(q)][e] = [whole |-> FALSE, by |-> p] /\ IsFile(cache'[Dir(q)][e])
        BY <1>2, <3>2, OpenEffect
      <4>3. cache'[Dir(q)][e].by = p
        BY <4>2
      <4>. QED
        BY <4>1, <4>2, <4>3
    <3>3. CASE Dir(q) # Dir(p) \/ e # next[p]
      <4>1. cache'[Dir(q)][e] = cache[Dir(q)][e]
        BY <2>0, <3>1, <3>3
      <4>. QED
        BY <2>2, <3>1, <4>1
    <3>. QED
      BY <3>2, <3>3
  <2>3. ASSUME NEW q \in Procs, pc'[q] = "write"
        PROVE  IsFile(cache'[Dir(q)][next[q]])
    <3>1. Dir(q) \in Versions
      BY DEF Dir, ExtractDir, Options
    <3>2. CASE Dir(q) = Dir(p) /\ next[q] = next[p]
      BY <1>2, <3>2, OpenEffect
    <3>3. CASE Dir(q) # Dir(p) \/ next[q] # next[p]
      <4>1. pc[q] = "write" /\ next[q] \in Entries /\ IsFile(cache[Dir(q)][next[q]])
        BY <2>1, <2>3, <3>3
      <4>2. cache'[Dir(q)][next[q]] = cache[Dir(q)][next[q]]
        BY <2>0, <3>1, <3>3, <4>1
      <4>. QED
        BY <4>1, <4>2
    <3>. QED
      BY <3>2, <3>3
  <2>. QED
    BY <2>1, <2>2, <2>3 DEF Dir, ExtractDir
<1>3. ASSUME NEW p \in Procs, WriteEntry(p) PROVE ProgressInv'
  <2>1. /\ pc[p] = "write"
        /\ next' = [next EXCEPT ![p] = next[p] + 1]
        /\ pc' = [pc EXCEPT ![p] = IF next[p] = Last THEN "stat_ccall" ELSE "open"]
        /\ opt' = opt
    BY <1>3 DEF WriteEntry, Advance
  <2>2. ASSUME NEW q \in Procs, pc'[q] \in {"open", "write", "stat_ccall"},
               NEW e \in 1..(next'[q] - 1)
        PROVE  /\ IsFile(cache'[Dir(q)][e])
               /\ cache'[Dir(q)][e].by = q => cache'[Dir(q)][e].whole
    <3>1. /\ pc[q] \in {"open", "write", "stat_ccall"} /\ e \in Entries /\ Dir(q) \in Versions
          /\ e \in 1..(next[q] - 1) \/ (q = p /\ e = next[p])
      BY <2>1, <2>2 DEF Entries, Dir, ExtractDir, Options
    <3>. QED
      BY <1>3, <3>1, WriteEffect
  <2>3. ASSUME NEW q \in Procs
        PROVE  /\ pc'[q] \in {"stat_cached", "download"} => next'[q] = 1
               /\ pc'[q] \in {"open", "write"} => next'[q] \in Entries
               /\ pc'[q] = "stat_ccall" => next'[q] = Last + 1
    BY <2>1 DEF Entries
  <2>4. ASSUME NEW q \in Procs, pc'[q] = "write"
        PROVE  IsFile(cache'[Dir(q)][next'[q]])
    <3>1. q # p /\ next'[q] = next[q] /\ pc[q] = "write" /\ Dir(q) \in Versions
      BY <2>1, <2>4 DEF Dir, ExtractDir, Options
    <3>. QED
      BY <1>3, <3>1, WriteEffect
  <2>. QED
    BY <2>1, <2>2, <2>3, <2>4 DEF Dir, ExtractDir
<1>4. ASSUME NEW p \in Procs,
             StatCached(p) \/ Download(p) \/ ExtractFails(p) \/ StatCcall(p) \/ LstatModule(p)
             \/ ReadLink(p) \/ RemoveModule(p) \/ RemoveBegins(p) \/ SymlinkModule(p)
             \/ SymlinkExists(p) \/ LinkFails(p) \/ Crash(p)
      PROVE  ProgressInv'
  <2>1. UNCHANGED <<cache, opt, next>>
    BY <1>4 DEF StatCached, Download, ExtractFails, StatCcall, LstatModule, ReadLink,
       RemoveModule, RemoveBegins, SymlinkModule, SymlinkExists, LinkFails, Crash
  <2>2. ASSUME NEW q \in Procs
        PROVE  \/ pc'[q] = pc[q]
               \/ pc[q] = "stat_cached" /\ pc'[q] = "download"
               \/ pc[q] = "download" /\ pc'[q] = "open"
               \/ pc'[q] \notin {"stat_cached", "download", "open", "write", "stat_ccall"}
    BY <1>4 DEF StatCached, Download, ExtractFails, StatCcall, LstatModule, ReadLink,
       RemoveModule, RemoveBegins, SymlinkModule, SymlinkExists, LinkFails,
       Crash, Goto
  <2>. QED
    BY <2>1, <2>2 DEF Dir, ExtractDir, Entries
<1>5. ASSUME NEW p \in Procs, MakeDir(p) PROVE ProgressInv'
  <2>1. /\ pc[p] = "open"
        /\ next' = [next EXCEPT ![p] = next[p] + 1]
        /\ pc' = [pc EXCEPT ![p] = IF next[p] = Last THEN "stat_ccall" ELSE "open"]
        /\ opt' = opt
    BY <1>5 DEF MakeDir, Advance
  <2>2. \A d \in Versions : \A e \in Entries :
          d # Dir(p) \/ e # next[p] => cache'[d][e] = cache[d][e]
    BY <1>5, MakeDirEffect
  <2>3. IsFile(cache'[Dir(p)][next[p]]) /\ cache'[Dir(p)][next[p]].whole
    <3>1. cache'[Dir(p)][next[p]] = [whole |-> TRUE, by |-> p] /\ IsFile(cache'[Dir(p)][next[p]])
      BY <1>5, MakeDirEffect
    <3>2. cache'[Dir(p)][next[p]].whole
      BY <3>1
    <3>. QED
      BY <3>1, <3>2
  <2>4. ASSUME NEW q \in Procs, pc'[q] \in {"open", "write", "stat_ccall"},
               NEW e \in 1..(next'[q] - 1)
        PROVE  /\ IsFile(cache'[Dir(q)][e])
               /\ cache'[Dir(q)][e].by = q => cache'[Dir(q)][e].whole
    <3>1. /\ pc[q] \in {"open", "write", "stat_ccall"} /\ e \in Entries /\ Dir(q) \in Versions
          /\ e \in 1..(next[q] - 1) \/ (q = p /\ e = next[p])
      BY <2>1, <2>4 DEF Entries, Dir, ExtractDir, Options
    <3>2. CASE Dir(q) = Dir(p) /\ e = next[p]
      BY <2>3, <3>2
    <3>3. CASE ~(Dir(q) = Dir(p) /\ e = next[p])
      <4>1. cache'[Dir(q)][e] = cache[Dir(q)][e]
        BY <2>2, <3>1, <3>3
      <4>. QED
        BY <3>1, <3>3, <4>1
    <3>. QED
      BY <3>2, <3>3
  <2>5. ASSUME NEW q \in Procs
        PROVE  /\ pc'[q] \in {"stat_cached", "download"} => next'[q] = 1
               /\ pc'[q] \in {"open", "write"} => next'[q] \in Entries
               /\ pc'[q] = "stat_ccall" => next'[q] = Last + 1
    BY <2>1 DEF Entries
  <2>6. ASSUME NEW q \in Procs, pc'[q] = "write"
        PROVE  IsFile(cache'[Dir(q)][next'[q]])
    <3>1. /\ q # p /\ next'[q] = next[q] /\ pc[q] = "write" /\ Dir(q) \in Versions
          /\ next[q] \in Entries /\ IsFile(cache[Dir(q)][next[q]])
      BY <2>1, <2>6 DEF Dir, ExtractDir, Options
    <3>2. CASE Dir(q) = Dir(p) /\ next[q] = next[p]
      BY <2>3, <3>1, <3>2
    <3>3. CASE ~(Dir(q) = Dir(p) /\ next[q] = next[p])
      BY <2>2, <3>1, <3>3
    <3>. QED
      BY <3>2, <3>3
  <2>. QED
    BY <2>1, <2>4, <2>5, <2>6 DEF Dir, ExtractDir
<1>. QED
  BY <1>1, <1>2, <1>3, <1>4, <1>5 DEF Next, Step

-----------------------------------------------------------------------------
\* IInv is an invariant of the installers, crashes and failures included.
THEOREM InvariantHolds == Spec => []IInv
<1>1. Init => IInv
  BY InitEstablishes
<1>2. IInv /\ [Next]_vars => IInv'
  <2>1. IInv /\ Next => IInv'
    BY TypeStep, PresentStep, ReplacementStep, LinkStep, ProgressStep DEF IInv
  <2>2. IInv /\ UNCHANGED vars => IInv'
    BY DEF IInv, vars, TypeOK, PresentInv, ReplacementInv, LinkTargetsExist, ProgressInv,
       CcallPresent, BindPresent, Extracted, Dir, ExtractDir, IsFile
  <2>. QED
    BY <2>1, <2>2
<1>. QED
  BY <1>1, <1>2, PTL DEF Spec

\* The type invariant of Install and InstallToModule.
THEOREM TypeCorrect == Spec => []TypeOK
<1>1. IInv => TypeOK
  BY DEF IInv
<1>. QED
  BY <1>1, InvariantHolds, PTL

\* InstallToModule never links a module to a path that does not exist, however
\* many installers run, fail and are killed.
THEOREM LinksHold == Spec => []LinkTargetsExist
<1>1. IInv => LinkTargetsExist
  BY DEF IInv
<1>. QED
  BY <1>1, InvariantHolds, PTL

\* extractTarGz leaves every entry of its archive, and whole where nobody has
\* truncated it again.
THEOREM ExtractionComplete == Spec => []OwnEntriesWhole
<1>1. IInv => OwnEntriesWhole
  BY DEF IInv, TypeOK, ProgressInv, OwnEntriesWhole, Extracted, Entries
<1>. QED
  BY <1>1, InvariantHolds, PTL

\* InstallToModule touches an internal/ccall built from source only when all of
\* its own archive is extracted, or for SkipIfPresent when some of it was found.
THEOREM OldTreeKept == Spec => OldTreeKeptUntilReplacement
<1> DEFINE Replaces(p, m) == /\ pc[p] = "remove" /\ opt[p].module = m
                             /\ \/ Extracted(p)
                                \/ opt[p].skip /\ BindPresent(Dir(p))
<1>1. ASSUME IInv, [Next]_vars
      PROVE  [\A m \in Modules :
                link[m] = Directory /\ link'[m] # Directory =>
                    \E p \in Procs : Replaces(p, m)]_vars
  <2> SUFFICES ASSUME Next, NEW m \in Modules, link[m] = Directory, link'[m] # Directory
               PROVE  \E p \in Procs : Replaces(p, m)
    BY <1>1
  <2>1. PICK p \in Procs : (RemoveModule(p) \/ RemoveBegins(p)) /\ opt[p].module = m
    BY <1>1 DEF Next, Step, Start, StatCached, Download, MakeDir, OpenEntry, WriteEntry,
       Advance, ExtractFails, StatCcall, LstatModule, ReadLink, RemoveModule, RemoveBegins,
       SymlinkModule, SymlinkExists, LinkFails, Crash, IInv, TypeOK
  <2>. QED
    BY <1>1, <2>1 DEF RemoveModule, RemoveBegins, Goto, IInv, ReplacementInv
<1>. QED
  BY <1>1, InvariantHolds, PTL DEF Spec, OldTreeKeptUntilReplacement

-----------------------------------------------------------------------------
(***************************************************************************)
(* Where no installer is killed and no extraction fails.                   *)
(***************************************************************************)

\* The process that truncated a file last is writing it as long as it is not
\* whole.
TornHasWriter ==
    \A d \in Versions : \A e \in Entries :
        IsFile(cache[d][e]) /\ ~cache[d][e].whole =>
            LET q == cache[d][e].by
            IN pc[q] = "write" /\ Dir(q) = d /\ next[q] = e

\* An extractor that has not come to it yet fills the hole of a tree.
HoleHasExtractor ==
    \A d \in Versions : \A e \in Entries :
        CcallPresent(d) /\ ~IsFile(cache[d][e]) =>
            \E p \in Procs : Dir(p) = d /\ pc[p] \in {"open", "write"} /\ next[p] \leq e

\* A step moves no other process, and a process that is extracting only by its
\* next entry.
LEMMA OneMoves ==
    ASSUME ~CanCrash, ~CanFail, IInv, Next
    PROVE  \E p \in Procs :
              /\ \A q \in Procs \ {p} : pc'[q] = pc[q] /\ Dir(q)' = Dir(q) /\ next'[q] = next[q]
              /\ \/ MakeDir(p)
                 \/ OpenEntry(p)
                 \/ WriteEntry(p)
                 \/ UNCHANGED cache /\ pc[p] \notin {"open", "write"}
<1>1. PICK p \in Procs :
        \/ \E o \in Options : Start(p, o)
        \/ Step(p)
        \/ RemoveBegins(p) \/ LinkFails(p)
  BY DEF Next, ExtractFails, Crash
<1>2. \A q \in Procs \ {p} : pc'[q] = pc[q] /\ opt'[q] = opt[q] /\ next'[q] = next[q]
  BY <1>1 DEF Step, Start, StatCached, Download, MakeDir, OpenEntry, WriteEntry, Advance,
     StatCcall, LstatModule, ReadLink, RemoveModule, RemoveBegins, SymlinkModule,
     SymlinkExists, LinkFails, Goto, IInv, TypeOK
<1>3. \/ MakeDir(p)
      \/ OpenEntry(p)
      \/ WriteEntry(p)
      \/ UNCHANGED cache /\ pc[p] \notin {"open", "write"}
  BY <1>1 DEF Step, Start, StatCached, Download, StatCcall, LstatModule, ReadLink,
     RemoveModule, RemoveBegins, SymlinkModule, SymlinkExists, LinkFails, Goto,
     AtRest
<1>. QED
  BY <1>2, <1>3 DEF Dir, ExtractDir

LEMMA TornStep ==
    ASSUME ~CanCrash, ~CanFail, IInv, TornHasWriter, Next
    PROVE  TornHasWriter'
<1> DEFINE Holds(q, d, e) == pc[q] = "write" /\ Dir(q) = d /\ next[q] = e
<1> SUFFICES ASSUME NEW d \in Versions, NEW e \in Entries, NEW f \in Files,
                    cache'[d][e] = f, ~f.whole
             PROVE  Holds(f.by, d, e)'
  <2>1. TypeOK'
    BY TypeStep
  <2>. QED
    BY <2>1 DEF TornHasWriter, IsFile, TypeOK
<1>1. PICK p \in Procs :
        /\ \A q \in Procs \ {p} : pc'[q] = pc[q] /\ Dir(q)' = Dir(q) /\ next'[q] = next[q]
        /\ \/ MakeDir(p)
           \/ OpenEntry(p)
           \/ WriteEntry(p)
           \/ UNCHANGED cache /\ pc[p] \notin {"open", "write"}
  BY OneMoves
<1>2. ASSUME NEW g \in Files, cache[d][e] = g, ~g.whole, g.by = f.by, f.by # p
      PROVE  Holds(f.by, d, e)'
  <2>1. f.by \in Procs /\ Holds(f.by, d, e)
    BY <1>2 DEF TornHasWriter, IsFile, Files
  <2>. QED
    BY <1>1, <1>2, <2>1
<1>3. CASE cache[d][e] = f /\ f.by # p
  BY <1>2, <1>3
<1>4. ASSUME cache[d][e] = f, f.by = p
      PROVE  WriteEntry(p) /\ d = Dir(p) /\ e = next[p]
  <2>1. Holds(p, d, e)
    BY <1>4 DEF TornHasWriter, IsFile
  <2>. QED
    BY <1>1, <2>1 DEF MakeDir, OpenEntry, Goto
<1>5. CASE OpenEntry(p)
  <2>1. CASE d = Dir(p) /\ e = next[p]
    <3>1. f = [whole |-> FALSE, by |-> p]
      BY <1>5, <2>1, OpenEffect
    <3>2. f.by = p
      BY <3>1
    <3>. QED
      BY <1>5, <2>1, <3>2 DEF OpenEntry, Goto, IInv, TypeOK, Dir, ExtractDir
  <2>2. CASE ~(d = Dir(p) /\ e = next[p])
    <3>0. \A c \in Versions : \A k \in Entries :
            c # Dir(p) \/ k # next[p] => cache'[c][k] = cache[c][k]
      BY <1>5, OpenEffect
    <3>1. cache'[d][e] = cache[d][e]
      BY <2>2, <3>0
    <3>. QED
      BY <1>3, <1>4, <2>2, <3>1
  <2>. QED
    BY <2>1, <2>2
<1>6. CASE WriteEntry(p)
  <2>1. CASE d = Dir(p) /\ e = next[p]
    BY <1>2, <1>6, <2>1, WriteEffect
  <2>2. CASE ~(d = Dir(p) /\ e = next[p])
    <3>1. cache'[d][e] = cache[d][e]
      BY <1>6, <2>2, WriteEffect
    <3>. QED
      BY <1>3, <1>4, <2>2, <3>1
  <2>. QED
    BY <2>1, <2>2
<1>7. CASE UNCHANGED cache /\ pc[p] \notin {"open", "write"}
  BY <1>3, <1>4, <1>7 DEF WriteEntry
<1>8. CASE MakeDir(p)
  <2>1. CASE d = Dir(p) /\ e = next[p]
    <3>1. f = [whole |-> TRUE, by |-> p]
      BY <1>8, <2>1, MakeDirEffect
    <3>2. f.whole
      BY <3>1
    <3>. QED
      BY <3>2
  <2>2. CASE ~(d = Dir(p) /\ e = next[p])
    <3>0. \A c \in Versions : \A k \in Entries :
            c # Dir(p) \/ k # next[p] => cache'[c][k] = cache[c][k]
      BY <1>8, MakeDirEffect
    <3>1. cache'[d][e] = cache[d][e]
      BY <2>2, <3>0
    <3>. QED
      BY <1>3, <1>4, <2>2, <3>1
  <2>. QED
    BY <2>1, <2>2
<1>. QED
  BY <1>1, <1>5, <1>6, <1>7, <1>8

LEMMA HoleStep ==
    ASSUME ~CanCrash, ~CanFail, IInv, HoleHasExtractor, Next
    PROVE  HoleHasExtractor'
<1> DEFINE Fills(q, d, e) == Dir(q) = d /\ pc[q] \in {"open", "write"} /\ next[q] \leq e
<1> SUFFICES ASSUME NEW d \in Versions, NEW e \in Entries,
                    CcallPresent(d)', ~IsFile(cache'[d][e])
             PROVE  \E q \in Procs : Fills(q, d, e)'
  BY DEF HoleHasExtractor, IsFile
<1>1. ~IsFile(cache[d][e])
  BY FilesStay
<1>2. PICK p \in Procs :
        /\ \A q \in Procs \ {p} : pc'[q] = pc[q] /\ Dir(q)' = Dir(q) /\ next'[q] = next[q]
        /\ \/ MakeDir(p)
           \/ OpenEntry(p)
           \/ WriteEntry(p)
           \/ UNCHANGED cache /\ pc[p] \notin {"open", "write"}
  BY OneMoves
<1>3. ASSUME NEW q \in Procs \ {p}, Fills(q, d, e)
      PROVE  Fills(q, d, e)'
  BY <1>2, <1>3
<1>4. ASSUME Fills(p, d, e), MakeDir(p) \/ OpenEntry(p) \/ WriteEntry(p)
      PROVE  Fills(p, d, e)'
  <2>1. CASE OpenEntry(p)
    BY <1>4, <2>1 DEF OpenEntry, Goto, IInv, TypeOK, Dir, ExtractDir
  <2>2. CASE MakeDir(p) \/ WriteEntry(p)
    <3>1. next[p] \in Entries /\ IsFile(cache'[Dir(p)][next[p]])
      BY <2>2, MakeDirEffect, WriteEffect
    <3>2. next[p] # e
      BY <1>4, <3>1
    <3>3. next[p] + 1 \leq e /\ next[p] # Last
      BY <1>4, <3>1, <3>2 DEF Entries
    <3>. QED
      BY <1>4, <2>2, <3>3 DEF MakeDir, WriteEntry, Advance, IInv, TypeOK, Dir, ExtractDir
  <2>. QED
    BY <1>4, <2>1, <2>2
<1>5. CASE CcallPresent(d)
  <2>1. PICK q \in Procs : Fills(q, d, e)
    BY <1>1, <1>5 DEF HoleHasExtractor
  <2>2. CASE q = p
    BY <1>2, <1>4, <2>1, <2>2
  <2>3. CASE q # p
    BY <1>3, <2>1, <2>3
  <2>. QED
    BY <2>2, <2>3
<1>6. CASE ~CcallPresent(d)
  <2>1. PICK k \in Entries : IsFile(cache'[d][k]) /\ ~IsFile(cache[d][k])
    BY <1>6 DEF CcallPresent, IsFile
  <2>2. MakeDir(p) \/ OpenEntry(p) \/ WriteEntry(p)
    BY <1>2, <2>1
  <2>0. \A c \in Versions : \A i \in Entries :
          c # Dir(p) \/ i # next[p] => cache'[c][i] = cache[c][i]
    BY <2>2, MakeDirEffect, OpenEffect, WriteEffect
  <2>3. d = Dir(p) /\ k = next[p]
    BY <2>0, <2>1 DEF IsFile
  <2>4. pc[p] = "open" /\ (MakeDir(p) \/ OpenEntry(p))
    BY <2>1, <2>2, <2>3 DEF MakeDir, OpenEntry, WriteEntry, Goto, IInv, ProgressInv
  <2>5. next[p] = 1
    BY <1>6, <2>3, <2>4 DEF IInv, ProgressInv, CcallPresent, Entries
  <2>. QED
    BY <1>4, <2>3, <2>4, <2>5 DEF Entries
<1>. QED
  BY <1>5, <1>6

\* Without crashes and failures, every linked tree is complete once all
\* installers have ended: overlapping extractions of one version do no harm.
THEOREM QuiescentTrees ==
    ASSUME ~CanCrash, ~CanFail
    PROVE  Spec => []QuiescentTreesWhole
<1>1. Init => TornHasWriter /\ HoleHasExtractor
  BY DEF Init, TornHasWriter, HoleHasExtractor, CcallPresent, IsFile
<1>2. IInv /\ TornHasWriter /\ HoleHasExtractor /\ [Next]_vars
        => TornHasWriter' /\ HoleHasExtractor'
  <2>1. ASSUME UNCHANGED vars, TornHasWriter, HoleHasExtractor
        PROVE  TornHasWriter' /\ HoleHasExtractor'
    BY <2>1 DEF vars, TornHasWriter, HoleHasExtractor, CcallPresent, IsFile, Dir,
       ExtractDir
  <2>. QED
    BY <2>1, TornStep, HoleStep
<1>3. IInv /\ TornHasWriter /\ HoleHasExtractor => QuiescentTreesWhole
  <2> SUFFICES ASSUME IInv, TornHasWriter, HoleHasExtractor, AllAtRest,
                      NEW m \in Modules, link[m] \in Versions, NEW e \in Entries
               PROVE  IsFile(cache[link[m]][e]) /\ cache[link[m]][e].whole
    BY DEF QuiescentTreesWhole, Whole
  <2>1. IsFile(cache[link[m]][e])
    BY DEF IInv, LinkTargetsExist, HoleHasExtractor, AllAtRest, AtRest
  <2>2. cache[link[m]][e].by \in Procs
    BY <2>1 DEF IInv, TypeOK, IsFile, Files
  <2>. QED
    BY <2>1, <2>2 DEF TornHasWriter, AllAtRest, AtRest
<1>. QED
  BY <1>1, <1>2, <1>3, InvariantHolds, PTL DEF Spec

\* Racing installers do not lose the tree of a module: once one of them ended
\* well, the module is linked, or is about to be, or is without a tree because the
\* one that was about to link it failed or died.
THEOREM ModuleLinked == Spec => []ModuleStaysLinked
<1> DEFINE Accounted(m) == m \in stranded \/ \E q \in Procs : Linking(q, m)
<1>1. Init => ModuleStaysLinked
  BY DEF Init, ModuleStaysLinked
<1>2. IInv /\ ModuleStaysLinked /\ [Next]_vars => ModuleStaysLinked'
  <2> SUFFICES ASSUME IInv, ModuleStaysLinked, [Next]_vars,
                      NEW p \in Procs, pc'[p] = "done", NEW m \in Modules, opt'[p].module = m,
                      link'[m] = NoLink
               PROVE  Accounted(m)'
    <3>1. (IInv /\ [Next]_vars) => TypeOK'
      BY TypeStep DEF IInv, vars, TypeOK
    <3>. QED
      BY <3>1 DEF ModuleStaysLinked, TypeOK, Options, Linking
  <2>1. CASE UNCHANGED vars
    BY <2>1 DEF vars, ModuleStaysLinked, Linking
  <2>2. ASSUME NEW q \in Procs, Linking(q, m), Next, link[m] = NoLink
        PROVE  Linking(q, m)' \/ m \in stranded'
    BY <2>2 DEF Linking, Next, Step, Start, StatCached, Download, MakeDir, OpenEntry,
       WriteEntry, Advance, ExtractFails, StatCcall, LstatModule, ReadLink, RemoveModule,
       RemoveBegins, SymlinkModule, SymlinkExists, LinkFails, Strands, Crash, Goto, IInv,
       TypeOK, AtRest, Dir, ExtractDir, Options
  <2>3. ASSUME m \in stranded, Next
        PROVE  m \in stranded'
    BY <2>3 DEF Next, Step, Start, StatCached, Download, MakeDir, OpenEntry,
       WriteEntry, ExtractFails, StatCcall, LstatModule, ReadLink, RemoveModule,
       RemoveBegins, SymlinkModule, SymlinkExists, LinkFails, Strands, Crash, Goto, IInv,
       TypeOK, Dir, ExtractDir, Options
  <2>4. CASE Next /\ link[m] # NoLink
    <3>1. PICK q \in Procs : RemoveModule(q) /\ opt[q].module = m
      BY <2>4 DEF Next, Step, Start, StatCached, Download, MakeDir, OpenEntry,
         WriteEntry, ExtractFails, StatCcall, LstatModule, ReadLink, RemoveModule,
         RemoveBegins, SymlinkModule, SymlinkExists, LinkFails, Crash, IInv, TypeOK
    <3>2. Linking(q, m)'
      BY <3>1 DEF RemoveModule, Goto, Linking, IInv, TypeOK
    <3>. QED
      BY <3>2
  <2>5. CASE Next /\ link[m] = NoLink
    <3>0. \/ SymlinkModule(p) \/ ReadLink(p)
          \/ pc[p] = "done" /\ opt[p].module = m
      BY <2>5 DEF Next, Step, Start, StatCached, Download, MakeDir, OpenEntry,
         WriteEntry, Advance, ExtractFails, StatCcall, LstatModule, ReadLink, RemoveModule,
         RemoveBegins, SymlinkModule, SymlinkExists, LinkFails, Crash, Goto, IInv, TypeOK,
         AtRest
    <3>1. pc[p] = "done" /\ opt[p].module = m
      BY <2>5, <3>0 DEF SymlinkModule, ReadLink, Goto, IInv, TypeOK, Dir, ExtractDir,
         Options
    <3>2. Accounted(m)
      BY <2>5, <3>1 DEF ModuleStaysLinked
    <3>. QED
      BY <2>2, <2>3, <2>5, <3>2
  <2>. QED
    BY <2>1, <2>4, <2>5
<1>. QED
  BY <1>1, <1>2, InvariantHolds, PTL DEF Spec
=============================================================================
