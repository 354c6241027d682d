---------------------------- MODULE UpdaterProofs ----------------------------
(* Proofs about Updater for any checkouts, generated trees, required files,  *)
(* order of the patches and number of runs.                                  *)
(*                                                                           *)
(* What Check promises of ccall is put there step by step: by the copies, as *)
(* far as they did not fail, and by the patches, as far as they are.  IInv   *)
(* says how far, one named part for each kind of file.  Earlier runs matter  *)
(* for EndsPatched and NamesAgree: what they left is patched by this one.    *)
EXTENDS Updater, SequenceTheorems, WellFoundedInduction, TLAPS

\* The state has the shape the actions rely on; a tree is copied as far as
\* todo says, and nothing is left to copy when the patches begin.
ShapeInv ==
  /\ upstream \in Upstreams /\ export \in Exports
  /\ DOMAIN ccall = Sources \cup Required
  /\ pc \in {"idle", "source", "bin", "genfiles", "patch", "check"}
  /\ todo \subseteq IF Copying THEN InTree(pc) ELSE {}

\* Past discoverOutTree a tree is there.
TreeInv ==
  /\ pc # "idle" => export.bin # NoDir
  /\ pc \in {"bin", "genfiles", "patch", "check"} => export.bin # NoTree
  /\ pc \in {"genfiles", "patch", "check"} => export.genfiles # NoTree
  /\ pc = "genfiles" => export.genfiles # NoDir

\* What a source can hold, from whichever checkout.
Bodies(f) == (IF f = SuffixFile THEN SuffixLists ELSE Seq(Places)) \cup {Absent, Partial}

BodiesInv == \A f \in Sources : ccall[f] \in Bodies(f)

\* The patch of f changes b again only if it is a suffix list that grows.
Settled(f, b) ==
  b \in {Absent, Partial} \/ (Patch(f, b) # b <=> f = SuffixFile /\ Grows(b))

\* applyPatches is in its list at patched, and what it is past is settled.
PatchedInv ==
  /\ patched \in 0..Len(PatchOrder)
  /\ pc \notin {"patch", "check"} => patched = 0
  /\ pc = "check" => patched = Len(PatchOrder)
  /\ \A j \in 1..patched : Settled(PatchOrder[j], ccall[PatchOrder[j]])

Past(f) == \E j \in 1..patched : PatchOrder[j] = f

\* A source that this run copied is as upstream has it until its patch is past.
SourceInv ==
  pc # "idle" =>
    \A f \in Sources \ (missed \cup todo) :
      upstream[f] # Absent =>
        ccall[f] = IF Past(f) THEN Patch(f, upstream[f]) ELSE upstream[f]

\* A generated file that this run copied has the version of the last tree.
GeneratedInv ==
  \A f \in Required \ (missed \cup todo) :
    /\ pc = "bin" /\ export.bin[f] # Absent => ccall[f] = export.bin[f]
    /\ pc \in {"genfiles", "patch", "check"} /\ Intended(f) # Absent => ccall[f] = Intended(f)

IInv == ShapeInv /\ TreeInv /\ PatchedInv /\ SourceInv /\ GeneratedInv

-----------------------------------------------------------------------------
(* The patches *)

\* Every set of naturals with an element has a least one.
LEMMA LeastNatural ==
  ASSUME NEW S \in SUBSET Nat, S # {}
  PROVE  \E n \in S : \A m \in S : n =< m
<1> DEFINE Less == {p \in Nat \X Nat : p[1] < p[2]}
<1>1. IsWellFoundedOn(Less, Nat)
  BY NatLessThanWellFounded, SMT DEF OpToRel
<1>2. \E n \in S : \A m \in S : <<m, n>> \notin Less
  <2> HIDE DEF Less
  <2>. QED
    BY <1>1, WFMin
<1>3. ASSUME NEW n \in S, NEW m \in S, <<m, n>> \notin Less
      PROVE  n =< m
  <2>1. n \in Nat /\ m \in Nat /\ ~(m < n)
    BY <1>3
  <2>. QED
    BY <2>1
<1> HIDE DEF Less
<1>. QED
  BY <1>2, <1>3, Zenon

LEMMA ReplacementsFacts ==
  ASSUME NEW f
  PROVE  LET r == Replacements(f)
         IN  r[1].all \in BOOLEAN /\ r[2].all \in BOOLEAN /\ r[3].all \in BOOLEAN
<1>1. \A texts : First(texts).all = FALSE /\ Every(texts).all = TRUE
  BY DEF First, Every
<1>2. CASE f = "resolver_query.cc"
  BY <1>1, <1>2 DEF Replacements
<1>3. CASE f = "analytic_op.cc"
  BY <1>1, <1>3 DEF Replacements
<1>4. CASE f \notin {"resolver_query.cc", "analytic_op.cc"}
  BY <1>1, <1>4 DEF Replacements
<1>. QED
  BY <1>2, <1>3, <1>4

\* What one strings.Replace makes of body b: the texts stay, as does what is new, and
\* a place of one of its texts that is still old comes after one that is new.
Replaced(b, c, r) ==
  /\ c \in Seq(Places) /\ DOMAIN c = DOMAIN b
  /\ \A i \in DOMAIN b : c[i].text = b[i].text /\ (b[i].new => c[i].new)
  /\ \A i \in DOMAIN b :
       ~c[i].new /\ c[i].text \in r.texts =>
         ~r.all /\ \E j \in 1..(i - 1) : c[j].new /\ c[j].text \in r.texts

LEMMA ReplaceFacts ==
  ASSUME NEW b \in Seq(Places), NEW r, r.all \in BOOLEAN
  PROVE  Replaced(b, Replace(b, r), r)
<1> DEFINE c == Replace(b, r)
           found == {i \in DOMAIN b : ~b[i].new /\ b[i].text \in r.texts}
           hit(i) == i \in found /\ (r.all \/ \A j \in found : i <= j)
<1>1. /\ c = [i \in DOMAIN b |-> IF hit(i) THEN Place(b[i].text, TRUE) ELSE b[i]]
      /\ DOMAIN b = 1..Len(b) /\ Len(b) \in Nat
      /\ \A i \in DOMAIN b : b[i] \in Places
  BY DEF Replace
<1> HIDE DEF c
<1>2. ASSUME NEW i \in DOMAIN b
      PROVE  /\ c[i] \in Places /\ c[i].text = b[i].text
             /\ c[i].new <=> b[i].new \/ hit(i)
  <2>1. b[i] \in Places /\ b[i].text \in {"definition", "use", "alias", "drifted"}
        /\ b[i].new \in BOOLEAN
    BY <1>1 DEF Places
  <2>2. CASE hit(i)
    BY <1>1, <2>1, <2>2 DEF Place, Places
  <2>3. CASE ~hit(i)
    <3>1. c[i] = b[i]
      BY <1>1, <2>3
    <3>. QED
      BY <2>1, <2>3, <3>1
  <2>. QED
    BY <2>2, <2>3
<1>3. DOMAIN c = 1..Len(b) /\ c \in Seq(Places)
  <2>1. c \in [1..Len(b) -> Places]
    BY <1>1, <1>2
  <2>2. DOMAIN c = 1..Len(b)
    BY <1>1
  <2>3. c \in Seq(Places)
    BY <1>1, <2>1, SeqDef
  <2>. QED
    BY <2>2, <2>3
<1>4. ASSUME NEW i \in DOMAIN b, ~c[i].new, c[i].text \in r.texts
      PROVE  ~r.all /\ \E j \in 1..(i - 1) : c[j].new /\ c[j].text \in r.texts
  <2>1. i \in found /\ ~hit(i) /\ ~r.all
    BY <1>2, <1>4
  <2>2. found \subseteq Nat /\ found # {}
    BY <1>1, <2>1
  <2>3. PICK m \in found : \A j \in found : m <= j
    BY <2>2, LeastNatural
  <2>4. hit(m) /\ m \in DOMAIN b /\ m <= i /\ m # i
    BY <2>1, <2>3
  <2>5. m \in 1..(i - 1)
    BY <1>1, <2>4
  <2>6. c[m].new /\ c[m].text \in r.texts
    BY <1>2, <2>4
  <2>. QED
    BY <2>1, <2>5, <2>6
<1>. QED
  BY <1>1, <1>2, <1>3, <1>4 DEF c, Replaced

\* A patch leaves the places of a file where they are, makes none old, and passes
\* over only those that its replacements had places before for.
LEMMA RenameFacts ==
  ASSUME NEW f, NEW b \in Seq(Places)
  PROVE  /\ Rename(f, b) \in Seq(Places)
         /\ Renamed(b) => Rename(f, b) = b
         /\ ~Renamed(b) =>
              /\ ~Renamed(Rename(f, b)) => Rename(f, b) = b
              /\ \A i \in DOMAIN Rename(f, b) :
                   Rename(f, b)[i].new \/ PassedOver(f, Rename(f, b), i)
<1> DEFINE r == Replacements(f)
           b1 == Replace(b, r[1])
           b2 == Replace(b1, r[2])
           b3 == Replace(b2, r[3])
<1>1. CASE Renamed(b)
  BY <1>1 DEF Rename
<1>2. CASE ~Renamed(b)
  <2>0. Rename(f, b) = b3
    BY <1>2 DEF Rename
  <2>1. r[1].all \in BOOLEAN /\ r[2].all \in BOOLEAN /\ r[3].all \in BOOLEAN
    BY ReplacementsFacts
  <2> HIDE DEF r, b1, b2, b3
  <2>2. Replaced(b, b1, r[1])
    BY <2>1, ReplaceFacts DEF b1
  <2>3. Replaced(b1, b2, r[2])
    <3>1. b1 \in Seq(Places)
      BY <2>2 DEF Replaced
    <3>. QED
      BY <2>1, <3>1, ReplaceFacts DEF b2
  <2>4. Replaced(b2, b3, r[3])
    <3>1. b2 \in Seq(Places)
      BY <2>3 DEF Replaced
    <3>. QED
      BY <2>1, <3>1, ReplaceFacts DEF b3
  <2>5. DOMAIN b = 1..Len(b) /\ Len(b) \in Nat /\ \A i \in DOMAIN b : b[i] \in Places
    OBVIOUS
  <2>6. ASSUME NEW i \in DOMAIN b, NEW j \in 1..(i - 1) PROVE j \in DOMAIN b
    BY <2>5
  <2>7. ASSUME NEW i \in DOMAIN b, ~b3[i].new PROVE PassedOver(f, b3, i)
    <3>1. ~b1[i].new /\ ~b2[i].new
      BY <2>2, <2>3, <2>4, <2>7 DEF Replaced
    <3>2. ASSUME b3[i].text \in r[1].texts
          PROVE  ~r[1].all /\ \E j \in 1..(i - 1) : b3[j].new /\ b3[j].text \in r[1].texts
      BY <2>2, <2>3, <2>4, <2>6, <3>1, <3>2 DEF Replaced
    <3>3. ASSUME b3[i].text \in r[2].texts
          PROVE  ~r[2].all /\ \E j \in 1..(i - 1) : b3[j].new /\ b3[j].text \in r[2].texts
      BY <2>2, <2>3, <2>4, <2>6, <3>1, <3>3 DEF Replaced
    <3>4. ASSUME b3[i].text \in r[3].texts
          PROVE  ~r[3].all /\ \E j \in 1..(i - 1) : b3[j].new /\ b3[j].text \in r[3].texts
      BY <2>2, <2>3, <2>4, <2>7, <3>4 DEF Replaced
    <3>5. \A k \in 1..3 : k = 1 \/ k = 2 \/ k = 3
      OBVIOUS
    <3>. QED
      BY <3>2, <3>3, <3>4, <3>5 DEF PassedOver, r
  <2>8. ASSUME ~Renamed(b3) PROVE b3 = b
    <3>1. \A i \in DOMAIN b : ~b[i].new /\ ~b3[i].new /\ b3[i].text = b[i].text
      BY <1>2, <2>2, <2>3, <2>4, <2>8 DEF Renamed, Replaced
    <3>2. \A i \in DOMAIN b : b3[i] \in Places /\ b[i] \in Places
      BY <2>2, <2>3, <2>4, <2>5 DEF Replaced
    <3>3. \A p, q \in Places : p.text = q.text /\ ~p.new /\ ~q.new => p = q
      BY DEF Places
    <3>4. \A i \in DOMAIN b : b3[i] = b[i]
      BY <3>1, <3>2, <3>3
    <3>. QED
      BY <2>2, <2>3, <2>4, <2>5, <3>4 DEF Replaced
  <2>. QED
    BY <1>2, <2>0, <2>2, <2>3, <2>4, <2>7, <2>8 DEF Replaced
<1>. QED
  BY <1>1, <1>2

\* A patch leaves a file of the same sort, settled.
LEMMA PatchFacts ==
  ASSUME NEW f \in Sources, NEW b \in Bodies(f)
  PROVE  Patch(f, b) \in Bodies(f) /\ Settled(f, Patch(f, b))
<1>1. CASE b \in {Absent, Partial}
  BY <1>1 DEF Patch, Bodies, Settled
<1>2. CASE b \notin {Absent, Partial} /\ f = SuffixFile
  <2>1. Patch(f, b) = Guard(b) /\ b \in SuffixLists
    BY <1>2 DEF Patch, Bodies
  <2>2. /\ Guard(b) \in SuffixLists /\ Guard(b).named
        /\ ~Guard(b).static => ~Guard(b).declared
    <3>1. /\ b.ifs \in Nat /\ b.endifs \in Nat
          /\ b.named \in BOOLEAN /\ b.static \in BOOLEAN /\ b.declared \in BOOLEAN /\ b.bare \in BOOLEAN
      BY <2>1 DEF SuffixLists
    <3>2. CASE b.named /\ b.static
      BY <2>1, <3>2 DEF Guard
    <3>3. CASE ~(b.named /\ b.static)
      <4>1. Guard(b) = SuffixList(IF b.named THEN b.ifs ELSE b.ifs + 1,
                                  IF b.bare THEN b.endifs ELSE b.endifs + 1,
                                  TRUE, b.static \/ b.declared, b.declared /\ b.static, b.bare)
        BY <3>3, Zenon DEF Guard
      <4>. QED
        BY <3>1, <4>1 DEF SuffixList, SuffixLists
    <3>. QED
      BY <3>2, <3>3
  <2>3. ASSUME NEW c \in SuffixLists, c.named, ~c.static => ~c.declared
        PROVE  Guard(c) # c <=> Grows(c)
    <3>1. /\ c.ifs \in Nat /\ c.endifs \in Nat
          /\ c.named \in BOOLEAN /\ c.static \in BOOLEAN /\ c.declared \in BOOLEAN /\ c.bare \in BOOLEAN
      BY DEF SuffixLists
    <3>2. CASE c.static
      BY <2>3, <3>1, <3>2 DEF Guard, Grows
    <3>3. CASE ~c.static
      <4>1. Guard(c) = SuffixList(IF c.named THEN c.ifs ELSE c.ifs + 1,
                                  IF c.bare THEN c.endifs ELSE c.endifs + 1,
                                  TRUE, c.static \/ c.declared, c.declared /\ c.static, c.bare)
        BY <3>3, Zenon DEF Guard
      <4>2. CASE c.bare
        <5>1. Guard(c) = SuffixList(c.ifs, c.endifs, c.named, c.static, c.declared, c.bare)
          BY <2>3, <3>1, <3>3, <4>1, <4>2
        <5>2. c = SuffixList(c.ifs, c.endifs, c.named, c.static, c.declared, c.bare)
          BY DEF SuffixList, SuffixLists
        <5>. QED
          BY <4>2, <5>1, <5>2 DEF Grows
      <4>3. CASE ~c.bare
        <5>1. Guard(c).endifs = c.endifs + 1
          BY <4>1, <4>3 DEF SuffixList
        <5>. QED
          BY <3>1, <3>3, <4>3, <5>1 DEF Grows
      <4>. QED
        BY <4>2, <4>3
    <3>. QED
      BY <3>2, <3>3
  <2>4. Settled(f, Guard(b))
    BY <1>2, <2>2, <2>3 DEF Settled, Patch
  <2>. QED
    BY <1>2, <2>1, <2>2, <2>4 DEF Bodies
<1>3. CASE b \notin {Absent, Partial} /\ f # SuffixFile
  <2>1. Patch(f, b) = Rename(f, b) /\ b \in Seq(Places)
    BY <1>3 DEF Patch, Bodies
  <2>2. Rename(f, b) \in Seq(Places) /\ Rename(f, Rename(f, b)) = Rename(f, b)
    <3>1. CASE Renamed(b)
      BY <2>1, <3>1, RenameFacts
    <3>2. CASE ~Renamed(b)
      <4>1. Rename(f, b) \in Seq(Places) /\ (~Renamed(Rename(f, b)) => Rename(f, b) = b)
        BY <2>1, <3>2, RenameFacts
      <4>2. Renamed(Rename(f, b)) => Rename(f, Rename(f, b)) = Rename(f, b)
        BY <4>1, RenameFacts
      <4>. QED
        BY <4>1, <4>2
    <3>. QED
      BY <3>1, <3>2
  <2>. QED
    BY <1>3, <2>1, <2>2 DEF Settled, Patch, Bodies
<1>. QED
  BY <1>1, <1>2, <1>3

\* A patch mixes the names of a file only where it must.
LEMMA PatchKeepsAgreement ==
  ASSUME NEW f \in NameFiles, NEW b \in Bodies(f), Agreeing(f, b)
  PROVE  Agreeing(f, Patch(f, b))
<1>1. CASE b \in {Absent, Partial}
  BY <1>1 DEF Patch
<1>2. CASE b \notin {Absent, Partial}
  <2>1. f # SuffixFile
    BY UpdaterAssumption
  <2>2. Patch(f, b) = Rename(f, b) /\ b \in Seq(Places)
    BY <1>2, <2>1 DEF Patch, Bodies
  <2>3. CASE Renamed(b)
    BY <2>2, <2>3, RenameFacts
  <2>4. CASE ~Renamed(b)
    BY <2>2, <2>4, RenameFacts DEF Agreeing
  <2>. QED
    BY <2>3, <2>4
<1>. QED
  BY <1>1, <1>2

\* What the patch makes of a suffix list.
LEMMA GuardFacts ==
  ASSUME NEW u \in SuffixLists
  PROVE  LET b == Guard(u)
         IN  /\ b.named /\ (b.static <=> u.static \/ u.declared)
             /\ u.ifs = u.endifs => (b.ifs = b.endifs <=> ~Unclosable(u))
<1>1. CASE u.named /\ u.static
  BY <1>1 DEF Guard, SuffixLists, Unclosable
<1>2. CASE ~(u.named /\ u.static)
  <2>1. Guard(u) = SuffixList(IF u.named THEN u.ifs ELSE u.ifs + 1,
                              IF u.bare THEN u.endifs ELSE u.endifs + 1,
                              TRUE, u.static \/ u.declared, u.declared /\ u.static, u.bare)
    BY <1>2, Zenon DEF Guard
  <2>2. /\ u.ifs \in Nat /\ u.endifs \in Nat
        /\ u.named \in BOOLEAN /\ u.static \in BOOLEAN /\ u.declared \in BOOLEAN /\ u.bare \in BOOLEAN
    BY DEF SuffixLists
  <2>. QED
    BY <1>2, <2>1, <2>2 DEF SuffixList, Unclosable
<1>. QED
  BY <1>1, <1>2

LEMMA OrderFacts ==
  /\ Len(PatchOrder) \in Nat
  /\ \A i \in 1..Len(PatchOrder) : PatchOrder[i] \in Sources
  /\ \A f \in Sources : \E i \in 1..Len(PatchOrder) : PatchOrder[i] = f
  /\ \A i, j \in 1..Len(PatchOrder) : PatchOrder[i] = PatchOrder[j] => i = j
<1>1. /\ PatchOrder \in Seq(Sources)
      /\ \A f \in Sources : \E i \in DOMAIN PatchOrder : PatchOrder[i] = f
      /\ \A i, j \in DOMAIN PatchOrder : PatchOrder[i] = PatchOrder[j] => i = j
  BY UpdaterAssumption, Zenon
<1>. QED
  BY <1>1

\* What is to be copied of a tree is in ccall's domain.
LEMMA TreeFiles ==
  ASSUME ShapeInv, TreeInv
  PROVE  /\ DOMAIN upstream = Sources
         /\ export.bin \notin {NoTree, NoDir} => DOMAIN export.bin = Required
         /\ export.genfiles \notin {NoTree, NoDir} => DOMAIN export.genfiles = Required
         /\ pc = "source" => todo \subseteq Sources
         /\ pc \in {"bin", "genfiles"} => todo \subseteq Required
         /\ ~Copying => todo = {}
         /\ todo \subseteq DOMAIN ccall
<1>1. DOMAIN upstream = Sources
  BY UpdaterAssumption DEF ShapeInv
<1>2. export.bin \notin {NoTree, NoDir} => DOMAIN export.bin = Required
  BY UpdaterAssumption DEF ShapeInv
<1>3. export.genfiles \notin {NoTree, NoDir} => DOMAIN export.genfiles = Required
  BY UpdaterAssumption DEF ShapeInv
<1>4. pc = "source" => todo \subseteq Sources
  BY <1>1 DEF ShapeInv, Copying, InTree, Tree
<1>5. pc = "bin" => todo \subseteq Required
  BY <1>2 DEF ShapeInv, TreeInv, Copying, InTree, Tree
<1>6. pc = "genfiles" => todo \subseteq Required
  BY <1>3 DEF ShapeInv, TreeInv, Copying, InTree, Tree
<1>7. ~Copying => todo = {}
  BY DEF ShapeInv
<1>. QED
  BY <1>1, <1>2, <1>3, <1>4, <1>5, <1>6, <1>7 DEF ShapeInv, Copying

-----------------------------------------------------------------------------
(* The invariant *)

LEMMA InitEstablishes == Init => IInv
<1> SUFFICES ASSUME Init PROVE IInv
  OBVIOUS
<1> USE DEF Init
<1>1. ShapeInv
  BY DEF ShapeInv, Copying
<1>2. TreeInv /\ SourceInv /\ GeneratedInv
  BY DEF TreeInv, SourceInv, GeneratedInv
<1>3. PatchedInv
  BY OrderFacts DEF PatchedInv
<1>. QED
  BY <1>1, <1>2, <1>3 DEF IInv

\* The end of a run claims nothing of ccall.
LEMMA IdlePreserves ==
  ASSUME IInv, pc' = "idle", todo' = {}, patched' = 0, DOMAIN ccall' = DOMAIN ccall,
         upstream' \in Upstreams, export' \in Exports
  PROVE  IInv'
<1>1. ShapeInv'
  BY DEF IInv, ShapeInv, Copying
<1>2. TreeInv' /\ SourceInv' /\ GeneratedInv'
  BY DEF TreeInv, SourceInv, GeneratedInv
<1>3. PatchedInv'
  BY OrderFacts DEF PatchedInv
<1>. QED
  BY <1>1, <1>2, <1>3 DEF IInv

LEMMA PreparePreserves == IInv /\ Prepare => IInv'
BY IdlePreserves DEF Prepare, IInv, ShapeInv, Copying, PatchedInv

LEMMA StartPreserves == IInv /\ Start => IInv'
<1> SUFFICES ASSUME IInv, Start PROVE IInv'
  OBVIOUS
<1> USE DEF Start
<1>1. ShapeInv'
  BY DEF IInv, ShapeInv, Copying, InTree, Tree
<1>2. TreeInv'
  BY DEF TreeInv
<1>3. patched = 0 /\ patched' = 0
  BY DEF IInv, PatchedInv
<1>4. PatchedInv'
  BY <1>3, OrderFacts DEF PatchedInv
<1>5. SourceInv'
  BY TreeFiles DEF IInv, SourceInv, InTree, Tree
<1>6. GeneratedInv'
  BY DEF GeneratedInv
<1>. QED
  BY <1>1, <1>2, <1>4, <1>5, <1>6 DEF IInv

LEMMA StartPanicsPreserves == IInv /\ StartPanics => IInv'
BY IdlePreserves DEF StartPanics, IInv, ShapeInv, Copying, PatchedInv

\* A file that is copied is as its tree has it; the others stay.
LEMMA CopyPreserves == IInv /\ Copy => IInv'
<1> SUFFICES ASSUME IInv, Copy PROVE IInv'
  OBVIOUS
<1>1. PICK f \in todo : /\ ccall' = [ccall EXCEPT ![f] = Tree(pc)[f]]
                        /\ todo' = todo \ {f} /\ missed' = missed \ {f}
  BY DEF Copy
<1>2. UNCHANGED <<upstream, export, stubs, pc, patched, code, runs>> /\ Copying
  BY DEF Copy
<1>3. /\ f \in DOMAIN ccall /\ ccall'[f] = Tree(pc)[f]
      /\ \A g \in DOMAIN ccall : g # f => ccall'[g] = ccall[g]
  BY <1>1, TreeFiles DEF IInv
<1>4. ShapeInv'
  BY <1>1, <1>2 DEF IInv, ShapeInv, Copying, InTree, Tree
<1>5. TreeInv'
  BY <1>2 DEF IInv, TreeInv
<1>6. patched = 0
  BY <1>2 DEF IInv, PatchedInv, Copying
<1>7. PatchedInv'
  BY <1>2, <1>6 DEF IInv, PatchedInv
<1>8. SourceInv'
  <2> SUFFICES ASSUME NEW g \in Sources \ (missed' \cup todo'), upstream[g] # Absent
               PROVE  ccall'[g] = upstream[g]
    BY <1>2, <1>6 DEF SourceInv, Past
  <2>1. CASE g = f
    <3>1. pc = "source"
      BY <1>2, <2>1, TreeFiles, UpdaterAssumption DEF IInv, Copying
    <3>. QED
      BY <1>3, <2>1, <3>1 DEF Tree
  <2>2. CASE g # f
    <3>1. g \in Sources \ (missed \cup todo) /\ g \in DOMAIN ccall
      BY <1>1, <2>2 DEF IInv, ShapeInv
    <3>. QED
      BY <1>2, <1>3, <1>6, <2>2, <3>1 DEF IInv, SourceInv, Past, Copying
  <2>. QED
    BY <2>1, <2>2
<1>9. GeneratedInv'
  <2>1. ASSUME NEW g \in Required \ (missed' \cup todo'), g # f
        PROVE  /\ g \in Required \ (missed \cup todo) /\ g \in DOMAIN ccall /\ ccall'[g] = ccall[g]
    BY <1>1, <1>3, <2>1 DEF IInv, ShapeInv
  <2>2. ASSUME f \in Required
        PROVE  /\ pc = "bin" => ccall'[f] = export.bin[f]
               /\ pc = "genfiles" => ccall'[f] = Intended(f)
    <3>1. f \in InTree(pc)
      BY <1>2 DEF IInv, ShapeInv
    <3>2. f \notin Sources
      BY <2>2, UpdaterAssumption
    <3>. QED
      BY <1>3, <3>1, <3>2 DEF Tree, InTree, Intended, IInv, TreeInv
  <2>3. ASSUME NEW g PROVE Intended(g)' = Intended(g)
    BY <1>2 DEF Intended
  <2>. QED
    BY <1>2, <2>1, <2>2, <2>3 DEF IInv, GeneratedInv, Copying
<1>. QED
  BY <1>4, <1>5, <1>7, <1>8, <1>9 DEF IInv

\* All that is not copied counts as missed.
LEMMA CopyFailsPreserves == IInv /\ CopyFails => IInv'
<1> SUFFICES ASSUME IInv, CopyFails PROVE IInv'
  OBVIOUS
<1>1. /\ UNCHANGED <<upstream, export, stubs, pc, patched, code, runs>> /\ Copying
      /\ todo' = {} /\ missed' = missed \cup todo
  BY DEF CopyFails
<1>2. /\ DOMAIN ccall' = DOMAIN ccall
      /\ \A g \in DOMAIN ccall \ todo : ccall'[g] = ccall[g]
  BY DEF CopyFails
<1>3. ShapeInv' /\ TreeInv'
  BY <1>1, <1>2 DEF IInv, ShapeInv, TreeInv, Copying
<1>4. patched = 0
  BY <1>1 DEF IInv, PatchedInv, Copying
<1>5. PatchedInv'
  BY <1>1, <1>4 DEF IInv, PatchedInv
<1>6. SourceInv'
  BY <1>1, <1>2, <1>4 DEF IInv, SourceInv, ShapeInv, Past
<1>7. ASSUME NEW g PROVE Intended(g)' = Intended(g)
  BY <1>1 DEF Intended
<1>8. GeneratedInv'
  BY <1>1, <1>2, <1>7 DEF IInv, GeneratedInv, ShapeInv
<1>. QED
  BY <1>3, <1>5, <1>6, <1>8 DEF IInv

\* From one tree to the next: what the tree before it holds is copied.
LEMMA CopiedSourcePreserves == IInv /\ CopiedSource => IInv'
<1> SUFFICES ASSUME IInv, CopiedSource PROVE IInv'
  OBVIOUS
<1>1. pc = "source" /\ todo = {} /\ patched = 0 /\ export.bin # NoDir
  BY DEF CopiedSource, IInv, PatchedInv, TreeInv
<1>2. CASE Tree("bin") = NoTree
  BY <1>2, IdlePreserves DEF CopiedSource, NextTree, Exit, IInv, ShapeInv
<1>3. CASE Tree("bin") # NoTree
  <2>1. /\ pc' = "bin" /\ todo' = InTree("bin")
        /\ UNCHANGED <<upstream, export, ccall, stubs, patched, missed, code, runs>>
    BY <1>1, <1>3 DEF CopiedSource, NextTree, Tree
  <2>2. export.bin # NoTree
    BY <1>3 DEF Tree
  <2>3. ShapeInv' /\ TreeInv'
    BY <1>1, <2>1, <2>2 DEF IInv, ShapeInv, TreeInv, Copying, InTree, Tree
  <2>4. PatchedInv'
    BY <1>1, <2>1 DEF IInv, PatchedInv
  <2>5. SourceInv'
    BY <1>1, <2>1 DEF IInv, SourceInv, Past
  <2>6. todo' = {f \in Required : export.bin[f] # Absent}
    BY <1>1, <2>1, <2>2, TreeFiles DEF IInv, InTree, Tree
  <2>7. GeneratedInv'
    BY <2>1, <2>6 DEF GeneratedInv
  <2>. QED
    BY <2>3, <2>4, <2>5, <2>7 DEF IInv
<1>. QED
  BY <1>2, <1>3

LEMMA CopiedBinPreserves == IInv /\ CopiedBin => IInv'
<1> SUFFICES ASSUME IInv, CopiedBin PROVE IInv'
  OBVIOUS
<1>1. pc = "bin" /\ todo = {} /\ patched = 0 /\ export.bin \notin {NoDir, NoTree}
  BY DEF CopiedBin, IInv, PatchedInv, TreeInv
<1>2. CASE Tree("genfiles") = NoTree
  BY <1>2, IdlePreserves DEF CopiedBin, NextTree, Exit, IInv, ShapeInv
<1>3. CASE Tree("genfiles") # NoTree
  <2>1. /\ UNCHANGED <<upstream, export, ccall, stubs, patched, missed, code, runs>>
        /\ export.genfiles # NoTree
        /\ \/ export.genfiles = NoDir /\ pc' = "patch" /\ todo' = {}
           \/ /\ export.genfiles # NoDir /\ pc' = "genfiles"
              /\ todo' = {f \in Required : export.genfiles[f] # Absent}
    BY <1>1, <1>3, TreeFiles DEF CopiedBin, NextTree, Tree, InTree, IInv
  <2>2. ShapeInv'
    BY <1>1, <2>1, TreeFiles DEF IInv, ShapeInv, Copying, InTree, Tree
  <2>3. TreeInv'
    BY <1>1, <2>1 DEF TreeInv
  <2>4. PatchedInv'
    BY <1>1, <2>1 DEF IInv, PatchedInv
  <2>5. SourceInv'
    BY <1>1, <2>1 DEF IInv, SourceInv, Past
  <2>6. ASSUME NEW f \in Required \ (missed' \cup todo'), Intended(f)' # Absent
        PROVE  ccall'[f] = Intended(f)'
    <3>1. Intended(f)' = export.bin[f]
      BY <2>1, <2>6, UpdaterAssumption DEF Intended
    <3>. QED
      BY <1>1, <2>1, <2>6, <3>1 DEF IInv, GeneratedInv
  <2>7. GeneratedInv'
    BY <2>1, <2>6 DEF GeneratedInv
  <2>. QED
    BY <2>2, <2>3, <2>4, <2>5, <2>7 DEF IInv
<1>. QED
  BY <1>2, <1>3

LEMMA CopiedGenfilesPreserves == IInv /\ CopiedGenfiles => IInv'
<1> SUFFICES ASSUME IInv, CopiedGenfiles PROVE IInv'
  OBVIOUS
<1>1. /\ pc = "genfiles" /\ pc' = "patch" /\ todo = {}
      /\ UNCHANGED <<upstream, export, ccall, stubs, todo, patched, missed, code, runs>>
  BY DEF CopiedGenfiles
<1>2. ShapeInv' /\ TreeInv' /\ PatchedInv' /\ SourceInv'
  BY <1>1 DEF IInv, ShapeInv, TreeInv, PatchedInv, SourceInv, Past, Copying
<1>3. ASSUME NEW f PROVE Intended(f)' = Intended(f)
  BY <1>1 DEF Intended
<1>4. GeneratedInv'
  BY <1>1, <1>3 DEF IInv, GeneratedInv
<1>. QED
  BY <1>2, <1>4 DEF IInv

\* The next file of the list is patched, and no file that was before.
LEMMA PatchFilePreserves == IInv /\ BodiesInv /\ PatchFile => IInv'
<1> SUFFICES ASSUME IInv, BodiesInv, PatchFile PROVE IInv'
  OBVIOUS
<1>0. PICK n \in 1..Len(PatchOrder), f \in Sources : n = patched + 1 /\ f = PatchOrder[n]
  BY OrderFacts DEF PatchFile, IInv, PatchedInv
<1>1. /\ pc = "patch" /\ patched' = n /\ ccall' = [ccall EXCEPT ![f] = Patch(f, @)]
      /\ UNCHANGED <<upstream, export, stubs, pc, todo, missed, code, runs>>
  BY <1>0 DEF PatchFile
<1>2. /\ patched \in Nat /\ 1..n = (1..patched) \cup {n} /\ n \notin 1..patched
      /\ 1..patched \subseteq 1..Len(PatchOrder)
  BY <1>0, OrderFacts DEF IInv, PatchedInv
<1>3. /\ f \in DOMAIN ccall /\ ccall'[f] = Patch(f, ccall[f])
      /\ \A g \in DOMAIN ccall : g # f => ccall'[g] = ccall[g]
  BY <1>1 DEF IInv, ShapeInv
<1>4. ~Past(f) /\ Past(f)' /\ \A g \in Sources : g # f => (Past(g)' <=> Past(g))
  <2>1. Past(f)'
    BY <1>0, <1>1, <1>2 DEF Past
  <2>2. ~Past(f)
    BY <1>0, <1>2, OrderFacts DEF Past
  <2>3. ASSUME NEW g \in Sources, g # f PROVE Past(g)' <=> Past(g)
    BY <1>0, <1>1, <1>2, <2>3 DEF Past
  <2>. QED
    BY <2>1, <2>2, <2>3
<1>5. ShapeInv' /\ TreeInv'
  BY <1>1 DEF IInv, ShapeInv, TreeInv, Copying
<1>6. PatchedInv'
  <2>1. /\ patched' \in 0..Len(PatchOrder) /\ pc' = "patch"
    BY <1>0, <1>1, <1>2
  <2>2. ASSUME NEW j \in 1..patched'
        PROVE  Settled(PatchOrder[j], ccall'[PatchOrder[j]])
    <3>1. CASE PatchOrder[j] = f
      BY <1>3, <3>1, PatchFacts DEF BodiesInv
    <3>2. CASE PatchOrder[j] # f
      <4>1. j \in 1..patched
        BY <1>0, <1>1, <1>2, <3>2
      <4>2. PatchOrder[j] \in DOMAIN ccall
        BY <1>2, <4>1, OrderFacts DEF IInv, ShapeInv
      <4>. QED
        BY <1>3, <3>2, <4>1, <4>2 DEF IInv, PatchedInv
    <3>. QED
      BY <3>1, <3>2
  <2>. QED
    BY <2>1, <2>2 DEF PatchedInv
<1>7. SourceInv'
  <2> SUFFICES ASSUME NEW g \in Sources \ (missed \cup todo), upstream[g] # Absent
               PROVE  ccall'[g] = IF Past(g)' THEN Patch(g, upstream[g]) ELSE upstream[g]
    BY <1>1 DEF SourceInv
  <2>1. g \in DOMAIN ccall /\ ccall[g] = IF Past(g) THEN Patch(g, upstream[g]) ELSE upstream[g]
    BY <1>1 DEF IInv, SourceInv, ShapeInv
  <2>2. CASE g = f
    BY <1>3, <1>4, <2>1, <2>2
  <2>3. CASE g # f
    BY <1>3, <1>4, <2>1, <2>3
  <2>. QED
    BY <2>2, <2>3
<1>8. GeneratedInv'
  <2>1. ASSUME NEW g \in Required
        PROVE  Intended(g)' = Intended(g) /\ ccall'[g] = ccall[g]
    BY <1>1, <1>3, UpdaterAssumption DEF Intended, IInv, ShapeInv
  <2>. QED
    BY <1>1, <2>1 DEF IInv, GeneratedInv
<1>. QED
  BY <1>5, <1>6, <1>7, <1>8 DEF IInv

LEMMA EndPreserves == IInv /\ (PatchFails \/ WriteStubs \/ Check \/ Kill) => IInv'
<1> SUFFICES ASSUME IInv, PatchFails \/ WriteStubs \/ Check \/ Kill PROVE IInv'
  OBVIOUS
<1>1. CASE pc' = "idle"
  <2>1. /\ todo' = {} /\ patched' = 0 /\ DOMAIN ccall' = DOMAIN ccall
        /\ UNCHANGED <<upstream, export>>
    BY <1>1 DEF PatchFails, WriteStubs, Check, Kill, Exit
  <2>. QED
    BY <1>1, <2>1, IdlePreserves DEF IInv, ShapeInv
<1>2. CASE pc' # "idle"
  <2>1. /\ pc = "patch" /\ patched = Len(PatchOrder) /\ pc' = "check"
        /\ UNCHANGED <<upstream, export, ccall, todo, patched, missed>>
    BY <1>2 DEF PatchFails, WriteStubs, Check, Kill, Exit
  <2>2. ShapeInv' /\ TreeInv' /\ PatchedInv' /\ SourceInv'
    BY <2>1 DEF IInv, ShapeInv, TreeInv, PatchedInv, SourceInv, Past, Copying
  <2>3. ASSUME NEW f PROVE Intended(f)' = Intended(f)
    BY <2>1 DEF Intended
  <2>4. GeneratedInv'
    BY <2>1, <2>3 DEF IInv, GeneratedInv
  <2>. QED
    BY <2>2, <2>4 DEF IInv
<1>. QED
  BY <1>1, <1>2

\* What a step makes of a source: the checkout's, a part of one, or a patched one.
LEMMA SourceStep ==
  ASSUME IInv, [Next]_vars, NEW f \in Sources
  PROVE  ccall'[f] \in {ccall[f], upstream[f], Partial, Patch(f, ccall[f])}
<1>1. f \in DOMAIN ccall /\ f \notin Required
  BY UpdaterAssumption DEF IInv, ShapeInv
<1>2. CASE Copy
  <2>1. PICK g \in todo : ccall' = [ccall EXCEPT ![g] = Tree(pc)[g]]
    BY <1>2 DEF Copy
  <2>2. f = g => pc = "source"
    BY <1>1, <1>2, <2>1, TreeFiles DEF IInv, Copy, Copying
  <2>. QED
    BY <1>1, <2>1, <2>2 DEF Tree
<1>3. CASE CopyFails
  BY <1>1, <1>3 DEF CopyFails
<1>4. CASE PatchFile
  BY <1>1, <1>4 DEF PatchFile
<1>5. CASE PatchFails
  BY <1>1, <1>5 DEF PatchFails
<1>6. CASE UNCHANGED ccall
  BY <1>6
<1>. QED
  BY <1>2, <1>3, <1>4, <1>5, <1>6 DEF Next, vars, Prepare, Start, StartPanics, CopiedSource,
     CopiedBin, NextTree, CopiedGenfiles, WriteStubs, Check, Kill

LEMMA BodiesStep ==
  ASSUME IInv, BodiesInv, [Next]_vars
  PROVE  BodiesInv'
<1> SUFFICES ASSUME NEW f \in Sources PROVE ccall'[f] \in Bodies(f)
  BY DEF BodiesInv
<1>1. ccall[f] \in Bodies(f) /\ Patch(f, ccall[f]) \in Bodies(f)
  BY PatchFacts DEF BodiesInv
<1>2. upstream[f] \in Bodies(f)
  BY UpdaterAssumption DEF IInv, ShapeInv, Bodies, Sources
<1>3. Partial \in Bodies(f)
  BY DEF Bodies
<1>. QED
  BY <1>1, <1>2, <1>3, SourceStep

LEMMA NextPreserves == IInv /\ BodiesInv /\ [Next]_vars => IInv'
<1> SUFFICES ASSUME IInv, BodiesInv, [Next]_vars PROVE IInv'
  OBVIOUS
<1>1. CASE UNCHANGED vars
  BY <1>1 DEF vars, IInv, ShapeInv, TreeInv, PatchedInv, SourceInv, GeneratedInv,
     Past, Intended, Copying, InTree, Tree
<1>2. CASE Next
  BY <1>2, PreparePreserves, StartPreserves, StartPanicsPreserves, CopyPreserves,
     CopyFailsPreserves, CopiedSourcePreserves, CopiedBinPreserves, CopiedGenfilesPreserves,
     PatchFilePreserves, EndPreserves DEF Next
<1>. QED
  BY <1>1, <1>2

\* What ccall holds at each point of a run is what was copied and patched so
\* far, in every run, whatever the copies of it and the runs before it left.
THEOREM InvariantHolds == Spec => [](IInv /\ BodiesInv)
<1>1. Init => BodiesInv
  BY DEF Init, BodiesInv, Bodies
<1>2. IInv /\ BodiesInv /\ [Next]_vars => IInv' /\ BodiesInv'
  BY NextPreserves, BodiesStep
<1>. QED
  BY <1>1, <1>2, InitEstablishes, PTL DEF Spec
-----------------------------------------------------------------------------
(* The properties *)

\* A run that ends well leaves no whole source that its patch would change, in what
\* it did not copy, too, but for a suffix list of the one sort that keeps growing.
THEOREM PatchedAtTheEnd == Spec => EndsPatched
<1> DEFINE Good ==
      Check /\ code' = 0 =>
        \A f \in Sources : LET b == ccall'[f]
                           IN  b \notin {Absent, Partial} =>
                                 (Patch(f, b) # b <=> f = SuffixFile /\ Grows(b))
<1>1. ASSUME IInv, Check, NEW f \in Sources
      PROVE  Settled(f, ccall'[f])
  <2>1. PICK i \in 1..Len(PatchOrder) : PatchOrder[i] = f
    BY OrderFacts
  <2>2. patched = Len(PatchOrder) /\ ccall' = ccall
    BY <1>1 DEF Check, IInv, PatchedInv
  <2>. QED
    BY <1>1, <2>1, <2>2 DEF IInv, PatchedInv
<1>2. ASSUME IInv, [Next]_vars PROVE [Good]_vars
  BY <1>1, <1>2 DEF Settled
<1>. QED
  BY <1>2, InvariantHolds, PTL DEF Spec, EndsPatched

\* At the check every file is as intended whose copy in this run did not fail.
LEMMA CheckedIsIntended ==
  ASSUME IInv, Check, NEW f \in (Sources \cup Required) \ missed, Intended(f) # Absent
  PROVE  ccall'[f] = Intended(f)
<1>1. pc = "check" /\ todo = {} /\ patched = Len(PatchOrder) /\ ccall' = ccall
  BY TreeFiles DEF Check, IInv, PatchedInv, Copying
<1>2. CASE f \in Sources
  <2>1. Past(f)
    BY <1>1, <1>2, OrderFacts DEF Past
  <2>2. upstream[f] # Absent /\ Intended(f) = Patch(f, upstream[f])
    BY <1>2 DEF Intended, Patch
  <2>. QED
    BY <1>1, <1>2, <2>1, <2>2 DEF IInv, SourceInv
<1>3. CASE f \in Required
  BY <1>1, <1>3 DEF IInv, GeneratedInv
<1>. QED
  BY <1>2, <1>3

\* A run that ends well has put there all it should, but for failed copies.
THEOREM CopiedAsIntended == Spec => CopiedIsIntended
<1>1. ASSUME IInv, [Next]_vars
      PROVE  [Check /\ code' = 0 =>
                \A f \in (Sources \cup Required) \ missed : Intended(f) # Absent => ccall'[f] = Intended(f)]_vars
  BY <1>1, CheckedIsIntended
<1>. QED
  BY <1>1, InvariantHolds, PTL DEF Spec, CopiedIsIntended

\* The suffix list is guarded and static after such a run, and its guards are
\* closed but in the two cases where the patch adds one half of one.
THEOREM GuardsClosed == Spec => GuardClosed
<1> DEFINE Good ==
      Check /\ code' = 0 /\ upstream[SuffixFile] \notin {Absent, Partial} /\ SuffixFile \notin missed =>
        LET u == upstream[SuffixFile]
            b == ccall'[SuffixFile]
        IN  /\ b.named /\ (b.static <=> u.static \/ u.declared)
            /\ u.ifs = u.endifs => (b.ifs = b.endifs <=> ~Unclosable(u))
<1>1. ASSUME IInv, Check, upstream[SuffixFile] \notin {Absent, Partial}, SuffixFile \notin missed
      PROVE  ccall'[SuffixFile] = Guard(upstream[SuffixFile]) /\ upstream[SuffixFile] \in SuffixLists
  <2>1. pc = "check" /\ todo = {} /\ patched = Len(PatchOrder) /\ ccall' = ccall
    BY <1>1, TreeFiles DEF Check, IInv, PatchedInv, Copying
  <2>2. SuffixFile \in Sources /\ Past(SuffixFile)
    BY <2>1, OrderFacts DEF Past, Sources
  <2>3. upstream[SuffixFile] \in SuffixLists
    BY <1>1, UpdaterAssumption DEF IInv, ShapeInv
  <2>. QED
    BY <1>1, <2>1, <2>2, <2>3 DEF IInv, SourceInv, Patch
<1>2. ASSUME IInv, [Next]_vars PROVE [Good]_vars
  BY <1>1, <1>2, GuardFacts
<1>. QED
  BY <1>2, InvariantHolds, PTL DEF Spec, GuardClosed

\* Through all crashes between and within the runs, a file with the new name keeps
\* the old one only where its text has drifted or is there more often than the patch
\* replaces it, when that is so of what is renamed upstream.
THEOREM AgreeingNames ==
  ASSUME CheckoutsAgree
  PROVE  Spec => []NamesAgree
<1>1. Init => NamesAgree
  BY DEF Init, NamesAgree, Agreeing, Sources
<1>2. ASSUME NamesAgree, IInv, BodiesInv, [Next]_vars, NEW f \in NameFiles
      PROVE  Agreeing(f, ccall'[f])
  <2>1. f \in Sources /\ Agreeing(f, ccall[f]) /\ ccall[f] \in Bodies(f)
    BY <1>2 DEF NamesAgree, BodiesInv, Sources
  <2>2. Agreeing(f, upstream[f]) /\ Agreeing(f, Partial)
    BY <1>2, CheckoutsAgree DEF IInv, ShapeInv, CheckoutsAgree, Agreeing
  <2>3. Agreeing(f, Patch(f, ccall[f]))
    BY <2>1, PatchKeepsAgreement
  <2>4. ccall'[f] \in {ccall[f], upstream[f], Partial, Patch(f, ccall[f])}
    BY <1>2, <2>1, SourceStep
  <2>. QED
    BY <2>1, <2>2, <2>3, <2>4
<1>3. NamesAgree /\ IInv /\ BodiesInv /\ [Next]_vars => NamesAgree'
  BY <1>2 DEF NamesAgree
<1>. QED
  BY <1>1, <1>3, InvariantHolds, PTL DEF Spec
=============================================================================
